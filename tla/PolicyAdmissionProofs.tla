------------------------- MODULE PolicyAdmissionProofs -------------------------
(***************************************************************************)
(* What holds of PolicyAdmission for every set of servers, editors,        *)
(* patches, tables and requests, and every value of the bounds.            *)
(***************************************************************************)
EXTENDS PolicyAdmission, FiniteSetTheorems, SequenceTheorems, WellFoundedInduction, TLAPS

Fields == DOMAIN Defaults

(* A document: a function of the fields, with a budget. *)
IsDoc(d) == DOMAIN d = Fields /\ d = [f \in Fields |-> d[f]] /\ d.budget \in Budgets

(* A sequence of whatever it holds. *)
IsSeq(s) == s \in Seq({s[n] : n \in 1..Len(s)})

(* What an editor holds is the revision it names, or it names none. *)
DraftsFit ==
    \A e \in Editors : draft[e].open =>
        /\ IsDoc(draft[e].doc) /\ draft[e].patch \in Patches
        /\ \/ draft[e].expected = -1
           \/ draft[e].expected \in 0..Revision /\ draft[e].doc = At(draft[e].expected)

(* The staged record holds the revision it was staged on and its change of the table. *)
StagedFits ==
    staged.open =>
        /\ staged.expected \in 0..Revision
        /\ staged.previous = At(staged.expected)
        /\ staged.candidate = [At(staged.expected) EXCEPT !.table = staged.candidate.table]

(* The edits in order: what was saved, and what is about to be. *)
EditsHeld ==
    /\ IsSeq(saved) /\ \A n \in 1..Revision : IsDoc(saved[n].doc)
    /\ draft = [e \in Editors |-> draft[e]]
    /\ DraftsFit /\ StagedFits /\ EditsNotLost

(* Any sequence is one of its own elements. *)
LEMMA SeqOfOwn ==
    ASSUME NEW T, NEW r \in Seq(T)
    PROVE  IsSeq(r)
  BY DEF IsSeq

(* What a sequence is after one more element. *)
LEMMA AppendFacts ==
    ASSUME NEW s, IsSeq(s), NEW x
    PROVE  /\ IsSeq(Append(s, x)) /\ Len(s) \in Nat
           /\ Len(Append(s, x)) = Len(s) + 1
           /\ \A n \in 1..Len(s) : Append(s, x)[n] = s[n]
           /\ Append(s, x)[Len(s) + 1] = x
  <1> DEFINE S == {s[n] : n \in 1..Len(s)}
             T == S \cup {x}
             r == Append(s, x)
  <1>1. s \in Seq(S)
    BY DEF IsSeq
  <1> HIDE DEF S
  <1>2. s \in Seq(T) /\ x \in T
    BY <1>1
  <1> HIDE DEF T
  <1>3. /\ r \in Seq(T) /\ Len(s) \in Nat /\ Len(r) = Len(s) + 1
        /\ \A n \in 1..Len(s) : r[n] = s[n]
        /\ r[Len(s) + 1] = x
    BY <1>2
  <1>4. r \in Seq({r[n] : n \in 1..Len(r)})
    <2> HIDE DEF r
    <2> QED
      BY <1>3
  <1> QED
    BY <1>3, <1>4 DEF IsSeq

(* A step that leaves the stored document alone leaves every revision alone. *)
LEMMA SameHistory ==
    ASSUME saved' = saved
    PROVE  /\ Revision' = Revision /\ \A n : At(n)' = At(n)
           /\ EditsNotLost' <=> EditsNotLost
  BY DEF Revision, At, EditsNotLost, Patched

(* The revisions there were are there still after a save. *)
LEMMA SaveAppends ==
    ASSUME IsSeq(saved), NEW row, saved' = Append(saved, row)
    PROVE  /\ IsSeq(saved') /\ Revision \in Nat /\ Revision' = Revision + 1
           /\ \A n \in 1..Revision : saved'[n] = saved[n]
           /\ saved'[Revision + 1] = row
           /\ \A n \in 0..Revision : At(n)' = At(n)
           /\ \A n : n = Revision + 1 => At(n)' = row.doc
  <1>2. /\ IsSeq(saved') /\ Revision \in Nat /\ Revision' = Revision + 1
        /\ \A n \in 1..Revision : saved'[n] = saved[n]
        /\ saved'[Revision + 1] = row
    BY AppendFacts DEF Revision
  <1>4. ASSUME NEW n \in 0..Revision PROVE At(n)' = At(n)
    <2>1. CASE n = 0
      BY <2>1 DEF At
    <2>2. CASE n # 0
      <3>1. n \in 1..Revision
        BY <1>2, <2>2
      <3> QED
        BY <1>2, <2>2, <3>1 DEF At
    <2> QED
      BY <2>1, <2>2
  <1>5. ASSUME NEW n, n = Revision + 1 PROVE At(n)' = row.doc
    <2>1. n # 0
      BY <1>2, <1>5
    <2>2. saved'[n] = row
      BY <1>2, <1>5
    <2> QED
      BY <2>1, <2>2 DEF At
  <1> QED
    BY <1>2, <1>4, <1>5

--------------------------------------------------------------------------------
(* No edit is lost.                                                        *)

(* A patch is a document again, and replacing the table is a patch of it. *)
LEMMA PatchedIsDoc ==
    ASSUME NEW doc, IsDoc(doc), NEW x, DOMAIN x \subseteq Fields, "budget" \in DOMAIN x => x.budget \in Budgets
    PROVE  IsDoc(Patched(doc, x))
  BY DefaultsAssumption DEF IsDoc, Patched, Fields

(* A new table is a patch of one field. *)
LEMMA TableIsPatch ==
    ASSUME NEW doc, IsDoc(doc), NEW table
    PROVE  LET d == [doc EXCEPT !.table = table]
           IN  IsDoc(d) /\ d.table = table /\ d = Patched(doc, [table |-> table])
  <1> DEFINE d == [doc EXCEPT !.table = table]
             x == [table |-> table]
  <1>1. "table" \in Fields /\ "budget" \in Fields
    BY DefaultsAssumption DEF Fields
  <1>2. /\ DOMAIN d = Fields /\ d = [f \in Fields |-> d[f]]
        /\ \A f \in Fields : d[f] = IF f = "table" THEN table ELSE doc[f]
    BY <1>1 DEF IsDoc
  <1>3. IsDoc(d) /\ d.table = table
    BY <1>1, <1>2 DEF IsDoc
  <1>4. DOMAIN x = {"table"} /\ x["table"] = table
    OBVIOUS
  <1>5. Patched(doc, x) = [f \in Fields |-> IF f = "table" THEN table ELSE doc[f]]
    BY <1>4 DEF Patched, IsDoc
  <1>6. d = Patched(doc, x)
    BY <1>2, <1>5
  <1> QED
    BY <1>3, <1>6

(* The document of a revision is a document. *)
LEMMA AtIsDoc ==
    ASSUME EditsHeld, NEW n \in 0..Revision
    PROVE  IsDoc(At(n)) /\ Revision \in Nat
  <1>1. Revision \in Nat
    BY DEF EditsHeld, IsSeq, Revision
  <1>2. CASE n = 0
    BY <1>1, <1>2, DefaultsAssumption DEF At, IsDoc, Fields
  <1>3. CASE n # 0
    BY <1>1, <1>3 DEF At, EditsHeld
  <1> QED
    BY <1>1, <1>2, <1>3

(* A save on the revision it was made for loses nothing of that revision. *)
LEMMA SaveKeeps ==
    ASSUME EditsHeld, NEW row, IsDoc(row.doc), saved' = Append(saved, row),
           row.by \in {"edit", "promote"} => row.doc = Patched(Current, row.patch),
           row.by = "rollback" => Revision >= 1 /\ row.doc = At(Revision - 1),
           draft' = [e \in Editors |-> draft'[e]],
           \A e \in Editors : draft'[e] = draft[e] \/ draft'[e] = NoDraft,
           staged' = staged
    PROVE  EditsHeld'
  <1>1. PICK k : k = Revision + 1
    OBVIOUS
  <1>2. /\ IsSeq(saved') /\ Revision \in Nat /\ Revision' = k /\ k \in Nat
        /\ \A n \in 1..Revision : saved'[n] = saved[n]
        /\ saved'[k] = row
        /\ \A n \in 0..Revision : At(n)' = At(n)
    <2>1. IsSeq(saved)
      BY DEF EditsHeld
    <2>2. /\ IsSeq(saved') /\ Revision \in Nat /\ Revision' = Revision + 1
          /\ \A n \in 1..Revision : saved'[n] = saved[n]
          /\ saved'[Revision + 1] = row
          /\ \A n \in 0..Revision : At(n)' = At(n)
      BY <2>1, SaveAppends
    <2>3. k \in Nat /\ Revision' = k
      BY <1>1, <2>2
    <2>4. saved'[k] = row
      BY <1>1, <2>2
    <2> QED
      BY <2>2, <2>3, <2>4
  <1>3. ASSUME NEW n \in 1..Revision' PROVE IsDoc(saved'[n].doc)
    <2>1. n \in 1..Revision \/ n = k
      BY <1>1, <1>2
    <2>2. CASE n = k
      BY <1>2, <2>2
    <2>3. CASE n \in 1..Revision
      BY <1>2, <2>3 DEF EditsHeld
    <2> QED
      BY <2>1, <2>2, <2>3
  <1>4. DraftsFit'
    <2> SUFFICES ASSUME NEW e \in Editors, draft'[e].open
                 PROVE  /\ IsDoc(draft'[e].doc) /\ draft'[e].patch \in Patches
                        /\ \/ draft'[e].expected = -1
                           \/ draft'[e].expected \in 0..Revision' /\ draft'[e].doc = At(draft[e].expected)'
      BY DEF DraftsFit, At
    <2>1. draft'[e] = draft[e]
      BY DEF NoDraft
    <2>2. /\ IsDoc(draft[e].doc) /\ draft[e].patch \in Patches
          /\ \/ draft[e].expected = -1
             \/ draft[e].expected \in 0..Revision /\ draft[e].doc = At(draft[e].expected)
      BY <2>1 DEF EditsHeld, DraftsFit
    <2>3. ASSUME NEW n \in 0..Revision, draft[e].expected = n PROVE At(draft[e].expected)' = At(n)
      BY <1>2, <2>1, <2>3
    <2> QED
      BY <1>1, <1>2, <2>1, <2>2, <2>3
  <1>5. StagedFits'
    <2> SUFFICES ASSUME staged.open
                 PROVE  /\ staged.expected \in 0..Revision'
                        /\ staged.previous = At(staged.expected)'
                        /\ staged.candidate = [At(staged.expected)' EXCEPT !.table = staged.candidate.table]
      BY DEF StagedFits
    <2>1. /\ staged.expected \in 0..Revision
          /\ staged.previous = At(staged.expected)
          /\ staged.candidate = [At(staged.expected) EXCEPT !.table = staged.candidate.table]
      BY DEF EditsHeld, StagedFits
    <2>2. At(staged.expected)' = At(staged.expected)
      BY <1>2, <2>1
    <2> QED
      BY <1>1, <1>2, <2>1, <2>2
  <1>6. EditsNotLost'
    <2> SUFFICES ASSUME NEW n \in 1..Revision'
                 PROVE  IF saved'[n].by = "rollback"
                        THEN n >= 2 /\ saved'[n].doc = At(n - 2)'
                        ELSE saved'[n].by \in {"edit", "promote"} => saved'[n].doc = Patched(At(n - 1)', saved'[n].patch)
      BY DEF EditsNotLost, Patched
    <2>1. CASE n \in 1..Revision
      <3>0. n - 1 \in 0..Revision /\ (n >= 2 => n - 2 \in 0..Revision)
        BY <1>2, <2>1
      <3>1. saved'[n] = saved[n] /\ At(n - 1)' = At(n - 1)
        BY <1>2, <2>1, <3>0
      <3>2. n >= 2 => At(n - 2)' = At(n - 2)
        BY <1>2, <2>1, <3>0
      <3> QED
        BY <2>1, <3>1, <3>2 DEF EditsHeld, EditsNotLost
    <2>2. CASE n = k
      <3>0. n - 1 = Revision
        BY <1>1, <1>2, <2>2
      <3>1. saved'[n] = row /\ n - 1 = Revision
        BY <1>2, <2>2, <3>0
      <3>2. CASE row.by = "rollback"
        <4>1. n >= 2 /\ n - 2 = Revision - 1 /\ n - 2 \in 0..Revision
          BY <1>1, <1>2, <2>2, <3>2
        <4>2. At(n - 2)' = At(n - 2)
          BY <1>2, <4>1
        <4> QED
          BY <3>1, <3>2, <4>1, <4>2
      <3>3. CASE row.by # "rollback"
        <4>1. n - 1 \in 0..Revision
          BY <1>2, <3>1
        <4>2. At(n - 1)' = Current
          BY <1>2, <3>1, <4>1 DEF Current
        <4> QED
          BY <3>1, <3>3, <4>2
      <3> QED
        BY <3>2, <3>3
    <2>3. n \in 1..Revision \/ n = k
      BY <1>1, <1>2
    <2> QED
      BY <2>1, <2>2, <2>3
  <1> QED
    BY <1>2, <1>3, <1>4, <1>5, <1>6 DEF EditsHeld, IsDoc, IsSeq

(* Every document in force is one. *)
LEMMA CurrentIsDoc ==
    ASSUME EditsHeld
    PROVE  IsDoc(Current) /\ Revision \in Nat
  <1>1. Revision \in Nat
    BY DEF EditsHeld, IsSeq, Revision
  <1>2. Revision \in 0..Revision
    BY <1>1
  <1> QED
    BY <1>1, <1>2, AtIsDoc DEF Current

(* The editors: loading, saving on the loaded revision or on none, and giving up. *)
LEMMA EditorKeeps ==
    ASSUME EditsHeld, NEW e \in Editors,
           SaveDraft(e) \/ DropDraft(e) \/ \E x \in Patches, named \in BOOLEAN : Load(e, x, named)
    PROVE  EditsHeld'
  <1>1. CASE \E x \in Patches, named \in BOOLEAN : Load(e, x, named)
    <2>1. PICK x \in Patches, named \in BOOLEAN : Load(e, x, named)
      BY <1>1
    <2> DEFINE expected == IF named THEN Revision ELSE -1
               row == [open |-> TRUE, doc |-> Current, patch |-> x, expected |-> expected]
    <2>2. draft' = [draft EXCEPT ![e] = row] /\ UNCHANGED <<saved, staged>>
      BY <2>1 DEF Load
    <2>3. row.doc = Current /\ row.patch = x /\ row.expected = expected
      OBVIOUS
    <2>4. expected = Revision \/ expected = -1
      OBVIOUS
    <2> HIDE DEF row, expected
    <2>5. \A d \in Editors : draft'[d] = IF d = e THEN row ELSE draft[d]
      BY <2>2 DEF EditsHeld
    <2>6. draft' = [d \in Editors |-> draft'[d]]
      BY <2>2 DEF EditsHeld
    <2>7. /\ Revision' = Revision /\ EditsNotLost'
          /\ \A n : At(n)' = At(n)
      BY <2>2, SameHistory DEF EditsHeld
    <2>8. Revision \in 0..Revision /\ Current = At(Revision)
      BY CurrentIsDoc DEF Current
    <2>9. DraftsFit'
      <3> SUFFICES ASSUME NEW d \in Editors, draft'[d].open
                   PROVE  /\ IsDoc(draft'[d].doc) /\ draft'[d].patch \in Patches
                          /\ \/ draft'[d].expected = -1
                             \/ draft'[d].expected \in 0..Revision /\ draft'[d].doc = At(draft'[d].expected)
        BY <2>2, <2>7 DEF DraftsFit, At
      <3>1. CASE d = e
        BY <2>3, <2>4, <2>5, <2>8, <3>1, CurrentIsDoc
      <3>2. CASE d # e
        BY <2>5, <3>2 DEF EditsHeld, DraftsFit
      <3> QED
        BY <3>1, <3>2
    <2>10. StagedFits'
      BY <2>2, <2>7 DEF EditsHeld, StagedFits, At, Revision
    <2> QED
      BY <2>2, <2>6, <2>7, <2>9, <2>10 DEF EditsHeld, IsDoc, IsSeq
  <1>2. CASE SaveDraft(e)
    <2> DEFINE by == IF draft[e].expected = -1 THEN "blind" ELSE "edit"
               doc == Patched(draft[e].doc, draft[e].patch)
               row == [doc |-> doc, by |-> by, patch |-> draft[e].patch]
    <2>1. /\ draft[e].open /\ draft[e].expected \in {-1, Revision} /\ saved' = Append(saved, row)
          /\ draft' = [draft EXCEPT ![e] = NoDraft] /\ staged' = staged
      BY <1>2 DEF SaveDraft, Save
    <2>2. row.doc = doc /\ row.by = by /\ row.patch = draft[e].patch
      OBVIOUS
    <2>3. IsDoc(doc)
      <3>1. IsDoc(draft[e].doc) /\ draft[e].patch \in Patches
        BY <2>1 DEF EditsHeld, DraftsFit
      <3>2. /\ DOMAIN draft[e].patch \subseteq Fields
            /\ "budget" \in DOMAIN draft[e].patch => draft[e].patch.budget \in Budgets
        <4>1. PICK x \in Patches : x = draft[e].patch
          BY <3>1
        <4>2. DOMAIN x \subseteq Fields /\ ("budget" \in DOMAIN x => x.budget \in Budgets)
          BY Zenon, PatchesAssumption DEF PatchesValid, Fields
        <4> QED
          BY <4>1, <4>2
      <3> HIDE DEF row, by
      <3> QED
        BY <3>1, <3>2, PatchedIsDoc
    <2>4. by # "rollback" /\ by # "promote" /\ (by = "edit" => draft[e].expected = Revision)
      BY <2>1
    <2>5. draft[e].expected = Revision => draft[e].doc = Current
      BY <2>1, CurrentIsDoc DEF EditsHeld, DraftsFit, Current
    <2>6. by = "edit" => doc = Patched(Current, draft[e].patch)
      BY <2>4, <2>5
    <2> HIDE DEF row, by, doc
    <2>7. draft' = [d \in Editors |-> draft'[d]]
      BY <2>1 DEF EditsHeld
    <2>8. \A d \in Editors : draft'[d] = draft[d] \/ draft'[d] = NoDraft
      BY <2>1 DEF EditsHeld
    <2> QED
      BY <2>1, <2>2, <2>3, <2>4, <2>6, <2>7, <2>8, SaveKeeps
  <1>3. CASE DropDraft(e)
    <2>1. draft' = [draft EXCEPT ![e] = NoDraft] /\ UNCHANGED <<saved, staged>>
      BY <1>3 DEF DropDraft
    <2>2. /\ draft' = [d \in Editors |-> draft'[d]]
          /\ \A d \in Editors : draft'[d] = draft[d] \/ draft'[d] = NoDraft
      BY <2>1 DEF EditsHeld
    <2>3. DraftsFit'
      BY <2>1, <2>2 DEF EditsHeld, DraftsFit, At, Revision, NoDraft
    <2>4. StagedFits' /\ EditsNotLost'
      BY <2>1, SameHistory DEF EditsHeld, StagedFits, At, Revision
    <2> QED
      BY <2>1, <2>2, <2>3, <2>4 DEF EditsHeld, IsDoc, IsSeq, Revision
  <1> QED
    BY <1>1, <1>2, <1>3

(* A promotion is staged on a revision, written over that revision only, and rolled back
   only while it is the last one. *)
LEMMA PromotionKeeps ==
    ASSUME EditsHeld, Promote \/ Rollback \/ \E table \in Tables : Stage(table)
    PROVE  EditsHeld'
  <1>0. draft' = draft
    BY DEF Promote, Rollback, Stage
  <1>1. CASE \E table \in Tables : Stage(table)
    <2>1. PICK table \in Tables : Stage(table)
      BY <1>1
    <2> DEFINE candidate == [Current EXCEPT !.table = table]
               row == [open |-> TRUE, expected |-> Revision, previous |-> Current, candidate |-> candidate]
    <2>2. staged' = row /\ saved' = saved
      BY <2>1 DEF Stage
    <2>3. row.expected = Revision /\ row.previous = Current /\ row.candidate = candidate
      OBVIOUS
    <2>4. candidate.table = table /\ candidate = [Current EXCEPT !.table = table]
      BY CurrentIsDoc, TableIsPatch
    <2> HIDE DEF row, candidate
    <2>5. Revision \in 0..Revision /\ Current = At(Revision)
      BY CurrentIsDoc DEF Current
    <2>6. StagedFits'
      <3>1. /\ staged'.expected \in 0..Revision
            /\ staged'.previous = At(staged'.expected)
            /\ staged'.candidate = [At(staged'.expected) EXCEPT !.table = staged'.candidate.table]
        BY <2>2, <2>3, <2>4, <2>5
      <3> QED
        BY <2>2, <3>1 DEF StagedFits, At, Revision
    <2>7. DraftsFit' /\ EditsNotLost'
      BY <1>0, <2>2, SameHistory DEF EditsHeld, DraftsFit, At, Revision
    <2> QED
      BY <1>0, <2>2, <2>6, <2>7 DEF EditsHeld, IsDoc, IsSeq, Revision
  <1>2. CASE Promote
    <2> DEFINE x == [table |-> staged.candidate.table]
               row == [doc |-> staged.candidate, by |-> "promote", patch |-> x]
    <2>1. /\ staged.open /\ staged.expected \in {-1, Revision} /\ saved' = Append(saved, row)
          /\ staged' = staged
      BY <1>2 DEF Promote, Save
    <2>2. row.doc = staged.candidate /\ row.by = "promote" /\ row.patch = x
      OBVIOUS
    <2>3. staged.candidate = [Current EXCEPT !.table = staged.candidate.table]
      BY <2>1, CurrentIsDoc DEF EditsHeld, StagedFits, Current
    <2>4. IsDoc(staged.candidate) /\ staged.candidate = Patched(Current, x)
      BY <2>3, CurrentIsDoc, TableIsPatch
    <2> HIDE DEF row, x
    <2>5. draft' = [d \in Editors |-> draft'[d]]
      BY <1>0 DEF EditsHeld
    <2> QED
      BY <1>0, <2>1, <2>2, <2>4, <2>5, SaveKeeps
  <1>3. CASE Rollback
    <2> DEFINE x == [table |-> staged.previous.table]
               row == [doc |-> staged.previous, by |-> "rollback", patch |-> x]
    <2>1. /\ staged.open /\ staged.expected + 1 \in {-1, Revision} /\ saved' = Append(saved, row)
          /\ staged' = staged
      BY <1>3 DEF Rollback, Save
    <2>2. row.doc = staged.previous /\ row.by = "rollback"
      OBVIOUS
    <2>3. staged.expected \in 0..Revision /\ staged.previous = At(staged.expected)
      BY <2>1 DEF EditsHeld, StagedFits
    <2>4. Revision >= 1 /\ staged.expected = Revision - 1
      BY <2>1, <2>3, CurrentIsDoc
    <2>5. IsDoc(staged.previous) /\ staged.previous = At(Revision - 1)
      BY <2>3, <2>4, AtIsDoc
    <2> HIDE DEF row, x
    <2>6. draft' = [d \in Editors |-> draft'[d]]
      BY <1>0 DEF EditsHeld
    <2> QED
      BY <1>0, <2>1, <2>2, <2>4, <2>5, <2>6, SaveKeeps
  <1> QED
    BY <1>1, <1>2, <1>3

(* The steps of start_task, and what happens to tasks later. *)
TaskStep ==
    \/ \E s \in Servers : \/ \E x \in Submissions : Submit(s, x.req, x.report)
                          \/ Create(s) \/ Refuse(s) \/ Prepare(s) \/ PrepareFails(s) \/ Crash(s)
    \/ \E i \in 1..Len(tasks) : GiveUp(i) \/ Continue(i)
    \/ \E p \in Providers : WindowMoves(p)

(* Tasks do not write the document. *)
LEMMA TasksLeaveDocument ==
    ASSUME TaskStep \/ UNCHANGED vars
    PROVE  UNCHANGED <<saved, draft, staged>>
  BY DEF TaskStep, Submit, Create, Refuse, Prepare, PrepareFails, Crash, GiveUp, Continue, WindowMoves, vars

(* Every step keeps the documents and the drafts in order. *)
LEMMA NextEdits ==
    ASSUME EditsHeld, [Next]_vars
    PROVE  EditsHeld'
  <1>1. CASE UNCHANGED <<saved, draft, staged>>
    BY <1>1 DEF EditsHeld, IsDoc, IsSeq, Revision, DraftsFit, StagedFits, EditsNotLost, At, Patched
  <1>2. CASE TaskStep \/ UNCHANGED vars
    BY <1>1, <1>2, TasksLeaveDocument
  <1> QED
    BY <1>2, EditorKeeps, PromotionKeeps DEF Next, TaskStep

(* Nothing is saved, loaded or staged at first. *)
LEMMA InitEdits == Init => EditsHeld
  <1> SUFFICES ASSUME Init PROVE EditsHeld
    OBVIOUS
  <1>1. IsSeq(saved) /\ Revision = 0
    BY DEF Init, IsSeq, Revision
  <1> QED
    BY <1>1 DEF Init, EditsHeld, DraftsFit, StagedFits, EditsNotLost, NoDraft, NotStaged

(* However the dashboard, the command line and a promotion interleave: a save changes what
   it names in the revision before it and nothing else, and a rollback restores exactly
   what the promotion replaced. *)
THEOREM NoEditIsLost == Spec => []EditsNotLost
  <1>1. Init => EditsHeld
    BY InitEdits
  <1>2. EditsHeld => EditsNotLost
    BY DEF EditsHeld
  <1> QED
    BY <1>1, <1>2, NextEdits, PTL DEF Spec

--------------------------------------------------------------------------------
(* The tasks.                                                              *)

TaskFields == {"req", "state", "revision", "sel", "level"}

(* A task of a configured provider, in one of its states. *)
IsTask(t) ==
    /\ DOMAIN t = TaskFields /\ t = [f \in TaskFields |-> t[f]]
    /\ t.req.provider \in Providers /\ t.state \in {"preparing", "live", "gone"}

(* A server's call has a request of a configured provider, or a task that exists. *)
CallsFit ==
    /\ call = [s \in Servers |-> call[s]]
    /\ \A s \in Servers : /\ call[s].pc = "selected" => call[s].req.provider \in Providers
                          /\ call[s].pc = "created" => call[s].task \in 1..Len(tasks)

(* Tasks, calls and turn counts are of their types. *)
AdmissionTyped ==
    /\ IsSeq(tasks) /\ \A i \in 1..Len(tasks) : IsTask(tasks[i])
    /\ CallsFit
    /\ turns \in [Providers -> [first: Nat, later: Nat]]

TasksHeld == AdmissionTyped /\ SecondOpinionsIndependent

(* What a step may do to the tasks: change the state of one, which stays gone once it is. *)
StateMoves ==
    /\ IsSeq(tasks') /\ Len(tasks') = Len(tasks)
    /\ \A i \in 1..Len(tasks) : /\ IsTask(tasks'[i]) /\ tasks'[i].req = tasks[i].req
                                /\ tasks[i].state = "gone" => tasks'[i].state = "gone"

(* Setting a task's state changes nothing else of it. *)
LEMMA SetStateMoves ==
    ASSUME AdmissionTyped, NEW i \in 1..Len(tasks), NEW state \in {"preparing", "live", "gone"},
           tasks[i].state = "gone" => state = "gone",
           tasks' = [tasks EXCEPT ![i].state = state]
    PROVE  StateMoves
  <1> DEFINE t == [tasks[i] EXCEPT !.state = state]
             S == {tasks[n] : n \in 1..Len(tasks)}
  <1>1. IsTask(tasks[i]) /\ tasks \in Seq(S) /\ Len(tasks) \in Nat
    BY DEF AdmissionTyped, IsSeq
  <1>2. DOMAIN t = TaskFields /\ t = [f \in TaskFields |-> t[f]] /\ t.state = state /\ t.req = tasks[i].req
    BY <1>1 DEF IsTask, TaskFields
  <1>3. IsTask(t)
    BY <1>1, <1>2 DEF IsTask
  <1>4. tasks' = [tasks EXCEPT ![i] = t]
    OBVIOUS
  <1> HIDE DEF t, S
  <1>5. /\ tasks' \in Seq(S \cup {t}) /\ Len(tasks') = Len(tasks)
        /\ \A n \in 1..Len(tasks) : tasks'[n] = IF n = i THEN t ELSE tasks[n]
    BY <1>1, <1>4
  <1>6. IsSeq(tasks')
    BY <1>5, SeqOfOwn
  <1>7. \A n \in 1..Len(tasks) : IsTask(tasks[n])
    BY DEF AdmissionTyped
  <1>8. \A n \in 1..Len(tasks) : /\ IsTask(tasks'[n]) /\ tasks'[n].req = tasks[n].req
                                 /\ tasks[n].state = "gone" => tasks'[n].state = "gone"
    BY <1>2, <1>3, <1>5, <1>7
  <1> QED
    BY <1>5, <1>6, <1>8 DEF StateMoves

(* A step that leaves the rows alone moves none of them. *)
LEMMA SameTasksMove ==
    ASSUME AdmissionTyped, tasks' = tasks
    PROVE  StateMoves
  BY DEF AdmissionTyped, StateMoves, IsSeq

(* A change of states keeps the second opinions independent. *)
LEMMA MovesKeep ==
    ASSUME TasksHeld, StateMoves, CallsFit', turns' \in [Providers -> [first: Nat, later: Nat]]
    PROVE  TasksHeld'
  <1>1. AdmissionTyped'
    BY DEF StateMoves, AdmissionTyped, IsSeq, IsTask
  <1>2. SecondOpinionsIndependent'
    <2> SUFFICES ASSUME NEW i \in 1..Len(tasks), NEW j \in 1..Len(tasks),
                        tasks'[i].req.group # NoGroup, tasks'[i].req.group = tasks'[j].req.group,
                        tasks'[i].state # "gone", tasks'[j].state # "gone",
                        Family[tasks'[i].req.provider] = Family[tasks'[j].req.provider]
                 PROVE  i = j
      BY DEF SecondOpinionsIndependent, StateMoves
    <2>1. /\ tasks'[i].req = tasks[i].req /\ tasks'[j].req = tasks[j].req
          /\ tasks[i].state # "gone" /\ tasks[j].state # "gone"
      BY DEF StateMoves
    <2> QED
      BY <2>1 DEF TasksHeld, SecondOpinionsIndependent
  <1> QED
    BY <1>1, <1>2 DEF TasksHeld

(* The admission adds a task whose family has no live member in its group. *)
LEMMA CreateKeeps ==
    ASSUME TasksHeld, NEW s \in Servers, Create(s)
    PROVE  TasksHeld' /\ Len(tasks') = Len(tasks) + 1 /\ \A i \in 1..Len(tasks) : tasks'[i] = tasks[i]
  <1> DEFINE row == [req |-> call[s].req, state |-> "preparing", revision |-> call[s].revision,
                     sel |-> call[s].chosen.sel, level |-> call[s].chosen.reached]
             next == [pc |-> "created", task |-> NextTask]
  <1>1. /\ call[s].pc = "selected" /\ FanoutIndependent(call[s].req)
        /\ tasks' = Append(tasks, row) /\ call' = [call EXCEPT ![s] = next] /\ turns' = turns
    BY DEF Create, MayCreate
  <1>2. /\ DOMAIN row = TaskFields /\ row = [f \in TaskFields |-> row[f]]
        /\ row.req = call[s].req /\ row.state = "preparing"
    BY DEF TaskFields
  <1>3. next.pc = "created" /\ next.task = Len(tasks) + 1
    BY DEF NextTask
  <1> HIDE DEF row, next
  <1>4. call[s].req.provider \in Providers /\ IsSeq(tasks) /\ \A i \in 1..Len(tasks) : IsTask(tasks[i])
    BY <1>1 DEF TasksHeld, AdmissionTyped, CallsFit
  <1>5. IsTask(row)
    BY <1>2, <1>4 DEF IsTask
  <1>6. /\ IsSeq(tasks') /\ Len(tasks) \in Nat /\ Len(tasks') = Len(tasks) + 1
        /\ \A i \in 1..Len(tasks) : tasks'[i] = tasks[i]
        /\ tasks'[Len(tasks) + 1] = row
    BY <1>1, <1>4, AppendFacts
  <1>7. PICK k : k = Len(tasks) + 1
    OBVIOUS
  <1>8. /\ k \in Nat /\ Len(tasks') = k /\ tasks'[k] = row /\ next.task = k
        /\ \A i \in 1..k : i \in 1..Len(tasks) \/ i = k
        /\ \A i \in 1..Len(tasks) : i \in 1..k /\ i # k
    BY <1>3, <1>6, <1>7
  <1>9. CallsFit'
    <2>1. \A z \in Servers : call'[z] = IF z = s THEN next ELSE call[z]
      BY <1>1 DEF TasksHeld, AdmissionTyped, CallsFit
    <2>2. call' = [z \in Servers |-> call'[z]]
      BY <1>1 DEF TasksHeld, AdmissionTyped, CallsFit
    <2>3. k \in 1..Len(tasks')
      BY <1>7, <1>8, <1>6
    <2>4. \A z \in Servers : /\ call[z].pc = "selected" => call[z].req.provider \in Providers
                             /\ call[z].pc = "created" => call[z].task \in 1..Len(tasks')
      BY <1>8 DEF TasksHeld, AdmissionTyped, CallsFit
    <2> QED
      BY <1>3, <1>8, <2>1, <2>2, <2>3, <2>4 DEF CallsFit
  <1>10. \A i \in 1..k : IsTask(tasks'[i])
    BY <1>4, <1>5, <1>6, <1>8
  <1>11. AdmissionTyped'
    <2>1. turns' \in [Providers -> [first: Nat, later: Nat]]
      BY <1>1 DEF TasksHeld, AdmissionTyped
    <2>2. IsSeq(tasks)' /\ (\A i \in 1..Len(tasks) : IsTask(tasks[i]))'
      BY <1>6, <1>8, <1>10 DEF IsSeq, IsTask
    <2> QED
      BY <1>9, <2>1, <2>2 DEF AdmissionTyped
  <1>12. SecondOpinionsIndependent'
    <2> SUFFICES ASSUME NEW i \in 1..k, NEW j \in 1..k,
                        tasks'[i].req.group # NoGroup, tasks'[i].req.group = tasks'[j].req.group,
                        tasks'[i].state # "gone", tasks'[j].state # "gone",
                        Family[tasks'[i].req.provider] = Family[tasks'[j].req.provider]
                 PROVE  i = j
      BY <1>8 DEF SecondOpinionsIndependent
    <2>1. CASE i = k /\ j # k
      BY <1>1, <1>2, <1>6, <1>8, <2>1 DEF FanoutIndependent
    <2>2. CASE i # k /\ j = k
      BY <1>1, <1>2, <1>6, <1>8, <2>2 DEF FanoutIndependent
    <2>3. CASE i # k /\ j # k
      BY <1>6, <1>8, <2>3 DEF TasksHeld, SecondOpinionsIndependent
    <2> QED
      BY <2>1, <2>2, <2>3
  <1> QED
    BY <1>6, <1>11, <1>12 DEF TasksHeld

(* The servers whose task of the steered provider is admitted and not yet counted. *)
Waiting == {s \in Servers : call[s].pc = "created" /\ tasks[call[s].task].req.provider = Steered}

(* Turns counted and about to be counted, which only an admission adds to. *)
Counted == turns[Steered].first + Cardinality(Waiting)

(* The calls that wait to be counted are at most one per server. *)
LEMMA WaitingFinite == /\ IsFiniteSet(Waiting) /\ Cardinality(Waiting) \in Nat
                       /\ Cardinality(Servers) \in Nat /\ Cardinality(Waiting) <= Cardinality(Servers)
  <1>1. Waiting \in SUBSET Servers
    BY DEF Waiting
  <1> QED
    BY <1>1, RequestsAssumption, FS_Subset, FS_CardinalityType

(* The same after a step. *)
LEMMA WaitingFinitePrime == /\ IsFiniteSet(Waiting') /\ Cardinality(Waiting') \in Nat
                            /\ Cardinality(Waiting') <= Cardinality(Servers)
  <1>1. Waiting' \in SUBSET Servers
    BY DEF Waiting
  <1> QED
    BY <1>1, RequestsAssumption, FS_Subset, FS_CardinalityType

(* Nothing is counted anew when no call begins to wait and no turn is inserted. *)
LEMMA FewerCounted ==
    ASSUME Waiting' \subseteq Waiting,
           turns[Steered].first \in Nat, turns'[Steered].first \in Nat,
           turns'[Steered].first <= turns[Steered].first
    PROVE  Counted' <= Counted
  <1>1. Cardinality(Waiting') <= Cardinality(Waiting)
    BY WaitingFinite, FS_Subset
  <1> QED
    BY <1>1, WaitingFinite, WaitingFinitePrime DEF Counted

(* What every step of a task but its admission does. *)
Quietly ==
    /\ StateMoves /\ CallsFit' /\ turns' \in [Providers -> [first: Nat, later: Nat]]
    /\ Counted' <= Counted

(* A call that starts, is refused or dies: no task changes. *)
LEMMA CallStepQuiet ==
    ASSUME AdmissionTyped, NEW s \in Servers, NEW row, row.pc # "created",
           row.pc = "selected" => row.req.provider \in Providers,
           call' = [call EXCEPT ![s] = row], UNCHANGED <<tasks, turns>>
    PROVE  Quietly
  <1>1. \A z \in Servers : call'[z] = IF z = s THEN row ELSE call[z]
    BY DEF AdmissionTyped, CallsFit
  <1>2. CallsFit'
    BY <1>1 DEF AdmissionTyped, CallsFit
  <1>3. Waiting' \subseteq Waiting
    BY <1>1 DEF Waiting
  <1>4. turns[Steered].first \in Nat
    BY TargetsAssumption DEF AdmissionTyped, TargetsFit
  <1>5. Counted' <= Counted
    BY <1>3, <1>4, FewerCounted
  <1> QED
    BY <1>2, <1>5, SameTasksMove DEF Quietly, AdmissionTyped

(* A submission in its first half counts nothing. *)
LEMMA SubmitQuiet ==
    ASSUME AdmissionTyped, NEW s \in Servers, NEW x \in Submissions, Submit(s, x.req, x.report)
    PROVE  Quietly
  <1> DEFINE chosen == ResolveSelection(Current, x.req, EscalationLevel(Current, x.req.provider, Used, held[x.req.provider], x.report))
             row == [pc |-> "selected", req |-> x.req, revision |-> Revision, chosen |-> chosen]
  <1>1. call' = [call EXCEPT ![s] = row] /\ UNCHANGED <<tasks, turns>>
    BY DEF Submit
  <1>2. row.pc = "selected" /\ row.req = x.req
    OBVIOUS
  <1>3. x.req.provider \in Providers
    BY RequestsAssumption
  <1> HIDE DEF row
  <1> QED
    BY <1>1, <1>2, <1>3, CallStepQuiet

(* A call that ends without a row counts nothing. *)
LEMMA EndsQuiet ==
    ASSUME AdmissionTyped, NEW s \in Servers, Refuse(s) \/ Crash(s)
    PROVE  Quietly
  <1>1. call' = [call EXCEPT ![s] = Idle] /\ UNCHANGED <<tasks, turns>>
    BY DEF Refuse, Crash
  <1>2. Idle.pc = "idle"
    BY DEF Idle
  <1> HIDE DEF Idle
  <1> QED
    BY <1>1, <1>2, CallStepQuiet

(* A created call ends: its task is prepared and its turn counted, or it fails. *)
LEMMA PrepareQuiet ==
    ASSUME AdmissionTyped, NEW s \in Servers, Prepare(s) \/ PrepareFails(s)
    PROVE  Quietly
  <1>1. PICK i \in 1..Len(tasks) : i = call[s].task /\ call[s].pc = "created"
    BY DEF Prepare, PrepareFails, AdmissionTyped, CallsFit
  <1>2. PICK p \in Providers : p = tasks[i].req.provider
    BY DEF AdmissionTyped, IsTask
  <1>3. call' = [call EXCEPT ![s] = Idle]
    BY DEF Prepare, PrepareFails
  <1>4. StateMoves
    <2>1. CASE PrepareFails(s)
      BY <1>1, <2>1, SetStateMoves DEF PrepareFails
    <2>2. CASE Prepare(s)
      <3> DEFINE state == IF tasks[i].state = "preparing" THEN "live" ELSE tasks[i].state
      <3>1. tasks' = [tasks EXCEPT ![i].state = state]
        BY <1>1, <2>2 DEF Prepare
      <3>2. state \in {"preparing", "live", "gone"} /\ (tasks[i].state = "gone" => state = "gone")
        BY DEF AdmissionTyped, IsTask
      <3> HIDE DEF state
      <3> QED
        BY <3>1, <3>2, SetStateMoves
    <2> QED
      BY <2>1, <2>2
  <1>5. \A z \in Servers : call'[z] = IF z = s THEN Idle ELSE call[z]
    BY <1>3 DEF AdmissionTyped, CallsFit
  <1>6. CallsFit'
    <2>1. Len(tasks') = Len(tasks)
      BY <1>4 DEF StateMoves
    <2>2. Idle.pc = "idle"
      BY DEF Idle
    <2> HIDE DEF Idle
    <2> QED
      BY <1>3, <1>5, <2>1, <2>2 DEF AdmissionTyped, CallsFit
  <1>7. \A n \in 1..Len(tasks) : tasks'[n].req = tasks[n].req
    BY <1>4 DEF StateMoves
  <1>8. Waiting' = Waiting \ {s}
    <2>1. Idle.pc = "idle"
      BY DEF Idle
    <2>2. \A z \in Servers : call[z].pc = "created" => call[z].task \in 1..Len(tasks)
      BY DEF AdmissionTyped, CallsFit
    <2> HIDE DEF Idle
    <2> QED
      BY <1>5, <1>7, <2>1, <2>2 DEF Waiting
  <1>9. Steered \in Providers /\ turns[Steered].first \in Nat
    BY TargetsAssumption DEF TargetsFit, AdmissionTyped
  <1>10. CASE turns' = turns
    <2>1. Counted' <= Counted
      BY <1>8, <1>9, <1>10, FewerCounted
    <2> QED
      BY <1>4, <1>6, <1>10, <2>1 DEF Quietly, AdmissionTyped
  <1>11. CASE turns' = [turns EXCEPT ![p].first = @ + 1]
    <2> DEFINE row == [turns[p] EXCEPT !.first = turns[p].first + 1]
    <2>1. row \in [first: Nat, later: Nat] /\ row.first = turns[p].first + 1
      BY DEF AdmissionTyped
    <2>2. turns' = [turns EXCEPT ![p] = row]
      BY <1>11
    <2> HIDE DEF row
    <2>3. turns' \in [Providers -> [first: Nat, later: Nat]] /\ turns'[Steered] = IF p = Steered THEN row ELSE turns[Steered]
      BY <1>9, <2>1, <2>2 DEF AdmissionTyped
    <2>4. CASE p = Steered
      <3>1. s \in Waiting
        BY <1>1, <1>2, <2>4 DEF Waiting
      <3>2. Cardinality(Waiting') = Cardinality(Waiting) - 1
        BY <1>8, <3>1, WaitingFinite, FS_RemoveElement
      <3>3. turns'[Steered].first = turns[Steered].first + 1
        BY <2>1, <2>3, <2>4
      <3>4. Counted' = Counted
        BY <1>9, <3>2, <3>3, WaitingFinite DEF Counted
      <3>5. Counted \in Int
        BY <1>9, WaitingFinite DEF Counted
      <3> QED
        BY <1>4, <1>6, <2>3, <3>4, <3>5 DEF Quietly
    <2>5. CASE p # Steered
      <3>1. Counted' <= Counted
        BY <1>8, <1>9, <2>3, <2>5, FewerCounted
      <3> QED
        BY <1>4, <1>6, <2>3, <3>1 DEF Quietly
    <2> QED
      BY <2>4, <2>5
  <1> QED
    BY <1>1, <1>2, <1>10, <1>11 DEF Prepare, PrepareFails

(* A task given up, continued, or a window that moves on. *)
LEMMA LaterQuiet ==
    ASSUME AdmissionTyped,
           \/ \E i \in 1..Len(tasks) : GiveUp(i) \/ Continue(i)
           \/ \E p \in Providers : WindowMoves(p)
    PROVE  Quietly
  <1>1. call' = call
    BY DEF GiveUp, Continue, WindowMoves
  <1>2. StateMoves
    <2>1. CASE \E i \in 1..Len(tasks) : GiveUp(i)
      BY <2>1, SetStateMoves DEF GiveUp
    <2>2. CASE tasks' = tasks
      BY <2>2, SameTasksMove
    <2> QED
      BY <2>1, <2>2 DEF Continue, WindowMoves
  <1>3. CallsFit'
    BY <1>1, <1>2 DEF StateMoves, AdmissionTyped, CallsFit
  <1>4. Waiting' = Waiting
    <2>1. \A z \in Servers : call[z].pc = "created" => call[z].task \in 1..Len(tasks)
      BY DEF AdmissionTyped, CallsFit
    <2>2. \A n \in 1..Len(tasks) : tasks'[n].req = tasks[n].req
      BY <1>2 DEF StateMoves
    <2> QED
      BY <1>1, <2>1, <2>2 DEF Waiting
  <1>5. Steered \in Providers /\ turns[Steered].first \in Nat
    BY TargetsAssumption DEF TargetsFit, AdmissionTyped
  <1>6. turns' \in [Providers -> [first: Nat, later: Nat]] /\ turns'[Steered].first <= turns[Steered].first
    <2>1. CASE turns' = turns
      BY <1>5, <2>1 DEF AdmissionTyped
    <2>2. ASSUME NEW p \in Providers, NEW row \in [first: Nat, later: Nat], row.first <= turns[p].first,
                 turns' = [turns EXCEPT ![p] = row]
          PROVE  turns' \in [Providers -> [first: Nat, later: Nat]] /\ turns'[Steered].first <= turns[Steered].first
      BY <1>5, <2>2 DEF AdmissionTyped
    <2>3. CASE \E i \in 1..Len(tasks) : Continue(i)
      <3>1. PICK i \in 1..Len(tasks) : Continue(i)
        BY <2>3
      <3>2. PICK p \in Providers : p = tasks[i].req.provider
        BY DEF AdmissionTyped, IsTask
      <3> DEFINE row == [turns[p] EXCEPT !.later = turns[p].later + 1]
      <3>3. row \in [first: Nat, later: Nat] /\ row.first <= turns[p].first
        BY DEF AdmissionTyped
      <3>4. turns' = [turns EXCEPT ![p] = row]
        BY <3>1, <3>2 DEF Continue
      <3> HIDE DEF row
      <3> QED
        BY <2>2, <3>3, <3>4
    <2>4. CASE \E p \in Providers : turns[p].first > 0 /\ turns' = [turns EXCEPT ![p].first = @ - 1]
      <3>1. PICK p \in Providers : turns[p].first > 0 /\ turns' = [turns EXCEPT ![p].first = @ - 1]
        BY <2>4
      <3> DEFINE row == [turns[p] EXCEPT !.first = turns[p].first - 1]
      <3>2. row \in [first: Nat, later: Nat] /\ row.first <= turns[p].first
        BY <3>1 DEF AdmissionTyped
      <3>3. turns' = [turns EXCEPT ![p] = row]
        BY <3>1
      <3> HIDE DEF row
      <3> QED
        BY <2>2, <3>2, <3>3
    <2>5. CASE \E p \in Providers : turns[p].later > 0 /\ turns' = [turns EXCEPT ![p].later = @ - 1]
      <3>1. PICK p \in Providers : turns[p].later > 0 /\ turns' = [turns EXCEPT ![p].later = @ - 1]
        BY <2>5
      <3> DEFINE row == [turns[p] EXCEPT !.later = turns[p].later - 1]
      <3>2. row \in [first: Nat, later: Nat] /\ row.first <= turns[p].first
        BY <3>1 DEF AdmissionTyped
      <3>3. turns' = [turns EXCEPT ![p] = row]
        BY <3>1
      <3> HIDE DEF row
      <3> QED
        BY <2>2, <3>2, <3>3
    <2> QED
      BY <2>1, <2>3, <2>4, <2>5 DEF GiveUp, WindowMoves
  <1>7. Counted' <= Counted
    BY <1>4, <1>5, <1>6, FewerCounted
  <1> QED
    BY <1>2, <1>3, <1>6, <1>7 DEF Quietly

(* Every step but an admission is quiet. *)
LEMMA TaskStepQuiet ==
    ASSUME AdmissionTyped, [Next]_vars, ~\E s \in Servers : Create(s)
    PROVE  Quietly
  <1>1. CASE UNCHANGED <<call, tasks, turns>>
    <2>1. CallsFit' /\ Waiting' = Waiting
      BY <1>1 DEF CallsFit, Waiting, AdmissionTyped
    <2>2. turns[Steered].first \in Nat
      BY TargetsAssumption DEF TargetsFit, AdmissionTyped
    <2>3. Counted' <= Counted
      BY <1>1, <2>1, <2>2, FewerCounted
    <2> QED
      BY <1>1, <2>1, <2>3, SameTasksMove DEF Quietly, AdmissionTyped
  <1>2. CASE \E e \in Editors : SaveDraft(e) \/ DropDraft(e) \/ \E x \in Patches, named \in BOOLEAN : Load(e, x, named)
    BY <1>1, <1>2 DEF SaveDraft, DropDraft, Load
  <1>3. CASE Promote \/ Rollback \/ \E table \in Tables : Stage(table)
    BY <1>1, <1>3 DEF Promote, Rollback, Stage
  <1>4. CASE UNCHANGED vars
    BY <1>1, <1>4 DEF vars
  <1> QED
    BY <1>2, <1>3, <1>4, SubmitQuiet, EndsQuiet, PrepareQuiet, LaterQuiet DEF Next

(* The tasks stay typed and independent. *)
LEMMA NextTasks ==
    ASSUME TasksHeld, [Next]_vars
    PROVE  TasksHeld'
  <1>1. CASE \E s \in Servers : Create(s)
    BY <1>1, CreateKeeps
  <1>2. CASE ~\E s \in Servers : Create(s)
    BY <1>2, TaskStepQuiet, MovesKeep DEF TasksHeld, Quietly
  <1> QED
    BY <1>1, <1>2

(* There are no tasks at first. *)
LEMMA InitTasks == Init => TasksHeld
  <1> SUFFICES ASSUME Init PROVE TasksHeld
    OBVIOUS
  <1>1. IsSeq(tasks) /\ Len(tasks) = 0
    BY DEF Init, IsSeq
  <1>2. turns \in [Providers -> [first: Nat, later: Nat]]
    BY RequestsAssumption DEF Init
  <1>3. CallsFit
    BY DEF Init, CallsFit, Idle
  <1> QED
    BY <1>1, <1>2, <1>3 DEF TasksHeld, AdmissionTyped, SecondOpinionsIndependent

(* Two submissions to the same fan-out group and provider family, by any servers at any
   time, never both have a live task. *)
THEOREM OpinionsAreIndependent == Spec => []SecondOpinionsIndependent
  <1>1. TasksHeld => SecondOpinionsIndependent
    BY DEF TasksHeld
  <1> QED
    BY <1>1, InitTasks, NextTasks, PTL DEF Spec

--------------------------------------------------------------------------------
(* The budget.                                                             *)

(* The turns in the window at the start are within the budget then. *)
StartsWithin == \A b \in Before : b[Steered].first <= Defaults.budget.turns + Cardinality(Servers) - 1

Enforced == \A b \in LimitsSeen : b.enforce /\ b.turns # 0

(* A limit that no other exceeds. *)
Highest(b) == b \in LimitsSeen /\ \A c \in LimitsSeen : c.turns <= b.turns

(* As long as every limit was enforced, the turns that are counted or waiting to be counted
   exceed the highest by less than the number of servers. *)
BudgetHeld ==
    \E b \in LimitsSeen : /\ Highest(b)
                          /\ Enforced => Counted <= b.turns + Cardinality(Servers) - 1

(* Limits are budgets, and there is always one in force. *)
LEMMA LimitsTyped ==
    ASSUME EditsHeld
    PROVE  LimitsSeen \subseteq Budgets /\ Current.budget \in LimitsSeen
  <1>1. ASSUME NEW n \in 0..Revision PROVE At(n).budget \in Budgets
    BY AtIsDoc DEF IsDoc
  <1>2. Revision \in 0..Revision
    BY CurrentIsDoc
  <1> QED
    BY <1>1, <1>2 DEF LimitsSeen, Current

(* The same as a formula, for the state after a step. *)
LEMMA LimitsAreBudgets == EditsHeld => LimitsSeen \subseteq Budgets
  BY LimitsTyped

(* A revision adds its limit to those seen; nothing is forgotten. *)
LEMMA LimitsGrow ==
    ASSUME EditsHeld, EditsHeld', [Next]_vars
    PROVE  \/ LimitsSeen' = LimitsSeen
           \/ /\ LimitsSeen' = LimitsSeen \cup {(Current.budget)'}
              /\ UNCHANGED <<call, tasks, turns>>
  <1>1. CASE saved' = saved
    BY <1>1 DEF LimitsSeen, At, Revision
  <1>2. CASE \E row : saved' = Append(saved, row) /\ UNCHANGED <<call, tasks, turns>>
    <2>1. PICK row : saved' = Append(saved, row) /\ UNCHANGED <<call, tasks, turns>>
      BY <1>2
    <2>2. /\ Revision \in Nat /\ Revision' = Revision + 1
          /\ \A n \in 0..Revision : At(n)' = At(n)
      BY <2>1, SaveAppends DEF EditsHeld
    <2>3. 0..Revision' = (0..Revision) \cup {Revision'}
      BY <2>2
    <2>4. LimitsSeen' = {At(n)'.budget : n \in 0..Revision'}
      BY DEF LimitsSeen
    <2>5. Current' = At(Revision)'
      BY DEF Current
    <2>6. LimitsSeen' = {At(n)'.budget : n \in 0..Revision} \cup {(Current.budget)'}
      BY <2>3, <2>4, <2>5 DEF At
    <2>7. {At(n)'.budget : n \in 0..Revision} = LimitsSeen
      BY <2>2 DEF LimitsSeen
    <2> QED
      BY <2>1, <2>6, <2>7
  <1>3. CASE TaskStep \/ UNCHANGED vars
    BY <1>1, <1>3, TasksLeaveDocument
  <1>4. CASE \E e \in Editors : SaveDraft(e) \/ DropDraft(e) \/ \E x \in Patches, named \in BOOLEAN : Load(e, x, named)
    BY <1>1, <1>2, <1>4 DEF SaveDraft, DropDraft, Load, Save
  <1>5. CASE Promote \/ Rollback \/ \E table \in Tables : Stage(table)
    BY <1>1, <1>2, <1>5 DEF Promote, Rollback, Stage, Save
  <1> QED
    BY <1>3, <1>4, <1>5 DEF Next, TaskStep

(* An admission by the document in force leaves room for one turn of each server. *)
LEMMA CreateCounted ==
    ASSUME EditsHeld, TasksHeld, TasksHeld', NEW s \in Servers, Create(s), Enforced, NEW b, Highest(b),
           Counted <= b.turns + Cardinality(Servers) - 1
    PROVE  Counted' <= b.turns + Cardinality(Servers) - 1
  <1> DEFINE p == call[s].req.provider
             row == [req |-> call[s].req, state |-> "preparing", revision |-> call[s].revision,
                     sel |-> call[s].chosen.sel, level |-> call[s].chosen.reached]
             next == [pc |-> "created", task |-> NextTask]
  <1>1. /\ call[s].pc = "selected" /\ ~Refused(Current, p, Used)
        /\ tasks' = Append(tasks, row) /\ call' = [call EXCEPT ![s] = next] /\ turns' = turns
    BY DEF Create, MayCreate
  <1>2. row.req = call[s].req /\ next.task = Len(tasks) + 1
    BY DEF NextTask
  <1> HIDE DEF row, next
  <1>3. /\ Steered \in Providers /\ turns[Steered].first \in Nat /\ turns[Steered].later \in Nat
        /\ Used[Steered] = turns[Steered].first + turns[Steered].later
    BY TargetsAssumption DEF TargetsFit, TasksHeld, AdmissionTyped, Used
  <1>4. Current.budget \in LimitsSeen /\ Current.budget.turns \in Nat /\ b.turns \in Nat
    BY LimitsTyped DEF Budgets, Highest
  <1>5. CASE p = Steered
    <2>1. ~(Used[Steered] >= Current.budget.turns)
      BY <1>1, <1>4, <1>5 DEF Refused, Enforced
    <2>2. turns[Steered].first < Current.budget.turns /\ Current.budget.turns <= b.turns
      BY <1>3, <1>4, <2>1 DEF Highest
    <2>3. Cardinality(Waiting') <= Cardinality(Servers) /\ Cardinality(Waiting') \in Nat
      BY WaitingFinitePrime
    <2> QED
      BY <1>1, <1>3, <1>4, <2>2, <2>3, WaitingFinite DEF Counted
  <1>6. CASE p # Steered
    <2>1. \A z \in Servers : call'[z] = IF z = s THEN next ELSE call[z]
      BY <1>1 DEF TasksHeld, AdmissionTyped, CallsFit
    <2>2. /\ tasks'[Len(tasks) + 1] = row
          /\ \A i \in 1..Len(tasks) : tasks'[i] = tasks[i]
      BY <1>1, AppendFacts DEF TasksHeld, AdmissionTyped
    <2>3. tasks'[call'[s].task].req.provider # Steered
      BY <1>2, <1>6, <2>1, <2>2
    <2>4. \A z \in Servers : call[z].pc = "created" => call[z].task \in 1..Len(tasks)
      BY DEF TasksHeld, AdmissionTyped, CallsFit
    <2>5. Waiting' \subseteq Waiting
      BY <2>1, <2>2, <2>3, <2>4 DEF Waiting
    <2>6. turns'[Steered].first <= turns[Steered].first /\ turns'[Steered].first \in Nat
      BY <1>1, <1>3
    <2>7. Counted' <= Counted
      BY <1>3, <2>5, <2>6, FewerCounted
    <2>8. Counted \in Int /\ Counted' \in Int
      BY <1>3, <2>6, WaitingFinite, WaitingFinitePrime DEF Counted
    <2> QED
      BY <1>4, <2>7, <2>8, WaitingFinite
  <1> QED
    BY <1>5, <1>6

(* Every step keeps the counted turns within the highest limit and one per server. *)
LEMMA NextBudget ==
    ASSUME EditsHeld, EditsHeld', TasksHeld, TasksHeld', BudgetHeld, [Next]_vars
    PROVE  BudgetHeld'
  <1>1. PICK b \in LimitsSeen : Highest(b) /\ (Enforced => Counted <= b.turns + Cardinality(Servers) - 1)
    BY DEF BudgetHeld
  <1>2. /\ Steered \in Providers /\ turns[Steered].first \in Nat /\ turns'[Steered].first \in Nat
    BY TargetsAssumption DEF TargetsFit, TasksHeld, AdmissionTyped
  <1>3. Counted \in Int /\ Counted' \in Int /\ Cardinality(Servers) \in Nat
    BY <1>2, WaitingFinite, WaitingFinitePrime DEF Counted
  <1>4. LimitsSeen \subseteq Budgets
    BY LimitsTyped
  <1>5. LimitsSeen' \subseteq Budgets
    <2>1. (LimitsSeen \subseteq Budgets)'
      BY LimitsAreBudgets, PTL
    <2> QED
      BY <2>1 DEF Budgets
  <1>6. CASE LimitsSeen' = LimitsSeen
    <2>1. (Enforced' => Enforced) /\ Highest(b)'
      BY <1>1, <1>6 DEF Enforced, Highest
    <2>2. Enforced => Counted' <= b.turns + Cardinality(Servers) - 1
      <3>1. CASE \E s \in Servers : Create(s)
        BY <1>1, <3>1, CreateCounted
      <3>2. CASE ~\E s \in Servers : Create(s)
        <4>1. Counted' <= Counted
          BY <3>2, TaskStepQuiet DEF TasksHeld, Quietly
        <4>2. b.turns \in Nat
          BY <1>4 DEF Budgets
        <4> QED
          BY <1>1, <1>3, <4>1, <4>2
      <3> QED
        BY <3>1, <3>2
    <2> QED
      BY <1>1, <1>6, <2>1, <2>2 DEF BudgetHeld
  <1>7. CASE /\ LimitsSeen' = LimitsSeen \cup {(Current.budget)'}
             /\ UNCHANGED <<call, tasks, turns>>
    <2>1. PICK c : c = (Current.budget)'
      OBVIOUS
    <2>2. LimitsSeen' = LimitsSeen \cup {c} /\ c \in Budgets /\ b \in Budgets
      BY <1>4, <1>5, <1>7, <2>1
    <2>3. Counted' = Counted
      BY <1>7 DEF Counted, Waiting
    <2>4. Enforced' => Enforced
      BY <2>2 DEF Enforced
    <2>5. b.turns \in Nat /\ c.turns \in Nat
      BY <2>2 DEF Budgets
    <2>6. CASE c.turns <= b.turns
      <3>1. Highest(b)'
        BY <1>1, <2>2, <2>6 DEF Highest
      <3> QED
        BY <1>1, <2>2, <2>3, <2>4, <3>1 DEF BudgetHeld
    <2>7. CASE b.turns < c.turns
      <3>1. \A d \in LimitsSeen : d.turns \in Nat /\ d.turns <= b.turns
        BY <1>1, <1>4 DEF Highest, Budgets
      <3>2. \A d \in LimitsSeen \cup {c} : d.turns <= c.turns
        BY <2>5, <2>7, <3>1
      <3>3. Highest(c)'
        BY <2>2, <3>2 DEF Highest
      <3>4. Enforced => Counted <= c.turns + Cardinality(Servers) - 1
        BY <1>1, <1>3, <2>5, <2>7
      <3> QED
        BY <2>2, <2>3, <2>4, <3>3, <3>4 DEF BudgetHeld
    <2> QED
      BY <2>5, <2>6, <2>7
  <1> QED
    BY <1>6, <1>7, LimitsGrow

(* However many servers submit at once, and whatever is edited meanwhile: the first turns of
   the steered provider in the window exceed the largest limit there has been by less than
   the number of servers, as long as every limit was enforced. *)
THEOREM OvershootBounded ==
    ASSUME StartsWithin
    PROVE  Spec => []BudgetOvershoot
  <1>1. Init => EditsHeld
    <2> SUFFICES ASSUME Init PROVE EditsHeld
      OBVIOUS
    <2>1. IsSeq(saved) /\ Revision = 0
      BY DEF Init, IsSeq, Revision
    <2> QED
      BY <2>1 DEF Init, EditsHeld, DraftsFit, StagedFits, EditsNotLost, NoDraft, NotStaged
  <1>2. Init => BudgetHeld
    <2> SUFFICES ASSUME Init PROVE BudgetHeld
      OBVIOUS
    <2>1. Revision = 0
      BY DEF Init, Revision
    <2>2. LimitsSeen = {Defaults.budget}
      BY <2>1 DEF LimitsSeen, At
    <2>3. Defaults.budget.turns \in Nat
      BY DefaultsAssumption DEF Budgets
    <2>4. Highest(Defaults.budget)
      BY <2>2, <2>3 DEF Highest
    <2>5. Waiting = {}
      BY DEF Init, Waiting, Idle
    <2>6. Cardinality(Waiting) = 0
      BY <2>5, FS_EmptySet
    <2>7. turns[Steered].first \in Nat /\ turns[Steered].first <= Defaults.budget.turns + Cardinality(Servers) - 1
      BY RequestsAssumption, TargetsAssumption DEF Init, StartsWithin, TargetsFit
    <2>8. Counted = turns[Steered].first
      BY <2>6, <2>7 DEF Counted
    <2> QED
      BY <2>2, <2>4, <2>7, <2>8 DEF BudgetHeld
  <1>3. EditsHeld /\ TasksHeld /\ BudgetHeld => BudgetOvershoot
    <2> SUFFICES ASSUME EditsHeld, TasksHeld, BudgetHeld, Enforced
                 PROVE  turns[Steered].first <= Max({b.turns : b \in LimitsSeen}) + Cardinality(Servers) - 1
      BY DEF BudgetOvershoot, Enforced
    <2>1. PICK b \in LimitsSeen : Highest(b) /\ Counted <= b.turns + Cardinality(Servers) - 1
      BY DEF BudgetHeld
    <2> DEFINE S == {c.turns : c \in LimitsSeen}
    <2>2. S \subseteq Nat /\ b.turns \in S
      BY LimitsTyped DEF Budgets
    <2>3. \E x \in S : \A y \in S : x >= y
      BY <2>1, <2>2 DEF Highest
    <2>4. Max(S) \in S /\ Max(S) >= b.turns
      BY <2>2, <2>3 DEF Max
    <2>5. turns[Steered].first \in Nat
      BY TargetsAssumption DEF TargetsFit, TasksHeld, AdmissionTyped
    <2> HIDE DEF S
    <2>6. Max(S) \in Nat /\ b.turns \in Nat
      BY <2>2, <2>4
    <2> QED
      BY <2>1, <2>4, <2>5, <2>6, WaitingFinite DEF Counted, S
  <1> QED
    BY <1>1, <1>2, <1>3, InitTasks, NextEdits, NextTasks, NextBudget, PTL DEF Spec

--------------------------------------------------------------------------------
(* Stepping up.  The sum of shares is a fold, so its type needs induction:  *)
(* from the well-foundedness of < alone, over the size of the subsets that  *)
(* the fold goes through.                                                  *)

(* A nonempty set of numbers has a least one.                              *)
LEMMA LeastNumber ==
    ASSUME NEW T \in SUBSET Nat, T # {}
    PROVE  \E m \in T : \A k \in T : m <= k
<1> DEFINE Less == {p \in Nat \X Nat : p[1] < p[2]}
<1>1. IsWellFoundedOn(Less, Nat)
  BY NatLessThanWellFounded DEF OpToRel
<1>2. \A x, y \in T : y < x => <<y, x>> \in Less
  OBVIOUS
<1> HIDE DEF Less
<1>3. \E x \in T : \A y \in T : ~(<<y, x>> \in Less)
  BY <1>1, WFMin
<1>4. PICK m \in T : \A y \in T : ~(y < m)
  BY <1>2, <1>3
<1> QED
  BY <1>4

(* Induction up to n, over the set of the numbers that have the property.  *)
LEMMA CountingUp ==
    ASSUME NEW n \in Nat, NEW G \in SUBSET Nat, 0 \in G,
           \A k \in 0..(n - 1) : k \in G => k + 1 \in G
    PROVE  n \in G
<1>1. SUFFICES ASSUME n \notin G PROVE FALSE
  OBVIOUS
<1> DEFINE T == {k \in Nat : k \notin G}
<1>2. T \in SUBSET Nat /\ T # {} /\ n \in T
  BY <1>1
<1> HIDE DEF T
<1>3. PICK m \in T : \A k \in T : m <= k
  BY <1>2, LeastNumber
<1>4. m \in Nat /\ m \notin G
  BY <1>3 DEF T
<1>5. m # 0 /\ m <= n
  BY <1>2, <1>3, <1>4
<1>6. m - 1 \in 0..(n - 1) /\ m - 1 \notin T
  BY <1>3, <1>4, <1>5
<1> QED
  BY <1>4, <1>6 DEF T

(* The element that a sum takes first. *)
First(s) == CHOOSE x \in s : TRUE

(* A set of subsets of S that holds {}, and each subset if it holds what    *)
(* is left of it without the element chosen, holds them all.                *)
LEMMA SmallerFirst ==
    ASSUME NEW S, IsFiniteSet(S), NEW G, {} \in G,
           \A s \in SUBSET S : s # {} /\ s \ {First(s)} \in G => s \in G
    PROVE  \A s \in SUBSET S : s \in G
<1> DEFINE Left(k) == \A s \in SUBSET S : Cardinality(s) = k => s \in G
           H == {k \in Nat : Left(k)}
<1>1. \A s \in SUBSET S : IsFiniteSet(s) /\ Cardinality(s) \in Nat
  BY FS_Subset, FS_CardinalityType
<1>2. Left(0)
  BY <1>1, FS_EmptySet
<1>3. ASSUME NEW k \in Nat, Left(k)
      PROVE  Left(k + 1)
  <2>1. ASSUME NEW s \in SUBSET S, Cardinality(s) = k + 1
        PROVE  s \in G
    <3> DEFINE p == First(s)
    <3>1. s # {}
      BY <1>1, <2>1, FS_EmptySet
    <3>2. p \in s
      BY <3>1 DEF First
    <3> HIDE DEF p
    <3>3. Cardinality(s \ {p}) = k /\ s \ {p} \in SUBSET S
      BY <1>1, <2>1, <3>2, FS_RemoveElement
    <3>4. s \ {p} \in G
      BY <1>3, <3>3
    <3> QED
      BY <3>1, <3>4 DEF p
  <2> QED
    BY <2>1
<1> HIDE DEF Left
<1>4. 0 \in H /\ \A k \in Nat : k \in H => k + 1 \in H
  BY <1>2, <1>3
<1>5. ASSUME NEW n \in Nat
      PROVE  n \in H
  <2> HIDE DEF H
  <2>1. H \in SUBSET Nat /\ \A k \in 0..(n - 1) : k \in H => k + 1 \in H
    <3>1. H \in SUBSET Nat
      BY DEF H
    <3> QED
      BY <1>4, <3>1
  <2> QED
    BY <1>4, <2>1, CountingUp
<1> QED
  BY <1>1, <1>5 DEF Left, H

(* The table that the sum of f tabulates over the subsets of S. *)
SumTable(t, S, f) ==
    /\ t \in [SUBSET S -> Int]
    /\ \A s \in SUBSET S : t[s] = IF s = {} THEN 0 ELSE f[First(s)] + t[s \ {First(s)}]

LEMMA SumTableExists ==
    ASSUME NEW S, IsFiniteSet(S), NEW f \in [S -> Int]
    PROVE  \E t : SumTable(t, S, f)
<1> DEFINE D(k) == {s \in SUBSET S : Cardinality(s) <= k}
           Good(t, k) ==
               /\ t \in [D(k) -> Int]
               /\ \A s \in D(k) : t[s] = IF s = {} THEN 0 ELSE f[First(s)] + t[s \ {First(s)}]
           Some(k) == \E t : Good(t, k)
           G == {k \in Nat : Some(k)}
<1>1. \A s \in SUBSET S : /\ IsFiniteSet(s) /\ Cardinality(s) \in Nat
                          /\ Cardinality(s) <= Cardinality(S)
                          /\ Cardinality(s) = 0 => s = {}
  BY FS_Subset, FS_CardinalityType, FS_EmptySet
<1>2. \A s \in SUBSET S : s # {} =>
         /\ First(s) \in s /\ First(s) \in S /\ s \ {First(s)} \in SUBSET S
         /\ Cardinality(s \ {First(s)}) = Cardinality(s) - 1
  <2>1. ASSUME NEW s \in SUBSET S, s # {}
        PROVE  /\ First(s) \in s /\ First(s) \in S /\ s \ {First(s)} \in SUBSET S
               /\ Cardinality(s \ {First(s)}) = Cardinality(s) - 1
    <3>1. First(s) \in s
      BY <2>1 DEF First
    <3> QED
      BY <1>1, <3>1, FS_RemoveElement
  <2> QED
    BY <2>1
<1>3. Some(0)
  <2> DEFINE t == [s \in D(0) |-> 0]
  <2>1. \A s \in D(0) : s = {}
    BY <1>1
  <2>2. t \in [D(0) -> Int] /\ \A s \in D(0) : t[s] = 0
    OBVIOUS
  <2> HIDE DEF t
  <2>3. Good(t, 0)
    BY <2>1, <2>2
  <2> QED
    BY <2>3
<1>4. ASSUME NEW k \in Nat, Some(k)
      PROVE  Some(k + 1)
  <2>1. PICK t : Good(t, k)
    BY <1>4
  <2> DEFINE u == [s \in D(k + 1) |->
                      IF s \in D(k) THEN t[s] ELSE f[First(s)] + t[s \ {First(s)}]]
  <2>2. \A s \in D(k) : s \in D(k + 1) /\ (s # {} => s \ {First(s)} \in D(k))
    BY <1>1, <1>2
  <2>3. \A s \in D(k + 1) : s \notin D(k) => s # {} /\ First(s) \in S /\ s \ {First(s)} \in D(k)
    <3>1. ASSUME NEW s \in D(k + 1), s \notin D(k)
          PROVE  s # {} /\ First(s) \in S /\ s \ {First(s)} \in D(k)
      <4>1. s \in SUBSET S /\ Cardinality(s) = k + 1
        BY <1>1, <3>1
      <4>2. s # {}
        BY <4>1, FS_EmptySet
      <4> QED
        BY <1>2, <4>1, <4>2
    <3> QED
      BY <3>1
  <2>4. \A s \in D(k) : t[s] \in Int
    BY <2>1
  <2> DEFINE Dk == D(k)
             Dl == D(k + 1)
  <2>5. Good(t, k) /\ \A s \in Dk : s \in Dl
    BY <2>1, <2>2
  <2> HIDE DEF D
  <2>6. u \in [D(k + 1) -> Int]
    BY <2>3, <2>4
  <2>7. \A s \in D(k) : u[s] = t[s]
    BY <2>2
  <2>8. \A s \in D(k + 1) : s \notin D(k) => u[s] = f[First(s)] + t[s \ {First(s)}]
    OBVIOUS
  <2> HIDE DEF u
  <2>9. \A s \in D(k + 1) : u[s] = IF s = {} THEN 0 ELSE f[First(s)] + u[s \ {First(s)}]
    <3>1. ASSUME NEW s \in D(k + 1), s \in D(k)
          PROVE  u[s] = IF s = {} THEN 0 ELSE f[First(s)] + u[s \ {First(s)}]
      BY <2>1, <2>2, <2>7, <3>1
    <3>2. ASSUME NEW s \in D(k + 1), s \notin D(k)
          PROVE  u[s] = IF s = {} THEN 0 ELSE f[First(s)] + u[s \ {First(s)}]
      BY <2>3, <2>7, <2>8, <3>2
    <3> QED
      BY <3>1, <3>2
  <2> QED
    BY <2>6, <2>9
<1> HIDE DEF Some
<1>5. 0 \in G /\ \A k \in Nat : k \in G => k + 1 \in G
  BY <1>3, <1>4
<1> DEFINE n == Cardinality(S)
<1>6. n \in Nat
  BY FS_CardinalityType
<1> HIDE DEF n
<1>7. n \in G
  <2> HIDE DEF G
  <2>1. G \in SUBSET Nat /\ \A k \in 0..(n - 1) : k \in G => k + 1 \in G
    <3>1. G \in SUBSET Nat
      BY DEF G
    <3> QED
      BY <1>5, <3>1
  <2> QED
    BY <1>5, <1>6, <2>1, CountingUp
<1>8. PICK t : Good(t, n)
  BY <1>7 DEF Some
<1>9. D(n) = SUBSET S
  BY <1>1 DEF n
<1>10. SumTable(t, S, f)
  BY <1>8, <1>9 DEF SumTable
<1> QED
  BY <1>10

(* What the share rule adds up: natural numbers to a natural number. *)
LEMMA SumType ==
    ASSUME NEW f \in [Providers -> Nat]
    PROVE  Sum(f) \in Nat
<1>1. IsFiniteSet(Providers) /\ f \in [Providers -> Int]
  BY TargetsAssumption DEF TargetsFit
<1>2. PICK t : SumTable(t, Providers, f)
  <2>1. \E t : SumTable(t, Providers, f)
    BY <1>1, SumTableExists
  <2> QED
    BY <2>1
<1>3. \A s \in SUBSET Providers : s # {} => First(s) \in Providers
  BY DEF First
<1>4. t = [s \in SUBSET Providers |->
              IF s = {} THEN 0 ELSE f[First(s)] + t[s \ {First(s)}]]
  BY <1>1, <1>2, <1>3 DEF SumTable
<1> DEFINE h == CHOOSE h : h = [s \in SUBSET Providers |->
              IF s = {} THEN 0 ELSE f[First(s)] + h[s \ {First(s)}]]
<1>5. h = [s \in SUBSET Providers |->
              IF s = {} THEN 0 ELSE f[First(s)] + h[s \ {First(s)}]]
  BY <1>4
<1>6. Sum(f) = h[Providers]
  BY DEF Sum, FoldSet, MapThenFoldSet, First
<1> HIDE DEF h
<1> DEFINE G == {s \in SUBSET Providers : h[s] \in Nat}
<1>7. {} \in G
  BY <1>5
<1>8. ASSUME NEW s \in SUBSET Providers, s # {}, s \ {First(s)} \in G
      PROVE  s \in G
  <2>1. h[s] = f[First(s)] + h[s \ {First(s)}]
    BY <1>5, <1>8
  <2>2. f[First(s)] \in Nat /\ h[s \ {First(s)}] \in Nat
    BY <1>3, <1>8
  <2> QED
    BY <2>1, <2>2
<1> HIDE DEF G
<1>9. \A s \in SUBSET Providers : s \in G
  BY <1>1, <1>7, <1>8, SmallerFirst
<1>10. Providers \in G
  BY <1>9
<1> QED
  BY <1>6, <1>10 DEF G

(* The deficit is a whole number of hundredths. *)
LEMMA DeficitType ==
    ASSUME NEW used \in [Providers -> Nat], NEW p \in Providers
    PROVE  Deficit(p, used) \in Int /\ Sum(used) \in Nat
<1> DEFINE g == Sum(Target)
           a == Sum(used)
<1>1. g \in Nat \ {0} /\ Target[p] \in Nat /\ used[p] \in Nat
  BY TargetsAssumption DEF TargetsFit
<1>2. a \in Nat
  BY SumType
<1>3. \A n \in Int, d \in Nat \ {0} : Rounded(n, d) \in Int
  BY DEF Rounded
<1>4. Deficit(p, used) = IF a = 0 THEN Rounded(10000 * Target[p], g)
                         ELSE Rounded(10000 * (Target[p] * a - used[p] * g), g * a)
  BY DEF Deficit
<1> HIDE DEF g, a
<1>5. ASSUME a = 0 PROVE Deficit(p, used) \in Int
  <2>1. 10000 * Target[p] \in Int
    BY <1>1
  <2>2. Rounded(10000 * Target[p], g) \in Int
    BY <1>1, <1>3, <2>1
  <2> QED
    BY <1>4, <1>5, <2>2
<1>6. ASSUME a # 0 PROVE Deficit(p, used) \in Int
  <2>1. g * a \in Nat \ {0}
    BY <1>1, <1>2, <1>6
  <2>2. 10000 * (Target[p] * a - used[p] * g) \in Int
    BY <1>1, <1>2
  <2>3. Rounded(10000 * (Target[p] * a - used[p] * g), g * a) \in Int
    BY <1>3, <2>1, <2>2
  <2> QED
    BY <1>4, <1>6, <2>3
<1> QED
  BY <1>2, <1>5, <1>6 DEF a

(* The largest number of a bounded set is in it. *)
LEMMA MaxBelow ==
    ASSUME NEW n \in Nat, NEW s \in SUBSET (0..n), s # {}
    PROVE  Max(s) \in s
<1> DEFINE T == {k \in Nat : \A x \in s : x <= k}
<1>1. T \in SUBSET Nat /\ n \in T
  OBVIOUS
<1> HIDE DEF T
<1>2. PICK m \in T : \A k \in T : m <= k
  BY <1>1, LeastNumber
<1>3. m \in Nat /\ \A x \in s : x <= m
  BY <1>2 DEF T
<1>4. m \in s
  <2> SUFFICES ASSUME m \notin s PROVE FALSE
    OBVIOUS
  <2>1. \A x \in s : x \in Nat /\ x < m
    BY <1>3
  <2>2. m - 1 \in Nat /\ \A x \in s : x <= m - 1
    <3>1. PICK x \in s : TRUE
      OBVIOUS
    <3>2. m >= 1
      BY <1>3, <2>1, <3>1
    <3> QED
      BY <1>3, <2>1, <3>2
  <2>3. m - 1 \in T
    BY <2>2 DEF T
  <2> QED
    BY <1>2, <1>3, <2>3
<1> QED
  BY <1>3, <1>4 DEF Max

(* A level above the base needs points within the release of the first step. *)
LEMMA MagnitudeFits ==
    ASSUME NEW distance \in Int, NEW before
    PROVE  /\ Magnitude(distance, before) \in Nat
           /\ Magnitude(distance, before) > 0 => distance >= 100 * (StepUp[1] - Release)
<1> DEFINE n == Len(StepUp)
           rising == {k \in 1..n : distance >= 100 * StepUp[k]}
           holding == {k \in 1..n : k <= before /\ distance >= 100 * (StepUp[k] - Release)}
           s == {Cardinality(rising)} \cup holding
<1>1. /\ n \in Nat /\ n >= 1 /\ Release \in Nat
      /\ \A k \in 1..n : StepUp[k] \in 1..100
      /\ \A j, k \in 1..n : j < k => StepUp[j] < StepUp[k]
  BY EscalationAssumption, ElementOfSeq DEF EscalationOrdered
<1>2. Magnitude(distance, before) = Max(s)
  BY DEF Magnitude
<1> HIDE DEF n
<1>3. \A k \in 1..n : StepUp[k] \in Int /\ StepUp[1] \in Int /\ StepUp[k] >= StepUp[1]
  <2>1. ASSUME NEW k \in 1..n
        PROVE  StepUp[k] \in Int /\ StepUp[1] \in Int /\ StepUp[k] >= StepUp[1]
    <3>1. 1 \in 1..n /\ (k = 1 \/ 1 < k)
      BY <1>1
    <3>2. StepUp[k] \in 1..100 /\ StepUp[1] \in 1..100
      BY <1>1, <3>1
    <3>3. 1 < k => StepUp[1] < StepUp[k]
      BY <1>1, <3>1
    <3> HIDE <1>1
    <3> QED
      BY <3>1, <3>2, <3>3
  <2> QED
    BY <2>1
<1>4. IsFiniteSet(rising) /\ Cardinality(rising) \in 0..n
  <2>1. IsFiniteSet(1..n) /\ Cardinality(1..n) = n
    BY <1>1, FS_Interval
  <2>2. rising \subseteq 1..n
    OBVIOUS
  <2> HIDE DEF rising
  <2>3. IsFiniteSet(rising) /\ Cardinality(rising) <= n
    BY <2>1, <2>2, FS_Subset
  <2> QED
    BY <1>1, <2>3, FS_CardinalityType
<1>5. rising = {} => Cardinality(rising) = 0
  BY FS_EmptySet
<1>6. holding \subseteq 0..n
  BY <1>1
<1>7. rising # {} \/ holding # {} => distance >= 100 * (StepUp[1] - Release)
  <2>1. ASSUME NEW k \in 1..n, distance >= 100 * StepUp[k] \/ distance >= 100 * (StepUp[k] - Release)
        PROVE  distance >= 100 * (StepUp[1] - Release)
    <3>1. StepUp[k] \in Int /\ StepUp[1] \in Int /\ StepUp[k] >= StepUp[1] /\ Release \in Nat
      BY <1>1, <1>3
    <3> QED
      BY <2>1, <3>1
  <2> QED
    BY <2>1
<1> HIDE DEF rising, holding
<1>8. s \in SUBSET (0..n) /\ s # {}
  BY <1>4, <1>6
<1>9. Max(s) \in s
  <2> HIDE DEF s
  <2> QED
    BY <1>1, <1>8, MaxBelow
<1> QED
  BY <1>1, <1>2, <1>5, <1>7, <1>8, <1>9

(* A level above the base has both: points to justify it and no brake on.  *)
LEMMA LevelFits ==
    ASSUME NEW doc, doc.budget \in Budgets, NEW used \in [Providers -> Nat], NEW before, NEW report
    PROVE  LET level == EscalationLevel(doc, Steered, used, before, report)
           IN  /\ level \in Int
               /\ level > 0 => /\ Deficit(Steered, used) >= 100 * (StepUp[1] - Release)
                               /\ doc.budget.turns # 0 => 100 * used[Steered] < Hold * doc.budget.turns
<1> DEFINE d == Deficit(Steered, used)
           m == Magnitude(d, AtLeast(before, 0))
           o == Magnitude(-d, AtLeast(-before, 0))
           share == ShareLevel(d, Sum(used), before)
           rb == ReportedBrake(report)
           bb == BudgetBrake(used[Steered], doc.budget.turns)
           level == EscalationLevel(doc, Steered, used, before, report)
<1>1. d \in Int /\ Sum(used) \in Nat /\ used[Steered] \in Nat /\ doc.budget.turns \in Nat
  BY DeficitType, TargetsAssumption DEF TargetsFit, Budgets
<1>2. /\ MinTurns \in Nat /\ Hold \in 1..100 /\ Down \in Int /\ Down >= Hold
      /\ Len(StepUp) \in Nat /\ Len(StepUp) >= 1
  BY EscalationAssumption DEF EscalationOrdered
<1> HIDE DEF d
<1>3. m \in Nat /\ o \in Nat /\ (m > 0 => d >= 100 * (StepUp[1] - Release))
  BY <1>1, MagnitudeFits
<1> HIDE DEF m, o
<1>4. share \in Int /\ (share > 0 => share = m)
  BY <1>1, <1>2, <1>3 DEF ShareLevel, m, o
<1>5. rb \in {-1, 0, NoBrake}
  BY DEF ReportedBrake
<1>6. bb \in {-1, 0, NoBrake}
      /\ (bb = NoBrake /\ doc.budget.turns # 0 => 100 * used[Steered] < Hold * doc.budget.turns)
  <2> DEFINE x == 100 * used[Steered]
             y == Hold * doc.budget.turns
             z == Down * doc.budget.turns
  <2>1. x \in Int /\ y \in Int /\ z \in Int
    BY <1>1, <1>2
  <2>2. bb = CASE doc.budget.turns # 0 /\ x >= z -> -1
               [] doc.budget.turns # 0 /\ x >= y /\ x < z -> 0
               [] OTHER -> NoBrake
    BY DEF BudgetBrake
  <2> HIDE DEF x, y, z, bb
  <2>3. /\ bb \in {-1, 0, NoBrake}
        /\ bb = NoBrake /\ doc.budget.turns # 0 => x < y
    BY <1>2, <2>1, <2>2 DEF NoBrake
  <2> QED
    BY <2>3 DEF x, y
<1> HIDE DEF share, rb, bb
<1>7. level = 0 \/ level = AtMost(share, AtMost(rb, bb))
  BY DEF EscalationLevel, d, share, rb, bb
<1>8. NoBrake \in Nat
  BY <1>2 DEF NoBrake
<1> HIDE DEF level
<1>9. level \in Int /\ (level > 0 => share > 0 /\ bb > 0)
  BY <1>4, <1>5, <1>6, <1>7, <1>8 DEF AtMost
<1> QED
  BY <1>3, <1>4, <1>6, <1>9 DEF d, level

(* A step above the base is taken only on a level above the base. *)
LEMMA StepsUpOnLevel ==
    ASSUME NEW doc, Ladders(doc.table), NEW r, NEW level \in Int,
           ResolveSelection(doc, r, level).reached # NoLevel,
           ResolveSelection(doc, r, level).reached > 0
    PROVE  r.provider = Steered /\ level > 0
<1> DEFINE entry == doc.table[r.role]
           step == StepSelection(entry, level)
<1>1. \A x : Kept(x).reached = NoLevel
  BY DEF Kept
<1>2. /\ r.role \in DOMAIN doc.table /\ r.provider = Steered
      /\ ResolveSelection(doc, r, level).reached = step.reached
  BY <1>1 DEF ResolveSelection
<1>3. Len(entry.below) \in Nat
  BY <1>2 DEF Ladders
<1> HIDE DEF entry
<1>4. CASE level > 0
  BY <1>2, <1>4
<1>5. CASE ~(level > 0)
  <2> DEFINE down == AtMost(-level, Len(entry.below))
  <2>1. down \in Int
    BY <1>3 DEF AtMost
  <2>2. step.reached = 0 \/ (down > 0 /\ step.reached = -down)
    BY <1>5 DEF StepSelection
  <2> HIDE DEF down, step
  <2>3. ~(step.reached > 0)
    BY <2>1, <2>2
  <2> QED
    BY <1>2, <2>3
<1> QED
  BY <1>4, <1>5

(* The ladders of every document, loaded or about to be saved, are lists. *)
LaddersHeld ==
    /\ \A n \in 1..Revision : Ladders(saved[n].doc.table)
    /\ \A e \in Editors : draft[e].open => Ladders(draft[e].doc.table)
    /\ staged.open => Ladders(staged.previous.table) /\ Ladders(staged.candidate.table)

LEMMA CurrentLadders ==
    ASSUME EditsHeld, LaddersHeld
    PROVE  Ladders(Current.table) /\ IsDoc(Current)
<1>1. Revision \in Nat /\ IsDoc(Current)
  BY CurrentIsDoc
<1>2. Ladders(Defaults.table)
  BY TablesAssumption
<1> QED
  BY <1>1, <1>2 DEF Current, At, LaddersHeld

(* A save of a document with such ladders keeps them. *)
LEMMA SavedLadders ==
    ASSUME EditsHeld, LaddersHeld, NEW row, saved' = Append(saved, row), Ladders(row.doc.table)
    PROVE  \A n \in 1..Revision' : Ladders(saved'[n].doc.table)
<1>1. /\ Revision \in Nat /\ Revision' = Revision + 1
      /\ \A n \in 1..Revision : saved'[n] = saved[n]
      /\ saved'[Revision + 1] = row
  BY SaveAppends DEF EditsHeld
<1>2. \A n \in 1..Revision' : n \in 1..Revision \/ n = Revision + 1
  BY <1>1
<1> QED
  BY <1>1, <1>2 DEF LaddersHeld

LEMMA EditorLadders ==
    ASSUME EditsHeld, LaddersHeld, NEW e \in Editors,
           SaveDraft(e) \/ DropDraft(e) \/ \E x \in Patches, named \in BOOLEAN : Load(e, x, named)
    PROVE  LaddersHeld'
<1>1. CASE \E x \in Patches, named \in BOOLEAN : Load(e, x, named)
  <2>1. PICK x \in Patches, named \in BOOLEAN : Load(e, x, named)
    BY <1>1
  <2> DEFINE row == [open |-> TRUE, doc |-> Current, patch |-> x,
                     expected |-> IF named THEN Revision ELSE -1]
  <2>2. draft' = [draft EXCEPT ![e] = row] /\ UNCHANGED <<saved, staged>>
    BY <2>1 DEF Load
  <2>3. row.doc = Current
    OBVIOUS
  <2> HIDE DEF row
  <2>4. \A f \in Editors : draft'[f] = IF f = e THEN row ELSE draft[f]
    BY <2>2 DEF EditsHeld
  <2>5. Revision' = Revision
    BY <2>2 DEF Revision
  <2> QED
    BY <2>2, <2>3, <2>4, <2>5, CurrentLadders DEF LaddersHeld
<1>2. CASE SaveDraft(e) \/ DropDraft(e)
  <2>1. draft' = [draft EXCEPT ![e] = NoDraft] /\ staged' = staged
    BY <1>2 DEF SaveDraft, DropDraft
  <2>2. \A f \in Editors : draft'[f] = IF f = e THEN NoDraft ELSE draft[f]
    BY <2>1 DEF EditsHeld
  <2>3. (\A f \in Editors : draft'[f].open => Ladders(draft'[f].doc.table))
        /\ (staged'.open => Ladders(staged'.previous.table) /\ Ladders(staged'.candidate.table))
    BY <2>1, <2>2 DEF LaddersHeld, NoDraft
  <2>4. \A n \in 1..Revision' : Ladders(saved'[n].doc.table)
    <3>1. CASE DropDraft(e)
      BY <3>1 DEF DropDraft, LaddersHeld, Revision
    <3>2. CASE SaveDraft(e)
      <4> DEFINE doc == draft[e].doc
                 x == draft[e].patch
                 row == [doc |-> Patched(doc, x), by |-> IF draft[e].expected = -1 THEN "blind" ELSE "edit",
                         patch |-> x]
      <4>1. draft[e].open /\ saved' = Append(saved, row)
        BY <3>2 DEF SaveDraft, Save
      <4>2. IsDoc(doc) /\ x \in Patches /\ Ladders(doc.table)
        BY <4>1 DEF EditsHeld, DraftsFit, LaddersHeld
      <4>3. "table" \in Fields
        BY DefaultsAssumption DEF Fields
      <4>4. row.doc.table = IF "table" \in DOMAIN x THEN x["table"] ELSE doc["table"]
        BY <4>2, <4>3 DEF Patched, IsDoc
      <4>5. "table" \in DOMAIN x => Ladders(x.table)
        BY <4>2, TablesAssumption
      <4>6. Ladders(row.doc.table)
        BY <4>2, <4>4, <4>5
      <4> HIDE DEF row
      <4> QED
        BY <4>1, <4>6, SavedLadders
    <3> QED
      BY <1>2, <3>1, <3>2
  <2> QED
    BY <2>3, <2>4 DEF LaddersHeld
<1> QED
  BY <1>1, <1>2

LEMMA PromotionLadders ==
    ASSUME EditsHeld, LaddersHeld, (\E table \in Tables : Stage(table)) \/ Promote \/ Rollback
    PROVE  LaddersHeld'
<1>1. CASE \E table \in Tables : Stage(table)
  <2>1. PICK table \in Tables : Stage(table)
    BY <1>1
  <2> DEFINE d == [Current EXCEPT !.table = table]
             row == [open |-> TRUE, expected |-> Revision, previous |-> Current, candidate |-> d]
  <2>2. staged' = row /\ UNCHANGED <<saved, draft>>
    BY <2>1 DEF Stage
  <2>3. Ladders(Current.table) /\ d.table = table /\ Ladders(table)
    BY CurrentLadders, TableIsPatch, TablesAssumption
  <2>4. row.previous = Current /\ row.candidate = d
    OBVIOUS
  <2> HIDE DEF d, row
  <2> QED
    BY <2>2, <2>3, <2>4 DEF LaddersHeld, Revision
<1>2. CASE Promote
  <2> DEFINE row == [doc |-> staged.candidate, by |-> "promote", patch |-> [table |-> staged.candidate.table]]
  <2>1. staged.open /\ saved' = Append(saved, row) /\ UNCHANGED <<draft, staged>>
    BY <1>2 DEF Promote, Save
  <2>2. Ladders(row.doc.table)
    BY <2>1 DEF LaddersHeld
  <2> HIDE DEF row
  <2>3. \A n \in 1..Revision' : Ladders(saved'[n].doc.table)
    BY <2>1, <2>2, SavedLadders
  <2> QED
    BY <2>1, <2>3 DEF LaddersHeld
<1>3. CASE Rollback
  <2> DEFINE row == [doc |-> staged.previous, by |-> "rollback", patch |-> [table |-> staged.previous.table]]
  <2>1. staged.open /\ saved' = Append(saved, row) /\ UNCHANGED <<draft, staged>>
    BY <1>3 DEF Rollback, Save
  <2>2. Ladders(row.doc.table)
    BY <2>1 DEF LaddersHeld
  <2> HIDE DEF row
  <2>3. \A n \in 1..Revision' : Ladders(saved'[n].doc.table)
    BY <2>1, <2>2, SavedLadders
  <2> QED
    BY <2>1, <2>3 DEF LaddersHeld
<1> QED
  BY <1>1, <1>2, <1>3

LEMMA NextLadders ==
    ASSUME EditsHeld, LaddersHeld, [Next]_vars
    PROVE  LaddersHeld'
<1>1. CASE TaskStep \/ UNCHANGED vars
  BY <1>1, TasksLeaveDocument DEF LaddersHeld, Revision
<1> QED
  BY <1>1, EditorLadders, PromotionLadders DEF Next, TaskStep

(* A submission selects a step above the base only with room. *)
LEMMA SubmitHasRoom ==
    ASSUME EditsHeld, TasksHeld, LaddersHeld, NEW s \in Servers, NEW x \in Submissions,
           Submit(s, x.req, x.report), Selects(s), call'[s].chosen.reached > 0
    PROVE  /\ Deficit(Steered, Used) >= 100 * (StepUp[1] - Release)
           /\ Current.budget.turns # 0 => 100 * Used[Steered] < Hold * Current.budget.turns
<1> DEFINE r == x.req
           level == EscalationLevel(Current, r.provider, Used, held[r.provider], x.report)
           chosen == ResolveSelection(Current, r, level)
           row == [pc |-> "selected", req |-> r, revision |-> Revision, chosen |-> chosen]
<1>1. call' = [call EXCEPT ![s] = row]
  BY DEF Submit
<1>2. row.chosen = chosen
  OBVIOUS
<1> HIDE DEF row, chosen
<1>3. call'[s] = row
  BY <1>1 DEF TasksHeld, AdmissionTyped, CallsFit
<1>4. chosen.reached # NoLevel /\ chosen.reached > 0
  BY <1>2, <1>3 DEF Selects
<1>5. Ladders(Current.table) /\ Current.budget \in Budgets
  BY CurrentLadders DEF IsDoc
<1>6. Used \in [Providers -> Nat]
  BY DEF Used, TasksHeld, AdmissionTyped
<1> HIDE DEF level
<1>7. r.provider # Steered => level = 0
  BY DEF level, EscalationLevel
<1>8. r.provider = Steered =>
        /\ level \in Int
        /\ level > 0 => /\ Deficit(Steered, Used) >= 100 * (StepUp[1] - Release)
                        /\ Current.budget.turns # 0 => 100 * Used[Steered] < Hold * Current.budget.turns
  BY <1>5, <1>6, LevelFits DEF level
<1>9. level \in Int
  BY <1>7, <1>8
<1>10. r.provider = Steered /\ level > 0
  BY <1>4, <1>5, <1>9, StepsUpOnLevel DEF chosen
<1> QED
  BY <1>8, <1>10

(* Only a submission gives an idle server a call. *)
LEMMA OnlySubmits ==
    ASSUME TasksHeld, [Next]_vars, NEW s \in Servers, Selects(s)
    PROVE  \E x \in Submissions : Submit(s, x.req, x.report)
<1>1. call[s] = Idle /\ call'[s] # call[s]
  BY DEF Selects
<1>2. call = [z \in Servers |-> call[z]]
  BY DEF TasksHeld, AdmissionTyped, CallsFit
<1>3. call' # call
  BY <1>1
<1>4. \E z \in Servers : \/ \E x \in Submissions : Submit(z, x.req, x.report)
                         \/ Create(z) \/ Refuse(z) \/ Prepare(z) \/ PrepareFails(z) \/ Crash(z)
  BY <1>3 DEF Next, vars, Load, SaveDraft, DropDraft, Stage, Promote, Rollback, GiveUp, Continue, WindowMoves
<1>5. PICK z \in Servers : \/ \E x \in Submissions : Submit(z, x.req, x.report)
                           \/ Create(z) \/ Refuse(z) \/ Prepare(z) \/ PrepareFails(z) \/ Crash(z)
  BY <1>4
<1>6. \E row : call' = [call EXCEPT ![z] = row]
  BY <1>5 DEF Submit, Create, Refuse, Prepare, PrepareFails, Crash
<1>7. z = s
  BY <1>1, <1>2, <1>6
<1>8. ~(Create(s) \/ Refuse(s) \/ Prepare(s) \/ PrepareFails(s) \/ Crash(s))
  BY <1>1 DEF Create, Refuse, Prepare, PrepareFails, Crash, Idle
<1> QED
  BY <1>5, <1>7, <1>8

(* A task is stepped up only while its provider is short of its target by the first step's
   points, less what a held level may lose, and its budget is not near its end, whatever
   document, history and report a submission meets. *)
THEOREM StepsUpWithRoom == Spec => SteppedUpWithRoom
<1> DEFINE Roomy == \A s \in Servers :
                      (Selects(s) /\ call'[s].chosen.reached > 0) =>
                          /\ Deficit(Steered, Used) >= 100 * (StepUp[1] - Release)
                          /\ Current.budget.turns # 0 =>
                               100 * Used[Steered] < Hold * Current.budget.turns
<1>1. Init => EditsHeld
  BY InitEdits
<1>2. Init => LaddersHeld
  BY DEF Init, LaddersHeld, Revision, NoDraft, NotStaged
<1>3. EditsHeld /\ LaddersHeld /\ [Next]_vars => LaddersHeld'
  BY NextLadders
<1>4. EditsHeld /\ TasksHeld /\ LaddersHeld /\ [Next]_vars => [Roomy]_vars
  BY OnlySubmits, SubmitHasRoom
<1> QED
  BY <1>1, <1>2, <1>3, <1>4, InitTasks, NextEdits, NextTasks, PTL DEF Spec, SteppedUpWithRoom
================================================================================
