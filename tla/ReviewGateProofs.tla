-------------------------- MODULE ReviewGateProofs --------------------------
(***************************************************************************)
(* What the gates of ReviewGate guarantee for every set of providers,      *)
(* families, reviews, candidates and requests.                             *)
(***************************************************************************)
EXTENDS ReviewGate, Integers, FiniteSetTheorems, WellFoundedInduction, TLAPS

(* A claim is held exactly while the task is being or was accepted. *)
ClaimHeld ==
    /\ claim.rev # 0 => state \in {"ACCEPTING", "ACCEPTED"}
    /\ state = "ACCEPTING" => claim.rev # 0

(* A recorded review of candidate rev by an independent provider. *)
Reviewed(r, rev) ==
    /\ reviews[r].st = "recorded" /\ reviews[r].rev = rev
    /\ reviews[r].provider # Author /\ reviews[r].family # FamilyOf[Author]

(* What record_integration's gates found of the candidate they looked at stays so; and the
   candidate is still the latest while the version they read is the task's. *)
ManualFresh ==
    manual.at # "none" =>
        /\ manual.rev \in 1..Revision /\ manual.version <= version
        /\ ~cands[manual.rev].scope
        /\ "root" \in manual.flags /\ cands[manual.rev].root => manual.rev \in acked
        /\ "review" \in manual.flags => \E r \in ReviewTasks : Reviewed(r, manual.rev)
        /\ manual.at = "gated" /\ manual.version = version => manual.rev = Revision

(* The inductive invariant of both properties below. *)
GatesHold == ClaimHeld /\ ManualFresh /\ AcceptedIsClean /\ AcceptedWasReviewed

---------------------------------------------------------------------------
(* The candidates: there is always a latest one, and a finished turn appends one. *)
LEMMA CandidateFacts ==
    ASSUME cands \in Seq(Outcomes), cands # <<>>
    PROVE  /\ Revision \in Nat \ {0}
           /\ Current \in Outcomes
           /\ \A c \in Outcomes : /\ Append(cands, c) \in Seq(Outcomes)
                                  /\ Append(cands, c) # <<>>
                                  /\ Len(Append(cands, c)) = Revision + 1
  BY DEF Revision, Current

(* A page of task_diff is a real page: it starts inside the diff and is not empty. *)
LEMMA ReceiptTyped ==
    ASSUME TypeOK, NEW o \in 0..3, NEW n \in Pages, TaskDiff(o, n)
    PROVE  receipts' \subseteq [digest : Digests, offset : Nat, length : Nat \ {0}]
  <1> DEFINE size == SizeOf[Current.digest]
             length == CHOOSE k \in {n, MaxPage, size - o} :
                         \A j \in {n, MaxPage, size - o} : k <= j
  <1>1. Current.digest \in Digests
    BY CandidateFacts, GateAssumption DEF TypeOK
  <1>2. size \in Nat /\ o \in Nat /\ n \in Nat \ {0} /\ o < size
    BY <1>1, GateAssumption DEF TaskDiff
  <1>3. length \in Nat \ {0}
    <2> DEFINE S == {n, MaxPage, size - o}
    <2> HIDE DEF size
    <2>1. S \subseteq Nat \ {0}
      BY <1>2, GateAssumption
    <2>2. \E k \in S : \A j \in S : k <= j
      BY <1>2, GateAssumption
    <2> QED
      BY <2>1, <2>2
  <1>4. receipts' = receipts \cup {[digest |-> Current.digest, offset |-> o, length |-> length]}
    BY DEF TaskDiff
  <1> HIDE DEF length, size
  <1> QED
    BY <1>1, <1>2, <1>3, <1>4 DEF TypeOK

(* The rows the model starts with are rows. *)
LEMMA RowsTyped ==
    /\ Idle \in ReviewRow
    /\ NoClaim \in ClaimRow
    /\ NoManual \in ManualRow
  BY GateAssumption DEF Idle, ReviewRow, NoClaim, ClaimRow, NoManual, ManualRow, Providers, Unsaid

(* So is a review that moved on. *)
LEMMA ReviewTyped ==
    ASSUME reviews \in [ReviewTasks -> ReviewRow], NEW r \in ReviewTasks
    PROVE  /\ \A n \in Nat :
                [reviews EXCEPT ![r].st = "prompted", ![r].shown = n] \in [ReviewTasks -> ReviewRow]
           /\ \A said \in Verdicts :
                [reviews EXCEPT ![r].st = "recorded", ![r].said = said] \in [ReviewTasks -> ReviewRow]
           /\ \A end \in {"discarded", "failed"} :
                [reviews EXCEPT ![r].st = end] \in [ReviewTasks -> ReviewRow]
  <1>1. /\ \A n \in Nat : [reviews[r] EXCEPT !.st = "prompted", !.shown = n] \in ReviewRow
        /\ \A said \in Verdicts : [reviews[r] EXCEPT !.st = "recorded", !.said = said] \in ReviewRow
        /\ \A end \in {"discarded", "failed"} : [reviews[r] EXCEPT !.st = end] \in ReviewRow
    BY DEF ReviewRow
  <1> QED
    BY <1>1

(* Every state is typed: the revision, the receipts, the review rows and the claim. *)
THEOREM TypeCorrect == Spec => []TypeOK
  <1>1. Init => TypeOK
    <2> SUFFICES ASSUME Init PROVE TypeOK
      OBVIOUS
    <2>1. PICK c \in Outcomes : cands = <<c>>
      BY DEF Init
    <2>2. cands \in Seq(Outcomes) /\ cands # <<>> /\ Len(cands) = 1
      BY <2>1
    <2> QED
      BY <2>2, RowsTyped, GateAssumption DEF Init, TypeOK, Revision
  <1>2. TypeOK /\ [Next]_vars => TypeOK'
    <2> SUFFICES ASSUME TypeOK, [Next]_vars PROVE TypeOK'
      OBVIOUS
    <2>0. Revision \in Nat \ {0}
      BY CandidateFacts DEF TypeOK
    <2>1. CASE UNCHANGED vars
      BY <2>1 DEF vars, TypeOK, Revision
    <2>2. ASSUME NEW o \in 0..3, NEW n \in Pages, TaskDiff(o, n)
          PROVE  TypeOK'
      BY <2>2, ReceiptTyped DEF TaskDiff, TypeOK, Revision
    <2>3. CASE Look
      BY <2>0, <2>3 DEF Look, TypeOK, Revision
    <2>4. CASE Repair
      BY <2>4 DEF Repair, TypeOK, Revision
    <2>5. CASE AcceptEnds
      BY <2>5, RowsTyped DEF AcceptEnds, TypeOK, Revision
    <2>6. CASE Acknowledge
      <3>1. Revision' = Revision
        BY <2>6 DEF Acknowledge, Revision
      <3> QED
        BY <2>0, <2>6, <3>1 DEF Acknowledge, TypeOK
    <2>7. CASE RecordAccepting \/ RecordAccepted
      <3>1. Recorded \in ClaimRow /\ NoManual \in ManualRow
        BY <2>0, RowsTyped DEF Recorded, NoClaim, ClaimRow, ManualRow, TypeOK
      <3>2. claim' \in ClaimRow /\ version' \in Nat \ {0}
        BY <2>7, <3>1 DEF RecordAccepting, RecordAccepted, TypeOK
      <3>3. manual' \in ManualRow
        BY <2>7, <3>1 DEF RecordAccepting, RecordAccepted, TypeOK, ManualRow
      <3> QED
        BY <2>7, <3>2, <3>3 DEF RecordAccepting, RecordAccepted, TypeOK, Revision
    <2>8. ASSUME NEW c \in Outcomes, FinishTurn(c)
          PROVE  TypeOK'
      <3>1. cands' \in Seq(Outcomes) /\ cands' # <<>> /\ Revision' = Revision + 1
        BY <2>8, CandidateFacts DEF FinishTurn, TypeOK, Revision
      <3> QED
        BY <2>0, <2>8, <3>1 DEF FinishTurn, TypeOK
    <2>9. ASSUME NEW r \in ReviewTasks, NEW p \in Reviewers, PlaceReview(r, p)
          PROVE  TypeOK'
      <3>1. reviews' \in [ReviewTasks -> ReviewRow]
        BY <2>0, <2>9, RowsTyped DEF PlaceReview, TypeOK, ReviewRow, Providers
      <3> QED
        BY <2>9, <3>1 DEF PlaceReview, TypeOK, Revision
    <2>10. ASSUME NEW r \in ReviewTasks, PrepareReview(r)
           PROVE  TypeOK'
      <3>1. reviews' \in [ReviewTasks -> ReviewRow]
        BY <2>0, <2>10, ReviewTyped DEF PrepareReview, TypeOK
      <3> QED
        BY <2>10, <3>1 DEF PrepareReview, TypeOK, Revision
    <2>11. ASSUME NEW r \in ReviewTasks, NEW said \in Verdicts, FinishReview(r, said)
           PROVE  TypeOK'
      <3>1. reviews' \in [ReviewTasks -> ReviewRow]
        <4>1. CASE reviews' = insert_review(r, said)
          BY <4>1, ReviewTyped DEF insert_review, TypeOK
        <4>2. ASSUME NEW end \in {"discarded", "failed"}, reviews' = [reviews EXCEPT ![r].st = end]
              PROVE  reviews' \in [ReviewTasks -> ReviewRow]
          BY <4>2, ReviewTyped DEF TypeOK
        <4> QED
          BY <2>11, <4>1, <4>2 DEF FinishReview
      <3> QED
        BY <2>11, <3>1 DEF FinishReview, TypeOK, Revision
    <2>12. ASSUME NEW p \in Reviewers, Authorize(p) \/ Revoke(p)
           PROVE  TypeOK'
      BY <2>12 DEF Authorize, Revoke, TypeOK, Revision
    <2>13. ASSUME NEW p \in Reviewers, NEW f \in Families, EditProfile(p, f)
           PROVE  TypeOK'
      BY <2>13 DEF EditProfile, TypeOK, Revision
    <2>14. ASSUME NEW flags \in Flags, IntegrationGates(flags)
           PROVE  TypeOK'
      BY <2>0, <2>14 DEF IntegrationGates, ManualRow, TypeOK, Revision
    <2>15. ASSUME NEW flags \in Flags, NEW r \in ReviewTasks \cup {NoReview},
                  NEW d \in SUBSET Findings, NEW o \in SUBSET Findings, Accept(flags, r, d, o)
           PROVE  TypeOK'
      <3>1. claim' \in ClaimRow
        BY <2>0, <2>15 DEF Accept, ClaimRow
      <3> QED
        BY <2>15, <3>1 DEF Accept, TypeOK, Revision
    <2> QED
      BY <2>1, <2>2, <2>3, <2>4, <2>5, <2>6, <2>7, <2>8, <2>9, <2>10, <2>11, <2>12, <2>13,
         <2>14, <2>15 DEF Next
  <1> QED
    BY <1>1, <1>2, PTL DEF Spec

---------------------------------------------------------------------------
(* A recorded review is never touched again: what made it count keeps counting. *)
LEMMA ReviewsKept ==
    ASSUME TypeOK, [Next]_vars, NEW q \in ReviewTasks, reviews[q].st = "recorded"
    PROVE  reviews'[q] = reviews[q]
  <1>1. ASSUME NEW r \in ReviewTasks, NEW p \in Reviewers, PlaceReview(r, p)
        PROVE  reviews'[q] = reviews[q]
    BY <1>1 DEF PlaceReview, TypeOK
  <1>2. ASSUME NEW r \in ReviewTasks, PrepareReview(r)
        PROVE  reviews'[q] = reviews[q]
    BY <1>2 DEF PrepareReview, TypeOK
  <1>3. ASSUME NEW r \in ReviewTasks, NEW said \in Verdicts, FinishReview(r, said)
        PROVE  reviews'[q] = reviews[q]
    BY <1>3 DEF FinishReview, insert_review, TypeOK
  <1> QED
    BY <1>1, <1>2, <1>3
    DEF Next, vars, TaskDiff, Look, Repair, AcceptEnds, Acknowledge, RecordAccepting, RecordAccepted,
        FinishTurn, Authorize, Revoke, EditProfile, IntegrationGates, Accept

(* ... and so is a candidate: turns only append. *)
LEMMA CandidatesKept ==
    ASSUME TypeOK, [Next]_vars
    PROVE  \/ cands' = cands
           \/ state = "REPAIRING" /\ version' = version + 2 /\ manual' = manual /\ claim' = claim
  BY DEF Next, vars, TaskDiff, Look, Repair, AcceptEnds, Acknowledge, RecordAccepting, RecordAccepted,
         FinishTurn, Authorize, Revoke, EditProfile, IntegrationGates, Accept,
         PlaceReview, PrepareReview, FinishReview

(* What a revision is never changes, and there are never fewer of them. *)
LEMMA PastKept ==
    ASSUME TypeOK, [Next]_vars
    PROVE  /\ Revision \in Nat /\ Revision' \in Nat /\ Revision <= Revision'
           /\ \A rev \in 1..Revision : cands'[rev] = cands[rev]
  <1>1. CASE cands' = cands
    BY <1>1 DEF TypeOK, Revision
  <1>2. ASSUME NEW c \in Outcomes, FinishTurn(c)
        PROVE  /\ Revision \in Nat /\ Revision' \in Nat /\ Revision <= Revision'
               /\ \A rev \in 1..Revision : cands'[rev] = cands[rev]
    BY <1>2 DEF FinishTurn, TypeOK, Revision
  <1> QED
    BY <1>1, <1>2
    DEF Next, vars, TaskDiff, Look, Repair, AcceptEnds, Acknowledge, RecordAccepting, RecordAccepted,
        Authorize, Revoke, EditProfile, IntegrationGates, Accept,
        PlaceReview, PrepareReview, FinishReview

(* The acknowledgements only grow. *)
LEMMA AckedKept ==
    ASSUME [Next]_vars
    PROVE  acked \subseteq acked'
  BY DEF Next, vars, TaskDiff, Look, Repair, AcceptEnds, Acknowledge, RecordAccepting, RecordAccepted,
         FinishTurn, Authorize, Revoke, EditProfile, IntegrationGates, Accept,
         PlaceReview, PrepareReview, FinishReview

(* A provider that passed _require_independent is of another family than the author was
   bound to. *)
LEMMA IndependentFamily ==
    ASSUME NEW r \in ReviewTasks, RequireIndependent(reviews[r].provider, reviews[r].family)
    PROVE  reviews[r].provider # Author /\ reviews[r].family # FamilyOf[Author]
  BY DEF RequireIndependent, ReviewerIndependent

(* accept_task under its gates: the claim it makes is clean and reviewed. *)
LEMMA AcceptGated ==
    ASSUME TypeOK, GatesHold, NEW flags \in Flags, NEW r \in ReviewTasks \cup {NoReview},
           NEW d \in SUBSET Findings, NEW o \in SUBSET Findings, Accept(flags, r, d, o)
    PROVE  AcceptedIsClean' /\ AcceptedWasReviewed'
  <1>1. /\ claim'.rev = Revision /\ claim'.gated = Revision
        /\ claim'.flags = flags /\ claim'.review = r /\ claim'.disposed = d
        /\ claim'.overridden = o /\ cands' = cands /\ reviews' = reviews /\ acked' = acked
    BY DEF Accept
  <1>2. AcceptGates(Revision, "rerun" \notin flags, flags)
    BY DEF Accept, CheckAcceptance
  <1>3. AcceptedIsClean'
    BY <1>1, <1>2 DEF AcceptedIsClean, AcceptGates, UnacknowledgedRootMutation, Revision
  <1>4. AcceptedWasReviewed'
    <2> SUFFICES ASSUME "review" \in flags PROVE AcceptedWasReviewed'
      BY <1>1 DEF AcceptedWasReviewed
    <2>1. /\ r \in ReviewTasks
          /\ BoundReview(r, Revision)
          /\ RequireIndependent(reviews[r].provider, reviews[r].family)
          /\ ~(reviews[r].said.verdict = "BLOCK" /\ reviews[r].said.findings = {})
          /\ Undisposed(reviews[r].said, d, o) \subseteq {reviews[r].said.verdict}
      BY DEF Accept, CheckAcceptance, check_dispositions
    <2>2. Reviewed(r, Revision)
      BY <2>1, IndependentFamily DEF BoundReview, Reviewed
    <2> DEFINE said == reviews[r].said
    <2>3. \A f \in said.findings \ {said.verdict} :
            /\ said.verdict = "BLOCK" \/ f \in said.critical => f \in o
            /\ said.verdict = "CONCERN" => f \in d
      BY <2>1 DEF Undisposed
    <2>4. ~(said.verdict = "BLOCK" /\ said.findings = {})
      BY <2>1
    <2> QED
      BY <1>1, <2>1, <2>2, <2>3, <2>4 DEF AcceptedWasReviewed, Answered, Reviewed
  <1> QED
    BY <1>3, <1>4

(* record_integration under its gates: what they found is written down with the version
   they read. *)
LEMMA ManualGated ==
    ASSUME TypeOK, GatesHold, NEW flags \in Flags, IntegrationGates(flags)
    PROVE  ManualFresh'
  <1>0. Revision \in Nat \ {0} /\ version \in Nat
    BY CandidateFacts DEF TypeOK
  <1>1. /\ manual' = [at |-> "gated", version |-> version, rev |-> Revision, flags |-> flags]
        /\ version' = version /\ cands' = cands /\ acked' = acked /\ reviews' = reviews
    BY DEF IntegrationGates
  <1>2. AcceptGates(Revision, "rerun" \in flags, flags)
    BY DEF IntegrationGates
  <1>3. "review" \in flags => \E r \in ReviewTasks : Reviewed(r, Revision)
    BY IndependentFamily DEF IntegrationGates, RequireIndependentReview, Reviewed
  <1>4. "review" \in flags => \E r \in ReviewTasks : Reviewed(r, Revision)'
    BY <1>1, <1>3 DEF Reviewed, Revision
  <1> QED
    BY <1>0, <1>1, <1>2, <1>4
    DEF ManualFresh, AcceptGates, UnacknowledgedRootMutation, Revision, Reviewed

(* What record_integration claims holds of the candidate its gates looked at, once the
   latest candidate is inside its scope. *)
LEMMA RecordedGated ==
    ASSUME TypeOK, ManualFresh, manual.at # "none", ~Current.scope, claim' = Recorded,
           cands' = cands, acked' = acked, reviews' = reviews
    PROVE  AcceptedIsClean' /\ AcceptedWasReviewed' /\ claim'.rev # 0
  <1>1. /\ claim'.rev = Revision /\ claim'.gated = manual.rev
        /\ claim'.flags = manual.flags /\ claim'.review = NoReview
    BY DEF Recorded, NoClaim
  <1>2. AcceptedIsClean'
    BY <1>1 DEF ManualFresh, AcceptedIsClean, Current, Revision
  <1>3. AcceptedWasReviewed'
    BY <1>1, GateAssumption DEF ManualFresh, AcceptedWasReviewed, Reviewed
  <1> QED
    BY <1>1, <1>2, <1>3, CandidateFacts DEF TypeOK

(* record_integration's first transition: pinned to the version of the gates, it lands the
   candidate they looked at. *)
LEMMA AcceptingGated ==
    ASSUME TypeOK, GatesHold, RecordAccepting
    PROVE  GatesHold'
  <1>1. /\ manual.at = "gated" /\ cands' = cands /\ reviews' = reviews /\ acked' = acked
        /\ Revision' = Revision
    BY DEF RecordAccepting, Revision
  <1>2. CASE state = "RESULT_READY" /\ version = manual.version
    <2>1. /\ state' = "ACCEPTING" /\ version' = version + 1 /\ claim' = Recorded
          /\ manual' = [manual EXCEPT !.at = "accepting"]
      BY <1>2 DEF RecordAccepting
    <2>2. /\ manual'.at = "accepting" /\ manual'.rev = manual.rev
          /\ manual'.version = manual.version /\ manual'.flags = manual.flags
      BY <1>1, <2>1 DEF TypeOK, ManualRow
    <2>3. version \in Nat /\ manual.version \in Nat
      BY DEF TypeOK, ManualRow
    <2>4. ManualFresh'
      BY <1>1, <2>1, <2>2, <2>3 DEF GatesHold, ManualFresh, Reviewed
    <2>5. ~Current.scope
      BY <1>1, <1>2 DEF GatesHold, ManualFresh, Current
    <2> QED
      BY <1>1, <2>1, <2>4, <2>5, RecordedGated DEF GatesHold, ClaimHeld
  <1>3. CASE ~(state = "RESULT_READY" /\ version = manual.version)
    <2>1. manual' = NoManual /\ state' = state /\ version' = version /\ claim' = claim
      BY <1>3 DEF RecordAccepting
    <2> QED
      BY <1>1, <2>1
      DEF GatesHold, ManualFresh, NoManual, ClaimHeld, AcceptedIsClean, AcceptedWasReviewed, Answered
  <1> QED
    BY <1>2, <1>3

(* Its second transition is pinned to nothing.  Whatever brought the task to ACCEPTING had
   passed the gates of the candidate that is the latest one now. *)
LEMMA AcceptedGated ==
    ASSUME TypeOK, GatesHold, RecordAccepted
    PROVE  GatesHold'
  <1>1. /\ manual.at = "accepting" /\ manual' = NoManual
        /\ cands' = cands /\ reviews' = reviews /\ acked' = acked /\ Revision' = Revision
    BY DEF RecordAccepted, Revision
  <1>2. ManualFresh'
    BY <1>1 DEF ManualFresh, NoManual
  <1>3. CASE state = "ACCEPTING"
    <2>1. ~Current.scope
      BY <1>3 DEF GatesHold, ClaimHeld, AcceptedIsClean, Current
    <2> QED
      BY <1>1, <1>2, <1>3, <2>1, RecordedGated DEF GatesHold, ClaimHeld, RecordAccepted
  <1>4. CASE state # "ACCEPTING"
    BY <1>1, <1>2, <1>4
    DEF RecordAccepted, GatesHold, ClaimHeld, AcceptedIsClean, AcceptedWasReviewed, Answered
  <1> QED
    BY <1>3, <1>4

(* A step that makes no claim and passes no gate disturbs none. *)
LEMMA OthersKeepGates ==
    ASSUME TypeOK, TypeOK', GatesHold, [Next]_vars, version' >= version, manual' = manual,
           \/ claim' = claim /\ (state \in {"ACCEPTING", "ACCEPTED"} => state' \in {"ACCEPTING", "ACCEPTED"})
           \/ claim' = NoClaim,
           state' = "ACCEPTING" => state = "ACCEPTING" /\ claim' = claim
    PROVE  GatesHold'
  <1>0. version \in Nat /\ version' \in Nat
    BY DEF TypeOK
  <1>1. \A q \in ReviewTasks, rev \in Nat : Reviewed(q, rev) => Reviewed(q, rev)'
    BY ReviewsKept DEF Reviewed
  <1>2. acked \subseteq acked'
    BY AckedKept
  <1>3. ManualFresh'
    <2> SUFFICES ASSUME manual.at # "none" PROVE ManualFresh'
      BY DEF ManualFresh
    <2>1. /\ manual.rev \in 1..Revision /\ manual.version <= version /\ manual.version \in Nat
          /\ ~cands[manual.rev].scope
          /\ "root" \in manual.flags /\ cands[manual.rev].root => manual.rev \in acked
          /\ "review" \in manual.flags => \E r \in ReviewTasks : Reviewed(r, manual.rev)
          /\ manual.at = "gated" /\ manual.version = version => manual.rev = Revision
      BY DEF GatesHold, ManualFresh, TypeOK, ManualRow
    <2>2. manual.rev \in 1..Revision' /\ cands'[manual.rev] = cands[manual.rev]
      BY <2>1, PastKept
    <2>3. "review" \in manual.flags => \E r \in ReviewTasks : Reviewed(r, manual.rev)'
      BY <1>1, <2>1, PastKept DEF Reviewed
    <2>4. manual.at = "gated" /\ manual.version = version' => manual.rev = Revision'
      <3>1. CASE cands' = cands
        BY <1>0, <2>1, <3>1 DEF Revision
      <3>2. CASE version' = version + 2
        BY <1>0, <2>1, <3>2
      <3> QED
        BY <3>1, <3>2, CandidatesKept
    <2> QED
      BY <1>0, <1>2, <2>1, <2>2, <2>3, <2>4 DEF ManualFresh, Reviewed
  <1>4. CASE claim' = NoClaim
    BY <1>3, <1>4 DEF GatesHold, NoClaim, ClaimHeld, AcceptedIsClean, AcceptedWasReviewed
  <1>5. CASE /\ claim' = claim
             /\ state \in {"ACCEPTING", "ACCEPTED"} => state' \in {"ACCEPTING", "ACCEPTED"}
    <2>1. ClaimHeld'
      BY <1>5 DEF GatesHold, ClaimHeld
    <2>2. claim.rev # 0 => cands' = cands
      BY CandidatesKept DEF GatesHold, ClaimHeld
    <2>3. AcceptedIsClean'
      BY <1>2, <1>5, <2>2 DEF GatesHold, AcceptedIsClean, Revision
    <2>4. AcceptedWasReviewed'
      BY <1>5, ReviewsKept DEF GatesHold, AcceptedWasReviewed, Answered
    <2> QED
      BY <1>3, <2>1, <2>3, <2>4 DEF GatesHold
  <1> QED
    BY <1>4, <1>5

(* The gates' conclusions stay true of whatever the task was accepted with. *)
LEMMA GatesStayHeld == Spec => []GatesHold
  <1>1. Init => GatesHold
    BY DEF Init, GatesHold, ClaimHeld, ManualFresh, AcceptedIsClean, AcceptedWasReviewed,
           NoClaim, NoManual
  <1>2. TypeOK /\ TypeOK' /\ GatesHold /\ [Next]_vars => GatesHold'
    <2> SUFFICES ASSUME TypeOK, TypeOK', GatesHold, [Next]_vars PROVE GatesHold'
      OBVIOUS
    <2>1. ASSUME NEW flags \in Flags, NEW r \in ReviewTasks \cup {NoReview},
                 NEW d \in SUBSET Findings, NEW o \in SUBSET Findings, Accept(flags, r, d, o)
          PROVE  GatesHold'
      <3>1. ClaimHeld'
        BY <2>1, CandidateFacts DEF Accept, ClaimHeld, TypeOK
      <3>2. ManualFresh'
        <4>1. /\ manual' = manual /\ cands' = cands /\ acked' = acked /\ reviews' = reviews
              /\ version' = version + 1 /\ Revision' = Revision
          BY <2>1 DEF Accept, Revision
        <4>2. version \in Nat /\ manual.version \in Nat
          BY DEF TypeOK, ManualRow
        <4> QED
          BY <4>1, <4>2 DEF GatesHold, ManualFresh, Reviewed
      <3> QED
        BY <2>1, <3>1, <3>2, AcceptGated DEF GatesHold
    <2>2. ASSUME NEW flags \in Flags, IntegrationGates(flags)
          PROVE  GatesHold'
      BY <2>2, ManualGated
      DEF IntegrationGates, GatesHold, ClaimHeld, AcceptedIsClean, AcceptedWasReviewed, Answered,
          Revision
    <2>3. CASE RecordAccepting \/ RecordAccepted
      BY <2>3, AcceptingGated, AcceptedGated
    <2>4. CASE /\ ~RecordAccepting /\ ~RecordAccepted
               /\ \A flags \in Flags : ~IntegrationGates(flags)
               /\ \A flags \in Flags, r \in ReviewTasks \cup {NoReview}, d, o \in SUBSET Findings :
                    ~Accept(flags, r, d, o)
      <3>1. manual' = manual
        BY <2>4 DEF Next, vars, TaskDiff, Look, Repair, AcceptEnds, Acknowledge,
           FinishTurn, Authorize, Revoke, EditProfile, PlaceReview, PrepareReview, FinishReview
      <3>2. version' = version \/ version' = version + 1 \/ version' = version + 2
        BY <2>4 DEF Next, vars, TaskDiff, Look, Repair, AcceptEnds, Acknowledge,
           FinishTurn, Authorize, Revoke, EditProfile, PlaceReview, PrepareReview, FinishReview
      <3>3. version' >= version
        BY <3>2 DEF TypeOK
      <3>4. \/ claim' = claim
               /\ (state \in {"ACCEPTING", "ACCEPTED"} => state' \in {"ACCEPTING", "ACCEPTED"})
            \/ claim' = NoClaim
        BY <2>4 DEF Next, vars, TaskDiff, Look, Repair, AcceptEnds, Acknowledge,
           FinishTurn, Authorize, Revoke, EditProfile, PlaceReview, PrepareReview, FinishReview
      <3>5. state' = "ACCEPTING" => state = "ACCEPTING" /\ claim' = claim
        BY <2>4 DEF Next, vars, TaskDiff, Look, Repair, AcceptEnds, Acknowledge,
           FinishTurn, Authorize, Revoke, EditProfile, PlaceReview, PrepareReview, FinishReview
      <3> QED
        BY <3>1, <3>3, <3>4, <3>5, OthersKeepGates
    <2> QED
      BY <2>1, <2>2, <2>3, <2>4
  <1> QED
    BY <1>1, <1>2, TypeCorrect, PTL DEF Spec

(* What lands is the latest candidate and inside its scope, also where another acceptance
   overtakes a record_integration between its two transitions, the second of which is
   pinned to nothing; and no acknowledgement of a root mutation carries over from another
   candidate to the one the gates looked at. *)
THEOREM CleanIsAccepted == Spec => []AcceptedIsClean
  <1>1. GatesHold => AcceptedIsClean
    BY DEF GatesHold
  <1> QED
    BY <1>1, GatesStayHeld, PTL

(* A call that accepted a candidate with a review required had a recorded review of that
   very candidate by a provider of another family, with every finding that stands in the
   way answered, one named like the verdict excepted, whatever is reviewed, repaired,
   revoked, swept or reconfigured meanwhile. *)
THEOREM ReviewedIsAccepted == Spec => []AcceptedWasReviewed
  <1>1. GatesHold => AcceptedWasReviewed
    BY DEF GatesHold
  <1> QED
    BY <1>1, GatesStayHeld, PTL

-----------------------------------------------------------------------------
(* Induction, from the well-foundedness of < alone, and what a fold over a *)
(* sequence computes                                                       *)

(* A nonempty set of numbers has a least one.                              *)
LEMMA LeastNumber ==
    ASSUME NEW T \in SUBSET Nat, T # {}
    PROVE  \E m \in T : \A k \in T : m <= k
<1> DEFINE Less == {p \in Nat \X Nat : p[1] < p[2]}
<1>1. IsWellFoundedOn(Less, Nat)
  BY NatLessThanWellFounded DEF OpToRel
<1>2. \A x, y \in T : y < x => <<y, x>> \in Less
  OBVIOUS
<1> HIDE DEF Less
<1>3. \E x \in T : \A y \in T : ~(<<y, x>> \in Less)
  BY <1>1, WFMin
<1>4. PICK m \in T : \A y \in T : ~(y < m)
  BY <1>2, <1>3
<1> QED
  BY <1>4

(* Induction up to n, over the set of the numbers that have the property.  *)
LEMMA CountingUp ==
    ASSUME NEW n \in Nat, NEW G \in SUBSET Nat, 0 \in G,
           \A k \in 0..(n - 1) : k \in G => k + 1 \in G
    PROVE  n \in G
<1>1. SUFFICES ASSUME n \notin G PROVE FALSE
  OBVIOUS
<1> DEFINE T == {k \in Nat : k \notin G}
<1>2. T \in SUBSET Nat /\ T # {} /\ n \in T
  BY <1>1
<1> HIDE DEF T
<1>3. PICK m \in T : \A k \in T : m <= k
  BY <1>2, LeastNumber
<1>4. m \in Nat /\ m \notin G
  BY <1>3 DEF T
<1>5. m # 0 /\ m <= n
  BY <1>2, <1>3, <1>4
<1>6. m - 1 \in 0..(n - 1) /\ m - 1 \notin T
  BY <1>3, <1>4, <1>5
<1> QED
  BY <1>4, <1>6 DEF T

(* The largest element of a set, if it has one, is what Max chooses.       *)
LEMMA MaxIsLargest ==
    ASSUME NEW s \in SUBSET Nat, NEW k \in s, \A y \in s : k >= y
    PROVE  Max(s) = k
<1>1. Max(s) \in s /\ \A y \in s : Max(s) >= y
  BY DEF Max
<1>2. Max(s) \in Nat /\ k \in Nat /\ Max(s) >= k /\ k >= Max(s)
  BY <1>1
<1> QED
  BY <1>2

(* Every nonempty set of indices has a largest element.                    *)
LEMMA MaxInside ==
    ASSUME NEW n \in Nat, NEW s \in SUBSET (1..n), s # {}
    PROVE  Max(s) \in s
<1> DEFINE T == {k \in Nat : n - k \in s}
<1>1. \A y \in s : n - y \in Nat /\ n - (n - y) = y
  OBVIOUS
<1>2. \A y \in s : n - y \in T
  BY <1>1
<1>3. T \in SUBSET Nat /\ T # {}
  BY <1>2
<1>4. PICK m \in T : \A k \in T : m <= k
  BY <1>3, LeastNumber
<1>5. n - m \in s /\ \A y \in s : n - m >= y
  BY <1>2, <1>4
<1>6. s \in SUBSET Nat
  OBVIOUS
<1> QED
  BY <1>5, <1>6, MaxIsLargest

(* The table that FoldLeft tabulates over the sets of indices up to k:     *)
(* step[i] is what the element at i does to the accumulator.               *)
IsTable(table, k, base, step) ==
    \A s \in SUBSET (1..k) :
        table[s] = IF s = {} THEN base ELSE step[Max(s)][table[s \ {Max(s)}]]

(* Such a table exists.                                                    *)
LEMMA TableExists ==
    ASSUME NEW C, NEW base \in C, NEW n \in Nat, NEW step \in [1..n -> [C -> C]]
    PROVE  \E table \in [SUBSET (1..n) -> C] : IsTable(table, n, base, step)
<1> DEFINE Good(k) == \E table \in [SUBSET (1..k) -> C] : IsTable(table, k, base, step)
           G == {k \in Nat : Good(k)}
<1>1. Good(0)
  <2> DEFINE t == [s \in SUBSET (1..0) |-> base]
  <2>1. t \in [SUBSET (1..0) -> C]
    OBVIOUS
  <2>2. \A s \in SUBSET (1..0) : s = {} /\ t[s] = base
    OBVIOUS
  <2> HIDE DEF t
  <2>3. IsTable(t, 0, base, step)
    BY <2>2 DEF IsTable
  <2> QED
    BY <2>1, <2>3
<1>2. ASSUME NEW k \in 0..(n - 1), Good(k)
      PROVE  Good(k + 1)
  <2>1. PICK t \in [SUBSET (1..k) -> C] : IsTable(t, k, base, step)
    BY <1>2
  <2> DEFINE u == [s \in SUBSET (1..(k + 1)) |->
                      IF k + 1 \in s THEN step[k + 1][t[s \ {k + 1}]] ELSE t[s]]
  <2>2. \A s \in SUBSET (1..(k + 1)) :
           s \ {k + 1} \in SUBSET (1..k) /\ (k + 1 \notin s => s \in SUBSET (1..k))
    OBVIOUS
  <2>3. step[k + 1] \in [C -> C]
    OBVIOUS
  <2>4. u \in [SUBSET (1..(k + 1)) -> C]
    BY <2>2, <2>3
  <2>5. ASSUME NEW s \in SUBSET (1..(k + 1))
        PROVE  u[s] = IF s = {} THEN base ELSE step[Max(s)][u[s \ {Max(s)}]]
    <3>1. CASE k + 1 \in s
      <4>1. s \in SUBSET Nat /\ \A y \in s : k + 1 >= y
        OBVIOUS
      <4>2. Max(s) = k + 1
        BY <3>1, <4>1, MaxIsLargest
      <4>3. s \ {k + 1} \in SUBSET (1..(k + 1)) /\ u[s \ {k + 1}] = t[s \ {k + 1}]
        BY <2>2
      <4> QED
        BY <3>1, <4>2, <4>3
    <3>2. CASE k + 1 \notin s
      <4>1. s \in SUBSET (1..k)
        BY <3>2, <2>2
      <4>2. u[s] = t[s]
        BY <3>2
      <4>3. s \ {Max(s)} \in SUBSET (1..(k + 1)) /\ k + 1 \notin s \ {Max(s)}
        BY <3>2
      <4>4. u[s \ {Max(s)}] = t[s \ {Max(s)}]
        BY <4>3
      <4> HIDE DEF u
      <4> QED
        BY <4>1, <4>2, <4>4, <2>1 DEF IsTable
    <3> QED
      BY <3>1, <3>2
  <2> HIDE DEF u
  <2>6. IsTable(u, k + 1, base, step)
    BY <2>5 DEF IsTable
  <2> QED
    BY <2>4, <2>6
<1> HIDE DEF Good
<1>3. 0 \in G /\ \A k \in 0..(n - 1) : k \in G => k + 1 \in G
  BY <1>1, <1>2
<1> HIDE DEF G
<1>4. n \in G
  BY <1>3, CountingUp DEF G
<1> QED
  BY <1>4 DEF Good, G

(* The index sets that a fold passes through from left to right.           *)
LEMMA PrefixIndices ==
    ASSUME NEW n \in Nat, NEW i \in 1..n
    PROVE  /\ 1..i \in SUBSET (1..n) /\ 1..i # {} /\ 1..(i - 1) \in SUBSET (1..n)
           /\ Max(1..i) = i /\ (1..i) \ {i} = 1..(i - 1)
<1>1. /\ 1..i \in SUBSET (1..n) /\ 1..i # {} /\ 1..(i - 1) \in SUBSET (1..n)
      /\ (1..i) \ {i} = 1..(i - 1)
  OBVIOUS
<1>2. 1..i \in SUBSET Nat /\ i \in 1..i /\ \A y \in 1..i : i >= y
  OBVIOUS
<1> QED
  BY <1>1, <1>2, MaxIsLargest

---------------------------------------------------------------------------
(* Coverage: what the merged ranges and the walk over them say of the pages. *)

Rows == [digest : Digests, offset : Nat, length : Nat \ {0}]

(* The pages in s contain byte b. *)
Within(s, b) == \E x \in s : x.offset <= b /\ b < x.offset + x.length

(* Of a nonempty set of rows one comes before all others. *)
LEMMA FirstRow ==
    ASSUME NEW s \in SUBSET Rows, s # {}
    PROVE  \E x \in s : \A y \in s : Before(x, y)
  <1> DEFINE O == {x.offset : x \in s}
  <1>1. O \in SUBSET Nat /\ O # {}
    BY DEF Rows
  <1>2. \A x \in s : x.offset \in O /\ x.offset \in Nat /\ x.length \in Nat
    BY DEF Rows
  <1>3. PICK o \in O : \A k \in O : o <= k
    BY <1>1, LeastNumber
  <1> DEFINE u == {x \in s : x.offset = o}
             L == {x.length : x \in u}
  <1>4. L \in SUBSET Nat /\ L # {} /\ \A x \in u : x.length \in L
    BY <1>1, <1>2, <1>3
  <1> HIDE DEF L, O
  <1>5. PICK l \in L : \A k \in L : l <= k
    BY <1>4, LeastNumber
  <1>6. PICK x \in u : x.length = l
    BY <1>5 DEF L
  <1>7. ASSUME NEW y \in s
        PROVE  Before(x, y)
    <2>1. x.offset = o /\ o <= y.offset /\ y.offset \in Nat /\ o \in Nat
      BY <1>1, <1>2, <1>3
    <2>2. y.offset = o => l <= y.length
      BY <1>4, <1>5
    <2> QED
      BY <1>6, <2>1, <2>2 DEF Before
  <1> QED
    BY <1>7

(* A finite set of rows can be sorted. *)
LEMMA CanBeSorted ==
    ASSUME NEW rows \in SUBSET Rows, IsFiniteSet(rows)
    PROVE  Ascending(rows) \in [1..Cardinality(rows) -> rows]
  <1> DEFINE n == Cardinality(rows)
             Sorted(k, f, u) ==
                 /\ f \in [1..k -> rows] /\ u \in SUBSET rows
                 /\ Cardinality(u) = n - k
                 /\ \A x \in rows : x \in u \/ \E i \in 1..k : f[i] = x
                 /\ \A i, j \in 1..k : i < j => Before(f[i], f[j])
                 /\ \A i \in 1..k, x \in u : Before(f[i], x)
             Some(k) == \E f, u : Sorted(k, f, u)
             G == {k \in Nat : Some(k)}
  <1>1. n \in Nat
    BY FS_CardinalityType
  <1> HIDE DEF n
  <1>2. Some(0)
    <2> DEFINE f == [i \in 1..0 |-> {}]
    <2>1. f \in [1..0 -> rows] /\ 1..0 = {}
      OBVIOUS
    <2> HIDE DEF f
    <2>2. Sorted(0, f, rows)
      BY <1>1, <2>1 DEF n
    <2> QED
      BY <2>2
  <1>3. ASSUME NEW k \in 0..(n - 1), Some(k)
        PROVE  Some(k + 1)
    <2>1. PICK f, u : Sorted(k, f, u)
      BY <1>3
    <2>2. IsFiniteSet(u) /\ u # {} /\ u \in SUBSET Rows
      <3>1. IsFiniteSet(u)
        BY <2>1, FS_Subset
      <3>2. Cardinality(u) # 0
        BY <1>1, <2>1
      <3> QED
        BY <2>1, <3>1, <3>2, FS_EmptySet
    <2>3. PICK x \in u : \A y \in u : Before(x, y)
      BY <2>2, FirstRow
    <2> DEFINE g == [i \in 1..(k + 1) |-> IF i = k + 1 THEN x ELSE f[i]]
               v == u \ {x}
    <2>4. /\ k \in Nat /\ k + 1 \in 1..(k + 1)
          /\ \A i \in 1..(k + 1) : i = k + 1 \/ (i \in 1..k /\ i # k + 1)
          /\ \A i \in 1..k : i \in 1..(k + 1) /\ i # k + 1 /\ i < k + 1
      BY <1>1
    <2>5. x \in rows /\ f \in [1..k -> rows]
      BY <2>1
    <2>6. /\ g \in [1..(k + 1) -> rows] /\ g[k + 1] = x
          /\ \A i \in 1..k : g[i] = f[i]
      BY <2>4, <2>5
    <2>7. Cardinality(v) = n - (k + 1) /\ v \in SUBSET rows
      <3>1. Cardinality(v) = Cardinality(u) - 1
        BY <2>2, FS_RemoveElement
      <3> QED
        BY <1>1, <2>1, <2>4, <3>1
    <2>8. \A y \in rows : y \in v \/ \E i \in 1..(k + 1) : g[i] = y
      <3> HIDE DEF g
      <3> QED
        BY <2>1, <2>4, <2>6
    <2> HIDE DEF g, v
    <2>9. \A i, j \in 1..(k + 1) : i < j => Before(g[i], g[j])
      <3>1. ASSUME NEW i \in 1..(k + 1), NEW j \in 1..(k + 1), i < j
            PROVE  Before(g[i], g[j])
        <4>1. i \in 1..k
          BY <2>4, <3>1
        <4>2. CASE j = k + 1
          BY <2>1, <2>6, <4>1, <4>2
        <4>3. CASE j \in 1..k
          BY <2>1, <2>6, <3>1, <4>1, <4>3
        <4> QED
          BY <2>4, <4>2, <4>3
      <3> QED
        BY <3>1
    <2>10. \A i \in 1..(k + 1), y \in v : Before(g[i], y)
      <3>1. ASSUME NEW i \in 1..(k + 1), NEW y \in v
            PROVE  Before(g[i], y)
        <4>1. y \in u
          BY DEF v
        <4>2. CASE i = k + 1
          BY <2>3, <2>6, <4>1, <4>2
        <4>3. CASE i \in 1..k
          BY <2>1, <2>6, <4>1, <4>3
        <4> QED
          BY <2>4, <4>2, <4>3
      <3> QED
        BY <3>1
    <2>11. Sorted(k + 1, g, v)
      BY <2>6, <2>7, <2>8, <2>9, <2>10
    <2> QED
      BY <2>11
  <1> HIDE DEF Some
  <1>4. 0 \in G /\ \A k \in 0..(n - 1) : k \in G => k + 1 \in G
    BY <1>1, <1>2, <1>3
  <1>5. n \in G
    <2> HIDE DEF G
    <2>1. G \in SUBSET Nat
      BY DEF G
    <2> QED
      BY <1>1, <1>4, <2>1, CountingUp
  <1>6. PICK f, u : Sorted(n, f, u)
    BY <1>5 DEF Some
  <1>7. u = {}
    <2>1. IsFiniteSet(u) /\ Cardinality(u) = 0
      BY <1>1, <1>6, FS_Subset
    <2> QED
      BY <2>1, FS_EmptySet
  <1>8. f \in [1..n -> rows] /\ Range(f) = rows /\ \A i, j \in DOMAIN f : i < j => Before(f[i], f[j])
    BY <1>6, <1>7 DEF Range
  <1> QED
    BY <1>8 DEF Ascending, n

(* The ranges within pages of s. *)
Ranges(s) == {range \in Nat \X Nat : \A b \in Nat : range[1] <= b /\ b < range[2] => Within(s, b)}

(* Merging a page of s into ranges within s leaves ranges within s. *)
LEMMA MergedWithin ==
    ASSUME NEW s \in SUBSET Rows, NEW m \in Seq(Ranges(s)), NEW x \in s
    PROVE  Merged(m, x) \in Seq(Ranges(s))
  <1> DEFINE end == x.offset + x.length
  <1>1. x.offset \in Nat /\ x.length \in Nat /\ end \in Nat
    BY DEF Rows
  <1>2. \A b \in Nat : x.offset <= b /\ b < end => Within(s, b)
    BY DEF Within
  <1>3. CASE m # <<>> /\ x.offset <= m[Len(m)][2]
    <2> DEFINE last == m[Len(m)]
               top == IF end > last[2] THEN end ELSE last[2]
               new == <<last[1], top>>
    <2>1. /\ last \in Nat \X Nat /\ \A b \in Nat : last[1] <= b /\ b < last[2] => Within(s, b)
          /\ Len(m) \in 1..Len(m)
      BY <1>3 DEF Ranges
    <2>2. last[1] \in Nat /\ last[2] \in Nat /\ top \in Nat
      BY <1>1, <2>1
    <2>3. ASSUME NEW b \in Nat, last[1] <= b, b < top
          PROVE  Within(s, b)
      <3>1. CASE b < last[2]
        BY <2>1, <2>3, <3>1
      <3>2. CASE last[2] <= b
        <4>1. x.offset <= b /\ b < end
          BY <1>1, <1>3, <2>2, <2>3, <3>2
        <4> QED
          BY <1>2, <4>1
      <3> QED
        BY <2>2, <3>1, <3>2
    <2>4. new \in Ranges(s)
      <3> HIDE DEF top, last
      <3> QED
        BY <2>2, <2>3 DEF Ranges
    <2>5. Merged(m, x) = [m EXCEPT ![Len(m)] = new]
      BY <1>3 DEF Merged
    <2> HIDE DEF new
    <2> QED
      BY <2>1, <2>4, <2>5
  <1>4. CASE ~(m # <<>> /\ x.offset <= m[Len(m)][2])
    <2> DEFINE new == <<x.offset, end>>
    <2>1. new \in Ranges(s)
      <3> HIDE DEF end
      <3> QED
        BY <1>1, <1>2 DEF Ranges
    <2>2. Merged(m, x) = Append(m, new)
      BY <1>4 DEF Merged
    <2> HIDE DEF new
    <2> QED
      BY <2>1, <2>2
  <1> QED
    BY <1>3, <1>4

(* receipt_coverage: whatever the order of the rows, the merged ranges are within the pages. *)
LEMMA RangesWithin ==
    ASSUME NEW s \in SUBSET Rows, NEW n \in Nat, NEW rows \in [1..n -> s]
    PROVE  FoldLeft(Merged, <<>>, rows) \in Seq(Ranges(s))
  <1> DEFINE C == Seq(Ranges(s))
             step == [i \in 1..n |-> [m \in C |-> Merged(m, rows[i])]]
  <1>1. <<>> \in C /\ \A i \in 1..n, m \in C : Merged(m, rows[i]) \in C
    BY MergedWithin
  <1> HIDE DEF C
  <1>2. step \in [1..n -> [C -> C]]
    BY <1>1
  <1>3. \A i \in 1..n, m \in C : step[i][m] = Merged(m, rows[i])
    OBVIOUS
  <1> HIDE DEF step
  <1>4. PICK t \in [SUBSET (1..n) -> C] : IsTable(t, n, <<>>, step)
    BY <1>1, <1>2, TableExists
  <1>5. \A z \in SUBSET (1..n) : z # {} => Max(z) \in z
    BY MaxInside
  <1>6. t = [z \in SUBSET (1..n) |-> IF z = {} THEN <<>> ELSE Merged(t[z \ {Max(z)}], rows[Max(z)])]
    BY <1>3, <1>4, <1>5 DEF IsTable
  <1> DEFINE h == CHOOSE h : h = [z \in SUBSET (1..n) |->
                       IF z = {} THEN <<>> ELSE Merged(h[z \ {Max(z)}], rows[Max(z)])]
  <1>7. h = [z \in SUBSET (1..n) |-> IF z = {} THEN <<>> ELSE Merged(h[z \ {Max(z)}], rows[Max(z)])]
    BY <1>6
  <1>8. FoldLeft(Merged, <<>>, rows) = h[1..n]
    BY DEF FoldLeft, MapThenFoldSet
  <1> HIDE DEF h
  <1>9. h[1..0] = <<>>
    BY <1>7
  <1>10. ASSUME NEW i \in 1..n
         PROVE  h[1..i] = Merged(h[1..(i - 1)], rows[i])
    <2>1. /\ 1..i \in SUBSET (1..n) /\ 1..i # {}
          /\ Max(1..i) = i /\ (1..i) \ {i} = 1..(i - 1)
      BY PrefixIndices
    <2> QED
      BY <1>7, <2>1
  <1> DEFINE G == {k \in Nat : k <= n => h[1..k] \in C}
  <1>11. 0 \in G /\ \A k \in 0..(n - 1) : k \in G => k + 1 \in G
    <2>1. ASSUME NEW k \in 0..(n - 1), k \in G PROVE k + 1 \in G
      <3>1. k + 1 \in 1..n /\ (k + 1) - 1 = k /\ h[1..k] \in C
        BY <2>1
      <3>2. h[1..(k + 1)] = Merged(h[1..k], rows[k + 1])
        BY <3>1, <1>10
      <3> QED
        BY <1>1, <3>1, <3>2
    <2> QED
      BY <1>1, <1>9, <2>1
  <1>12. n \in G
    <2> HIDE DEF G
    <2>1. G \in SUBSET Nat
      BY DEF G
    <2> QED
      BY <1>11, <2>1, CountingUp
  <1> QED
    BY <1>8, <1>12 DEF C

(* What the walk has passed without a gap is within the pages. *)
Walks(s, size) ==
    {c \in [cursor : Nat, gap : BOOLEAN] :
        ~c.gap => \A b \in Nat : b < c.cursor /\ b < size => Within(s, b)}

LEMMA WalkWithin ==
    ASSUME NEW s \in SUBSET Rows, NEW size \in Nat, NEW c \in Walks(s, size), NEW range \in Ranges(s)
    PROVE  Walk(size, c, range) \in Walks(s, size)
  <1> DEFINE cursor == IF range[2] > c.cursor THEN range[2] ELSE c.cursor
             gap == c.gap \/ (c.cursor < size /\ range[1] > c.cursor)
             d == [cursor |-> cursor, gap |-> gap]
  <1>1. /\ c.cursor \in Nat /\ c.gap \in BOOLEAN /\ range[1] \in Nat /\ range[2] \in Nat
        /\ ~c.gap => \A b \in Nat : b < c.cursor /\ b < size => Within(s, b)
        /\ \A b \in Nat : range[1] <= b /\ b < range[2] => Within(s, b)
    BY DEF Walks, Ranges
  <1>2. cursor \in Nat /\ gap \in BOOLEAN
    BY <1>1
  <1>3. ASSUME ~gap, NEW b \in Nat, b < cursor, b < size
        PROVE  Within(s, b)
    <2>1. CASE b < c.cursor
      BY <1>1, <1>3, <2>1
    <2>2. CASE c.cursor <= b
      <3>1. range[1] <= b /\ b < range[2]
        BY <1>1, <1>3, <2>2
      <3> QED
        BY <1>1, <3>1
    <2> QED
      BY <1>1, <2>1, <2>2
  <1> HIDE DEF cursor, gap
  <1>4. d \in Walks(s, size)
    BY <1>2, <1>3 DEF Walks
  <1> QED
    BY <1>4 DEF Walk, cursor, gap

(* diff_fully_retrieved: so is what the walk over all ranges has passed. *)
LEMMA WalkedWithin ==
    ASSUME NEW s \in SUBSET Rows, NEW size \in Nat, NEW ranges \in Seq(Ranges(s))
    PROVE  FoldLeft(LAMBDA c, range : Walk(size, c, range), [cursor |-> 0, gap |-> FALSE], ranges)
               \in Walks(s, size)
  <1> DEFINE C == Walks(s, size)
             n == Len(ranges)
             base == [cursor |-> 0, gap |-> FALSE]
             step == [i \in 1..n |-> [c \in C |-> Walk(size, c, ranges[i])]]
  <1>1. n \in Nat /\ DOMAIN ranges = 1..n /\ \A i \in 1..n : ranges[i] \in Ranges(s)
    OBVIOUS
  <1>2. base \in C /\ \A i \in 1..n, c \in C : Walk(size, c, ranges[i]) \in C
    <2>1. base \in C
      BY DEF Walks
    <2> QED
      BY <1>1, <2>1, WalkWithin
  <1> HIDE DEF C, n, base
  <1>3. step \in [1..n -> [C -> C]]
    BY <1>2
  <1>4. \A i \in 1..n, c \in C : step[i][c] = Walk(size, c, ranges[i])
    OBVIOUS
  <1> HIDE DEF step
  <1>5. PICK t \in [SUBSET (1..n) -> C] : IsTable(t, n, base, step)
    BY <1>1, <1>2, <1>3, TableExists
  <1>6. \A z \in SUBSET (1..n) : z # {} => Max(z) \in z
    BY <1>1, MaxInside
  <1>7. t = [z \in SUBSET (1..n) |-> IF z = {} THEN base ELSE Walk(size, t[z \ {Max(z)}], ranges[Max(z)])]
    BY <1>4, <1>5, <1>6 DEF IsTable
  <1> DEFINE h == CHOOSE h : h = [z \in SUBSET (1..n) |->
                       IF z = {} THEN base ELSE Walk(size, h[z \ {Max(z)}], ranges[Max(z)])]
  <1>8. h = [z \in SUBSET (1..n) |-> IF z = {} THEN base ELSE Walk(size, h[z \ {Max(z)}], ranges[Max(z)])]
    BY <1>7
  <1>9. FoldLeft(LAMBDA c, range : Walk(size, c, range), [cursor |-> 0, gap |-> FALSE], ranges) = h[1..n]
    BY <1>1 DEF FoldLeft, MapThenFoldSet, base
  <1> HIDE DEF h
  <1>10. h[1..0] = base
    BY <1>8
  <1>11. ASSUME NEW i \in 1..n
         PROVE  h[1..i] = Walk(size, h[1..(i - 1)], ranges[i])
    <2>1. /\ 1..i \in SUBSET (1..n) /\ 1..i # {}
          /\ Max(1..i) = i /\ (1..i) \ {i} = 1..(i - 1)
      BY <1>1, PrefixIndices
    <2> QED
      BY <1>8, <2>1
  <1> DEFINE G == {k \in Nat : k <= n => h[1..k] \in C}
  <1>12. 0 \in G /\ \A k \in 0..(n - 1) : k \in G => k + 1 \in G
    <2>1. ASSUME NEW k \in 0..(n - 1), k \in G PROVE k + 1 \in G
      <3>1. k + 1 \in 1..n /\ (k + 1) - 1 = k /\ h[1..k] \in C
        BY <1>1, <2>1
      <3>2. h[1..(k + 1)] = Walk(size, h[1..k], ranges[k + 1])
        BY <3>1, <1>11
      <3> QED
        BY <1>1, <1>2, <3>1, <3>2
    <2> QED
      BY <1>2, <1>10, <2>1
  <1>13. n \in G
    <2> HIDE DEF G
    <2>1. G \in SUBSET Nat
      BY DEF G
    <2> QED
      BY <1>1, <1>12, <2>1, CountingUp
  <1>14. h[1..n] \in C
    BY <1>1, <1>13
  <1> QED
    BY <1>9, <1>14 DEF C

(* So a diff that is called complete was handed out whole. *)
LEMMA CoverageIsSound ==
    ASSUME TypeOK, IsFiniteSet(receipts)
    PROVE  CoverageSound
  <1> SUFFICES ASSUME NEW digest \in Digests, DiffFullyRetrieved(digest)
               PROVE  Delivered(digest)
    BY DEF CoverageSound
  <1> DEFINE s == {x \in receipts : x.digest = digest /\ x.length > 0}
             n == Cardinality(s)
             size == SizeOf[digest]
             start == [cursor |-> 0, gap |-> FALSE]
  <1>1. s \in SUBSET Rows /\ IsFiniteSet(s) /\ size \in Nat
    <2>1. s \in SUBSET receipts
      OBVIOUS
    <2> QED
      BY <2>1, FS_Subset, GateAssumption DEF TypeOK, Rows
  <1>2. n \in Nat
    BY <1>1, FS_CardinalityType
  <1>3. \A b \in Nat : Within(s, b) => \E x \in receipts : x.digest = digest /\ x.offset <= b /\ b < x.offset + x.length
    BY DEF Within
  <1>4. ReceiptCoverage(digest) = FoldLeft(Merged, <<>>, Ascending(s))
    BY DEF ReceiptCoverage
  <1> HIDE DEF s, size
  <1>5. Ascending(s) \in [1..n -> s]
    BY <1>1, CanBeSorted
  <1>6. ReceiptCoverage(digest) \in Seq(Ranges(s))
    BY <1>1, <1>2, <1>4, <1>5, RangesWithin
  <1> DEFINE end == FoldLeft(LAMBDA c, range : Walk(size, c, range), [cursor |-> 0, gap |-> FALSE],
                             ReceiptCoverage(digest))
  <1>7. end \in Walks(s, size)
    BY <1>1, <1>6, WalkedWithin
  <1>8. ~end.gap /\ end.cursor >= size
    BY DEF DiffFullyRetrieved, size
  <1> HIDE DEF end
  <1>9. \A b \in 0..(size - 1) : Within(s, b)
    BY <1>1, <1>7, <1>8 DEF Walks
  <1> QED
    BY <1>1, <1>3, <1>9 DEF Delivered, size

(* Pages are handed out one at a time. *)
LEMMA ReceiptsFinite == Spec => []IsFiniteSet(receipts)
  <1>1. Init => IsFiniteSet(receipts)
    BY FS_EmptySet DEF Init
  <1>2. IsFiniteSet(receipts) /\ [Next]_vars => IsFiniteSet(receipts)'
    <2> SUFFICES ASSUME IsFiniteSet(receipts), [Next]_vars PROVE IsFiniteSet(receipts)'
      OBVIOUS
    <2>1. receipts' = receipts \/ \E row : receipts' = receipts \cup {row}
      BY DEF Next, vars, TaskDiff, Look, Repair, AcceptEnds, Acknowledge, RecordAccepting, RecordAccepted,
             FinishTurn, Authorize, Revoke, EditProfile, IntegrationGates, Accept,
             PlaceReview, PrepareReview, FinishReview
    <2> QED
      BY <2>1, FS_AddElement
  <1> QED
    BY <1>1, <1>2, PTL DEF Spec

(* What the merge over the receipts and the walk over its ranges call complete is complete,
   in whatever order and with whatever overlaps pages of whatever length were fetched
   (store.receipt_coverage, service.diff_fully_retrieved). *)
THEOREM CoverageHolds == Spec => []CoverageSound
  BY TypeCorrect, ReceiptsFinite, CoverageIsSound, PTL

---------------------------------------------------------------------------
(* Reading.  Receipts are kept by digest and never taken back, so what was delivered stays
   delivered; the claim and a pending record_integration name the candidate whose diff was. *)
ReadHeld ==
    /\ AcceptedWasRead
    /\ manual.at # "none" /\ "receipts" \in manual.flags => Delivered(cands[manual.rev].digest)

(* Nothing takes a receipt back. *)
LEMMA ReceiptsKept ==
    ASSUME [Next]_vars
    PROVE  receipts \subseteq receipts'
  BY DEF Next, vars, TaskDiff, Look, Repair, AcceptEnds, Acknowledge, RecordAccepting, RecordAccepted,
         FinishTurn, Authorize, Revoke, EditProfile, IntegrationGates, Accept,
         PlaceReview, PrepareReview, FinishReview

(* A gate that asks for receipts passes only a delivered diff, and what was delivered is
   not undone. *)
LEMMA ReadKept ==
    ASSUME TypeOK, GatesHold, ReadHeld, CoverageSound, [Next]_vars
    PROVE  ReadHeld'
  <1>0. Revision \in Nat \ {0} /\ Current.digest \in Digests
    BY CandidateFacts, GateAssumption DEF TypeOK
  <1>1. \A d \in Digests : Delivered(d) => Delivered(d)'
    <2> SUFFICES ASSUME NEW d \in Digests, Delivered(d) PROVE Delivered(d)'
      OBVIOUS
    <2>1. receipts \subseteq receipts'
      BY ReceiptsKept
    <2> QED
      BY <2>1 DEF Delivered
  <1>2. \A rev \in 1..Revision : Delivered(cands[rev].digest) => Delivered(cands[rev].digest)'
    <2> SUFFICES ASSUME NEW rev \in 1..Revision, Delivered(cands[rev].digest)
                 PROVE  Delivered(cands[rev].digest)'
      OBVIOUS
    <2>1. cands[rev].digest \in Digests /\ cands'[rev] = cands[rev]
      BY PastKept, GateAssumption DEF TypeOK, Revision
    <2>2. receipts \subseteq receipts'
      BY ReceiptsKept
    <2> QED
      BY <2>1, <2>2 DEF Delivered
  <1>3. /\ manual.at # "none" => manual.rev \in 1..Revision
        /\ manual.at # "none" /\ "receipts" \in manual.flags => Delivered(cands[manual.rev].digest)
    BY DEF GatesHold, ManualFresh, ReadHeld
  <1>4. ASSUME manual' = manual, claim' = NoClaim
        PROVE  ReadHeld'
    BY <1>2, <1>3, <1>4 DEF ReadHeld, AcceptedWasRead, NoClaim
  <1>5. ASSUME manual' = manual, claim' = claim
        PROVE  ReadHeld'
    <2>1. CASE cands' = cands
      <3>1. \A d : Delivered(d) => Delivered(d)'
        <4> SUFFICES ASSUME NEW d, Delivered(d) PROVE Delivered(d)'
          OBVIOUS
        <4>1. receipts \subseteq receipts'
          BY ReceiptsKept
        <4> QED
          BY <4>1 DEF Delivered
      <3> QED
        BY <1>5, <2>1, <3>1 DEF ReadHeld, AcceptedWasRead, Delivered
    <2>2. CASE claim.rev = 0
      BY <1>2, <1>3, <1>5, <2>2 DEF ReadHeld, AcceptedWasRead
    <2> QED
      BY <2>1, <2>2, CandidatesKept DEF GatesHold, ClaimHeld
  <1>6. ASSUME NEW flags \in Flags, NEW r \in ReviewTasks \cup {NoReview},
               NEW d \in SUBSET Findings, NEW o \in SUBSET Findings, Accept(flags, r, d, o)
        PROVE  ReadHeld'
    <2>1. /\ claim'.rev = Revision /\ claim'.gated = Revision /\ claim'.flags = flags
          /\ cands' = cands /\ manual' = manual /\ receipts' = receipts
      BY <1>6 DEF Accept
    <2>2. "receipts" \in flags => Delivered(Current.digest)
      BY <1>0, <1>6 DEF Accept, CheckAcceptance, CoverageSound
    <2> QED
      BY <2>1, <2>2 DEF ReadHeld, AcceptedWasRead, Delivered, Current, Revision
  <1>7. ASSUME NEW flags \in Flags, IntegrationGates(flags)
        PROVE  ReadHeld'
    <2>1. /\ manual'.flags = flags /\ manual'.rev = Revision /\ cands' = cands /\ claim' = claim
          /\ receipts' = receipts
      BY <1>7 DEF IntegrationGates
    <2>2. "receipts" \in flags => Delivered(Current.digest)
      BY <1>0, <1>7 DEF IntegrationGates, CoverageSound
    <2> QED
      BY <2>1, <2>2 DEF ReadHeld, AcceptedWasRead, Delivered, Current, Revision
  <1>8. CASE RecordAccepting \/ RecordAccepted
    <2>1. /\ cands' = cands /\ receipts' = receipts /\ manual.at # "none"
          /\ claim' = claim \/ claim' = Recorded
      BY <1>8 DEF RecordAccepting, RecordAccepted
    <2>2. manual' = NoManual \/ manual' = [manual EXCEPT !.at = "accepting"]
      BY <1>8 DEF RecordAccepting, RecordAccepted
    <2>3. manual'.at # "none" => manual'.rev = manual.rev /\ manual'.flags = manual.flags
      BY <2>2 DEF NoManual, TypeOK, ManualRow
    <2>4. AcceptedWasRead'
      <3>1. CASE claim' = claim
        BY <2>1, <3>1 DEF ReadHeld, AcceptedWasRead, Delivered
      <3>2. CASE claim' = Recorded
        <4>1. /\ claim'.via = "record_integration" /\ claim'.gated = manual.rev
              /\ claim'.flags = manual.flags
          BY <3>2 DEF Recorded, NoClaim
        <4> QED
          BY <1>3, <2>1, <4>1 DEF AcceptedWasRead, Delivered
      <3> QED
        BY <2>1, <3>1, <3>2
    <2> QED
      BY <1>3, <2>1, <2>3, <2>4 DEF ReadHeld, Delivered
  <1>9. CASE /\ ~RecordAccepting /\ ~RecordAccepted
             /\ \A flags \in Flags : ~IntegrationGates(flags)
             /\ \A flags \in Flags, r \in ReviewTasks \cup {NoReview}, d, o \in SUBSET Findings :
                  ~Accept(flags, r, d, o)
    <2>1. manual' = manual /\ (claim' = claim \/ claim' = NoClaim)
      BY <1>9 DEF Next, vars, TaskDiff, Look, Repair, AcceptEnds, Acknowledge,
           FinishTurn, Authorize, Revoke, EditProfile, PlaceReview, PrepareReview, FinishReview
    <2> QED
      BY <1>4, <1>5, <2>1
  <1> QED
    BY <1>6, <1>7, <1>8, <1>9

(* A call that accepted a candidate with receipts required had handed that candidate's diff
   out byte for byte, never an earlier one's; and what accept_task lands is the candidate
   its gates looked at (service.require_diff_retrieved). *)
THEOREM ReadIsAccepted == Spec => []AcceptedWasRead
  <1>1. Init => ReadHeld
    BY DEF Init, ReadHeld, AcceptedWasRead, NoClaim, NoManual
  <1>2. TypeOK /\ GatesHold /\ CoverageSound /\ ReadHeld /\ [Next]_vars => ReadHeld'
    BY ReadKept
  <1>3. ReadHeld => AcceptedWasRead
    BY DEF ReadHeld
  <1> QED
    BY <1>1, <1>2, <1>3, TypeCorrect, GatesStayHeld, CoverageHolds, PTL DEF Spec
=============================================================================
