------------------------------ MODULE MCReviewGate ------------------------------
(* A small instance of ReviewGate in two halves.  In one, reviews, receipts and *)
(* profile edits come in every order; the other is long enough for a            *)
(* record_integration to be overtaken, between its two transitions, by a sweep, *)
(* a repair and an accept of the next candidate.                                *)
EXTENDS ReviewGate

CONSTANTS author, other

VARIABLE side       \* "evidence" or "overtaken", chosen at the start

mcVars == <<vars, side>>

TwoFamilies == [p \in {author, other} |-> IF p = author THEN "f1" ELSE "f2"]
Sizes == [d \in {"d1", "d2"} |-> IF d = "d1" THEN 2 ELSE 3]
Said == {[verdict |-> "PASS", findings |-> {"f"}, critical |-> {"f"}],
         [verdict |-> "CONCERN", findings |-> {"f", "CONCERN"}, critical |-> {}],
         [verdict |-> "BLOCK", findings |-> {}, critical |-> {}]}

Produced == [evidence |-> {[digest |-> "d1", checks |-> TRUE, scope |-> FALSE, root |-> TRUE],
                           [digest |-> "d2", checks |-> FALSE, scope |-> FALSE, root |-> TRUE]},
             overtaken |-> {[digest |-> "d1", checks |-> TRUE, scope |-> FALSE, root |-> TRUE],
                            [digest |-> "d2", checks |-> TRUE, scope |-> FALSE, root |-> TRUE],
                            [digest |-> "d2", checks |-> TRUE, scope |-> TRUE, root |-> FALSE]}]
Asked == [evidence |-> {{"receipts"}, {"review"}, {"rerun"}},
          overtaken |-> {{}, {"receipts"}, {"root"}}]
Longest == [evidence |-> 6, overtaken |-> 11]

Anything == Produced["evidence"] \cup Produced["overtaken"]
AnyFlags == Asked["evidence"] \cup Asked["overtaken"]

(* What this half asks for and how long it goes on. *)
Within ==
    /\ version <= Longest[side]
    /\ state = "REPAIRING" => version + 2 <= Longest[side]
    /\ Range(cands) \subseteq Produced[side]
    /\ claim.flags \in Asked[side] \cup {{}}
    /\ manual.flags \in Asked[side] \cup {{}}
    /\ granted = Reviewers \/ \A r \in ReviewTasks : reviews[r].st = "none"
    /\ side = "evidence" => acked = {} /\ manual.version + 2 < Longest[side]
    /\ side = "overtaken" =>
           /\ reviews = [r \in ReviewTasks |-> Idle]
           /\ \A x \in receipts : x.offset = 0 \/ x.length < MaxPage
           /\ family = FamilyOf /\ granted = Reviewers

MCInit == Init /\ side \in {"evidence", "overtaken"} /\ Within

MCSpec == MCInit /\ [][Next /\ side' = side /\ Within']_mcVars
================================================================================
