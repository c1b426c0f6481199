---------------------------- MODULE AtomicAccept ----------------------------
(***************************************************************************)
(* What accepting a candidate promises, with no process, journal or crash  *)
(* in sight: the candidate enters the root's history in one step, at most  *)
(* once and only while a decision is pending, and the verdict the task     *)
(* ends with tells the truth about that step.  Acceptance implements this  *)
(* (Acceptance!ImplementsAtomicAccept).                                    *)
(***************************************************************************)

VARIABLES
    verdict,    \* what the task row says of the candidate
    landed      \* the root's history carries the candidate

vars == <<verdict, landed>>

Verdicts == {"offered", "deciding", "accepted", "recorded", "rejected", "unknown"}

Init == verdict = "offered" /\ landed = FALSE

(* Somebody asks for the candidate, or says it was integrated by hand. *)
Begin ==
    /\ verdict = "offered"
    /\ verdict' = "deciding"
    /\ UNCHANGED landed

(* The one step that matters: the commit. *)
Land ==
    /\ verdict = "deciding"
    /\ ~landed
    /\ landed' = TRUE
    /\ UNCHANGED verdict

Accept ==
    /\ verdict = "deciding"
    /\ landed
    /\ verdict' = "accepted"
    /\ UNCHANGED landed

(* The operator's word that it was integrated by hand is taken. *)
Record ==
    /\ verdict = "deciding"
    /\ verdict' = "recorded"
    /\ UNCHANGED landed

(* Handed back, to be asked for again. *)
Return ==
    /\ verdict = "deciding"
    /\ ~landed
    /\ verdict' = "offered"
    /\ UNCHANGED landed

(* Left for a person, who has to look at the root. *)
Park ==
    /\ verdict = "deciding"
    /\ verdict' = "unknown"
    /\ UNCHANGED landed

Reject ==
    /\ verdict = "offered"
    /\ verdict' = "rejected"
    /\ UNCHANGED landed

Settle == Accept \/ Record \/ Return \/ Park

Next == Begin \/ Land \/ Settle \/ Reject

(* What may happen ... *)
SafeSpec == Init /\ [][Next]_vars

(* ... and what must: a pending decision is always settled. *)
Spec == SafeSpec /\ WF_vars(Settle)
=============================================================================
