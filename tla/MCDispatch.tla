----------------------------- MODULE MCDispatch -----------------------------
(* Instances of Dispatch for TLC. *)
EXTENDS Dispatch, TLC

OneTask == {1}
TwoTasks == {1, 2}

AllImplement == [t \in Tasks |-> "implement"]
OneConsult == [t \in Tasks |-> IF t = 1 THEN "consult" ELSE "implement"]

(* Tasks that are started and then left alone; a first turn ends at version 4, and a
   second one needs a request before 5. *)
UpToOne == [t \in Tasks |-> 1]
UpToSix == [t \in Tasks |-> 6]

=============================================================================
