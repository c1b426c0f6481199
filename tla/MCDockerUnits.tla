---------------------------- MODULE MCDockerUnits ----------------------------
(***************************************************************************)
(* A worker and an accept unit.  Units share the fence, the locks and the  *)
(* engine; what a unit's next identity does to its own record is explored  *)
(* with the other unit at rest.                                            *)
(***************************************************************************)
EXTENDS DockerUnits
CONSTANTS w1, a1, t1

VARIABLE side   \* "both": each unit has one identity; "again": the worker has two

OneWorker == {w1}
OneAccept == {a1}
OneToken == {t1}
Turns == [u \in {w1, a1} |-> IF u = w1 THEN 2 ELSE 1]

Sides ==
    /\ side' = side
    /\ side = "both" => turn'[w1] < 2
    /\ side = "again" => turn'[a1] = 0

MCVars == <<vars, side>>
MCInit == Init /\ side \in {"both", "again"}
MCSpec == MCInit /\ [][Next /\ Sides]_MCVars
==============================================================================
