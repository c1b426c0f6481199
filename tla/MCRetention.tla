------------------------------ MODULE MCRetention ------------------------------
(***************************************************************************)
(* gc meets a task on one side and the writers of the log on the other;    *)
(* the two share nothing else, and each is explored with the other at      *)
(* rest.                                                                   *)
(***************************************************************************)
EXTENDS Retention

CONSTANTS w1, w2

VARIABLE side   \* the side that moves beside gc: "task" or "log"

Sides ==
    /\ side' = side
    /\ side = "task" => UNCHANGED logVars
    /\ side = "log" => UNCHANGED taskVars

MCVars == <<retentionVars, side>>
MCInit == RetentionInit /\ side \in {"task", "log"}
MCSpec == MCInit /\ [][RetentionNext /\ Sides]_MCVars
=============================================================================
