----------------------------- MODULE TaskStates -----------------------------
(***************************************************************************)
(* The task state machine every TaskSpindle process writes through: the    *)
(* states of models.py and the transition tables of service.py.  Every     *)
(* change of tasks.state in the program goes through service.transition,   *)
(* which consults exactly these tables inside one SQLite transaction.      *)
(***************************************************************************)

Modes == {"consult", "review", "implement"}

TaskState ==
    {"PREPARING", "QUEUED", "RUNNING", "COMPLETED", "RESULT_READY", "REPAIRING",
     "INTERRUPTED", "RESUMING", "RECOVERY_AMBIGUOUS", "ACCEPTING", "ACCEPTED",
     "REJECTED", "CANCELLING", "CANCELLED", "FAILED"}

(* The states reconciliation sweeps: something may be running for the task. *)
ACTIVE_STATES ==
    {"PREPARING", "QUEUED", "RUNNING", "REPAIRING", "RESUMING", "ACCEPTING",
     "CANCELLING"}

TERMINAL_STATES == {"COMPLETED", "ACCEPTED", "REJECTED", "CANCELLED", "FAILED"}

(* The states a worker unit may be started from. *)
DISPATCHABLE_STATES == {"QUEUED", "REPAIRING", "RESUMING"}

LEGAL_TRANSITIONS ==
    [s \in TaskState |->
        CASE s = "PREPARING" -> {"QUEUED", "FAILED", "CANCELLING"}
          [] s = "QUEUED" -> {"RUNNING", "FAILED", "CANCELLING", "INTERRUPTED",
                              "RECOVERY_AMBIGUOUS"}
          [] s = "RUNNING" -> {"COMPLETED", "RESULT_READY", "FAILED", "CANCELLING",
                               "INTERRUPTED", "RECOVERY_AMBIGUOUS"}
          [] s = "COMPLETED" -> {"RESUMING"}
          [] s = "RESULT_READY" -> {"ACCEPTING", "REJECTED", "REPAIRING"}
          [] s = "ACCEPTING" -> {"ACCEPTED", "RESULT_READY", "INTERRUPTED",
                                 "RECOVERY_AMBIGUOUS"}
          [] s \in {"REPAIRING", "RESUMING"} ->
                {"RUNNING", "FAILED", "CANCELLING", "INTERRUPTED", "RECOVERY_AMBIGUOUS"}
          [] s \in {"INTERRUPTED", "RECOVERY_AMBIGUOUS"} -> {"RESUMING", "CANCELLING"}
          [] s = "CANCELLING" -> {"CANCELLED", "FAILED"}
          [] OTHER -> {}]

(* States only an implement task may enter. *)
IMPLEMENT_ONLY_STATES ==
    {"RESULT_READY", "ACCEPTING", "ACCEPTED", "REJECTED", "REPAIRING"}

MODE_FORBIDS_STATES ==
    [m \in Modes |-> IF m = "implement" THEN {} ELSE IMPLEMENT_ONLY_STATES]

(* What service.transition lets through: legal, not forbidden to the mode, and
   a finished task is only ever reopened for a consult. *)
MayMove(mode, from, to) ==
    /\ to \in LEGAL_TRANSITIONS[from]
    /\ to \notin MODE_FORBIDS_STATES[mode]
    /\ from = "COMPLETED" /\ to = "RESUMING" => mode = "consult"
=============================================================================
