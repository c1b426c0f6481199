------------------------------ MODULE Dispatch ------------------------------
(***************************************************************************)
(* Running the turns of a set of tasks on one provider.                    *)
(*                                                                         *)
(* Tool calls of several server processes queue, continue and cancel       *)
(* tasks; every call first reconciles, then does its work, then dispatches *)
(* what can start.  A dispatch claims a lease in one transaction and then  *)
(* asks systemd for the task's worker unit.  The worker moves its task to  *)
(* RUNNING, signs the lease, runs the turn, settles the task, gives the    *)
(* lease back and, when drain is on, runs a reconcile and a dispatch pass  *)
(* of its own before it exits.  All of them share the task database and    *)
(* nothing else: every transaction and every systemd command is a step.    *)
(*                                                                         *)
(* Left to other modules: ACCEPTING (Acceptance), provider availability    *)
(* and the Docker controller's admission fence.                            *)
(***************************************************************************)
EXTENDS Naturals, FiniteSets, TaskStates

CONSTANTS
    Tasks,          \* task ids, in the order of their creation
    Servers,        \* server processes
    ModeOf,         \* the mode of each task
    Limit,          \* the provider's max_concurrent
    Drain,          \* [dispatch] drain
    MaxVersion,     \* bound: no request on a task once its state_version reached this
    FaultKinds,     \* what may go wrong
    MaxFaults       \* bound: how often, all kinds together

ASSUME TasksAssumption == Tasks \subseteq Nat /\ IsFiniteSet(Tasks)
ASSUME ProcsAssumption == Servers \cap Tasks = {}
ASSUME ModeAssumption == ModeOf \in [Tasks -> Modes]
ASSUME LimitAssumption == Limit \in Nat \ {0}
ASSUME FaultAssumption == FaultKinds \subseteq {"worker", "stop", "server", "reboot", "start", "claim"}
ASSUME BoundsAssumption == Drain \in BOOLEAN /\ MaxVersion \in [Tasks -> Nat] /\ MaxFaults \in Nat

VARIABLES
    task,       \* the rows of tasks
    lease,      \* the rows of leases, held "none" where there is none
    unit,       \* the worker unit of each task: what systemd says and where its process is
    proc,       \* what each process that reconciles and dispatches is in the middle of
    faults      \* faults so far

vars == <<task, lease, unit, proc, faults>>

(* A worker that drains is a dispatching process too; it goes by its task's id. *)
Procs == Servers \cup Tasks

---------------------------------------------------------------------------
(* The database rows and the units. *)

(* NEW: the row is not inserted yet.  session: an ACP session id is stored.
   result: the candidate of the last finished turn is stored. *)
TaskRow == [state : TaskState \cup {"NEW"}, version : Nat, unit : {"none", "worker"},
            boot : {"none", "this", "earlier"}, heartbeat : {"none", "fresh", "stale"},
            session : BOOLEAN, result : BOOLEAN]

NewTask == [state |-> "NEW", version |-> 0, unit |-> "none", boot |-> "none",
            heartbeat |-> "none", session |-> FALSE, result |-> FALSE]

(* when: how old the lease's heartbeat is, or that it was written in another boot. *)
LeaseRow == [held : {"none", "unsigned", "signed"}, when : {"fresh", "stale", "earlier"}]

NoLease == [held |-> "none", when |-> "fresh"]

WorkerPC == {"none", "begin", "run", "sign", "open", "turn", "cancel", "cancelling",
             "decide", "settle", "release", "drain", "exit"}

(* The program points at which the worker's SIGTERM handler is installed, which are
   also those at which its heartbeat task runs. *)
Handling == {"sign", "open", "turn", "cancel", "cancelling", "decide", "settle"}

(* want: the state the worker means to settle in.  last: an exception now leaves
   run_worker instead of being settled as WORKER_ERROR.  raised: one did. *)
UnitRow == [kind : {"not_found", "active", "exit", "signal"}, pc : WorkerPC,
            want : TaskState, last : BOOLEAN, raised : BOOLEAN, produced : BOOLEAN,
            sigterm : BOOLEAN]

Gone(kind) == [kind |-> kind, pc |-> "none", want |-> "FAILED", last |-> FALSE,
               raised |-> FALSE, produced |-> FALSE, sigterm |-> FALSE]

Started == [Gone("active") EXCEPT !.pc = "begin"]

ProcPC == {"idle", "sweep", "look", "apply", "unlease", "leases", "body", "prepare",
           "prepared", "kill", "unhold", "cancelled", "next", "start", "unstart", "fail"}

(* todo: the tasks this pass has still to look at.  on: the task in hand, and seen
   its row as listed.  aged: its lease was old by the moment the sweep goes by.
   to: the state a sweep decided on.  final: the pass under way is
   the one that ends the call. *)
ProcRow == [pc : ProcPC, todo : SUBSET Tasks, on : Tasks \cup {0}, seen : TaskRow,
            aged : BOOLEAN, to : TaskState, final : BOOLEAN]

Idle == [pc |-> "idle", todo |-> {}, on |-> 0, seen |-> NewTask, aged |-> FALSE,
         to |-> "FAILED", final |-> FALSE]

TypeOK ==
    /\ task \in [Tasks -> TaskRow]
    /\ lease \in [Tasks -> LeaseRow]
    /\ unit \in [Tasks -> UnitRow]
    /\ proc \in [Procs -> ProcRow]
    /\ faults \in Nat

Init ==
    /\ task = [t \in Tasks |-> NewTask]
    /\ lease = [t \in Tasks |-> NoLease]
    /\ unit = [t \in Tasks |-> Gone("not_found")]
    /\ proc = [p \in Procs |-> Idle]
    /\ faults = 0

---------------------------------------------------------------------------
(* service.transition: legal in the stored state, whatever the writer last saw. *)
CanMove(t, to) == task[t].state # "NEW" /\ MayMove(ModeOf[t], task[t].state, to)

Moved(t, to) == [task[t] EXCEPT !.state = to, !.version = @ + 1]

(* The row of t after an attempt that the state machine may refuse. *)
Attempted(t, to) == IF CanMove(t, to) THEN Moved(t, to) ELSE task[t]

Release(t) == lease' = [lease EXCEPT ![t] = NoLease]

Held == {t \in Tasks : lease[t].held # "none"}

(* What a turn of this mode ends in. *)
Finished(t) == IF ModeOf[t] = "implement" THEN "RESULT_READY" ELSE "COMPLETED"

Goto(p, pc) == proc' = [proc EXCEPT ![p].pc = pc]

(* Back to the pass in hand with t done. *)
Skip(p, t, pc) ==
    proc' = [proc EXCEPT ![p] = [Idle EXCEPT !.pc = pc, !.todo = proc[p].todo \ {t},
                                             !.final = proc[p].final]]

Fault(kind) == kind \in FaultKinds /\ faults < MaxFaults /\ faults' = faults + 1

---------------------------------------------------------------------------
(* Reconciliation: one task at a time from its listed row, then the leases. *)

BeginCall(s) ==
    /\ proc[s].pc = "idle"
    /\ proc' = [proc EXCEPT ![s].pc = "sweep", ![s].todo = Tasks]
    /\ UNCHANGED <<task, lease, unit, faults>>

SweepList(p, t) ==
    /\ proc[p].pc = "sweep" /\ t \in proc[p].todo
    /\ \/ /\ task[t].state \in ACTIVE_STATES
          /\ proc' = [proc EXCEPT ![p].pc = "look", ![p].on = t, ![p].seen = task[t],
                                  ![p].aged = lease[t].when # "fresh"]
       \/ /\ task[t].state \notin ACTIVE_STATES
          /\ Skip(p, t, "sweep")
    /\ UNCHANGED <<task, lease, unit, faults>>

(* Faulty variant: a reservation nobody acted on never expires. *)
ReservedForEver(t, seen, aged) ==
    lease[t].held = "unsigned" /\ seen.state \in DISPATCHABLE_STATES

(* A reservation the scheduler published and may still be starting. *)
Reserved(t, seen, aged) ==
    /\ lease[t].held = "unsigned"
    /\ lease[t].when = "fresh" \/ (lease[t].when = "stale" /\ ~aged)
    /\ seen.state \in DISPATCHABLE_STATES

(* Faulty variant: a cancel that died before it ended waits with the rest. *)
UnstartedOrCancelled(seen) == seen.unit = "none"

(* A task without a unit is waiting for one: to be prepared, or for a lease. *)
Unstarted(seen) == seen.unit = "none" /\ seen.state # "CANCELLING"

(* ... and is given up after ten minutes when it was never queued, or when it is
   queued under a reservation nobody acted on. *)
MayBeNeverStarted(t, seen) ==
    \/ seen.state = "PREPARING"
    \/ seen.state = "QUEUED" /\ lease[t].held # "none"

(* _from_unit, for a unit that is not active. *)
FromUnit(kind, seen) ==
    CASE kind = "exit" -> "FAILED"
      [] kind = "signal" -> "INTERRUPTED"
      [] kind = "not_found" /\ seen.heartbeat = "fresh" -> "RECOVERY_AMBIGUOUS"
      [] OTHER -> "INTERRUPTED"

(* A cancelled task whose unit is gone got what it asked for. *)
Settling(seen, to) == IF seen.state = "CANCELLING" THEN "CANCELLED" ELSE to

SweepDecides(p, to) ==
    proc' = [proc EXCEPT ![p].pc = "apply", ![p].to = Settling(proc[p].seen, to)]

(* _reconcile_task up to its transition: the lease is read, systemd is asked, and a
   dead unit is forgotten before the task is moved. *)
SweepLook(p) ==
    LET t == proc[p].on
        seen == proc[p].seen
        kind == unit[t].kind
        reserved == Reserved(t, seen, proc[p].aged)
    IN
    /\ proc[p].pc = "look"
    /\ \/ /\ reserved
          /\ Skip(p, t, "sweep") /\ UNCHANGED unit
       \/ /\ ~reserved /\ seen.boot = "earlier"
          /\ SweepDecides(p, "INTERRUPTED") /\ UNCHANGED unit
       \/ /\ ~reserved /\ seen.boot # "earlier" /\ Unstarted(seen)
          /\ \/ Skip(p, t, "sweep")
             \/ MayBeNeverStarted(t, seen) /\ SweepDecides(p, "FAILED")
          /\ UNCHANGED unit
       \/ /\ ~reserved /\ seen.boot # "earlier" /\ ~Unstarted(seen)
          /\ \/ kind = "active" /\ Skip(p, t, "sweep") /\ UNCHANGED unit
             \/ /\ kind # "active"
                /\ SweepDecides(p, FromUnit(kind, seen))
                /\ unit' = [unit EXCEPT ![t] = Gone("not_found")]
    /\ UNCHANGED <<task, lease, faults>>

(* _escalate_cancel: the unit outlived the SIGTERM by thirty seconds; systemctl stop
   waits for it to go, killing it in the end. *)
SweepStops(p) ==
    LET t == proc[p].on
    IN
    /\ proc[p].pc = "look" /\ proc[p].seen.state = "CANCELLING"
    /\ proc[p].seen.boot # "earlier" /\ unit[t].kind = "active"
    /\ unit' = [unit EXCEPT ![t] = Gone("exit")]
    /\ proc' = [q \in Procs |->
                  CASE q = t -> Idle
                    [] q = p -> [Idle EXCEPT !.pc = "sweep", !.todo = proc[p].todo \ {t},
                                             !.final = proc[p].final]
                    [] OTHER -> proc[q]]
    /\ UNCHANGED <<task, lease, faults>>

(* recovery._apply: the transition, pinned to the listed version ... *)
SweepApply(p) ==
    LET t == proc[p].on
    IN
    /\ proc[p].pc = "apply"
    /\ \/ /\ task[t].version = proc[p].seen.version /\ CanMove(t, proc[p].to)
          /\ task' = [task EXCEPT ![t] = Moved(t, proc[p].to)]
          /\ Goto(p, "unlease")
       \/ /\ task[t].version # proc[p].seen.version \/ ~CanMove(t, proc[p].to)
          /\ Skip(p, t, "sweep")
          /\ UNCHANGED task
    /\ UNCHANGED <<lease, unit, faults>>

(* ... and then, in a transaction of its own, whatever lease the task holds. *)
SweepUnlease(p) ==
    /\ proc[p].pc = "unlease"
    /\ Release(proc[p].on)
    /\ Skip(p, proc[p].on, "sweep")
    /\ UNCHANGED <<task, unit, faults>>

SweepLeases(p) ==
    /\ proc[p].pc = "sweep" /\ proc[p].todo = {}
    /\ proc' = [proc EXCEPT ![p].pc = "leases", ![p].todo = Held]
    /\ UNCHANGED <<task, lease, unit, faults>>

(* Faulty variant: only a reboot makes a settled task's lease abandoned. *)
AbandonedByReboot(t) ==
    /\ task[t].state \notin ACTIVE_STATES \cup {"RECOVERY_AMBIGUOUS"}
    /\ lease[t].when = "earlier"

(* _release_finished_leases: the lease of a task that is settled, when its unit is dead
   or unknown for long enough.  The transaction rechecks the lease row, so nobody
   claimed it between the look and the release. *)
Abandoned(t) ==
    /\ task[t].state \notin ACTIVE_STATES \cup {"RECOVERY_AMBIGUOUS"}
    /\ \/ lease[t].when = "earlier"
       \/ unit[t].kind \in {"exit", "signal"}
       \/ unit[t].kind = "not_found" /\ lease[t].when = "stale"

SweepDrops(p, t) ==
    /\ proc[p].pc = "leases" /\ t \in proc[p].todo
    /\ lease' = IF Abandoned(t) THEN [lease EXCEPT ![t] = NoLease] ELSE lease
    /\ Skip(p, t, "leases")
    /\ UNCHANGED <<task, unit, faults>>

(* A drain has no body of its own, and the second sweep of a refused request has it
   behind it: both go on to their dispatch pass. *)
SweepEnds(p) ==
    /\ proc[p].pc = "leases" /\ proc[p].todo = {}
    /\ IF p \in Servers /\ ~proc[p].final
         THEN Goto(p, "body")
         ELSE proc' = [proc EXCEPT ![p] = [Idle EXCEPT !.pc = "next"]]
    /\ UNCHANGED <<task, lease, unit, faults>>

Sweep(p) ==
    \/ SweepLook(p) \/ SweepStops(p) \/ SweepApply(p) \/ SweepUnlease(p)
    \/ SweepLeases(p) \/ SweepEnds(p)
    \/ \E t \in Tasks : SweepList(p, t) \/ SweepDrops(p, t)

---------------------------------------------------------------------------
(* Tool calls.  A caller passes the version it was shown, so a request acts on the
   state it names or is refused; refused requests change nothing. *)

Requested(s, t) == proc[s].pc = "body" /\ task[t].version < MaxVersion[t]

(* The pass that ends the call starts with nothing in hand. *)
EndCall(s) == proc' = [proc EXCEPT ![s] = [Idle EXCEPT !.pc = "next"]]

(* A tool that changes nothing here, or was refused: the pass runs all the same. *)
OtherCall(s) ==
    /\ proc[s].pc = "body"
    /\ EndCall(s)
    /\ UNCHANGED <<task, lease, unit, faults>>

(* A read-only tool never dispatches. *)
ObserveCall(s) ==
    /\ proc[s].pc = "body"
    /\ proc' = [proc EXCEPT ![s] = Idle]
    /\ UNCHANGED <<task, lease, unit, faults>>

StartTask(s, t) ==
    /\ Requested(s, t)
    /\ task[t].state = "NEW"
    /\ \A u \in Tasks : u < t => task[u].state # "NEW"
    /\ task' = [task EXCEPT ![t].state = "PREPARING", ![t].version = 1]
    /\ proc' = [proc EXCEPT ![s].pc = "prepare", ![s].on = t]
    /\ UNCHANGED <<lease, unit, faults>>

(* _prepare: the workspace is made and the task queued, which what happened to the task
   meanwhile may forbid ... *)
Prepare(s) ==
    LET t == proc[s].on
    IN
    /\ proc[s].pc = "prepare"
    /\ task' = [task EXCEPT ![t] = Attempted(t, "QUEUED")]
    /\ IF CanMove(t, "QUEUED") THEN Goto(s, "prepared") ELSE EndCall(s)
    /\ UNCHANGED <<lease, unit, faults>>

(* ... or it cannot be made. *)
PrepareFails(s) ==
    LET t == proc[s].on
    IN
    /\ proc[s].pc = "prepare"
    /\ task' = [task EXCEPT ![t] = Attempted(t, "FAILED")]
    /\ EndCall(s)
    /\ UNCHANGED <<lease, unit, faults>>

(* _CONTINUATIONS; an interrupted task also needs a session to load. *)
Continuation(t) ==
    CASE task[t].state = "RESULT_READY" -> "REPAIRING"
      [] task[t].state = "COMPLETED" /\ ModeOf[t] = "consult" -> "RESUMING"
      [] task[t].state = "INTERRUPTED" /\ task[t].session -> "RESUMING"
      [] OTHER -> "none"

(* continue_task: the turn is inserted and the unit's identity cleared with the move;
   then this task is started before the pass that ends the call. *)
ContinueTask(s, t) ==
    /\ Requested(s, t)
    /\ Continuation(t) # "none"
    /\ task' = [task EXCEPT ![t] = [Moved(t, Continuation(t)) EXCEPT !.unit = "none",
                                                                     !.boot = "none"]]
    /\ proc' = [proc EXCEPT ![s].pc = "next", ![s].todo = {t}]
    /\ UNCHANGED <<lease, unit, faults>>

(* _settle_ambiguous, for continue_task and cancel_task on a RECOVERY_AMBIGUOUS task:
   another sweep, which looks at active states only, and MANUAL_RECOVERY_REQUIRED. *)
SettleAmbiguous(s, t) ==
    /\ proc[s].pc = "body"
    /\ task[t].state = "RECOVERY_AMBIGUOUS"
    /\ proc' = [proc EXCEPT ![s] = [Idle EXCEPT !.pc = "sweep", !.todo = Tasks,
                                                !.final = TRUE]]
    /\ UNCHANGED <<task, lease, unit, faults>>

(* Faulty variant: a running turn is settled as if nothing ran. *)
CancelTaskUnasked(s, t) ==
    /\ Requested(s, t)
    /\ task[t].state # "RECOVERY_AMBIGUOUS"
    /\ CanMove(t, "CANCELLING")
    /\ task' = [task EXCEPT ![t] = Moved(t, "CANCELLING")]
    /\ proc' = [proc EXCEPT ![s].on = t, ![s].pc = "unhold"]
    /\ UNCHANGED <<lease, unit, faults>>

(* cancel_task: a task somebody runs is signalled, any other is settled here. *)
CancelTask(s, t) ==
    /\ Requested(s, t)
    /\ task[t].state # "RECOVERY_AMBIGUOUS"
    /\ CanMove(t, "CANCELLING")
    /\ task' = [task EXCEPT ![t] = Moved(t, "CANCELLING")]
    /\ proc' = [proc EXCEPT
                  ![s].on = t,
                  ![s].pc = IF task[t].state \in ACTIVE_STATES /\ task[t].unit = "worker"
                              THEN "kill" ELSE "unhold"]
    /\ UNCHANGED <<lease, unit, faults>>

(* SIGTERM to the unit: the handler makes it a cancel request; a worker without one
   installed dies of it, which systemd counts as a clean exit and forgets. *)
Signalled(t) ==
    IF unit[t].pc \in Handling THEN [unit[t] EXCEPT !.sigterm = TRUE] ELSE Gone("not_found")

KillUnit(s) ==
    LET t == proc[s].on
    IN
    /\ proc[s].pc = "kill"
    /\ unit' = IF unit[t].kind = "active" THEN [unit EXCEPT ![t] = Signalled(t)] ELSE unit
    /\ proc' = [q \in Procs |->
                  CASE q = s -> [Idle EXCEPT !.pc = "next"]
                    [] q = t -> Idle
                    [] OTHER -> proc[q]]
    /\ UNCHANGED <<task, lease, faults>>

(* Nothing was running: the lease goes, then the task is CANCELLED. *)
CancelUnhold(s) ==
    /\ proc[s].pc = "unhold"
    /\ Release(proc[s].on)
    /\ Goto(s, "cancelled")
    /\ UNCHANGED <<task, unit, faults>>

CancelEnds(s) ==
    /\ proc[s].pc = "cancelled"
    /\ task' = [task EXCEPT ![proc[s].on] = Attempted(proc[s].on, "CANCELLED")]
    /\ EndCall(s)
    /\ UNCHANGED <<lease, unit, faults>>

Call(s) ==
    \/ OtherCall(s) \/ ObserveCall(s) \/ Prepare(s) \/ PrepareFails(s) \/ KillUnit(s)
    \/ CancelUnhold(s) \/ CancelEnds(s)

Request(s) ==
    \E t \in Tasks :
        StartTask(s, t) \/ ContinueTask(s, t) \/ SettleAmbiguous(s, t) \/ CancelTask(s, t)

---------------------------------------------------------------------------
(* Dispatch: every runnable task, oldest first. *)

Runnable == {t \in Tasks : task[t].state \in DISPATCHABLE_STATES}

(* start_task's own pass, over what is runnable once its task is queued. *)
DispatchStarted(s) ==
    /\ proc[s].pc = "prepared"
    /\ proc' = [proc EXCEPT ![s] = [Idle EXCEPT !.pc = "next", !.todo = Runnable]]
    /\ UNCHANGED <<task, lease, unit, faults>>

(* Faulty variant: only continuations are listed, a fresh task being left to the call
   that queued it. *)
DispatchListContinued(p) ==
    /\ proc[p].pc = "next" /\ proc[p].todo = {} /\ ~proc[p].final
    /\ proc' = [proc EXCEPT ![p].todo = {t \in Runnable : task[t].state # "QUEUED"}, ![p].final = TRUE]
    /\ UNCHANGED <<task, lease, unit, faults>>

(* The pass that ends the call, or a drain's one pass. *)
DispatchList(p) ==
    /\ proc[p].pc = "next" /\ proc[p].todo = {} /\ ~proc[p].final
    /\ proc' = [proc EXCEPT ![p].todo = Runnable, ![p].final = TRUE]
    /\ UNCHANGED <<task, lease, unit, faults>>

(* The pass is over; a drained worker exits in WorkerExit. *)
DispatchEnds(s) ==
    /\ s \in Servers
    /\ proc[s].pc = "next" /\ proc[s].todo = {} /\ proc[s].final
    /\ proc' = [proc EXCEPT ![s] = Idle]
    /\ UNCHANGED <<task, lease, unit, faults>>

(* Faulty variant: a reservation counts once a worker has signed it. *)
HasRoomSigned(t) ==
    lease[t].held = "none" /\ Cardinality({u \in Tasks : lease[u].held = "signed"}) < Limit

(* Store.acquire_lease's count and its one lease per task. *)
HasRoom(t) == lease[t].held = "none" /\ Cardinality(Held) < Limit

Oldest(p, t) == t \in proc[p].todo /\ \A u \in proc[p].todo : t <= u

(* _start_worker_admitted, its transaction: the lease is taken and the unit's name
   published together, or the task is left for a later pass. *)
Claim(p, t) ==
    /\ proc[p].pc = "next" /\ Oldest(p, t)
    /\ \/ /\ task[t].state \in DISPATCHABLE_STATES /\ HasRoom(t)
          /\ lease' = [lease EXCEPT ![t] = [held |-> "unsigned", when |-> "fresh"]]
          /\ task' = [task EXCEPT ![t].unit = "worker", ![t].boot = "this"]
          /\ proc' = [proc EXCEPT ![p].pc = "start", ![p].on = t]
       \/ /\ task[t].state \notin DISPATCHABLE_STATES \/ ~HasRoom(t)
          /\ Skip(p, t, "next")
          /\ UNCHANGED <<task, lease>>
    /\ UNCHANGED <<unit, faults>>

(* The profile or the login context is no longer the one the task was queued under:
   the transaction is rolled back and the task fails. *)
ClaimFails(p, t) ==
    /\ proc[p].pc = "next" /\ Oldest(p, t)
    /\ task[t].state \in DISPATCHABLE_STATES
    /\ Fault("claim")
    /\ proc' = [proc EXCEPT ![p].pc = "fail", ![p].on = t]
    /\ UNCHANGED <<task, lease, unit>>

(* _reset_stale_unit, then systemd-run: a dead unit of the name is forgotten first. *)
StartWorker(p) ==
    LET t == proc[p].on
    IN
    /\ proc[p].pc = "start"
    /\ unit[t].kind # "active"
    /\ unit' = [unit EXCEPT ![t] = Started]
    /\ Skip(p, t, "next")
    /\ UNCHANGED <<task, lease, faults>>

(* systemd-run refuses a name that is in use. *)
StartRefused(p) ==
    /\ proc[p].pc = "start"
    /\ unit[proc[p].on].kind = "active"
    /\ Goto(p, "unstart")
    /\ UNCHANGED <<task, lease, unit, faults>>

(* Faulty variant: a start whose answer was lost is taken for a refused one. *)
StartFailsLost(p) ==
    LET t == proc[p].on
    IN
    /\ proc[p].pc = "start"
    /\ Fault("start")
    /\ Goto(p, "unstart")
    /\ \/ UNCHANGED unit
       \/ unit[t].kind # "active" /\ unit' = [unit EXCEPT ![t] = Started]
    /\ UNCHANGED <<task, lease>>

(* It fails for a reason of its own, or its answer is lost, the unit started or not;
   then the reservation is kept and the exception ends the pass. *)
StartFails(p) ==
    LET t == proc[p].on
    IN
    /\ proc[p].pc = "start"
    /\ Fault("start")
    /\ \/ Goto(p, "unstart") /\ UNCHANGED unit
       \/ /\ proc' = [proc EXCEPT ![p] = [Idle EXCEPT !.pc = "next", !.final = proc[p].final]]
          /\ \/ UNCHANGED unit
             \/ unit[t].kind # "active" /\ unit' = [unit EXCEPT ![t] = Started]
    /\ UNCHANGED <<task, lease>>

UnstartLease(p) ==
    /\ proc[p].pc = "unstart"
    /\ Release(proc[p].on)
    /\ Goto(p, "fail")
    /\ UNCHANGED <<task, unit, faults>>

(* _fail: unpinned, and a refused move is suppressed. *)
FailTask(p) ==
    LET t == proc[p].on
    IN
    /\ proc[p].pc = "fail"
    /\ task' = [task EXCEPT ![t] = Attempted(t, "FAILED")]
    /\ Skip(p, t, "next")
    /\ UNCHANGED <<lease, unit, faults>>

Dispatching(p) ==
    \/ DispatchStarted(p) \/ DispatchList(p) \/ DispatchEnds(p) \/ StartWorker(p)
    \/ StartRefused(p) \/ StartFails(p) \/ UnstartLease(p) \/ FailTask(p)
    \/ \E t \in Tasks : Claim(p, t) \/ ClaimFails(p, t)

---------------------------------------------------------------------------
(* The worker: runner.run_worker and main, one step per transaction. *)

At(t, pc) == unit[t].kind = "active" /\ unit[t].pc = pc

WorkerGoto(t, pc) == unit' = [unit EXCEPT ![t].pc = pc]

(* The outcome the worker will try to settle in. *)
Settle(t, want, last) ==
    unit' = [unit EXCEPT ![t].pc = "decide", ![t].want = want, ![t].last = last]

(* An exception before the task is RUNNING leaves run_worker and keeps the lease. *)
WorkerBegin(t) ==
    /\ At(t, "begin")
    /\ IF task[t].state \in DISPATCHABLE_STATES
         THEN WorkerGoto(t, "run")
         ELSE unit' = [unit EXCEPT ![t] = Gone("exit")]
    /\ UNCHANGED <<task, lease, proc, faults>>

WorkerRun(t) ==
    /\ At(t, "run")
    /\ \/ /\ CanMove(t, "RUNNING")
          /\ task' = [task EXCEPT ![t] = [Moved(t, "RUNNING") EXCEPT
                                            !.unit = "worker", !.boot = "this",
                                            !.heartbeat = "fresh"]]
          /\ WorkerGoto(t, "sign")
       \/ /\ ~CanMove(t, "RUNNING")
          /\ unit' = [unit EXCEPT ![t] = Gone("exit")]
          /\ UNCHANGED task
    /\ UNCHANGED <<lease, proc, faults>>

(* _check_lease: the reservation is signed, or LEASE_BUSY fails the turn. *)
WorkerSign(t) ==
    /\ At(t, "sign")
    /\ \/ /\ lease[t].held # "none"
          /\ lease' = [lease EXCEPT ![t] = [held |-> "signed", when |-> "fresh"]]
          /\ WorkerGoto(t, "open")
       \/ /\ lease[t].held = "none"
          /\ Settle(t, "FAILED", TRUE)
          /\ UNCHANGED lease
    /\ UNCHANGED <<task, proc, faults>>

WorkerOpen(t) ==
    /\ At(t, "open")
    /\ task' = [task EXCEPT ![t].session = TRUE]
    /\ WorkerGoto(t, "turn")
    /\ UNCHANGED <<lease, proc, faults>>

WorkerFinishes(t) ==
    /\ At(t, "turn")
    /\ unit' = [unit EXCEPT ![t].pc = "decide", ![t].want = Finished(t),
                            ![t].produced = ModeOf[t] = "implement"]
    /\ UNCHANGED <<task, lease, proc, faults>>

(* _Failure: a refusal, a timeout, a lost agent, a candidate that cannot be made. *)
WorkerFails(t) ==
    /\ At(t, "open") \/ At(t, "turn")
    /\ Settle(t, "FAILED", TRUE)
    /\ UNCHANGED <<task, lease, proc, faults>>

(* The stored session cannot be loaded. *)
WorkerCannotResume(t) ==
    /\ At(t, "open")
    /\ task[t].session
    /\ Settle(t, "INTERRUPTED", TRUE)
    /\ UNCHANGED <<task, lease, proc, faults>>

(* The SIGTERM, or the CANCELLING the agent's error is read against, ends the turn. *)
WorkerCancelled(t) ==
    /\ At(t, "open") \/ At(t, "turn")
    /\ unit[t].sigterm \/ task[t].state = "CANCELLING"
    /\ WorkerGoto(t, "cancel")
    /\ UNCHANGED <<task, lease, proc, faults>>

(* _settle_cancelled reads the state, and moves a RUNNING task to CANCELLING first. *)
WorkerReadsCancel(t) ==
    /\ At(t, "cancel")
    /\ IF task[t].state = "RUNNING"
         THEN WorkerGoto(t, "cancelling")
         ELSE Settle(t, "CANCELLED", FALSE)
    /\ UNCHANGED <<task, lease, proc, faults>>

WorkerCancelling(t) ==
    /\ At(t, "cancelling")
    /\ task' = [task EXCEPT ![t] = Attempted(t, "CANCELLING")]
    /\ IF CanMove(t, "CANCELLING")
         THEN Settle(t, "CANCELLED", FALSE)
         ELSE Settle(t, "FAILED", TRUE)
    /\ UNCHANGED <<lease, proc, faults>>

(* _settle, its read: a cancel that overtook the outcome turns it into CANCELLED. *)
Overtaken(t) ==
    task[t].state = "CANCELLING" /\ unit[t].want \notin {"CANCELLED", "FAILED"}

WorkerDecides(t) ==
    /\ At(t, "decide")
    /\ unit' = [unit EXCEPT ![t].pc = "settle",
                            ![t].want = IF Overtaken(t) THEN "CANCELLED" ELSE @]
    /\ UNCHANGED <<task, lease, proc, faults>>

(* _settle, its transition: unpinned, with what the turn produced.  A refused one is
   caught once and settled as WORKER_ERROR, without those fields. *)
WorkerSettles(t) ==
    LET want == unit[t].want
        fields == unit[t].produced /\ ~unit[t].last
    IN
    /\ At(t, "settle")
    /\ \/ /\ CanMove(t, want)
          /\ task' = [task EXCEPT ![t] = [Moved(t, want) EXCEPT
                                            !.result = @ \/ fields]]
          /\ WorkerGoto(t, "release")
       \/ /\ ~CanMove(t, want)
          /\ IF unit[t].last
               THEN unit' = [unit EXCEPT ![t].pc = "release", ![t].raised = TRUE]
               ELSE Settle(t, "FAILED", TRUE)
          /\ UNCHANGED task
    /\ UNCHANGED <<lease, proc, faults>>

(* run_worker's finally closes the turn and gives back the task's lease, whoever
   claimed it. *)
WorkerReleases(t) ==
    /\ At(t, "release")
    /\ Release(t)
    /\ WorkerGoto(t, "drain")
    /\ UNCHANGED <<task, proc, faults>>

(* drain.startable: somebody waits without a lease and there is room. *)
Startable == Cardinality(Held) < Limit /\ \E t \in Runnable : lease[t].held = "none"

(* main drains when that could start something, unless an exception left run_worker. *)
WorkerDrains(t) ==
    /\ At(t, "drain")
    /\ WorkerGoto(t, "exit")
    /\ proc' = IF Drain /\ ~unit[t].raised /\ Startable
                 THEN [proc EXCEPT ![t].pc = "sweep", ![t].todo = Tasks] ELSE proc
    /\ UNCHANGED <<task, lease, faults>>

DrainEnded(t) ==
    \/ proc[t].pc = "idle"
    \/ proc[t].pc = "next" /\ proc[t].todo = {} /\ proc[t].final

ExitKind(t) ==
    IF unit[t].raised \/ unit[t].want \notin TERMINAL_STATES \cup {"RESULT_READY"}
      THEN "exit" ELSE "not_found"

WorkerExit(t) ==
    /\ At(t, "exit") /\ DrainEnded(t)
    /\ unit' = [unit EXCEPT ![t] = Gone(ExitKind(t))]
    /\ proc' = [proc EXCEPT ![t] = Idle]
    /\ UNCHANGED <<task, lease, faults>>

Worker(t) ==
    \/ WorkerBegin(t) \/ WorkerRun(t) \/ WorkerSign(t) \/ WorkerOpen(t)
    \/ WorkerFinishes(t) \/ WorkerFails(t) \/ WorkerCannotResume(t) \/ WorkerCancelled(t)
    \/ WorkerReadsCancel(t) \/ WorkerCancelling(t) \/ WorkerDecides(t) \/ WorkerSettles(t)
    \/ WorkerReleases(t) \/ WorkerDrains(t) \/ WorkerExit(t)

---------------------------------------------------------------------------
(* The environment. *)

(* SIGKILL or the OOM killer; and a unit that died and was reset by somebody else. *)
WorkerKilled(t) ==
    /\ unit[t].kind = "active"
    /\ Fault("worker")
    /\ \E kind \in {"signal", "not_found"} : unit' = [unit EXCEPT ![t] = Gone(kind)]
    /\ proc' = [proc EXCEPT ![t] = Idle]
    /\ UNCHANGED <<task, lease>>

(* SIGTERM from outside the program: systemctl stop by hand, or the end of the session. *)
WorkerStopped(t) ==
    /\ unit[t].kind = "active"
    /\ Fault("stop")
    /\ unit' = [unit EXCEPT ![t] = Signalled(t)]
    /\ proc' = [proc EXCEPT ![t] = Idle]
    /\ UNCHANGED <<task, lease>>

ServerKilled(s) ==
    /\ proc[s].pc # "idle"
    /\ Fault("server")
    /\ proc' = [proc EXCEPT ![s] = Idle]
    /\ UNCHANGED <<task, lease, unit>>

Reboot ==
    /\ Fault("reboot")
    /\ proc' = [p \in Procs |-> Idle]
    /\ unit' = [t \in Tasks |-> Gone("not_found")]
    /\ task' = [t \in Tasks |-> [task[t] EXCEPT
                                   !.boot = IF @ = "none" THEN @ ELSE "earlier"]]
    /\ lease' = [t \in Tasks |-> IF lease[t].held = "none" THEN NoLease
                                 ELSE [lease[t] EXCEPT !.when = "earlier"]]

(* Thirty seconds without a heartbeat: no worker of the task writes them. *)
HeartbeatAges(t) ==
    /\ unit[t].pc \notin Handling
    /\ task[t].heartbeat = "fresh"
    /\ task' = [task EXCEPT ![t].heartbeat = "stale"]
    /\ UNCHANGED <<lease, unit, proc, faults>>

(* A lease is claimed after the heartbeats of the turn before it and touched with those
   of its own, so it grows old after the task does. *)
LeaseAges(t) ==
    /\ unit[t].pc \notin Handling
    /\ task[t].heartbeat # "fresh"
    /\ lease[t].held # "none" /\ lease[t].when = "fresh"
    /\ lease' = [lease EXCEPT ![t].when = "stale"]
    /\ UNCHANGED <<task, unit, proc, faults>>

Environment ==
    \/ Reboot
    \/ \E t \in Tasks : WorkerKilled(t) \/ WorkerStopped(t) \/ HeartbeatAges(t) \/ LeaseAges(t)
    \/ \E s \in Servers : ServerKilled(s)

---------------------------------------------------------------------------
Next ==
    \/ \E p \in Procs : Sweep(p) \/ Dispatching(p)
    \/ \E s \in Servers : BeginCall(s) \/ Call(s) \/ Request(s)
    \/ \E t \in Tasks : Worker(t)
    \/ Environment

(* Processes go on until they are killed, tool calls keep coming and not all of them
   are read-only, turns end (each has a timeout) and time passes. *)
Fairness ==
    /\ \A p \in Procs : WF_vars(Sweep(p)) /\ WF_vars(Dispatching(p))
    /\ \A s \in Servers : WF_vars(BeginCall(s)) /\ WF_vars(Call(s)) /\ SF_vars(OtherCall(s))
    /\ \A t \in Tasks : WF_vars(Worker(t)) /\ WF_vars(HeartbeatAges(t)) /\ WF_vars(LeaseAges(t))

Spec == Init /\ [][Next]_vars

FairSpec == Spec /\ Fairness

---------------------------------------------------------------------------
(* Properties. *)

(* The tasks whose agent is running a turn. *)
Turning == {t \in Tasks : unit[t].pc \in {"open", "turn"}}

(* Competing processes never hold more leases than the limit, whoever claims at once,
   retries, sweeps, dies or drains (Store.acquire_lease in _start_worker_admitted). *)
LeasesWithinLimit == Cardinality(Held) <= Limit

(* A running turn is counted: its task holds a lease until the worker gives it back.
   Releases name the task and not the claim, so a late one of another process takes away
   the lease of a later turn (recovery._apply, _fail, run_worker). *)
TurnHoldsLease == \A t \in Turning : lease[t].held # "none"

(* A turn runs only for a task that says so: nothing settles, hands over or ends a task
   whose agent is still at work in its worktree. *)
TurnIsOwned == \A t \in Turning : task[t].state \in {"RUNNING", "CANCELLING"}

(* A cancelled task is settled, by its worker or by a sweep. *)
CancelEnded == \A t \in Tasks : (task[t].state = "CANCELLING") ~> (task[t].state # "CANCELLING")

(* A task that waits for a worker gets one, or is settled without one. *)
DispatchedInTheEnd ==
    \A t \in Tasks : (task[t].state \in DISPATCHABLE_STATES)
                       ~> (task[t].state \notin DISPATCHABLE_STATES)

(* Every lease is given back in the end, whichever process took it and died: by the
   worker, by the sweep that settles the task, or by the sweep of the leases. *)
LeaseReturned ==
    \A t \in Tasks : (lease[t].held # "none") ~> (lease[t].held = "none")
=============================================================================
