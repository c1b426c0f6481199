------------------------------ MODULE DockerUnits ------------------------------
(***************************************************************************)
(* The Docker execution backend: the controller's launch records, the      *)
(* admission fence with its maintenance owner and submissions, the         *)
(* administrative recoveries and the interruption sweep                    *)
(* (docker_units.py, reached through controller.py).                       *)
(*                                                                         *)
(* A launch is written down before the Engine is asked for it.  A request  *)
(* to the Engine sits in wire until the Engine performs it or it is lost:  *)
(* the controller may time out, or die, while it is still there.  The      *)
(* backend's operations hold operations.lock, so op is the one operation   *)
(* in progress; those that change what may run also hold the controller's  *)
(* mutation lock, which an interruption keeps (sweep) between sections.    *)
(***************************************************************************)
EXTENDS Naturals, FiniteSets

CONSTANTS
    Workers,     \* logical worker units, one per task
    Accepts,     \* logical accept units
    Tokens,      \* maintenance owners and submitters
    MaxTurn,     \* bound: unit -> its launch identities
    MaxGen        \* bound: launches reserved in all

ASSUME UnitsDisjoint == Workers \cap Accepts = {}
Units == Workers \cup Accepts

ASSUME BoundsPositive == MaxTurn \in [Units -> Nat \ {0}] /\ MaxGen \in Nat \ {0}

Gens == 1..MaxGen
NoGen == 0
Nobody == "nobody"

ASSUME NobodyIsNoUnit == Nobody \notin Units

Settled == {"finished", "retired", "failed"}
Idle == [what |-> "idle"]

VARIABLES
    admission,   \* admission.json: its open flag
    maintenance, \* maintenance.json: whether it is active, and its owner
    submissions, \* the submission-*.json files
    record,      \* unit -> its launch record; phase "none" when there is no file
    turn,        \* unit -> the identity in the database: last turn, or journal
    task,        \* worker -> what the database says of its task
    journal,     \* accept units whose integration journal is not settled
    engine,      \* generation -> container status
    label,       \* generation -> the unit and identity it was reserved for
    wire,        \* requests on their way to the Engine
    events,      \* generations whose destroy event the Engine still keeps
    aged,        \* generations reserved more than an hour ago
    op,          \* the operation that holds operations.lock
    sweep,       \* the interruption that holds the mutation lock
    ran,         \* history: generations that have run
    quiet        \* history: a closed status with no jobs was seen, not opened since

fenceVars == <<admission, maintenance, submissions>>
dbVars == <<turn, task, journal>>
engineVars == <<engine, wire, events, aged, ran>>
vars == <<admission, maintenance, submissions, record, turn, task, journal, engine,
          label, wire, events, aged, op, sweep, ran, quiet>>

NoRecord == [phase |-> "none", gen |-> NoGen, identity |-> 0, evidence |-> "none"]

Init ==
    /\ admission = TRUE
    /\ maintenance = [active |-> FALSE, owner |-> Nobody]
    /\ submissions = {}
    /\ record = [u \in Units |-> NoRecord]
    /\ turn = [u \in Units |-> 0]
    /\ task = [u \in Workers |-> [cancelling |-> FALSE, started |-> FALSE]]
    /\ journal = {}
    /\ engine = [g \in Gens |-> "absent"]
    /\ label = [g \in Gens |-> [unit |-> Nobody, identity |-> 0]]
    /\ wire = {} /\ events = {} /\ aged = {}
    /\ op = Idle /\ sweep = Idle
    /\ ran = {} /\ quiet = FALSE

--------------------------------------------------------------------------------
(* What the controller reads.                                              *)

Admission == ~maintenance.active /\ admission

\* The record validation every operation starts with.
Readable(r) == r.phase \in {"finished", "retired"} => r.evidence = "ended"

HasContainer(u) == record[u].gen # NoGen /\ engine[record[u].gen] # "absent"

Kind(status) ==
    CASE status = "running" -> "active"
      [] status = "exited"  -> "ended"
      [] OTHER              -> "unknown"

\* The record of u after the container was inspected and the record saved.
Observe(u) ==
    LET kind == Kind(engine[record[u].gen])
    IN  [record[u] EXCEPT !.evidence = kind,
                          !.phase = IF kind = "ended" THEN "finished" ELSE @]

Seen(u) == IF HasContainer(u) THEN Observe(u) ELSE record[u]

(* Faulty variant: a container that is not confirmed running is no job. *)
JobsActiveOnly == {u \in Units : HasContainer(u) /\ Observe(u).evidence = "active"}

\* The units status lists: active, or with an outcome that is not known.
Jobs == {u \in Units : /\ record[u].phase # "none"
                       /\ IF HasContainer(u) THEN Observe(u).evidence # "ended"
                                             ELSE record[u].phase \notin Settled}

LockFree == op = Idle
MutationFree == op = Idle /\ sweep = Idle

--------------------------------------------------------------------------------
(* The admission fence.                                                    *)

SetAdmission(open) ==
    /\ MutationFree
    /\ ~(open /\ maintenance.active)
    /\ admission' = open
    /\ quiet' = (quiet /\ ~open)
    /\ UNCHANGED <<maintenance, submissions, record, dbVars, engineVars, label, op, sweep>>

\* The maintenance record is written first, the admission flag second.
MaintenanceAcquire(t) ==
    /\ MutationFree
    /\ maintenance.active => maintenance.owner = t
    /\ maintenance.active \/ Admission
    /\ maintenance' = [active |-> TRUE, owner |-> t]
    /\ op' = [what |-> "acquire"]
    /\ UNCHANGED <<admission, submissions, record, dbVars, engineVars, label, sweep, quiet>>

MaintenanceAcquireFlag ==
    /\ op.what = "acquire"
    /\ admission' = FALSE
    /\ op' = Idle
    /\ UNCHANGED <<maintenance, submissions, record, dbVars, engineVars, label, sweep,
                   quiet>>

\* A release of an inactive record only compares, so it is no step.
MaintenanceRelease(t, open) ==
    /\ MutationFree
    /\ maintenance.active /\ maintenance.owner = t
    /\ submissions = {}
    /\ admission' = open
    /\ op' = [what |-> "release"]
    /\ UNCHANGED <<maintenance, submissions, record, dbVars, engineVars, label, sweep, quiet>>

MaintenanceReleaseRecord ==
    /\ op.what = "release"
    /\ maintenance' = [maintenance EXCEPT !.active = FALSE]
    /\ quiet' = (quiet /\ ~admission)
    /\ op' = Idle
    /\ UNCHANGED <<admission, submissions, record, dbVars, engineVars, label, sweep>>

SubmissionBegin(t) ==
    /\ MutationFree
    /\ Admission
    /\ t \notin submissions
    /\ submissions' = submissions \cup {t}
    /\ UNCHANGED <<admission, maintenance, record, dbVars, engineVars, label, op, sweep,
                   quiet>>

SubmissionEnd(t) ==
    /\ MutationFree
    /\ t \in submissions
    /\ submissions' = submissions \ {t}
    /\ UNCHANGED <<admission, maintenance, record, dbVars, engineVars, label, op, sweep,
                   quiet>>

--------------------------------------------------------------------------------
(* A launch.                                                               *)

(* Faulty variant: an identity may be launched again once it is settled. *)
MayRepeat(r, identity) ==
    /\ r.evidence = "active" => r.identity = identity
    /\ r.phase \in {"none"} \cup Settled

\* What start refuses to run over, once an existing container was inspected.
MayReserve(r, identity) ==
    /\ r.evidence = "active" => r.identity = identity
    /\ r.phase \in {"none"} \cup Settled
    /\ r.identity = identity => r.phase \in {"none", "failed"}

NextGen == Cardinality({g \in Gens : label[g].unit # Nobody}) + 1

Reserve(u) ==
    /\ NextGen \in Gens
    /\ record' = [record EXCEPT ![u] = [phase |-> "creating", gen |-> NextGen,
                                        identity |-> turn[u], evidence |-> "none"]]
    /\ label' = [label EXCEPT ![NextGen] = [unit |-> u, identity |-> turn[u]]]
    /\ wire' = wire \cup {[what |-> "create", gen |-> NextGen]}
    /\ op' = [what |-> "create", unit |-> u, gen |-> NextGen]

\* start up to the create request; a refusal still saves what was observed.
Start(u) ==
    /\ MutationFree
    /\ Admission
    /\ turn[u] > 0
    /\ u \in Accepts => u \in journal
    /\ Readable(record[u])
    /\ IF MayReserve(Seen(u), turn[u])
       THEN Reserve(u)
       ELSE /\ record' = [record EXCEPT ![u] = Seen(u)]
            /\ UNCHANGED <<label, wire, op>>
    /\ UNCHANGED <<fenceVars, dbVars, engine, events, aged, ran, sweep, quiet>>

\* The container exists, from the reply or from a query after a lost reply.
Created ==
    /\ op.what = "create"
    /\ [what |-> "create", gen |-> op.gen] \notin wire
    /\ engine[op.gen] = "created"
    /\ record' = [record EXCEPT ![op.unit].phase = "starting"]
    /\ wire' = wire \cup {[what |-> "start", gen |-> op.gen]}
    /\ op' = [op EXCEPT !.what = "start"]
    /\ UNCHANGED <<fenceVars, dbVars, engine, events, aged, ran, label, sweep, quiet>>

\* An API error that says the Engine did not take the request.
CreateRejected ==
    /\ op.what = "create"
    /\ [what |-> "create", gen |-> op.gen] \in wire
    /\ wire' = wire \ {[what |-> "create", gen |-> op.gen]}
    /\ record' = [record EXCEPT ![op.unit].phase = "failed"]
    /\ op' = Idle
    /\ UNCHANGED <<fenceVars, dbVars, engine, events, aged, ran, label, sweep, quiet>>

\* Any other error, with no container found: the record stays in creating.
CreateUnsettled ==
    /\ op.what = "create"
    /\ op' = Idle
    /\ UNCHANGED <<fenceVars, record, dbVars, engineVars, label, sweep, quiet>>

Started ==
    /\ op.what = "start"
    /\ engine[op.gen] \in {"running", "exited"}
    /\ record' = [record EXCEPT ![op.unit].phase = "started"]
    /\ op' = Idle
    /\ UNCHANGED <<fenceVars, dbVars, engineVars, label, sweep, quiet>>

\* The start call failed; the container is inspected if it can be.
StartUnsettled ==
    /\ op.what = "start"
    /\ \/ record' = [record EXCEPT ![op.unit] = Seen(op.unit)]
       \/ UNCHANGED record
    /\ op' = Idle
    /\ UNCHANGED <<fenceVars, dbVars, engineVars, label, sweep, quiet>>

--------------------------------------------------------------------------------
(* Looking at a launch, stopping it and clearing it away.                  *)

Show(u) ==
    /\ LockFree
    /\ Readable(record[u])
    /\ HasContainer(u)
    /\ record' = [record EXCEPT ![u] = Observe(u)]
    /\ UNCHANGED <<fenceVars, dbVars, engineVars, label, op, sweep, quiet>>

\* stop and kill: the container is stopped and then inspected.
Signal(u) ==
    LET g == record[u].gen
    IN  /\ HasContainer(u)
        /\ engine' = [engine EXCEPT ![g] = IF @ = "running" THEN "exited" ELSE @]
        /\ record' = [record EXCEPT ![u] = [record[u] EXCEPT
                         !.evidence = Kind(engine'[g]),
                         !.phase = IF engine'[g] = "exited" THEN "finished" ELSE @]]

Stop(u) ==
    /\ LockFree
    /\ Readable(record[u])
    /\ Signal(u)
    /\ UNCHANGED <<fenceVars, dbVars, wire, events, aged, ran, label, op, sweep, quiet>>

\* reset_failed saves the exit evidence and then asks for the removal.
ResetFailed(u) ==
    /\ LockFree
    /\ record[u].phase # "none" /\ Readable(record[u])
    /\ IF HasContainer(u)
       THEN /\ record' = [record EXCEPT ![u] = Observe(u)]
            /\ IF Observe(u).evidence = "ended"
               THEN /\ wire' = wire \cup {[what |-> "remove", gen |-> record[u].gen]}
                    /\ op' = [what |-> "remove", unit |-> u, gen |-> record[u].gen]
               ELSE UNCHANGED <<wire, op>>
       ELSE /\ record[u].phase \in Settled
            /\ record' = [record EXCEPT ![u].phase = IF @ = "failed" THEN @ ELSE "retired"]
            /\ UNCHANGED <<wire, op>>
    /\ UNCHANGED <<fenceVars, dbVars, engine, events, aged, ran, label, sweep, quiet>>

Removed ==
    /\ op.what = "remove"
    /\ engine[op.gen] = "absent"
    /\ record' = [record EXCEPT ![op.unit].phase = IF @ = "failed" THEN @ ELSE "retired"]
    /\ op' = Idle
    /\ UNCHANGED <<fenceVars, dbVars, engineVars, label, sweep, quiet>>

RemoveFailed ==
    /\ op.what = "remove"
    /\ op' = Idle
    /\ UNCHANGED <<fenceVars, record, dbVars, engineVars, label, sweep, quiet>>

--------------------------------------------------------------------------------
(* The administrative recoveries.  Both close admission whatever they find.*)

DestroyProven(u) ==
    /\ record[u].phase = "creating"
    /\ ~HasContainer(u)
    /\ record[u].gen \in events

(* Faulty variant: the age of the reservation is not looked at. *)
AbsentAtAnyAge(u) ==
    /\ u \in Workers
    /\ record[u].phase = "creating"
    /\ task[u].cancelling /\ ~task[u].started
    /\ \A g \in Gens : label[g].unit = u => engine[g] = "absent"

\* No container in any state carries the unit's label, and the task never started.
AbsentProven(u) ==
    /\ u \in Workers
    /\ record[u].phase = "creating"
    /\ record[u].gen \in aged
    /\ task[u].cancelling /\ ~task[u].started
    /\ \A g \in Gens : label[g].unit = u => engine[g] = "absent"

Recover(u, proven) ==
    /\ MutationFree
    /\ Readable(record[u])
    /\ admission' = FALSE
    /\ record' = IF proven THEN [record EXCEPT ![u].phase = "failed"] ELSE record
    /\ UNCHANGED <<maintenance, submissions, dbVars, engineVars, label, op, sweep, quiet>>

RecoverFailedCreate(u) == Recover(u, DestroyProven(u))
RecoverAbsentLaunch(u) == Recover(u, AbsentProven(u))

--------------------------------------------------------------------------------
(* status and interrupt_workers.                                           *)

AllReadable == \A u \in Units : Readable(record[u])

\* What a caller of status may conclude from the answer is kept in quiet.
Observed(jobs) ==
    /\ record' = [u \in Units |-> Seen(u)]
    /\ quiet' = (quiet \/ (~Admission /\ jobs = {}))

Status ==
    /\ LockFree /\ AllReadable
    /\ Observed(Jobs)
    /\ UNCHANGED <<fenceVars, dbVars, engineVars, label, op, sweep>>

InterruptWorkers ==
    /\ MutationFree
    /\ admission' = FALSE
    /\ sweep' = [what |-> "fenced"]
    /\ UNCHANGED <<maintenance, submissions, record, dbVars, engineVars, label, op, quiet>>

\* The snapshot; an integration that is active or unsettled ends the sweep.
InterruptSnapshot ==
    /\ sweep.what = "fenced" /\ LockFree /\ AllReadable
    /\ Observed(Jobs)
    /\ sweep' = IF journal = {} /\ Jobs \cap Accepts = {}
                THEN [what |-> "stopping", units |-> Jobs] ELSE Idle
    /\ UNCHANGED <<fenceVars, dbVars, engineVars, label, op>>

\* A stop that is not confirmed ends the sweep with an error.
InterruptStop(u) ==
    /\ sweep.what = "stopping" /\ u \in sweep.units
    /\ LockFree /\ Readable(record[u])
    /\ \/ /\ Signal(u)
          /\ sweep' = IF engine'[record[u].gen] = "exited"
                      THEN [sweep EXCEPT !.units = @ \ {u}] ELSE Idle
       \/ /\ ~HasContainer(u)
          /\ sweep' = IF record[u].phase \in Settled
                      THEN [sweep EXCEPT !.units = @ \ {u}] ELSE Idle
          /\ UNCHANGED <<engine, record>>
    /\ UNCHANGED <<fenceVars, dbVars, wire, events, aged, ran, label, op, quiet>>

InterruptDone ==
    /\ sweep.what = "stopping" /\ sweep.units = {}
    /\ LockFree /\ AllReadable
    /\ Observed(Jobs)
    /\ sweep' = Idle
    /\ UNCHANGED <<fenceVars, dbVars, engineVars, label, op>>

--------------------------------------------------------------------------------
(* The controller's death, the task database and the Engine.               *)

Crash ==
    /\ ~MutationFree
    /\ op' = Idle /\ sweep' = Idle
    /\ UNCHANGED <<fenceVars, record, dbVars, engineVars, label, quiet>>

\* A server queues the next turn of a task, or journals an integration.
NextIdentity(u) ==
    /\ turn[u] < MaxTurn[u]
    /\ u \in Workers => ~task[u].cancelling
    /\ u \in Accepts => u \notin journal
    /\ turn' = [turn EXCEPT ![u] = @ + 1]
    /\ journal' = IF u \in Accepts THEN journal \cup {u} ELSE journal
    /\ UNCHANGED <<fenceVars, record, task, engineVars, label, op, sweep, quiet>>

JournalSettled(u) ==
    /\ u \in journal
    /\ journal' = journal \ {u}
    /\ UNCHANGED <<fenceVars, record, turn, task, engineVars, label, op, sweep, quiet>>

CancelTask(u) ==
    /\ u \in Workers /\ turn[u] > 0 /\ ~task[u].cancelling
    /\ task' = [task EXCEPT ![u].cancelling = TRUE]
    /\ UNCHANGED <<fenceVars, record, turn, journal, engineVars, label, op, sweep, quiet>>

WorkerBegins(u) ==
    /\ u \in Workers /\ ~task[u].started
    /\ \E g \in Gens : label[g].unit = u /\ engine[g] = "running"
    /\ task' = [task EXCEPT ![u].started = TRUE]
    /\ UNCHANGED <<fenceVars, record, turn, journal, engineVars, label, op, sweep, quiet>>

\* The Engine performs a request: it does nothing when the container is not there.
Perform(r) ==
    /\ r \in wire
    /\ wire' = wire \ {r}
    /\ engine' = [engine EXCEPT ![r.gen] =
                    CASE r.what = "create" -> "created"
                      [] r.what = "start" /\ @ = "created" -> "running"
                      [] r.what = "remove" /\ @ = "exited" -> "removing"
                      [] OTHER -> @]
    /\ ran' = IF r.what = "start" /\ engine[r.gen] = "created" THEN ran \cup {r.gen} ELSE ran
    /\ UNCHANGED <<fenceVars, record, dbVars, events, aged, label, op, sweep, quiet>>

Lose(r) ==
    /\ r \in wire
    /\ wire' = wire \ {r}
    /\ UNCHANGED <<fenceVars, record, dbVars, engine, events, aged, ran, label, op, sweep, quiet>>

Exit(g) ==
    /\ engine[g] = "running"
    /\ engine' = [engine EXCEPT ![g] = "exited"]
    /\ UNCHANGED <<fenceVars, record, dbVars, wire, events, aged, ran, label, op, sweep, quiet>>

\* The Engine takes a failed create back, finishes a removal, or is pruned.
\* Only the event of a create that is not settled is ever asked for.
Destroy(g) ==
    /\ engine[g] \in {"created", "exited", "removing"}
    /\ engine' = [engine EXCEPT ![g] = "absent"]
    /\ events' = IF record[label[g].unit].phase = "creating" /\ record[label[g].unit].gen = g
                 THEN events \cup {g} ELSE events
    /\ UNCHANGED <<fenceVars, record, dbVars, wire, aged, ran, label, op, sweep, quiet>>

ForgetEvents ==
    /\ events # {}
    /\ events' = {}
    /\ UNCHANGED <<fenceVars, record, dbVars, engine, wire, aged, ran, label, op, sweep, quiet>>

\* An hour outlasts every create request: the Engine client's timeouts are shorter.
HourPasses(u) ==
    /\ LockFree
    /\ record[u].phase = "creating" /\ record[u].gen \notin aged
    /\ [what |-> "create", gen |-> record[u].gen] \notin wire
    /\ aged' = aged \cup {record[u].gen}
    /\ UNCHANGED <<fenceVars, record, dbVars, engine, wire, events, ran, label, op, sweep, quiet>>

--------------------------------------------------------------------------------
(* The requests that the controller serves.  Its `reconcile` is a status   *)
(* followed by the sweep of the task database.                             *)
dispatch ==
    \/ Status \/ InterruptWorkers
    \/ \E open \in BOOLEAN : SetAdmission(open)
    \/ \E t \in Tokens : \/ MaintenanceAcquire(t) \/ SubmissionBegin(t) \/ SubmissionEnd(t)
                         \/ \E open \in BOOLEAN : MaintenanceRelease(t, open)
    \/ \E u \in Units : \/ Start(u) \/ Show(u) \/ Stop(u) \/ ResetFailed(u)
                        \/ RecoverFailedCreate(u) \/ RecoverAbsentLaunch(u)

(* The rest of a request, after an answer of the engine or a write.        *)
Resume ==
    \/ MaintenanceAcquireFlag \/ MaintenanceReleaseRecord
    \/ Created \/ CreateRejected \/ CreateUnsettled \/ Started \/ StartUnsettled
    \/ Removed \/ RemoveFailed
    \/ InterruptSnapshot \/ InterruptDone \/ \E u \in Units : InterruptStop(u)

Environment ==
    \/ Crash \/ ForgetEvents
    \/ \E u \in Units : \/ NextIdentity(u) \/ JournalSettled(u) \/ CancelTask(u)
                        \/ WorkerBegins(u) \/ HourPasses(u)
    \/ \E r \in wire : Perform(r) \/ Lose(r)
    \/ \E g \in Gens : Exit(g) \/ Destroy(g)

Next == dispatch \/ Resume \/ Environment

Spec == Init /\ [][Next]_vars

--------------------------------------------------------------------------------
(* A launch identity (a turn, or an integration) runs at most once, even   *)
(* when its start is repeated after an unknown outcome or a recovery.      *)
IdentityRunsOnce ==
    \A g, h \in ran : label[g] = label[h] => g = h

(* A record that says its launch failed leaves nothing behind: its         *)
(* container does not exist, none can still be created, and it never ran.  *)
FailedLeavesNothing ==
    \A u \in Units : record[u].phase = "failed" =>
        /\ engine[record[u].gen] = "absent"
        /\ [what |-> "create", gen |-> record[u].gen] \notin wire
        /\ record[u].gen \notin ran

(* Once a status with admission closed has listed no jobs (the condition   *)
(* interrupt_workers and reconcile settle tasks on), nothing runs and no   *)
(* request that could make it run is under way, until admission opens.     *)
QuietStaysQuiet ==
    quiet => /\ \A g \in Gens : engine[g] # "running"
             /\ \A r \in wire : r.what = "start" => engine[r.gen] # "created"
================================================================================
