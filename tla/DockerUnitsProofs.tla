--------------------------- MODULE DockerUnitsProofs ---------------------------
(***************************************************************************)
(* What holds of DockerUnits for every set of units and maintenance        *)
(* owners, and any number of identities and launches.                      *)
(*                                                                         *)
(* The argument is about generations.  One that a unit's record no longer  *)
(* names is over: its container can neither be created nor run again.  A   *)
(* record is replaced by the launch of the same identity only when it says *)
(* failed, and then its generation has never run.                          *)
(***************************************************************************)
EXTENDS DockerUnits, FiniteSetTheorems, TLAPS

Statuses == {"absent", "created", "running", "exited", "removing"}
Phases == {"none", "creating", "starting", "started"} \cup Settled
Requests == [what: {"create", "start", "remove"}, gen: Gens]
RecordRow == [phase: Phases, gen: Gens \cup {NoGen}, identity: Nat,
              evidence: {"none", "active", "ended", "unknown"}]
Operation == {Idle, [what |-> "acquire"], [what |-> "release"]}
             \cup [what: {"create", "start", "remove"}, unit: Units, gen: Gens]
Interruption == {Idle, [what |-> "fenced"]} \cup [what: {"stopping"}, units: SUBSET Units]

(* Every file, row, container and request is of its type. *)
TypeOK ==
    /\ admission \in BOOLEAN
    /\ maintenance \in [active: BOOLEAN, owner: Tokens \cup {Nobody}]
    /\ submissions \subseteq Tokens
    /\ record \in [Units -> RecordRow]
    /\ turn \in [Units -> Nat]
    /\ task \in [Workers -> [cancelling: BOOLEAN, started: BOOLEAN]]
    /\ journal \subseteq Accepts
    /\ engine \in [Gens -> Statuses]
    /\ label \in [Gens -> [unit: Units \cup {Nobody}, identity: Nat]]
    /\ wire \subseteq Requests
    /\ events \subseteq Gens /\ aged \subseteq Gens /\ ran \subseteq Gens
    /\ op \in Operation
    /\ sweep \in Interruption
    /\ quiet \in BOOLEAN

Creates(g) == [what |-> "create", gen |-> g] \in wire
Starts(g) == [what |-> "start", gen |-> g] \in wire
Reserved == {g \in Gens : label[g].unit # Nobody}

(* The generation is done: no container of it runs or can come to run. *)
Over(g) == engine[g] \notin {"created", "running"} /\ ~Creates(g)

(* Nothing of the generation exists, can come to exist, or ever ran. *)
NeverRuns(g) == engine[g] = "absent" /\ ~Creates(g) /\ g \notin ran

(* Generations are reserved in order, so the next one is unused. *)
ReservedInOrder == Reserved = 1..NextGen - 1

(* What is not reserved has left no trace. *)
UnreservedUntouched ==
    \A g \in Gens \ Reserved :
        /\ engine[g] = "absent" /\ g \notin events \cup aged \cup ran
        /\ \A r \in wire : r.gen # g

(* A request to create is the first thing that happens to a generation. *)
CreateComesFirst ==
    \A g \in Gens : Creates(g) => /\ engine[g] = "absent" /\ g \notin events \cup aged \cup ran
                                  /\ ~Starts(g)

(* A container that runs, or has left a trace of it, was started. *)
RunsAreRecorded == \A g \in Gens : engine[g] \in {"running", "exited", "removing"} => g \in ran

(* A record names the generation reserved for its unit and identity. *)
RecordNamesLaunch ==
    \A u \in Units :
        /\ record[u].identity <= turn[u]
        /\ record[u].gen = NoGen <=> record[u].phase = "none"
        /\ record[u].gen = NoGen => record[u].identity = 0
        /\ record[u].gen # NoGen => /\ record[u].gen \in Reserved
                                    /\ label[record[u].gen] = [unit |-> u, identity |-> record[u].identity]

(* What a record's phase says of its generation. *)
PhaseTrue ==
    \A u \in Units : LET g == record[u].gen IN
        /\ record[u].phase = "creating" => g \notin ran /\ ~Starts(g)
        /\ record[u].phase \in {"finished", "retired"} => Over(g)
        /\ record[u].phase = "failed" => NeverRuns(g)

(* A generation that its unit's record no longer names is over, belongs to an earlier
   identity or to the same one, and in that case it never ran. *)
ReplacedIsOver ==
    \A g \in Reserved :
        LET r == record[label[g].unit]
        IN g # r.gen => /\ Over(g) /\ label[g].identity <= r.identity
                        /\ label[g].identity = r.identity => g \notin ran

(* A destroy event that is asked for belongs to a create that never ran. *)
EventsAreFailures == \A g \in events : NeverRuns(g)

(* The operation in progress works on the record as it left it. *)
OpFits ==
    /\ op.what = "create" => record[op.unit].gen = op.gen /\ record[op.unit].phase = "creating"
    /\ op.what = "start" => record[op.unit].gen = op.gen /\ record[op.unit].phase = "starting"
    /\ op.what = "remove" => record[op.unit].gen = op.gen /\ record[op.unit].phase = "finished"
    /\ op.what = "release" => maintenance.active

(* Quiet means that everything is over and nothing may be reserved. *)
QuietIsOver == quiet => ~Admission /\ \A g \in Gens : Over(g)

LaunchesHeld ==
    /\ TypeOK
    /\ ReservedInOrder /\ UnreservedUntouched /\ CreateComesFirst /\ RunsAreRecorded
    /\ RecordNamesLaunch /\ PhaseTrue /\ ReplacedIsOver /\ EventsAreFailures
    /\ OpFits
    /\ IdentityRunsOnce

(* The launches as far as files, containers and requests tell. *)
launches == <<record, turn, engine, label, wire, events, aged, ran>>

(* No launch has been reserved at first. *)
LEMMA InitLaunches == Init => LaunchesHeld
  <1> SUFFICES ASSUME Init PROVE LaunchesHeld
    OBVIOUS
  <1>1. TypeOK
    <2>1. admission \in BOOLEAN /\ quiet \in BOOLEAN /\ maintenance \in [active: BOOLEAN, owner: Tokens \cup {Nobody}]
      BY Zenon DEF Init
    <2>2. task \in [Workers -> [cancelling: BOOLEAN, started: BOOLEAN]]
      BY DEF Init
    <2>3. record \in [Units -> RecordRow]
      BY DEF Init, RecordRow, NoRecord, Phases
    <2>4. label \in [Gens -> [unit: Units \cup {Nobody}, identity: Nat]] /\ engine \in [Gens -> Statuses]
      BY DEF Init, Statuses
    <2> QED
      BY <2>1, <2>2, <2>3, <2>4 DEF Init, TypeOK, Operation, Interruption
  <1>2. Reserved = {}
    BY DEF Init, Reserved
  <1>3. ReservedInOrder
    <2>1. NextGen = 1
      BY <1>2, FS_EmptySet DEF NextGen, Reserved
    <2> QED
      BY <1>2, <2>1 DEF ReservedInOrder
  <1> QED
    BY <1>1, <1>2, <1>3
    DEF Init, LaunchesHeld, UnreservedUntouched, CreateComesFirst, RunsAreRecorded, RecordNamesLaunch, PhaseTrue,
        ReplacedIsOver, EventsAreFailures, OpFits, IdentityRunsOnce, Creates, Starts, Idle, NoRecord, NoGen, Gens, Settled

(* An operation that only begins or ends: no launch is touched. *)
LEMMA SameLaunches ==
    ASSUME LaunchesHeld, TypeOK', OpFits', UNCHANGED launches
    PROVE  LaunchesHeld'
  BY DEF launches, LaunchesHeld, ReservedInOrder, UnreservedUntouched, CreateComesFirst, RunsAreRecorded,
         RecordNamesLaunch, PhaseTrue, ReplacedIsOver, EventsAreFailures, IdentityRunsOnce,
         Creates, Starts, Reserved, NextGen, Over, NeverRuns

(* The fence, the database and the end of an operation. *)
FenceStep ==
    \/ \E open \in BOOLEAN : SetAdmission(open)
    \/ \E t \in Tokens : \/ MaintenanceAcquire(t) \/ SubmissionBegin(t) \/ SubmissionEnd(t)
                         \/ \E open \in BOOLEAN : MaintenanceRelease(t, open)
    \/ MaintenanceAcquireFlag \/ MaintenanceReleaseRecord
    \/ InterruptWorkers \/ Crash \/ CreateUnsettled \/ RemoveFailed
    \/ \E u \in Units : JournalSettled(u) \/ CancelTask(u) \/ WorkerBegins(u)

(* The fence and the maintenance lease leave every launch alone. *)
LEMMA FenceKeeps ==
    ASSUME LaunchesHeld, FenceStep
    PROVE  LaunchesHeld'
  <1> USE DEF LaunchesHeld
  <1>1. UNCHANGED launches
    BY DEF FenceStep, SetAdmission, MaintenanceAcquire, SubmissionBegin, SubmissionEnd, MaintenanceRelease,
           MaintenanceAcquireFlag, MaintenanceReleaseRecord, InterruptWorkers, Crash, CreateUnsettled,
           RemoveFailed, JournalSettled, CancelTask, WorkerBegins, launches, dbVars, engineVars, fenceVars
  <1>2. maintenance' \in [active: BOOLEAN, owner: Tokens \cup {Nobody}] /\ submissions' \subseteq Tokens
    <2>1. \/ maintenance' = maintenance
          \/ \E t \in Tokens : maintenance' = [active |-> TRUE, owner |-> t]
          \/ maintenance' = [maintenance EXCEPT !.active = FALSE]
      BY DEF FenceStep, SetAdmission, MaintenanceAcquire, SubmissionBegin, SubmissionEnd, MaintenanceRelease,
           MaintenanceAcquireFlag, MaintenanceReleaseRecord, InterruptWorkers, Crash, CreateUnsettled,
           RemoveFailed, JournalSettled, CancelTask, WorkerBegins, fenceVars
    <2>2. submissions' = submissions \/ \E t \in Tokens : submissions' \in {submissions \cup {t}, submissions \ {t}}
      BY DEF FenceStep, SetAdmission, MaintenanceAcquire, SubmissionBegin, SubmissionEnd, MaintenanceRelease,
           MaintenanceAcquireFlag, MaintenanceReleaseRecord, InterruptWorkers, Crash, CreateUnsettled,
           RemoveFailed, JournalSettled, CancelTask, WorkerBegins, fenceVars
    <2>3. ASSUME NEW t \in Tokens, maintenance' = [active |-> TRUE, owner |-> t]
          PROVE  maintenance' \in [active: BOOLEAN, owner: Tokens \cup {Nobody}]
      BY <2>3
    <2>4. ASSUME maintenance' = [maintenance EXCEPT !.active = FALSE]
          PROVE  maintenance' \in [active: BOOLEAN, owner: Tokens \cup {Nobody}]
      BY <2>4 DEF TypeOK
    <2>5. submissions' \subseteq Tokens
      BY <2>2 DEF TypeOK
    <2> QED
      BY <2>1, <2>3, <2>4, <2>5 DEF TypeOK
  <1>3. admission' \in BOOLEAN /\ quiet' \in BOOLEAN
    BY Zenon DEF FenceStep, SetAdmission, MaintenanceAcquire, SubmissionBegin, SubmissionEnd, MaintenanceRelease,
           MaintenanceAcquireFlag, MaintenanceReleaseRecord, InterruptWorkers, Crash, CreateUnsettled,
           RemoveFailed, JournalSettled, CancelTask, WorkerBegins, fenceVars, TypeOK
  <1>4. task' \in [Workers -> [cancelling: BOOLEAN, started: BOOLEAN]] /\ journal' \subseteq Accepts
    <2>1. \/ task' = task
          \/ \E u \in Workers : task' = [task EXCEPT ![u].cancelling = TRUE]
          \/ \E u \in Workers : task' = [task EXCEPT ![u].started = TRUE]
      BY DEF FenceStep, SetAdmission, MaintenanceAcquire, SubmissionBegin, SubmissionEnd, MaintenanceRelease,
           MaintenanceAcquireFlag, MaintenanceReleaseRecord, InterruptWorkers, Crash, CreateUnsettled,
           RemoveFailed, JournalSettled, CancelTask, WorkerBegins, fenceVars, dbVars
    <2>2. journal' = journal \/ \E u \in Units : journal' = journal \ {u}
      BY DEF FenceStep, SetAdmission, MaintenanceAcquire, SubmissionBegin, SubmissionEnd, MaintenanceRelease,
           MaintenanceAcquireFlag, MaintenanceReleaseRecord, InterruptWorkers, Crash, CreateUnsettled,
           RemoveFailed, JournalSettled, CancelTask, WorkerBegins, fenceVars, dbVars
    <2> QED
      BY <2>1, <2>2 DEF TypeOK
  <1>5. /\ op' = op \/ op' \in {Idle, [what |-> "acquire"], [what |-> "release"]}
        /\ sweep' = sweep \/ sweep' \in {Idle, [what |-> "fenced"]}
    BY DEF FenceStep, SetAdmission, MaintenanceAcquire, SubmissionBegin, SubmissionEnd, MaintenanceRelease,
           MaintenanceAcquireFlag, MaintenanceReleaseRecord, InterruptWorkers, Crash, CreateUnsettled,
           RemoveFailed, JournalSettled, CancelTask, WorkerBegins
  <1>6. TypeOK'
    BY <1>1, <1>2, <1>3, <1>4, <1>5 DEF TypeOK, launches, Operation, Interruption
  <1>7. op'.what = "release" => maintenance'.active
    <2>1. CASE \E t \in Tokens, open \in BOOLEAN : MaintenanceRelease(t, open)
      BY <2>1 DEF MaintenanceRelease
    <2>2. CASE op' = op /\ maintenance' = maintenance
      BY <2>2 DEF OpFits
    <2>3. CASE op'.what # "release"
      BY <2>3
    <2> QED
      BY <2>1, <2>2, <2>3
      DEF FenceStep, SetAdmission, MaintenanceAcquire, SubmissionBegin, SubmissionEnd,
           MaintenanceAcquireFlag, MaintenanceReleaseRecord, InterruptWorkers, Crash, CreateUnsettled,
           RemoveFailed, JournalSettled, CancelTask, WorkerBegins, fenceVars, Idle
  <1>8. OpFits'
    BY <1>1, <1>5, <1>7 DEF OpFits, launches, Idle
  <1> QED
    BY <1>1, <1>6, <1>8, SameLaunches

(* A new identity leaves the records behind it. *)
LEMMA NextIdentityKeeps ==
    ASSUME LaunchesHeld, NEW u \in Units, NextIdentity(u)
    PROVE  LaunchesHeld'
  <1> USE DEF LaunchesHeld
  <1>1. turn' = [turn EXCEPT ![u] = @ + 1] /\ UNCHANGED <<fenceVars, record, task, engineVars, label, op, sweep, quiet>>
    BY DEF NextIdentity
  <1>2. turn' \in [Units -> Nat] /\ \A v \in Units : turn[v] <= turn'[v]
    BY <1>1 DEF TypeOK
  <1>3. journal' \subseteq Accepts
    BY DEF NextIdentity, TypeOK
  <1>4. TypeOK'
    BY <1>1, <1>2, <1>3 DEF TypeOK, fenceVars, engineVars
  <1>5. RecordNamesLaunch'
    <2>1. ASSUME NEW v \in Units PROVE record'[v].identity <= turn'[v]
      <3>1. record[v].identity <= turn[v] /\ turn[v] <= turn'[v] /\ turn'[v] \in Nat
        BY <1>2 DEF RecordNamesLaunch
      <3>2. record'[v] = record[v] /\ record[v].identity \in Nat /\ turn[v] \in Nat
        BY <1>1 DEF TypeOK, RecordRow
      <3> QED
        BY <3>1, <3>2
    <2> QED
      BY <1>1, <2>1 DEF RecordNamesLaunch, Reserved
  <1> QED
    BY <1>1, <1>4, <1>5
    DEF fenceVars, engineVars, ReservedInOrder, UnreservedUntouched, CreateComesFirst, RunsAreRecorded,
        PhaseTrue, ReplacedIsOver, EventsAreFailures, IdentityRunsOnce, OpFits,
        Creates, Starts, Reserved, NextGen, Over, NeverRuns

--------------------------------------------------------------------------------
(* Observation.                                                            *)

(* Each record is as it was, or as an inspection of its container leaves it. *)
Inspected ==
    /\ record' \in [Units -> RecordRow]
    /\ \A u \in Units : record'[u] = record[u] \/ (HasContainer(u) /\ record'[u] = Observe(u))

(* What an inspection makes of a record, field by field. *)
LEMMA ObserveTyped ==
    ASSUME TypeOK, NEW u \in Units, HasContainer(u)
    PROVE  /\ Observe(u) \in RecordRow
           /\ Observe(u).gen = record[u].gen /\ Observe(u).identity = record[u].identity
           /\ Observe(u).phase = IF engine[record[u].gen] = "exited" THEN "finished" ELSE record[u].phase
           /\ Observe(u).evidence = Kind(engine[record[u].gen])
  <1>1. Kind(engine[record[u].gen]) \in {"active", "ended", "unknown"}
    BY DEF Kind
  <1>2. Kind(engine[record[u].gen]) = "ended" <=> engine[record[u].gen] = "exited"
    BY DEF Kind
  <1> QED
    BY <1>1, <1>2 DEF Observe, TypeOK, RecordRow, Phases, Settled

(* So does a look that finds no container. *)
LEMMA SeenTyped ==
    ASSUME TypeOK, NEW u \in Units
    PROVE  /\ Seen(u) \in RecordRow
           /\ [record EXCEPT ![u] = Seen(u)] \in [Units -> RecordRow]
           /\ [record EXCEPT ![u] = Observe(u)] = [v \in Units |-> IF v = u THEN Observe(u) ELSE record[v]]
  BY ObserveTyped DEF Seen, TypeOK

(* A step that only inspects, and may ask for a removal, keeps the invariant. *)
LEMMA InspectionKeeps ==
    ASSUME LaunchesHeld, Inspected, TypeOK', OpFits', UNCHANGED <<turn, engine, label, events, aged, ran>>,
           wire' = wire \/ \E u \in Units : HasContainer(u) /\ wire' = wire \cup {[what |-> "remove", gen |-> record[u].gen]}
    PROVE  LaunchesHeld'
  <1> USE DEF LaunchesHeld
  <1>1. \A g \in Gens : (Creates(g)' <=> Creates(g)) /\ (Starts(g)' <=> Starts(g))
    BY DEF Creates, Starts
  <1>2. \A u \in Units : /\ record'[u].gen = record[u].gen /\ record'[u].identity = record[u].identity
                         /\ \/ record'[u].phase = record[u].phase
                            \/ record'[u].phase = "finished" /\ HasContainer(u) /\ engine[record[u].gen] = "exited"
    BY ObserveTyped DEF Inspected
  <1>3. Reserved' = Reserved /\ NextGen' = NextGen
    BY DEF Reserved, NextGen
  <1>4. \A g \in Gens : (Over(g)' <=> Over(g)) /\ (NeverRuns(g)' <=> NeverRuns(g))
    BY <1>1 DEF Over, NeverRuns
  <1>5. \A u \in Units : HasContainer(u) => record[u].gen \in Gens
    BY DEF HasContainer, TypeOK, RecordRow
  <1>6. \A u \in Units : record[u].phase # "none" => record[u].gen \in Gens
    BY DEF RecordNamesLaunch, TypeOK, RecordRow
  <1>7. ReservedInOrder'
    BY <1>3 DEF ReservedInOrder
  <1>8. UnreservedUntouched'
    <2>1. \A u \in Units : HasContainer(u) => record[u].gen \in Reserved
      BY DEF RecordNamesLaunch, HasContainer
    <2> QED
      BY <1>3, <2>1 DEF UnreservedUntouched
  <1>9. CreateComesFirst' /\ RunsAreRecorded' /\ EventsAreFailures' /\ IdentityRunsOnce'
    BY <1>1, <1>4 DEF CreateComesFirst, RunsAreRecorded, EventsAreFailures, IdentityRunsOnce, TypeOK
  <1>10. RecordNamesLaunch'
    BY <1>2, <1>3, <1>5 DEF RecordNamesLaunch, HasContainer, NoGen
  <1>11. PhaseTrue'
    <2> SUFFICES ASSUME NEW u \in Units
                 PROVE  /\ record'[u].phase = "creating" => record[u].gen \notin ran /\ ~Starts(record[u].gen)
                        /\ record'[u].phase \in {"finished", "retired"} => Over(record[u].gen)
                        /\ record'[u].phase = "failed" => NeverRuns(record[u].gen)
      <3>1. \A u \in Units : record'[u].phase # "none" => record[u].gen \in Gens
        BY <1>2, <1>5, <1>6
      <3> QED
        BY <1>1, <1>2, <1>4, <3>1 DEF PhaseTrue
    <2>1. CASE record'[u].phase = record[u].phase
      BY <1>1, <1>4, <1>6, <2>1 DEF PhaseTrue
    <2>2. CASE record'[u].phase = "finished" /\ HasContainer(u) /\ engine[record[u].gen] = "exited"
      BY <1>4, <1>5, <2>2 DEF CreateComesFirst, Over
    <2> QED
      BY <1>2, <2>1, <2>2
  <1>12. ReplacedIsOver'
    <2>1. \A g \in Reserved : g \in Gens /\ label[g].unit \in Units
      BY DEF Reserved, TypeOK
    <2> QED
      BY <1>2, <1>3, <1>4, <2>1 DEF ReplacedIsOver
  <1> QED
    BY <1>7, <1>8, <1>9, <1>10, <1>11, <1>12

(* A controller between operations has nothing in hand. *)
LEMMA IdleFits == op' = Idle => OpFits'
  BY DEF OpFits, Idle

(* systemctl show of a unit is an inspection. *)
LEMMA ShowKeeps ==
    ASSUME LaunchesHeld, NEW u \in Units, Show(u)
    PROVE  LaunchesHeld'
  <1> USE DEF LaunchesHeld
  <1>1. record' \in [Units -> RecordRow] /\ Inspected
    BY ObserveTyped, SeenTyped DEF Show, Inspected, TypeOK
  <1>2. TypeOK'
    BY <1>1 DEF Show, TypeOK, fenceVars, dbVars, engineVars
  <1>3. OpFits'
    BY IdleFits DEF Show, LockFree
  <1> QED
    BY <1>1, <1>2, <1>3, InspectionKeeps DEF Show, dbVars, engineVars

(* The observations of status, and of the two ends of an interruption. *)
LEMMA ObservedKeeps ==
    ASSUME LaunchesHeld, Status \/ InterruptSnapshot \/ InterruptDone
    PROVE  LaunchesHeld'
  <1> USE DEF LaunchesHeld
  <1>1. /\ op = Idle /\ Observed(Jobs)
        /\ UNCHANGED <<fenceVars, dbVars, engineVars, label, op>>
    BY DEF Status, InterruptSnapshot, InterruptDone, LockFree
  <1>2. record' \in [Units -> RecordRow] /\ Inspected
    BY <1>1, SeenTyped DEF Observed, Inspected, Seen, TypeOK
  <1>3. sweep' \in Interruption
    BY DEF Status, InterruptSnapshot, InterruptDone, Interruption, TypeOK, Jobs
  <1>4. quiet' \in BOOLEAN
    BY <1>1 DEF Observed
  <1>5. TypeOK'
    BY <1>1, <1>2, <1>3, <1>4 DEF TypeOK, fenceVars, dbVars, engineVars
  <1>6. OpFits'
    BY <1>1, IdleFits
  <1> QED
    BY <1>1, <1>2, <1>5, <1>6, InspectionKeeps DEF dbVars, engineVars

(* A start whose answer was lost goes on with what was recorded. *)
LEMMA StartUnsettledKeeps ==
    ASSUME LaunchesHeld, StartUnsettled
    PROVE  LaunchesHeld'
  <1> USE DEF LaunchesHeld
  <1>1. op.unit \in Units
    BY DEF StartUnsettled, TypeOK, Operation, Idle
  <1>2. record' \in [Units -> RecordRow] /\ Inspected
    BY <1>1, SeenTyped DEF StartUnsettled, Inspected, Seen, TypeOK
  <1>3. TypeOK'
    BY <1>2 DEF StartUnsettled, TypeOK, fenceVars, dbVars, engineVars, Operation
  <1>4. OpFits'
    BY IdleFits DEF StartUnsettled
  <1> QED
    BY <1>2, <1>3, <1>4, InspectionKeeps DEF StartUnsettled, dbVars, engineVars

(* A start that is refused leaves what it observed. *)
LEMMA StartRefusedKeeps ==
    ASSUME LaunchesHeld, NEW u \in Units, Start(u), ~MayReserve(Seen(u), turn[u])
    PROVE  LaunchesHeld'
  <1> USE DEF LaunchesHeld
  <1>1. /\ op = Idle /\ record' = [record EXCEPT ![u] = Seen(u)]
        /\ UNCHANGED <<label, wire, op, fenceVars, dbVars, engine, events, aged, ran, sweep, quiet>>
    BY DEF Start, MutationFree
  <1>2. record' \in [Units -> RecordRow] /\ Inspected
    BY <1>1, SeenTyped DEF Inspected, Seen, TypeOK
  <1>3. TypeOK'
    BY <1>1, <1>2 DEF TypeOK, fenceVars, dbVars
  <1>4. OpFits'
    BY <1>1, IdleFits
  <1> QED
    BY <1>1, <1>2, <1>3, <1>4, InspectionKeeps DEF dbVars

(* reset_failed with a container: the exit is recorded before its removal is asked for. *)
LEMMA ResetFailedObserves ==
    ASSUME LaunchesHeld, NEW u \in Units, ResetFailed(u), HasContainer(u)
    PROVE  LaunchesHeld'
  <1> USE DEF LaunchesHeld
  <1> DEFINE g == record[u].gen
  <1>1. g \in Gens
    BY DEF HasContainer, TypeOK, RecordRow
  <1>2. /\ op = Idle /\ record' = [record EXCEPT ![u] = Observe(u)]
        /\ UNCHANGED <<fenceVars, dbVars, engine, events, aged, ran, label, sweep, quiet>>
    BY DEF ResetFailed, LockFree
  <1>3. record' \in [Units -> RecordRow] /\ Inspected
    BY <1>2, ObserveTyped, SeenTyped DEF Inspected, TypeOK
  <1>4. CASE Observe(u).evidence = "ended"
    <2>1. /\ wire' = wire \cup {[what |-> "remove", gen |-> g]}
          /\ op' = [what |-> "remove", unit |-> u, gen |-> g]
      BY <1>4 DEF ResetFailed
    <2>2. TypeOK'
      BY <1>1, <1>2, <1>3, <2>1 DEF TypeOK, fenceVars, dbVars, Operation, Requests
    <2>3. engine[g] = "exited" /\ record'[u] = Observe(u)
      BY <1>2, <1>4, ObserveTyped DEF TypeOK, Kind
    <2>4. OpFits'
      BY <2>1, <2>3, ObserveTyped DEF OpFits
    <2> QED
      BY <1>2, <1>3, <2>1, <2>2, <2>4, InspectionKeeps DEF dbVars
  <1>5. CASE Observe(u).evidence # "ended"
    <2>1. UNCHANGED <<wire, op>>
      BY <1>5 DEF ResetFailed
    <2>2. TypeOK'
      BY <1>2, <1>3, <2>1 DEF TypeOK, fenceVars, dbVars
    <2>3. OpFits'
      BY <1>2, <2>1, IdleFits
    <2> QED
      BY <1>2, <1>3, <2>1, <2>2, <2>3, InspectionKeeps DEF dbVars
  <1> QED
    BY <1>4, <1>5

--------------------------------------------------------------------------------
(* Steps that move one record's phase.                                     *)

(* The generation that a record names carries its label. *)
LEMMA RecordLabelled ==
    ASSUME TypeOK, RecordNamesLaunch, NEW u \in Units, record[u].gen # NoGen
    PROVE  /\ record[u].gen \in Gens /\ record[u].gen \in Reserved
           /\ label[record[u].gen].unit = u /\ label[record[u].gen].identity = record[u].identity
  <1>1. record[u].gen \in Reserved /\ label[record[u].gen] = [unit |-> u, identity |-> record[u].identity]
    BY DEF RecordNamesLaunch
  <1> QED
    BY <1>1 DEF Reserved

(* The phase of one record moves to where it tells the truth. *)
LEMMA PhaseMoveKeeps ==
    ASSUME LaunchesHeld, TypeOK', OpFits', NEW u \in Units, NEW phase \in Phases \ {"none", "creating"},
           record[u].gen # NoGen,
           record' = [record EXCEPT ![u].phase = phase],
           UNCHANGED <<turn, engine, label, events, aged, ran>>,
           \/ wire' = wire
           \/ wire' = wire \ {[what |-> "create", gen |-> record[u].gen]}
           \/ /\ wire' = wire \cup {[what |-> "start", gen |-> record[u].gen]}
              /\ ~Creates(record[u].gen) /\ phase = "starting",
           phase \in {"finished", "retired"} => Over(record[u].gen)',
           phase = "failed" => NeverRuns(record[u].gen)'
    PROVE  LaunchesHeld'
  <1> USE DEF LaunchesHeld
  <1>1. \A v \in Units : /\ record'[v].gen = record[v].gen /\ record'[v].identity = record[v].identity
                         /\ record'[v].phase = IF v = u THEN phase ELSE record[v].phase
    BY DEF TypeOK, RecordRow
  <1>2. Reserved' = Reserved /\ NextGen' = NextGen
    BY DEF Reserved, NextGen
  <1>3. record[u].gen \in Gens /\ record[u].gen \in Reserved /\ label[record[u].gen].unit = u
    BY RecordLabelled
  <1>4. \A g \in Gens : /\ Creates(g)' => Creates(g)
                        /\ Over(g) => Over(g)' 
                        /\ NeverRuns(g) => NeverRuns(g)'
                        /\ Starts(g)' => Starts(g) \/ (g = record[u].gen /\ ~Creates(g))
    BY DEF Creates, Starts, Over, NeverRuns
  <1>5. ReservedInOrder'
    BY <1>2 DEF ReservedInOrder
  <1>6. UnreservedUntouched'
    BY <1>2, <1>3 DEF UnreservedUntouched
  <1>7. CreateComesFirst' /\ RunsAreRecorded' /\ EventsAreFailures' /\ IdentityRunsOnce'
    BY <1>4 DEF CreateComesFirst, RunsAreRecorded, EventsAreFailures, IdentityRunsOnce, TypeOK
  <1>8. RecordNamesLaunch'
    BY <1>1, <1>2 DEF RecordNamesLaunch
  <1>9. \A v \in Units : record'[v].phase # "none" => record[v].gen \in Gens
    BY <1>1, <1>3 DEF RecordNamesLaunch, TypeOK, RecordRow
  <1>10. \A v \in Units : v # u /\ record[v].gen # NoGen => record[v].gen # record[u].gen
    BY <1>3, RecordLabelled
  <1>11. PhaseTrue'
    <2> SUFFICES ASSUME NEW v \in Units
                 PROVE  /\ record'[v].phase = "creating" => record[v].gen \notin ran /\ ~Starts(record[v].gen)'
                        /\ record'[v].phase \in {"finished", "retired"} => Over(record[v].gen)'
                        /\ record'[v].phase = "failed" => NeverRuns(record[v].gen)'
      BY <1>1 DEF PhaseTrue
    <2>1. CASE v = u
      BY <1>1, <2>1
    <2>2. CASE v # u /\ record[v].phase = "none"
      BY <1>1, <2>2
    <2>3. CASE v # u /\ record[v].phase # "none"
      BY <1>1, <1>4, <1>9, <1>10, <2>3 DEF PhaseTrue, RecordNamesLaunch
    <2> QED
      BY <2>1, <2>2, <2>3
  <1>12. ReplacedIsOver'
    <2>1. \A g \in Reserved : g \in Gens /\ label[g].unit \in Units
      BY DEF Reserved, TypeOK
    <2> QED
      BY <1>1, <1>2, <1>4, <2>1 DEF ReplacedIsOver
  <1> QED
    BY <1>5, <1>6, <1>7, <1>8, <1>11, <1>12

(* A record of one phase is a row. *)
LEMMA PhaseTyped ==
    ASSUME TypeOK, NEW u \in Units, NEW phase \in Phases
    PROVE  [record EXCEPT ![u].phase = phase] \in [Units -> RecordRow]
  <1>1. [record[u] EXCEPT !.phase = phase] \in RecordRow
    <2>1. record[u] \in RecordRow
      BY DEF TypeOK
    <2> QED
      BY <2>1 DEF RecordRow
  <1> QED
    BY <1>1 DEF TypeOK

(* A launch that is settled is retired once its container is gone. *)
LEMMA RetireKeeps ==
    ASSUME LaunchesHeld, NEW u \in Units, record[u].phase \in Settled,
           record' = [record EXCEPT ![u].phase = IF @ = "failed" THEN @ ELSE "retired"],
           op' = Idle, UNCHANGED <<fenceVars, dbVars, engineVars, label, sweep, quiet>>
    PROVE  LaunchesHeld'
  <1> USE DEF LaunchesHeld
  <1> DEFINE phase == IF record[u].phase = "failed" THEN "failed" ELSE "retired"
  <1>1. phase \in Phases \ {"none", "creating"} /\ record[u].gen # NoGen
    BY DEF Phases, Settled, RecordNamesLaunch
  <1>2. record' = [record EXCEPT ![u].phase = phase]
    BY DEF TypeOK, RecordRow
  <1>3. phase = "retired" => Over(record[u].gen)
    BY DEF PhaseTrue, Settled
  <1>4. phase = "failed" => NeverRuns(record[u].gen)
    BY DEF PhaseTrue
  <1> HIDE DEF phase
  <1>5. TypeOK'
    BY <1>1, <1>2, PhaseTyped DEF TypeOK, fenceVars, dbVars, engineVars, Operation
  <1>6. /\ Over(record[u].gen)' <=> Over(record[u].gen)
        /\ NeverRuns(record[u].gen)' <=> NeverRuns(record[u].gen)
    <2>1. record'[u].gen = record[u].gen
      BY <1>2 DEF TypeOK, RecordRow
    <2> QED
      BY <2>1 DEF Over, NeverRuns, Creates, engineVars
  <1>7. phase # "finished"
    BY DEF phase
  <1> QED
    BY <1>1, <1>2, <1>3, <1>4, <1>5, <1>6, <1>7, IdleFits, PhaseMoveKeeps DEF dbVars, engineVars

(* Resetting a unit without a container only retires its record. *)
LEMMA ResetFailedRetires ==
    ASSUME LaunchesHeld, NEW u \in Units, ResetFailed(u), ~HasContainer(u)
    PROVE  LaunchesHeld'
  <1>1. /\ op = Idle /\ record[u].phase \in Settled
        /\ record' = [record EXCEPT ![u].phase = IF @ = "failed" THEN @ ELSE "retired"]
        /\ UNCHANGED <<wire, op, fenceVars, dbVars, engine, events, aged, ran, label, sweep, quiet>>
    BY DEF ResetFailed, LockFree
  <1> QED
    BY <1>1, RetireKeeps DEF engineVars

(* The removal is recorded for a container that had finished. *)
LEMMA RemovedKeeps ==
    ASSUME LaunchesHeld, Removed
    PROVE  LaunchesHeld'
  <1>1. op.unit \in Units /\ record[op.unit].phase = "finished"
    BY DEF LaunchesHeld, Removed, TypeOK, Operation, Idle, OpFits
  <1> QED
    BY <1>1, RetireKeeps DEF Removed, Settled

(* The engine created the container of the reserved launch. *)
LEMMA CreatedKeeps ==
    ASSUME LaunchesHeld, Created
    PROVE  LaunchesHeld'
  <1> USE DEF LaunchesHeld
  <1> DEFINE u == op.unit
             g == op.gen
  <1>1. u \in Units /\ g \in Gens /\ op = [what |-> "create", unit |-> u, gen |-> g]
    BY DEF Created, TypeOK, Operation, Idle
  <1>2. record[u].gen = g /\ g # NoGen /\ record[u].phase = "creating"
    BY <1>1 DEF Created, OpFits, Gens, NoGen
  <1>3. /\ record' = [record EXCEPT ![u].phase = "starting"]
        /\ wire' = wire \cup {[what |-> "start", gen |-> record[u].gen]} /\ ~Creates(record[u].gen)
        /\ op' = [what |-> "start", unit |-> u, gen |-> g]
        /\ UNCHANGED <<fenceVars, dbVars, engine, events, aged, ran, label, sweep, quiet>>
    BY <1>1, <1>2 DEF Created, Creates
  <1> HIDE DEF u, g
  <1>4. TypeOK'
    <2>1. record' \in [Units -> RecordRow]
      BY <1>1, <1>3, PhaseTyped DEF Phases
    <2>2. wire' \subseteq Requests /\ op' \in Operation
      BY <1>1, <1>2, <1>3 DEF TypeOK, Operation, Requests
    <2> QED
      BY <1>3, <2>1, <2>2 DEF TypeOK, fenceVars, dbVars
  <1>5. record'[u].phase = "starting" /\ record'[u].gen = g
    BY <1>1, <1>2, <1>3 DEF TypeOK, RecordRow
  <1>6. OpFits'
    BY <1>3, <1>5 DEF OpFits
  <1>7. "starting" \in Phases \ {"none", "creating"} /\ UNCHANGED <<turn, engine, label, events, aged, ran>>
    BY <1>3 DEF Phases, Settled, dbVars
  <1> QED
    BY <1>1, <1>2, <1>3, <1>4, <1>6, <1>7, PhaseMoveKeeps

(* The engine refused the create; the launch fails before it ran. *)
LEMMA CreateRejectedKeeps ==
    ASSUME LaunchesHeld, CreateRejected
    PROVE  LaunchesHeld'
  <1> USE DEF LaunchesHeld
  <1>0. op.unit \in Units /\ op.gen \in Gens
    BY DEF CreateRejected, TypeOK, Operation, Idle
  <1>1. PICK u \in Units : u = op.unit
    BY <1>0
  <1>2. record[u].gen = op.gen /\ op.gen # NoGen
    BY <1>0, <1>1 DEF CreateRejected, OpFits, Gens, NoGen
  <1>3. /\ record' = [record EXCEPT ![u].phase = "failed"]
        /\ wire' = wire \ {[what |-> "create", gen |-> record[u].gen]} /\ Creates(record[u].gen)
        /\ op' = Idle
        /\ UNCHANGED <<fenceVars, dbVars, engine, events, aged, ran, label, sweep, quiet>>
    BY <1>1, <1>2 DEF CreateRejected, Creates
  <1>4. TypeOK'
    BY <1>1, <1>3, PhaseTyped DEF TypeOK, fenceVars, dbVars, Operation, Phases, Settled
  <1>5. NeverRuns(record[u].gen)'
    <2>1. record'[u].gen = record[u].gen
      BY <1>1, <1>3 DEF TypeOK, RecordRow
    <2> QED
      <3>1. PICK g \in Gens : g = record[u].gen
        BY <1>0, <1>2
      <3>2. engine[g] = "absent" /\ g \notin ran
        BY <1>3, <3>1 DEF CreateComesFirst
      <3>3. ~Creates(g)'
        BY <1>3, <3>1 DEF Creates
      <3> QED
        BY <1>3, <2>1, <3>1, <3>2, <3>3 DEF NeverRuns, Creates
  <1>6. "failed" \in Phases \ {"none", "creating"} /\ UNCHANGED <<turn, engine, label, events, aged, ran>>
    BY <1>3 DEF Phases, Settled, dbVars
  <1>7. u \in Units /\ record[u].gen # NoGen
    BY <1>1, <1>2
  <1> QED
    BY <1>3, <1>4, <1>5, <1>6, <1>7, IdleFits, PhaseMoveKeeps

(* The engine's answer to the start of the container in hand. *)
LEMMA StartedKeeps ==
    ASSUME LaunchesHeld, Started
    PROVE  LaunchesHeld'
  <1> USE DEF LaunchesHeld
  <1> DEFINE u == op.unit
  <1>1. u \in Units /\ op.gen \in Gens
    BY DEF Started, TypeOK, Operation, Idle
  <1>2. record[u].gen # NoGen
    BY <1>1 DEF Started, OpFits, Gens, NoGen
  <1>3. /\ record' = [record EXCEPT ![u].phase = "started"] /\ op' = Idle
        /\ UNCHANGED <<fenceVars, dbVars, engineVars, label, sweep, quiet>>
    BY DEF Started
  <1> HIDE DEF u
  <1>4. TypeOK'
    BY <1>1, <1>3, PhaseTyped DEF TypeOK, fenceVars, dbVars, engineVars, Operation, Phases
  <1>5. "started" \in Phases \ {"none", "creating"} /\ UNCHANGED <<turn, engine, label, wire, events, aged, ran>>
    BY <1>3 DEF Phases, Settled, dbVars, engineVars
  <1> QED
    BY <1>1, <1>2, <1>3, <1>4, <1>5, IdleFits, PhaseMoveKeeps

(* Either administrative recovery fails a launch only on proof that it never ran. *)
LEMMA RecoverKeeps ==
    ASSUME LaunchesHeld, NEW u \in Units, RecoverFailedCreate(u) \/ RecoverAbsentLaunch(u)
    PROVE  LaunchesHeld'
  <1> USE DEF LaunchesHeld
  <1>1. /\ op = Idle /\ admission' = FALSE
        /\ UNCHANGED <<maintenance, submissions, dbVars, engineVars, label, op, sweep, quiet>>
    BY DEF RecoverFailedCreate, RecoverAbsentLaunch, Recover, MutationFree
  <1>2. CASE record' = record
    <2>1. TypeOK'
      BY <1>1, <1>2 DEF TypeOK, dbVars, engineVars
    <2> QED
      BY <1>1, <1>2, <2>1, IdleFits, SameLaunches DEF launches, dbVars, engineVars
  <1>3. CASE record' = [record EXCEPT ![u].phase = "failed"] /\ (DestroyProven(u) \/ AbsentProven(u))
    <2>1. record[u].phase = "creating" /\ record[u].gen # NoGen /\ record[u].gen \in Gens
      BY <1>3, RecordLabelled DEF DestroyProven, AbsentProven, RecordNamesLaunch
    <2>2. NeverRuns(record[u].gen)
      <3>1. CASE DestroyProven(u)
        BY <3>1 DEF DestroyProven, EventsAreFailures
      <3>2. CASE AbsentProven(u)
        BY <2>1, <3>2, RecordLabelled DEF AbsentProven, PhaseTrue, CreateComesFirst, NeverRuns
      <3> QED
        BY <1>3, <3>1, <3>2
    <2>3. TypeOK'
      BY <1>1, <1>3, PhaseTyped DEF TypeOK, dbVars, engineVars, Phases, Settled
    <2>4. NeverRuns(record[u].gen)'
      <3>1. record'[u].gen = record[u].gen
        BY <1>3 DEF TypeOK, RecordRow
      <3> QED
        BY <1>1, <2>2, <3>1 DEF NeverRuns, Creates, engineVars
    <2> QED
      BY <1>1, <1>3, <2>1, <2>3, <2>4, IdleFits, PhaseMoveKeeps DEF dbVars, engineVars, Phases, Settled
  <1> QED
    BY <1>2, <1>3 DEF RecoverFailedCreate, RecoverAbsentLaunch, Recover

--------------------------------------------------------------------------------
(* Containers stop.                                                        *)

(* Running containers exit, and a record may say so. *)
LEMMA StopKeeps ==
    ASSUME LaunchesHeld, TypeOK', OpFits',
           \A g \in Gens : engine'[g] = engine[g] \/ (engine[g] = "running" /\ engine'[g] = "exited"),
           \A u \in Units : /\ record'[u].gen = record[u].gen /\ record'[u].identity = record[u].identity
                            /\ \/ record'[u].phase = record[u].phase
                               \/ /\ record'[u].phase = "finished" /\ record[u].gen \in Gens
                                  /\ engine'[record[u].gen] = "exited",
           UNCHANGED <<turn, label, wire, events, aged, ran>>
    PROVE  LaunchesHeld'
  <1> USE DEF LaunchesHeld
  <1>1. \A g \in Gens : (Creates(g)' <=> Creates(g)) /\ (Starts(g)' <=> Starts(g))
    BY DEF Creates, Starts
  <1>2. \A g \in Gens : (Over(g) => Over(g)') /\ (NeverRuns(g) => NeverRuns(g)')
    BY <1>1 DEF Over, NeverRuns
  <1>3. \A g \in Gens : Creates(g) => engine'[g] = "absent"
    BY DEF CreateComesFirst
  <1>4. \A u \in Units : record'[u].phase # "none" => record[u].gen \in Gens /\ record[u].phase # "none"
    <2>1. NoGen \notin Gens
      BY DEF NoGen, Gens
    <2>2. \A u \in Units : record[u].gen = NoGen <=> record[u].phase = "none"
      BY DEF RecordNamesLaunch
    <2> QED
      BY <2>1, <2>2, RecordLabelled
  <1>5. Reserved' = Reserved /\ NextGen' = NextGen
    BY DEF Reserved, NextGen
  <1>6. ReservedInOrder' /\ UnreservedUntouched'
    BY <1>5 DEF ReservedInOrder, UnreservedUntouched
  <1>7. CreateComesFirst' /\ RunsAreRecorded' /\ EventsAreFailures' /\ IdentityRunsOnce'
    BY <1>1, <1>2, <1>3 DEF CreateComesFirst, RunsAreRecorded, EventsAreFailures, IdentityRunsOnce, TypeOK
  <1>8. RecordNamesLaunch'
    BY <1>4, <1>5 DEF RecordNamesLaunch, NoGen
  <1>9. PhaseTrue'
    <2> SUFFICES ASSUME NEW u \in Units
                 PROVE  /\ record'[u].phase = "creating" => record[u].gen \notin ran /\ ~Starts(record[u].gen)
                        /\ record'[u].phase \in {"finished", "retired"} => Over(record[u].gen)'
                        /\ record'[u].phase = "failed" => NeverRuns(record[u].gen)'
      BY <1>1, <1>4 DEF PhaseTrue
    <2>1. CASE record'[u].phase = record[u].phase
      <3>1. PICK g : g = record[u].gen
        OBVIOUS
      <3>2. /\ record[u].phase = "creating" => g \notin ran /\ ~Starts(g)
            /\ record[u].phase \in {"finished", "retired"} => Over(g)
            /\ record[u].phase = "failed" => NeverRuns(g)
        BY <3>1 DEF PhaseTrue
      <3>3. record[u].phase \in {"finished", "retired", "failed"} => g \in Gens
        BY <1>4, <2>1, <3>1
      <3>4. record'[u].gen = g
        BY <3>1
      <3>5. record[u].phase \in {"finished", "retired"} => Over(g)'
        BY <1>2, <3>2, <3>3
      <3>6. record[u].phase = "failed" => NeverRuns(g)'
        BY <1>2, <3>2, <3>3
      <3> QED
        BY <2>1, <3>1, <3>2, <3>4, <3>5, <3>6
    <2>2. CASE record'[u].phase = "finished" /\ record[u].gen \in Gens /\ engine'[record[u].gen] = "exited"
      <3>1. PICK g \in Gens : g = record[u].gen
        BY <2>2
      <3>2. Over(g)' /\ record'[u].gen = g
        BY <1>1, <1>3, <2>2, <3>1 DEF Over
      <3> QED
        BY <2>2, <3>1, <3>2
    <2> QED
      BY <2>1, <2>2
  <1>10. ReplacedIsOver'
    <2>1. \A g \in Reserved : g \in Gens /\ label[g].unit \in Units
      BY DEF Reserved, TypeOK
    <2> QED
      BY <1>2, <1>5, <2>1 DEF ReplacedIsOver
  <1> QED
    BY <1>6, <1>7, <1>8, <1>9, <1>10

(* A container that exits is not started again. *)
LEMMA ExitKeeps ==
    ASSUME LaunchesHeld, NEW g \in Gens, Exit(g)
    PROVE  LaunchesHeld'
  <1> USE DEF LaunchesHeld
  <1>1. engine' = [engine EXCEPT ![g] = "exited"] /\ engine[g] = "running"
        /\ UNCHANGED <<fenceVars, record, dbVars, wire, events, aged, ran, label, op, sweep, quiet>>
    BY DEF Exit
  <1>2. engine' \in [Gens -> Statuses]
    BY <1>1 DEF TypeOK, Statuses
  <1>3. TypeOK'
    BY <1>1, <1>2 DEF TypeOK, fenceVars, dbVars
  <1>4. OpFits'
    BY <1>1 DEF OpFits, fenceVars
  <1>5. \A h \in Gens : engine'[h] = engine[h] \/ (engine[h] = "running" /\ engine'[h] = "exited")
    BY <1>1 DEF TypeOK
  <1> QED
    BY <1>1, <1>3, <1>4, <1>5, StopKeeps DEF dbVars

(* A stop of the unit's container, inspected afterwards. *)
LEMMA SignalStops ==
    ASSUME TypeOK, NEW u \in Units, Signal(u)
    PROVE  /\ engine' \in [Gens -> Statuses] /\ record' \in [Units -> RecordRow]
           /\ \A g \in Gens : engine'[g] = engine[g] \/ (engine[g] = "running" /\ engine'[g] = "exited")
           /\ \A v \in Units : /\ record'[v].gen = record[v].gen /\ record'[v].identity = record[v].identity
                               /\ \/ record'[v].phase = record[v].phase
                                  \/ /\ record'[v].phase = "finished" /\ record[v].gen \in Gens
                                     /\ engine'[record[v].gen] = "exited"
  <1> DEFINE g == record[u].gen
             kind == Kind(engine'[g])
             phase == IF engine'[g] = "exited" THEN "finished" ELSE record[u].phase
             row == [record[u] EXCEPT !.evidence = kind, !.phase = IF engine'[g] = "exited" THEN "finished" ELSE @]
  <1>1. g \in Gens
    BY DEF Signal, HasContainer, TypeOK, RecordRow
  <1>2. engine' = [engine EXCEPT ![g] = IF @ = "running" THEN "exited" ELSE @]
    BY DEF Signal
  <1>3. /\ engine' \in [Gens -> Statuses]
        /\ \A h \in Gens : engine'[h] = engine[h] \/ (engine[h] = "running" /\ engine'[h] = "exited")
    BY <1>1, <1>2 DEF TypeOK, Statuses
  <1>4. kind \in {"active", "ended", "unknown"} /\ phase \in Phases
    BY DEF Kind, TypeOK, RecordRow, Phases, Settled
  <1>5. record' = [record EXCEPT ![u] = row]
    BY DEF Signal
  <1>6. phase = record[u].phase \/ (phase = "finished" /\ engine'[g] = "exited")
    OBVIOUS
  <1>7. /\ row \in RecordRow /\ row.phase = phase
        /\ row.gen = record[u].gen /\ row.identity = record[u].identity
    <2>1. record[u] \in RecordRow
      BY DEF TypeOK
    <2> HIDE DEF kind
    <2> QED
      BY <1>4, <2>1 DEF RecordRow
  <1> HIDE DEF row, phase
  <1>8. \A v \in Units : record'[v] = IF v = u THEN row ELSE record[v]
    BY <1>5 DEF TypeOK
  <1>9. record' \in [Units -> RecordRow]
    BY <1>5, <1>7 DEF TypeOK
  <1> QED
    BY <1>1, <1>3, <1>6, <1>7, <1>8, <1>9

(* Stopping a unit: its container dies now or at a later inspection. *)
LEMMA SignalKeeps ==
    ASSUME LaunchesHeld, NEW u \in Units, Stop(u) \/ InterruptStop(u)
    PROVE  LaunchesHeld'
  <1> USE DEF LaunchesHeld
  <1>1. op = Idle /\ UNCHANGED <<fenceVars, dbVars, wire, events, aged, ran, label, op, quiet>>
    BY DEF Stop, InterruptStop, LockFree
  <1>2. sweep' \in Interruption
    BY DEF Stop, InterruptStop, TypeOK, Interruption, Idle
  <1>3. CASE Signal(u)
    <2>1. TypeOK'
      BY <1>1, <1>2, <1>3, SignalStops DEF TypeOK, fenceVars, dbVars
    <2> QED
      BY <1>1, <1>3, <2>1, SignalStops, IdleFits, StopKeeps DEF dbVars
  <1>4. CASE UNCHANGED <<engine, record>>
    <2>1. TypeOK'
      BY <1>1, <1>2, <1>4 DEF TypeOK, fenceVars, dbVars
    <2> QED
      BY <1>1, <1>4, <2>1, IdleFits, SameLaunches DEF launches, dbVars
  <1> QED
    BY <1>3, <1>4 DEF Stop, InterruptStop

--------------------------------------------------------------------------------
(* The Engine and time.                                                    *)

(* A request is lost, an event forgotten, or an hour passes. *)
LEMMA LossKeeps ==
    ASSUME LaunchesHeld, (\E r \in wire : Lose(r)) \/ ForgetEvents \/ \E u \in Units : HourPasses(u)
    PROVE  LaunchesHeld'
  <1> USE DEF LaunchesHeld
  <1>1. UNCHANGED <<fenceVars, record, dbVars, engine, ran, label, op, sweep, quiet>>
    BY DEF Lose, ForgetEvents, HourPasses
  <1>2. /\ wire' \subseteq wire /\ events' \subseteq events
        /\ aged' = aged \/ \E u \in Units : /\ record[u].phase = "creating" /\ ~Creates(record[u].gen)
                                            /\ aged' = aged \cup {record[u].gen}
    BY DEF Lose, ForgetEvents, HourPasses, Creates
  <1>3. aged' \subseteq Reserved \cup aged
    <2>1. \A u \in Units : record[u].phase = "creating" => record[u].gen \in Reserved
      BY RecordLabelled DEF RecordNamesLaunch
    <2> QED
      BY <1>2, <2>1
  <1>4. Reserved \subseteq Gens /\ Reserved' = Reserved /\ NextGen' = NextGen
    BY <1>1 DEF Reserved, NextGen
  <1>5. TypeOK'
    BY <1>1, <1>2, <1>3, <1>4 DEF TypeOK, fenceVars, dbVars
  <1>6. OpFits'
    BY <1>1 DEF OpFits, fenceVars
  <1>7. \A g \in Gens : (Creates(g)' => Creates(g)) /\ (Starts(g)' => Starts(g))
    BY <1>2 DEF Creates, Starts
  <1>8. \A g \in Gens : (Over(g) => Over(g)') /\ (NeverRuns(g) => NeverRuns(g)')
    BY <1>1, <1>7 DEF Over, NeverRuns
  <1>9. ReservedInOrder' /\ RunsAreRecorded' /\ IdentityRunsOnce' /\ RecordNamesLaunch'
    BY <1>1, <1>4 DEF ReservedInOrder, RunsAreRecorded, IdentityRunsOnce, RecordNamesLaunch, dbVars
  <1>10. UnreservedUntouched'
    BY <1>1, <1>2, <1>3, <1>4 DEF UnreservedUntouched
  <1>11. EventsAreFailures'
    BY <1>2, <1>8 DEF EventsAreFailures, TypeOK
  <1>12. CreateComesFirst'
    BY <1>1, <1>2, <1>7 DEF CreateComesFirst
  <1>13. \A u \in Units : record[u].phase # "none" => record[u].gen \in Gens
    BY RecordLabelled DEF RecordNamesLaunch
  <1>14. PhaseTrue'
    BY <1>1, <1>7, <1>8, <1>13 DEF PhaseTrue
  <1>15. ReplacedIsOver'
    BY <1>1, <1>4, <1>8 DEF ReplacedIsOver
  <1> QED
    BY <1>5, <1>6, <1>9, <1>10, <1>11, <1>12, <1>14, <1>15

(* A container disappears; its event is kept while its create is unsettled. *)
LEMMA DestroyKeeps ==
    ASSUME LaunchesHeld, NEW g \in Gens, Destroy(g)
    PROVE  LaunchesHeld'
  <1> USE DEF LaunchesHeld
  <1>1. /\ engine' = [engine EXCEPT ![g] = "absent"] /\ engine[g] \in {"created", "exited", "removing"}
        /\ UNCHANGED <<fenceVars, record, dbVars, wire, aged, ran, label, op, sweep, quiet>>
    BY DEF Destroy
  <1>2. g \in Reserved /\ label[g].unit \in Units /\ ~Creates(g)
    BY <1>1 DEF UnreservedUntouched, CreateComesFirst, Reserved, TypeOK
  <1>3. \A h \in Gens : engine'[h] = IF h = g THEN "absent" ELSE engine[h]
    BY <1>1 DEF TypeOK
  <1>4. events' = events \/ (events' = events \cup {g} /\ g \notin ran)
    BY <1>2 DEF Destroy, PhaseTrue
  <1>5. TypeOK'
    <2>1. engine' \in [Gens -> Statuses]
      BY <1>1 DEF TypeOK, Statuses
    <2> QED
      BY <1>1, <1>4, <2>1 DEF TypeOK, fenceVars, dbVars
  <1>6. OpFits'
    BY <1>1 DEF OpFits, fenceVars
  <1>7. \A h \in Gens : (Creates(h)' <=> Creates(h)) /\ (Starts(h)' <=> Starts(h))
    BY <1>1 DEF Creates, Starts
  <1>8. \A h \in Gens : (Over(h) => Over(h)') /\ (NeverRuns(h) => NeverRuns(h)')
    BY <1>1, <1>3, <1>7 DEF Over, NeverRuns
  <1>9. Reserved \subseteq Gens /\ Reserved' = Reserved /\ NextGen' = NextGen
    BY <1>1 DEF Reserved, NextGen
  <1>10. ReservedInOrder' /\ RunsAreRecorded' /\ IdentityRunsOnce' /\ RecordNamesLaunch'
    BY <1>1, <1>3, <1>9 DEF ReservedInOrder, RunsAreRecorded, IdentityRunsOnce, RecordNamesLaunch, dbVars
  <1>11. UnreservedUntouched'
    BY <1>1, <1>2, <1>3, <1>4, <1>9 DEF UnreservedUntouched
  <1>12. EventsAreFailures'
    <2>1. NeverRuns(g)' \/ g \in ran
      BY <1>1, <1>2, <1>3, <1>7 DEF NeverRuns
    <2> QED
      BY <1>4, <1>8, <2>1 DEF EventsAreFailures, TypeOK
  <1>13. CreateComesFirst'
    BY <1>1, <1>2, <1>3, <1>4, <1>7 DEF CreateComesFirst
  <1>14. \A u \in Units : record[u].phase # "none" => record[u].gen \in Gens
    BY RecordLabelled DEF RecordNamesLaunch
  <1>15. PhaseTrue'
    BY <1>1, <1>7, <1>8, <1>14 DEF PhaseTrue
  <1>16. ReplacedIsOver'
    BY <1>1, <1>8, <1>9 DEF ReplacedIsOver
  <1> QED
    BY <1>5, <1>6, <1>10, <1>11, <1>12, <1>13, <1>15, <1>16

(* The Engine performs a request.  A container that starts is the one its record names. *)
LEMMA PerformKeeps ==
    ASSUME LaunchesHeld, NEW r \in wire, Perform(r)
    PROVE  LaunchesHeld'
  <1> USE DEF LaunchesHeld
  <1> DEFINE g == r.gen
             next == CASE r.what = "create" -> "created"
                       [] r.what = "start" /\ engine[g] = "created" -> "running"
                       [] r.what = "remove" /\ engine[g] = "exited" -> "removing"
                       [] OTHER -> engine[g]
             starts == r.what = "start" /\ engine[g] = "created"
  <1>1. r \in Requests /\ g \in Gens /\ g \in Reserved
    BY DEF TypeOK, Requests, UnreservedUntouched, Reserved
  <1>2. /\ wire' = wire \ {r} /\ engine' = [engine EXCEPT ![g] = next]
        /\ ran' = IF starts THEN ran \cup {g} ELSE ran
        /\ UNCHANGED <<fenceVars, record, dbVars, events, aged, label, op, sweep, quiet>>
    BY DEF Perform
  <1>3. /\ next \in Statuses
        /\ next = "created" => Creates(g) \/ engine[g] = "created"
        /\ next = "running" => starts \/ engine[g] = "running"
        /\ next \in {"exited", "removing"} => engine[g] \in {"exited", "removing"}
        /\ next = "absent" => engine[g] = "absent"
        /\ ~Creates(g) /\ engine[g] = "absent" => next = "absent"
        /\ r.what # "create" /\ Creates(g) => next = "absent"
    <2>1. r = [what |-> r.what, gen |-> g] /\ r.what \in {"create", "start", "remove"}
      BY <1>1 DEF Requests
    <2>2. r.what = "create" => Creates(g)
      BY <2>1 DEF Creates
    <2>3. Creates(g) => engine[g] = "absent"
      BY <1>1 DEF CreateComesFirst
    <2>4. engine[g] \in Statuses
      BY <1>1 DEF TypeOK
    <2> QED
      BY <2>1, <2>2, <2>3, <2>4 DEF Statuses
  <1>4. r.what = "create" => ~Creates(g)' /\ r = [what |-> "create", gen |-> g]
    BY <1>1, <1>2 DEF Creates, Requests
  <1>5. starts => Starts(g)
    BY <1>1 DEF Starts, Requests
  <1> HIDE DEF next, starts
  <1>6. \A h \in Gens : engine'[h] = IF h = g THEN next ELSE engine[h]
    BY <1>2 DEF TypeOK
  <1>7. TypeOK'
    <2>1. engine' \in [Gens -> Statuses]
      BY <1>1, <1>2, <1>3 DEF TypeOK
    <2>2. ran' \subseteq Gens /\ wire' \subseteq Requests
      BY <1>1, <1>2 DEF TypeOK
    <2> QED
      BY <1>2, <2>1, <2>2 DEF TypeOK, fenceVars, dbVars
  <1>8. OpFits'
    BY <1>2 DEF OpFits, fenceVars
  <1>9. \A h \in Gens : (Creates(h)' => Creates(h)) /\ (Starts(h)' => Starts(h))
    BY <1>2 DEF Creates, Starts
  <1>10. starts => engine[g] = "created"
    BY DEF starts
  <1>11. \A h \in Gens : (Over(h) => Over(h)' /\ (h \in ran' => h \in ran)) /\ (NeverRuns(h) => NeverRuns(h)')
    BY <1>1, <1>2, <1>3, <1>6, <1>9, <1>10 DEF Over, NeverRuns
  <1>12. Reserved \subseteq Gens /\ Reserved' = Reserved /\ NextGen' = NextGen
    BY <1>2 DEF Reserved, NextGen
  <1>13. ReservedInOrder' /\ RecordNamesLaunch'
    BY <1>2, <1>12 DEF ReservedInOrder, RecordNamesLaunch, dbVars
  <1>14. RunsAreRecorded'
    <2>1. next = "running" => g \in ran'
      BY <1>1, <1>2, <1>3 DEF RunsAreRecorded
    <2> QED
      BY <1>1, <1>2, <1>3, <1>6, <2>1 DEF RunsAreRecorded
  <1>15. UnreservedUntouched'
    BY <1>1, <1>2, <1>6, <1>12 DEF UnreservedUntouched
  <1>16. EventsAreFailures'
    BY <1>2, <1>11 DEF EventsAreFailures, TypeOK
  <1>17. CreateComesFirst'
    <2> SUFFICES ASSUME NEW h \in Gens, Creates(h)'
                 PROVE  engine'[h] = "absent" /\ h \notin events' \cup aged' \cup ran' /\ ~Starts(h)'
      BY DEF CreateComesFirst
    <2>1. Creates(h) /\ engine[h] = "absent" /\ h \notin events \cup aged \cup ran /\ ~Starts(h)
      BY <1>9 DEF CreateComesFirst
    <2>2. h = g => next = "absent"
      BY <1>3, <1>4, <2>1
    <2> QED
      BY <1>2, <1>6, <1>9, <1>10, <2>1, <2>2
  <1>18. \A u \in Units : record[u].phase # "none" => record[u].gen \in Gens
    BY RecordLabelled DEF RecordNamesLaunch
  <1>19. \A u \in Units : record[u].phase = "creating" => record[u].gen \notin ran'
    BY <1>2, <1>5, <1>18 DEF PhaseTrue
  <1>20. PhaseTrue'
    BY <1>2, <1>9, <1>11, <1>18, <1>19 DEF PhaseTrue
  <1>21. ReplacedIsOver'
    BY <1>2, <1>11, <1>12 DEF ReplacedIsOver
  <1>22. IdentityRunsOnce'
    <2>1. ASSUME starts, NEW h \in ran, label[h] = label[g]
          PROVE  h = g
      <3>1. ~Over(g) /\ label[g].unit \in Units
        BY <1>1, <1>10, <2>1 DEF Over, Reserved, TypeOK
      <3>2. g = record[label[g].unit].gen /\ label[g].unit = label[h].unit
        BY <1>1, <2>1, <3>1 DEF ReplacedIsOver
      <3>3. h \in Reserved
        BY <2>1 DEF UnreservedUntouched, TypeOK
      <3>4. label[g].identity = record[label[g].unit].identity
        BY <1>1, <3>1, <3>2, RecordLabelled DEF NoGen, Gens
      <3> QED
        BY <2>1, <3>2, <3>3, <3>4 DEF ReplacedIsOver
    <2> QED
      BY <1>2, <2>1 DEF IdentityRunsOnce
  <1> QED
    BY <1>7, <1>8, <1>13, <1>14, <1>15, <1>16, <1>17, <1>20, <1>21, <1>22

--------------------------------------------------------------------------------
(* The reservation.                                                        *)

(* The next generation is unused, and the one after it follows it. *)
LEMMA NextGenFresh ==
    ASSUME TypeOK, ReservedInOrder, NextGen \in Gens
    PROVE  /\ NextGen \notin Reserved
           /\ \A n : n = NextGen /\ Reserved' = Reserved \cup {n} => ReservedInOrder'
  <1> DEFINE n == NextGen
  <1>1. IsFiniteSet(Reserved) /\ Cardinality(Reserved) \in Nat
    <2>1. IsFiniteSet(Gens)
      BY BoundsPositive, FS_Interval DEF Gens
    <2> QED
      BY <2>1, FS_Subset, FS_CardinalityType DEF Reserved
  <1>2. n = Cardinality(Reserved) + 1 /\ n \in Nat /\ NextGen' = Cardinality(Reserved') + 1
    BY <1>1 DEF NextGen, Reserved
  <1>3. Reserved = 1..n - 1
    BY DEF ReservedInOrder
  <1> HIDE DEF n
  <1>4. n \notin Reserved
    <2>1. n \in Nat
      BY <1>2
    <2>2. n \notin 1..n - 1
      BY <2>1
    <2> QED
      BY <1>3, <2>2
  <1>5. ASSUME Reserved' = Reserved \cup {n} PROVE ReservedInOrder'
    <2>1. Cardinality(Reserved') = Cardinality(Reserved) + 1
      BY <1>1, <1>4, <1>5, FS_AddElement
    <2>2. NextGen' = n + 1
      BY <1>1, <1>2, <2>1
    <2>3. 1..n = (1..n - 1) \cup {n}
      BY <1>1, <1>2
    <2> QED
      BY <1>2, <1>3, <1>5, <2>2, <2>3 DEF ReservedInOrder
  <1> QED
    BY <1>4, <1>5 DEF n

(* What start finds when it may reserve: the launch before is over, and if it was of the
   same identity it never ran. *)
LEMMA ReserveReplacesOver ==
    ASSUME LaunchesHeld, NEW u \in Units, turn[u] > 0, MayReserve(Seen(u), turn[u]), record[u].gen # NoGen
    PROVE  /\ Over(record[u].gen)
           /\ record[u].identity = turn[u] => record[u].gen \notin ran
  <1> USE DEF LaunchesHeld
  <1> DEFINE g == record[u].gen
  <1>1. g \in Gens /\ record[u].phase # "none"
    BY RecordLabelled DEF RecordNamesLaunch
  <1>2. CASE HasContainer(u)
    <2>1. Seen(u) = Observe(u)
      BY <1>2 DEF Seen
    <2>2. /\ Seen(u).identity = record[u].identity
          /\ Seen(u).phase = IF engine[g] = "exited" THEN "finished" ELSE record[u].phase
      BY <1>2, <2>1, ObserveTyped
    <2>3. record[u].phase # "failed"
      BY <1>2 DEF HasContainer, PhaseTrue, NeverRuns
    <2>4. Seen(u).phase \in {"finished", "retired"}
      BY <1>1, <2>2, <2>3 DEF MayReserve, Settled
    <2>5. record[u].identity # turn[u]
      BY <2>2, <2>4 DEF MayReserve
    <2>6. Over(g)
      <3>1. CASE engine[g] = "exited"
        BY <1>1, <3>1 DEF Over, CreateComesFirst
      <3>2. CASE engine[g] # "exited"
        BY <2>2, <2>4, <3>2 DEF PhaseTrue
      <3> QED
        BY <3>1, <3>2
    <2> QED
      BY <2>5, <2>6
  <1>3. CASE ~HasContainer(u)
    <2>1. Seen(u) = record[u]
      BY <1>3 DEF Seen
    <2>2. record[u].phase \in Settled
      BY <1>1, <2>1 DEF MayReserve
    <2>3. Over(g)
      BY <2>2 DEF PhaseTrue, Settled, Over, NeverRuns
    <2>4. record[u].identity = turn[u] => record[u].phase = "failed"
      BY <1>1, <2>1 DEF MayReserve
    <2> QED
      BY <2>3, <2>4 DEF PhaseTrue, NeverRuns
  <1> QED
    BY <1>2, <1>3

(* A new launch takes the next generation, after the one before it was over. *)
LEMMA ReserveKeeps ==
    ASSUME LaunchesHeld, NEW u \in Units, Start(u), MayReserve(Seen(u), turn[u])
    PROVE  LaunchesHeld'
  <1> USE DEF LaunchesHeld
  <1>1. PICK n \in Gens : n = NextGen
    BY DEF Start, Reserve
  <1> DEFINE row == [phase |-> "creating", gen |-> n, identity |-> turn[u], evidence |-> "none"]
  <1>2. /\ record' = [record EXCEPT ![u] = row]
        /\ label' = [label EXCEPT ![n] = [unit |-> u, identity |-> turn[u]]]
        /\ wire' = wire \cup {[what |-> "create", gen |-> n]}
        /\ op' = [what |-> "create", unit |-> u, gen |-> n]
        /\ UNCHANGED <<fenceVars, dbVars, engine, events, aged, ran, sweep, quiet>>
        /\ turn[u] > 0 /\ turn[u] \in Nat
    BY <1>1 DEF Start, Reserve, TypeOK
  <1>3. n \notin Reserved
    BY <1>1, NextGenFresh
  <1>4. u # Nobody /\ n # NoGen
    BY NobodyIsNoUnit DEF NoGen, Gens
  <1>5. row \in RecordRow
    BY <1>2 DEF RecordRow, Phases
  <1>6. /\ \A v \in Units : record'[v] = IF v = u THEN row ELSE record[v]
        /\ \A g \in Gens : label'[g] = IF g = n THEN [unit |-> u, identity |-> turn[u]] ELSE label[g]
    BY <1>2 DEF TypeOK
  <1>7. row.phase = "creating" /\ row.gen = n /\ row.identity = turn[u]
    OBVIOUS
  <1> HIDE DEF row
  <1>8. Reserved' = Reserved \cup {n} /\ Reserved \subseteq Gens
    BY <1>4, <1>6 DEF Reserved
  <1>9. engine[n] = "absent" /\ n \notin events \cup aged \cup ran /\ ~Starts(n) /\ ~Creates(n)
    BY <1>3 DEF UnreservedUntouched, Starts, Creates
  <1>10. TypeOK'
    <2>1. record' \in [Units -> RecordRow] /\ label' \in [Gens -> [unit: Units \cup {Nobody}, identity: Nat]]
      BY <1>2, <1>5 DEF TypeOK
    <2>2. wire' \subseteq Requests /\ op' \in Operation
      BY <1>2 DEF TypeOK, Requests, Operation
    <2> QED
      BY <1>2, <2>1, <2>2 DEF TypeOK, fenceVars, dbVars
  <1>11. OpFits'
    BY <1>2, <1>6, <1>7 DEF OpFits
  <1>12. ReservedInOrder'
    BY <1>1, <1>8, NextGenFresh
  <1>13. UnreservedUntouched'
    BY <1>2, <1>8 DEF UnreservedUntouched
  <1>14. \A g \in Gens : /\ Creates(g)' <=> Creates(g) \/ g = n
                         /\ Starts(g)' <=> Starts(g)
    BY <1>2 DEF Creates, Starts
  <1>15. \A g \in Gens : g # n => (Over(g) => Over(g)') /\ (NeverRuns(g) => NeverRuns(g)')
    BY <1>2, <1>14 DEF Over, NeverRuns
  <1>16. CreateComesFirst'
    BY <1>2, <1>9, <1>14 DEF CreateComesFirst
  <1>17. RunsAreRecorded'
    BY <1>2 DEF RunsAreRecorded
  <1>18. EventsAreFailures'
    BY <1>2, <1>9, <1>15 DEF EventsAreFailures, TypeOK
  <1>19. RecordNamesLaunch'
    <2> SUFFICES ASSUME NEW v \in Units
                 PROVE  /\ record'[v].identity <= turn'[v]
                        /\ record'[v].gen = NoGen <=> record'[v].phase = "none"
                        /\ record'[v].gen = NoGen => record'[v].identity = 0
                        /\ record'[v].gen # NoGen =>
                             /\ record'[v].gen \in Reserved'
                             /\ label'[record'[v].gen] = [unit |-> v, identity |-> record'[v].identity]
      BY DEF RecordNamesLaunch
    <2>1. CASE v = u
      BY <1>2, <1>4, <1>6, <1>7, <1>8, <2>1 DEF dbVars
    <2>2. CASE v # u
      BY <1>2, <1>3, <1>6, <1>8, <2>2 DEF dbVars, RecordNamesLaunch
    <2> QED
      BY <2>1, <2>2
  <1>20. \A v \in Units : record[v].phase # "none" => record[v].gen \in Gens /\ record[v].gen # n
    BY <1>3, RecordLabelled DEF RecordNamesLaunch
  <1>21. PhaseTrue'
    <2> SUFFICES ASSUME NEW v \in Units, NEW g, g = record'[v].gen
                 PROVE  /\ record'[v].phase = "creating" => g \notin ran' /\ ~Starts(g)'
                        /\ record'[v].phase \in {"finished", "retired"} => Over(g)'
                        /\ record'[v].phase = "failed" => NeverRuns(g)'
      BY DEF PhaseTrue
    <2>1. CASE v = u
      BY <1>2, <1>6, <1>7, <1>9, <1>14, <2>1
    <2>2. CASE v # u
      <3>1. record'[v] = record[v] /\ g = record[v].gen
        BY <1>6, <2>2
      <3>2. /\ record[v].phase = "creating" => g \notin ran /\ ~Starts(g)
            /\ record[v].phase \in {"finished", "retired"} => Over(g)
            /\ record[v].phase = "failed" => NeverRuns(g)
        BY <3>1 DEF PhaseTrue
      <3> QED
        BY <1>2, <1>14, <1>15, <1>20, <3>1, <3>2
    <2> QED
      BY <2>1, <2>2
  <1>22. ReplacedIsOver'
    <2> SUFFICES ASSUME NEW g \in Reserved', g # record'[label'[g].unit].gen
                 PROVE  /\ Over(g)' /\ label'[g].identity <= record'[label'[g].unit].identity
                        /\ label'[g].identity = record'[label'[g].unit].identity => g \notin ran'
      BY DEF ReplacedIsOver
    <2>1. g # n
      BY <1>6, <1>7
    <2>2. g \in Reserved /\ g \in Gens /\ label'[g] = label[g] /\ label[g].unit \in Units
      BY <1>6, <1>8, <2>1 DEF Reserved, TypeOK
    <2>3. label[g].identity \in Nat
      BY <2>2 DEF TypeOK
    <2>4. CASE label[g].unit # u
      <3>1. record'[label[g].unit] = record[label[g].unit]
        BY <1>6, <2>2, <2>4
      <3> QED
        BY <1>2, <1>15, <2>1, <2>2, <3>1 DEF ReplacedIsOver
    <2>5. CASE label[g].unit = u
      <3>1. record'[u].identity = turn[u] /\ record[u].identity <= turn[u] /\ record[u].identity \in Nat
        BY <1>6, <1>7 DEF RecordNamesLaunch, TypeOK, RecordRow
      <3>2. CASE g = record[u].gen
        <4>1. record[u].gen # NoGen /\ label[g].identity = record[u].identity
          BY <2>2, <3>2, RecordLabelled DEF NoGen, Gens
        <4>2. Over(g) /\ (record[u].identity = turn[u] => g \notin ran)
          BY <1>2, <3>2, <4>1, ReserveReplacesOver
        <4> QED
          BY <1>2, <1>15, <2>1, <2>2, <2>5, <3>1, <4>1, <4>2
      <3>3. CASE g # record[u].gen
        <4>1. /\ Over(g) /\ label[g].identity <= record[u].identity
              /\ label[g].identity = record[u].identity => g \notin ran
          BY <2>2, <2>5, <3>3 DEF ReplacedIsOver
        <4> QED
          BY <1>2, <1>15, <2>1, <2>2, <2>3, <2>5, <3>1, <4>1
      <3> QED
        BY <3>2, <3>3
    <2> QED
      BY <2>4, <2>5
  <1>23. IdentityRunsOnce'
    BY <1>2, <1>6, <1>9 DEF IdentityRunsOnce, TypeOK
  <1> QED
    BY <1>10, <1>11, <1>12, <1>13, <1>16, <1>17, <1>18, <1>19, <1>21, <1>22, <1>23

--------------------------------------------------------------------------------
(* Every step keeps the launches in order. *)
LEMMA NextLaunches ==
    ASSUME LaunchesHeld, [Next]_vars
    PROVE  LaunchesHeld'
  <1>1. CASE UNCHANGED vars
    <2>1. TypeOK' /\ OpFits' /\ UNCHANGED launches
      BY <1>1 DEF vars, launches, LaunchesHeld, TypeOK, OpFits
    <2> QED
      BY <2>1, SameLaunches
  <1>2. CASE dispatch
    <2>1. CASE \E u \in Units : Start(u)
      BY <2>1, ReserveKeeps, StartRefusedKeeps
    <2>2. CASE \E u \in Units : Show(u)
      BY <2>2, ShowKeeps
    <2>3. CASE \E u \in Units : Stop(u)
      BY <2>3, SignalKeeps
    <2>4. CASE \E u \in Units : ResetFailed(u)
      BY <2>4, ResetFailedObserves, ResetFailedRetires
    <2>5. CASE \E u \in Units : RecoverFailedCreate(u) \/ RecoverAbsentLaunch(u)
      BY <2>5, RecoverKeeps
    <2>6. CASE Status
      BY <2>6, ObservedKeeps
    <2>7. CASE FenceStep
      BY <2>7, FenceKeeps
    <2> QED
      BY <1>2, <2>1, <2>2, <2>3, <2>4, <2>5, <2>6, <2>7 DEF dispatch, FenceStep
  <1>3. CASE Resume
    <2>1. CASE FenceStep
      BY <2>1, FenceKeeps
    <2>2. CASE \E u \in Units : InterruptStop(u)
      BY <2>2, SignalKeeps
    <2>3. CASE InterruptSnapshot \/ InterruptDone
      BY <2>3, ObservedKeeps
    <2> QED
      BY <1>3, <2>1, <2>2, <2>3, CreatedKeeps, CreateRejectedKeeps, StartedKeeps, StartUnsettledKeeps, RemovedKeeps
      DEF Resume, FenceStep
  <1>4. CASE Environment
    <2>1. CASE FenceStep
      BY <2>1, FenceKeeps
    <2>2. CASE \E u \in Units : NextIdentity(u)
      BY <2>2, NextIdentityKeeps
    <2>3. CASE (\E r \in wire : Lose(r)) \/ ForgetEvents \/ \E u \in Units : HourPasses(u)
      BY <2>3, LossKeeps
    <2>4. CASE \E r \in wire : Perform(r)
      BY <2>4, PerformKeeps
    <2>5. CASE \E g \in Gens : Exit(g) \/ Destroy(g)
      BY <2>5, ExitKeeps, DestroyKeeps
    <2> QED
      BY <1>4, <2>1, <2>2, <2>3, <2>4, <2>5 DEF Environment, FenceStep
  <1> QED
    BY <1>1, <1>2, <1>3, <1>4 DEF Next

(* Every reachable state has its launches in order. *)
LEMMA LaunchesInOrder == Spec => []LaunchesHeld
  BY InitLaunches, NextLaunches, PTL DEF Spec

(* Whatever the number of units, turns and launches, and wherever the controller dies or
   loses an answer: a turn or an integration runs in at most one container. *)
THEOREM RunsAtMostOnce == Spec => []IdentityRunsOnce
  <1>1. LaunchesHeld => IdentityRunsOnce
    BY DEF LaunchesHeld
  <1> QED
    BY <1>1, LaunchesInOrder, PTL

(* A launch that the record, a rejected create or an administrative recovery calls failed
   has left nothing that could still run. *)
THEOREM FailedIsDead == Spec => []FailedLeavesNothing
  <1>1. LaunchesHeld => FailedLeavesNothing
    BY DEF LaunchesHeld, PhaseTrue, NeverRuns, Creates, FailedLeavesNothing
  <1> QED
    BY <1>1, LaunchesInOrder, PTL

--------------------------------------------------------------------------------
(* Quiet.                                                                  *)

(* With admission closed nothing that is over begins again. *)
LEMMA OverStaysOver ==
    ASSUME LaunchesHeld, [Next]_vars, ~Admission, \A g \in Gens : Over(g)
    PROVE  (\A g \in Gens : Over(g))'
  <1> USE DEF LaunchesHeld
  <1>1. CASE UNCHANGED <<engine, wire>>
    BY <1>1 DEF Over, Creates
  <1>2. CASE \E r \in wire : Perform(r)
    <2>1. PICK r \in wire : Perform(r)
      BY <1>2
    <2>2. r.gen \in Gens /\ r.what # "create" /\ engine[r.gen] # "created"
      <3>1. r \in Requests /\ r = [what |-> r.what, gen |-> r.gen]
        BY DEF TypeOK, Requests
      <3> QED
        BY <3>1 DEF Over, Creates, Requests
    <2>3. engine'[r.gen] \in {engine[r.gen], "removing"} /\ \A g \in Gens : g # r.gen => engine'[g] = engine[g]
      BY <2>1, <2>2 DEF Perform, TypeOK
    <2>4. wire' \subseteq wire
      BY <2>1 DEF Perform
    <2> QED
      BY <2>2, <2>3, <2>4 DEF Over, Creates
  <1>3. CASE \E r \in wire : Lose(r)
    BY <1>3 DEF Lose, Over, Creates
  <1>4. CASE \E g \in Gens : Exit(g) \/ Destroy(g)
    BY <1>4 DEF Exit, Destroy, Over, Creates, TypeOK
  <1>5. CASE \E u \in Units : Stop(u) \/ InterruptStop(u)
    <2>1. PICK u \in Units : Stop(u) \/ InterruptStop(u)
      BY <1>5
    <2>2. wire' = wire /\ (Signal(u) \/ engine' = engine)
      BY <2>1 DEF Stop, InterruptStop
    <2> QED
      BY <2>2, SignalStops DEF Over, Creates
  <1>6. CASE \E u \in Units : ResetFailed(u)
    <2>1. PICK u \in Units : ResetFailed(u)
      BY <1>6
    <2>2. engine' = engine
      BY <2>1 DEF ResetFailed
    <2>3. wire' = wire \/ wire' = wire \cup {[what |-> "remove", gen |-> record[u].gen]}
      BY <2>1 DEF ResetFailed
    <2>4. \A g \in Gens : Creates(g)' => Creates(g)
      BY <2>3 DEF Creates
    <2> QED
      BY <2>2, <2>4 DEF Over
  <1>7. CASE Created
    <2>1. op.gen \in Gens
      BY <1>7 DEF Created, TypeOK, Operation, Idle
    <2> QED
      BY <1>7, <2>1 DEF Created, Over
  <1>8. CASE CreateRejected
    BY <1>8 DEF CreateRejected, Over, Creates
  <1>9. CASE \E u \in Units : Start(u)
    BY <1>9 DEF Start
  <1>10. CASE FenceStep
    <2>1. UNCHANGED <<engine, wire>>
      BY <1>10 DEF FenceStep, SetAdmission, MaintenanceAcquire, SubmissionBegin, SubmissionEnd, MaintenanceRelease,
             MaintenanceAcquireFlag, MaintenanceReleaseRecord, InterruptWorkers, Crash, CreateUnsettled,
             RemoveFailed, JournalSettled, CancelTask, WorkerBegins, engineVars
    <2> QED
      BY <1>1, <2>1
  <1>11. CASE \/ Status \/ InterruptSnapshot \/ InterruptDone \/ Started \/ StartUnsettled \/ Removed \/ ForgetEvents
              \/ \E u \in Units : \/ Show(u) \/ RecoverFailedCreate(u) \/ RecoverAbsentLaunch(u)
                                  \/ NextIdentity(u) \/ HourPasses(u)
    BY <1>1, <1>11
    DEF Status, InterruptSnapshot, InterruptDone, Started, StartUnsettled, Removed, Show, RecoverFailedCreate,
        RecoverAbsentLaunch, Recover, NextIdentity, HourPasses, ForgetEvents, engineVars
  <1>12. CASE UNCHANGED vars
    BY <1>1, <1>12 DEF vars
  <1> QED
    BY <1>2, <1>3, <1>4, <1>5, <1>6, <1>7, <1>8, <1>9, <1>10, <1>11, <1>12
    DEF Next, dispatch, Resume, Environment, FenceStep

(* Where quiet comes from, and that admission does not open under it. *)
LEMMA QuietIsClosed ==
    ASSUME TypeOK, OpFits, [Next]_vars, quiet', quiet => ~Admission
    PROVE  /\ ~Admission'
           /\ quiet \/ (Observed(Jobs) /\ ~Admission /\ Jobs = {})
  <1>1. CASE Status \/ InterruptSnapshot \/ InterruptDone
    <2>1. Observed(Jobs) /\ UNCHANGED fenceVars
      BY <1>1 DEF Status, InterruptSnapshot, InterruptDone
    <2> QED
      BY <2>1 DEF Observed, Admission, fenceVars
  <1>2. CASE \E open \in BOOLEAN : SetAdmission(open)
    <2>1. PICK open \in BOOLEAN : SetAdmission(open)
      BY <1>2
    <2>2. quiet /\ open = FALSE /\ admission' = open
      BY <2>1 DEF SetAdmission
    <2> QED
      BY <2>2 DEF Admission
  <1>3. CASE \E t \in Tokens : MaintenanceAcquire(t)
    BY <1>3 DEF MaintenanceAcquire, Admission
  <1>4. CASE \E t \in Tokens, open \in BOOLEAN : MaintenanceRelease(t, open)
    BY <1>4 DEF MaintenanceRelease, Admission
  <1>5. CASE MaintenanceAcquireFlag
    BY <1>5 DEF MaintenanceAcquireFlag, Admission
  <1>6. CASE MaintenanceReleaseRecord
    BY <1>6 DEF MaintenanceReleaseRecord, Admission
  <1>7. CASE InterruptWorkers \/ \E u \in Units : RecoverFailedCreate(u) \/ RecoverAbsentLaunch(u)
    BY <1>7 DEF InterruptWorkers, RecoverFailedCreate, RecoverAbsentLaunch, Recover, Admission
  <1>8. CASE UNCHANGED <<admission, maintenance, quiet>>
    BY <1>8 DEF Admission
  <1>9. CASE \E t \in Tokens : SubmissionBegin(t) \/ SubmissionEnd(t)
    BY <1>8, <1>9 DEF SubmissionBegin, SubmissionEnd
  <1>10. CASE \E u \in Units : Start(u) \/ Show(u) \/ Stop(u) \/ ResetFailed(u) \/ InterruptStop(u)
    BY <1>8, <1>10 DEF Start, Show, Stop, ResetFailed, InterruptStop, fenceVars
  <1>11. CASE Created \/ CreateRejected \/ CreateUnsettled \/ Started \/ StartUnsettled \/ Removed \/ RemoveFailed
    BY <1>8, <1>11 DEF Created, CreateRejected, CreateUnsettled, Started, StartUnsettled, Removed, RemoveFailed, fenceVars
  <1>12. CASE Environment
    <2>1. UNCHANGED <<fenceVars, quiet>>
      BY <1>12 DEF Environment, Crash, ForgetEvents, NextIdentity, JournalSettled, CancelTask, WorkerBegins,
                   HourPasses, Perform, Lose, Exit, Destroy
    <2> QED
      BY <1>8, <2>1 DEF fenceVars
  <1>13. CASE UNCHANGED vars
    BY <1>8, <1>13 DEF vars
  <1> QED
    BY <1>1, <1>2, <1>3, <1>4, <1>5, <1>6, <1>7, <1>9, <1>10, <1>11, <1>12, <1>13 DEF Next, dispatch, Resume

(* A status that lists no jobs has seen every launch over. *)
LEMMA NoJobsIsOver ==
    ASSUME LaunchesHeld, Jobs = {}
    PROVE  \A g \in Gens : Over(g)
  <1> USE DEF LaunchesHeld
  <1>0. \A g \in Reserved : g \in Gens /\ label[g].unit \in Units
    BY DEF Reserved, TypeOK
  <1> SUFFICES ASSUME NEW g \in Gens PROVE Over(g)
    OBVIOUS
  <1>1. CASE g \notin Reserved
    BY <1>1 DEF UnreservedUntouched, Over, Creates
  <1>2. CASE g \in Reserved /\ g # record[label[g].unit].gen
    BY <1>2 DEF ReplacedIsOver
  <1>3. CASE g \in Reserved /\ g = record[label[g].unit].gen
    <2>1. PICK u \in Units : g = record[u].gen
      BY <1>0, <1>3
    <2>2. record[u].phase # "none"
      <3>1. NoGen \notin Gens
        BY DEF NoGen, Gens
      <3>2. record[u].gen = NoGen <=> record[u].phase = "none"
        BY DEF RecordNamesLaunch
      <3> QED
        BY <2>1, <3>1, <3>2
    <2>3. CASE HasContainer(u)
      <3>1. Observe(u).evidence = "ended"
        BY <2>2, <2>3 DEF Jobs
      <3>2. engine[g] = "exited"
        BY <2>1, <2>3, <3>1, ObserveTyped DEF Kind
      <3> QED
        BY <3>2 DEF Over, CreateComesFirst
    <2>4. CASE ~HasContainer(u)
      <3>1. record[u].phase \in Settled
        BY <2>2, <2>4 DEF Jobs
      <3> QED
        BY <2>1, <3>1 DEF PhaseTrue, Settled, Over, NeverRuns
    <2> QED
      BY <2>3, <2>4
  <1> QED
    BY <1>1, <1>2, <1>3

(* No step makes a quiet system run. *)
LEMMA NextQuiet ==
    ASSUME LaunchesHeld, QuietIsOver, [Next]_vars
    PROVE  QuietIsOver'
  <1> SUFFICES ASSUME quiet' PROVE ~Admission' /\ (\A g \in Gens : Over(g))'
    BY DEF QuietIsOver
  <1>1. quiet => ~Admission
    BY DEF QuietIsOver
  <1>2. ~Admission' /\ (quiet \/ (Observed(Jobs) /\ ~Admission /\ Jobs = {}))
    BY <1>1, QuietIsClosed DEF LaunchesHeld
  <1>3. ~Admission /\ \A g \in Gens : Over(g)
    BY <1>2, NoJobsIsOver DEF QuietIsOver
  <1> QED
    BY <1>2, <1>3, OverStaysOver

(* Once the controller has answered, with admission closed, that there are no jobs, none
   runs and none can begin to run until admission is opened: what interrupt_workers and
   reconcile rely on when they settle the tasks. *)
THEOREM QuietIsStable == Spec => []QuietStaysQuiet
  <1>1. Init => QuietIsOver
    BY DEF Init, QuietIsOver
  <1>2. LaunchesHeld /\ QuietIsOver => QuietStaysQuiet
    <2> SUFFICES ASSUME LaunchesHeld, QuietIsOver PROVE QuietStaysQuiet
      OBVIOUS
    <2>1. \A r \in wire : r.gen \in Gens
      BY DEF LaunchesHeld, TypeOK, Requests
    <2> QED
      BY <2>1 DEF QuietIsOver, QuietStaysQuiet, Over
  <1> QED
    BY <1>1, <1>2, NextQuiet, LaunchesInOrder, PTL DEF Spec

=============================================================================
