--------------------------- MODULE DispatchProofs ---------------------------
(***************************************************************************)
(* What holds of Dispatch for every set of tasks and servers, every limit, *)
(* every combination of faults and every value of the bounds.              *)
(***************************************************************************)
EXTENDS Dispatch, FiniteSetTheorems, TLAPS

(* Every row of leases is a row of its table. *)
LeaseTyped == lease \in [Tasks -> LeaseRow]

(* A step that may only give leases up, sign them or let them grow old. *)
NoLeaseTaken == LeaseTyped' /\ Held' \subseteq Held

(* A step that takes the lease of t, with room for it. *)
LeaseTaken(t) ==
    LeaseTyped' /\ Held' = Held \cup {t} /\ t \notin Held /\ Cardinality(Held) < Limit

(* Giving back one lease, whatever task it names. *)
LEMMA ReleaseTakesNone ==
    ASSUME LeaseTyped, NEW t, Release(t)
    PROVE  NoLeaseTaken
  BY DEF LeaseTyped, Release, NoLeaseTaken, Held, NoLease, LeaseRow

(* Leaving the leases alone. *)
LEMMA SameTakesNone ==
    ASSUME LeaseTyped, lease' = lease
    PROVE  NoLeaseTaken
  BY DEF LeaseTyped, NoLeaseTaken, Held

(* The claim is the only place that takes a lease, and it counts first. *)
LEMMA ClaimTakesOne ==
    ASSUME LeaseTyped, NEW p \in Procs, NEW t \in Tasks, Claim(p, t)
    PROVE  NoLeaseTaken \/ LeaseTaken(t)
  <1>1. CASE lease' = lease
    BY <1>1, SameTakesNone
  <1>2. CASE lease' = [lease EXCEPT ![t] = [held |-> "unsigned", when |-> "fresh"]] /\ HasRoom(t)
    BY <1>2 DEF LeaseTyped, LeaseTaken, Held, HasRoom, LeaseRow
  <1> QED
    BY <1>1, <1>2 DEF Claim

(* Sweeps drop leases. *)
LEMMA SweepTakesNone ==
    ASSUME LeaseTyped, NEW p \in Procs, Sweep(p)
    PROVE  NoLeaseTaken
  <1>1. CASE SweepUnlease(p)
    BY <1>1, ReleaseTakesNone DEF SweepUnlease
  <1>2. CASE \E t \in Tasks : SweepDrops(p, t)
    <2>1. PICK t \in Tasks : SweepDrops(p, t)
      BY <1>2
    <2>2. lease' = lease \/ Release(t)
      BY <2>1 DEF SweepDrops, Release
    <2> QED
      BY <2>2, SameTakesNone, ReleaseTakesNone
  <1>3. CASE lease' = lease
    BY <1>3, SameTakesNone
  <1> QED
    BY <1>1, <1>2, <1>3
    DEF Sweep, SweepLook, SweepStops, SweepApply, SweepLeases, SweepEnds, SweepList

(* A call drops at most the lease of the task it cancels. *)
LEMMA CallTakesNone ==
    ASSUME LeaseTyped, NEW s \in Servers, BeginCall(s) \/ Call(s) \/ Request(s)
    PROVE  NoLeaseTaken
  <1>1. CASE CancelUnhold(s)
    BY <1>1, ReleaseTakesNone DEF CancelUnhold
  <1>2. CASE lease' = lease
    BY <1>2, SameTakesNone
  <1> QED
    BY <1>1, <1>2
    DEF BeginCall, Call, Request, OtherCall, ObserveCall, Prepare, PrepareFails, KillUnit,
        CancelEnds, StartTask, ContinueTask, SettleAmbiguous, CancelTask

(* A dispatch pass takes one lease at a time, in its claim, and gives back the lease of
   a start that was refused. *)
LEMMA DispatchTakesOne ==
    ASSUME LeaseTyped, NEW p \in Procs, Dispatching(p)
    PROVE  NoLeaseTaken \/ \E t \in Tasks : LeaseTaken(t)
  <1>1. CASE UnstartLease(p)
    BY <1>1, ReleaseTakesNone DEF UnstartLease
  <1>2. CASE \E t \in Tasks : Claim(p, t)
    BY <1>2, ClaimTakesOne
  <1>3. CASE lease' = lease
    BY <1>3, SameTakesNone
  <1> QED
    BY <1>1, <1>2, <1>3
    DEF Dispatching, DispatchStarted, DispatchList, DispatchEnds, StartWorker, StartRefused,
        StartFails, FailTask, ClaimFails

(* A worker signs the lease it was started under and gives it back. *)
LEMMA WorkerTakesNone ==
    ASSUME LeaseTyped, NEW t \in Tasks, Worker(t)
    PROVE  NoLeaseTaken
  <1>1. CASE WorkerReleases(t)
    BY <1>1, ReleaseTakesNone DEF WorkerReleases
  <1>2. CASE WorkerSign(t)
    <2>1. CASE lease[t].held # "none"
               /\ lease' = [lease EXCEPT ![t] = [held |-> "signed", when |-> "fresh"]]
      BY <2>1 DEF LeaseTyped, NoLeaseTaken, Held, LeaseRow
    <2>2. CASE lease' = lease
      BY <2>2, SameTakesNone
    <2> QED
      BY <1>2, <2>1, <2>2 DEF WorkerSign
  <1>3. CASE lease' = lease
    BY <1>3, SameTakesNone
  <1> QED
    BY <1>1, <1>2, <1>3
    DEF Worker, WorkerBegin, WorkerRun, WorkerOpen, WorkerFinishes, WorkerFails,
        WorkerCannotResume, WorkerCancelled, WorkerReadsCancel, WorkerCancelling,
        WorkerDecides, WorkerSettles, WorkerDrains, WorkerExit

(* Time and faults age leases. *)
LEMMA EnvironmentTakesNone ==
    ASSUME LeaseTyped, Environment
    PROVE  NoLeaseTaken
  <1>1. CASE Reboot
    BY <1>1 DEF Reboot, LeaseTyped, NoLeaseTaken, Held, LeaseRow, NoLease
  <1>2. CASE \E t \in Tasks : LeaseAges(t)
    BY <1>2 DEF LeaseAges, LeaseTyped, NoLeaseTaken, Held, LeaseRow
  <1>3. CASE lease' = lease
    BY <1>3, SameTakesNone
  <1> QED
    BY <1>1, <1>2, <1>3 DEF Environment, WorkerKilled, WorkerStopped, ServerKilled, HeartbeatAges


---------------------------------------------------------------------------
(* Leases are rows of their table and no more of them than the limit. *)
LeasesCounted == LeaseTyped /\ LeasesWithinLimit

(* The leases are a finite set, their number a natural number. *)
LEMMA HeldFinite == IsFiniteSet(Held) /\ Cardinality(Held) \in Nat
  <1>1. Held \in SUBSET Tasks
    BY DEF Held
  <1> QED
    BY <1>1, TasksAssumption, FS_Subset, FS_CardinalityType

(* No lease is held at first. *)
LEMMA InitLeases == Init => LeasesCounted
  <1> SUFFICES ASSUME Init PROVE LeasesCounted
    OBVIOUS
  <1>1. LeaseTyped
    BY DEF Init, LeaseTyped, NoLease, LeaseRow
  <1>2. Held = {}
    BY DEF Init, Held, NoLease
  <1>3. Cardinality(Held) = 0
    BY <1>2, FS_EmptySet
  <1> QED
    BY <1>1, <1>3, LimitAssumption DEF LeasesCounted, LeasesWithinLimit

(* Every step takes at most one lease, and only below the limit. *)
LEMMA NextLeases ==
    ASSUME LeasesCounted, [Next]_vars
    PROVE  LeasesCounted'
  <1>1. LeaseTyped
    BY DEF LeasesCounted
  <1>2. NoLeaseTaken \/ \E t \in Tasks : LeaseTaken(t)
    <2>1. CASE UNCHANGED vars
      BY <1>1, <2>1, SameTakesNone DEF vars
    <2>2. CASE \E p \in Procs : Sweep(p) \/ Dispatching(p)
      BY <1>1, <2>2, SweepTakesNone, DispatchTakesOne
    <2>3. CASE \E s \in Servers : BeginCall(s) \/ Call(s) \/ Request(s)
      BY <1>1, <2>3, CallTakesNone
    <2>4. CASE \E t \in Tasks : Worker(t)
      BY <1>1, <2>4, WorkerTakesNone
    <2>5. CASE Environment
      BY <1>1, <2>5, EnvironmentTakesNone
    <2> QED
      BY <2>1, <2>2, <2>3, <2>4, <2>5 DEF Next
  <1>3. CASE NoLeaseTaken
    <2>1. Held' \in SUBSET Held
      BY <1>3 DEF NoLeaseTaken
    <2>2. Cardinality(Held') <= Cardinality(Held) /\ IsFiniteSet(Held')
      BY <2>1, HeldFinite, FS_Subset
    <2>3. Cardinality(Held') \in Nat
      BY <2>2, FS_CardinalityType
    <2> QED
      BY <1>3, <2>2, <2>3, HeldFinite, LimitAssumption
      DEF NoLeaseTaken, LeasesCounted, LeasesWithinLimit
  <1>4. CASE \E t \in Tasks : LeaseTaken(t)
    <2>1. PICK t \in Tasks : LeaseTaken(t)
      BY <1>4
    <2>2. Cardinality(Held') = Cardinality(Held) + 1
      BY <2>1, HeldFinite, FS_AddElement DEF LeaseTaken
    <2> QED
      BY <2>1, <2>2, HeldFinite, LimitAssumption
      DEF LeaseTaken, LeasesCounted, LeasesWithinLimit
  <1> QED
    BY <1>2, <1>3, <1>4

(* However many servers and draining workers claim, sweep, crash and retry over one
   database, the leases of a provider never exceed its max_concurrent. *)
THEOREM LeasesLimited == Spec => []LeasesWithinLimit
  <1>1. LeasesCounted => LeasesWithinLimit
    BY DEF LeasesCounted
  <1> QED
    BY <1>1, InitLeases, NextLeases, PTL DEF Spec
=============================================================================
