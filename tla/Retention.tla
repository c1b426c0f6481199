------------------------------- MODULE Retention -------------------------------
(***************************************************************************)
(* Giving back what finished tasks and old logs hold: `taskspindle gc`     *)
(* (retention.py) beside cleanup_task (orchestrator.py), a task that may   *)
(* be continued meanwhile, and the operational log that every process      *)
(* writes (oplog.py).                                                      *)
(*                                                                         *)
(* A scratch directory is known by the last turn that used it, a log file  *)
(* by its size.  Every append and every change of the dedup file happens   *)
(* under one file lock and is one step.                                    *)
(***************************************************************************)
EXTENDS TaskStates, Naturals, Sequences, FiniteSets, FiniteSetsExt

CONSTANTS
    MaxTurns,       \* bound: turns of the task
    Writers,        \* the processes that log failures
    Keys,           \* the fingerprints of failures
    Sizes,          \* sizes of a record
    MaxBytes,       \* the size at which a file is rotated
    Generations,    \* old files that are kept
    LegacySize,     \* the size of a log that an older release left
    MaxFailures     \* bound: failures that occur

ASSUME RetentionAssumption ==
    /\ {MaxTurns, MaxBytes, Generations, LegacySize, MaxFailures} \subseteq Nat
    /\ Sizes \subseteq Nat \ {0} /\ \A n \in Sizes : n <= MaxBytes
    /\ IsFiniteSet(Writers)

VARIABLES
    state,      \* the task's state
    leased,     \* the task holds a slot lease
    turns,      \* turns it has had
    worker,     \* its worker: "none", "starting", "running" or "settled"
    tmp,        \* tasks/<id>/tmp: the last turn that used it, or 0
    aside,      \* tmp.gc-<pid>: likewise
    workspace,  \* the worktree or scratch repository exists
    cleanup,    \* cleanup_state
    call,       \* where a cleanup_task call stands: "none", "tmp" or "workspace"
    gc,         \* where gc stands
    gcLeased,   \* the lease as gc read it
    log,        \* the size of the log and of its generations, youngest first
    oversized,  \* gc found the log over its cap
    dedup,      \* the scope's entry in dedup.json, or NoEntry
    writer,     \* where each process stands, and the count it is about to report
    failures,   \* history: failures that occurred
    suppressed, \* history: failures that were only counted
    reported    \* history: repeats that a record accounts for

taskVars == <<state, leased, turns, worker, workspace, cleanup, call>>
logVars == <<log, dedup, writer, failures, suppressed, reported>>
retentionVars == <<taskVars, tmp, aside, gc, gcLeased, oversized, logVars>>

-----------------------------------------------------------------------------
(* The task and its worker *)

(* continue_task; only a consult task leaves a terminal state.             *)
ContinueTask ==
    /\ state = "COMPLETED" /\ turns < MaxTurns
    /\ state' = "RESUMING" /\ turns' = turns + 1
    /\ UNCHANGED <<leased, worker, workspace, cleanup, call, tmp, aside>>

StartWorker ==
    /\ state = "RESUMING" /\ ~leased
    /\ leased' = TRUE /\ worker' = "starting"
    /\ UNCHANGED <<state, turns, workspace, cleanup, call, tmp, aside>>

(* _run_turn makes its TMPDIR, or takes the one it finds; an agent does    *)
(* not start in a workspace that is gone.                                  *)
WorkerOpens ==
    /\ worker = "starting"
    /\ tmp' = turns
    /\ worker' = IF workspace THEN "running" ELSE "settled"
    /\ state' = IF workspace THEN "RUNNING" ELSE "FAILED"
    /\ UNCHANGED <<leased, turns, workspace, cleanup, call, aside>>

WorkerSettles ==
    /\ worker = "running"
    /\ worker' = "settled" /\ state' = "COMPLETED"
    /\ UNCHANGED <<leased, turns, workspace, cleanup, call, tmp, aside>>

WorkerReleases ==
    /\ worker = "settled"
    /\ worker' = "none" /\ leased' = FALSE
    /\ UNCHANGED <<state, turns, workspace, cleanup, call, tmp, aside>>

-----------------------------------------------------------------------------
(* cleanup_task *)

CleanupTask ==
    /\ call = "none" /\ state \in TERMINAL_STATES
    /\ call' = "tmp" /\ cleanup' = "PENDING"
    /\ UNCHANGED <<state, leased, turns, worker, workspace, tmp, aside>>

CleanupScratch ==
    /\ call = "tmp"
    /\ call' = "workspace" /\ tmp' = 0
    /\ UNCHANGED <<state, leased, turns, worker, workspace, cleanup, aside>>

(* The workspace goes with its refs, or the cleanup stops there: the       *)
(* worktree is dirty, or its repository cannot be resolved.                *)
CleanupWorkspace ==
    /\ call = "workspace"
    /\ call' = "none"
    /\ \/ workspace' = FALSE /\ cleanup' = "COMPLETE"
       \/ workspace /\ workspace' = workspace /\ cleanup' = "FAILED"
    /\ UNCHANGED <<state, leased, turns, worker, tmp, aside>>

-----------------------------------------------------------------------------
(* gc: the scratch directory *)

Collectable == state \in TERMINAL_STATES /\ ~gcLeased

(* The leases are read before the task.                                    *)
GcReadsLeases ==
    /\ gc \in {"idle", "moved"}
    /\ gc = "idle" => tmp # 0
    /\ gc' = IF gc = "idle" THEN "judging" ELSE "rejudging"
    /\ gcLeased' = leased
    /\ UNCHANGED <<taskVars, tmp, aside>>

GcJudges ==
    /\ gc = "judging"
    /\ gc' = IF Collectable THEN "moving" ELSE "logs"
    /\ UNCHANGED <<taskVars, tmp, aside, gcLeased>>

GcMoves ==
    /\ gc = "moving"
    /\ IF tmp = 0 THEN gc' = "logs" /\ UNCHANGED <<tmp, aside>>
                  ELSE gc' = "moved" /\ aside' = tmp /\ tmp' = 0
    /\ UNCHANGED <<taskVars, gcLeased>>

(* Faulty variant: the task is not looked at again.                        *)
GcRejudgesNever ==
    /\ gc = "rejudging"
    /\ gc' = "removing" /\ UNCHANGED <<taskVars, tmp, aside, gcLeased>>

(* A task that was continued in the gap gets its directory back, unless it *)
(* has made another by now.                                                *)
GcRejudges ==
    /\ gc = "rejudging"
    /\ IF Collectable
       THEN gc' = "removing" /\ UNCHANGED <<tmp, aside>>
       ELSE /\ gc' = "logs"
            /\ IF tmp = 0 THEN tmp' = aside /\ aside' = 0 ELSE UNCHANGED <<tmp, aside>>
    /\ UNCHANGED <<taskVars, gcLeased>>

GcRemoves ==
    /\ gc = "removing"
    /\ gc' = "logs" /\ aside' = 0
    /\ UNCHANGED <<taskVars, tmp, gcLeased>>

(* What was moved aside stays there.                                       *)
GcDies ==
    /\ gc # "idle"
    /\ gc' = "idle"
    /\ UNCHANGED <<taskVars, tmp, aside, gcLeased>>

-----------------------------------------------------------------------------
(* The operational log *)

rotate_locked(l) == [size |-> 0, old |-> [i \in 1..Generations |-> IF i = 1 THEN l.size ELSE l.old[i - 1]]]

append(l, n) ==
    IF l.size > 0 /\ l.size + n > MaxBytes
    THEN [rotate_locked(l) EXCEPT !.size = n]
    ELSE [l EXCEPT !.size = @ + n]

NoEntry == [key |-> "none", count |-> 0, fresh |-> FALSE]
At(stage, count) == [stage |-> stage, count |-> count]

(* Faulty variant: a recurrence after the window starts a new count.       *)
SummaryOfChange(key) == IF dedup.key # key THEN dedup.count ELSE 0

(* What was counted of the failure before is reported first.               *)
Summary(key) == dedup.count

(* exception, dedup, gate: an identical failure within the window is only  *)
(* counted.                                                                *)
Failure(w, key) ==
    /\ writer[w].stage = "idle" /\ failures < MaxFailures
    /\ failures' = failures + 1
    /\ IF dedup.key = key /\ dedup.fresh
       THEN /\ dedup' = [dedup EXCEPT !.count = @ + 1]
            /\ suppressed' = suppressed + 1
            /\ UNCHANGED writer
       ELSE /\ dedup' = [key |-> key, count |-> 0, fresh |-> TRUE]
            /\ writer' = [writer EXCEPT ![w] = At(IF Summary(key) > 0 THEN "summary" ELSE "record", Summary(key))]
            /\ UNCHANGED suppressed
    /\ UNCHANGED <<log, reported>>

Summarize(w) ==
    /\ writer[w].stage = "summary"
    /\ \E n \in Sizes : log' = append(log, n)
    /\ reported' = reported + writer[w].count
    /\ writer' = [writer EXCEPT ![w] = At("record", 0)]
    /\ UNCHANGED <<dedup, failures, suppressed>>

Emit(w) ==
    /\ writer[w].stage = "record"
    /\ \E n \in Sizes : log' = append(log, n)
    /\ writer' = [writer EXCEPT ![w] = At("idle", 0)]
    /\ UNCHANGED <<dedup, failures, suppressed, reported>>

(* clear: the look without the lock only saves work.                       *)
ClearLooks(w) ==
    /\ writer[w].stage = "idle" /\ dedup # NoEntry
    /\ writer' = [writer EXCEPT ![w] = At("clearing", 0)]
    /\ UNCHANGED <<log, dedup, failures, suppressed, reported>>

ClearTakes(w) ==
    /\ writer[w].stage = "clearing"
    /\ writer' = [writer EXCEPT ![w] = IF dedup = NoEntry THEN At("idle", 0) ELSE At("cleared", dedup.count)]
    /\ dedup' = NoEntry
    /\ UNCHANGED <<log, failures, suppressed, reported>>

ClearReports(w) ==
    /\ writer[w].stage = "cleared"
    /\ \E n \in Sizes : log' = append(log, n)
    /\ reported' = reported + writer[w].count
    /\ writer' = [writer EXCEPT ![w] = At("idle", 0)]
    /\ UNCHANGED <<dedup, failures, suppressed>>

WindowPasses ==
    /\ dedup.fresh
    /\ dedup' = [dedup EXCEPT !.fresh = FALSE]
    /\ UNCHANGED <<log, writer, failures, suppressed, reported>>

(* rotate, at the end of gc: what to do is listed without the lock.        *)
GcLooksAtLog ==
    /\ gc = "logs"
    /\ gc' = "rotating"
    /\ oversized' = (log.size > MaxBytes)
    /\ UNCHANGED logVars

NeedsRotation == oversized /\ log.size > MaxBytes

GcRotates ==
    /\ gc = "rotating"
    /\ gc' = "idle"
    /\ log' = IF NeedsRotation THEN rotate_locked(log) ELSE log
    /\ UNCHANGED <<oversized, dedup, writer, failures, suppressed, reported>>

-----------------------------------------------------------------------------
RetentionInit ==
    /\ state = "COMPLETED" /\ leased = FALSE /\ turns = 1 /\ worker = "none"
    /\ tmp = 1 /\ aside = 0 /\ workspace = TRUE /\ cleanup = "RETAINED" /\ call = "none"
    /\ gc = "idle" /\ gcLeased = FALSE /\ oversized = FALSE
    /\ log \in [size: {0, LegacySize}, old: {[i \in 1..Generations |-> 0]}]
    /\ dedup = NoEntry
    /\ writer = [w \in Writers |-> At("idle", 0)]
    /\ failures = 0 /\ suppressed = 0 /\ reported = 0

TaskStep ==
    /\ \/ ContinueTask \/ StartWorker \/ WorkerOpens \/ WorkerSettles \/ WorkerReleases
       \/ CleanupTask \/ CleanupScratch \/ CleanupWorkspace
    /\ UNCHANGED <<gc, gcLeased, oversized, logVars>>

GcStep ==
    \/ /\ GcReadsLeases \/ GcJudges \/ GcMoves \/ GcRejudges \/ GcRemoves \/ GcDies
       /\ UNCHANGED <<oversized, logVars>>
    \/ (GcLooksAtLog \/ GcRotates) /\ UNCHANGED <<taskVars, tmp, aside, gcLeased>>

LogStep ==
    /\ \/ \E w \in Writers :
             \/ \E key \in Keys : Failure(w, key)
             \/ Summarize(w) \/ Emit(w) \/ ClearLooks(w) \/ ClearTakes(w) \/ ClearReports(w)
       \/ WindowPasses
    /\ UNCHANGED <<taskVars, tmp, aside, gc, gcLeased, oversized>>

RetentionNext == TaskStep \/ GcStep \/ LogStep

RetentionSpec == RetentionInit /\ [][RetentionNext]_retentionVars

-----------------------------------------------------------------------------
(* Properties *)

(* gc deletes no directory that the turn under way works in, however a     *)
(* continuation falls between its reads, its rename and its removal        *)
(* (collect).                                                              *)
ScratchNotLost ==
    [][(gc = "removing" /\ aside # 0 /\ aside' = 0) => ~(worker = "running" /\ aside = turns)]_retentionVars

(* Every failure that was only counted is accounted for: by a record, by a *)
(* process that is about to write one, or in the dedup file.  Two          *)
(* processes that report and clear the same scope neither lose nor double  *)
(* a count (gate, clear).                                                  *)
RepeatsAccounted ==
    suppressed = reported + dedup.count + MapThenSumSet(LAMBDA w : writer[w].count, Writers)
=============================================================================
