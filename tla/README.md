# TaskSpindle in TLA+

TaskSpindle hands coding tasks to agent CLIs, runs every turn in a systemd unit (or container) of
its own, and lands an accepted candidate in the operator's repository. Nothing in it is
long-lived but one SQLite database: MCP server processes, worker units and accept units come and
go, and agree only through that database, systemd and git. This project models that agreement.

Source paths below are relative to `src/src/taskspindle/`.

## 1. The system

| Component | State | Operations | Hard because |
| --- | --- | --- | --- |
| Task state machine (`models.py`, `service.py`) | `tasks.state`, `state_version` | `transition`, pinned to a version or not | every process writes through it, some without pinning |
| Orchestrator (`orchestrator.py`) | none of its own | `start_task`, `continue_task`, `cancel_task`, `accept_task`, `record_integration`, `reject_task`, `dispatch_queued`; every call first reconciles and then dispatches | several servers at once; each operation is several transactions with systemd or git calls between them |
| Recovery (`recovery.py`) | none | `reconcile`, `_apply`, `_release_finished_leases` | decides from a row read earlier, the boot id, a heartbeat and what systemd says |
| Leases (`store.py`) | `leases` | acquire (counted), sign, touch, release by task | capacity limit, owners that die |
| Worker (`runner.py`, `drain.py`) | the unit's process | sign, open a session, turn, settle, release, drain | SIGTERM and SIGKILL at any point, cancel racing the outcome |
| Acceptance (`accept.py`, `integration.py`) | `integration_journal`, the root repository | probe, stage, verify, commit, settle; undo | crashes between git and the journal, the operator working in the same tree |
| systemd backend (`units.py`) | loaded units | start, show, kill, stop, reset-failed | a name in use, a lost answer, a unit forgotten on success |
| Docker backend (`docker_units.py`, `controller.py`, `execution.py`) | launch records, `admission.json`, `maintenance.json`, submissions, containers | start, show, stop, reset, two recoveries, maintenance, interruption | the controller dies between record and container; the Engine performs a request after its answer was given up |
| Provider status (`service.py`, `limits.py`, `store.py`) | `provider_status` | refuse, mark healthy, eligible | turns of one account end in any order |
| Access checks (`access_checks.py`, `auth_context.py`) | `native_checks` | claim, finish, show | processes and logins that change under a check |
| Acceptance gates (`service.py`, `review.py`) | diff receipts, reviews, dispositions, acknowledgements | record, check, apply | evidence bound to a candidate while the next one is made |
| Dispatch policy (`policy.py`, `policy_promotion.py`, `web/policy_store.py`) | policy document, revisions, a staged promotion | ladder, budgets, save, promote, roll back | compare-and-set, counting after admission |
| ACP conversation (`acp_client.py`, `rpc.py`) | one agent process | initialize, session, select, prompt, permission, cancel | asynchronous messages and timeouts |
| Muse and Antigravity (`muse_msp.py`, `muse.py`, `agy_cli.py`) | command journal, usage rows | prompt, replay, settle, refuse | a command whose fate is unknown must not be repeated |
| Retention and log (`retention.py`, `oplog.py`) | scratch directories, log generations, `dedup.json` | gc, cleanup, emit, count, rotate | races with a continued task, several writers |
| Web, CLI, doctor, setup, metrics | readers | - | - |

What makes them correct, in one line each: *acceptance* - the task's state tells the truth about
the repository; *recovery* - whatever died, the task is settled, and never against the facts;
*leases* - never more turns than slots, and every slot comes back; *worker* - a turn runs only
for a task that says so, and what it produced is stored; *dispatch* - whoever waits is started;
*Docker backend* - a launch identity runs once; *provider status* - the seat is closed on the
provider's word and opened on newer word; *gates* - what lands is what was read and reviewed;
*policy* - no edit is lost and a budget is not overrun; *conversation* - the outcome is true to
what the agent did; *retention* - nothing in use is deleted.

## 2. Modules

| Module | Models | State | Actions |
| --- | --- | --- | --- |
| `TaskStates` | the states and transition tables | - | `MayMove` is what `service.transition` lets through |
| `Acceptance` | landing one candidate | `task`, `journal`, `repo`, `unit`, `srv` | server calls (`AcceptTask` ... `RejectTask`), the sweep (`SweepList` ... `SweepApply`), the accept unit (`UnitBegin` ... `UnitReturn`), the operator and the faults |
| `AcceptanceProofs` | theorems about `Acceptance` | - | - |
| `Dispatch` | running the turns of some tasks on one provider | `task`, `lease`, `unit`, `proc` | calls, the sweep, the dispatch pass, the worker, faults and time |
| `DispatchProofs` | theorems about `Dispatch` | - | - |
| `AtomicAccept` | what accepting promises, in one step | `verdict`, `landed` | `Begin`, `Land`, `Accept`, `Record`, `Return`, `Park`, `Reject` |
| `DockerUnits` | the Docker backend behind its controller | fence, `record`, `engine`, `wire`, `op`, `sweep` | the controller's requests (`dispatch`), their continuation after an answer (`Resume`), the Engine, crashes and time (`Environment`) |
| `PolicyRules` | the policy's rules as operators | - | `Deficit`, the ladder, the brakes, `Refused` |
| `PolicyAdmission` | the document in use (extends `PolicyRules`) | `saved`, `draft`, `staged`, `call`, `tasks`, `turns`, `held` | editors, promotion, the two admission checks of `start_task`, turns, reported windows |
| `AcpTurn` | one turn against an ACP agent | the coroutine's step, the observer, the agent, the evidence | `Client`, `Agent`, permissions, cancel |
| `NativeTurn` | the turns of a Muse or native Antigravity conversation | the task, the command journal, the client, the host, usage rows | `TaskStep`, `MuseStep`, `HostStep`, `AgyStep` |
| `ReviewGate` | the gates of `accept_task` and `record_integration` | candidates, receipts, reviews, profiles, acknowledgements, `claim` | reading, repairing, reviewing, accepting |
| `ProviderEvidence` | `limits.py`'s reading of errors as operators | - | `status_key`, the classifiers |
| `ProviderAccess` | the seat and the checks of its login (extends `ProviderEvidence`) | `status`, `left`, `turn`, `native`, `check` | turns, checks, a new login, time |
| `Retention` | gc, `cleanup_task`, the operational log | the task, `tmp`, `aside`, `gc`, `log`, `dedup`, `writer` | `TaskStep`, `GcStep`, `LogStep` |
| `ReviewGateProofs`, `NativeTurnProofs`, `DockerUnitsProofs`, `PolicyAdmissionProofs`, `ProviderAccessProofs` | theorems about the module of that name | - | - |
| `TurnAndRetentionProofs` | theorems about `AcpTurn` and about `Retention` | - | - |
| `MC...` | constants for TLC | - | - |

Granularity: a SQLite transaction is one step, a systemd or git command is one step, and between
any two of them another process may run or this one may die. Each module says which row a process
read earlier and still goes by (`seen`).

`Dispatch` and `Acceptance` split the life of a task at RESULT_READY: the first never moves a task
to ACCEPTING, the second starts with a candidate. Definitions headed *Faulty variant* are not part
of any specification; each is a plausible slip in the definition that follows it, used to confirm
that the property it threatens can fail.

### Acceptance, as an abstraction

- A commit is a place in the object store (`repo.commits`): its parent, and how many commits of its
  history carry the candidate. `repo.head` is the branch; a reset may take a commit off the branch,
  and it stays in the store. `repo.applied` says the candidate's content sits uncommitted in the
  tree, `repo.dirt` whether the operator has edits on the candidate's paths or elsewhere.
- `abort_staged` is three commands, and three steps of the sweep or of the unit: HEAD compared,
  `git status`, `git reset --hard`. The reset asks nothing again; an edit made to a tracked path
  since the status goes with it, a new file stays. `CHERRY_PICK_HEAD` never exists under
  `--no-commit`, so its branch is not modelled.
- `OperatorCommits` is `git commit -- <paths>`: it takes no staged candidate content with it.
- The phase `verified` is declared in `integration.PHASES` and never written, so it is absent.
- The gates of `accept_task` are taken as passed; they are `ReviewGate`'s subject.

### Dispatch, as an abstraction

- One provider, with `Limit` slots; availability, budgets, the admission fence and Muse's
  unresolved commands belong to `ProviderAccess`, `PolicyAdmission`, `DockerUnits` and
  `NativeTurn`. The backend is systemd; the Docker backend's extra look at the previous unit
  before a claim (`requires_inactive_previous_turn`) is not modelled.
- Turn rows are not modelled: a waiting continuation always has its open turn.
- A sweep lists each task once, where the code lists state by state; its lease read and its
  `systemctl show` are one step, as are the checked release of `_release_finished_leases` (whose
  transaction compares the whole lease row again).
- Ages: a heartbeat is fresh or stale (30 s), a lease also from another boot; a sweep compares
  with the moment it began, hence `aged`. The ten minutes of NEVER_STARTED and the thirty seconds
  of the cancel escalation may have passed or not at any look.
- SIGTERM before the handler is installed, or after it is removed, ends the process; systemd
  counts that as a clean exit and forgets the unit.
- A start whose answer is lost either started the unit by then or never will.

### AtomicAccept, and what implements it

`Acceptance` maps the task row to a verdict and "HEAD's history holds the candidate" (`Landed`) to
`landed`. In the instance `accept_one_server` every step of `Acceptance` is then a step of
`AtomicAccept` or invisible to it, and `WF(Settle)` of the abstract specification is met: a decision
that was begun is settled. With another crash point, a second server or an operator who commits it
is not (*Divergences*), so the refinement is a result of TLC about that instance and not a theorem.
Two exits are part of the promise because the code has them: `Park` (RECOVERY_AMBIGUOUS, the
operator decides) and `Record` (the operator's word that the candidate was integrated by hand).

### The other modules, as abstractions

- `DockerUnits`: a container is its status, a record its phase, generation and exit evidence. A
  request is in `wire` until the Engine performs it or it is lost, also after the controller gave
  up on it or died; a removal shows "removing" until it is done. An hour, after which an absent
  container is proof, passes only when no create request is on its way (every client timeout is
  shorter). Mounts, image, limits and log capture are left out.
- `PolicyRules` and `PolicyAdmission`: shares are integers (hundredths of a point); one ladder
  and one turn budget, of the steered provider; the windows a provider reports enter with the
  submission. Token budgets follow the turn budget's rules and are left out, as are pausing and
  the document's syntax.
- `AcpTurn`: an update's text is a count of chunks. The session mode set by `set_mode` is not a
  protected value in the code, so an agent that leaves it is not caught; an agent that refuses a
  selection and announces the unchanged value is reported as a mode switch. `_settle` is two steps,
  its read of the stored state and its write; `_finalize` may fail before them, which `run_worker`
  settles as FAILED with WORKER_ERROR. Its other store writes are taken to succeed, and a SIGTERM
  comes only after CANCELLING was stored.
- `NativeTurn`: `muse.qualification()` disables Muse in this release; whether it qualified is
  chosen in `Init`. A native Antigravity session always has a resolved model, so the branch
  without one is not modelled. A usage report has some of the counters, or none, and the baseline
  is taken counter by counter. A new Muse session that cannot be recovered ends FAILED here and
  RECOVERY_AMBIGUOUS in the code; neither is continued.
- `ReviewGate`: a diff is its digest and size, read page by page. A review's subject is the
  candidate at the time it is prepared, as in `_review_diff`. `record_integration` is its gates and
  two transitions, the first pinned and the second not; a sweep may give the task back in between.
  What `accept_task` started ends in one step (`AcceptEnds`); how is `Acceptance`'s subject.
- `ProviderAccess`: one model per profile, so a refusal scoped to a model is one of the profile.
  An error is a record of the fields `classify_acp_error` reads, with a mark for text that a tool
  wrote. A worker looks at the status in one step and prompts in a later one.
- `Retention`: a scratch directory is the last turn that used it, a log file its size. A process
  that dies between taking a count out of `dedup.json` and reporting it is not modelled.

## 3. Runs

Every run passes, and each of its properties has a faulty variant of the code that breaks it. Where
the code does not do what a comment or a doc of it says, the run's constants leave that out, and
*Divergences* names the change of constants, or the definition, that shows it. The modules' type
invariants say nothing about the code and are kept for the proofs.

| Run | Instance | Shows |
| --- | --- | --- |
| `accept_one_server` | 1 server, 2 faults, operator edits | `ImplementsAtomicAccept`: the settled task agrees with the repository, and every accept ends. `AcceptedMeansLanded`, `ReturnedMeansUndone`: the parts of that which reach into the tree. `JournalCoversApply`: uncommitted candidate content is always journalled |
| `accept_two_servers` | 2 servers, 1 fault at any point, operator commits | `LandedOnce` under racing sweeps and accepts, resets that come late included. `AcceptedMeansCommitted`: whatever the sweeps race, ACCEPTED is said only of a candidate that was committed, or by a recovery that may have met a commit of the operator's. `AcceptingEnds` |
| `dispatch_one_task` | 1 task, 1 server, drain, 2 faults of any kind but a refused claim | `TurnHoldsLease`, `TurnIsOwned`: a running turn is counted and owned. `CancelEnded` |
| `dispatch_progress` | 1 task, 1 server, drain, 2 faults (server, start, claim), continuations and cancels | `DispatchedInTheEnd`, `LeaseReturned` |
| `dispatch_queue` | 2 tasks, 1 slot, 1 server, drain, no fault | `LeasesWithinLimit`: the server and the draining workers list, count and claim at once and never make a second lease. `DispatchedInTheEnd` for whoever lost the race for the slot |
| `docker_launch` | a worker with two identities, an accept unit, 2 launches, 1 maintenance owner | `IdentityRunsOnce`, `FailedLeavesNothing`: what a record says of a launch is true of the Engine, late requests included. `QuietStaysQuiet`: a closed fence that saw no jobs stays without |
| `policy_admission` | 2 servers, 1 editor, a promotion, 2 tasks, budget 1 or 2 | `EditsNotLost`, `BudgetOvershoot`, `SecondOpinionsIndependent`, `SteppedUpWithRoom` |
| `acp_turn` | 1 turn, 2 protected options, 1 drift, 1 chunk | `SelectionKept`, `EvidenceKept`, `CancelHonoured`, `TurnEnds` |
| `review_gate` | half of it: 2 candidates of different size, 1 review task, 2 receipts; the other half: 3 candidates, no review task, 2 receipts | `CoverageSound`: the merge and walk over receipts never call a diff with a gap complete. `AcceptedWasReviewed`, `AcceptedWasRead`, `AcceptedIsClean`, also of a candidate that was given back, repaired and accepted between the two transitions of a `record_integration` |
| `provider_access` | 2 turns over 3 profiles of 2 accounts, 2 checkers, 1 new login | `NewerRefusalKept`, `WindowRespected`, `HeldTurnsRun`, `ShownIsCurrentLogin` |
| `retention` | 3 turns, gc, 2 writers, 2 generations, 4 failures | `ScratchNotLost`, `RepeatsAccounted` |
| `native_turn` | 2 Muse turns or 3 Antigravity turns, 2 events a turn, 2 counters | `CommandsSettled`, `AnswerComplete`, `UsageAddsUp` |

### Divergences

Each row is an instance on which TLC finds the property violated and prints the steps. Properties
that no run checks are defined in the module for this table.

| Run changed, and how | Fails | Because |
| --- | --- | --- |
| `accept_one_server` with `CrashPoints <- EveryPoint` | `ImplementsAtomicAccept` | `_recover_accept` clears the journal before the task is moved (orchestrator.py:411); a server killed in between leaves an ACCEPTING task that the next sweep reports as aborted although it landed. orchestrator.py:389: "A failure to settle it is never reported as an abort" |
| `accept_one_server` with 2 servers, no fault | `JournalCoversApply` | another server sweeps between `accept_task`'s transaction and the unit's start, finds no unit and clears the journal under the unit that starts next (integration.py:186 promises that a crash mid-apply is always recoverable) |
| `accept_one_server` with `"commit"` in `OperatorActs`, `MaxCommits` 2 | `AcceptedMeansLanded` | `commit_landed` compares HEAD^ only, so the operator's commit on the journalled head passes for the accept's (docs/recovery.md:227) |
| the same | `ReturnedMeansUndone` | when HEAD moved under the cherry-pick the undo is refused, the journal cleared and the task handed back with the conflict in the tree (accept.py:119; accept.py:216 says "The apply was undone") |
| `accept_one_server` | `ForeignEditsKept` | an edit between `git status` and `git reset --hard` is discarded (integration.py:346; integration.py:144: an edit made in flight "can never be discarded by a recovery") |
| `accept_one_server` with 2 servers, no fault | `BranchOnlyGrows` | a sweep that asked before the unit started undoes what the unit meanwhile committed: HEAD was compared before the commit and is reset after it (docs/recovery.md:233: "refused outright if HEAD has moved") |
| `dispatch_one_task` with 2 servers, 1 fault | `TurnHoldsLease` | a sweep's release, after its transition and by task id, takes the lease of a turn another server started meanwhile (recovery.py:490; docs/concurrency.md:95: recovery releases "the exact task lease") |
| `dispatch_one_task` with 2 servers, 1 failed start, drain off | `TurnIsOwned` | after a failed start the lease is released and FAILED written unpinned; another server may have started the task in between (orchestrator.py:1300) |
| `dispatch_one_task` with `"claim"` in `FaultKinds` | `TurnIsOwned` | a pass that lists a task just started, before its worker is RUNNING, checks profile and login before the lease; a refusal writes FAILED unpinned, by then over the running turn (orchestrator.py:1272; the error says "changed before task admission", orchestrator.py:1239, of a task that was admitted and started) |
| `dispatch_progress` with `"worker"` or `"reboot"` in `FaultKinds` | `LeaseReturned` | the lease of a worker killed after settling is taken back only while its task is settled; a continuation comes first, and then waits for that lease (recovery.py:208) |
| `acp_turn` | `LateCancelKeepsTurn` | a cancel stored between `_settle`'s read and its write makes the outcome illegal; it is settled as WORKER_ERROR and the candidate is not stored (runner.py:1684, against the comment at 1677) |
| `review_gate` | `RecordedWasRead` | `record_integration`'s second transition is unpinned (orchestrator.py:1755): it can record a candidate nobody read for it |
| `review_gate` | `EveryFindingDisposed` | a finding whose id is the verdict's name is filtered out of the open ones (service.py:800; docs/tools.md:700: "*every* finding needs some disposition") |
| `provider_access` with `Errors <- MCToolErrors` | `ToolOutputIgnored` | `classify_acp_error` says Grok's text is never evidence, and applies the usage-limit text to every family (limits.py:456; docs/architecture.md:216: tool output does not change account state) |

`MCToolErrors` also keeps the words of a tool's failure out of `provider_access`.

The number of *turns* on a provider is bounded by its slots only as far as `TurnHoldsLease` goes: a
late release uncounts a turn that runs on, and the slot is given away. `LeasesWithinLimit` is what
the code keeps.

Seen in the models, with no property of the code left to state:

- A continuation requested before the previous worker exited is refused by systemd and fails the
  task (orchestrator.py:1573 takes the previous unit for gone; docs/recovery.md:10: "Work is never
  thrown away").
- `cancel_task` and `continue_task` always refuse a RECOVERY_AMBIGUOUS task, since the sweep they
  rely on does not list that state (orchestrator.py:1587; docs/recovery.md:192 describes the
  cancel). For the same reason a refused undo is never tried again (docs/recovery.md:237).
- The undo resets edits of the operator on the candidate's *own* paths, which the comment at
  integration.py:145 excludes.
- A container whose removal is slow is seen as "removing" by the next look, which writes
  "unknown" over the exit evidence of a finished record; the record's own validation then refuses
  it for good, although docker_units.py:854 says "Persist evidence before deleting the Docker
  object."
- docs/dispatch-policy.md:141-143 says that a share sitting on a threshold cannot flip the step
  from one task to the next. The held level is the one the provider's last filled task used, and a
  role with a shorter ladder uses less than the level it was on; the next task starts from that.
- `cleanup_task` reads the state once and looks at no lease, so a consult task that another server
  continues meanwhile loses its workspace and scratch (docs/logging.md and docs/recovery.md:262
  describe gc's care, not this). A cleaned-up COMPLETED task can still be continued, and fails;
  `cleanup_state` is not reset. A gc that dies after its rename leaves `tmp.gc-<pid>` for ever.
- `access_checks`' docstring says an exhausted native quota can gate availability;
  `provider_availability` never reads it. Its own docstring speaks of one ordinary attempt after a
  window, where several turns may prompt. A new login does not clear a refusal.

### Bounds

`MaxVersion` stops new requests on a task once its version reached it; steps already under way go
on. An accept is two versions, so 4 gives a second accept after a failed one. A first turn ends at
version 4, so 5 gives a continuation and 6 a cancel of it (`UpToSix`); `UpToOne` only starts the
two tasks of `dispatch_queue`, each of which claims at least once, and a claim counts anew.
A fault there multiplies the states by two and adds no claim that the theorem `LeasesLimited` does
not cover; `dispatch_progress` has the faults, with one task.
`MaxFaults` counts kills, reboots, failed starts; 2 lets a second process die while the first
death is recovered. `MaxCommits` bounds the commits beyond which the operator adds none; 2 lets one
come before or after the accept's own.
Two servers are enough for every race here: each race is between one process that acts on an old
read and one that changed it. `MaxVersion` 10 of `ReviewGate` is two accepts that were given back
and a repair between the two transitions of a `record_integration`.

In the other modules one of each actor is enough except where two race: two servers admit, two
checkers claim, two turns share an account, two writers count. Two launches of one unit let an
identity be launched again and a next one follow; two candidates let evidence outlive the one it is
about; two events let one precede the acknowledgment and one be repeated; three Antigravity turns
let a lost usage row lie between two recorded ones, and two counters let one be missing where the
other is reported. Diffs of two and three bytes with pages of one and two leave gaps, overlaps and
a short last page.

`MCProviderAccess`, `MCRetention` and `MCDockerUnits` add a variable `side`, chosen at the start,
that lets one half of the module rest: halves that share only the clock and the login, gc, or the
fence. Each half is explored completely beside what they share; only schedules in which both
halves move are left out. `MCReviewGate`'s `side` gives each half bounds of its own: reviews and
dispositions in the first, an overtaken `record_integration` in the second. No run checks deadlock: a task that is settled and not touched again is a legitimate end.

### Fairness

Processes run until they are killed: weak fairness of the unit, the worker, a sweep, a dispatch
pass. A tool call is the system's heartbeat (docs/recovery.md: "it runs on every tool call"), so
liveness is claimed under calls that keep coming (`BeginCall`) and are not for ever read-only
(strong fairness of `OtherCall`; a read-only call never dispatches). Turns end since each has a
timeout. Time passes (`HeartbeatAges`, `LeaseAges`). No fairness is asked of faults, requests or
the operator. `AcpTurn` asks it of the client only, every await of which has a timeout: a silent
agent owes nothing. `ProviderAccess` asks it of time and of the dispatch of a held turn.

## 4. Proofs

Every theorem holds for all values of the constants that meet the assumptions named in the module
that declares them. Each proof has the same shape: an inductive invariant, `Init` implies it, one
lemma per group of actions that keep it, and it implies the property. The invariants below were
checked by TLC on instances of the runs before they were proved.

### Acceptance

`AcceptanceProofs`, for every set of servers, crash points and bounds:

- `TypeCorrect`: `Spec => []TypeOK`. The type of a commit named by a row or a process rests on
  `CommitsKnown`: every such commit is in the object store, which only grows.
- `LandsOnce`: `Spec => []LandedOnce`, from `CarriedOnce`: no commit's history carries the candidate
  twice, and content is applied only where HEAD does not carry it. It holds whatever the operator
  does and however late a reset comes.
- `AcceptedCommitted`: `Spec => []AcceptedMeansCommitted`, whatever the operator does. The property
  alone is not inductive: a unit that is about to settle, a journal that says committed and a sweep
  that carries the outcome committed all have to be right already. `CommitAccounted` says so, and
  adds that as long as the candidate is not committed, the object store holds more than the first
  commit only if the operator commits; that is what makes the inference from HEAD^ sound without
  him, and why only a recovery can err with him.

### Dispatch

`DispatchProofs`, for every finite set of tasks, and every servers, modes, limit, faults and bounds:
`LeasesLimited`: `Spec => []LeasesWithinLimit`. Each step either takes no lease (`NoLeaseTaken`) or is
the claim, which counts inside the transaction that inserts (`LeaseTaken`).

### Gates

`ReviewGateProofs`, for every set of providers, families, reviews, diffs and requests:
`TypeCorrect`; `CleanIsAccepted` and `ReviewedIsAccepted` (`AcceptedIsClean`,
`AcceptedWasReviewed`), from `GatesHold`. Its part `ManualFresh` is about a `record_integration`
under way: what its gates found of the candidate they looked at stays so, and that candidate is the
latest as long as the version they read is the task's. The first transition is pinned to that
version, the second is not, and so `AcceptedWasReviewed` speaks of the candidate the call looked at;
that what is recorded may be another is `RecordedWasRead` of *Divergences*. `CoverageHolds`:
`Spec => []CoverageSound`, and from it and `ReadHeld`, `ReadIsAccepted`: `Spec => []AcceptedWasRead`.

`CoverageSound` is about two folds, the merge of the sorted receipts and the walk over the merged
ranges. `ReceiptsFinite` makes the sorted sequence exist. Then, by induction over the prefix that was
folded: every byte of a merged range lies in a page that was handed out (`Ranges`), and as long as
the walk met no gap, so does every byte before its cursor (`Walks`).

### Conversation

`TurnAndRetentionProofs`, for every selection, mode and number of drifts and chunks: `TypeCorrect`,
`CancelIsHonoured`, `SelectionIsKept`, `EvidenceIsKept`. `CancelKept` is about the two steps of
`_settle`: a cancel that was stored while the agent was there is in what the first one read, so that
the second records CANCELLED unless a precondition or the finalisation failed.
`ProtectionKept` says that an old value is tolerated only while its selection is awaited, that every
later change is remembered, and that what is remembered is raised before the turn ends;
`EvidenceHeld` that the capture is open exactly during the prompt and holds all that was said.

### Docker

`DockerUnitsProofs`, for every set of units and owners and any number of launches:
`RunsAtMostOnce`, `FailedIsDead`, `QuietIsStable`. `LaunchesHeld` is about generations: one that
its unit's record no longer names is over - neither created nor running, and no create on its way
(`ReplacedIsOver`) - and a record is replaced by a launch of the same identity only when it says
failed, which is true of the Engine (`PhaseTrue`). `QuietIsOver` adds that under a quiet fence all
generations are over and none is reserved.

### Policy

`PolicyAdmissionProofs`, for every set of servers, editors, patches, tables and requests:
`NoEditIsLost` (from `EditsHeld`: every draft and the staged promotion hold the revision they
name), `OpinionsAreIndependent`, and `OvershootBounded`: `BudgetOvershoot`, if the turns already in
the window at the start are within the initial budget plus the servers less one (`StartsWithin`;
the model may start with any history, the bound is on what admission adds). `BudgetHeld` counts
turns and submissions still to be counted together: each server has one under way.
`StepsUpWithRoom`: `Spec => SteppedUpWithRoom`, an action property. `LevelFits` follows a level above
the base back through the brakes and the hysteresis to the points and the budget; that the points
are a number needs the type of a sum over the providers (`SumType`), and that a step above the
base was not one below it needs `LaddersHeld`, that every document loaded, staged or saved has
lists for ladders.

### Provider

`ProviderAccessProofs`, for every set of turns, profiles, errors and checkers: `ShownIsCurrent`, and
the action properties `RefusalOutlivesSiblings` and `PromptsKeepOut`. `StatusHeld` rests on who wrote
a row: a turn writes one only as it settles, so a row written after a turn read its snapshot is not
the row it read (`LateSeesAnother`), which is what the compare-and-clear of a success needs. Its
part `CheckedOutside` is about the step between a worker's look at the status and its prompt: a
window that was open when it looked has ended, was overridden, or was recorded after the look.

### Native turns

`NativeTurnProofs`, for any number of turns, events, messages and tokens:

- `CommandsAreSettled`: `Spec => []CommandsSettled`. `JournalTrue` ties the journal to what became
  of each command: one that was sent has an intent, the intents of earlier turns have outcomes, and
  an outcome is recorded only of a command that is over.
- `AnswersAreComplete`: `Spec => []AnswerComplete`. `TalkFits` is about one turn's stream: what the
  client knows of the reply is true (`Truthful`), events are read in the order they were sent
  (`InOrder`), and each one read is either captured once or waits among those that came before the
  acknowledgment (`CapturedOnce`), which the replay then captures.
- `UsageIsAccounted`: `Spec => []UsageAddsUp`, for every set of counters. `UsageHeld` says that the
  baseline of a turn under way is the last row until the turn writes its own, and that the rows are
  of earlier turns (`Sessions`: a turn continues the session exactly if it is not the first). So a
  new row continues its predecessors counter by counter (`Continues`), and what was counted so far
  adds up to the last total of the unbroken run of reports (`RowsAddUp`).

### Retention

`TurnAndRetentionProofs`, for any number of turns and failures and every finite set of processes:

- `RepeatsAreAccounted`: `RetentionSpec => []RepeatsAccounted`. `CountsHeld` adds that a
  process that is not about to report carries no count, and `OwedChange` that a sum over the
  processes changes by what one of them changes.
- `ScratchIsKept`: `RetentionSpec => ScratchNotLost`. `OneWorkerPerTurn`: a turn that has used a
  directory is not waiting for a worker again. So, in `AsideIsOver`, when gc reads free leases
  after it moved the directory of the latest turn aside, that turn is over for good; a continuation
  has a later number.

### Induction and folds

Induction comes from the well-foundedness of < alone: `LeastNumber` picks the least
counterexample from a set of them, `CountingUp` concludes. The folds of the community modules are
recursive functions given by CHOOSE, so what they compute holds once such a function is proved to
exist: `TableExists` builds it for a fold over a sequence prefix by prefix, `SumTableExists` for a
sum over a finite set, by the size of its subsets. The modules that need these lemmas each hold
them.

### Only model-checked

The theorems are about what the code keeps for all values of the constants. What it keeps only
where some race or crash is left out stays with TLC, in the instances of section 3, since a theorem
would have to assume away what the property is about: `AcceptedMeansLanded`, `ReturnedMeansUndone`,
`JournalCoversApply` and `ImplementsAtomicAccept` (one server, no commits of the operator, no death
between clearing a journal and moving its task), `TurnHoldsLease` and `TurnIsOwned` (one server, no
refused claim). So does what the prover does not do, fairness and ENABLED: the liveness
properties `AcceptingEnds`, `CancelEnded`, `DispatchedInTheEnd`, `LeaseReturned`, `TurnEnds` and
`HeldTurnsRun`.

## 5. Plan

1. `TaskStates`, `Acceptance`, `Dispatch` with their runs; theorems about `Acceptance` and the
   leases (done).
2. `DockerUnits`, `PolicyRules` and `PolicyAdmission`, `AcpTurn`, `NativeTurn`, `ReviewGate`,
   `ProviderEvidence` and `ProviderAccess`, `Retention`; `AtomicAccept` and its refinement (done).
3. Theorems about every module with a specification: each safety property that the code keeps
   without hypotheses about who runs beside it (done).
4. `Dispatch` with a second server: a weaker form of `TurnHoldsLease` that survives it.

## 6. Not modelled

- Doctor, setup, enrollment, discovery and host controls probe the host once and keep no state
  that another process changes.
- The CLI and the MCP server parse arguments and call the operations modelled here. The web
  dashboard reads; its one write is `PolicyAdmission`'s `SaveDraft`.
- Metrics, usage reports and utilization are sums over rows for display. Schema migrations and
  report queries of `store.py` likewise decide nothing.
- git plumbing, worktree construction and provider profiles enter through the states the modules
  act on. Launch policies of the native adapters, container options and the transport to the
  controller are configuration.
