----------------------------- MODULE Acceptance -----------------------------
(***************************************************************************)
(* Landing one candidate in the operator's repository.                     *)
(*                                                                         *)
(* One implement task with a candidate, the root repository, the accept    *)
(* unit (accept.py: a process of its own) and the server processes that    *)
(* share the task database.  A server handles accept_task,                 *)
(* record_integration and reject_task, and sweeps (recovery.reconcile) an  *)
(* ACCEPTING task on every tool call.  No lock spans two database          *)
(* statements or a git command, so every such boundary is a step here: a   *)
(* process can be killed at it and another process can run in it.          *)
(*                                                                         *)
(* A commit is its place in the object store (repo.commits), where it      *)
(* stays although a reset may take it off the branch; it knows its parent  *)
(* and how many commits of its history carry the candidate.                *)
(***************************************************************************)
EXTENDS Naturals, Sequences, TaskStates

CONSTANTS
    Servers,        \* processes that run tool calls and sweeps over one database
    MaxVersion,     \* bound: no new request once state_version reached it
    MaxFaults,      \* bound: killed servers, killed units and reboots together
    MaxCommits,     \* bound: no commit of the operator's own beyond that many commits
    CrashPoints,    \* the server program points at which a server may be killed
    OperatorActs    \* what the operator does in the root meanwhile

ServerPC == {"idle", "starting", "abandon", "unaccept", "recording",
             "show", "recover", "head", "status", "reset", "clear", "apply"}

ASSUME ServersAssumption == Servers # {}
ASSUME BoundsAssumption == MaxVersion \in Nat /\ MaxFaults \in Nat /\ MaxCommits \in Nat
ASSUME FaultAssumption == CrashPoints \subseteq ServerPC
ASSUME OperatorAssumption == OperatorActs \subseteq {"edit own", "edit foreign", "commit"}

VARIABLES
    task,       \* the row of tasks: state, state_version, unit_name, boot_id, heartbeat
    journal,    \* the row of integration_journal, phase "none" when there is none
    repo,       \* the root repository
    unit,       \* the accept unit: its process and what systemd says of it
    srv,        \* what each server is in the middle of
    faults      \* faults so far

vars == <<task, journal, repo, unit, srv, faults>>

---------------------------------------------------------------------------
(* The database rows. *)

Reasons == {"candidate", "accept", "unit", "recovery", "recorded", "rejected"}

TaskRow == [state : TaskState, version : Nat, unit : {"worker", "accept"},
            boot : {"this", "earlier"}, heartbeat : {"fresh", "stale"},
            reason : Reasons]

Phases == {"none", "probing", "staged", "committing", "committed"}

JournalRow == [phase : Phases, target : Nat]

NoJournal == [phase |-> "none", target |-> 0]

(* Edits the operator made to paths the candidate touches ("own" to the
   journal) and to any other path ("foreign"). *)
Dirt == {"own", "foreign"}

Commit == [parent : Nat, carries : Nat]

RepoState == [head : Nat, commits : Seq(Commit), applied : BOOLEAN, dirt : SUBSET Dirt]

UnitPC == {"none", "begin", "stage", "pick", "verify", "head", "status", "reset",
           "committing", "commit", "committed", "settle", "tidy", "giveup", "return"}

(* undoes: which step failed, while the apply is being undone. *)
UnitRow == [pc : UnitPC, kind : {"not_found", "active", "exit", "signal"}, target : Nat,
            undoes : {"none", "pick", "verify"}]

NoUnit == [pc |-> "none", kind |-> "not_found", target |-> 0, undoes |-> "none"]

Outcomes == {"none", "committed", "aborted", "manual", "ambiguous"}

(* seen is the task row a sweep listed, target the head in the journal it read,
   outcome what it decided. *)
ServerRow == [pc : ServerPC, seen : TaskRow, target : Nat, outcome : Outcomes]

CandidateReady ==
    [state |-> "RESULT_READY", version |-> 0, unit |-> "worker", boot |-> "this",
     heartbeat |-> "fresh", reason |-> "candidate"]

IdleServer == [pc |-> "idle", seen |-> CandidateReady, target |-> 0, outcome |-> "none"]

TypeOK ==
    /\ task \in TaskRow
    /\ journal \in JournalRow
    /\ repo \in RepoState
    /\ unit \in UnitRow
    /\ srv \in [Servers -> ServerRow]
    /\ faults \in Nat

Init ==
    /\ task = CandidateReady
    /\ journal = NoJournal
    /\ repo = [head |-> 1, commits |-> <<[parent |-> 0, carries |-> 0]>>,
               applied |-> FALSE, dirt |-> {}]
    /\ unit = NoUnit
    /\ srv = [s \in Servers |-> IdleServer]
    /\ faults = 0

---------------------------------------------------------------------------
(* service.transition on this row; the task's mode is implement, which no
   state is forbidden to. *)
CanMove(to) == MayMove("implement", task.state, to)

Moved(to, reason) ==
    [task EXCEPT !.state = to, !.version = @ + 1, !.reason = reason]

AtHead == repo.commits[repo.head]

(* HEAD's history holds the candidate. *)
Landed == AtHead.carries > 0

(* git commit: a commit on top of HEAD, of the candidate or of something else. *)
Committed(candidate) ==
    [repo EXCEPT
       !.commits = Append(@, [parent |-> repo.head,
                              carries |-> AtHead.carries + IF candidate THEN 1 ELSE 0]),
       !.head = Len(repo.commits) + 1]

Goto(s, pc) == srv' = [srv EXCEPT ![s].pc = pc]

Done(s) == srv' = [srv EXCEPT ![s] = IdleServer]

(* integration.commit_landed: HEAD is not the target and HEAD^ is. *)
CommitLanded == repo.head # journal.target /\ AtHead.parent = journal.target

(* integration.abort_staged looks twice before its reset, each time with a git
   command of its own: is HEAD the journalled target, and does git status name a path
   the candidate does not touch.  Either refuses. *)
HeadMoved(target) == repo.head # target

ForeignWork == "foreign" \in repo.dirt

(* ... then git reset --hard and the removal of the candidate's untracked files.
   Nothing is asked again: HEAD goes back to the target, and every edit to a tracked
   path goes with the candidate's content.  Of what was made elsewhere since the
   status, only new files (kept) stay. *)
Reset(target) ==
    \E kept \in SUBSET (repo.dirt \cap {"foreign"}) :
        repo' = [repo EXCEPT !.head = target, !.applied = FALSE, !.dirt = kept]

---------------------------------------------------------------------------
(* Tool calls. *)

(* accept_task, its transaction: the gates pass for a RESULT_READY task at the
   version and target head the caller was shown, the intent is journalled as
   probing and the task becomes ACCEPTING under the accept unit's name.  The
   unit is started after the transaction, in StartAccept. *)
AcceptTask(s) ==
    /\ srv[s].pc = "idle"
    /\ task.state = "RESULT_READY"
    /\ task.version < MaxVersion
    /\ journal' = [phase |-> "probing", target |-> repo.head]
    /\ task' = [Moved("ACCEPTING", "accept") EXCEPT !.unit = "accept", !.boot = "this"]
    /\ Goto(s, "starting")
    /\ UNCHANGED <<repo, unit, faults>>

(* systemd-run took the unit. *)
StartAccept(s) ==
    /\ srv[s].pc = "starting"
    /\ unit.kind = "not_found"
    /\ unit' = [NoUnit EXCEPT !.pc = "begin", !.kind = "active"]
    /\ Done(s)
    /\ UNCHANGED <<task, journal, repo, faults>>

(* systemd-run refused: always while a unit of that name is loaded, which one
   that exited non-zero or was killed stays until something resets it. *)
RefuseStart(s) ==
    /\ srv[s].pc = "starting"
    /\ Goto(s, "abandon")
    /\ UNCHANGED <<task, journal, repo, unit, faults>>

(* systemd-run timed out and nothing started: _uncertain_start only writes the
   error, the task stays ACCEPTING for a sweep to settle. *)
TimeoutStart(s) ==
    /\ srv[s].pc = "starting"
    /\ Done(s)
    /\ UNCHANGED <<task, journal, repo, unit, faults>>

(* _abandon_accept, first statement. *)
AbandonJournal(s) ==
    /\ srv[s].pc = "abandon"
    /\ journal' = NoJournal
    /\ Goto(s, "unaccept")
    /\ UNCHANGED <<task, repo, unit, faults>>

(* _abandon_accept, last statement: unpinned, and a refused move is suppressed. *)
AbandonTask(s) ==
    /\ srv[s].pc = "unaccept"
    /\ task' = IF CanMove("RESULT_READY") THEN Moved("RESULT_READY", "accept") ELSE task
    /\ Done(s)
    /\ UNCHANGED <<journal, repo, unit, faults>>

(* record_integration, first transition: pinned to the version the caller saw;
   unit_name and boot_id are left as they are and no journal is written.  The
   head it names may be any commit of the repository but the base. *)
RecordIntegration(s) ==
    /\ srv[s].pc = "idle"
    /\ task.state = "RESULT_READY"
    /\ task.version < MaxVersion
    /\ task' = Moved("ACCEPTING", "recorded")
    /\ Goto(s, "recording")
    /\ UNCHANGED <<journal, repo, unit, faults>>

(* record_integration, second transition: unpinned, an illegal move raises. *)
RecordAccepted(s) ==
    /\ srv[s].pc = "recording"
    /\ task' = IF CanMove("ACCEPTED") THEN Moved("ACCEPTED", "recorded") ELSE task
    /\ Done(s)
    /\ UNCHANGED <<journal, repo, unit, faults>>

RejectTask(s) ==
    /\ srv[s].pc = "idle"
    /\ CanMove("REJECTED")
    /\ task' = Moved("REJECTED", "rejected")
    /\ UNCHANGED <<journal, repo, unit, srv, faults>>

---------------------------------------------------------------------------
(* The sweep.  It lists the ACCEPTING task, asks systemd about its unit, lets
   the journal decide, clears the journal and only then moves the task. *)

SweepList(s) ==
    /\ srv[s].pc = "idle"
    /\ task.state = "ACCEPTING"
    /\ srv' = [srv EXCEPT ![s] = [IdleServer EXCEPT !.pc = "show", !.seen = task]]
    /\ UNCHANGED <<task, journal, repo, unit, faults>>

(* A task accepted by hand still carries its worker's unit name; that worker
   exited 0 and systemd has forgotten it. *)
KindOf(name) == IF name = "accept" THEN unit.kind ELSE "not_found"

(* Faulty variant: a dead accept unit is taken for a running one. *)
SweepShowDeadIsActive(s) ==
    /\ srv[s].pc = "show"
    /\ IF srv[s].seen.boot = "earlier" THEN Goto(s, "recover") ELSE Done(s)
    /\ UNCHANGED <<task, journal, repo, unit, faults>>

(* _reconcile_task up to the point where accept_recover is asked: another boot
   settles it without looking; an active unit ends the sweep of this task; a dead
   one is reset; a forgotten one is decided by the heartbeat. *)
SweepShow(s) ==
    LET seen == srv[s].seen
        kind == KindOf(seen.unit)
        rebooted == seen.boot = "earlier"
    IN
    /\ srv[s].pc = "show"
    /\ \/ /\ rebooted
          /\ Goto(s, "recover")
          /\ UNCHANGED unit
       \/ /\ ~rebooted /\ kind = "active"
          /\ Done(s)
          /\ UNCHANGED unit
       \/ /\ ~rebooted /\ kind \in {"exit", "signal"}
          /\ unit' = NoUnit
          /\ Goto(s, "recover")
       \/ /\ ~rebooted /\ kind = "not_found" /\ seen.heartbeat = "stale"
          /\ Goto(s, "recover")
          /\ UNCHANGED unit
       \/ /\ ~rebooted /\ kind = "not_found" /\ seen.heartbeat = "fresh"
          /\ srv' = [srv EXCEPT ![s].pc = "apply", ![s].outcome = "ambiguous"]
          /\ UNCHANGED unit
    /\ UNCHANGED <<task, journal, repo, faults>>

(* Faulty variant: a commit that was about to be made is taken for made. *)
JournalSaysTrustsIntent ==
    CASE journal.phase \in {"none", "probing"} -> "aborted"
      [] journal.phase \in {"committing", "committed"} -> "committed"
      [] OTHER -> "none"

(* What integration.recover_journal answers from the journal, and under a committing
   one from HEAD^; "none" when it has to undo the apply first. *)
JournalSays ==
    CASE journal.phase \in {"none", "probing"} -> "aborted"
      [] journal.phase = "committed" \/ (journal.phase = "committing" /\ CommitLanded)
           -> "committed"
      [] OTHER -> "none"

(* Orchestrator._recover_accept: the journal read.  The abort that may follow goes by
   this reading. *)
SweepRecover(s) ==
    /\ srv[s].pc = "recover"
    /\ srv' = [srv EXCEPT
                 ![s].outcome = JournalSays,
                 ![s].target = IF JournalSays = "none" THEN journal.target ELSE 0,
                 ![s].pc = CASE journal.phase = "none" -> "apply"
                             [] JournalSays = "none" -> "head"
                             [] OTHER -> "clear"]
    /\ UNCHANGED <<task, journal, repo, unit, faults>>

(* abort_staged, one look: a refusal leaves the tree and the journal as they are. *)
SweepAsks(s, pc, refused, next) ==
    /\ srv[s].pc = pc
    /\ IF refused
         THEN srv' = [srv EXCEPT ![s].outcome = "manual", ![s].target = 0, ![s].pc = "apply"]
         ELSE Goto(s, next)
    /\ UNCHANGED <<task, journal, repo, unit, faults>>

SweepAsksHead(s) == SweepAsks(s, "head", HeadMoved(srv[s].target), "status")

SweepAsksStatus(s) == SweepAsks(s, "status", ForeignWork, "reset")

SweepResets(s) ==
    /\ srv[s].pc = "reset"
    /\ Reset(srv[s].target)
    /\ srv' = [srv EXCEPT ![s].outcome = "aborted", ![s].target = 0, ![s].pc = "clear"]
    /\ UNCHANGED <<task, journal, unit, faults>>

(* Orchestrator._recover_accept, the journal cleared. *)
SweepClear(s) ==
    /\ srv[s].pc = "clear"
    /\ journal' = NoJournal
    /\ Goto(s, "apply")
    /\ UNCHANGED <<task, repo, unit, faults>>

TargetOf(outcome) ==
    CASE outcome = "committed" -> "ACCEPTED"
      [] outcome = "aborted" -> "RESULT_READY"
      [] OTHER -> "RECOVERY_AMBIGUOUS"

(* recovery._apply: pinned to the version the sweep listed. *)
SweepApply(s) ==
    /\ srv[s].pc = "apply"
    /\ task' = IF /\ task.version = srv[s].seen.version
                  /\ CanMove(TargetOf(srv[s].outcome))
                 THEN Moved(TargetOf(srv[s].outcome), "recovery")
                 ELSE task
    /\ Done(s)
    /\ UNCHANGED <<journal, repo, unit, faults>>

---------------------------------------------------------------------------
(* The accept unit: accept.run_accept, one step per statement that reads or
   writes what another process can see. *)

UnitGoto(pc) == unit' = [unit EXCEPT !.pc = pc]

UnitEnds(kind) == unit' = [NoUnit EXCEPT !.kind = kind]

UnitExits == UnitEnds("exit")

At(pc) == unit.kind = "active" /\ unit.pc = pc

(* Read the task and the journal; refuse unless ACCEPTING and journalled.  Then
   probe the merge in memory: clean, or a conflict that ends the accept. *)
UnitBegin ==
    /\ At("begin")
    /\ \/ /\ task.state = "ACCEPTING" /\ journal.phase # "none"
          /\ \E next \in {"stage", "giveup"} :
                unit' = [unit EXCEPT !.pc = next, !.target = journal.target]
       \/ /\ task.state # "ACCEPTING" \/ journal.phase = "none"
          /\ UnitExits
    /\ UNCHANGED <<task, journal, repo, srv, faults>>

(* Faulty variant: nothing is journalled before git applies the candidate. *)
UnitStageUnjournalled ==
    /\ At("stage")
    /\ UnitGoto(IF repo.applied \/ repo.dirt # {} \/ repo.head # unit.target
                  THEN "giveup" ELSE "pick")
    /\ UNCHANGED <<task, journal, repo, srv, faults>>

(* stage_candidate's preconditions, and the journal written as staged before
   git touches anything. *)
UnitStage ==
    /\ At("stage")
    /\ \/ /\ ~repo.applied /\ repo.dirt = {} /\ repo.head = unit.target
          /\ journal' = [phase |-> "staged", target |-> unit.target]
          /\ UnitGoto("pick")
       \/ /\ repo.applied \/ repo.dirt # {} \/ repo.head # unit.target
          /\ UnitGoto("giveup")
          /\ UNCHANGED journal
    /\ UNCHANGED <<task, repo, srv, faults>>

(* git cherry-pick --no-commit; a candidate already in HEAD stages nothing. *)
UnitPick ==
    /\ At("pick")
    /\ "own" \notin repo.dirt
    /\ repo' = [repo EXCEPT !.applied = @ \/ ~Landed]
    /\ UnitGoto("verify")
    /\ UNCHANGED <<task, journal, srv, faults>>

(* The cherry-pick fails: the operator edited one of its paths (git then applies
   nothing) or HEAD moved (git then leaves the conflict in the tree). *)
UnitPickFails ==
    /\ At("pick")
    /\ "own" \in repo.dirt \/ (HeadMoved(unit.target) /\ ~Landed)
    /\ repo' = [repo EXCEPT !.applied = @ \/ "own" \notin repo.dirt]
    /\ unit' = [unit EXCEPT !.pc = "head", !.undoes = "pick"]
    /\ UNCHANGED <<task, journal, srv, faults>>

(* The root verification was not asked for, or every command passed. *)
UnitVerified ==
    /\ At("verify")
    /\ UnitGoto("committing")
    /\ UNCHANGED <<task, journal, repo, srv, faults>>

(* Faulty variant: the apply is left in the tree. *)
UnitVerifyFailsKept ==
    /\ At("verify")
    /\ UnitGoto("giveup")
    /\ UNCHANGED <<task, journal, repo, srv, faults>>

(* A command failed. *)
UnitVerifyFails ==
    /\ At("verify")
    /\ unit' = [unit EXCEPT !.pc = "head", !.undoes = "verify"]
    /\ UNCHANGED <<task, journal, repo, srv, faults>>

(* abort_staged: a refusal ends the accept of a failed cherry-pick (stage_candidate's
   JOURNAL_MISMATCH is caught) and kills the unit after a failed command, with the
   journal kept. *)
UnitAsks(pc, refused, next) ==
    /\ At(pc)
    /\ IF ~refused THEN UnitGoto(next)
       ELSE IF unit.undoes = "pick" THEN UnitGoto("giveup")
       ELSE UnitExits
    /\ UNCHANGED <<task, journal, repo, srv, faults>>

UnitAsksHead == UnitAsks("head", HeadMoved(unit.target), "status")

UnitAsksStatus == UnitAsks("status", ForeignWork, "reset")

UnitResets ==
    /\ At("reset")
    /\ Reset(unit.target)
    /\ UnitGoto("giveup")
    /\ UNCHANGED <<task, journal, srv, faults>>

UnitSaveCommitting ==
    /\ At("committing")
    /\ journal' = [phase |-> "committing", target |-> unit.target]
    /\ UnitGoto("commit")
    /\ UNCHANGED <<task, repo, srv, faults>>

(* Faulty variant: git commit --allow-empty. *)
UnitCommitEmpty ==
    /\ At("commit")
    /\ repo' = [Committed(TRUE) EXCEPT !.applied = FALSE]
    /\ UnitGoto("committed")
    /\ UNCHANGED <<task, journal, srv, faults>>

UnitCommit ==
    /\ At("commit")
    /\ repo.applied
    /\ repo' = [Committed(TRUE) EXCEPT !.applied = FALSE]
    /\ UnitGoto("committed")
    /\ UNCHANGED <<task, journal, srv, faults>>

(* A hook refused the commit, or nothing is staged: the exception ends the unit. *)
UnitCommitFails ==
    /\ At("commit")
    /\ UnitExits
    /\ UNCHANGED <<task, journal, repo, srv, faults>>

(* Faulty variant: the journal is cleared before the task is settled. *)
UnitSaveCommittedCleared ==
    /\ At("committed")
    /\ journal' = NoJournal
    /\ UnitGoto("settle")
    /\ UNCHANGED <<task, repo, srv, faults>>

UnitSaveCommitted ==
    /\ At("committed")
    /\ journal' = [phase |-> "committed", target |-> unit.target]
    /\ UnitGoto("settle")
    /\ UNCHANGED <<task, repo, srv, faults>>

(* The unpinned transition to ACCEPTED; an illegal move ends the unit. *)
UnitSettle ==
    /\ At("settle")
    /\ \/ /\ CanMove("ACCEPTED")
          /\ task' = Moved("ACCEPTED", "unit")
          /\ UnitGoto("tidy")
       \/ /\ ~CanMove("ACCEPTED")
          /\ UnitExits
          /\ UNCHANGED task
    /\ UNCHANGED <<journal, repo, srv, faults>>

(* Clear the journal and exit 0; systemd forgets a unit that succeeded. *)
UnitTidy ==
    /\ At("tidy")
    /\ journal' = NoJournal
    /\ unit' = NoUnit
    /\ UNCHANGED <<task, repo, srv, faults>>

(* _conflict and _abandon: clear the journal ... *)
UnitGiveUp ==
    /\ At("giveup")
    /\ journal' = NoJournal
    /\ UnitGoto("return")
    /\ UNCHANGED <<task, repo, srv, faults>>

(* ... then hand the candidate back, and exit non-zero. *)
UnitReturn ==
    /\ At("return")
    /\ task' = IF CanMove("RESULT_READY") THEN Moved("RESULT_READY", "unit") ELSE task
    /\ UnitExits
    /\ UNCHANGED <<journal, repo, srv, faults>>

---------------------------------------------------------------------------
(* The environment. *)

UnitKilled ==
    /\ unit.kind = "active"
    /\ faults < MaxFaults
    /\ faults' = faults + 1
    /\ UnitEnds("signal")
    /\ UNCHANGED <<task, journal, repo, srv>>

ServerKilled(s) ==
    /\ srv[s].pc \in CrashPoints
    /\ srv[s].pc # "idle"
    /\ faults < MaxFaults
    /\ faults' = faults + 1
    /\ Done(s)
    /\ UNCHANGED <<task, journal, repo, unit>>

(* A reboot kills everything at once and changes the boot id. *)
Reboot ==
    /\ \A s \in Servers : srv[s].pc \in CrashPoints \cup {"idle"}
    /\ faults < MaxFaults
    /\ faults' = faults + 1
    /\ srv' = [s \in Servers |-> IdleServer]
    /\ unit' = NoUnit
    /\ task' = [task EXCEPT !.boot = "earlier"]
    /\ UNCHANGED <<journal, repo>>

(* Thirty seconds pass since the worker's last heartbeat; accept.py writes none. *)
HeartbeatAges ==
    /\ task.heartbeat = "fresh"
    /\ task' = [task EXCEPT !.heartbeat = "stale"]
    /\ UNCHANGED <<journal, repo, unit, srv, faults>>

OperatorEdits(kind) ==
    /\ kind = "own" => "edit own" \in OperatorActs
    /\ kind = "foreign" => "edit foreign" \in OperatorActs
    /\ repo' = [repo EXCEPT !.dirt = @ \cup {kind}]
    /\ UNCHANGED <<task, journal, unit, srv, faults>>

(* The operator takes the edits away again. *)
OperatorCleans ==
    /\ repo.dirt # {}
    /\ repo' = [repo EXCEPT !.dirt = {}]
    /\ UNCHANGED <<task, journal, unit, srv, faults>>

(* git commit -- <paths>: a commit of the operator's own edits; what is staged of
   the candidate stays staged. *)
OperatorCommits ==
    /\ "commit" \in OperatorActs
    /\ Len(repo.commits) < MaxCommits
    /\ repo' = [Committed(FALSE) EXCEPT !.dirt = {}]
    /\ UNCHANGED <<task, journal, unit, srv, faults>>

---------------------------------------------------------------------------
UnitStep ==
    \/ UnitBegin \/ UnitStage \/ UnitPick \/ UnitPickFails \/ UnitVerified
    \/ UnitVerifyFails \/ UnitAsksHead \/ UnitAsksStatus \/ UnitResets
    \/ UnitSaveCommitting \/ UnitCommit \/ UnitCommitFails
    \/ UnitSaveCommitted \/ UnitSettle \/ UnitTidy \/ UnitGiveUp \/ UnitReturn

SweepStep(s) ==
    \/ SweepList(s) \/ SweepShow(s) \/ SweepRecover(s) \/ SweepAsksHead(s)
    \/ SweepAsksStatus(s) \/ SweepResets(s) \/ SweepClear(s) \/ SweepApply(s)

CallStep(s) ==
    \/ StartAccept(s) \/ RefuseStart(s) \/ TimeoutStart(s) \/ AbandonJournal(s)
    \/ AbandonTask(s) \/ RecordAccepted(s)

Request(s) == AcceptTask(s) \/ RecordIntegration(s) \/ RejectTask(s)

Environment ==
    \/ UnitKilled \/ Reboot \/ HeartbeatAges \/ OperatorCleans \/ OperatorCommits
    \/ \E s \in Servers : ServerKilled(s)
    \/ \E kind \in Dirt : OperatorEdits(kind)

Next ==
    \/ UnitStep
    \/ \E s \in Servers : SweepStep(s) \/ CallStep(s) \/ Request(s)
    \/ Environment

(* A started process goes on unless it is killed, and tool calls keep coming, so
   every server keeps sweeping. *)
Fairness ==
    /\ WF_vars(UnitStep)
    /\ \A s \in Servers : WF_vars(SweepStep(s)) /\ WF_vars(CallStep(s))

Spec == Init /\ [][Next]_vars

FairSpec == Spec /\ Fairness

---------------------------------------------------------------------------
(* Properties. *)

(* A task that accept.py or a recovery moved to ACCEPTED has its candidate in the
   root's history: a crash between git commit and the journal, or a refused commit,
   never produces an ACCEPTED that did not land. *)
AcceptedMeansLanded ==
    task.state = "ACCEPTED" /\ task.reason # "recorded" => Landed

(* With several servers a sweep's late reset may take that commit off the branch again
   (BranchOnlyGrows), but a task is never called ACCEPTED, by the unit or by any of the
   racing sweeps, without the commit having been made.  Only a recovery may go wrong, and
   only by taking a commit of the operator's own for it. *)
CandidateCommitted == \E c \in DOMAIN repo.commits : repo.commits[c].carries > 0

MayBeOperators == "commit" \in OperatorActs /\ Len(repo.commits) > 1

AcceptedMeansCommitted ==
    task.state = "ACCEPTED" /\ task.reason # "recorded" =>
        CandidateCommitted \/ (task.reason = "recovery" /\ MayBeOperators)

(* A task handed back as RESULT_READY left nothing of the candidate in the root's
   index or working tree. *)
ReturnedMeansUndone == task.state = "RESULT_READY" => ~repo.applied

(* While candidate content sits uncommitted in the root there is a journal row
   that says so, so a crash at any point can be recovered from. *)
JournalCoversApply == repo.applied => journal.phase \in {"staged", "committing"}

(* The history holds at most one commit of the candidate, whatever is retried,
   recovered, reset or committed beside it. *)
LandedOnce == AtHead.carries <= 1

(* What integration.py:144 says of the undo: edits of the operator outside the
   candidate's paths leave the tree only by the operator's own hand. *)
ForeignEditsKept ==
    [][ "foreign" \in repo.dirt /\ "foreign" \notin repo'.dirt
          => OperatorCleans \/ OperatorCommits ]_vars

(* What recovery.py:298 and docs/recovery.md:233 say of it: an apply in flight is not
   undone and a HEAD that moved refuses the undo, so the branch only ever grows. *)
BranchOnlyGrows ==
    [][ repo'.head # repo.head => repo'.commits[repo'.head].parent = repo.head ]_vars

(* An accept always ends: the unit settles it, or a sweep does. *)
AcceptingEnds == (task.state = "ACCEPTING") ~> (task.state # "ACCEPTING")

---------------------------------------------------------------------------
(* The task row as a verdict on the candidate. *)
Verdict ==
    CASE task.state = "RESULT_READY" -> "offered"
      [] task.state = "ACCEPTING" -> "deciding"
      [] task.state = "ACCEPTED" /\ task.reason = "recorded" -> "recorded"
      [] task.state = "ACCEPTED" /\ task.reason # "recorded" -> "accepted"
      [] task.state = "REJECTED" -> "rejected"
      [] OTHER -> "unknown"

Atomic == INSTANCE AtomicAccept WITH verdict <- Verdict, landed <- Landed

(* The journal, the unit, the sweeps and every crash between them add up to an
   acceptance that happens in one step: each step of the program is a step of
   AtomicAccept or invisible to it, and a pending decision is always settled. *)
ImplementsAtomicAccept == Atomic!Spec
=============================================================================
