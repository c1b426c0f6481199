-------------------------- MODULE AcceptanceProofs --------------------------
(***************************************************************************)
(* What holds of Acceptance for every set of servers, every set of crash   *)
(* points and every value of the bounds: however many servers accept,      *)
(* sweep and are killed at once, and whatever a late reset takes off the   *)
(* branch again.                                                           *)
(***************************************************************************)
EXTENDS Acceptance, TLAPS

(* What a move does to the task row: the state is the target, the rest stays
   typed. *)
LEMMA MovedTyped ==
    ASSUME task \in TaskRow, NEW to \in TaskState, NEW reason \in Reasons
    PROVE  /\ Moved(to, reason) \in TaskRow
           /\ Moved(to, reason).state = to
           /\ Moved(to, reason).reason = reason
  <1> DEFINE next == task.version + 1
  <1>1. next \in Nat
    BY DEF TaskRow
  <1>2. Moved(to, reason) = [task EXCEPT !.state = to, !.version = next, !.reason = reason]
    BY DEF Moved
  <1> HIDE DEF next
  <1> QED
    BY <1>1, <1>2 DEF TaskRow

(* The starting rows are rows. *)
LEMMA RowsTyped ==
    /\ NoJournal \in JournalRow
    /\ NoUnit \in UnitRow
    /\ CandidateReady \in TaskRow
    /\ IdleServer \in ServerRow
  BY DEF NoJournal, JournalRow, Phases, NoUnit, UnitRow, UnitPC, CandidateReady, TaskRow,
         TaskState, Reasons, IdleServer, ServerRow, ServerPC, Outcomes

(* What a server's step does to its own row. *)
LEMMA ServerTyped ==
    ASSUME srv \in [Servers -> ServerRow], NEW s \in Servers, NEW pc \in ServerPC,
           NEW o \in Outcomes
    PROVE  /\ [srv EXCEPT ![s].pc = pc] \in [Servers -> ServerRow]
           /\ [srv EXCEPT ![s] = IdleServer] \in [Servers -> ServerRow]
           /\ [srv EXCEPT ![s].pc = pc, ![s].outcome = o] \in [Servers -> ServerRow]
           /\ \A target \in Nat :
                 /\ [srv EXCEPT ![s].outcome = o, ![s].target = target, ![s].pc = pc]
                      \in [Servers -> ServerRow]
  BY RowsTyped DEF ServerRow

(* Every commit a row or a process names has been made. *)
Known(c) == c \in 1..Len(repo.commits)

CommitsKnown ==
    /\ Known(repo.head)
    /\ journal.phase # "none" => Known(journal.target)
    /\ unit.pc \notin {"none", "begin"} => Known(unit.target)
    /\ \A s \in Servers : srv[s].pc \in {"head", "status", "reset"} => Known(srv[s].target)

(* What a commit makes of the repository: one commit more, on top of HEAD. *)
LEMMA CommitTyped ==
    ASSUME repo \in RepoState, Known(repo.head), NEW candidate \in BOOLEAN
    PROVE  /\ Committed(candidate) \in RepoState
           /\ Committed(candidate).head = Len(repo.commits) + 1
           /\ Len(Committed(candidate).commits) = Len(repo.commits) + 1
           /\ Committed(candidate).applied = repo.applied
           /\ Committed(candidate).dirt = repo.dirt
           /\ \A c \in 1..Len(repo.commits) : Committed(candidate).commits[c] = repo.commits[c]
           /\ Committed(candidate).commits[Len(repo.commits) + 1].carries
                = IF candidate THEN AtHead.carries + 1 ELSE AtHead.carries
  <1> DEFINE more == IF candidate THEN 1 ELSE 0
             new == [parent |-> repo.head, carries |-> AtHead.carries + more]
             longer == Append(repo.commits, new)
             next == Len(repo.commits) + 1
  <1>1. AtHead \in Commit
    BY DEF AtHead, Known, RepoState
  <1>2. new \in Commit
    BY <1>1 DEF Commit, RepoState
  <1>3. Committed(candidate) = [repo EXCEPT !.commits = longer, !.head = next]
    BY DEF Committed
  <1>4. new.carries = IF candidate THEN AtHead.carries + 1 ELSE AtHead.carries
    BY <1>1 DEF Commit
  <1> HIDE DEF new
  <1>5. /\ longer \in Seq(Commit)
        /\ Len(longer) = next
        /\ longer[next] = new
        /\ \A c \in 1..Len(repo.commits) : longer[c] = repo.commits[c]
    BY <1>2 DEF RepoState
  <1>6. next \in Nat
    BY DEF RepoState
  <1> HIDE DEF longer, next
  <1>7. /\ Committed(candidate).commits = longer
        /\ Committed(candidate).head = next
        /\ Committed(candidate).applied = repo.applied
        /\ Committed(candidate).dirt = repo.dirt
        /\ Committed(candidate) \in RepoState
    BY <1>3, <1>5, <1>6 DEF RepoState
  <1> QED
    BY <1>4, <1>5, <1>7 DEF next

(* A reset leaves a repository. *)
LEMMA ResetTyped ==
    ASSUME repo \in RepoState, NEW target, Known(target), Reset(target)
    PROVE  /\ repo' \in RepoState
           /\ repo'.head = target
           /\ repo'.commits = repo.commits
           /\ repo'.applied = FALSE
  <1>1. PICK kept \in SUBSET (repo.dirt \cap {"foreign"}) :
             repo' = [repo EXCEPT !.head = target, !.applied = FALSE, !.dirt = kept]
    BY DEF Reset
  <1>2. target \in Nat /\ kept \in SUBSET Dirt
    BY DEF Known, Dirt, RepoState
  <1> QED
    BY <1>1, <1>2 DEF RepoState

(* The starting state is typed. *)
LEMMA InitTypeOK == Init => TypeOK
  <1>1. [parent |-> 0, carries |-> 0] \in Commit
    BY DEF Commit
  <1>2. <<[parent |-> 0, carries |-> 0]>> \in Seq(Commit)
    BY <1>1
  <1> QED
    BY <1>2, RowsTyped DEF Init, TypeOK, RepoState, Dirt

(* The states the steps below move a task to. *)
LEMMA TargetsTyped ==
    /\ {"ACCEPTING", "ACCEPTED", "RESULT_READY", "REJECTED"} \subseteq TaskState
    /\ \A o \in Outcomes : TargetOf(o) \in TaskState
    /\ {"accept", "unit", "recovery", "recorded", "rejected"} \subseteq Reasons
  BY DEF TaskState, TargetOf, Outcomes, Reasons

(* accept_task, record_integration and reject_task write typed rows. *)
LEMMA RequestTypeOK ==
    ASSUME TypeOK, NEW s \in Servers, Request(s)
    PROVE  TypeOK'
  <1>1. CASE AcceptTask(s)
    <2>1. Moved("ACCEPTING", "accept") \in TaskRow
      BY MovedTyped, TargetsTyped DEF TypeOK
    <2>2. task' \in TaskRow
      BY <1>1, <2>1 DEF AcceptTask, TaskRow
    <2>3. journal' \in JournalRow
      BY <1>1 DEF AcceptTask, TypeOK, JournalRow, Phases, RepoState
    <2>4. srv' \in [Servers -> ServerRow]
      BY <1>1, ServerTyped DEF AcceptTask, TypeOK, Goto, ServerPC, Outcomes
    <2> QED
      BY <1>1, <2>2, <2>3, <2>4 DEF AcceptTask, TypeOK
  <1>2. CASE RecordIntegration(s)
    <2>1. task' \in TaskRow
      BY <1>2, MovedTyped, TargetsTyped DEF TypeOK, RecordIntegration
    <2>2. srv' \in [Servers -> ServerRow]
      BY <1>2, ServerTyped DEF RecordIntegration, TypeOK, Goto, ServerPC, Outcomes
    <2> QED
      BY <1>2, <2>1, <2>2 DEF RecordIntegration, TypeOK
  <1>3. CASE RejectTask(s)
    BY <1>3, MovedTyped, TargetsTyped DEF TypeOK, RejectTask
  <1> QED
    BY <1>1, <1>2, <1>3 DEF Request

(* So do the statements that follow a request: the start of the unit and its
   failures. *)
LEMMA CallTypeOK ==
    ASSUME TypeOK, NEW s \in Servers, CallStep(s)
    PROVE  TypeOK'
  <1> USE DEF TypeOK
  <1>1. CASE StartAccept(s)
    BY <1>1, ServerTyped DEF StartAccept, Done, NoUnit, UnitRow, UnitPC, ServerPC, Outcomes
  <1>2. CASE RefuseStart(s)
    BY <1>2, ServerTyped DEF RefuseStart, Goto, ServerPC, Outcomes
  <1>3. CASE TimeoutStart(s)
    BY <1>3, ServerTyped DEF TimeoutStart, Done, ServerPC, Outcomes
  <1>4. CASE AbandonJournal(s)
    BY <1>4, ServerTyped, RowsTyped DEF AbandonJournal, Goto, ServerPC, Outcomes
  <1>5. CASE AbandonTask(s)
    <2>1. task' \in TaskRow
      BY <1>5, MovedTyped, TargetsTyped DEF AbandonTask
    <2> QED
      BY <1>5, <2>1, ServerTyped DEF AbandonTask, Done, ServerPC, Outcomes
  <1>6. CASE RecordAccepted(s)
    <2>1. task' \in TaskRow
      BY <1>6, MovedTyped, TargetsTyped DEF RecordAccepted
    <2> QED
      BY <1>6, <2>1, ServerTyped DEF RecordAccepted, Done, ServerPC, Outcomes
  <1> QED
    BY <1>1, <1>2, <1>3, <1>4, <1>5, <1>6 DEF CallStep

(* So does a sweep, from the listed row to its transition. *)
LEMMA SweepTypeOK ==
    ASSUME TypeOK, CommitsKnown, NEW s \in Servers, SweepStep(s)
    PROVE  TypeOK'
  <1> USE DEF TypeOK
  <1>1. CASE SweepList(s)
    BY <1>1, RowsTyped DEF SweepList, ServerRow, ServerPC, Outcomes
  <1>2. CASE SweepShow(s)
    <2>1. unit' \in UnitRow
      BY <1>2, RowsTyped DEF SweepShow
    <2>2. srv' \in [Servers -> ServerRow]
      <3>1. srv' \in {[srv EXCEPT ![s].pc = "recover"], [srv EXCEPT ![s] = IdleServer],
                      [srv EXCEPT ![s].pc = "apply", ![s].outcome = "ambiguous"]}
        BY <1>2 DEF SweepShow, Goto, Done
      <3>2. [srv EXCEPT ![s].pc = "recover"] \in [Servers -> ServerRow]
        BY ServerTyped DEF ServerPC, Outcomes
      <3>3. [srv EXCEPT ![s].pc = "apply", ![s].outcome = "ambiguous"] \in [Servers -> ServerRow]
        BY ServerTyped DEF ServerPC, Outcomes
      <3>4. [srv EXCEPT ![s] = IdleServer] \in [Servers -> ServerRow]
        BY RowsTyped
      <3> QED
        BY <3>1, <3>2, <3>3, <3>4
    <2> QED
      BY <1>2, <2>1, <2>2 DEF SweepShow
  <1>3. CASE SweepRecover(s)
    <2> DEFINE next == CASE journal.phase = "none" -> "apply"
                         [] JournalSays = "none" -> "head"
                         [] OTHER -> "clear"
               target == IF JournalSays = "none" THEN journal.target ELSE 0
    <2>1. JournalSays \in Outcomes /\ next \in ServerPC /\ target \in Nat
      BY DEF JournalSays, Outcomes, ServerPC, JournalRow
    <2>2. srv' = [srv EXCEPT ![s].outcome = JournalSays, ![s].target = target, ![s].pc = next]
      BY <1>3 DEF SweepRecover
    <2> HIDE DEF next, target
    <2>3. srv' \in [Servers -> ServerRow]
      BY <2>1, <2>2, ServerTyped
    <2> QED
      BY <1>3, <2>3 DEF SweepRecover
  <1>6. /\ [srv EXCEPT ![s].outcome = "manual", ![s].target = 0, ![s].pc = "apply"]
              \in [Servers -> ServerRow]
        /\ [srv EXCEPT ![s].pc = "status"] \in [Servers -> ServerRow]
        /\ [srv EXCEPT ![s].pc = "reset"] \in [Servers -> ServerRow]
    BY ServerTyped DEF ServerPC, Outcomes
  <1>7. CASE SweepAsksHead(s)
    BY <1>7, <1>6 DEF SweepAsksHead, SweepAsks, Goto
  <1>8. CASE SweepAsksStatus(s)
    BY <1>8, <1>6 DEF SweepAsksStatus, SweepAsks, Goto
  <1>9. CASE SweepResets(s)
    <2>1. repo' \in RepoState
      BY <1>9, ResetTyped DEF SweepResets, CommitsKnown
    <2> QED
      BY <1>9, <2>1, ServerTyped DEF SweepResets, ServerPC, Outcomes
  <1>4. CASE SweepClear(s)
    BY <1>4, ServerTyped, RowsTyped DEF SweepClear, Goto, ServerPC, Outcomes
  <1>5. CASE SweepApply(s)
    <2>1. TargetOf(srv[s].outcome) \in TaskState
      BY TargetsTyped DEF ServerRow
    <2>2. task' \in TaskRow
      BY <1>5, <2>1, MovedTyped, TargetsTyped DEF SweepApply
    <2> QED
      BY <1>5, <2>2, ServerTyped DEF SweepApply, Done, ServerPC, Outcomes
  <1> QED
    BY <1>1, <1>2, <1>3, <1>4, <1>5, <1>7, <1>8, <1>9 DEF SweepStep

(* So does accept.py, statement by statement. *)
LEMMA UnitTypeOK ==
    ASSUME TypeOK, CommitsKnown, UnitStep
    PROVE  TypeOK'
  <1> USE RowsTyped DEF TypeOK, UnitEnds
  <1>1. CASE UnitBegin
    BY <1>1 DEF UnitBegin, UnitExits, UnitRow, UnitPC, JournalRow
  <1>2. CASE UnitStage
    BY <1>2 DEF UnitStage, UnitGoto, UnitRow, UnitPC, JournalRow, Phases
  <1>3. CASE UnitPick
    BY <1>3 DEF UnitPick, UnitGoto, UnitRow, UnitPC, RepoState
  <1>4. CASE UnitPickFails
    <2>1. repo' \in RepoState
      BY <1>4 DEF UnitPickFails, RepoState
    <2> QED
      BY <1>4, <2>1 DEF UnitPickFails, UnitRow, UnitPC
  <1>5. CASE UnitVerified
    BY <1>5 DEF UnitVerified, UnitGoto, UnitRow, UnitPC
  <1>6. CASE UnitVerifyFails
    BY <1>6 DEF UnitVerifyFails, UnitRow, UnitPC
  <1>7. CASE UnitSaveCommitting
    BY <1>7 DEF UnitSaveCommitting, UnitGoto, UnitRow, UnitPC, JournalRow, Phases
  <1>8. CASE UnitCommit
    <2>1. repo' \in RepoState
      BY <1>8, CommitTyped DEF UnitCommit, CommitsKnown, RepoState
    <2> QED
      BY <1>8, <2>1 DEF UnitCommit, UnitGoto, UnitRow, UnitPC
  <1>9. CASE UnitCommitFails
    BY <1>9 DEF UnitCommitFails, UnitExits, UnitRow, UnitPC
  <1>10. CASE UnitSaveCommitted
    BY <1>10 DEF UnitSaveCommitted, UnitGoto, UnitRow, UnitPC, JournalRow, Phases
  <1>11. CASE UnitSettle
    <2>1. task' \in TaskRow
      BY <1>11, MovedTyped, TargetsTyped DEF UnitSettle
    <2> QED
      BY <1>11, <2>1 DEF UnitSettle, UnitGoto, UnitExits, UnitRow, UnitPC
  <1>12. CASE UnitTidy
    BY <1>12 DEF UnitTidy
  <1>13. CASE UnitGiveUp
    BY <1>13 DEF UnitGiveUp, UnitGoto, UnitRow, UnitPC
  <1>14. CASE UnitReturn
    <2>1. task' \in TaskRow
      BY <1>14, MovedTyped, TargetsTyped DEF UnitReturn
    <2> QED
      BY <1>14, <2>1 DEF UnitReturn, UnitExits, UnitRow, UnitPC
  <1>16. CASE UnitAsksHead
    BY <1>16 DEF UnitAsksHead, UnitAsks, UnitGoto, UnitExits, UnitRow, UnitPC
  <1>17. CASE UnitAsksStatus
    BY <1>17 DEF UnitAsksStatus, UnitAsks, UnitGoto, UnitExits, UnitRow, UnitPC
  <1>18. CASE UnitResets
    <2>1. repo' \in RepoState
      BY <1>18, ResetTyped DEF UnitResets, At, CommitsKnown
    <2> QED
      BY <1>18, <2>1 DEF UnitResets, UnitGoto, UnitRow, UnitPC
  <1> QED
    BY <1>1, <1>2, <1>3, <1>4, <1>5, <1>6, <1>7, <1>8, <1>9, <1>10, <1>11, <1>12, <1>13,
       <1>14, <1>16, <1>17, <1>18 DEF UnitStep

(* Crashes, reboots, time and the operator leave typed rows behind. *)
LEMMA EnvironmentTypeOK ==
    ASSUME TypeOK, CommitsKnown, Environment
    PROVE  TypeOK'
  <1> USE RowsTyped DEF TypeOK
  <1>1. CASE UnitKilled
    <2>1. unit' \in UnitRow
      BY <1>1 DEF UnitKilled, UnitEnds, UnitRow, UnitPC
    <2>2. faults' \in Nat
      BY <1>1 DEF UnitKilled
    <2> QED
      BY <1>1, <2>1, <2>2 DEF UnitKilled
  <1>2. CASE Reboot
    <2>1. task' \in TaskRow
      BY <1>2 DEF Reboot, TaskRow
    <2>2. faults' \in Nat
      BY <1>2 DEF Reboot
    <2> QED
      BY <1>2, <2>1, <2>2 DEF Reboot
  <1>3. CASE HeartbeatAges
    BY <1>3 DEF HeartbeatAges, TaskRow
  <1>4. CASE OperatorCleans
    BY <1>4 DEF OperatorCleans, RepoState
  <1>5. CASE OperatorCommits
    <2>1. repo' \in RepoState
      BY <1>5, CommitTyped DEF OperatorCommits, CommitsKnown, RepoState
    <2> QED
      BY <1>5, <2>1 DEF OperatorCommits
  <1>6. ASSUME NEW s \in Servers, ServerKilled(s)
        PROVE  TypeOK'
    <2>1. faults' \in Nat
      BY <1>6 DEF ServerKilled
    <2>2. srv' \in [Servers -> ServerRow]
      BY <1>6, ServerTyped DEF ServerKilled, Done, ServerPC, Outcomes
    <2> QED
      BY <1>6, <2>1, <2>2 DEF ServerKilled
  <1>7. ASSUME NEW kind \in Dirt, OperatorEdits(kind)
        PROVE  TypeOK'
    BY <1>7 DEF OperatorEdits, RepoState
  <1> QED
    BY <1>1, <1>2, <1>3, <1>4, <1>5, <1>6, <1>7 DEF Environment

(* The steps that write the root repository. *)
LEMMA RepoWriters ==
    ASSUME [Next]_vars
    PROVE  \/ repo' = repo
           \/ UnitPick \/ UnitPickFails \/ UnitCommit \/ UnitResets
           \/ \E s \in Servers : SweepResets(s)
           \/ \E kind \in Dirt : OperatorEdits(kind)
           \/ OperatorCleans \/ OperatorCommits
  <1>1. CASE UNCHANGED vars
    BY <1>1 DEF vars
  <1>2. CASE UnitStep
    BY <1>2 DEF UnitStep, UnitBegin, UnitStage, UnitVerified, UnitVerifyFails, UnitAsksHead,
           UnitAsksStatus, UnitAsks, UnitSaveCommitting, UnitCommitFails, UnitSaveCommitted,
           UnitSettle, UnitTidy, UnitGiveUp, UnitReturn
  <1>3. ASSUME NEW s \in Servers, SweepStep(s) \/ CallStep(s) \/ Request(s), ~SweepResets(s)
        PROVE  repo' = repo
    BY <1>3 DEF SweepStep, CallStep, Request, AcceptTask, RecordIntegration, RejectTask,
           StartAccept, RefuseStart, TimeoutStart, AbandonJournal, AbandonTask, RecordAccepted,
           SweepList, SweepShow, SweepRecover, SweepAsksHead, SweepAsksStatus, SweepAsks,
           SweepClear, SweepApply
  <1>4. CASE Environment
    BY <1>4 DEF Environment, UnitKilled, ServerKilled, Reboot, HeartbeatAges
  <1> QED
    BY <1>1, <1>2, <1>3, <1>4 DEF Next

(* What a step may do to the history: nothing, add a commit (of the candidate only in the
   unit's commit step) or move HEAD to a commit that is there.  Content is applied
   only on a HEAD that does not carry it. *)
LEMMA HistorySteps ==
    ASSUME TypeOK, CommitsKnown, [Next]_vars
    PROVE  \/ /\ repo'.commits = repo.commits /\ repo'.head = repo.head
              /\ repo'.applied => repo.applied \/ ~Landed
           \/ /\ repo'.commits = repo.commits /\ Known(repo'.head)
              /\ repo'.applied = FALSE
           \/ /\ UnitCommit
              /\ repo' = [Committed(TRUE) EXCEPT !.applied = FALSE]
           \/ /\ OperatorCommits
              /\ repo' = [Committed(FALSE) EXCEPT !.dirt = {}]
  <1>1. CASE UnitPick \/ UnitPickFails
    BY <1>1 DEF UnitPick, UnitPickFails, TypeOK, RepoState
  <1>2. CASE UnitResets
    BY <1>2, ResetTyped DEF UnitResets, At, CommitsKnown, TypeOK, Known
  <1>3. ASSUME NEW s \in Servers, SweepResets(s)
        PROVE  repo'.commits = repo.commits /\ Known(repo'.head) /\ repo'.applied = FALSE
    BY <1>3, ResetTyped DEF SweepResets, CommitsKnown, TypeOK, Known
  <1>4. ASSUME NEW kind \in Dirt, OperatorEdits(kind)
        PROVE  repo'.commits = repo.commits /\ repo'.head = repo.head /\ repo'.applied = repo.applied
    BY <1>4 DEF OperatorEdits, TypeOK, RepoState
  <1>5. CASE OperatorCleans
    BY <1>5 DEF OperatorCleans, TypeOK, RepoState
  <1>6. CASE UnitCommit \/ OperatorCommits
    BY <1>6 DEF UnitCommit, OperatorCommits
  <1> QED
    BY <1>1, <1>2, <1>3, <1>4, <1>5, <1>6, RepoWriters

(* No commit is forgotten, and HEAD is one of them. *)
LEMMA CommitsStay ==
    ASSUME TypeOK, CommitsKnown, [Next]_vars
    PROVE  /\ repo'.commits \in Seq(Commit)
           /\ Len(repo.commits) <= Len(repo'.commits)
           /\ Known(repo.head)'
           /\ \A c \in 1..Len(repo.commits) : repo'.commits[c] = repo.commits[c]
  <1>1. CASE repo'.commits = repo.commits /\ Known(repo'.head)
    BY <1>1 DEF Known, TypeOK, RepoState
  <1>2. ASSUME NEW candidate \in BOOLEAN, NEW f, NEW v, f \in {"applied", "dirt"},
               \/ repo' = [Committed(candidate) EXCEPT !.applied = FALSE]
               \/ repo' = [Committed(candidate) EXCEPT !.dirt = {}]
        PROVE  /\ repo'.commits \in Seq(Commit)
               /\ Len(repo.commits) <= Len(repo'.commits)
               /\ Known(repo.head)'
               /\ \A c \in 1..Len(repo.commits) : repo'.commits[c] = repo.commits[c]
    <2>1. /\ repo'.commits = Committed(candidate).commits
          /\ repo'.head = Committed(candidate).head
          /\ repo'.commits \in Seq(Commit)
      BY <1>2, CommitTyped DEF TypeOK, RepoState, CommitsKnown
    <2>2. /\ Len(repo'.commits) = Len(repo.commits) + 1
          /\ repo'.head = Len(repo.commits) + 1
          /\ \A c \in 1..Len(repo.commits) : repo'.commits[c] = repo.commits[c]
      BY <2>1, CommitTyped DEF TypeOK, CommitsKnown
    <2>3. Len(repo.commits) \in Nat
      BY DEF TypeOK, RepoState
    <2> QED
      BY <2>1, <2>2, <2>3 DEF Known
  <1>3. Known(repo.head)
    BY DEF CommitsKnown
  <1> QED
    BY <1>1, <1>2, <1>3, HistorySteps

(* A row or a process names only commits that were there before the step. *)
LEMMA NamesKnown ==
    ASSUME TypeOK, CommitsKnown, [Next]_vars
    PROVE  /\ journal'.phase # "none" => Known(journal'.target)
           /\ unit'.pc \notin {"none", "begin"} => Known(unit'.target)
           /\ \A s \in Servers :
                 srv'[s].pc \in {"head", "status", "reset"} => Known(srv'[s].target)
  <1> USE DEF CommitsKnown
  <1>1. journal'.phase # "none" => Known(journal'.target)
    <2>1. \/ journal' = journal \/ journal' = NoJournal
          \/ journal'.target = repo.head
          \/ unit.pc \notin {"none", "begin"} /\ journal'.target = unit.target
      <3>1. CASE UnitStep
        <4>1. CASE UnitStage \/ UnitSaveCommitting \/ UnitSaveCommitted
          BY <4>1 DEF UnitStage, UnitSaveCommitting, UnitSaveCommitted, At
        <4>2. CASE UnitTidy \/ UnitGiveUp
          BY <4>2 DEF UnitTidy, UnitGiveUp
        <4>3. CASE UnitAsksHead \/ UnitAsksStatus
          BY <4>3 DEF UnitAsksHead, UnitAsksStatus, UnitAsks
        <4> QED
          BY <3>1, <4>1, <4>2, <4>3
          DEF UnitStep, UnitBegin, UnitPick, UnitPickFails, UnitVerified, UnitVerifyFails,
              UnitResets, UnitCommit, UnitCommitFails, UnitSettle, UnitReturn
      <3>2. ASSUME NEW s \in Servers, SweepStep(s) \/ CallStep(s) \/ Request(s)
            PROVE  journal' = journal \/ journal' = NoJournal \/ journal'.target = repo.head
        BY <3>2 DEF SweepStep, CallStep, Request, AcceptTask, RecordIntegration, RejectTask,
             StartAccept, RefuseStart, TimeoutStart, AbandonJournal, AbandonTask, RecordAccepted,
             SweepList, SweepShow, SweepRecover, SweepAsksHead, SweepAsksStatus, SweepAsks,
             SweepResets, SweepClear, SweepApply
      <3>3. CASE Environment
        BY <3>3 DEF Environment, UnitKilled, ServerKilled, Reboot, HeartbeatAges, OperatorEdits,
             OperatorCleans, OperatorCommits
      <3> QED
        BY <3>1, <3>2, <3>3 DEF Next, vars
    <2> QED
      BY <2>1 DEF NoJournal
  <1>2. unit'.pc \notin {"none", "begin"} => Known(unit'.target)
    <2>1. \/ unit'.pc \in {"none", "begin"}
          \/ unit'.target = unit.target /\ (unit'.pc = unit.pc \/ unit.pc \notin {"none", "begin"})
          \/ unit'.target = journal.target /\ journal.phase # "none"
      <3> USE DEF TypeOK, UnitRow
      <3>1. CASE UnitStep
        <4> USE DEF At, UnitGoto, UnitExits, UnitEnds, NoUnit
        <4>1. CASE UnitBegin
          BY <4>1 DEF UnitBegin
        <4>2. CASE UnitStage \/ UnitPick \/ UnitPickFails \/ UnitVerified \/ UnitVerifyFails
          BY <4>2 DEF UnitStage, UnitPick, UnitPickFails, UnitVerified, UnitVerifyFails
        <4>3. CASE UnitAsksHead \/ UnitAsksStatus
          BY <4>3 DEF UnitAsksHead, UnitAsksStatus, UnitAsks
        <4>4. CASE UnitResets \/ UnitSaveCommitting \/ UnitCommit
          BY <4>4 DEF UnitResets, UnitSaveCommitting, UnitCommit
        <4>5. CASE UnitCommitFails \/ UnitSaveCommitted \/ UnitSettle \/ UnitTidy
          BY <4>5 DEF UnitCommitFails, UnitSaveCommitted, UnitSettle, UnitTidy
        <4>6. CASE UnitGiveUp \/ UnitReturn
          BY <4>6 DEF UnitGiveUp, UnitReturn
        <4> QED
          BY <3>1, <4>1, <4>2, <4>3, <4>4, <4>5, <4>6 DEF UnitStep
      <3>2. ASSUME NEW s \in Servers, SweepStep(s) \/ CallStep(s) \/ Request(s)
            PROVE  unit' = unit \/ unit'.pc \in {"none", "begin"}
        <4>1. CASE StartAccept(s)
          BY <4>1 DEF StartAccept, NoUnit
        <4>3. CASE SweepShow(s)
          BY <4>3 DEF SweepShow, NoUnit
        <4>2. CASE SweepAsksHead(s) \/ SweepAsksStatus(s)
          BY <4>2 DEF SweepAsksHead, SweepAsksStatus, SweepAsks
        <4> QED
          BY <3>2, <4>1, <4>2, <4>3
          DEF SweepStep, CallStep, Request, AcceptTask, RecordIntegration, RejectTask,
              RefuseStart, TimeoutStart, AbandonJournal, AbandonTask, RecordAccepted,
              SweepList, SweepRecover, SweepResets, SweepClear, SweepApply
      <3>3. CASE Environment
        <4>1. CASE UnitKilled \/ Reboot
          BY <4>1 DEF UnitKilled, Reboot, UnitEnds, NoUnit
        <4> QED
          BY <3>3, <4>1 DEF Environment, ServerKilled, HeartbeatAges, OperatorEdits,
             OperatorCleans, OperatorCommits
      <3> QED
        BY <3>1, <3>2, <3>3 DEF Next, vars
    <2> QED
      BY <2>1
  <1>3. ASSUME NEW t \in Servers, srv'[t].pc \in {"head", "status", "reset"}
        PROVE  Known(srv'[t].target)
    <2>1. \/ srv'[t] = srv[t]
          \/ srv[t].pc \in {"head", "status", "reset"} /\ srv'[t].target = srv[t].target
          \/ journal.phase # "none" /\ srv'[t].target = journal.target
      <3> USE DEF TypeOK, ServerRow
      <3>1. ASSUME NEW s \in Servers, SweepStep(s)
            PROVE  \/ srv'[t] = srv[t]
                   \/ srv[t].pc \in {"head", "status", "reset"} /\ srv'[t].target = srv[t].target
                   \/ journal.phase # "none" /\ srv'[t].target = journal.target
        <4> USE <1>3 DEF Goto, Done, IdleServer
        <4>1. CASE SweepList(s)
          BY <4>1 DEF SweepList
        <4>5. CASE SweepShow(s)
          <5>1. srv' \in {[srv EXCEPT ![s].pc = "recover"], [srv EXCEPT ![s] = IdleServer],
                          [srv EXCEPT ![s].pc = "apply", ![s].outcome = "ambiguous"]}
            BY <4>5 DEF SweepShow
          <5> QED
            BY <5>1
        <4>6. CASE SweepClear(s) \/ SweepApply(s)
          BY <4>6 DEF SweepClear, SweepApply
        <4>2. CASE SweepRecover(s)
          BY <4>2 DEF SweepRecover, JournalSays
        <4>3. CASE SweepAsksHead(s) \/ SweepAsksStatus(s)
          BY <4>3 DEF SweepAsksHead, SweepAsksStatus, SweepAsks
        <4>4. CASE SweepResets(s)
          BY <4>4 DEF SweepResets
        <4> QED
          BY <3>1, <4>1, <4>2, <4>3, <4>4, <4>5, <4>6 DEF SweepStep
      <3>2. ASSUME NEW s \in Servers, CallStep(s) \/ Request(s)
            PROVE  srv'[t] = srv[t]
        BY <3>2, <1>3 DEF CallStep, Request, AcceptTask, RecordIntegration, RejectTask,
             StartAccept, RefuseStart, TimeoutStart, AbandonJournal, AbandonTask, RecordAccepted,
             Goto, Done, IdleServer
      <3>3. CASE Environment
        <4> USE <1>3 DEF Done, IdleServer, TypeOK
        <4>1. CASE Reboot
          BY <4>1 DEF Reboot
        <4>2. ASSUME NEW s \in Servers, ServerKilled(s)
              PROVE  srv'[t] = srv[t]
          BY <4>2 DEF ServerKilled
        <4> QED
          BY <3>3, <4>1, <4>2 DEF Environment, UnitKilled, HeartbeatAges, OperatorEdits,
             OperatorCleans, OperatorCommits
      <3>4. CASE UnitStep
        BY <3>4 DEF UnitStep, UnitBegin, UnitStage, UnitPick, UnitPickFails, UnitVerified,
             UnitVerifyFails, UnitAsksHead, UnitAsksStatus, UnitAsks, UnitResets,
             UnitSaveCommitting, UnitCommit, UnitCommitFails, UnitSaveCommitted, UnitSettle,
             UnitTidy, UnitGiveUp, UnitReturn
      <3> QED
        BY <3>1, <3>2, <3>3, <3>4 DEF Next, vars
    <2> QED
      BY <2>1, <1>3
  <1> QED
    BY <1>1, <1>2, <1>3

LEMMA CommitsStayKnown ==
    ASSUME TypeOK, CommitsKnown, [Next]_vars
    PROVE  CommitsKnown'
  <1>1. \A c : Known(c) => Known(c)'
    <2>1. Len(repo.commits) \in Nat /\ Len(repo'.commits) \in Nat
      BY CommitsStay DEF TypeOK, RepoState
    <2> QED
      BY <2>1, CommitsStay DEF Known
  <1> QED
    BY <1>1, CommitsStay, NamesKnown DEF CommitsKnown, Known

LEMMA RowsStayTyped == Spec => [](TypeOK /\ CommitsKnown)
  <1>1. Init => TypeOK /\ CommitsKnown
    BY InitTypeOK DEF Init, CommitsKnown, Known, NoJournal, NoUnit, IdleServer
  <1>2. TypeOK /\ CommitsKnown /\ [Next]_vars => (TypeOK /\ CommitsKnown)'
    <2> SUFFICES ASSUME TypeOK, CommitsKnown, [Next]_vars PROVE TypeOK' /\ CommitsKnown'
      OBVIOUS
    <2>1. CASE UNCHANGED vars
      BY <2>1, CommitsStayKnown DEF TypeOK, vars
    <2> QED
      BY <2>1, CommitsStayKnown, UnitTypeOK, SweepTypeOK, CallTypeOK, RequestTypeOK,
         EnvironmentTypeOK DEF Next
  <1> QED
    BY <1>1, <1>2, PTL DEF Spec

(* Every row every process writes is a row of its table, whatever the
   interleaving and the crashes. *)
THEOREM TypeCorrect == Spec => []TypeOK
  BY RowsStayTyped, PTL

---------------------------------------------------------------------------
(* The history holds one commit of the candidate at most.  Content is applied only where
   HEAD does not carry it, and a commit takes what is applied with it. *)
CarriedOnce ==
    /\ \A c \in 1..Len(repo.commits) : repo.commits[c].carries <= 1
    /\ repo.applied => AtHead.carries = 0

(* The candidate is in the history at most once, whatever is retried, swept, reset by a
   sweep that looked too early, or crashed, and whatever the operator commits meanwhile. *)
THEOREM LandsOnce == Spec => []LandedOnce
  <1>1. Init => CarriedOnce
    BY DEF Init, CarriedOnce
  <1>2. TypeOK /\ CommitsKnown /\ CarriedOnce /\ [Next]_vars => CarriedOnce'
    <2> SUFFICES ASSUME TypeOK, CommitsKnown, CarriedOnce, [Next]_vars PROVE CarriedOnce'
      OBVIOUS
    <2>0. AtHead \in Commit /\ Known(repo.head)
      BY DEF AtHead, Known, CommitsKnown, TypeOK, RepoState
    <2>1. CASE /\ repo'.commits = repo.commits /\ repo'.head = repo.head
               /\ repo'.applied => repo.applied \/ ~Landed
      BY <2>1, <2>0 DEF CarriedOnce, AtHead, Landed, Commit
    <2>2. CASE repo'.commits = repo.commits /\ repo'.applied = FALSE
      BY <2>2 DEF CarriedOnce
    <2>3. ASSUME NEW candidate \in BOOLEAN,
                 repo'.commits = Committed(candidate).commits,
                 candidate => repo.applied
          PROVE  \A c \in 1..Len(repo'.commits) : repo'.commits[c].carries <= 1
      <3>1. /\ Len(repo'.commits) = Len(repo.commits) + 1
            /\ \A c \in 1..Len(repo.commits) : repo'.commits[c] = repo.commits[c]
            /\ repo'.commits[Len(repo.commits) + 1].carries
                 = IF candidate THEN AtHead.carries + 1 ELSE AtHead.carries
        BY <2>3, CommitTyped DEF TypeOK, CommitsKnown
      <3>2. AtHead.carries \in Nat /\ AtHead.carries <= 1 /\ Len(repo.commits) \in Nat
        BY <2>0 DEF CarriedOnce, AtHead, Known, Commit, TypeOK, RepoState
      <3>3. repo'.commits[Len(repo.commits) + 1].carries <= 1
        BY <2>3, <3>1, <3>2 DEF CarriedOnce
      <3> QED
        BY <3>1, <3>2, <3>3 DEF CarriedOnce
    <2>4. CASE UnitCommit /\ repo' = [Committed(TRUE) EXCEPT !.applied = FALSE]
      <3>1. repo'.commits = Committed(TRUE).commits /\ repo'.applied = FALSE /\ repo.applied
        BY <2>4, CommitTyped DEF UnitCommit, TypeOK, RepoState, CommitsKnown
      <3> QED
        BY <3>1, <2>3 DEF CarriedOnce
    <2>5. CASE repo' = [Committed(FALSE) EXCEPT !.dirt = {}]
      <3>1. /\ repo'.commits = Committed(FALSE).commits
            /\ repo'.head = Len(repo.commits) + 1
            /\ repo'.applied = repo.applied
        BY <2>5, CommitTyped DEF TypeOK, RepoState, CommitsKnown
      <3>2. repo'.commits[repo'.head].carries = AtHead.carries
        BY <3>1, CommitTyped DEF TypeOK, CommitsKnown
      <3> QED
        BY <3>1, <3>2, <2>3 DEF CarriedOnce, AtHead
    <2> QED
      BY <2>1, <2>2, <2>4, <2>5, HistorySteps
  <1>3. TypeOK /\ CommitsKnown /\ CarriedOnce => LandedOnce
    BY DEF CarriedOnce, CommitsKnown, Known, LandedOnce, AtHead
  <1> QED
    BY <1>1, <1>2, <1>3, RowsStayTyped, PTL DEF Spec

---------------------------------------------------------------------------
(* A task is called ACCEPTED only of a commit that was made.  The claim travels: the unit
   knows it from its own commit, the journal carries it as phase committed, a sweep
   carries it as its outcome, and only then does a row say ACCEPTED.  A sweep may also
   infer it from HEAD^ under a committing journal; what it infers is that some commit was
   made, by accept.py or by the operator. *)
Told == CandidateCommitted \/ MayBeOperators

CommitAccounted ==
    /\ repo.commits[1].parent = 0
    /\ Len(repo.commits) > 1 => Told
    /\ journal.phase = "committed" => CandidateCommitted
    /\ unit.pc \in {"committed", "settle"} => CandidateCommitted
    /\ \A s \in Servers : srv[s].outcome = "committed" => Told
    /\ AcceptedMeansCommitted

(* A recovery that answers committed is right. *)
LEMMA CommittedAnswerIsRight ==
    ASSUME TypeOK, CommitsKnown, CommitAccounted, JournalSays = "committed"
    PROVE  Told
  <1>1. CASE journal.phase = "committed"
    BY <1>1 DEF CommitAccounted, Told
  <1>2. CASE journal.phase # "committed"
    <2>1. CommitLanded /\ journal.phase = "committing"
      BY <1>2 DEF JournalSays
    <2>2. journal.target \in 1..Len(repo.commits) /\ repo.head \in 1..Len(repo.commits)
      BY <2>1 DEF CommitsKnown, Known
    <2>3. Len(repo.commits) > 1
      BY <2>1, <2>2 DEF CommitLanded, AtHead, CommitAccounted, TypeOK, RepoState
    <2> QED
      BY <2>3 DEF CommitAccounted
  <1> QED
    BY <1>1, <1>2

(* A commit, once made, stays made, and only the candidate's or one of the operator's makes
   the history longer. *)
LEMMA MadeStays ==
    ASSUME TypeOK, CommitsKnown, [Next]_vars, CommitAccounted
    PROVE  /\ CandidateCommitted => CandidateCommitted'
           /\ MayBeOperators => MayBeOperators'
           /\ repo'.commits[1].parent = 0
           /\ Len(repo'.commits) > 1 => Told'
           /\ UnitCommit => CandidateCommitted'
  <1>1. CASE repo'.commits = repo.commits /\ ~UnitCommit
    BY <1>1 DEF CommitAccounted, CandidateCommitted, MayBeOperators, Told
  <1>2. CASE UnitCommit
    <2>1. repo'.commits = Committed(TRUE).commits
      BY <1>2, CommitTyped DEF UnitCommit, TypeOK, RepoState, CommitsKnown
    <2>2. /\ Len(repo'.commits) = Len(repo.commits) + 1
          /\ \A c \in 1..Len(repo.commits) : repo'.commits[c] = repo.commits[c]
          /\ repo'.commits[Len(repo.commits) + 1].carries = AtHead.carries + 1
      BY <2>1, CommitTyped DEF TypeOK, CommitsKnown
    <2>3. /\ AtHead.carries \in Nat /\ Len(repo.commits) \in Nat /\ Len(repo.commits) >= 1
          /\ repo'.commits \in Seq(Commit)
      <3>1. AtHead \in Commit /\ repo.head \in 1..Len(repo.commits)
        BY DEF AtHead, Known, CommitsKnown, TypeOK, RepoState
      <3>2. AtHead.carries \in Nat
        BY <3>1 DEF Commit
      <3>3. Len(repo.commits) \in Nat /\ Len(repo.commits) >= 1
        BY <3>1 DEF TypeOK, RepoState
      <3>4. repo'.commits \in Seq(Commit)
        BY CommitsStay
      <3> QED
        BY <3>2, <3>3, <3>4
    <2> DEFINE n == Len(repo'.commits)
    <2>6. n = Len(repo.commits) + 1 /\ n \in 1..n
      BY <2>2, <2>3
    <2>7. DOMAIN repo'.commits = 1..n
      BY <2>3
    <2>4. Len(repo.commits) + 1 \in DOMAIN repo'.commits
      BY <2>6, <2>7
    <2>5. CandidateCommitted'
      BY <2>2, <2>3, <2>4 DEF CandidateCommitted
    <2> QED
      BY <2>2, <2>3, <2>5 DEF CommitAccounted, MayBeOperators, Told
  <1>3. CASE OperatorCommits
    <2>1. "commit" \in OperatorActs /\ ~UnitCommit
      BY <1>3 DEF OperatorCommits, UnitCommit, At, UnitGoto, TypeOK, UnitRow
    <2>2. repo'.commits = Committed(FALSE).commits
      BY <1>3, CommitTyped DEF OperatorCommits, TypeOK, RepoState, CommitsKnown
    <2>3. Len(repo'.commits) = Len(repo.commits) + 1 /\ Len(repo.commits) \in Nat \ {0}
      <3>1. Len(repo.commits) \in Nat /\ repo.head \in 1..Len(repo.commits)
        BY DEF TypeOK, RepoState, CommitsKnown, Known
      <3>2. Len(repo'.commits) = Len(repo.commits) + 1
        BY <2>2, CommitTyped DEF TypeOK, CommitsKnown
      <3> QED
        BY <3>1, <3>2
    <2>4. repo'.commits \in Seq(Commit) /\ repo.commits \in Seq(Commit)
      BY CommitsStay DEF TypeOK, RepoState
    <2>5. \A c \in DOMAIN repo.commits : c \in DOMAIN repo'.commits /\ repo'.commits[c] = repo.commits[c]
      BY <2>3, <2>4, CommitsStay
    <2>6. repo'.commits[1].parent = 0
      BY <2>3, <2>4, <2>5 DEF CommitAccounted
    <2>7. CandidateCommitted => CandidateCommitted'
      BY <2>5 DEF CandidateCommitted
    <2>8. MayBeOperators'
      BY <2>1, <2>3 DEF MayBeOperators
    <2> QED
      BY <2>1, <2>6, <2>7, <2>8 DEF Told
  <1> QED
    BY <1>1, <1>2, <1>3, HistorySteps

(* A step of a server keeps the account: what the journal, the unit and a deciding sweep
   say of the commit stays true. *)
LEMMA ServersAccounted ==
    ASSUME TypeOK, CommitsKnown, CommitAccounted,
           NEW s \in Servers, SweepStep(s) \/ CallStep(s) \/ Request(s)
    PROVE  CommitAccounted'
  <1>0. [Next]_vars
    BY DEF Next
  <1>1. /\ CandidateCommitted => CandidateCommitted'
        /\ MayBeOperators => MayBeOperators'
        /\ repo'.commits[1].parent = 0
        /\ Len(repo'.commits) > 1 => Told'
    BY <1>0, MadeStays
  <1>2. unit'.pc \in {"committed", "settle"} => unit.pc \in {"committed", "settle"}
    <2>1. CASE StartAccept(s)
      BY <2>1 DEF StartAccept, NoUnit
    <2>2. CASE SweepShow(s)
      BY <2>2 DEF SweepShow, NoUnit
    <2>3. CASE SweepAsksHead(s) \/ SweepAsksStatus(s)
      BY <2>3 DEF SweepAsksHead, SweepAsksStatus, SweepAsks
    <2> QED
      BY <2>1, <2>2, <2>3
      DEF SweepStep, CallStep, Request, AcceptTask, RecordIntegration, RejectTask,
          RefuseStart, TimeoutStart, AbandonJournal, AbandonTask, RecordAccepted,
          SweepList, SweepRecover, SweepResets, SweepClear, SweepApply
  <1>3. journal'.phase = "committed" => journal.phase = "committed"
    <2>1. CASE SweepAsksHead(s) \/ SweepAsksStatus(s)
      BY <2>1 DEF SweepAsksHead, SweepAsksStatus, SweepAsks
    <2> QED
      BY <2>1 DEF SweepStep, CallStep, Request, AcceptTask, RecordIntegration, RejectTask,
          StartAccept, RefuseStart, TimeoutStart, AbandonJournal, AbandonTask, RecordAccepted,
          SweepList, SweepShow, SweepRecover, SweepResets, SweepClear, SweepApply, NoJournal
  <1>4. ASSUME NEW t \in Servers, srv'[t].outcome = "committed"
        PROVE  Told
    <2> USE DEF TypeOK, ServerRow, Goto, Done, IdleServer
    <2>1. CASE SweepRecover(s)
      <3>1. srv'[t].outcome = IF t = s THEN JournalSays ELSE srv[t].outcome
        BY <2>1 DEF SweepRecover
      <3> QED
        BY <3>1, <1>4, CommittedAnswerIsRight DEF CommitAccounted
    <2>2. CASE SweepShow(s)
      <3>1. srv' \in {[srv EXCEPT ![s].pc = "recover"], [srv EXCEPT ![s] = IdleServer],
                      [srv EXCEPT ![s].pc = "apply", ![s].outcome = "ambiguous"]}
        BY <2>2 DEF SweepShow
      <3> QED
        BY <3>1, <1>4 DEF CommitAccounted
    <2>3. CASE SweepAsksHead(s) \/ SweepAsksStatus(s)
      BY <2>3, <1>4 DEF SweepAsksHead, SweepAsksStatus, SweepAsks, CommitAccounted
    <2>4. CASE SweepList(s)
      BY <2>4, <1>4 DEF SweepList, CommitAccounted
    <2>7. CASE SweepClear(s) \/ SweepApply(s)
      <3>1. srv' \in {[srv EXCEPT ![s].pc = "apply"], [srv EXCEPT ![s] = IdleServer]}
        BY <2>7 DEF SweepClear, SweepApply
      <3> QED
        BY <3>1, <1>4 DEF CommitAccounted
    <2>6. CASE SweepResets(s)
      <3>1. srv' = [srv EXCEPT ![s].outcome = "aborted", ![s].target = 0, ![s].pc = "clear"]
        BY <2>6 DEF SweepResets
      <3> QED
        BY <3>1, <1>4 DEF CommitAccounted
    <2>5. CASE CallStep(s) \/ Request(s)
      BY <2>5, <1>4 DEF CallStep, Request, AcceptTask, RecordIntegration, RejectTask,
          StartAccept, RefuseStart, TimeoutStart, AbandonJournal, AbandonTask, RecordAccepted,
          CommitAccounted
    <2> QED
      BY <2>1, <2>2, <2>3, <2>4, <2>5, <2>6, <2>7 DEF SweepStep
  <1>5. AcceptedMeansCommitted'
    <2>1. CASE SweepApply(s)
      <3>1. CASE task' = task
        BY <3>1, <1>1 DEF CommitAccounted, AcceptedMeansCommitted
      <3>2. CASE task' # task
        <4>1. /\ task' = Moved(TargetOf(srv[s].outcome), "recovery")
              /\ TargetOf(srv[s].outcome) \in TaskState
          BY <2>1, <3>2, TargetsTyped DEF SweepApply, TypeOK, ServerRow
        <4>2. task'.state = TargetOf(srv[s].outcome)
          BY <4>1, MovedTyped, TargetsTyped DEF TypeOK
        <4>3. task'.reason = "recovery"
          BY <4>1, MovedTyped DEF TypeOK, Reasons
        <4>4. task'.state = "ACCEPTED" => Told
          BY <4>2 DEF TargetOf, CommitAccounted
        <4> QED
          BY <4>3, <4>4, <1>1 DEF AcceptedMeansCommitted, Told
      <3> QED
        BY <3>1, <3>2
    <2>2. CASE ~SweepApply(s)
      <3>1. \/ task' = task
            \/ task'.state # "ACCEPTED"
            \/ task'.reason = "recorded"
        <4>1. CASE SweepAsksHead(s) \/ SweepAsksStatus(s)
          BY <4>1 DEF SweepAsksHead, SweepAsksStatus, SweepAsks
        <4> QED
          BY <2>2, <4>1
          DEF SweepStep, CallStep, Request, AcceptTask, RecordIntegration, RejectTask,
              StartAccept, RefuseStart, TimeoutStart, AbandonJournal, AbandonTask,
              RecordAccepted, SweepList, SweepShow, SweepRecover, SweepResets, SweepClear,
              Moved, TypeOK, TaskRow
      <3> QED
        BY <3>1, <1>1 DEF CommitAccounted, AcceptedMeansCommitted
    <2> QED
      BY <2>1, <2>2
  <1> QED
    BY <1>1, <1>2, <1>3, <1>4, <1>5 DEF CommitAccounted, Told

(* So does a step of accept.py, whose commit is journalled before and after. *)
LEMMA UnitAccounted ==
    ASSUME TypeOK, CommitsKnown, CommitAccounted, UnitStep
    PROVE  CommitAccounted'
  <1>0. [Next]_vars
    BY DEF Next
  <1>1. /\ CandidateCommitted => CandidateCommitted'
        /\ MayBeOperators => MayBeOperators'
        /\ repo'.commits[1].parent = 0
        /\ Len(repo'.commits) > 1 => Told'
        /\ UnitCommit => CandidateCommitted'
    BY <1>0, MadeStays
  <1>2. srv' = srv
    BY DEF UnitStep, UnitBegin, UnitStage, UnitPick, UnitPickFails, UnitVerified,
           UnitVerifyFails, UnitAsksHead, UnitAsksStatus, UnitAsks, UnitResets,
           UnitSaveCommitting, UnitCommit, UnitCommitFails, UnitSaveCommitted, UnitSettle,
           UnitTidy, UnitGiveUp, UnitReturn
  <1>3. unit'.pc \in {"committed", "settle"} => unit.pc \in {"committed", "settle"} \/ UnitCommit
    <2> USE DEF At, UnitGoto, UnitExits, UnitEnds, NoUnit, TypeOK, UnitRow
    <2>1. CASE UnitBegin
      BY <2>1 DEF UnitBegin
    <2>2. CASE UnitStage \/ UnitPick \/ UnitPickFails \/ UnitVerified \/ UnitVerifyFails
      BY <2>2 DEF UnitStage, UnitPick, UnitPickFails, UnitVerified, UnitVerifyFails
    <2>3. CASE UnitAsksHead \/ UnitAsksStatus
      BY <2>3 DEF UnitAsksHead, UnitAsksStatus, UnitAsks
    <2>4. CASE UnitResets \/ UnitSaveCommitting
      BY <2>4 DEF UnitResets, UnitSaveCommitting
    <2>5. CASE UnitCommitFails \/ UnitSaveCommitted \/ UnitSettle \/ UnitTidy
      BY <2>5 DEF UnitCommitFails, UnitSaveCommitted, UnitSettle, UnitTidy
    <2>6. CASE UnitGiveUp \/ UnitReturn
      BY <2>6 DEF UnitGiveUp, UnitReturn
    <2> QED
      BY <2>1, <2>2, <2>3, <2>4, <2>5, <2>6 DEF UnitStep
  <1>4. journal'.phase = "committed" => journal.phase = "committed" \/ unit.pc = "committed"
    <2>1. CASE UnitAsksHead \/ UnitAsksStatus
      BY <2>1 DEF UnitAsksHead, UnitAsksStatus, UnitAsks
    <2>2. CASE UnitStage \/ UnitSaveCommitting \/ UnitSaveCommitted
      BY <2>2 DEF UnitStage, UnitSaveCommitting, UnitSaveCommitted, At
    <2>3. CASE UnitTidy \/ UnitGiveUp
      BY <2>3 DEF UnitTidy, UnitGiveUp, NoJournal
    <2> QED
      BY <2>1, <2>2, <2>3 DEF UnitStep, UnitBegin, UnitPick, UnitPickFails, UnitVerified,
           UnitVerifyFails, UnitResets, UnitCommit, UnitCommitFails, UnitSettle, UnitReturn
  <1>5. AcceptedMeansCommitted'
    <2>1. CASE UnitSettle
      <3>1. CandidateCommitted
        BY <2>1 DEF UnitSettle, At, CommitAccounted
      <3> QED
        BY <3>1, <1>1 DEF AcceptedMeansCommitted
    <2>2. CASE ~UnitSettle
      <3>1. task' = task \/ task'.state = "RESULT_READY"
        <4>1. CASE UnitAsksHead \/ UnitAsksStatus
          BY <4>1 DEF UnitAsksHead, UnitAsksStatus, UnitAsks
        <4> QED
          BY <2>2, <4>1 DEF UnitStep, UnitBegin, UnitStage, UnitPick, UnitPickFails,
           UnitVerified, UnitVerifyFails, UnitResets, UnitSaveCommitting, UnitCommit,
           UnitCommitFails, UnitSaveCommitted, UnitTidy, UnitGiveUp, UnitReturn, Moved,
           TypeOK, TaskRow
      <3> QED
        BY <3>1, <1>1 DEF CommitAccounted, AcceptedMeansCommitted
    <2> QED
      BY <2>1, <2>2
  <1> QED
    BY <1>1, <1>2, <1>3, <1>4, <1>5 DEF CommitAccounted, Told

(* So does the environment, the operator's commits included. *)
LEMMA EnvironmentAccounted ==
    ASSUME TypeOK, CommitsKnown, CommitAccounted, Environment
    PROVE  CommitAccounted'
  <1>0. [Next]_vars
    BY DEF Next
  <1>1. /\ CandidateCommitted => CandidateCommitted'
        /\ MayBeOperators => MayBeOperators'
        /\ repo'.commits[1].parent = 0
        /\ Len(repo'.commits) > 1 => Told'
    BY <1>0, MadeStays
  <1>2. journal' = journal
    BY DEF Environment, UnitKilled, ServerKilled, Reboot, HeartbeatAges, OperatorEdits,
           OperatorCleans, OperatorCommits
  <1>3. unit'.pc \in {unit.pc, "none"}
    <2>1. CASE UnitKilled \/ Reboot
      BY <2>1 DEF UnitKilled, UnitEnds, NoUnit, Reboot
    <2> QED
      BY <2>1 DEF Environment, ServerKilled, HeartbeatAges, OperatorEdits, OperatorCleans,
                  OperatorCommits
  <1>4. task'.state = task.state /\ task'.reason = task.reason
    BY DEF Environment, UnitKilled, ServerKilled, Reboot, HeartbeatAges, OperatorEdits,
           OperatorCleans, OperatorCommits, TypeOK, TaskRow
  <1>5. \A t \in Servers : srv'[t].outcome \in {srv[t].outcome, "none"}
    <2>1. CASE Reboot
      BY <2>1 DEF Reboot, IdleServer
    <2>2. ASSUME NEW s \in Servers, ServerKilled(s)
          PROVE  \A t \in Servers : srv'[t].outcome \in {srv[t].outcome, "none"}
      BY <2>2 DEF ServerKilled, Done, IdleServer, TypeOK
    <2>3. CASE srv' = srv
      BY <2>3
    <2> QED
      BY <2>1, <2>2, <2>3
      DEF Environment, UnitKilled, HeartbeatAges, OperatorEdits, OperatorCleans, OperatorCommits
  <1> QED
    BY <1>1, <1>2, <1>3, <1>4, <1>5 DEF CommitAccounted, AcceptedMeansCommitted, Told

(* A task that accept.py moved to ACCEPTED has had its commit made, and one that a recovery
   moved there its own or, where the operator commits in the root, one of the operator's:
   for any number of servers killed at any point and resets that came too late. *)
THEOREM AcceptedCommitted == Spec => []AcceptedMeansCommitted
  <1>1. Init => CommitAccounted
    BY DEF Init, CommitAccounted, CandidateReady, NoJournal, NoUnit, IdleServer,
           AcceptedMeansCommitted
  <1>2. TypeOK /\ CommitsKnown /\ CommitAccounted /\ [Next]_vars => CommitAccounted'
    <2> SUFFICES ASSUME TypeOK, CommitsKnown, CommitAccounted, [Next]_vars
                 PROVE  CommitAccounted'
      OBVIOUS
    <2>1. CASE UNCHANGED vars
      BY <2>1 DEF CommitAccounted, Told, AcceptedMeansCommitted, CandidateCommitted, MayBeOperators, vars
    <2> QED
      BY <2>1, UnitAccounted, ServersAccounted, EnvironmentAccounted DEF Next
  <1>3. CommitAccounted => AcceptedMeansCommitted
    BY DEF CommitAccounted
  <1> QED
    BY <1>1, <1>2, <1>3, RowsStayTyped, PTL DEF Spec
=============================================================================
