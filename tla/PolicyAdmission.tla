---------------------------- MODULE PolicyAdmission ----------------------------
(***************************************************************************)
(* The dispatch policy in use: the stored document with its revisions, the *)
(* dashboard, the command line and a staged promotion that edit it, and    *)
(* the servers that admit, fill and start tasks by it (store.py,           *)
(* policy_promotion.py, web/policy_store.py, cli.py and start_task).       *)
(*                                                                         *)
(* Several servers and editors share the database; each step below is one  *)
(* transaction or one read.  A turn counts against the budget once its row *)
(* is inserted, which is after the transaction that admitted its task.     *)
(***************************************************************************)
EXTENDS PolicyRules

CONSTANTS
    Servers,
    Family,      \* provider -> the seat behind it
    Submissions, \* start_task requests, each with what the provider reports at that time
    Before,      \* the turns that may be in the window at the start
    Rolling,     \* the providers for which the share window moves on
    Editors,     \* dashboards and command lines
    Patches,     \* the edits they make: the document fields written
    Tables,      \* the selections a promotion may bring
    Defaults,    \* the document in force when none was saved
    MaxRevision, \* bound on saved revisions
    MaxTasks,    \* bound on admitted tasks
    MaxTurns     \* bound on a provider's turns when a task is continued

Budgets == [turns: Nat, enforce: BOOLEAN]

\* What parse and validate accept: a known field, replaced as a whole.
PatchesValid ==
    \A x \in Patches :
        /\ DOMAIN x # {} /\ DOMAIN x \subseteq DOMAIN Defaults
        /\ "budget" \in DOMAIN x => x.budget \in Budgets

ASSUME PatchesAssumption == PatchesValid

\* A document has every field the rules read.
ASSUME DefaultsAssumption ==
    /\ Defaults = [f \in DOMAIN Defaults |-> Defaults[f]]
    /\ {"budget", "table", "escalate"} \subseteq DOMAIN Defaults
    /\ Defaults.budget \in Budgets

\* A role's ladder is a list of steps below its base and one of steps above it.
Ladders(table) ==
    \A role \in DOMAIN table : {Len(table[role].below), Len(table[role].above)} \subseteq Nat

ASSUME TablesAssumption ==
    \A table \in Tables \cup {Defaults.table} \cup {x.table : x \in {y \in Patches : "table" \in DOMAIN y}} :
        Ladders(table)

\* Requests name configured providers, and turns are counted per provider.
ASSUME RequestsAssumption ==
    /\ IsFiniteSet(Servers)
    /\ \A x \in Submissions : x.req.provider \in Providers
    /\ Before \subseteq [Providers -> [first: Nat, later: Nat]]

NoGroup == "none"

VARIABLES
    saved,   \* dispatch_policy_history: the revisions, each with who wrote it
    draft,   \* editor -> the document it loaded, its revision, and the edit
    staged,  \* the staged promotion record
    call,    \* server -> its start_task call
    tasks,   \* the tasks and their task_dispatch rows
    turns,   \* provider -> turns in the window: first turns and continuations
    held     \* provider -> the latest recorded ladder level in the window

vars == <<saved, draft, staged, call, tasks, turns, held>>

NoDraft == [open |-> FALSE]
NotStaged == [open |-> FALSE]
Idle == [pc |-> "idle"]

Init ==
    /\ saved = <<>>
    /\ draft = [e \in Editors |-> NoDraft]
    /\ staged = NotStaged
    /\ call = [s \in Servers |-> Idle]
    /\ tasks = <<>>
    /\ turns \in Before
    /\ held = [p \in Providers |-> 0]

--------------------------------------------------------------------------------
(* The document.                                                           *)

Revision == Len(saved)
At(n) == IF n = 0 THEN Defaults ELSE saved[n].doc
Current == At(Revision)

Patched(doc, x) == [f \in DOMAIN doc |-> IF f \in DOMAIN x THEN x[f] ELSE doc[f]]

\* save_dispatch_policy: expected is -1 when no revision was named.
Save(doc, expected, by, x) ==
    /\ Revision < MaxRevision
    /\ expected \in {-1, Revision}
    /\ saved' = Append(saved, [doc |-> doc, by |-> by, patch |-> x])

\* An editor loads the document; the dashboard always names the revision it loaded.
Load(e, x, named) ==
    /\ ~draft[e].open
    /\ Revision < MaxRevision
    /\ draft' = [draft EXCEPT ![e] = [open |-> TRUE, doc |-> Current, patch |-> x,
                                      expected |-> IF named THEN Revision ELSE -1]]
    /\ UNCHANGED <<saved, staged, call, tasks, turns, held>>

(* Faulty variant: the document that is current when saving is never compared. *)
SaveDraftBlind(e) ==
    /\ draft[e].open
    /\ Save(Patched(draft[e].doc, draft[e].patch), -1,
            IF draft[e].expected = -1 THEN "blind" ELSE "edit", draft[e].patch)
    /\ draft' = [draft EXCEPT ![e] = NoDraft]
    /\ UNCHANGED <<staged, call, tasks, turns, held>>

SaveDraft(e) ==
    /\ draft[e].open
    /\ Save(Patched(draft[e].doc, draft[e].patch), draft[e].expected,
            IF draft[e].expected = -1 THEN "blind" ELSE "edit", draft[e].patch)
    /\ draft' = [draft EXCEPT ![e] = NoDraft]
    /\ UNCHANGED <<staged, call, tasks, turns, held>>

\* A revision conflict, or an edit that is given up.
DropDraft(e) ==
    /\ draft[e].open
    /\ draft' = [draft EXCEPT ![e] = NoDraft]
    /\ UNCHANGED <<saved, staged, call, tasks, turns, held>>

\* stage creates the record exclusively: one promotion per path.
Stage(table) ==
    /\ ~staged.open
    /\ Revision < MaxRevision
    /\ staged' = [open |-> TRUE, expected |-> Revision, previous |-> Current,
                  candidate |-> [Current EXCEPT !.table = table]]
    /\ UNCHANGED <<saved, draft, call, tasks, turns, held>>

Promote ==
    /\ staged.open
    /\ Save(staged.candidate, staged.expected, "promote", [table |-> staged.candidate.table])
    /\ UNCHANGED <<draft, staged, call, tasks, turns, held>>

\* Only while the staged write is still the current one.
Rollback ==
    /\ staged.open
    /\ Current = staged.candidate
    /\ Save(staged.previous, staged.expected + 1, "rollback", [table |-> staged.previous.table])
    /\ UNCHANGED <<draft, staged, call, tasks, turns, held>>

--------------------------------------------------------------------------------
(* start_task.                                                             *)

Used == [p \in Providers |-> turns[p].first + turns[p].later]
NextTask == Len(tasks) + 1

\* A request names a provider and a role, what the caller sent, and a fan-out group;
\* report holds the provider's availability and the usage windows it reported.
\* The snapshot: the document, its status and the selection all come from one load.
Submit(s, r, report) ==
    LET doc   == Current
        level == EscalationLevel(doc, r.provider, Used, held[r.provider], report)
        chosen == ResolveSelection(doc, r, level)
    IN  /\ call[s] = Idle
        /\ NextTask <= MaxTasks
        /\ ~Refused(doc, r.provider, Used)
        /\ call' = [call EXCEPT ![s] =
                      [pc |-> "selected", req |-> r, revision |-> Revision,
                       chosen |-> chosen]]
        /\ UNCHANGED <<saved, draft, staged, tasks, turns, held>>

(* Faulty variant: a cancelled member alone frees its family's place. *)
FanoutAnyState(r) ==
    \A i \in 1..Len(tasks) :
        ~(/\ r.group # NoGroup /\ tasks[i].req.group = r.group
          /\ tasks[i].state = "preparing"
          /\ Family[tasks[i].req.provider] = Family[r.provider])

\* A member that failed or was cancelled no longer holds its family's place.
FanoutIndependent(r) ==
    \A i \in 1..Len(tasks) :
        ~(/\ r.group # NoGroup /\ tasks[i].req.group = r.group
          /\ tasks[i].state # "gone"
          /\ Family[tasks[i].req.provider] = Family[r.provider])

\* The checks repeated in the transaction that creates the task.
MayCreate(s) ==
    /\ ~Refused(Current, call[s].req.provider, Used)
    /\ FanoutIndependent(call[s].req)

Create(s) ==
    /\ call[s].pc = "selected"
    /\ NextTask <= MaxTasks
    /\ MayCreate(s)
    /\ tasks' = Append(tasks, [req |-> call[s].req, state |-> "preparing",
                               revision |-> call[s].revision, sel |-> call[s].chosen.sel,
                               level |-> call[s].chosen.reached])
    /\ held' = IF call[s].chosen.reached = NoLevel THEN held
               ELSE [held EXCEPT ![call[s].req.provider] = call[s].chosen.reached]
    /\ call' = [call EXCEPT ![s] = [pc |-> "created", task |-> NextTask]]
    /\ UNCHANGED <<saved, draft, staged, turns>>

Refuse(s) ==
    /\ call[s].pc = "selected"
    /\ ~MayCreate(s)
    /\ call' = [call EXCEPT ![s] = Idle]
    /\ UNCHANGED <<saved, draft, staged, tasks, turns, held>>

\* _prepare: the turn is inserted even for a task that was cancelled or failed meanwhile.
Prepare(s) ==
    LET i == call[s].task
        p == tasks[i].req.provider
    IN  /\ call[s].pc = "created"
        /\ turns' = [turns EXCEPT ![p].first = @ + 1]
        /\ tasks' = [tasks EXCEPT ![i].state = IF @ = "preparing" THEN "live" ELSE @]
        /\ call' = [call EXCEPT ![s] = Idle]
        /\ UNCHANGED <<saved, draft, staged, held>>

PrepareFails(s) ==
    /\ call[s].pc = "created"
    /\ tasks' = [tasks EXCEPT ![call[s].task].state = "gone"]
    /\ call' = [call EXCEPT ![s] = Idle]
    /\ UNCHANGED <<saved, draft, staged, turns, held>>

Crash(s) ==
    /\ call[s] # Idle
    /\ call' = [call EXCEPT ![s] = Idle]
    /\ UNCHANGED <<saved, draft, staged, tasks, turns, held>>

--------------------------------------------------------------------------------
(* What becomes of a task, and the window that moves on.                   *)

\* A cancel, a failure, or a preparation that took longer than NEVER_STARTED_AFTER_S.
\* A task in state live waits, runs, or has completed and may be continued.
GiveUp(i) ==
    /\ tasks[i].state # "gone"
    /\ tasks' = [tasks EXCEPT ![i].state = "gone"]
    /\ UNCHANGED <<saved, draft, staged, call, turns, held>>

\* A continuation is not admitted again: no budget is looked at.
Continue(i) ==
    LET p == tasks[i].req.provider
    IN  /\ tasks[i].state = "live"
        /\ Used[p] < MaxTurns
        /\ turns' = [turns EXCEPT ![p].later = @ + 1]
        /\ UNCHANGED <<saved, draft, staged, call, tasks, held>>

\* The oldest turn, or the last recorded level, leaves the rolling window.
WindowMoves(p) ==
    /\ p \in Rolling
    /\ \/ /\ turns[p].first > 0
          /\ turns' = [turns EXCEPT ![p].first = @ - 1]
          /\ UNCHANGED held
       \/ /\ turns[p].later > 0
          /\ turns' = [turns EXCEPT ![p].later = @ - 1]
          /\ UNCHANGED held
       \/ /\ held[p] # 0
          /\ held' = [held EXCEPT ![p] = 0]
          /\ UNCHANGED turns
    /\ UNCHANGED <<saved, draft, staged, call, tasks>>

--------------------------------------------------------------------------------
Next ==
    \/ \E e \in Editors : \/ \E x \in Patches, named \in BOOLEAN : Load(e, x, named)
                          \/ SaveDraft(e) \/ DropDraft(e)
    \/ \E table \in Tables : Stage(table)
    \/ Promote \/ Rollback
    \/ \E s \in Servers : \/ \E x \in Submissions : Submit(s, x.req, x.report)
                          \/ Create(s) \/ Refuse(s) \/ Prepare(s) \/ PrepareFails(s) \/ Crash(s)
    \/ \E i \in 1..Len(tasks) : GiveUp(i) \/ Continue(i)
    \/ \E p \in Providers : WindowMoves(p)

Spec == Init /\ [][Next]_vars

--------------------------------------------------------------------------------
(* No edit is lost: a save or a promotion changes the fields it names in   *)
(* the revision before it and nothing else, and the rollback of a          *)
(* promotion restores exactly the document the promotion replaced, never   *)
(* over an edit saved after it (if_revision in save_dispatch_policy;       *)
(* policy_promotion.rollback).                                             *)
EditsNotLost ==
    \A n \in 1..Revision :
        IF saved[n].by = "rollback"
        THEN n >= 2 /\ saved[n].doc = At(n - 2)
        ELSE saved[n].by \in {"edit", "promote"} => saved[n].doc = Patched(At(n - 1), saved[n].patch)

LimitsSeen == {At(n).budget : n \in 0..Revision}

(* The first turns in a window exceed the largest enforced budget there    *)
(* has been by less than the number of servers: the turn is counted after  *)
(* the admission, and each server has one submission under way.            *)
BudgetOvershoot ==
    (\A b \in LimitsSeen : b.enforce /\ b.turns # 0) =>
        turns[Steered].first <= Max({b.turns : b \in LimitsSeen}) + Cardinality(Servers) - 1

(* A fan-out group has at most one live member of a provider family,       *)
(* whichever servers the members were submitted to.                        *)
SecondOpinionsIndependent ==
    \A i, j \in 1..Len(tasks) :
        (/\ tasks[i].req.group # NoGroup /\ tasks[i].req.group = tasks[j].req.group
         /\ "gone" \notin {tasks[i].state, tasks[j].state}
         /\ Family[tasks[i].req.provider] = Family[tasks[j].req.provider]) => i = j

Selects(s) == call[s] = Idle /\ call'[s] # Idle /\ call'[s].chosen.reached # NoLevel

(* A task is stepped up only on a provider that is short of its target and *)
(* whose budget is not near its end: the brakes outrank the share.         *)
SteppedUpWithRoom ==
    [][\A s \in Servers :
         (Selects(s) /\ call'[s].chosen.reached > 0) =>
             /\ Deficit(Steered, Used) >= 100 * (StepUp[1] - Release)
             /\ Current.budget.turns # 0 =>
                  100 * Used[Steered] < Hold * Current.budget.turns]_vars
================================================================================
