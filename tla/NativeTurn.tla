------------------------------- MODULE NativeTurn -------------------------------
(***************************************************************************)
(* The turns of a consult task whose provider is reached without ACP: Muse *)
(* over its MSP stdio protocol (muse_msp.py, muse.py) or the Antigravity   *)
(* CLI over NDJSON (agy_cli.py), with the parts of runner.py that drive    *)
(* them and of recovery.py that judge them after a crash.                  *)
(*                                                                         *)
(* A Muse turn is one command of a durable session.  Its intent is         *)
(* journaled before it is sent and its outcome once it is known; a command *)
(* without an outcome stops every later turn, since sending another could  *)
(* repeat its effects.  Antigravity reports cumulative counters of the     *)
(* conversation's usage, or some of them; of each a turn counts the        *)
(* difference to the report that was recorded last, if that has it.        *)
(*                                                                         *)
(* The command of a turn has the number of the turn.  An agent's output is *)
(* a stream of numbered events; which of them are messages, tool calls or  *)
(* approvals matters only where the client treats them differently.        *)
(***************************************************************************)
EXTENDS Naturals, Sequences, SequencesExt

CONSTANTS
    MaxTurns,   \* bound: turns of the task, for each family
    MaxEvents,  \* bound: events of a Muse turn
    MaxMessages, \* bound: messages of a Muse turn
    Counters,   \* _COUNTERS: what Antigravity reports of a conversation's usage
    MaxSpent    \* bound: how far each counter goes

ASSUME BoundsAssumption ==
    /\ MaxTurns \in [{"muse", "agy"} -> Nat \ {0}]
    /\ {MaxEvents, MaxMessages, MaxSpent} \subseteq Nat

VARIABLES
    family,     \* the task's provider_family
    qualified,  \* muse.qualification: whether the release enables the provider
    state,      \* the task's state
    session,    \* whether the task's session_id is stored
    turn,       \* the number of the task's turns
    worker,     \* where the worker process stands
    intents,    \* MUSE_COMMAND_INTENT events
    outcomes,   \* MUSE_COMMAND_OUTCOME events
    rows,       \* turn_usage: what was recorded, oldest first
    host,       \* the agent process: "down" or "up"
    started,    \* Muse holds the durable session
    command,    \* what became of each command at Muse
    pipe,       \* Muse's output that is not yet read
    said,       \* what Muse has sent of the turn: messages, events, and whether a reply
    client,     \* MuseWorker's state within a prompt
    spent,      \* Antigravity's usage of the conversation, by counter
    agy         \* AgyCliWorker's state

taskVars == <<family, qualified, state, session, turn, intents, outcomes, rows>>
museVars == <<started, command, pipe, said, client>>
agyVars == <<spent, agy>>
vars == <<taskVars, worker, host, museVars, agyVars>>

Commands == 1..MaxTurns["muse"]

Fresh == [acked |-> FALSE, reply |-> "none", before |-> <<>>, seen |-> {},
          captured |-> [n \in 1..MaxEvents |-> 0], terminal |-> "none",
          fatal |-> FALSE, settled |-> FALSE, target |-> "none"]

Silent == [messages |-> 0, events |-> 0, reply |-> FALSE]

(* The row of a turn has the counters its result reported and what of them *)
(* is counted as the turn's own.                                           *)
NoUsage == [turn |-> 0, cumulative |-> <<>>, delta |-> <<>>]
NoAgy == [baseline |-> NoUsage, initialized |-> FALSE, requested |-> FALSE,
          terminal |-> "none", usage |-> NoUsage]

-----------------------------------------------------------------------------
(* The task *)

unresolved_commands == family = "muse" /\ intents \ outcomes # {}

Initial == turn = 1

StartWorker ==
    /\ state \in {"QUEUED", "RESUMING"} /\ worker = "none"
    /\ state' = "RUNNING" /\ worker' = "ready"
    /\ UNCHANGED <<family, qualified, session, turn, intents, outcomes, rows, host, museVars, agyVars>>

(* continue_task: a consult task that completed or was interrupted.        *)
ContinueTask ==
    /\ turn < MaxTurns[family]
    /\ ~unresolved_commands
    /\ state = "COMPLETED" \/ (state = "INTERRUPTED" /\ session)
    /\ state' = "RESUMING" /\ turn' = turn + 1
    /\ UNCHANGED <<family, qualified, session, intents, outcomes, rows, worker, host, museVars, agyVars>>

CancelTask ==
    /\ state = "RUNNING"
    /\ state' = "CANCELLING"
    /\ UNCHANGED <<family, qualified, session, turn, intents, outcomes, rows, worker, host, museVars, agyVars>>

(* Killing the agent's process group leaves a command that it was          *)
(* carrying out neither done nor undone.                                   *)
Kill ==
    /\ host' = "down"
    /\ command' = [c \in Commands |-> IF command[c] \in {"sent", "running"} THEN "stranded" ELSE command[c]]

(* _settle, with its cancelled variant: the outcome that the operator      *)
(* asked for is the one to record.  The turn is completed after it.        *)
SettleAs(s, target) == IF s = "CANCELLING" THEN "CANCELLED" ELSE target

Settle(target) ==
    /\ state' = SettleAs(state, target)
    /\ worker' = "settled"

(* One row for a turn, in the order of the first write.                    *)
insert_turn_usage(usage) ==
    IF \E i \in DOMAIN rows : rows[i].turn = usage.turn
    THEN [i \in DOMAIN rows |-> IF rows[i].turn = usage.turn THEN usage ELSE rows[i]]
    ELSE Append(rows, usage)

(* _complete_turn stores the usage, last.                                  *)
CompleteTurn ==
    /\ worker = "settled"
    /\ worker' = "none"
    /\ rows' = IF agy.usage = NoUsage THEN rows ELSE insert_turn_usage(agy.usage)
    /\ client' = Fresh /\ agy' = NoAgy /\ pipe' = <<>> /\ said' = Silent
    /\ UNCHANGED <<family, qualified, state, session, turn, intents, outcomes, host, started, command, spent>>

(* The unit is killed, and the agent with it.                              *)
WorkerDies ==
    /\ worker # "none"
    /\ worker' = "none"
    /\ Kill /\ client' = Fresh /\ agy' = NoAgy /\ pipe' = <<>> /\ said' = Silent
    /\ UNCHANGED <<taskVars, started, spent>>

(* recovery: the unit is gone while the task is still active.              *)
Reconcile ==
    /\ state \in {"RUNNING", "CANCELLING"} /\ worker = "none"
    /\ \E target \in {"INTERRUPTED", "FAILED"} :
          state' = SettleAs(state, IF unresolved_commands THEN "RECOVERY_AMBIGUOUS" ELSE target)
    /\ UNCHANGED <<family, qualified, session, turn, intents, outcomes, rows, worker, host, museVars, agyVars>>

-----------------------------------------------------------------------------
(* Muse: the session *)

Muse(at) == family = "muse" /\ worker = at

(* What a step of the client leaves alone besides the task's state.        *)
Elsewhere == UNCHANGED <<family, qualified, turn, rows, agyVars>>
NoJournal == UNCHANGED <<intents, outcomes>>

(* _run_turn before the agent starts: an unresolved command, or a release  *)
(* that does not enable the provider.                                      *)
MuseRefused ==
    /\ Muse("ready") /\ (unresolved_commands \/ ~qualified)
    /\ worker' = "settled"
    /\ state' = IF unresolved_commands THEN SettleAs(state, "RECOVERY_AMBIGUOUS") ELSE "FAILED"
    /\ UNCHANGED <<session, host, museVars>> /\ NoJournal /\ Elsewhere

(* __aenter__: the handshake, which checks version and durability.         *)
MuseOpens ==
    /\ Muse("ready") /\ ~unresolved_commands /\ qualified
    /\ \/ worker' = "open" /\ host' = "up" /\ UNCHANGED state
       \/ Settle("FAILED") /\ UNCHANGED host
    /\ UNCHANGED <<session, museVars>> /\ NoJournal /\ Elsewhere

(* new_session stores the identity it chose before Muse hears of it.       *)
MuseSavesSession ==
    /\ Muse("open") /\ Initial
    /\ session' = TRUE /\ worker' = "starting"
    /\ UNCHANGED <<state, host, museVars>> /\ NoJournal /\ Elsewhere

MuseSessionStarts ==
    /\ Muse("starting")
    /\ \/ started' = TRUE /\ worker' = "idle" /\ UNCHANGED <<state, host, command>>
       \/ started' \in BOOLEAN /\ Settle("FAILED") /\ Kill
    /\ UNCHANGED <<session, pipe, said, client>> /\ NoJournal /\ Elsewhere

(* load_session: Muse resumes the session, shows something unresolved in   *)
(* it, or cannot resume it.                                                *)
MuseSessionResumes ==
    /\ Muse("open") /\ ~Initial
    /\ \/ started /\ worker' = "idle" /\ UNCHANGED <<state, host, command>>
       \/ started /\ Settle("RECOVERY_AMBIGUOUS") /\ Kill
       \/ Settle("INTERRUPTED") /\ Kill
    /\ UNCHANGED <<session, started, pipe, said, client>> /\ NoJournal /\ Elsewhere

-----------------------------------------------------------------------------
(* Muse: the command *)

(* prompt is left with what the task is to become and, in client.settled,  *)
(* whether the command's outcome is known; the agent is stopped.           *)
Return(c, target) ==
    /\ worker' = "returned" /\ client' = [c EXCEPT !.target = target]
    /\ Kill /\ pipe' = <<>>
    /\ UNCHANGED <<state, session, started, said>> /\ NoJournal /\ Elsewhere

Continue(stage, c) ==
    /\ worker' = stage /\ client' = c
    /\ UNCHANGED <<state, session, host, started, command, said>> /\ NoJournal /\ Elsewhere

MuseCannotPrompt ==
    /\ Muse("idle") /\ client.fatal
    /\ Return(client, "RECOVERY_AMBIGUOUS")

(* Faulty variant: the command is sent without a journaled intent.         *)
MuseIntentUnwritten ==
    /\ Muse("idle") /\ ~client.fatal
    /\ worker' = "intent"
    /\ UNCHANGED <<state, session, host, museVars, intents, outcomes>> /\ Elsewhere

(* on_command.                                                             *)
MuseIntent ==
    /\ Muse("idle") /\ ~client.fatal
    /\ intents' = intents \cup {turn} /\ worker' = "intent"
    /\ UNCHANGED <<state, session, host, museVars, outcomes>> /\ Elsewhere

MuseSubmit ==
    /\ Muse("intent")
    /\ \/ client.fatal /\ Return(client, "RECOVERY_AMBIGUOUS")
       \/ /\ ~client.fatal
          /\ command' = [command EXCEPT ![turn] = IF host = "up" THEN "sent" ELSE "none"]
          /\ worker' = "prompting"
          /\ UNCHANGED <<state, session, host, started, pipe, said, client>> /\ NoJournal /\ Elsewhere

(* _event on an item: a repetition at the same cursor is dropped.          *)
Capture(c, m) ==
    IF m.n \in c.seen THEN c
    ELSE [c EXCEPT !.seen = @ \cup {m.n}, !.captured[m.n] = @ + 1]

KnownTerminals == {"completed", "cancelled", "failed"}

(* _event: a gap, delegated work or a changed approval mode breaks the     *)
(* connection; the first terminal decides.                                 *)
Event(c, m) ==
    CASE c.fatal -> c
      [] ~c.fatal /\ m.kind = "event" -> Capture(c, m)
      [] ~c.fatal /\ m.kind = "violation" -> [c EXCEPT !.fatal = TRUE]
      [] ~c.fatal /\ m.kind = "terminal" ->
            IF c.terminal = "none"
            THEN [c EXCEPT !.terminal = m.v, !.settled = m.v \in KnownTerminals] ELSE c

(* _read: what arrives before turn/start is acknowledged is kept back; an  *)
(* approval is denied unless that fails; the end of the stream is fatal.   *)
MuseReads ==
    /\ family = "muse" /\ worker \in {"idle", "intent", "prompting", "timedout", "cancelling"}
    /\ pipe # <<>> /\ ~client.fatal
    /\ pipe' = Tail(pipe)
    /\ LET m == Head(pipe)
       IN \/ m.kind = "reply" /\ Continue(worker, [client EXCEPT !.reply = m.v])
          \/ m.kind = "ask" /\ \E f \in BOOLEAN : Continue(worker, [client EXCEPT !.fatal = f])
          \/ m.kind = "eof" /\ Continue(worker, [client EXCEPT !.fatal = TRUE])
          \/ /\ m.kind \in {"event", "violation", "terminal"}
             /\ Continue(worker, IF client.acked THEN Event(client, m)
                                 ELSE [client EXCEPT !.before = Append(@, m)])

(* Faulty variant: what arrived before the acknowledgment is dropped.      *)
ReplayNothing(c) == [c EXCEPT !.acked = TRUE, !.before = <<>>]

Replay(c) == FoldLeft(Event, [c EXCEPT !.acked = TRUE, !.before = <<>>], c.before)

MuseAcked ==
    /\ family = "muse" /\ worker \in {"prompting", "cancelling"}
    /\ client.reply = "ok" /\ ~client.acked
    /\ Continue(worker, Replay(client)) /\ UNCHANGED pipe

(* An internal error does not say whether the command was admitted.        *)
Definitive(reply) == reply = "definitive"

MuseRejected ==
    /\ family = "muse" /\ worker \in {"prompting", "cancelling"}
    /\ client.reply \in {"definitive", "internal", "unexpected"}
    /\ Return([client EXCEPT !.settled = Definitive(client.reply)],
              IF Definitive(client.reply) THEN "FAILED" ELSE "RECOVERY_AMBIGUOUS")

TerminalTargets == [completed |-> "COMPLETED", cancelled |-> "CANCELLED", failed |-> "FAILED",
                    other |-> "RECOVERY_AMBIGUOUS"]

MuseAnswered ==
    /\ family = "muse" /\ worker \in {"prompting", "cancelling"}
    /\ client.terminal # "none"
    /\ Return(client, TerminalTargets[client.terminal])

MuseBreaks ==
    /\ Muse("prompting") /\ client.fatal /\ client.terminal = "none"
    /\ Return(client, "RECOVERY_AMBIGUOUS")

(* The turn's timeout, or a cancel request: the command is interrupted and *)
(* a terminal is awaited for a moment before the agent is stopped.         *)
MuseInterrupts ==
    /\ Muse("prompting") /\ client.terminal = "none" /\ ~client.fatal
    /\ \/ Continue("timedout", client)
       \/ state = "CANCELLING" /\ Continue("cancelling", client)
    /\ UNCHANGED pipe

MuseTimedOut ==
    /\ Muse("timedout")
    /\ Return(client, IF client.terminal = "none" THEN "RECOVERY_AMBIGUOUS" ELSE "FAILED")

MuseStopped ==
    /\ Muse("cancelling") /\ client.terminal = "none"
    /\ worker' = "prompting" /\ client' = [client EXCEPT !.fatal = TRUE]
    /\ Kill
    /\ UNCHANGED <<state, session, started, pipe, said>> /\ NoJournal /\ Elsewhere

MuseJournals ==
    /\ Muse("returned")
    /\ outcomes' = IF client.settled THEN outcomes \cup {turn} ELSE outcomes
    /\ worker' = "journaled"
    /\ UNCHANGED <<state, session, host, museVars, intents>> /\ Elsewhere

MuseSettles ==
    /\ Muse("journaled")
    /\ Settle(client.target)
    /\ UNCHANGED <<session, host, museVars>> /\ NoJournal /\ Elsewhere

-----------------------------------------------------------------------------
(* Muse: the agent.  Replies and events share one stream; an event, even   *)
(* the terminal, may precede the acknowledgment of its command.            *)

MuseUp == family = "muse" /\ host = "up" /\ said.messages < MaxMessages

Say(kind, n, v) ==
    /\ pipe' = Append(pipe, [kind |-> kind, n |-> n, v |-> v])
    /\ said' = [messages |-> said.messages + 1,
                events |-> IF kind = "event" /\ n > said.events THEN n ELSE said.events,
                reply |-> said.reply \/ kind = "reply"]

HostOnly == UNCHANGED <<taskVars, worker, started, client, agyVars>>

HostAdmits ==
    /\ MuseUp /\ command[turn] = "sent"
    /\ command' = [command EXCEPT ![turn] = "running"]
    /\ UNCHANGED <<host, pipe, said>> /\ HostOnly

(* An accepted command was admitted; a definitive rejection changed        *)
(* nothing; neither an internal error nor an unexpected disposition (the   *)
(* command was queued) says what became of it.                             *)
HostReplies(v) ==
    /\ MuseUp /\ ~said.reply /\ command[turn] \in {"sent", "running", "settled"}
    /\ v = "ok" => command[turn] # "sent"
    /\ v = "definitive" => command[turn] = "sent"
    /\ Say("reply", 0, v)
    /\ command' = IF v = "definitive" THEN [command EXCEPT ![turn] = "rejected"] ELSE command
    /\ UNCHANGED host /\ HostOnly

(* A new event or the last one again, an approval request, or something    *)
(* the client does not tolerate.                                           *)
HostEmits ==
    /\ MuseUp /\ command[turn] = "running"
    /\ \/ \E n \in {said.events, said.events + 1} \cap (1..MaxEvents) : Say("event", n, "item")
       \/ \E kind \in {"ask", "violation"} : Say(kind, 0, "none")
    /\ UNCHANGED <<host, command>> /\ HostOnly

HostEnds(v) ==
    /\ MuseUp /\ command[turn] = "running"
    /\ command' = [command EXCEPT ![turn] = "settled"] /\ Say("terminal", 0, v)
    /\ UNCHANGED host /\ HostOnly

HostDies ==
    /\ MuseUp /\ worker \in {"idle", "intent", "prompting", "timedout", "cancelling"}
    /\ Kill /\ Say("eof", 0, "none")
    /\ HostOnly

-----------------------------------------------------------------------------
(* Antigravity *)

Agy(at) == family = "agy" /\ worker = at
AgyOnly == UNCHANGED <<family, qualified, turn, intents, outcomes, rows, museVars>>

(* The usage that was recorded last.                                       *)
PriorUsage == IF rows = <<>> THEN NoUsage ELSE Last(rows)

(* _native_agy_worker reads the baseline and writes the policy that the    *)
(* CLI is started with.                                                    *)
AgyPrepares ==
    /\ Agy("ready")
    /\ \/ worker' = "prepared" /\ agy' = [NoAgy EXCEPT !.baseline = PriorUsage] /\ UNCHANGED state
       \/ state' = "FAILED" /\ worker' = "settled" /\ UNCHANGED agy
    /\ UNCHANGED <<session, host, spent>> /\ AgyOnly

(* model_catalog lists the models; an error, or a selection that is not    *)
(* among them, fails the task.                                             *)
AgyCatalog ==
    /\ Agy("prepared")
    /\ \/ worker' = "selected" /\ UNCHANGED state
       \/ Settle("FAILED")
       \/ state' = "FAILED" /\ worker' = "settled"
    /\ UNCHANGED <<session, host, agy, spent>> /\ AgyOnly

(* prompt starts the CLI, with the stored conversation if there is one.    *)
AgyStarts ==
    /\ Agy("selected")
    /\ worker' = "prompting" /\ host' = "up" /\ agy' = [agy EXCEPT !.requested = session]
    /\ UNCHANGED <<state, session, spent>> /\ AgyOnly

(* prompt is left: the CLI's process group is stopped.                     *)
AgyStops(target) == host' = "down" /\ Settle(target)

(* _session: the identity is stored when it is first seen; a continuation  *)
(* refuses another one.                                                    *)
AgyInit ==
    /\ Agy("prompting") /\ host = "up" /\ ~agy.initialized
    /\ \/ /\ agy' = [agy EXCEPT !.initialized = TRUE] /\ session' = TRUE
          /\ UNCHANGED <<state, worker, host>>
       \/ agy.requested /\ AgyStops("INTERRUPTED") /\ UNCHANGED <<session, agy>>
    /\ UNCHANGED spent /\ AgyOnly

(* The conversation uses tokens, whether or not the worker learns of it.   *)
AgySpends ==
    /\ Agy("prompting") /\ host = "up" /\ agy.initialized /\ agy.terminal = "none"
    /\ \E k \in Counters : spent[k] < MaxSpent /\ spent' = [spent EXCEPT ![k] = @ + 1]
    /\ UNCHANGED <<state, session, worker, host, agy>> /\ AgyOnly

(* Faulty variant: a counter without a baseline is counted from zero.      *)
record_usage_from_zero(total) ==
    LET Baseline(k) == IF agy.requested /\ k \in DOMAIN agy.baseline.cumulative
                       THEN agy.baseline.cumulative[k] ELSE 0
    IN [turn |-> turn, cumulative |-> total, delta |-> [k \in DOMAIN total |-> total[k] - Baseline(k)]]

(* _record_usage: a counter of a continuation that has no baseline is      *)
(* remembered, not counted.                                                *)
record_usage(total) ==
    LET counted == {k \in DOMAIN total : agy.requested => k \in DOMAIN agy.baseline.cumulative}
        Baseline(k) == IF agy.requested THEN agy.baseline.cumulative[k] ELSE 0
    IN [turn |-> turn, cumulative |-> total, delta |-> [k \in counted |-> total[k] - Baseline(k)]]

(* The terminal result: without usage, or with some of the counters, maybe *)
(* none of them.                                                           *)
AgyResult(status) ==
    /\ Agy("prompting") /\ host = "up" /\ agy.terminal = "none"
    /\ agy.initialized \/ status = "ERROR"
    /\ \E usage \in {NoUsage} \cup {record_usage([k \in S |-> spent[k]]) : S \in SUBSET Counters} :
          agy' = [agy EXCEPT !.terminal = status, !.usage = usage]
    /\ UNCHANGED <<state, session, worker, host, spent>> /\ AgyOnly

(* _guard_tool: a tool outside the policy ends the turn.                   *)
AgyToolRefused ==
    /\ Agy("prompting") /\ host = "up" /\ agy.initialized /\ agy.terminal = "none"
    /\ AgyStops("FAILED")
    /\ UNCHANGED <<session, spent, agy>> /\ AgyOnly

(* Malformed or excessive output, output after the terminal result, the    *)
(* turn's timeout, or a process group that does not stop.                  *)
AgyFails ==
    /\ Agy("prompting")
    /\ AgyStops("FAILED")
    /\ UNCHANGED <<session, spent, agy>> /\ AgyOnly

(* What the diagnostics make of a failure: a conversation that cannot be   *)
(* loaded interrupts the task.  Success needs the exit code as well.       *)
AgyTargets == [SUCCESS |-> {"COMPLETED", "FAILED"}, CANCELED |-> {"CANCELLED"},
               ERROR |-> {"FAILED", "INTERRUPTED"}, none |-> {"FAILED", "INTERRUPTED"}]

AgyExits ==
    /\ Agy("prompting")
    /\ \E target \in AgyTargets[agy.terminal] : AgyStops(target)
    /\ UNCHANGED <<session, spent, agy>> /\ AgyOnly

(* cancel stops the CLI whatever it is doing.                              *)
AgyCancelled ==
    /\ Agy("prompting") /\ state = "CANCELLING"
    /\ AgyStops("CANCELLED")
    /\ UNCHANGED <<session, spent, agy>> /\ AgyOnly

-----------------------------------------------------------------------------
Init ==
    /\ family \in {"muse", "agy"} /\ qualified \in BOOLEAN
    /\ state = "QUEUED" /\ session = FALSE /\ turn = 1 /\ worker = "none"
    /\ intents = {} /\ outcomes = {} /\ rows = <<>>
    /\ host = "down" /\ started = FALSE /\ command = [c \in Commands |-> "none"]
    /\ pipe = <<>> /\ said = Silent /\ client = Fresh
    /\ spent = [k \in Counters |-> 0] /\ agy = NoAgy

TaskStep == StartWorker \/ ContinueTask \/ CancelTask \/ CompleteTurn \/ WorkerDies \/ Reconcile

MuseStep ==
    \/ MuseRefused \/ MuseOpens \/ MuseSavesSession \/ MuseSessionStarts \/ MuseSessionResumes
    \/ MuseCannotPrompt \/ MuseIntent \/ MuseSubmit
    \/ MuseReads \/ MuseAcked \/ MuseRejected \/ MuseAnswered \/ MuseBreaks
    \/ MuseInterrupts \/ MuseTimedOut \/ MuseStopped \/ MuseJournals \/ MuseSettles

HostStep ==
    \/ HostAdmits \/ HostEmits \/ HostDies
    \/ \E v \in {"ok", "definitive", "internal", "unexpected"} : HostReplies(v)
    \/ \E v \in KnownTerminals \cup {"other"} : HostEnds(v)

AgyStep ==
    \/ AgyPrepares \/ AgyCatalog \/ AgyStarts \/ AgyInit \/ AgySpends \/ AgyToolRefused \/ AgyFails \/ AgyExits \/ AgyCancelled
    \/ \E status \in {"SUCCESS", "CANCELED", "ERROR"} : AgyResult(status)

Next == TaskStep \/ MuseStep \/ HostStep \/ AgyStep

Spec == Init /\ [][Next]_vars

-----------------------------------------------------------------------------
(* Properties *)

(* Commands are sent once: when a command is sent, none of the session's   *)
(* earlier commands may still be carried out, whatever crashed, timed out  *)
(* or was cancelled in between (muse_msp.py, unresolved_commands).         *)
CommandsSettled ==
    \A c, d \in Commands :
        (c < d /\ command[d] # "none") => command[c] \in {"none", "settled", "rejected"}

(* The answer of a completed turn holds every event of the turn exactly    *)
(* once, also those that arrived before the command's acknowledgment and   *)
(* those that were repeated (_read, _event, prompt).                       *)
AnswerComplete ==
    (worker = "returned" /\ client.target = "COMPLETED") =>
        \A n \in 1..said.events : client.captured[n] = 1

Delta(k, row) == IF k \in DOMAIN row.delta THEN row.delta[k] ELSE 0
Counted(k, usages) == FoldLeft(LAMBDA sum, row : sum + Delta(k, row), 0, usages)

(* The first n rows; row 0 stands for the start of the conversation, which *)
(* is a baseline for the first turn only.                                  *)
CountedBy(k, n) == Counted(k, SubSeq(rows, 1, n))
Reported(k, n) == IF n = 0 THEN rows[1].turn = 1 ELSE k \in DOMAIN rows[n].cumulative
Total(k, n) == IF n = 0 THEN 0 ELSE rows[n].cumulative[k]

(* Whatever turns lost their usage with their worker, no counter is        *)
(* counted twice or beyond what was used.  Over rows that all report it,   *)
(* the counted usage is the difference of the totals, though turns between *)
(* them left no row; and what it was before a row that reports it anew is  *)
(* never taken for the usage of that turn (_native_agy_worker,             *)
(* _record_usage).                                                         *)
UsageAddsUp ==
    rows # <<>> =>
        \A k \in Counters :
            /\ CountedBy(k, Len(rows)) <= spent[k]
            /\ \A i, j \in 0..Len(rows) :
                  (i <= j /\ \A n \in i..j : Reported(k, n)) =>
                      CountedBy(k, j) = CountedBy(k, i) + Total(k, j) - Total(k, i)
            /\ \A i \in DOMAIN rows : ~Reported(k, i - 1) => CountedBy(k, i) = CountedBy(k, i - 1)
=============================================================================
