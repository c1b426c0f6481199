-------------------------------- MODULE AcpTurn --------------------------------
(***************************************************************************)
(* One worker turn as a conversation with an agent process (acp_client.py, *)
(* and the part of runner.py that drives it).                              *)
(*                                                                         *)
(* The client coroutine opens a session, selects the protected options one *)
(* at a time, prompts, and tears the agent down.  The agent answers,       *)
(* streams and asks in its own time.  A message is seen by the observer at *)
(* the moment it is received, while the coroutine that awaits the answer   *)
(* resumes in a later step, and a permission request is handled by a task  *)
(* of its own; so the agent's steps act on the observer's state at once    *)
(* and everything else interleaves with them.                              *)
(***************************************************************************)
EXTENDS Naturals, Sequences, FiniteSets

CONSTANTS
    Selection,      \* the protected options in the order the worker selects them
    ReadOnly,       \* consult and review turns: the permission gate allows no write
    LateGrace,      \* the agent's family sends its summary after its answer
    MaxChunks,      \* bound: text updates the agent sends
    MaxDrift        \* bound: times the agent changes an option unasked or declines a selection

Options == {Selection[i] : i \in 1..Len(Selection)}
Values == {"old", "want", "other"}      \* "want" is the value the task selected
Asks == {"read", "write", "delegate", "switch_mode"}
Warnings == {"MODE_SWITCH_ATTEMPT", "DELEGATION_ATTEMPT", "READ_ONLY_VIOLATION"}

ASSUME SelectionAssumption ==
    /\ Selection \in Seq(STRING)
    /\ ReadOnly \in BOOLEAN /\ LateGrace \in BOOLEAN
    /\ MaxChunks \in Nat /\ MaxDrift \in Nat

VARIABLES
    kind,       \* the turn's kind: "initial" or "continue"
    step,       \* where the client coroutine awaits
    selected,   \* how many options have been selected so far
    reply,      \* the answer to the outstanding request: "none", "awaited", "ok", "cancelled", "error"
    answer,     \* the option values that answer carried
    raised,     \* the AcpError on its way out, or "none"
    agent,      \* the process: "absent", "running", "dying" (terminated, may still write) or "gone"
    config,     \* the agent's own option values
    expected,   \* _expected_config: the options whose selected value is protected
    pending,    \* _pending_config: the option being changed and its old value, or NoPending
    seen,       \* session_config_options: the values last remembered
    violation,  \* _config_violation
    capture,    \* _capture
    last,       \* last_result, or NoResult
    asks,       \* permission requests received and not yet handled
    stop,       \* the cancel event (SIGTERM) is set
    cancelling, \* the stored task is CANCELLING
    cancelled,  \* run.cancelled
    chosen,     \* the state _settle is about to record, or "none"
    outcome,    \* the state the turn left its task in, or "none"
    streamed,   \* history: text the agent sent for this prompt before it answered
    drifts,     \* history: unasked changes of the agent's options, and selections it did not make
    broken,     \* history: an unasked change of a protected value before the turn's capture closed
    told,       \* history: warnings the client learned of during the prompt
    early       \* history: the cancel was stored while the client still talked to the agent

conversation == <<kind, step, selected, reply, answer, raised>>
protection == <<config, expected, pending, seen, violation>>
evidence == <<capture, last, asks>>
request == <<stop, cancelling, cancelled, early>>
settlement == <<chosen, outcome>>
history == <<streamed, drifts, broken, told>>
vars == <<conversation, agent, protection, evidence, request, settlement, history>>

NoPending == [option |-> "none", value |-> "none"]
Closed == [open |-> "none", text |-> 0, warnings |-> {}, summary |-> FALSE]
Capture(use) == [Closed EXCEPT !.open = use]
NoResult == [stop |-> "none", text |-> 0, warnings |-> {}]

CaptureRow == [open : {"none", "replay", "turn"}, text : Nat,
               warnings : SUBSET Warnings, summary : BOOLEAN]
ResultRow == [stop : {"none", "end_turn", "cancelled", "timeout", "error"}, text : Nat,
              warnings : SUBSET Warnings]

TypeOK ==
    /\ kind \in {"initial", "continue"}
    /\ step \in {"spawn", "initialize", "session", "mode", "select", "config", "prompt",
                 "late", "stopping", "exit", "settle", "record", "done"}
    /\ selected \in 0..Len(Selection)
    /\ step = "config" => selected # Len(Selection)
    /\ reply \in {"none", "awaited", "ok", "cancelled", "error"}
    /\ answer \in [Options -> Values]
    /\ raised \in {"none", "PRECONDITION", "ACP_SPAWN_FAILED", "ACP_HANDSHAKE_FAILED",
                   "ACP_SESSION_FAILED", "RESUME_UNAVAILABLE", "MODE_UNAVAILABLE",
                   "CONFIG_UNAVAILABLE", "MODE_SWITCH_ATTEMPT", "TURN_TIMEOUT", "ACP_TURN_ERROR",
                   "FINALIZE_FAILED", "WORKER_ERROR"}
    /\ agent \in {"absent", "running", "dying", "gone"}
    /\ config \in [Options -> Values] /\ seen \in [Options -> Values]
    /\ expected \subseteq Options
    /\ pending \in [option : Options, value : Values] \cup {NoPending}
    /\ violation \in BOOLEAN
    /\ capture \in CaptureRow
    /\ last \in ResultRow
    /\ asks \subseteq Asks
    /\ stop \in BOOLEAN /\ cancelling \in BOOLEAN /\ cancelled \in BOOLEAN
    /\ early \in BOOLEAN /\ broken \in BOOLEAN
    /\ chosen \in {"none", "COMPLETED", "CANCELLED", "FAILED", "INTERRUPTED"}
    /\ outcome \in {"none", "COMPLETED", "CANCELLED", "FAILED", "INTERRUPTED", "CANCELLING"}
    /\ streamed \in Nat /\ drifts \in Nat /\ told \subseteq Warnings

Init ==
    /\ kind \in {"initial", "continue"}
    /\ step = "spawn" /\ selected = 0 /\ reply = "none" /\ raised = "none" /\ agent = "absent"
    /\ config = [k \in Options |-> "old"] /\ answer = config /\ seen = config
    /\ expected = {} /\ pending = NoPending /\ violation = FALSE
    /\ capture = Closed /\ last = NoResult /\ asks = {}
    /\ stop = FALSE /\ cancelling = FALSE /\ cancelled = FALSE /\ early = FALSE
    /\ chosen = "none" /\ outcome = "none" /\ streamed = 0 /\ drifts = 0 /\ broken = FALSE /\ told = {}

Alive == agent \in {"running", "dying"}
Capturing == capture.open = "turn"

-----------------------------------------------------------------------------
(* The observer: what is recorded the moment a message is received.          *)

(* _matches_expected_config: the selected value, or the old value of the      *)
(* option whose selection has not been answered yet.                          *)
Matches(k, v) == v = "want" \/ pending = [option |-> k, value |-> v]

Warn(c, w) == IF c.open = "none" THEN c ELSE [c EXCEPT !.warnings = @ \cup {w}]

(* _observe_configuration: the first mismatch is a violation, kept in the     *)
(* capture or, outside a turn, in last_result, and the agent is terminated.   *)
ObserveConfiguration(values) ==
    LET changed == ~violation /\ \E k \in expected : ~Matches(k, values[k])
    IN  /\ violation' = (violation \/ changed)
        /\ capture' = IF changed THEN Warn(capture, "MODE_SWITCH_ATTEMPT") ELSE capture
        /\ last' = IF changed /\ capture.open = "none"
                   THEN [NoResult EXCEPT !.stop = "error", !.warnings = {"MODE_SWITCH_ATTEMPT"}]
                   ELSE last
        /\ agent' = IF changed THEN "dying" ELSE agent

(* Faulty variant: the old value stays permitted until the coroutine resumes. *)
PendingAfterAnswerLeft == pending

(* _observe, an answer received: the selection it answers is over, before any *)
(* later notification and before the coroutine resumes.                       *)
PendingAfterAnswer == NoPending

-----------------------------------------------------------------------------
(* The agent.                                                                *)

(* A text update: replayed history while a session loads, this turn's text    *)
(* while the prompt is unanswered.  An update outside a capture is dropped.   *)
AgentText ==
    /\ Alive /\ reply = "awaited" /\ step \in {"session", "prompt", "stopping"}
    /\ \/ /\ step = "session" /\ kind = "continue"
          /\ capture.text < MaxChunks
          /\ capture' = [capture EXCEPT !.text = @ + 1]
          /\ UNCHANGED streamed
       \/ /\ step # "session" /\ streamed < MaxChunks
          /\ streamed' = streamed + 1
          /\ capture' = IF capture.open = "none" THEN capture
                        ELSE [capture EXCEPT !.text = @ + 1]
    /\ UNCHANGED <<conversation, agent, protection, last, asks, request, settlement,
                   drifts, broken, told>>

(* The agent names a delegation tool in a tool call of its own.               *)
AgentDelegates ==
    /\ Alive /\ reply = "awaited" /\ step = "prompt"
    /\ capture' = Warn(capture, "DELEGATION_ATTEMPT")
    /\ told' = told \cup {"DELEGATION_ATTEMPT"}
    /\ UNCHANGED <<conversation, agent, protection, last, asks, request, settlement,
                   streamed, drifts, broken>>

AgentAsks(k) ==
    /\ Alive /\ reply = "awaited" /\ step = "prompt"
    /\ k \notin asks
    /\ asks' = asks \cup {k}
    /\ UNCHANGED <<conversation, agent, protection, capture, last, request, settlement, history>>

(* A full snapshot of the agent's options, sent for no reason of the client's. *)
AgentAnnounces ==
    /\ Alive /\ step \in {"select", "config", "prompt", "late", "stopping"}
    /\ ObserveConfiguration(config)
    /\ UNCHANGED <<conversation, config, expected, pending, seen, asks, request, settlement, history>>

(* The selection of k has been sent and not answered.                         *)
Selecting(k) == step = "config" /\ reply = "awaited" /\ Selection[selected + 1] = k

(* The agent changes an option nobody asked it to change, and says so.        *)
AgentDrifts(k, v) ==
    /\ Alive /\ step \in {"select", "config", "prompt", "late", "stopping"}
    /\ drifts < MaxDrift /\ v # config[k]
    /\ config' = [config EXCEPT ![k] = v]
    /\ drifts' = drifts + 1
    /\ broken' = (broken \/ (k \in expected /\ v # "want" /\ ~Selecting(k)))
    /\ ObserveConfiguration(config')
    /\ UNCHANGED <<conversation, expected, pending, seen, asks, request, settlement, streamed, told>>

(* The agent carries out a selection; changing one may reset a later one.     *)
AgentApplies(k) ==
    /\ Alive /\ Selecting(k)
    /\ config[k] # "want"
    /\ \E reset \in BOOLEAN :
           config' = [o \in Options |-> IF o = k THEN "want"
                                        ELSE IF reset /\ o \notin expected THEN "other" ELSE config[o]]
    /\ UNCHANGED <<conversation, agent, expected, pending, seen, violation, evidence, request, settlement, history>>

(* A selection the agent answers, well or badly, without carrying it out.     *)
Declined == \E k \in Options : Selecting(k) /\ config[k] # "want"

AgentAnswers ==
    /\ Alive /\ reply = "awaited"
    /\ \/ reply' \in {"ok", "error"}
       \/ reply' = "cancelled" /\ step = "prompt" /\ cancelled
    /\ IF Declined THEN drifts < MaxDrift /\ drifts' = drifts + 1 ELSE UNCHANGED drifts
    /\ answer' = config
    /\ pending' = PendingAfterAnswer
    /\ UNCHANGED <<kind, step, selected, raised, agent, config, expected, seen, violation, evidence,
                   request, settlement, streamed, broken, told>>

(* The turn summary some agents send after their answer.                      *)
AgentSummary ==
    /\ Alive /\ Capturing /\ ~capture.summary
    /\ capture' = [capture EXCEPT !.summary = TRUE]
    /\ UNCHANGED <<conversation, agent, protection, last, asks, request, settlement, history>>

(* The process ends: an outstanding request fails with its connection.        *)
AgentDies ==
    /\ Alive
    /\ agent' = "gone"
    /\ reply' = IF reply = "awaited" THEN "error" ELSE reply
    /\ UNCHANGED <<kind, step, selected, answer, raised, protection, evidence, request, settlement, history>>

-----------------------------------------------------------------------------
(* The permission gate.                                                      *)

(* PermissionPolicy.select: what is allowed, and the violation of what is not. *)
Select(k) ==
    CASE k = "switch_mode" -> "MODE_SWITCH_ATTEMPT"
      [] k = "delegate" -> "DELEGATION_ATTEMPT"
      [] k = "write" /\ ReadOnly -> "READ_ONLY_VIOLATION"
      [] OTHER -> "allow"

(* request_permission and _record_permission, in the task that handles it.    *)
HandlePermission(k) ==
    /\ Alive /\ k \in asks
    /\ asks' = asks \ {k}
    /\ LET verdict == Select(k)
       IN  /\ capture' = IF verdict = "allow" THEN capture ELSE Warn(capture, verdict)
           /\ told' = IF verdict # "allow" /\ Capturing THEN told \cup {verdict} ELSE told
    /\ UNCHANGED <<conversation, agent, protection, last, request, settlement, streamed, drifts, broken>>

-----------------------------------------------------------------------------
(* The client coroutine.                                                     *)

Await(next) == step' = next /\ reply' = "awaited" /\ raised' = raised
Raise(code) == step' = "exit" /\ raised' = code /\ reply' = "none"

Answered(ok) == IF ok THEN reply = "ok" ELSE reply \in {"error", "awaited"}   \* "awaited": its timeout expires

(* __aenter__, the process: it starts, or it cannot be launched.              *)
Spawn ==
    /\ step = "spawn"
    /\ \/ Await("initialize") /\ agent' = "running"
       \/ /\ step' = "settle" /\ raised' \in {"PRECONDITION", "ACP_SPAWN_FAILED"}
          /\ UNCHANGED <<reply, agent>>
    /\ UNCHANGED <<kind, selected, answer, protection, evidence, request, settlement, history>>

(* __aenter__, initialize refused, lost or late: the process is torn down.    *)
HandshakeFails ==
    /\ step = "initialize" /\ Answered(FALSE)
    /\ step' = "settle" /\ raised' = "ACP_HANDSHAKE_FAILED" /\ reply' = "none"
    /\ agent' = "gone"
    /\ UNCHANGED <<kind, selected, answer, protection, evidence, request, settlement, history>>

(* _open_session: session/new, or session/load with its replay set aside.  An *)
(* agent without the evidence or without session/load ends the turn here.     *)
OpenSession ==
    /\ step = "initialize" /\ Answered(TRUE)
    /\ \/ /\ Await("session")
          /\ capture' = IF kind = "continue" THEN Capture("replay") ELSE capture
       \/ /\ \/ Raise("PRECONDITION")
             \/ kind = "continue" /\ Raise("RESUME_UNAVAILABLE")
          /\ UNCHANGED capture
    /\ UNCHANGED <<kind, selected, answer, agent, protection, last, asks, request, settlement, history>>

(* new_session or load_session returns: its replay is forgotten, its options  *)
(* are remembered, and the session mode is asked for.                         *)
SessionOpens ==
    /\ step = "session" /\ Answered(TRUE)
    /\ Await("mode")
    /\ seen' = answer
    /\ capture' = Closed
    /\ UNCHANGED <<kind, selected, answer, agent, config, expected, pending, violation, last, asks,
                   request, settlement, history>>

SessionFails ==
    /\ step = "session" /\ Answered(FALSE)
    /\ Raise(IF kind = "continue" THEN "RESUME_UNAVAILABLE" ELSE "ACP_SESSION_FAILED")
    /\ capture' = Closed
    /\ UNCHANGED <<kind, selected, answer, agent, protection, last, asks, request, settlement, history>>

(* set_mode.                                                                  *)
ModeAnswered ==
    /\ step = "mode"
    /\ \/ /\ Answered(TRUE)
          /\ step' = "select" /\ reply' = "none" /\ UNCHANGED raised
       \/ Answered(FALSE) /\ Raise("MODE_UNAVAILABLE")
    /\ UNCHANGED <<kind, selected, answer, agent, protection, evidence, request, settlement, history>>

(* set_config_option, the request: the new value is protected from now on,    *)
(* and the old one permitted until the answer.                                *)
SelectOption ==
    /\ step = "select" /\ selected < Len(Selection)
    /\ IF violation
       THEN Raise("MODE_SWITCH_ATTEMPT") /\ UNCHANGED <<expected, pending>>
       ELSE LET k == Selection[selected + 1]
            IN  /\ Await("config")
                /\ expected' = expected \cup {k}
                /\ pending' = [option |-> k, value |-> seen[k]]
    /\ UNCHANGED <<kind, selected, answer, agent, config, seen, violation, evidence, request, settlement, history>>

(* set_config_option, the answer: every protected value must be confirmed.    *)
OptionSelected ==
    /\ step = "config" /\ Answered(TRUE) /\ ~violation
    /\ \A k \in expected : answer[k] = "want"
    /\ step' = "select" /\ reply' = "none" /\ raised' = raised
    /\ selected' = selected + 1
    /\ seen' = answer
    /\ pending' = NoPending
    /\ UNCHANGED <<kind, answer, agent, config, expected, violation, evidence, request, settlement, history>>

(* set_config_option refused, unanswered, unconfirmed or violated: the        *)
(* protection falls back to what was selected before.  An unconfirmed answer  *)
(* counts as an announcement of its values.                                   *)
OptionFails ==
    /\ step = "config"
    /\ \/ Answered(FALSE) /\ UNCHANGED <<violation, capture, last, agent>>
       \/ /\ Answered(TRUE)
          /\ violation \/ \E k \in expected : answer[k] # "want"
          /\ IF violation THEN UNCHANGED <<violation, capture, last, agent>>
             ELSE ObserveConfiguration(answer)
    /\ Raise("CONFIG_UNAVAILABLE")
    /\ expected' = expected \ {Selection[selected + 1]}
    /\ pending' = NoPending
    /\ UNCHANGED <<kind, selected, answer, config, seen, asks, request, settlement, history>>

(* _prompt and prompt, the request: the provider may have become unavailable, *)
(* and a violation seen since the selection ends the turn at once.            *)
Prompt ==
    /\ step = "select" /\ selected = Len(Selection)
    /\ \/ Raise("PRECONDITION") /\ UNCHANGED <<capture, last>>
       \/ /\ violation
          /\ Raise("MODE_SWITCH_ATTEMPT")
          /\ last' = [NoResult EXCEPT !.stop = "error", !.warnings = {"MODE_SWITCH_ATTEMPT"}]
          /\ UNCHANGED capture
       \/ /\ ~violation
          /\ Await("prompt")
          /\ capture' = Capture("turn")
          /\ last' = NoResult
    /\ UNCHANGED <<kind, selected, answer, agent, protection, asks, request, settlement, history>>

(* Faulty variant: a prompt that raises leaves no result. *)
ConcludeSuccessOnly(reason) ==
    /\ last' = IF reason \in {"end_turn", "cancelled"}
               THEN [stop |-> reason, text |-> capture.text,
                     warnings |-> capture.warnings]
               ELSE last
    /\ capture' = Closed

(* The finally clause of prompt: whatever happened, the capture becomes the   *)
(* result, marked as an error when a protected value changed.                 *)
Conclude(reason) ==
    /\ last' = [stop |-> IF violation THEN "error" ELSE reason,
                text |-> capture.text,
                warnings |-> capture.warnings \cup (IF violation THEN {"MODE_SWITCH_ATTEMPT"} ELSE {})]
    /\ capture' = Closed

(* The turn's answer; some agents are given a moment for their summary.       *)
Answer ==
    /\ step = "prompt" /\ reply \in {"ok", "cancelled"}
    /\ LateGrace /\ ~capture.summary
    /\ step' = "late"
    /\ UNCHANGED <<kind, selected, reply, answer, raised, agent, protection, evidence, request, settlement, history>>

(* prompt returns its result, or raises when a protected value changed; the   *)
(* grace ends with the summary, a violation or its deadline.                  *)
PromptReturns ==
    /\ reply \in {"ok", "cancelled"}
    /\ \/ step = "prompt" /\ (~LateGrace \/ capture.summary)
       \/ step = "late"
    /\ Conclude(IF reply = "ok" THEN "end_turn" ELSE "cancelled")
    /\ IF violation THEN Raise("MODE_SWITCH_ATTEMPT")
       ELSE step' = "exit" /\ UNCHANGED <<raised, reply>>
    /\ UNCHANGED <<kind, selected, answer, agent, protection, asks, request, settlement, history>>

PromptFails ==
    /\ step = "prompt" /\ reply = "error"
    /\ Conclude("error")
    /\ Raise(IF violation THEN "MODE_SWITCH_ATTEMPT" ELSE "ACP_TURN_ERROR")
    /\ UNCHANGED <<kind, selected, answer, agent, protection, asks, request, settlement, history>>

(* Faulty variant: a turn that was told to stop is waited for without a limit. *)
PromptTimesOutUncancelled ==
    /\ step = "prompt" /\ reply = "awaited" /\ ~cancelled
    /\ step' = "stopping" /\ raised' = "TURN_TIMEOUT" /\ UNCHANGED <<reply, capture, last>>
    /\ UNCHANGED <<kind, selected, answer, agent, protection, asks, request, settlement, history>>

(* The turn exceeds its time: a violation wins, otherwise the agent is asked  *)
(* to stop, and goes on writing until that call ends.                         *)
PromptTimesOut ==
    /\ step = "prompt" /\ reply = "awaited"
    /\ IF violation
       THEN Conclude("error") /\ Raise("MODE_SWITCH_ATTEMPT")
       ELSE step' = "stopping" /\ raised' = "TURN_TIMEOUT" /\ UNCHANGED <<reply, capture, last>>
    /\ UNCHANGED <<kind, selected, answer, agent, protection, asks, request, settlement, history>>

StopSent ==
    /\ step = "stopping"
    /\ Conclude("timeout")
    /\ Raise(raised)
    /\ UNCHANGED <<kind, selected, answer, agent, protection, asks, request, settlement, history>>

(* _prompt: the cancel event wins the race while the turn has not returned.   *)
CancelTurn ==
    /\ step \in {"prompt", "late", "stopping"} /\ stop /\ ~cancelled
    /\ cancelled' = TRUE
    /\ UNCHANGED <<conversation, agent, protection, evidence, stop, cancelling, early, settlement, history>>

(* __aexit__: sessions cancelled, capture dropped, process torn down.         *)
Exit ==
    /\ step = "exit"
    /\ step' = "settle" /\ agent' = "gone" /\ capture' = Closed /\ asks' = {}
    /\ UNCHANGED <<kind, selected, reply, answer, raised, protection, last, request, settlement, history>>

(* Faulty variant: an error the cancel caused is settled as an error. *)
OutcomeByError ==
    CASE raised = "none" -> IF cancelled \/ last.stop = "cancelled" THEN "CANCELLED" ELSE "COMPLETED"
      [] raised = "RESUME_UNAVAILABLE" -> "INTERRUPTED"
      [] OTHER -> "FAILED"

(* Failures of the worker itself, raised outside the conversation with the    *)
(* agent or before it: they are settled FAILED whoever asked for a cancel.    *)
OwnFailures == {"PRECONDITION", "FINALIZE_FAILED", "WORKER_ERROR"}

(* _run_turn after the conversation: an agent that errors out because it was  *)
(* cancelled was still cancelled.  COMPLETED stands for RESULT_READY too.     *)
Outcome ==
    CASE raised = "none" -> IF cancelled \/ last.stop = "cancelled" THEN "CANCELLED" ELSE "COMPLETED"
      [] raised \in OwnFailures -> "FAILED"
      [] raised \notin OwnFailures \cup {"none"} /\ (cancelled \/ stop \/ cancelling) -> "CANCELLED"
      [] raised = "RESUME_UNAVAILABLE" /\ ~(cancelled \/ stop \/ cancelling) -> "INTERRUPTED"
      [] OTHER -> "FAILED"

(* _finalize of an answered turn: a malformed review, a candidate git cannot  *)
(* collapse, a protected path, or any other exception.                        *)
FinalizeFails ==
    /\ step = "settle" /\ raised = "none" /\ Outcome = "COMPLETED"
    /\ raised' = "FINALIZE_FAILED"
    /\ UNCHANGED <<kind, step, selected, reply, answer, agent, protection, evidence, request,
                   settlement, history>>

(* _settle, the state to record: it reads the stored task, and one that is    *)
(* CANCELLING ends CANCELLED or FAILED.                                       *)
Settle ==
    /\ step = "settle"
    /\ step' = "record"
    /\ chosen' = IF cancelling /\ Outcome # "FAILED" THEN "CANCELLED" ELSE Outcome
    /\ UNCHANGED <<kind, selected, reply, answer, raised, agent, protection, evidence, request, outcome, history>>

(* _settle, the transition: a cancel stored since the read makes any state    *)
(* but CANCELLED and FAILED illegal.  run_worker settles that exception when   *)
(* it comes from _finalize; from its own handler of an interruption it escapes *)
(* and ends the worker, which leaves the task CANCELLING to the recovery.      *)
Record ==
    /\ step = "record"
    /\ \/ /\ cancelling /\ chosen = "COMPLETED"
          /\ raised' = "WORKER_ERROR" /\ step' = "settle" /\ UNCHANGED outcome
       \/ /\ cancelling /\ chosen = "INTERRUPTED"
          /\ outcome' = "CANCELLING" /\ step' = "done" /\ UNCHANGED raised
       \/ /\ cancelling => chosen \in {"CANCELLED", "FAILED"}
          /\ outcome' = chosen /\ step' = "done" /\ UNCHANGED raised
    /\ UNCHANGED <<kind, selected, reply, answer, agent, protection, evidence, request, chosen, history>>

-----------------------------------------------------------------------------
(* cancel_task stores CANCELLING, then its SIGTERM reaches the worker.        *)
StoreCancel ==
    /\ ~cancelling /\ step # "done"
    /\ cancelling' = TRUE
    /\ early' = (step \notin {"exit", "settle", "record"})
    /\ UNCHANGED <<conversation, agent, protection, evidence, stop, cancelled, settlement, history>>

Sigterm ==
    /\ cancelling /\ ~stop /\ step # "done"
    /\ stop' = TRUE
    /\ UNCHANGED <<conversation, agent, protection, evidence, cancelling, cancelled, early, settlement, history>>

Client ==
    \/ Spawn \/ HandshakeFails \/ OpenSession \/ SessionOpens \/ SessionFails \/ ModeAnswered
    \/ SelectOption \/ OptionSelected \/ OptionFails
    \/ Prompt \/ Answer \/ PromptReturns \/ PromptFails \/ PromptTimesOut \/ StopSent
    \/ Exit \/ FinalizeFails \/ Settle \/ Record

Agent ==
    \/ AgentText \/ AgentDelegates \/ AgentAnnounces \/ AgentAnswers \/ AgentSummary \/ AgentDies
    \/ \E k \in Asks : AgentAsks(k)
    \/ \E k \in Options : AgentApplies(k)
    \/ \E k \in Options, v \in Values \ {"want"} : AgentDrifts(k, v)

Next ==
    \/ Client \/ Agent \/ CancelTurn \/ StoreCancel \/ Sigterm
    \/ \E k \in Asks : HandlePermission(k)

Spec == Init /\ [][Next]_vars

(* Every await of the client has a timeout, so the coroutine always goes on;  *)
(* the agent and the operator owe nothing.                                    *)
FairSpec == Spec /\ WF_vars(Client)

-----------------------------------------------------------------------------
(* A turn is not reported completed when the agent left a selected option     *)
(* value at any moment between its confirmation and the end of the turn, also *)
(* not when it did so between sending an answer and the client reading it     *)
(* (acp_client._observe_configuration, _require_configuration_intact).        *)
SelectionKept == outcome = "COMPLETED" => ~broken

(* Whatever ended a prompt - an answer, an error, a timeout, a cancel, a dead *)
(* agent - the settled turn has all the text the agent streamed for it, none  *)
(* of a replayed history, and every warning the client learned of             *)
(* (acp_client.prompt, load_session; runner._run_turn).                       *)
EvidenceKept ==
    outcome # "none" => last.text = streamed /\ told \subseteq last.warnings

(* A cancel that was stored before the turn settled is never lost to COMPLETED *)
(* or INTERRUPTED, wherever in the turn, its finalisation or its settlement it *)
(* landed; and one stored while the client still talked to its agent ends      *)
(* CANCELLED, or FAILED for a failure of the worker's own: a precondition, or  *)
(* the finalisation of an answer that beat the cancel.  An error of the agent, *)
(* which the cancel may have caused, is never its outcome (runner._run_turn,   *)
(* _settle).                                                                   *)
CancelHonoured ==
    outcome # "none" =>
        /\ cancelling => outcome \in {"CANCELLED", "FAILED", "CANCELLING"}
        /\ early => \/ outcome = "CANCELLED"
                    \/ outcome = "FAILED" /\ raised \in {"PRECONDITION", "FINALIZE_FAILED"}

(* What the comment in runner._settle says of a cancel that lands while the    *)
(* turn is finishing: what the turn produced is kept, and it settles where the *)
(* state machine allows rather than dropping its outcome.  The code reads the  *)
(* stored state before it writes, and a cancel may land between the two.       *)
LateCancelKeepsTurn ==
    outcome # "none" /\ cancelling /\ raised \in {"none", "WORKER_ERROR"} => outcome = "CANCELLED"

(* Every turn ends, however silent the agent is.                              *)
TurnEnds == <>(outcome # "none")
================================================================================
