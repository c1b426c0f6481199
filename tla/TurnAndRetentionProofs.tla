----------------------- MODULE TurnAndRetentionProofs -----------------------
(***************************************************************************)
(* What holds of a turn's conversation (AcpTurn) for every selection of    *)
(* protected options, every mode, and however often the agent streams and  *)
(* drifts; and of what is done about the scratch directory that the turn   *)
(* used and the failures it logged (Retention), for every number of turns, *)
(* processes and failures.  The two models share no variable.              *)
(***************************************************************************)
EXTENDS AcpTurn, Retention, Integers, FiniteSetTheorems, WellFoundedInduction, TLAPS

Before == {"spawn", "initialize", "session", "mode", "select", "config"}
During == {"prompt", "late", "stopping"}
After == {"exit", "settle", "record", "done"}

(* Cancelling.  The cancel that counts is the stored one, a turn that settled is over, and
   one that was stored while the agent was there is seen by the read before the record. *)
CancelKept ==
    /\ early => cancelling
    /\ outcome # "none" => step = "done"
    /\ raised = "WORKER_ERROR" => ~early /\ step \in {"settle", "record", "done"}
    /\ step = "record" /\ early =>
           \/ chosen = "CANCELLED"
           \/ chosen = "FAILED" /\ raised \in {"PRECONDITION", "FINALIZE_FAILED"}
    /\ CancelHonoured

(* Protection.  The old value of an option is permitted only while its selection is under
   way; a protected value that changed is remembered as a violation, and a violation seen
   before the end of the turn is raised. *)
ProtectionKept ==
    /\ pending # NoPending => /\ step = "config" /\ Selection[selected + 1] = pending.option
                              /\ agent = "gone" \/ reply = "awaited"
    /\ broken => violation
    /\ step = "stopping" => raised = "TURN_TIMEOUT"
    /\ violation /\ step \in After => raised # "none"
    /\ outcome # "none" => step = "done"
    /\ step = "record" /\ chosen = "COMPLETED" => raised = "none"
    /\ outcome = "COMPLETED" => raised = "none"

(* Evidence.  Nothing is captured for the turn before the prompt, everything while it runs,
   and the result holds it afterwards. *)
EvidenceHeld ==
    /\ capture.open = "turn" <=> step \in During
    /\ step \in Before => streamed = 0 /\ told = {} /\ last.text = 0
    /\ step \in During => capture.text = streamed /\ told \subseteq capture.warnings
    /\ step \in After => last.text = streamed /\ told \subseteq last.warnings
    /\ outcome # "none" => step = "done"

---------------------------------------------------------------------------
(* Captures and results keep their shape. *)
LEMMA RowsTyped ==
    /\ Closed \in CaptureRow
    /\ \A use \in {"replay", "turn"} : Capture(use) \in CaptureRow
    /\ NoResult \in ResultRow
    /\ [NoResult EXCEPT !.stop = "error", !.warnings = {"MODE_SWITCH_ATTEMPT"}] \in ResultRow
  BY DEF Closed, Capture, CaptureRow, NoResult, ResultRow, Warnings

(* A warning goes into an open capture and nowhere else. *)
LEMMA WarnTyped ==
    ASSUME capture \in CaptureRow, NEW w \in Warnings
    PROVE  /\ Warn(capture, w) \in CaptureRow
           /\ Warn(capture, w).open = capture.open
           /\ Warn(capture, w).text = capture.text
           /\ capture.warnings \subseteq Warn(capture, w).warnings
           /\ capture.open # "none" => w \in Warn(capture, w).warnings
  BY DEF Warn, CaptureRow

(* One more piece of text. *)
LEMMA TextTyped ==
    ASSUME capture \in CaptureRow
    PROVE  /\ [capture EXCEPT !.text = @ + 1] \in CaptureRow
           /\ [capture EXCEPT !.text = @ + 1].text = capture.text + 1
           /\ [capture EXCEPT !.text = @ + 1].open = capture.open
           /\ [capture EXCEPT !.text = @ + 1].warnings = capture.warnings
  <1> DEFINE n == capture.text + 1
  <1>1. n \in Nat
    BY DEF CaptureRow
  <1> HIDE DEF n
  <1>2. /\ [capture EXCEPT !.text = n] \in CaptureRow
        /\ [capture EXCEPT !.text = n].text = n
        /\ [capture EXCEPT !.text = n].open = capture.open
        /\ [capture EXCEPT !.text = n].warnings = capture.warnings
    BY <1>1 DEF CaptureRow
  <1> QED
    BY <1>2 DEF n

(* What the observer may do to the evidence. *)
LEMMA ObserveTyped ==
    ASSUME TypeOK, NEW values, ObserveConfiguration(values)
    PROVE  /\ violation' \in BOOLEAN /\ (violation => violation')
           /\ capture' \in CaptureRow /\ last' \in ResultRow
           /\ agent' \in {agent, "dying"}
           /\ capture'.open = capture.open /\ capture'.text = capture.text
           /\ capture.warnings \subseteq capture'.warnings
           /\ last' = last \/ last'.text = 0
           /\ capture.open # "none" => last' = last
  <1>1. "MODE_SWITCH_ATTEMPT" \in Warnings
    BY DEF Warnings
  <1>2. capture \in CaptureRow /\ last \in ResultRow /\ violation \in BOOLEAN
    BY DEF TypeOK
  <1>3. violation' \in BOOLEAN /\ (violation => violation')
    BY <1>2 DEF ObserveConfiguration
  <1>4. capture' \in {capture, Warn(capture, "MODE_SWITCH_ATTEMPT")}
    BY DEF ObserveConfiguration
  <1>5. /\ \/ last' = last
           \/ last' = [NoResult EXCEPT !.stop = "error", !.warnings = {"MODE_SWITCH_ATTEMPT"}]
        /\ capture.open # "none" => last' = last
        /\ agent' \in {agent, "dying"}
    BY DEF ObserveConfiguration
  <1>6. last' \in ResultRow /\ (last' = last \/ last'.text = 0)
    BY <1>2, <1>5, RowsTyped DEF NoResult
  <1> QED
    BY <1>1, <1>2, <1>3, <1>4, <1>5, <1>6, WarnTyped

(* What the end of a prompt makes of the capture. *)
LEMMA ConcludeTyped ==
    ASSUME TypeOK, NEW reason \in {"end_turn", "cancelled", "timeout", "error"}, Conclude(reason)
    PROVE  /\ capture' = Closed /\ last' \in ResultRow
           /\ last'.text = capture.text /\ capture.warnings \subseteq last'.warnings
  BY DEF Conclude, TypeOK, ResultRow, CaptureRow, Warnings

(* The next option to select is one of the options. *)
LEMMA SelectionTyped ==
    ASSUME TypeOK, selected < Len(Selection)
    PROVE  Selection[selected + 1] \in Options /\ selected + 1 \in 0..Len(Selection)
  <1>1. Len(Selection) \in Nat
    BY SelectionAssumption
  <1>2. selected + 1 \in 1..Len(Selection)
    BY <1>1 DEF TypeOK
  <1> QED
    BY <1>1, <1>2 DEF Options

(* The client coroutine's steps write typed state. *)
LEMMA ClientTypeOK ==
    ASSUME TypeOK, Client
    PROVE  TypeOK'
  <1> USE DEF conversation, protection, evidence, request, settlement, history, Await, Raise, Answered
  <1>1. CASE Spawn
    BY <1>1 DEF Spawn, TypeOK
  <1>2. CASE HandshakeFails
    BY <1>2 DEF HandshakeFails, TypeOK
  <1>3. CASE OpenSession
    BY <1>3, RowsTyped DEF OpenSession, TypeOK
  <1>4. CASE SessionOpens
    BY <1>4, RowsTyped DEF SessionOpens, TypeOK
  <1>5. CASE SessionFails
    BY <1>5, RowsTyped DEF SessionFails, TypeOK
  <1>6. CASE ModeAnswered
    BY <1>6 DEF ModeAnswered, TypeOK
  <1>7. CASE SelectOption
    <2>1. CASE violation
      BY <1>7, <2>1 DEF SelectOption, TypeOK
    <2>2. CASE ~violation
      <3>1. Selection[selected + 1] \in Options
        BY <1>7, SelectionTyped DEF SelectOption
      <3>2. expected' \subseteq Options /\ pending' \in [option : Options, value : Values]
        BY <1>7, <2>2, <3>1 DEF SelectOption, TypeOK
      <3> QED
        BY <1>7, <2>2, <3>2 DEF SelectOption, TypeOK
    <2> QED
      BY <2>1, <2>2 DEF TypeOK
  <1>8. CASE OptionSelected
    <2>1. selected' \in 0..Len(Selection)
      BY <1>8, SelectionAssumption, SelectionTyped DEF OptionSelected, TypeOK
    <2> QED
      BY <1>8, <2>1 DEF OptionSelected, TypeOK
  <1>9. CASE OptionFails
    <2>1. /\ violation' \in BOOLEAN /\ capture' \in CaptureRow /\ last' \in ResultRow
          /\ agent' \in {agent, "dying"}
      BY <1>9, ObserveTyped DEF OptionFails, TypeOK
    <2> QED
      BY <1>9, <2>1 DEF OptionFails, TypeOK
  <1>10. CASE Prompt
    BY <1>10, RowsTyped DEF Prompt, TypeOK
  <1>11. CASE Answer
    BY <1>11 DEF Answer, TypeOK
  <1>12. CASE PromptReturns
    <2>1. capture' \in CaptureRow /\ last' \in ResultRow
      BY <1>12, ConcludeTyped, RowsTyped DEF PromptReturns
    <2> QED
      BY <1>12, <2>1 DEF PromptReturns, TypeOK
  <1>13. CASE PromptFails
    <2>1. capture' \in CaptureRow /\ last' \in ResultRow
      BY <1>13, ConcludeTyped, RowsTyped DEF PromptFails
    <2> QED
      BY <1>13, <2>1 DEF PromptFails, TypeOK
  <1>14. CASE PromptTimesOut
    <2>1. capture' \in CaptureRow /\ last' \in ResultRow
      BY <1>14, ConcludeTyped, RowsTyped DEF PromptTimesOut, TypeOK
    <2> QED
      BY <1>14, <2>1 DEF PromptTimesOut, TypeOK
  <1>15. CASE StopSent
    <2>1. capture' \in CaptureRow /\ last' \in ResultRow
      BY <1>15, ConcludeTyped, RowsTyped DEF StopSent
    <2> QED
      BY <1>15, <2>1 DEF StopSent, TypeOK
  <1>16. CASE Exit
    BY <1>16, RowsTyped DEF Exit, TypeOK
  <1>17. CASE Settle
    BY <1>17 DEF Settle, Outcome, TypeOK
  <1>18. CASE FinalizeFails
    BY <1>18 DEF FinalizeFails, TypeOK
  <1>19. CASE Record
    BY <1>19 DEF Record, TypeOK
  <1> QED
    BY <1>1, <1>2, <1>3, <1>4, <1>5, <1>6, <1>7, <1>8, <1>9, <1>10, <1>11, <1>12, <1>13,
       <1>14, <1>15, <1>16, <1>17, <1>18, <1>19 DEF Client

(* So do the agent's messages, as the observer records them. *)
LEMMA AgentTypeOK ==
    ASSUME TypeOK, Agent
    PROVE  TypeOK'
  <1> USE DEF conversation, protection, evidence, request, settlement, history, Alive
  <1>1. CASE AgentText
    <2>1. capture' \in CaptureRow /\ streamed' \in Nat
      BY <1>1, TextTyped DEF AgentText, TypeOK
    <2> QED
      BY <1>1, <2>1 DEF AgentText, TypeOK
  <1>2. CASE AgentDelegates
    <2>1. capture' \in CaptureRow /\ told' \subseteq Warnings
      BY <1>2, WarnTyped DEF AgentDelegates, TypeOK, Warnings
    <2> QED
      BY <1>2, <2>1 DEF AgentDelegates, TypeOK
  <1>3. CASE AgentAnnounces
    <2>1. /\ violation' \in BOOLEAN /\ capture' \in CaptureRow /\ last' \in ResultRow
          /\ agent' \in {agent, "dying"}
      BY <1>3, ObserveTyped DEF AgentAnnounces
    <2> QED
      BY <1>3, <2>1 DEF AgentAnnounces, TypeOK
  <1>4. CASE AgentAnswers
    BY <1>4 DEF AgentAnswers, PendingAfterAnswer, TypeOK
  <1>5. CASE AgentSummary
    <2>1. capture' \in CaptureRow
      BY <1>5 DEF AgentSummary, TypeOK, CaptureRow
    <2> QED
      BY <1>5, <2>1 DEF AgentSummary, TypeOK
  <1>6. CASE AgentDies
    BY <1>6 DEF AgentDies, TypeOK
  <1>7. ASSUME NEW k \in Asks, AgentAsks(k)
        PROVE  TypeOK'
    BY <1>7 DEF AgentAsks, TypeOK
  <1>8. ASSUME NEW k \in Options, AgentApplies(k)
        PROVE  TypeOK'
    <2>1. config' \in [Options -> Values]
      BY <1>8 DEF AgentApplies, TypeOK, Values
    <2> QED
      BY <1>8, <2>1 DEF AgentApplies, TypeOK
  <1>9. ASSUME NEW k \in Options, NEW v \in Values \ {"want"}, AgentDrifts(k, v)
        PROVE  TypeOK'
    <2>1. /\ violation' \in BOOLEAN /\ capture' \in CaptureRow /\ last' \in ResultRow
          /\ agent' \in {agent, "dying"}
      BY <1>9, ObserveTyped DEF AgentDrifts
    <2>2. config' \in [Options -> Values] /\ drifts' \in Nat /\ broken' \in BOOLEAN
      BY <1>9 DEF AgentDrifts, TypeOK
    <2> QED
      BY <1>9, <2>1, <2>2 DEF AgentDrifts, TypeOK
  <1> QED
    BY <1>1, <1>2, <1>3, <1>4, <1>5, <1>6, <1>7, <1>8, <1>9 DEF Agent

(* Every state of a turn is typed, for any selection and any number of updates. *)
THEOREM TypeCorrect == Spec => []TypeOK
  <1>1. Init => TypeOK
    <2>1. Len(Selection) \in Nat
      BY SelectionAssumption
    <2>2. Init => config \in [Options -> Values] /\ answer = config /\ seen = config
      BY DEF Init, Values
    <2>3. Init => selected \in 0..Len(Selection) /\ step = "spawn"
      BY <2>1 DEF Init
    <2>4. Init => /\ violation \in BOOLEAN /\ stop \in BOOLEAN /\ cancelling \in BOOLEAN
                  /\ cancelled \in BOOLEAN /\ early \in BOOLEAN /\ broken \in BOOLEAN
      BY Zenon DEF Init
    <2>5. Init => /\ expected \subseteq Options /\ asks \subseteq Asks /\ told \subseteq Warnings
                  /\ pending \in [option : Options, value : Values] \cup {NoPending}
                  /\ streamed \in Nat /\ drifts \in Nat
                  /\ capture \in CaptureRow /\ last \in ResultRow
      BY RowsTyped DEF Init
    <2>6. Init => /\ kind \in {"initial", "continue"} /\ reply = "none" /\ raised = "none"
                  /\ agent = "absent" /\ chosen = "none" /\ outcome = "none"
      BY Zenon DEF Init
    <2> QED
      BY <2>2, <2>3, <2>4, <2>5, <2>6 DEF TypeOK
  <1>2. TypeOK /\ [Next]_vars => TypeOK'
    <2> SUFFICES ASSUME TypeOK, [Next]_vars PROVE TypeOK'
      OBVIOUS
    <2> USE DEF conversation, protection, evidence, request, settlement, history
    <2>1. CASE UNCHANGED vars
      BY <2>1 DEF vars, TypeOK
    <2>2. CASE CancelTurn
      BY <2>2 DEF CancelTurn, TypeOK
    <2>4. CASE StoreCancel
      BY <2>4 DEF StoreCancel, TypeOK
    <2>5. CASE Sigterm
      BY <2>5 DEF Sigterm, TypeOK
    <2>3. ASSUME NEW k \in Asks, HandlePermission(k)
          PROVE  TypeOK'
      <3>1. Select(k) # "allow" => Select(k) \in Warnings
        BY DEF Select, Warnings
      <3>2. capture' \in CaptureRow /\ told' \subseteq Warnings
        BY <2>3, <3>1, WarnTyped DEF HandlePermission, TypeOK
      <3> QED
        BY <2>3, <3>2 DEF HandlePermission, TypeOK
    <2> QED
      BY <2>1, <2>2, <2>3, <2>4, <2>5, ClientTypeOK, AgentTypeOK DEF Next
  <1> QED
    BY <1>1, <1>2, PTL DEF Spec

---------------------------------------------------------------------------
(* Who settles, who stores a cancel, and who may change what they depend on. *)
LEMMA SettlingKept ==
    ASSUME TypeOK, [Next]_vars, ~Settle, ~Record
    PROVE  /\ outcome' = outcome /\ chosen' = chosen
           /\ step = "done" => step' = "done" /\ raised' = raised
           /\ step = "record" => raised' = raised
           /\ step' = "record" => step = "record"
           /\ raised' = "WORKER_ERROR" => raised = "WORKER_ERROR"
           /\ step \in {"settle", "record", "done"} => step' = step
  <1> USE DEF conversation, protection, evidence, request, settlement, history, Await, Raise, Answered
  <1>1. CASE Spawn
    BY <1>1 DEF Spawn
  <1>6. CASE HandshakeFails
    BY <1>6 DEF HandshakeFails
  <1>7. CASE OpenSession
    BY <1>7 DEF OpenSession
  <1>8. CASE SessionOpens
    BY <1>8 DEF SessionOpens
  <1>9. CASE SessionFails
    BY <1>9 DEF SessionFails
  <1>10. CASE ModeAnswered
    BY <1>10 DEF ModeAnswered
  <1>2. CASE SelectOption \/ OptionSelected \/ OptionFails \/ Prompt \/ Answer
    BY <1>2 DEF SelectOption, OptionSelected, OptionFails, Prompt, Answer
  <1>3. CASE PromptReturns \/ PromptFails \/ PromptTimesOut \/ StopSent \/ Exit \/ FinalizeFails
    BY <1>3 DEF PromptReturns, PromptFails, PromptTimesOut, StopSent, Exit, FinalizeFails
  <1>4. CASE Agent
    BY <1>4 DEF Agent, AgentText, AgentDelegates, AgentAnnounces, AgentAnswers, AgentSummary,
       AgentDies, AgentAsks, AgentApplies, AgentDrifts
  <1>5. CASE ~Client /\ ~Agent
    BY <1>5 DEF Next, vars, CancelTurn, StoreCancel, Sigterm, HandlePermission
  <1> QED
    BY <1>1, <1>2, <1>3, <1>4, <1>5, <1>6, <1>7, <1>8, <1>9, <1>10 DEF Client

(* Only cancel_task stores a cancel. *)
LEMMA CancelStored ==
    ASSUME [Next]_vars, ~StoreCancel
    PROVE  early' = early /\ cancelling' = cancelling
  <1> USE DEF conversation, protection, evidence, request, settlement, history
  <1>1. CASE Client
    BY <1>1 DEF Client, Spawn, HandshakeFails, OpenSession, SessionOpens, SessionFails, ModeAnswered,
       SelectOption, OptionSelected, OptionFails, Prompt, Answer, PromptReturns, PromptFails,
       PromptTimesOut, StopSent, Exit, FinalizeFails, Settle, Record
  <1>2. CASE Agent
    BY <1>2 DEF Agent, AgentText, AgentDelegates, AgentAnnounces, AgentAnswers, AgentSummary,
       AgentDies, AgentAsks, AgentApplies, AgentDrifts
  <1>3. CASE ~Client /\ ~Agent
    BY <1>3 DEF Next, vars, CancelTurn, StoreCancel, Sigterm, HandlePermission
  <1> QED
    BY <1>1, <1>2, <1>3

(* A cancel that was stored before the turn settled is never lost to COMPLETED or
   INTERRUPTED, also not when it lands between the read and the write of the settlement; and
   one stored while the client still talked to its agent ends CANCELLED, or FAILED for a
   precondition or for the finalisation of an answer that beat it. *)
THEOREM CancelIsHonoured == Spec => []CancelHonoured
  <1>1. Init => CancelKept
    BY DEF Init, CancelKept, CancelHonoured
  <1>2. TypeOK /\ CancelKept /\ [Next]_vars => CancelKept'
    <2> SUFFICES ASSUME TypeOK, CancelKept, [Next]_vars PROVE CancelKept'
      OBVIOUS
    <2>1. CASE Settle
      <3>1. /\ step' = "record" /\ UNCHANGED <<raised, early, cancelling, outcome>> /\ step = "settle"
            /\ chosen' = IF cancelling /\ Outcome # "FAILED" THEN "CANCELLED" ELSE Outcome
        BY <2>1 DEF Settle, request
      <3>2. cancelling /\ Outcome = "FAILED" => raised \in OwnFailures
        BY DEF Outcome
      <3>3. early => \/ chosen' = "CANCELLED"
                     \/ chosen' = "FAILED" /\ raised \in {"PRECONDITION", "FINALIZE_FAILED"}
        BY <3>1, <3>2 DEF CancelKept, OwnFailures
      <3> QED
        BY <3>1, <3>3 DEF CancelKept, CancelHonoured
    <2>2. CASE Record
      <3>1. step = "record" /\ UNCHANGED <<early, cancelling>> /\ outcome = "none"
        BY <2>2 DEF Record, request, CancelKept
      <3>2. CASE cancelling /\ chosen = "COMPLETED"
        BY <2>2, <3>1, <3>2 DEF Record, CancelKept, CancelHonoured
      <3>3. CASE ~(cancelling /\ chosen = "COMPLETED")
        <4>1. /\ step' = "done" /\ raised' = raised
              /\ cancelling => outcome' \in {"CANCELLED", "FAILED", "CANCELLING"}
              /\ early => outcome' = chosen
          BY <2>2, <3>1, <3>3 DEF Record, CancelKept
        <4> QED
          BY <3>1, <4>1 DEF CancelKept, CancelHonoured
      <3> QED
        BY <3>2, <3>3
    <2>3. CASE StoreCancel
      <3>1. /\ UNCHANGED <<outcome, step, raised, chosen>> /\ cancelling' = TRUE /\ step # "done"
            /\ early' = (step \notin {"exit", "settle", "record"})
        BY <2>3 DEF StoreCancel, conversation, settlement
      <3>2. raised = "WORKER_ERROR" => step \in {"settle", "record"}
        BY <3>1 DEF CancelKept
      <3>3. outcome = "none" /\ (raised = "WORKER_ERROR" => ~early') /\ (step = "record" => ~early')
        BY <3>1, <3>2 DEF CancelKept
      <3> QED
        BY <3>1, <3>2, <3>3 DEF CancelKept, CancelHonoured
    <2>4. CASE ~Settle /\ ~Record /\ ~StoreCancel
      BY <2>4, SettlingKept, CancelStored DEF CancelKept, CancelHonoured
    <2> QED
      BY <2>1, <2>2, <2>3, <2>4
  <1>3. CancelKept => CancelHonoured
    BY DEF CancelKept
  <1> QED
    BY <1>1, <1>2, <1>3, TypeCorrect, PTL DEF Spec

---------------------------------------------------------------------------
(* A protected value that the agent left is a violation the moment it says so: the old
   value of an option is permitted for its own unanswered selection only. *)
LEMMA DriftIsViolation ==
    ASSUME TypeOK, ProtectionKept, NEW k \in Options, NEW v \in Values \ {"want"}, AgentDrifts(k, v)
    PROVE  broken' => violation'
  <1>1. CASE k \in expected /\ ~Selecting(k)
    <2>1. config'[k] = v
      BY <1>1 DEF AgentDrifts, TypeOK
    <2>2. pending # [option |-> k, value |-> v]
      <3> SUFFICES ASSUME pending = [option |-> k, value |-> v] PROVE FALSE
        OBVIOUS
      <3>1. pending # NoPending /\ pending.option = k
        BY DEF NoPending, Values
      <3>2. agent # "gone"
        BY DEF AgentDrifts, Alive
      <3> QED
        BY <1>1, <3>1, <3>2 DEF ProtectionKept, Selecting
    <2>3. ~Matches(k, config'[k])
      BY <2>1, <2>2 DEF Matches
    <2> QED
      BY <1>1, <2>3 DEF AgentDrifts, ObserveConfiguration, TypeOK
  <1>2. CASE ~(k \in expected /\ ~Selecting(k))
    <2>1. broken' = broken
      BY <1>2 DEF AgentDrifts, TypeOK
    <2>2. violation => violation'
      BY ObserveTyped DEF AgentDrifts
    <2> QED
      BY <2>1, <2>2 DEF ProtectionKept
  <1> QED
    BY <1>1, <1>2

(* The agent's steps keep the protection. *)
LEMMA AgentProtected ==
    ASSUME TypeOK, ProtectionKept, Agent
    PROVE  ProtectionKept'
  <1> USE DEF ProtectionKept, conversation, protection, evidence, request, settlement, history, After
  <1>1. CASE AgentAnswers
    BY <1>1 DEF AgentAnswers, PendingAfterAnswer
  <1>2. CASE AgentDies
    BY <1>2 DEF AgentDies
  <1>3. CASE AgentAnnounces
    <2>1. (violation => violation') /\ agent' \in {agent, "dying"}
      BY <1>3, ObserveTyped DEF AgentAnnounces
    <2> QED
      BY <1>3, <2>1 DEF AgentAnnounces, Selecting, Alive
  <1>4. ASSUME NEW k \in Options, NEW v \in Values \ {"want"}, AgentDrifts(k, v)
        PROVE  ProtectionKept'
    <2>1. (violation => violation') /\ agent' \in {agent, "dying"} /\ (broken' => violation')
      BY <1>4, ObserveTyped, DriftIsViolation DEF AgentDrifts
    <2> QED
      BY <1>4, <2>1 DEF AgentDrifts, Selecting, Alive
  <1>5. CASE /\ ~AgentAnswers /\ ~AgentDies /\ ~AgentAnnounces
             /\ \A k \in Options, v \in Values \ {"want"} : ~AgentDrifts(k, v)
    <2>1. /\ UNCHANGED <<step, selected, reply, raised, agent, pending, violation, broken, chosen,
                      outcome>>
      BY <1>5 DEF Agent, AgentText, AgentDelegates, AgentSummary, AgentAsks, AgentApplies
    <2> QED
      BY <2>1 DEF Selecting
  <1> QED
    BY <1>1, <1>2, <1>3, <1>4, <1>5

(* So do the client's: a selection ends with its answer, and prompt raises what the
   observer saw. *)
LEMMA ClientProtected ==
    ASSUME TypeOK, ProtectionKept, Client
    PROVE  ProtectionKept'
  <1> USE DEF ProtectionKept, conversation, protection, evidence, request, settlement, history, Await, Raise,
              After, Selecting
  <1>1. CASE Spawn
    BY <1>1 DEF Spawn
  <1>15. CASE HandshakeFails
    BY <1>15 DEF HandshakeFails
  <1>2. CASE OpenSession
    BY <1>2 DEF OpenSession
  <1>14. CASE SessionOpens
    BY <1>14 DEF SessionOpens
  <1>16. CASE SessionFails
    BY <1>16 DEF SessionFails
  <1>3. CASE ModeAnswered
    BY <1>3 DEF ModeAnswered
  <1>4. CASE SelectOption
    BY <1>4 DEF SelectOption
  <1>5. CASE OptionSelected
    BY <1>5 DEF OptionSelected
  <1>6. CASE OptionFails
    <2>1. /\ violation => violation'
          /\ broken' = broken /\ pending' = NoPending /\ outcome' = outcome
          /\ step' = "exit" /\ raised' = "CONFIG_UNAVAILABLE" /\ step = "config"
      BY <1>6, ObserveTyped DEF OptionFails
    <2> QED
      BY <2>1
  <1>7. CASE Prompt
    BY <1>7 DEF Prompt
  <1>8. CASE Answer \/ PromptReturns
    BY <1>8 DEF Answer, PromptReturns
  <1>9. CASE PromptFails
    BY <1>9 DEF PromptFails
  <1>10. CASE PromptTimesOut
    BY <1>10 DEF PromptTimesOut
  <1>11. CASE StopSent
    BY <1>11 DEF StopSent
  <1>12. CASE Exit
    BY <1>12 DEF Exit
  <1>13. CASE Settle
    <2>1. chosen' = "COMPLETED" => raised = "none"
      BY <1>13 DEF Settle, Outcome
    <2> QED
      BY <1>13, <2>1 DEF Settle
  <1>17. CASE FinalizeFails
    BY <1>17 DEF FinalizeFails
  <1>18. CASE Record
    BY <1>18 DEF Record
  <1> QED
    BY <1>1, <1>2, <1>3, <1>4, <1>5, <1>6, <1>7, <1>8, <1>9, <1>10, <1>11, <1>12, <1>13, <1>14,
       <1>15, <1>16, <1>17, <1>18 DEF Client

(* A turn is not reported completed when the agent left a selected option value at any
   moment between its confirmation and the end of the turn, in whatever order answers,
   announcements and the resuming coroutine interleave. *)
THEOREM SelectionIsKept == Spec => []SelectionKept
  <1>1. Init => ProtectionKept
    BY DEF Init, ProtectionKept, After
  <1>2. TypeOK /\ ProtectionKept /\ [Next]_vars => ProtectionKept'
    <2> SUFFICES ASSUME TypeOK, ProtectionKept, [Next]_vars PROVE ProtectionKept'
      OBVIOUS
    <2>1. CASE ~Client /\ ~Agent
      <3>1. UNCHANGED <<step, selected, reply, raised, agent, pending, violation, broken, chosen,
                      outcome>>
        BY <2>1 DEF Next, vars, CancelTurn, StoreCancel, Sigterm, HandlePermission,
           conversation, protection, settlement, history
      <3> QED
        BY <3>1 DEF ProtectionKept, Selecting
    <2> QED
      BY <2>1, ClientProtected, AgentProtected
  <1>3. ProtectionKept => SelectionKept
    BY DEF ProtectionKept, SelectionKept, After
  <1> QED
    BY <1>1, <1>2, <1>3, TypeCorrect, PTL DEF Spec

---------------------------------------------------------------------------
(* What the agent sends, and what the permission gate makes of its requests, is in the
   capture before the next step. *)
LEMMA AgentEvident ==
    ASSUME TypeOK, EvidenceHeld, Agent
    PROVE  EvidenceHeld'
  <1> USE DEF EvidenceHeld, conversation, protection, evidence, request, settlement, history,
              Before, During, After
  <1>0. capture \in CaptureRow /\ streamed \in Nat
    BY DEF TypeOK
  <1>1. CASE AgentText
    <2>1. CASE step = "session"
      <3>1. capture'.open = capture.open /\ streamed' = streamed
        BY <1>0, <1>1, <2>1, TextTyped DEF AgentText
      <3> QED
        BY <1>1, <2>1, <3>1 DEF AgentText
    <2>2. CASE step # "session"
      <3>1. /\ step \in During /\ streamed' = streamed + 1
            /\ capture'.text = capture.text + 1 /\ capture'.open = capture.open
            /\ capture'.warnings = capture.warnings
        BY <1>0, <1>1, <2>2, TextTyped DEF AgentText
      <3> QED
        BY <1>1, <3>1 DEF AgentText
    <2> QED
      BY <2>1, <2>2
  <1>2. CASE AgentDelegates
    <2>1. /\ capture'.text = capture.text /\ capture'.open = capture.open
          /\ told' \subseteq capture'.warnings
      BY <1>0, <1>2, WarnTyped DEF AgentDelegates, Warnings
    <2> QED
      BY <1>2, <2>1 DEF AgentDelegates
  <1>3. CASE AgentAnnounces
    <2>1. UNCHANGED <<step, streamed, told, outcome>> /\ step \notin After
      BY <1>3 DEF AgentAnnounces
    <2>2. /\ capture'.open = capture.open /\ capture'.text = capture.text
          /\ capture.warnings \subseteq capture'.warnings
          /\ last' = last \/ last'.text = 0
      BY <1>3, ObserveTyped DEF AgentAnnounces
    <2> QED
      BY <2>1, <2>2
  <1>4. ASSUME NEW k \in Options, NEW v \in Values \ {"want"}, AgentDrifts(k, v)
        PROVE  EvidenceHeld'
    <2>1. UNCHANGED <<step, streamed, told, outcome>> /\ step \notin After
      BY <1>4 DEF AgentDrifts
    <2>2. /\ capture'.open = capture.open /\ capture'.text = capture.text
          /\ capture.warnings \subseteq capture'.warnings
          /\ last' = last \/ last'.text = 0
      BY <1>4, ObserveTyped DEF AgentDrifts
    <2> QED
      BY <2>1, <2>2
  <1>5. CASE AgentSummary
    BY <1>0, <1>5 DEF AgentSummary, CaptureRow
  <1>6. CASE \/ AgentAnswers \/ AgentDies \/ (\E k \in Asks : AgentAsks(k))
             \/ (\E k \in Options : AgentApplies(k))
    <2>1. UNCHANGED <<step, capture, last, streamed, told, outcome>>
      BY <1>6 DEF AgentAnswers, AgentDies, AgentAsks, AgentApplies
    <2> QED
      BY <2>1
  <1> QED
    BY <1>1, <1>2, <1>3, <1>4, <1>5, <1>6 DEF Agent

(* The client opens the capture with the prompt and turns it into the result however the
   prompt ends. *)
LEMMA ClientEvident ==
    ASSUME TypeOK, EvidenceHeld, Client
    PROVE  EvidenceHeld'
  <1> USE DEF EvidenceHeld, conversation, protection, evidence, request, settlement, history, Await, Raise,
              Before, During, After
  <1>0. capture \in CaptureRow /\ last \in ResultRow /\ Closed.open = "none"
    BY DEF TypeOK, Closed
  <1>1. CASE Spawn
    BY <1>1 DEF Spawn
  <1>2. CASE HandshakeFails
    BY <1>2 DEF HandshakeFails
  <1>3. CASE OpenSession
    <2>1. capture' = capture \/ capture'.open = "replay"
      BY <1>3 DEF OpenSession, Capture, Closed
    <2>2. step' \in {"session", "exit"} /\ step = "initialize"
          /\ UNCHANGED <<last, streamed, told, outcome>>
      BY <1>3 DEF OpenSession
    <2> QED
      BY <2>1, <2>2
  <1>4. CASE SessionOpens
    BY <1>0, <1>4 DEF SessionOpens
  <1>5. CASE SessionFails
    BY <1>0, <1>5 DEF SessionFails
  <1>6. CASE ModeAnswered
    BY <1>6 DEF ModeAnswered
  <1>7. CASE SelectOption
    BY <1>7 DEF SelectOption
  <1>8. CASE OptionSelected
    BY <1>8 DEF OptionSelected
  <1>9. CASE OptionFails
    <2>1. /\ capture'.open = capture.open
          /\ last' = last \/ last'.text = 0
      BY <1>9, ObserveTyped DEF OptionFails
    <2>2. step = "config" /\ step' = "exit" /\ UNCHANGED <<streamed, told, outcome>>
      BY <1>9 DEF OptionFails
    <2> QED
      BY <2>1, <2>2
  <1>10. CASE Prompt
    <2>1. /\ Capture("turn").open = "turn" /\ Capture("turn").text = 0
          /\ NoResult.text = 0
          /\ [NoResult EXCEPT !.stop = "error", !.warnings = {"MODE_SWITCH_ATTEMPT"}].text = 0
      BY DEF Capture, Closed, NoResult
    <2>2. step = "select" /\ UNCHANGED <<streamed, told, outcome>>
      BY <1>10 DEF Prompt
    <2>3. \/ step' = "exit" /\ capture' = capture /\ (last' = last \/ last'.text = 0)
          \/ step' = "prompt" /\ capture' = Capture("turn")
      BY <1>10, <2>1 DEF Prompt
    <2> QED
      BY <2>1, <2>2, <2>3
  <1>11. CASE Answer
    BY <1>11 DEF Answer
  <1>12. CASE PromptReturns \/ PromptFails \/ StopSent
    <2>1. /\ capture' = Closed /\ last'.text = capture.text
          /\ capture.warnings \subseteq last'.warnings
      BY <1>12, ConcludeTyped DEF PromptReturns, PromptFails, StopSent
    <2>2. step \in During /\ step' = "exit" /\ UNCHANGED <<streamed, told, outcome>>
      BY <1>12 DEF PromptReturns, PromptFails, StopSent
    <2> QED
      BY <1>0, <2>1, <2>2
  <1>13. CASE PromptTimesOut
    <2>1. \/ /\ capture' = Closed /\ last'.text = capture.text
             /\ capture.warnings \subseteq last'.warnings /\ step' = "exit"
          \/ capture' = capture /\ last' = last /\ step' = "stopping"
      BY <1>13, ConcludeTyped DEF PromptTimesOut
    <2>2. step = "prompt" /\ UNCHANGED <<streamed, told, outcome>>
      BY <1>13 DEF PromptTimesOut
    <2> QED
      BY <1>0, <2>1, <2>2
  <1>14. CASE Exit
    BY <1>0, <1>14 DEF Exit
  <1>15. CASE Settle
    BY <1>15 DEF Settle
  <1>16. CASE FinalizeFails
    BY <1>16 DEF FinalizeFails
  <1>17. CASE Record
    BY <1>17 DEF Record
  <1> QED
    BY <1>1, <1>2, <1>3, <1>4, <1>5, <1>6, <1>7, <1>8, <1>9, <1>10, <1>11, <1>12, <1>13,
       <1>14, <1>15, <1>16, <1>17 DEF Client

(* Whatever ended a prompt - an answer, an error, a timeout, a cancel, a dead agent - the
   settled turn has all the text the agent streamed for it, none of a replayed history, and
   every warning the client learned of. *)
THEOREM EvidenceIsKept == Spec => []EvidenceKept
  <1>1. Init => EvidenceHeld
    BY DEF Init, EvidenceHeld, Closed, NoResult, Before, During, After
  <1>2. TypeOK /\ EvidenceHeld /\ [Next]_vars => EvidenceHeld'
    <2> SUFFICES ASSUME TypeOK, EvidenceHeld, [Next]_vars PROVE EvidenceHeld'
      OBVIOUS
    <2>1. ASSUME NEW k \in Asks, HandlePermission(k)
          PROVE  EvidenceHeld'
      <3>1. Select(k) # "allow" => Select(k) \in Warnings
        BY DEF Select, Warnings
      <3>2. UNCHANGED <<step, last, streamed, outcome>>
        BY <2>1 DEF HandlePermission, conversation, settlement
      <3>3. /\ capture'.open = capture.open /\ capture'.text = capture.text
            /\ capture.warnings \subseteq capture'.warnings
            /\ told' = told \/ (capture.open = "turn" /\ told' \subseteq told \cup capture'.warnings)
        BY <2>1, <3>1, WarnTyped DEF HandlePermission, Capturing, TypeOK
      <3> QED
        BY <3>2, <3>3 DEF EvidenceHeld, Before, During, After
    <2>2. CASE CancelTurn \/ StoreCancel \/ Sigterm \/ UNCHANGED vars
      <3>1. UNCHANGED <<step, capture, last, streamed, told, outcome>>
        BY <2>2 DEF CancelTurn, StoreCancel, Sigterm, vars, conversation, evidence, settlement, history
      <3> QED
        BY <3>1 DEF EvidenceHeld, Before, During, After
    <2> QED
      BY <2>1, <2>2, ClientEvident, AgentEvident DEF Next
  <1>3. EvidenceHeld => EvidenceKept
    BY DEF EvidenceHeld, EvidenceKept, Before, During, After
  <1> QED
    BY <1>1, <1>2, <1>3, TypeCorrect, PTL DEF Spec

-----------------------------------------------------------------------------
(* Retention.  Induction over the size of a set comes from the              *)
(* well-foundedness of < alone.                                            *)

(* A nonempty set of numbers has a least one.                              *)
LEMMA LeastNumber ==
    ASSUME NEW T \in SUBSET Nat, T # {}
    PROVE  \E m \in T : \A k \in T : m <= k
<1> DEFINE Less == {p \in Nat \X Nat : p[1] < p[2]}
<1>1. IsWellFoundedOn(Less, Nat)
  BY NatLessThanWellFounded DEF OpToRel
<1>2. \A x, y \in T : y < x => <<y, x>> \in Less
  OBVIOUS
<1> HIDE DEF Less
<1>3. \E x \in T : \A y \in T : ~(<<y, x>> \in Less)
  BY <1>1, WFMin
<1>4. PICK m \in T : \A y \in T : ~(y < m)
  BY <1>2, <1>3
<1> QED
  BY <1>4

(* Induction up to n, over the set of the numbers that have the property.  *)
LEMMA CountingUp ==
    ASSUME NEW n \in Nat, NEW G \in SUBSET Nat, 0 \in G,
           \A k \in 0..(n - 1) : k \in G => k + 1 \in G
    PROVE  n \in G
<1>1. SUFFICES ASSUME n \notin G PROVE FALSE
  OBVIOUS
<1> DEFINE T == {k \in Nat : k \notin G}
<1>2. T \in SUBSET Nat /\ T # {} /\ n \in T
  BY <1>1
<1> HIDE DEF T
<1>3. PICK m \in T : \A k \in T : m <= k
  BY <1>2, LeastNumber
<1>4. m \in Nat /\ m \notin G
  BY <1>3 DEF T
<1>5. m # 0 /\ m <= n
  BY <1>2, <1>3, <1>4
<1>6. m - 1 \in 0..(n - 1) /\ m - 1 \notin T
  BY <1>3, <1>4, <1>5
<1> QED
  BY <1>4, <1>6 DEF T

-----------------------------------------------------------------------------
(* What a sum over a finite set computes *)

(* The element that a sum takes first. *)
First(s) == CHOOSE x \in s : TRUE

(* A set of subsets of S that holds {}, and each subset if it holds what    *)
(* is left of it without the element chosen, holds them all.                *)
LEMMA SmallerFirst ==
    ASSUME NEW S, IsFiniteSet(S), NEW G, {} \in G,
           \A s \in SUBSET S : s # {} /\ s \ {First(s)} \in G => s \in G
    PROVE  \A s \in SUBSET S : s \in G
<1> DEFINE Left(k) == \A s \in SUBSET S : Cardinality(s) = k => s \in G
           H == {k \in Nat : Left(k)}
<1>1. \A s \in SUBSET S : IsFiniteSet(s) /\ Cardinality(s) \in Nat
  BY FS_Subset, FS_CardinalityType
<1>2. Left(0)
  BY <1>1, FS_EmptySet
<1>3. ASSUME NEW k \in Nat, Left(k)
      PROVE  Left(k + 1)
  <2>1. ASSUME NEW s \in SUBSET S, Cardinality(s) = k + 1
        PROVE  s \in G
    <3> DEFINE p == First(s)
    <3>1. s # {}
      BY <1>1, <2>1, FS_EmptySet
    <3>2. p \in s
      BY <3>1 DEF First
    <3> HIDE DEF p
    <3>3. Cardinality(s \ {p}) = k /\ s \ {p} \in SUBSET S
      BY <1>1, <2>1, <3>2, FS_RemoveElement
    <3>4. s \ {p} \in G
      BY <1>3, <3>3
    <3> QED
      BY <3>1, <3>4 DEF p
  <2> QED
    BY <2>1
<1> HIDE DEF Left
<1>4. 0 \in H /\ \A k \in Nat : k \in H => k + 1 \in H
  BY <1>2, <1>3
<1>5. ASSUME NEW n \in Nat
      PROVE  n \in H
  <2> HIDE DEF H
  <2>1. H \in SUBSET Nat /\ \A k \in 0..(n - 1) : k \in H => k + 1 \in H
    <3>1. H \in SUBSET Nat
      BY DEF H
    <3> QED
      BY <1>4, <3>1
  <2> QED
    BY <1>4, <2>1, CountingUp
<1> QED
  BY <1>1, <1>5 DEF Left, H

(* The table that the sum of f tabulates over the subsets of S. *)
SumTable(t, S, f) ==
    /\ t \in [SUBSET S -> Int]
    /\ \A s \in SUBSET S : t[s] = IF s = {} THEN 0 ELSE f[First(s)] + t[s \ {First(s)}]

LEMMA SumTableExists ==
    ASSUME NEW S, IsFiniteSet(S), NEW f \in [S -> Int]
    PROVE  \E t : SumTable(t, S, f)
<1> DEFINE D(k) == {s \in SUBSET S : Cardinality(s) <= k}
           Good(t, k) ==
               /\ t \in [D(k) -> Int]
               /\ \A s \in D(k) : t[s] = IF s = {} THEN 0 ELSE f[First(s)] + t[s \ {First(s)}]
           Some(k) == \E t : Good(t, k)
           G == {k \in Nat : Some(k)}
<1>1. \A s \in SUBSET S : /\ IsFiniteSet(s) /\ Cardinality(s) \in Nat
                          /\ Cardinality(s) <= Cardinality(S)
                          /\ Cardinality(s) = 0 => s = {}
  BY FS_Subset, FS_CardinalityType, FS_EmptySet
<1>2. \A s \in SUBSET S : s # {} =>
         /\ First(s) \in s /\ First(s) \in S /\ s \ {First(s)} \in SUBSET S
         /\ Cardinality(s \ {First(s)}) = Cardinality(s) - 1
  <2>1. ASSUME NEW s \in SUBSET S, s # {}
        PROVE  /\ First(s) \in s /\ First(s) \in S /\ s \ {First(s)} \in SUBSET S
               /\ Cardinality(s \ {First(s)}) = Cardinality(s) - 1
    <3>1. First(s) \in s
      BY <2>1 DEF First
    <3> QED
      BY <1>1, <3>1, FS_RemoveElement
  <2> QED
    BY <2>1
<1>3. Some(0)
  <2> DEFINE t == [s \in D(0) |-> 0]
  <2>1. \A s \in D(0) : s = {}
    BY <1>1
  <2>2. t \in [D(0) -> Int] /\ \A s \in D(0) : t[s] = 0
    OBVIOUS
  <2> HIDE DEF t
  <2>3. Good(t, 0)
    BY <2>1, <2>2
  <2> QED
    BY <2>3
<1>4. ASSUME NEW k \in Nat, Some(k)
      PROVE  Some(k + 1)
  <2>1. PICK t : Good(t, k)
    BY <1>4
  <2> DEFINE u == [s \in D(k + 1) |->
                      IF s \in D(k) THEN t[s] ELSE f[First(s)] + t[s \ {First(s)}]]
  <2>2. \A s \in D(k) : s \in D(k + 1) /\ (s # {} => s \ {First(s)} \in D(k))
    BY <1>1, <1>2
  <2>3. \A s \in D(k + 1) : s \notin D(k) => s # {} /\ First(s) \in S /\ s \ {First(s)} \in D(k)
    <3>1. ASSUME NEW s \in D(k + 1), s \notin D(k)
          PROVE  s # {} /\ First(s) \in S /\ s \ {First(s)} \in D(k)
      <4>1. s \in SUBSET S /\ Cardinality(s) = k + 1
        BY <1>1, <3>1
      <4>2. s # {}
        BY <4>1, FS_EmptySet
      <4> QED
        BY <1>2, <4>1, <4>2
    <3> QED
      BY <3>1
  <2>4. \A s \in D(k) : t[s] \in Int
    BY <2>1
  <2> DEFINE Dk == D(k)
             Dl == D(k + 1)
  <2>5. Good(t, k) /\ \A s \in Dk : s \in Dl
    BY <2>1, <2>2
  <2> HIDE DEF D
  <2>6. u \in [D(k + 1) -> Int]
    BY <2>3, <2>4
  <2>7. \A s \in D(k) : u[s] = t[s]
    BY <2>2
  <2>8. \A s \in D(k + 1) : s \notin D(k) => u[s] = f[First(s)] + t[s \ {First(s)}]
    OBVIOUS
  <2> HIDE DEF u
  <2>9. \A s \in D(k + 1) : u[s] = IF s = {} THEN 0 ELSE f[First(s)] + u[s \ {First(s)}]
    <3>1. ASSUME NEW s \in D(k + 1), s \in D(k)
          PROVE  u[s] = IF s = {} THEN 0 ELSE f[First(s)] + u[s \ {First(s)}]
      BY <2>1, <2>2, <2>7, <3>1
    <3>2. ASSUME NEW s \in D(k + 1), s \notin D(k)
          PROVE  u[s] = IF s = {} THEN 0 ELSE f[First(s)] + u[s \ {First(s)}]
      BY <2>3, <2>7, <2>8, <3>2
    <3> QED
      BY <3>1, <3>2
  <2> QED
    BY <2>6, <2>9
<1> HIDE DEF Some
<1>5. 0 \in G /\ \A k \in Nat : k \in G => k + 1 \in G
  BY <1>3, <1>4
<1> DEFINE n == Cardinality(S)
<1>6. n \in Nat
  BY FS_CardinalityType
<1> HIDE DEF n
<1>7. n \in G
  <2> HIDE DEF G
  <2>1. G \in SUBSET Nat /\ \A k \in 0..(n - 1) : k \in G => k + 1 \in G
    <3>1. G \in SUBSET Nat
      BY DEF G
    <3> QED
      BY <1>5, <3>1
  <2> QED
    BY <1>5, <1>6, <2>1, CountingUp
<1>8. PICK t : Good(t, n)
  BY <1>7 DEF Some
<1>9. D(n) = SUBSET S
  BY <1>1 DEF n
<1>10. SumTable(t, S, f)
  BY <1>8, <1>9 DEF SumTable
<1> QED
  BY <1>10

(* The counts that the writers are about to report. *)
Owed(w) == MapThenSumSet(LAMBDA x : w[x].count, Writers)

(* Owed is the last entry of such a table. *)
LEMMA OwedTable ==
    ASSUME IsFiniteSet(Writers), NEW w, \A x \in Writers : w[x].count \in Int
    PROVE  \E h : /\ Owed(w) = h[Writers]
                  /\ h[{}] = 0
                  /\ \A s \in SUBSET Writers : s # {} =>
                        h[s] = w[First(s)].count + h[s \ {First(s)}]
<1> DEFINE f == [x \in Writers |-> w[x].count]
<1>1. f \in [Writers -> Int] /\ \A x \in Writers : f[x] = w[x].count
  OBVIOUS
<1> HIDE DEF f
<1>2. PICK t : SumTable(t, Writers, f)
  <2>1. IsFiniteSet(Writers) /\ f \in [Writers -> Int]
    BY <1>1
  <2> QED
    BY <2>1, SumTableExists
<1>3. \A s \in SUBSET Writers : s # {} => First(s) \in Writers
  BY DEF First
<1>4. t = [s \in SUBSET Writers |->
              IF s = {} THEN 0 ELSE w[First(s)].count + t[s \ {First(s)}]]
  BY <1>1, <1>2, <1>3 DEF SumTable
<1> DEFINE h == CHOOSE h : h = [s \in SUBSET Writers |->
              IF s = {} THEN 0 ELSE w[First(s)].count + h[s \ {First(s)}]]
<1>5. h = [s \in SUBSET Writers |->
              IF s = {} THEN 0 ELSE w[First(s)].count + h[s \ {First(s)}]]
  BY <1>4
<1>6. Owed(w) = h[Writers]
  BY DEF Owed, MapThenSumSet, MapThenFoldSet, First
<1> HIDE DEF h
<1>7. h[{}] = 0
  BY <1>5
<1>8. \A s \in SUBSET Writers : s # {} =>
         h[s] = w[First(s)].count + h[s \ {First(s)}]
  BY <1>5
<1> QED
  BY <1>6, <1>7, <1>8

(* Owed changes by what one writer's count changes. *)
LEMMA OwedChange ==
    ASSUME IsFiniteSet(Writers), NEW w, NEW v, NEW p \in Writers,
           \A x \in Writers : w[x].count \in Int /\ v[x].count \in Int,
           \A x \in Writers \ {p} : v[x].count = w[x].count
    PROVE  Owed(w) \in Int /\ Owed(v) = Owed(w) + v[p].count - w[p].count
<1>1. PICK h : /\ Owed(w) = h[Writers] /\ h[{}] = 0
               /\ \A s \in SUBSET Writers : s # {} => h[s] = w[First(s)].count + h[s \ {First(s)}]
  BY OwedTable
<1>2. PICK g : /\ Owed(v) = g[Writers] /\ g[{}] = 0
               /\ \A s \in SUBSET Writers : s # {} => g[s] = v[First(s)].count + g[s \ {First(s)}]
  BY OwedTable
<1> DEFINE d == v[p].count - w[p].count
           G == {s \in SUBSET Writers : h[s] \in Int /\ g[s] = h[s] + (IF p \in s THEN d ELSE 0)}
<1>3. {} \in G
  BY <1>1, <1>2
<1>4. ASSUME NEW s \in SUBSET Writers, s # {}, s \ {First(s)} \in G
      PROVE  s \in G
  <2> DEFINE q == First(s)
             r == s \ {q}
  <2>1. q \in s /\ q \in Writers
    BY <1>4 DEF First
  <2>2. h[s] = w[q].count + h[r] /\ g[s] = v[q].count + g[r]
    BY <1>1, <1>2, <1>4
  <2>3. h[r] \in Int /\ g[r] = h[r] + (IF p \in r THEN d ELSE 0)
    BY <1>4
  <2>4. p \in r <=> p \in s /\ p # q
    OBVIOUS
  <2>5. w[q].count \in Int /\ v[q].count \in Int /\ d \in Int
    BY <2>1
  <2>6. q # p => v[q].count = w[q].count
    BY <2>1
  <2> HIDE DEF q, r
  <2>7. h[s] \in Int
    BY <2>2, <2>3, <2>5
  <2>8. CASE q = p
    <3>1. p \notin r /\ p \in s
      BY <2>1, <2>4, <2>8
    <3>2. g[s] = h[s] + d
      BY <2>2, <2>3, <2>5, <2>8, <3>1
    <3> QED
      BY <2>7, <3>1, <3>2
  <2>9. CASE q # p
    BY <2>2, <2>3, <2>4, <2>5, <2>6, <2>7, <2>9
  <2> QED
    BY <2>8, <2>9
<1> HIDE DEF G
<1>5. \A s \in SUBSET Writers : s \in G
  BY <1>3, <1>4, SmallerFirst
<1>6. Writers \in G
  BY <1>5
<1> QED
  BY <1>1, <1>2, <1>6 DEF G

(* Nothing is owed when nobody has a count. *)
LEMMA OwedNothing ==
    ASSUME IsFiniteSet(Writers), NEW w, \A x \in Writers : w[x].count = 0
    PROVE  Owed(w) = 0
<1>1. PICK h : /\ Owed(w) = h[Writers] /\ h[{}] = 0
               /\ \A s \in SUBSET Writers : s # {} => h[s] = w[First(s)].count + h[s \ {First(s)}]
  <2>1. \A x \in Writers : w[x].count \in Int
    OBVIOUS
  <2> QED
    BY <2>1, OwedTable
<1> DEFINE G == {s \in SUBSET Writers : h[s] = 0}
<1>2. {} \in G
  BY <1>1
<1>3. ASSUME NEW s \in SUBSET Writers, s # {}, s \ {First(s)} \in G
      PROVE  s \in G
  <2>1. First(s) \in Writers
    BY <1>3 DEF First
  <2>2. h[s \ {First(s)}] = 0 /\ w[First(s)].count = 0
    BY <1>3, <2>1
  <2>3. h[s] = w[First(s)].count + h[s \ {First(s)}]
    BY <1>1, <1>3
  <2> QED
    BY <2>2, <2>3
<1> HIDE DEF G
<1>4. \A s \in SUBSET Writers : s \in G
  BY <1>2, <1>3, SmallerFirst
<1>5. Writers \in G
  BY <1>4
<1> QED
  BY <1>1, <1>5 DEF G

---------------------------------------------------------------------------
(* The repeats of a failure are counted once *)

Stages == {"idle", "record", "summary", "clearing", "cleared"}

(* A process that is not about to report carries no count. *)
CountsHeld ==
    /\ suppressed \in Nat /\ reported \in Nat
    /\ dedup \in [key : Keys \cup {"none"}, count : Nat, fresh : BOOLEAN]
    /\ writer \in [Writers -> [stage : Stages, count : Nat]]
    /\ \A x \in Writers : writer[x].stage \in {"idle", "record", "clearing"} => writer[x].count = 0
    /\ suppressed = reported + dedup.count + Owed(writer)

LEMMA CountsAdd == CountsHeld => RepeatsAccounted
  BY DEF CountsHeld, RepeatsAccounted, Owed

LEMMA CountsInit == IsFiniteSet(Writers) /\ RetentionInit => CountsHeld
<1> SUFFICES ASSUME IsFiniteSet(Writers), RetentionInit
             PROVE  CountsHeld
  OBVIOUS
<1> USE DEF RetentionInit, At, NoEntry
<1>1. \A x \in Writers : writer[x].count = 0
  OBVIOUS
<1>2. Owed(writer) = 0
  BY <1>1, OwedNothing
<1> QED
  BY <1>1, <1>2 DEF CountsHeld, Stages

(* One process moves to a stage, with a count. *)
LEMMA OneWriter ==
    ASSUME CountsHeld, IsFiniteSet(Writers), NEW p \in Writers,
           NEW g \in Stages, NEW n \in Nat,
           g \in {"idle", "record", "clearing"} => n = 0,
           writer' = [writer EXCEPT ![p] = At(g, n)]
    PROVE  /\ writer' \in [Writers -> [stage : Stages, count : Nat]]
           /\ \A x \in Writers : writer'[x].stage \in {"idle", "record", "clearing"} => writer'[x].count = 0
           /\ Owed(writer) \in Int /\ Owed(writer') = Owed(writer) + n - writer[p].count
<1>1. writer \in [Writers -> [stage : Stages, count : Nat]]
  BY DEF CountsHeld
<1>2. writer' \in [Writers -> [stage : Stages, count : Nat]]
  BY <1>1 DEF At
<1>3. writer'[p].count = n /\ \A x \in Writers \ {p} : writer'[x].count = writer[x].count
  BY <1>1 DEF At
<1>4. \A x \in Writers : writer[x].count \in Int /\ writer'[x].count \in Int
  BY <1>1, <1>2
<1> DEFINE w == writer
           v == writer'
<1>5. Owed(w) \in Int /\ Owed(v) = Owed(w) + v[p].count - w[p].count
  <2>1. /\ \A x \in Writers : w[x].count \in Int /\ v[x].count \in Int
        /\ \A x \in Writers \ {p} : v[x].count = w[x].count
    BY <1>3, <1>4
  <2> HIDE DEF w, v
  <2> QED
    BY <2>1, OwedChange
<1>6. \A x \in Writers : writer'[x].stage \in {"idle", "record", "clearing"} => writer'[x].count = 0
  BY <1>1 DEF At, CountsHeld
<1> QED
  BY <1>2, <1>3, <1>5, <1>6

(* Nobody moves. *)
LEMMA OwedInt ==
    ASSUME CountsHeld, IsFiniteSet(Writers)
    PROVE  Owed(writer) \in Int
<1>1. CASE Writers = {}
  BY <1>1, OwedNothing
<1>2. CASE Writers # {}
  <2>1. PICK p \in Writers : TRUE
    BY <1>2
  <2> DEFINE w == writer
  <2>2. \A x \in Writers : w[x].count \in Int
    BY DEF CountsHeld
  <2> HIDE DEF w
  <2>3. Owed(w) \in Int
    BY <2>1, <2>2, OwedChange
  <2> QED
    BY <2>3 DEF w
<1> QED
  BY <1>1, <1>2

LEMMA CountsStep == IsFiniteSet(Writers) /\ CountsHeld /\ [RetentionNext]_retentionVars => CountsHeld'
<1> SUFFICES ASSUME IsFiniteSet(Writers), CountsHeld, [RetentionNext]_retentionVars
             PROVE  CountsHeld'
  OBVIOUS
<1>1. /\ suppressed \in Nat /\ reported \in Nat
      /\ dedup \in [key : Keys \cup {"none"}, count : Nat, fresh : BOOLEAN]
      /\ \A x \in Writers : writer[x].count \in Nat
      /\ \A x \in Writers : writer[x].stage \in {"idle", "record", "clearing"} => writer[x].count = 0
      /\ suppressed = reported + dedup.count + Owed(writer)
      /\ Owed(writer) \in Int
  BY OwedInt DEF CountsHeld
<1>2. CASE UNCHANGED <<dedup, writer, suppressed, reported>>
  BY <1>2 DEF CountsHeld
<1>3. ASSUME NEW p \in Writers, NEW key \in Keys, Failure(p, key)
      PROVE  CountsHeld'
  <2>1. CASE dedup.key = key /\ dedup.fresh
    <3>1. writer' = writer /\ reported' = reported /\ suppressed' = suppressed + 1
      BY <1>3, <2>1 DEF Failure
    <3>2. dedup' = [dedup EXCEPT !.count = @ + 1]
      BY <1>3, <2>1 DEF Failure
    <3>3. dedup' \in [key : Keys \cup {"none"}, count : Nat, fresh : BOOLEAN]
          /\ dedup'.count = dedup.count + 1
      BY <1>1, <3>2
    <3>4. Owed(writer') = Owed(writer)
      BY <3>1
    <3> QED
      BY <1>1, <3>1, <3>3, <3>4 DEF CountsHeld
  <2>2. CASE ~(dedup.key = key /\ dedup.fresh)
    <3> DEFINE g == IF Summary(key) > 0 THEN "summary" ELSE "record"
               n == Summary(key)
    <3>1. n \in Nat /\ n = dedup.count /\ g \in Stages /\ (g = "record" => n = 0)
          /\ g \notin {"idle", "clearing"}
      BY <1>1 DEF Summary, Stages
    <3>2. /\ writer' = [writer EXCEPT ![p] = At(g, n)]
          /\ dedup' = [key |-> key, count |-> 0, fresh |-> TRUE]
          /\ suppressed' = suppressed /\ reported' = reported
          /\ writer[p].stage = "idle"
      BY <1>3, <2>2 DEF Failure
    <3> HIDE DEF g, n
    <3>3. /\ writer' \in [Writers -> [stage : Stages, count : Nat]]
          /\ \A x \in Writers : writer'[x].stage \in {"idle", "record", "clearing"} => writer'[x].count = 0
          /\ Owed(writer') = Owed(writer) + n - writer[p].count
      BY <3>1, <3>2, OneWriter
    <3>4. writer[p].count = 0
      BY <1>1, <3>2
    <3>5. dedup' \in [key : Keys \cup {"none"}, count : Nat, fresh : BOOLEAN] /\ dedup'.count = 0
      BY <3>2
    <3> QED
      BY <1>1, <3>1, <3>2, <3>3, <3>4, <3>5 DEF CountsHeld
  <2> QED
    BY <2>1, <2>2
<1>4. ASSUME NEW p \in Writers, Summarize(p)
      PROVE  CountsHeld'
  <2>1. /\ writer' = [writer EXCEPT ![p] = At("record", 0)]
        /\ reported' = reported + writer[p].count
        /\ dedup' = dedup /\ suppressed' = suppressed
    BY <1>4 DEF Summarize
  <2>2. "record" \in Stages /\ 0 \in Nat
    BY DEF Stages
  <2>3. /\ writer' \in [Writers -> [stage : Stages, count : Nat]]
        /\ \A x \in Writers : writer'[x].stage \in {"idle", "record", "clearing"} => writer'[x].count = 0
        /\ Owed(writer') = Owed(writer) + 0 - writer[p].count
    BY <2>1, <2>2, OneWriter
  <2> QED
    BY <1>1, <2>1, <2>3 DEF CountsHeld
<1>5. ASSUME NEW p \in Writers, ClearReports(p)
      PROVE  CountsHeld'
  <2>1. /\ writer' = [writer EXCEPT ![p] = At("idle", 0)]
        /\ reported' = reported + writer[p].count
        /\ dedup' = dedup /\ suppressed' = suppressed
    BY <1>5 DEF ClearReports
  <2>2. "idle" \in Stages /\ 0 \in Nat
    BY DEF Stages
  <2>3. /\ writer' \in [Writers -> [stage : Stages, count : Nat]]
        /\ \A x \in Writers : writer'[x].stage \in {"idle", "record", "clearing"} => writer'[x].count = 0
        /\ Owed(writer') = Owed(writer) + 0 - writer[p].count
    BY <2>1, <2>2, OneWriter
  <2> QED
    BY <1>1, <2>1, <2>3 DEF CountsHeld
<1>6. ASSUME NEW p \in Writers, Emit(p) \/ ClearLooks(p)
      PROVE  CountsHeld'
  <2>1. PICK g \in {"idle", "clearing"} : writer' = [writer EXCEPT ![p] = At(g, 0)]
    BY <1>6 DEF Emit, ClearLooks
  <2>2. /\ writer[p].stage \in {"record", "idle"}
        /\ dedup' = dedup /\ suppressed' = suppressed /\ reported' = reported
    BY <1>6 DEF Emit, ClearLooks
  <2>3. g \in Stages /\ 0 \in Nat
    BY DEF Stages
  <2>4. /\ writer' \in [Writers -> [stage : Stages, count : Nat]]
        /\ \A x \in Writers : writer'[x].stage \in {"idle", "record", "clearing"} => writer'[x].count = 0
        /\ Owed(writer') = Owed(writer) + 0 - writer[p].count
    BY <2>1, <2>3, OneWriter
  <2>5. writer[p].count = 0
    BY <1>1, <2>2
  <2> QED
    BY <1>1, <2>2, <2>4, <2>5 DEF CountsHeld
<1>7. ASSUME NEW p \in Writers, ClearTakes(p)
      PROVE  CountsHeld'
  <2> DEFINE g == IF dedup = NoEntry THEN "idle" ELSE "cleared"
             n == dedup.count
  <2>1. /\ writer' = [writer EXCEPT ![p] = At(g, n)]
        /\ dedup' = NoEntry /\ suppressed' = suppressed /\ reported' = reported
        /\ writer[p].stage = "clearing"
    <3>1. CASE dedup = NoEntry
      <4>1. n = 0 /\ g = "idle"
        BY <3>1 DEF NoEntry
      <4> QED
        BY <1>7, <3>1, <4>1 DEF ClearTakes
    <3>2. CASE dedup # NoEntry
      BY <1>7, <3>2 DEF ClearTakes
    <3> QED
      BY <3>1, <3>2
  <2>2. n \in Nat /\ g \in Stages /\ (g = "idle" => n = 0) /\ g \notin {"record", "clearing"}
    BY <1>1 DEF Stages, NoEntry
  <2>3. NoEntry \in [key : Keys \cup {"none"}, count : Nat, fresh : BOOLEAN] /\ NoEntry.count = 0
    BY DEF NoEntry
  <2> HIDE DEF g, n
  <2>4. /\ writer' \in [Writers -> [stage : Stages, count : Nat]]
        /\ \A x \in Writers : writer'[x].stage \in {"idle", "record", "clearing"} => writer'[x].count = 0
        /\ Owed(writer') = Owed(writer) + n - writer[p].count
    BY <2>1, <2>2, OneWriter
  <2>5. writer[p].count = 0
    BY <1>1, <2>1
  <2> QED
    BY <1>1, <2>1, <2>2, <2>3, <2>4, <2>5 DEF CountsHeld, n
<1>8. CASE WindowPasses
  <2>1. dedup' = [dedup EXCEPT !.fresh = FALSE] /\ UNCHANGED <<writer, suppressed, reported>>
    BY <1>8 DEF WindowPasses
  <2>2. dedup' \in [key : Keys \cup {"none"}, count : Nat, fresh : BOOLEAN] /\ dedup'.count = dedup.count
    BY <1>1, <2>1
  <2>3. Owed(writer') = Owed(writer)
    BY <2>1
  <2> QED
    BY <1>1, <2>1, <2>2, <2>3 DEF CountsHeld
<1>9. CASE TaskStep
  BY <1>2, <1>9 DEF TaskStep, logVars
<1>10. CASE GcStep
  BY <1>2, <1>10 DEF GcStep, logVars, GcLooksAtLog, GcRotates
<1>11. CASE LogStep
  BY <1>3, <1>4, <1>5, <1>6, <1>7, <1>8, <1>11 DEF LogStep
<1>12. CASE UNCHANGED retentionVars
  BY <1>2, <1>12 DEF retentionVars, logVars
<1> QED
  BY <1>9, <1>10, <1>11, <1>12 DEF RetentionNext

(* Every repeat that was only counted is in a record, with a process that  *)
(* is about to write one, or in the dedup file (gate, clear).              *)
THEOREM RepeatsAreAccounted == RetentionSpec => []RepeatsAccounted
<1>1. RetentionInit => CountsHeld
  BY CountsInit, RetentionAssumption
<1>2. CountsHeld /\ [RetentionNext]_retentionVars => CountsHeld'
  BY CountsStep, RetentionAssumption
<1> QED
  BY <1>1, <1>2, CountsAdd, PTL DEF RetentionSpec

---------------------------------------------------------------------------
(* gc takes no directory that is in use *)

(* A directory bears the number of the turn that used it last. *)
Numbered ==
    /\ turns \in Nat \ {0}
    /\ tmp \in 0..turns /\ aside \in 0..turns

(* A worker holds the lease, and a turn that has used a directory is not    *)
(* waiting for a worker again.                                              *)
OneWorkerPerTurn ==
    /\ worker # "none" => leased
    /\ turns \in {tmp, aside} => state # "RESUMING" /\ worker # "starting"

(* What gc set aside after a look at free leases is of a turn that is over. *)
AsideIsOver ==
    ((gc = "rejudging" /\ ~gcLeased) \/ gc = "removing") /\ aside = turns =>
        worker = "none" /\ state # "RESUMING"

ScratchHeld == Numbered /\ OneWorkerPerTurn /\ AsideIsOver

LEMMA ScratchInit == RetentionInit => ScratchHeld
  BY DEF RetentionInit, ScratchHeld, Numbered, OneWorkerPerTurn, AsideIsOver

LEMMA ScratchTask == ScratchHeld /\ TaskStep => ScratchHeld'
<1> SUFFICES ASSUME ScratchHeld, TaskStep
             PROVE  ScratchHeld'
  OBVIOUS
<1> USE DEF ScratchHeld, Numbered, OneWorkerPerTurn, AsideIsOver
<1>1. gc' = gc /\ gcLeased' = gcLeased
  BY DEF TaskStep
<1>2. CASE ContinueTask
  BY <1>1, <1>2 DEF ContinueTask
<1>3. CASE StartWorker
  BY <1>1, <1>3 DEF StartWorker
<1>4. CASE WorkerOpens
  BY <1>1, <1>4 DEF WorkerOpens
<1>5. CASE WorkerSettles
  BY <1>1, <1>5 DEF WorkerSettles
<1>6. CASE WorkerReleases
  BY <1>1, <1>6 DEF WorkerReleases
<1>7. CASE CleanupTask
  BY <1>1, <1>7 DEF CleanupTask
<1>8. CASE CleanupScratch
  BY <1>1, <1>8 DEF CleanupScratch
<1>9. CASE CleanupWorkspace
  BY <1>1, <1>9 DEF CleanupWorkspace
<1> QED
  BY <1>2, <1>3, <1>4, <1>5, <1>6, <1>7, <1>8, <1>9 DEF TaskStep

LEMMA ScratchGc == ScratchHeld /\ GcStep => ScratchHeld'
<1> SUFFICES ASSUME ScratchHeld, GcStep
             PROVE  ScratchHeld'
  OBVIOUS
<1> USE DEF ScratchHeld, Numbered, OneWorkerPerTurn, AsideIsOver
<1>1. UNCHANGED <<state, leased, turns, worker>>
  BY DEF GcStep, GcReadsLeases, GcJudges, GcMoves, GcRejudges, GcRemoves, GcDies, taskVars
<1>2. CASE GcReadsLeases
  BY <1>1, <1>2 DEF GcReadsLeases
<1>3. CASE GcJudges
  BY <1>1, <1>3 DEF GcJudges
<1>4. CASE GcMoves
  BY <1>1, <1>4 DEF GcMoves
<1>5. CASE GcRejudges
  BY <1>1, <1>5 DEF GcRejudges, Collectable
<1>6. CASE GcRemoves
  BY <1>1, <1>6 DEF GcRemoves
<1>7. CASE GcDies
  BY <1>1, <1>7 DEF GcDies
<1>8. CASE (GcLooksAtLog \/ GcRotates) /\ UNCHANGED <<taskVars, tmp, aside, gcLeased>>
  BY <1>1, <1>8 DEF GcLooksAtLog, GcRotates
<1> QED
  BY <1>2, <1>3, <1>4, <1>5, <1>6, <1>7, <1>8 DEF GcStep

LEMMA ScratchStep == ScratchHeld /\ [RetentionNext]_retentionVars => ScratchHeld'
<1> SUFFICES ASSUME ScratchHeld, [RetentionNext]_retentionVars
             PROVE  ScratchHeld'
  OBVIOUS
<1>1. CASE LogStep \/ UNCHANGED retentionVars
  <2>1. UNCHANGED <<state, leased, turns, worker, tmp, aside, gc, gcLeased>>
    BY <1>1 DEF LogStep, retentionVars, taskVars
  <2> QED
    BY <2>1 DEF ScratchHeld, Numbered, OneWorkerPerTurn, AsideIsOver
<1> QED
  BY <1>1, ScratchTask, ScratchGc DEF RetentionNext

(* What gc removes is not the directory of the turn under way (collect).   *)
THEOREM ScratchIsKept == RetentionSpec => ScratchNotLost
<1>1. RetentionInit => ScratchHeld
  BY ScratchInit
<1>2. ScratchHeld /\ [RetentionNext]_retentionVars => ScratchHeld'
  BY ScratchStep
<1>3. ScratchHeld /\ [RetentionNext]_retentionVars =>
          [(gc = "removing" /\ aside # 0 /\ aside' = 0) => ~(worker = "running" /\ aside = turns)]_retentionVars
  BY DEF ScratchHeld, AsideIsOver
<1> QED
  BY <1>1, <1>2, <1>3, PTL DEF RetentionSpec, ScratchNotLost
=============================================================================
