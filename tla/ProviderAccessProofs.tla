------------------------- MODULE ProviderAccessProofs -------------------------
(***************************************************************************)
(* What is proved of ProviderAccess, for every set of turns, profiles,     *)
(* errors and checkers: a recorded refusal outlives every success of a     *)
(* turn that had read the status before it, no prompt reaches an account   *)
(* inside the window of a refusal that was there at its last check, and a  *)
(* native check never shows what it saw on another login.                  *)
(*                                                                         *)
(* The argument about the status rows rests on who wrote a row: a turn     *)
(* writes one only as it settles, so a row that was written after a turn   *)
(* read its snapshot cannot be the row that it read.                       *)
(***************************************************************************)
EXTENDS ProviderAccess, TLAPS

Stages == {"none", "queued", "claimed", "gathering", "opening", "checked", "prompted", "done", "failed"}
Settled == {"done", "failed"}
UnderWay == {"checked", "prompted"}
StatusRows == [state: Refusals \cup {"unknown", "ok"}, by: Turns \cup {"none"}]
TurnRows == [stage: Stages, profile: Profiles \cup {NoProfile}, ignore: BOOLEAN, bound: Nat,
             context: Nat, snap: StatusRows]

-----------------------------------------------------------------------------
(* What an error says *)

(* A retry summary holds a refusal or nothing. *)
LEMMA SummaryStates ==
    ASSUME NEW u, NEW xai, NEW trusted
    PROVE  safe_retry_summary(u, xai, trusted).state \in Refusals \cup {"none"}
  BY DEF safe_retry_summary, NoRetry, Notification, Refusals

(* Whatever an error says of a seat is a refusal or nothing. *)
LEMMA ClassifiedIsRefusal ==
    ASSUME NEW e, NEW family
    PROVE  classify_acp_error(e, family).state \in Refusals \cup {"none"}
  <1>1. grok_classification(e).state \in Refusals \cup {"none"}
    <2> DEFINE retry == safe_retry_summary(safe_retry_summary(e.notice, e.xai, FALSE), FALSE, TRUE)
               first == grok_retry_classification(e, retry)
               second == grok_status_classification(grok_http_status(e, retry), e, retry)
    <2>1. retry.state \in Refusals \cup {"none"}
      <3>1. PICK observed : observed = safe_retry_summary(e.notice, e.xai, FALSE)
        OBVIOUS
      <3> QED
        BY <3>1, SummaryStates
    <2>2. grok_classification(e) = IF first # Nothing THEN first ELSE second
      BY DEF grok_classification
    <2> HIDE DEF retry
    <2>3. first.state \in Refusals \cup {"none"}
      BY <2>1 DEF grok_retry_classification, Nothing, Verdict, Refusals
    <2>4. second.state \in Refusals \cup {"none"}
      BY DEF grok_status_classification, Nothing, Verdict, Refusals
    <2> QED
      BY <2>2, <2>3, <2>4
  <1>2. muse_classification(e).state \in Refusals \cup {"none"}
    BY DEF muse_classification, Nothing, Verdict, Refusals
  <1> DEFINE verdict == classify_acp_error(e, family)
  <1>3. CASE family = "muse"
    BY <1>2, <1>3 DEF classify_acp_error
  <1>4. CASE family = "agy" /\ e.native /\ e.code \in DOMAIN NativeStates
    BY <1>4 DEF classify_acp_error, NativeStates, Verdict, Refusals
  <1>5. CASE family # "muse" /\ ~(family = "agy" /\ e.native /\ e.code \in DOMAIN NativeStates)
    <2> DEFINE last == IF family = "grok" THEN grok_classification(e) ELSE Nothing
               text == IF e.kind = "rate_limit" \/ e.limitText THEN Verdict("throttled", e.reset) ELSE last
               kind == IF e.kind \in DOMAIN KindStates THEN Verdict(KindStates[e.kind], FALSE) ELSE text
               rest == IF e.rpc = -32000 THEN Verdict("auth_expired", FALSE) ELSE kind
    <2>4. verdict = IF family = "muse" THEN muse_classification(e)
                    ELSE IF family = "agy" /\ e.native /\ e.code \in DOMAIN NativeStates
                    THEN Verdict(NativeStates[e.code], FALSE) ELSE rest
      BY DEF classify_acp_error
    <2> HIDE DEF verdict, last, rest
    <2>0. verdict = rest
      BY <1>5, <2>4
    <2> USE DEF rest
    <2>1. CASE e.rpc = -32000
      BY <1>5, <2>1 DEF classify_acp_error, Verdict, Refusals
    <2>2. CASE e.rpc # -32000 /\ e.kind \in DOMAIN KindStates
      <3>1. KindStates[e.kind] \in Refusals
        BY <2>2 DEF KindStates, Refusals
      <3>2. verdict = Verdict(KindStates[e.kind], FALSE)
        BY <2>0, <2>2
      <3> QED
        BY <3>1, <3>2 DEF verdict, Verdict
    <2>3. CASE e.rpc # -32000 /\ e.kind \notin DOMAIN KindStates
      <3>1. CASE e.kind = "rate_limit" \/ e.limitText
        <4>1. verdict = Verdict("throttled", e.reset)
          BY <2>0, <2>3, <3>1
        <4> QED
          BY <4>1 DEF verdict, Verdict, Refusals
      <3>2. CASE ~(e.kind = "rate_limit" \/ e.limitText)
        <4>1. verdict = last
          BY <2>0, <2>3, <3>2
        <4> QED
          BY <1>1, <4>1 DEF verdict, last, Nothing, Verdict
      <3> QED
        BY <3>1, <3>2
    <2> QED
      BY <2>1, <2>2, <2>3
  <1> QED
    BY <1>3, <1>4, <1>5

-----------------------------------------------------------------------------
(* The inductive invariant about status rows *)

Key(t) == status_key(turn[t].profile)

(* Row r was written by a turn that has settled since, or nobody wrote it. *)
Written(r) ==
    IF r.state = "unknown" THEN r = NoRow ELSE r.by \in Turns /\ turn[r.by].stage \in Settled

StatusTyped ==
    /\ turn \in [Turns -> TurnRows]
    /\ status \in [Keys -> StatusRows]
    /\ left \in [Keys -> Nat] /\ shut \in [Keys -> Nat]
    /\ late \in [Turns -> BOOLEAN] /\ spoke \in [Turns -> BOOLEAN]
    /\ login \in Nat
    /\ \A t \in Turns : turn[t].stage # "none" => turn[t].profile \in Profiles

RowsWritten == (\A k \in Keys : Written(status[k])) /\ (\A t \in Turns : Written(turn[t].snap))

(* A turn since whose check a refusal was recorded finds another row than  *)
(* the one that it read, and a row that somebody wrote.                    *)
LateSeesAnother ==
    \A t \in Turns :
        late[t] => /\ turn[t].stage \in UnderWay \cup Settled
                   /\ turn[t].stage \in UnderWay => status[Key(t)] \notin {NoRow, turn[t].snap}

(* The window of the latest refusal is what is left of the row that        *)
(* records it.                                                             *)
WindowIsRecorded == \A k \in Keys : shut[k] = IF Refused(status[k]) THEN left[k] ELSE 0

(* A turn that passed its check did so outside of the window, unless the   *)
(* caller overrode it or the refusal came afterwards.                      *)
CheckedOutside ==
    \A t \in Turns : turn[t].stage = "checked" /\ ~turn[t].ignore => shut[Key(t)] = 0 \/ late[t]

StatusHeld ==
    StatusTyped /\ RowsWritten /\ LateSeesAnother /\ WindowIsRecorded /\ CheckedOutside

(* The invariant about native checks: what a check saw is at least as new  *)
(* as the login that it was asked for.                                     *)
Results == [state: {"not_checked", "check_failed", "auth_required", "quota", "unsupported"}, saw: Nat]
SawSince(result, fp) == result.saw = 0 \/ (fp <= result.saw /\ result.saw <= login)

ChecksHeld ==
    /\ login \in Nat
    /\ native \in [fp: Nat, owner: Checkers \cup {"none"}, lease: Nat, age: Nat,
                   result: Results, success: Results]
    /\ check \in [Checkers -> [stage: {"idle", "waiting", "checking", "checked"}, fp: Nat,
                               result: Results, age: Nat]]
    /\ native.fp <= login /\ SawSince(native.result, native.fp) /\ SawSince(native.success, native.fp)
    /\ \A c \in Checkers :
          /\ check[c].fp <= login /\ SawSince(check[c].result, check[c].fp)
          /\ check[c].stage # "checked" => check[c].result.saw = 0

-----------------------------------------------------------------------------
(* Native checks *)

(* A clock that runs down stays a number. *)
LEMMA LessTyped == \A n \in Nat : Less(n) \in Nat
  BY DEF Less

(* Whatever Grok replies, the check has one of the known results. *)
LEMMA CheckGrokTyped ==
    ASSUME NEW r \in GrokReplies, login \in Nat
    PROVE  [state |-> check_grok(r), saw |-> login] \in Results
  <1>1. check_grok(r) \in {"check_failed", "auth_required", "quota", "unsupported"}
    BY DEF check_grok, GrokReplies
  <1> HIDE DEF check_grok
  <1> QED
    BY <1>1 DEF Results

(* A step of a checker keeps what is known about the checks. *)
LEMMA CheckStepKeeps ==
    ASSUME ChecksHeld, NEW c \in Checkers, CheckStep(c), login' = login
    PROVE  ChecksHeld'
  <1> USE DEF SawSince
  <1>1. /\ native.result \in Results /\ native.success \in Results
        /\ check[c].result \in Results /\ check[c].fp \in Nat
        /\ native.result.saw \in Nat /\ native.success.saw \in Nat
        /\ \A d \in Checkers : check[d].result.saw \in Nat /\ check[d].fp \in Nat
    BY DEF ChecksHeld, Results
  <1>2. NoResult \in Results /\ NoResult.saw = 0
    BY DEF NoResult, Results
  <1> HIDE DEF Results
  <1>3. /\ Idle \in [stage: {"idle", "waiting", "checking", "checked"}, fp: Nat, result: Results, age: Nat]
        /\ Idle.stage = "idle" /\ Idle.fp = 0 /\ Idle.result.saw = 0
    BY <1>2 DEF Idle
  <1>4. CASE AskCheck(c)
    <2>1. PICK row : row = [check[c] EXCEPT !.stage = "waiting", !.fp = login]
      OBVIOUS
    <2>2. /\ row \in [stage: {"idle", "waiting", "checking", "checked"}, fp: Nat, result: Results, age: Nat]
          /\ row.stage = "waiting" /\ row.fp = login /\ row.result = check[c].result
      BY <2>1 DEF ChecksHeld
    <2>3. check' = [check EXCEPT ![c] = row] /\ native' = native /\ row.result.saw = 0
      BY <1>4, <2>1, <2>2 DEF AskCheck, ChecksHeld
    <2> QED
      BY <1>1, <2>2, <2>3 DEF ChecksHeld
  <1>5. CASE claim_native_check(c)
    <2> DEFINE base == IF native.fp = check[c].fp THEN native ELSE [NoNative EXCEPT !.fp = check[c].fp]
    <2>1. /\ base \in [fp: Nat, owner: Checkers \cup {"none"}, lease: Nat, age: Nat,
                       result: Results, success: Results]
          /\ base.fp = check[c].fp
          /\ SawSince(base.result, base.fp) /\ SawSince(base.success, base.fp)
      BY <1>1, <1>2, TimesAssumption DEF ChecksHeld, NoNative
    <2>2. native' = [base EXCEPT !.owner = c, !.lease = LeaseTicks]
      BY <1>5 DEF claim_native_check
    <2> HIDE DEF base
    <2>3. /\ native' \in [fp: Nat, owner: Checkers \cup {"none"}, lease: Nat, age: Nat,
                          result: Results, success: Results]
          /\ native'.fp = check[c].fp /\ native'.result = base.result /\ native'.success = base.success
      BY <2>1, <2>2, TimesAssumption
    <2>4. check' = [check EXCEPT ![c].stage = "checking", ![c].age = 0] /\ check[c].stage = "waiting"
      BY <1>5 DEF claim_native_check
    <2> QED
      BY <1>1, <2>1, <2>3, <2>4 DEF ChecksHeld
  <1>6. CASE GiveUpCheck(c)
    BY <1>1, <1>3, <1>6 DEF GiveUpCheck, ChecksHeld
  <1>7. CASE RunCheck(c)
    <2>1. PICK r \in GrokReplies :
            check' = [check EXCEPT ![c] = [check[c] EXCEPT !.stage = "checked",
                                                !.result = [state |-> check_grok(r), saw |-> login]]]
      BY <1>7 DEF RunCheck
    <2>2. PICK seen \in Results : seen = [state |-> check_grok(r), saw |-> login] /\ seen.saw = login
      BY CheckGrokTyped DEF ChecksHeld
    <2>3. PICK row : row = [check[c] EXCEPT !.stage = "checked", !.result = seen]
      OBVIOUS
    <2>4. /\ row \in [stage: {"idle", "waiting", "checking", "checked"}, fp: Nat, result: Results, age: Nat]
          /\ row.stage = "checked" /\ row.fp = check[c].fp /\ row.result = seen
      BY <2>3 DEF ChecksHeld
    <2>5. check' = [check EXCEPT ![c] = row] /\ native' = native
      BY <1>7, <2>1, <2>2, <2>3 DEF RunCheck
    <2> QED
      BY <1>1, <2>2, <2>4, <2>5 DEF ChecksHeld
  <1>8. CASE finish_native_check(c)
    <2>1. check' = [check EXCEPT ![c] = Idle]
      BY <1>8 DEF finish_native_check
    <2>2. CASE FinishMatches(c)
      <3>1. PICK kept \in Results : kept = IF check[c].result.state \in Successes
                                           THEN check[c].result ELSE native.success
        BY <1>1
      <3>2. native' = [native EXCEPT !.age = 0, !.result = check[c].result, !.owner = "none", !.lease = 0,
                                     !.success = kept]
        BY <1>8, <2>2, <3>1 DEF finish_native_check
      <3>3. native.fp = check[c].fp /\ SawSince(check[c].result, native.fp) /\ SawSince(kept, native.fp)
        BY <2>2, <3>1 DEF FinishMatches, ChecksHeld
      <3>4. /\ native' \in [fp: Nat, owner: Checkers \cup {"none"}, lease: Nat, age: Nat,
                            result: Results, success: Results]
            /\ native'.fp = native.fp /\ native'.result = check[c].result /\ native'.success = kept
        BY <1>1, <3>1, <3>2 DEF ChecksHeld
      <3> QED
        BY <1>1, <1>3, <2>1, <3>3, <3>4 DEF ChecksHeld
    <2>3. CASE ~FinishMatches(c)
      <3>1. native' = native
        BY <1>8, <2>3 DEF finish_native_check
      <3> QED
        BY <1>1, <1>3, <2>1, <3>1 DEF ChecksHeld
    <2> QED
      BY <2>2, <2>3
  <1>9. CASE CheckerDies(c)
    BY <1>1, <1>3, <1>9 DEF CheckerDies, ChecksHeld
  <1> QED
    BY <1>4, <1>5, <1>6, <1>7, <1>8, <1>9 DEF CheckStep

(* The clock and the logins keep it too: a login is never used again. *)
LEMMA NextChecks ==
    ASSUME ChecksHeld, [Next]_vars
    PROVE  ChecksHeld'
  <1> USE DEF SawSince
  <1>1. /\ native.result.saw \in Nat /\ native.success.saw \in Nat /\ native.fp \in Nat
        /\ \A d \in Checkers : check[d].result.saw \in Nat /\ check[d].fp \in Nat
    BY DEF ChecksHeld, Results
  <1> HIDE DEF Results
  <1>2. CASE \E c \in Checkers : CheckStep(c) /\ UNCHANGED <<statusVars, login>>
    BY <1>2, CheckStepKeeps
  <1>3. CASE UNCHANGED <<login, nativeVars>>
    BY <1>3 DEF ChecksHeld, nativeVars
  <1>4. CASE Relogin
    BY <1>1, <1>4 DEF Relogin, ChecksHeld, nativeVars
  <1>5. CASE Tick
    <2>1. PICK lease \in Nat : lease = Less(native.lease)
      BY LessTyped DEF ChecksHeld
    <2>2. PICK age \in Nat : age = IF native.age < FreshTicks THEN native.age + 1 ELSE native.age
      BY DEF ChecksHeld
    <2>3. native' = [native EXCEPT !.lease = lease, !.age = age] /\ login' = login
      BY <1>5, <2>1, <2>2 DEF Tick
    <2>4. ASSUME NEW d \in Checkers
          PROVE  /\ check'[d] \in [stage: {"idle", "waiting", "checking", "checked"}, fp: Nat,
                                   result: Results, age: Nat]
                 /\ check'[d].stage = check[d].stage /\ check'[d].fp = check[d].fp
                 /\ check'[d].result = check[d].result
      <3>1. PICK old \in Nat : old = IF d \in Checking /\ check[d].age < LeaseTicks
                                     THEN check[d].age + 1 ELSE check[d].age
        BY DEF ChecksHeld
      <3>2. check'[d] = [check[d] EXCEPT !.age = old]
        BY <1>5, <3>1 DEF Tick
      <3> QED
        BY <3>2 DEF ChecksHeld
    <2>5. check' \in [Checkers -> [stage: {"idle", "waiting", "checking", "checked"}, fp: Nat,
                                   result: Results, age: Nat]]
      BY <1>5, <2>4 DEF Tick
    <2> QED
      BY <2>3, <2>4, <2>5 DEF ChecksHeld
  <1> QED
    BY <1>2, <1>3, <1>4, <1>5 DEF Next, vars

(* At the start nothing was checked. *)
LEMMA InitChecks == Init => ChecksHeld
  BY TimesAssumption DEF Init, ChecksHeld, NoNative, Idle, NoResult, Results, SawSince

(* A result that is shown was seen on the current login                    *)
(* (cached_native_check, finish_native_check).                             *)
THEOREM ShownIsCurrent == Spec => []ShownIsCurrentLogin
  <1>1. ChecksHeld => ShownIsCurrentLogin
    <2> SUFFICES ASSUME ChecksHeld PROVE ShownIsCurrentLogin
      OBVIOUS
    <2>1. native.result.saw \in Nat /\ native.success.saw \in Nat /\ native.fp \in Nat
      BY DEF ChecksHeld, Results
    <2>2. CASE native.fp = login
      <3>1. native.result.saw \in {0, login} /\ native.success.saw \in {0, login}
        BY <2>1, <2>2 DEF ChecksHeld, SawSince
      <3> QED
        BY <2>2, <3>1 DEF ShownIsCurrentLogin, cached_native_check
    <2>3. CASE native.fp # login
      BY <2>3 DEF ShownIsCurrentLogin, cached_native_check, NoResult
    <2> QED
      BY <2>2, <2>3
  <1> QED
    BY <1>1, InitChecks, NextChecks, PTL DEF Spec

-----------------------------------------------------------------------------
(* What a turn does to the status rows *)

(* Turn t, which has not settled, goes on as row. *)
TurnGoes(t, row) ==
    /\ turn[t].stage \notin Settled
    /\ row \in TurnRows /\ row.profile \in Profiles /\ Written(row.snap)
    /\ turn[t].stage # "none" => row.profile = turn[t].profile
    /\ turn' = [turn EXCEPT ![t] = row]

(* Turn t leaves the status alone. *)
Quietly(t) ==
    /\ UNCHANGED rows /\ login' = login
    /\ spoke' \in [Turns -> BOOLEAN]
    /\ \E row :
          /\ TurnGoes(t, row)
          /\ late[t] => \/ row.stage \in Settled
                        \/ turn[t].stage \in UnderWay /\ row.stage \in UnderWay /\ row.snap = turn[t].snap
          /\ row.stage = "checked" /\ ~row.ignore => shut[status_key(row.profile)] = 0

(* Turn t settles and writes a row; a refusal is late for the turns of the  *)
(* account that had passed their checks.                                    *)
WritesRow(t, row, state, ticks) ==
    /\ TurnGoes(t, row) /\ row.stage \in Settled
    /\ turn[t].stage # "none"
    /\ status' = [status EXCEPT ![Key(t)] = Row(state, t)]
    /\ left' = [left EXCEPT ![Key(t)] = ticks]
    /\ shut' = [shut EXCEPT ![Key(t)] = IF state \in Refusals THEN ticks ELSE 0]
    /\ login' = login
    /\ late' \in [Turns -> BOOLEAN] /\ spoke' \in [Turns -> BOOLEAN]
    /\ \A u \in Turns : late'[u] => late[u] \/ (turn[u].stage \in UnderWay /\ Key(u) = Key(t))
    /\ \A u \in Turns : late[u] => late'[u]
    /\ state \in Refusals =>
          \A u \in Turns : turn[u].stage \in UnderWay /\ Key(u) = Key(t) => late'[u]

Writes(t) == \E row \in TurnRows, state \in Refusals \cup {"ok"}, ticks \in Nat : WritesRow(t, row, state, ticks)

(* The account of a profile is the key of its row. *)
LEMMA AccountIsKey == /\ \A p : Account(p) = status_key(p)
                      /\ {Account(p) : p \in Profiles} = Keys
  BY DEF Account, status_key, Keys

(* A settled turn stays so, and with it the author of a row. *)
LEMMA WrittenStays ==
    ASSUME StatusTyped, NEW t \in Turns, NEW row, TurnGoes(t, row), NEW r, Written(r)
    PROVE  IF r.state = "unknown" THEN r = NoRow ELSE r.by \in Turns /\ turn'[r.by].stage \in Settled
  <1>1. \A u \in Turns : turn[u].stage \in Settled => turn'[u] = turn[u]
    BY DEF TurnGoes, StatusTyped
  <1> QED
    BY <1>1 DEF Written

(* What a turn's own step makes of the turns. *)
LEMMA TurnsAfter ==
    ASSUME StatusTyped, NEW t \in Turns, NEW row, TurnGoes(t, row)
    PROVE  /\ turn' \in [Turns -> TurnRows] /\ turn'[t] = row
           /\ \A u \in Turns : u # t => turn'[u] = turn[u]
           /\ \A u \in Turns : turn'[u].stage # "none" => turn'[u].profile \in Profiles
           /\ \A u \in Turns : turn[u].stage # "none" => turn'[u].profile = turn[u].profile
           /\ \A u \in Turns : turn[u].stage \in Settled => turn'[u].stage \in Settled
  BY DEF TurnGoes, StatusTyped

(* A step that leaves the status alone keeps the invariant. *)
LEMMA QuietKeeps ==
    ASSUME StatusHeld, NEW t \in Turns, Quietly(t)
    PROVE  StatusHeld'
  <1>1. PICK row :
          /\ TurnGoes(t, row)
          /\ late[t] => \/ row.stage \in Settled
                        \/ turn[t].stage \in UnderWay /\ row.stage \in UnderWay /\ row.snap = turn[t].snap
          /\ row.stage = "checked" /\ ~row.ignore => shut[status_key(row.profile)] = 0
    BY DEF Quietly
  <1>2. /\ turn' \in [Turns -> TurnRows] /\ turn'[t] = row
        /\ \A u \in Turns : u # t => turn'[u] = turn[u]
        /\ \A u \in Turns : turn'[u].stage # "none" => turn'[u].profile \in Profiles
    BY <1>1, TurnsAfter DEF StatusHeld
  <1>3. /\ status' = status /\ left' = left /\ late' = late /\ shut' = shut /\ login' = login
        /\ spoke' \in [Turns -> BOOLEAN]
    BY DEF Quietly, rows
  <1>4. StatusTyped'
    BY <1>2, <1>3 DEF StatusHeld, StatusTyped
  <1>5. RowsWritten'
    <2>1. \A k \in Keys : IF status[k].state = "unknown" THEN status[k] = NoRow
                          ELSE status[k].by \in Turns /\ turn'[status[k].by].stage \in Settled
      BY <1>1, WrittenStays DEF StatusHeld, RowsWritten
    <2>2. \A u \in Turns : Written(turn'[u].snap)
      BY <1>1, <1>2 DEF StatusHeld, RowsWritten, TurnGoes
    <2>3. \A u \in Turns : IF turn'[u].snap.state = "unknown" THEN turn'[u].snap = NoRow
                           ELSE /\ turn'[u].snap.by \in Turns
                                /\ turn'[turn'[u].snap.by].stage \in Settled
      BY <1>1, <2>2, WrittenStays DEF StatusHeld
    <2> QED
      BY <1>3, <2>1, <2>3 DEF RowsWritten, Written
  <1>6. LateSeesAnother'
    <2> SUFFICES ASSUME NEW u \in Turns, late[u]
                 PROVE  /\ turn'[u].stage \in UnderWay \cup Settled
                        /\ turn'[u].stage \in UnderWay =>
                              status[status_key(turn'[u].profile)] \notin {NoRow, turn'[u].snap}
      BY <1>3 DEF LateSeesAnother, Key
    <2>1. CASE u = t
      <3>1. turn[t].stage \in UnderWay => row.profile = turn[t].profile
        BY <1>1 DEF TurnGoes, UnderWay
      <3> QED
        BY <1>1, <1>2, <2>1, <3>1 DEF Settled, UnderWay, StatusHeld, LateSeesAnother, Key
    <2>2. CASE u # t
      BY <1>2, <2>2 DEF StatusHeld, LateSeesAnother, Key
    <2> QED
      BY <2>1, <2>2
  <1>7. WindowIsRecorded'
    BY <1>3 DEF StatusHeld, WindowIsRecorded
  <1>8. CheckedOutside'
    <2> SUFFICES ASSUME NEW u \in Turns, turn'[u].stage = "checked", ~turn'[u].ignore
                 PROVE  shut[status_key(turn'[u].profile)] = 0 \/ late[u]
      BY <1>3 DEF CheckedOutside, Key
    <2> QED
      BY <1>1, <1>2 DEF StatusHeld, CheckedOutside, Key
  <1> QED
    BY <1>4, <1>5, <1>6, <1>7, <1>8 DEF StatusHeld

(* So does a turn that settles and writes its row. *)
LEMMA WriteKeeps ==
    ASSUME StatusHeld, NEW t \in Turns, Writes(t)
    PROVE  StatusHeld'
  <1>0. PICK row \in TurnRows, state \in Refusals \cup {"ok"}, ticks \in Nat : WritesRow(t, row, state, ticks)
    BY DEF Writes
  <1>1. /\ TurnGoes(t, row) /\ row.stage \in Settled
        /\ turn[t].stage # "none"
        /\ status' = [status EXCEPT ![Key(t)] = Row(state, t)]
        /\ left' = [left EXCEPT ![Key(t)] = ticks]
        /\ shut' = [shut EXCEPT ![Key(t)] = IF state \in Refusals THEN ticks ELSE 0]
        /\ login' = login
        /\ late' \in [Turns -> BOOLEAN] /\ spoke' \in [Turns -> BOOLEAN]
        /\ \A u \in Turns : late'[u] => late[u] \/ (turn[u].stage \in UnderWay /\ Key(u) = Key(t))
        /\ \A u \in Turns : late[u] => late'[u]
        /\ state \in Refusals =>
              \A u \in Turns : turn[u].stage \in UnderWay /\ Key(u) = Key(t) => late'[u]
    BY <1>0 DEF WritesRow
  <1>2. /\ turn' \in [Turns -> TurnRows] /\ turn'[t] = row
        /\ \A u \in Turns : u # t => turn'[u] = turn[u]
        /\ \A u \in Turns : turn'[u].stage # "none" => turn'[u].profile \in Profiles
    BY <1>1, TurnsAfter DEF StatusHeld
  <1>3. PICK k : k = Key(t) /\ k \in Keys
    BY <1>1 DEF StatusHeld, StatusTyped, Key, Keys
  <1>4. PICK new \in StatusRows : new = Row(state, t) /\ new.state = state /\ new.by = t
    <2>1. Row(state, t) \in StatusRows /\ Row(state, t).state = state /\ Row(state, t).by = t
      BY DEF Row, StatusRows
    <2> QED
      BY <2>1
  <1>5. /\ state # "unknown" /\ (Refused(new) <=> state \in Refusals)
        /\ new # NoRow
    BY <1>4 DEF Refusals, Refused, NoRow
  <1>6. /\ status' \in [Keys -> StatusRows] /\ status'[k] = new
        /\ \A j \in Keys : j # k => status'[j] = status[j]
    BY <1>1, <1>3, <1>4 DEF StatusHeld, StatusTyped
  <1>7. StatusTyped'
    BY <1>1, <1>2, <1>3, <1>6 DEF StatusHeld, StatusTyped
  <1>8. RowsWritten'
    <2>1. \A j \in Keys : IF status[j].state = "unknown" THEN status[j] = NoRow
                          ELSE status[j].by \in Turns /\ turn'[status[j].by].stage \in Settled
      BY <1>1, WrittenStays DEF StatusHeld, RowsWritten
    <2>2. \A u \in Turns : Written(turn'[u].snap)
      BY <1>1, <1>2 DEF StatusHeld, RowsWritten, TurnGoes
    <2>3. \A u \in Turns : IF turn'[u].snap.state = "unknown" THEN turn'[u].snap = NoRow
                           ELSE /\ turn'[u].snap.by \in Turns
                                /\ turn'[turn'[u].snap.by].stage \in Settled
      BY <1>1, <2>2, WrittenStays DEF StatusHeld
    <2>4. \A j \in Keys : IF status'[j].state = "unknown" THEN status'[j] = NoRow
                          ELSE status'[j].by \in Turns /\ turn'[status'[j].by].stage \in Settled
      BY <1>1, <1>2, <1>4, <1>5, <1>6, <2>1
    <2> QED
      BY <2>3, <2>4 DEF RowsWritten, Written
  <1>9. LateSeesAnother'
    <2> SUFFICES ASSUME NEW u \in Turns, late'[u]
                 PROVE  /\ turn'[u].stage \in UnderWay \cup Settled
                        /\ turn'[u].stage \in UnderWay =>
                              status'[status_key(turn'[u].profile)] \notin {NoRow, turn'[u].snap}
      BY DEF LateSeesAnother, Key
    <2>1. CASE u = t
      BY <1>1, <1>2, <2>1 DEF Settled, UnderWay
    <2>2. CASE u # t
      <3>1. turn'[u] = turn[u] /\ (late[u] \/ (turn[u].stage \in UnderWay /\ Key(u) = k))
        BY <1>1, <1>2, <1>3, <2>2
      <3>2. CASE turn[u].stage \in UnderWay /\ Key(u) = k
        <4>1. turn[u].snap.state # "unknown" => turn[turn[u].snap.by].stage \in Settled
          BY DEF StatusHeld, RowsWritten, Written
        <4>2. turn[u].snap # new
          BY <1>1, <1>4, <1>5, <4>1 DEF TurnGoes
        <4> QED
          BY <1>5, <1>6, <3>1, <3>2, <4>2 DEF Key
      <3>3. CASE turn[u].stage \notin UnderWay
        BY <3>1, <3>3 DEF StatusHeld, LateSeesAnother
      <3>4. CASE turn[u].stage \in UnderWay /\ Key(u) # k
        <4>1. Key(u) \in Keys
          BY <3>4 DEF UnderWay, StatusHeld, StatusTyped, Key, Keys
        <4> QED
          BY <1>6, <3>1, <3>4, <4>1 DEF StatusHeld, LateSeesAnother, Key
      <3> QED
        BY <3>2, <3>3, <3>4
    <2> QED
      BY <2>1, <2>2
  <1>10. WindowIsRecorded'
    <2> SUFFICES ASSUME NEW j \in Keys
                 PROVE  shut'[j] = IF Refused(status'[j]) THEN left'[j] ELSE 0
      BY DEF WindowIsRecorded, Refused
    <2>1. CASE j = k
      BY <1>1, <1>3, <1>5, <1>6, <2>1 DEF StatusHeld, StatusTyped
    <2>2. CASE j # k
      BY <1>1, <1>3, <1>6, <2>2 DEF StatusHeld, StatusTyped, WindowIsRecorded
    <2> QED
      BY <2>1, <2>2
  <1>11. CheckedOutside'
    <2> SUFFICES ASSUME NEW u \in Turns, turn'[u].stage = "checked", ~turn'[u].ignore
                 PROVE  shut'[status_key(turn'[u].profile)] = 0 \/ late'[u]
      BY DEF CheckedOutside, Key
    <2>1. u # t /\ turn'[u] = turn[u]
      BY <1>1, <1>2 DEF Settled
    <2>2. Key(u) \in Keys /\ (shut[Key(u)] = 0 \/ late[u])
      BY <2>1 DEF StatusHeld, StatusTyped, CheckedOutside, Key, Keys
    <2>3. CASE Key(u) = Key(t) /\ state \in Refusals
      BY <1>1, <2>1, <2>3 DEF UnderWay
    <2>4. CASE Key(u) = Key(t) /\ state \notin Refusals
      BY <1>1, <2>1, <2>2, <2>4 DEF StatusHeld, StatusTyped, Key
    <2>5. CASE Key(u) # Key(t)
      BY <1>1, <2>1, <2>2, <2>5 DEF StatusHeld, StatusTyped, Key
    <2> QED
      BY <2>3, <2>4, <2>5
  <1> QED
    BY <1>7, <1>8, <1>9, <1>10, <1>11 DEF StatusHeld

(* An identity is a number. *)
LEMMA FingerprintTyped ==
    ASSUME login \in Nat, NEW p
    PROVE  fingerprint(p, login) \in Nat
  BY DEF fingerprint

(* A turn that only changes its stage. *)
LEMMA StageGoes ==
    ASSUME StatusHeld, NEW t \in Turns, NEW stage \in Stages, To(t, stage),
           turn[t].stage \notin Settled, turn[t].stage # "none"
    PROVE  \E row : /\ TurnGoes(t, row) /\ row.stage = stage
                    /\ row.profile = turn[t].profile /\ row.snap = turn[t].snap
  <1>1. PICK row : row = [turn[t] EXCEPT !.stage = stage]
    OBVIOUS
  <1>2. /\ row \in TurnRows /\ row.stage = stage
        /\ row.profile = turn[t].profile /\ row.snap = turn[t].snap
    BY <1>1 DEF StatusHeld, StatusTyped, TurnRows
  <1>3. turn' = [turn EXCEPT ![t] = row]
    BY <1>1 DEF To, StatusHeld, StatusTyped
  <1>4. row.profile \in Profiles /\ Written(row.snap)
    BY <1>2 DEF StatusHeld, StatusTyped, RowsWritten
  <1> QED
    BY <1>2, <1>3, <1>4 DEF TurnGoes

(* A recorded limit is a write. *)
LEMMA LimitWrites ==
    ASSUME StatusHeld, NEW t \in Turns, NEW state \in Refusals, NEW reset, NEW after \in Nat,
           turn[t].stage \notin Settled, turn[t].stage # "none",
           record_provider_limit(t, Verdict(state, reset), after), To(t, "failed"),
           NEW said \in BOOLEAN, spoke' = [spoke EXCEPT ![t] = said], login' = login
    PROVE  Writes(t)
  <1>1. PICK row : TurnGoes(t, row) /\ row.stage = "failed"
    BY StageGoes DEF Stages
  <1>2. PICK ticks \in Nat : ticks = IF reset THEN after ELSE EligibleAfter
    BY TimesAssumption
  <1>3. Verdict(state, reset).state = state /\ Verdict(state, reset).reset = reset
    BY DEF Verdict
  <1>4. /\ status' = [status EXCEPT ![Key(t)] = Row(state, t)]
        /\ left' = [left EXCEPT ![Key(t)] = ticks]
        /\ shut' = [shut EXCEPT ![Key(t)] = ticks]
    BY <1>2, <1>3, AccountIsKey DEF record_provider_limit, Window, Key
  <1>5. /\ late' \in [Turns -> BOOLEAN]
        /\ \A u \in Turns : late'[u] <=> late[u] \/ (turn[u].stage \in UnderWay /\ Key(u) = Key(t))
    <2>1. late' = [u \in Turns |-> late[u] \/ (turn[u].stage \in UnderWay /\ SameAccount(u, t))]
      BY DEF record_provider_limit, UnderWay
    <2>2. \A u \in Turns : SameAccount(u, t) <=> Key(u) = Key(t)
      BY AccountIsKey DEF SameAccount, Key
    <2> QED
      BY <2>1, <2>2 DEF StatusHeld, StatusTyped
  <1>6. spoke' \in [Turns -> BOOLEAN]
    BY DEF StatusHeld, StatusTyped
  <1>7. row.stage \in Settled /\ state \in Refusals \cup {"ok"}
    BY <1>1 DEF Settled
  <1> QED
    <2>1. shut' = [shut EXCEPT ![Key(t)] = IF state \in Refusals THEN ticks ELSE 0]
      BY <1>4
    <2>2. WritesRow(t, row, state, ticks)
      BY <1>1, <1>4, <1>5, <1>6, <1>7, <2>1 DEF WritesRow
    <2> QED
      BY <1>1, <1>7, <2>2 DEF Writes, TurnGoes

(* A turn that finds its snapshot unchanged was not late, so that its      *)
(* success is a write.                                                     *)
LEMMA HealthyWrites ==
    ASSUME StatusHeld, NEW t \in Turns, turn[t].stage = "prompted", mark_provider_healthy(t),
           To(t, "done"), UNCHANGED <<late, spoke, login>>
    PROVE  IF Clears(Key(t), turn[t].snap) THEN ~late[t] /\ Writes(t) ELSE Quietly(t)
  <1>1. PICK row : TurnGoes(t, row) /\ row.stage = "done"
    BY StageGoes DEF Stages, Settled
  <1>2. row.stage \in Settled /\ row.stage # "checked"
    BY <1>1 DEF Settled
  <1>3. CASE Clears(Key(t), turn[t].snap)
    <2>1. ~late[t]
      BY <1>3 DEF Clears, StatusHeld, LateSeesAnother, UnderWay
    <2>2. /\ status' = [status EXCEPT ![Key(t)] = Row("ok", t)]
          /\ left' = [left EXCEPT ![Key(t)] = 0]
          /\ shut' = [shut EXCEPT ![Key(t)] = 0]
      BY <1>3, <2>1, AccountIsKey DEF mark_provider_healthy, Key
    <2>3. "ok" \in Refusals \cup {"ok"} /\ "ok" \notin Refusals /\ 0 \in Nat
      BY DEF Refusals
    <2>4. /\ late' \in [Turns -> BOOLEAN] /\ spoke' \in [Turns -> BOOLEAN]
          /\ \A u \in Turns : late'[u] = late[u]
      BY DEF StatusHeld, StatusTyped
    <2>5. shut' = [shut EXCEPT ![Key(t)] = IF "ok" \in Refusals THEN 0 ELSE 0]
      BY <2>2
    <2>6. WritesRow(t, row, "ok", 0)
      BY <1>1, <1>2, <2>2, <2>3, <2>4, <2>5 DEF WritesRow
    <2> QED
      BY <1>1, <1>3, <2>1, <2>3, <2>6 DEF Writes, TurnGoes
  <1>4. CASE ~Clears(Key(t), turn[t].snap)
    <2>1. UNCHANGED <<status, left, shut>>
      BY <1>4 DEF mark_provider_healthy, Key
    <2> QED
      <3>1. UNCHANGED rows /\ login' = login /\ spoke' \in [Turns -> BOOLEAN]
        BY <2>1 DEF rows, StatusHeld, StatusTyped
      <3> QED
        BY <1>1, <1>2, <1>4, <3>1 DEF Quietly
  <1> QED
    BY <1>3, <1>4

(* The turn ends with an answer of the login that it was prompted on, and  *)
(* no refusal was recorded meanwhile.                                      *)
Answered(t) ==
    /\ turn[t].stage = "prompted" /\ turn'[t].stage = "done"
    /\ ~late[t] /\ turn[t].context = fingerprint(turn[t].profile, login)

(* Every step of a turn leaves the status alone or is a write; a refusal   *)
(* is only overwritten by another or by an answer, and a prompt is sent    *)
(* only outside of the window that was there at its check.                 *)
LEMMA TurnStepShape ==
    ASSUME StatusHeld, NEW t \in Turns, TurnStep(t), login' = login
    PROVE  /\ Quietly(t) \/ Writes(t)
           /\ \A k \in Keys : Refused(status[k]) /\ ~Refused(status'[k]) => Answered(t)
           /\ (turn[t].stage # "prompted" /\ turn'[t].stage = "prompted" /\ ~turn[t].ignore)
                  => shut[Account(turn[t].profile)] = 0 \/ late[t]
           /\ \A u \in Turns : u # t => turn'[u] = turn[u]
  <1> USE DEF Stages, Settled, UnderWay
  <1>1. /\ turn \in [Turns -> TurnRows] /\ turn[t] \in TurnRows /\ login \in Nat
        /\ turn[t].stage # "none" => turn[t].profile \in Profiles /\ Key(t) \in Keys
        /\ Written(turn[t].snap)
        /\ spoke \in [Turns -> BOOLEAN]
        /\ late[t] => turn[t].stage \in UnderWay \cup Settled
    BY DEF StatusHeld, StatusTyped, RowsWritten, LateSeesAnother, Key, Keys
  <1>2. ASSUME NEW stage \in Stages, To(t, stage), turn[t].stage \notin Settled, turn[t].stage # "none",
               stage \notin UnderWay, late[t] => stage \in Settled, UNCHANGED <<rows, spoke>>
        PROVE  /\ Quietly(t) /\ status' = status /\ turn'[t].stage # "prompted"
               /\ \A u \in Turns : u # t => turn'[u] = turn[u]
    <2>1. PICK row : TurnGoes(t, row) /\ row.stage = stage
      BY <1>2, StageGoes
    <2>2. UNCHANGED rows /\ spoke' \in [Turns -> BOOLEAN] /\ status' = status
      BY <1>1, <1>2 DEF rows
    <2>3. row.stage # "checked" /\ (late[t] => row.stage \in Settled)
      BY <1>2, <2>1
    <2>4. Quietly(t)
      BY <2>1, <2>2, <2>3 DEF Quietly
    <2> QED
      BY <1>1, <1>2, <2>1, <2>2, <2>4 DEF TurnGoes
  <1>3. ASSUME NEW row \in TurnRows, turn' = [turn EXCEPT ![t] = row], turn[t].stage \notin Settled,
               row.profile \in Profiles, turn[t].stage # "none" => row.profile = turn[t].profile,
               Written(row.snap), ~late[t], UNCHANGED <<rows, spoke>>,
               row.stage = "checked" /\ ~row.ignore => shut[status_key(row.profile)] = 0
        PROVE  /\ Quietly(t) /\ status' = status /\ turn'[t].stage = row.stage
               /\ \A u \in Turns : u # t => turn'[u] = turn[u]
    <2>1. TurnGoes(t, row)
      BY <1>3 DEF TurnGoes
    <2> QED
      BY <1>1, <1>3, <2>1 DEF Quietly, rows
  <1>4. ASSUME NEW k \in Keys PROVE Written(status[k]) /\ status[k] \in StatusRows
    BY DEF StatusHeld, RowsWritten, StatusTyped
  <1>5. CASE \E p \in Profiles, ignore \in BOOLEAN : Submit(t, p, ignore)
    <2>1. PICK p \in Profiles, ignore \in BOOLEAN : Submit(t, p, ignore)
      BY <1>5
    <2>2. PICK row : row = [turn[t] EXCEPT !.stage = "queued", !.profile = p, !.ignore = ignore,
                                           !.bound = fingerprint(p, login)]
      OBVIOUS
    <2>3. fingerprint(p, login) \in Nat
      BY <1>1, FingerprintTyped
    <2>4. row \in TurnRows /\ row.profile = p /\ row.snap = turn[t].snap /\ row.stage = "queued"
      BY <1>1, <2>2, <2>3 DEF TurnRows
    <2>5. turn' = [turn EXCEPT ![t] = row] /\ turn[t].stage = "none" /\ UNCHANGED <<rows, spoke>>
      BY <1>1, <2>1, <2>2 DEF Submit
    <2> QED
      BY <1>1, <1>3, <2>4, <2>5
  <1>6. CASE Dispatch(t)
    BY <1>1, <1>2, <1>6 DEF Dispatch
  <1>7. CASE Preflight(t)
    <2>1. CASE ContextKept(t)
      <3>1. PICK row : row = [turn[t] EXCEPT !.stage = "gathering", !.snap = status[Key(t)],
                                             !.context = fingerprint(turn[t].profile, login)]
        OBVIOUS
      <3>2. /\ turn' = [turn EXCEPT ![t] = row] /\ turn[t].stage = "claimed" /\ UNCHANGED <<rows, spoke>>
        BY <1>1, <1>7, <2>1, <3>1 DEF Preflight, Key
      <3>3. fingerprint(turn[t].profile, login) \in Nat /\ status[Key(t)] \in StatusRows
            /\ Written(status[Key(t)])
        BY <1>1, <1>4, <3>2, FingerprintTyped
      <3>4. row \in TurnRows /\ row.profile = turn[t].profile /\ row.snap = status[Key(t)]
            /\ row.stage = "gathering"
        BY <1>1, <3>1, <3>3 DEF TurnRows
      <3> QED
        BY <1>1, <1>3, <3>2, <3>3, <3>4
    <2>2. CASE ~ContextKept(t)
      BY <1>1, <1>2, <1>7, <2>2 DEF Preflight
    <2> QED
      BY <2>1, <2>2
  <1>8. CASE EvidenceRefused(t)
    <2>1. PICK state \in {"auth_expired", "access_denied"} : record_provider_limit(t, Verdict(state, FALSE), 0)
      BY <1>8 DEF EvidenceRefused
    <2>2. /\ turn[t].stage = "gathering" /\ spoke' = [spoke EXCEPT ![t] = TRUE] /\ To(t, "failed")
          /\ state \in Refusals
      BY <1>8, <2>1 DEF EvidenceRefused, Refusals
    <2>3. Writes(t)
      BY <2>1, <2>2, LimitWrites
    <2>4. \A k \in Keys : Refused(status[k]) => Refused(status'[k])
      BY <1>1, <2>1, <2>2 DEF record_provider_limit, Verdict, Row, Refused, Key, StatusHeld, StatusTyped
    <2> QED
      BY <1>1, <2>2, <2>3, <2>4 DEF To
  <1>9. CASE EvidenceFound(t)
    <2>1. PICK stage \in Stages : To(t, stage) /\ stage \in {"opening", "failed"}
      BY <1>9 DEF EvidenceFound
    <2> QED
      BY <1>1, <1>2, <1>9, <2>1 DEF EvidenceFound
  <1>10. CASE CheckStatus(t)
    <2>1. PICK stage : stage = IF ContextKept(t) /\ Admissible(t) THEN "checked" ELSE "failed"
      OBVIOUS
    <2>2. PICK row : row = [turn[t] EXCEPT !.stage = stage, !.snap = status[Key(t)],
                                           !.context = fingerprint(turn[t].profile, login)]
      OBVIOUS
    <2>3. turn' = [turn EXCEPT ![t] = row] /\ turn[t].stage = "opening" /\ UNCHANGED <<rows, spoke>>
      BY <1>1, <1>10, <2>1, <2>2 DEF CheckStatus, Key
    <2>4. fingerprint(turn[t].profile, login) \in Nat /\ status[Key(t)] \in StatusRows
          /\ Written(status[Key(t)])
      BY <1>1, <1>4, <2>3, FingerprintTyped
    <2>5. /\ row \in TurnRows /\ row.profile = turn[t].profile /\ row.snap = status[Key(t)]
          /\ row.stage = stage /\ row.ignore = turn[t].ignore
      BY <1>1, <2>1, <2>2, <2>4 DEF TurnRows
    <2>6. ASSUME stage = "checked", ~turn[t].ignore PROVE shut[Key(t)] = 0
      <3>1. provider_eligible(turn[t].profile)
        BY <2>1, <2>6 DEF Admissible
      <3>2. status[Key(t)].state \in {"unknown", "ok"} \/ left[Key(t)] = 0
        BY <3>1 DEF provider_eligible, Key
      <3>3. shut[Key(t)] = IF Refused(status[Key(t)]) THEN left[Key(t)] ELSE 0
        BY <1>1, <2>3 DEF StatusHeld, WindowIsRecorded
      <3> QED
        BY <3>2, <3>3 DEF Refused, Refusals
    <2>7. /\ Quietly(t) /\ status' = status /\ turn'[t].stage = stage
          /\ \A u \in Turns : u # t => turn'[u] = turn[u]
      BY <1>1, <1>3, <2>3, <2>4, <2>5, <2>6 DEF Key
    <2> QED
      BY <2>1, <2>7
  <1>14. CASE Prompt(t)
    <2>1. turn[t].stage = "checked" /\ To(t, "prompted") /\ UNCHANGED <<rows, spoke>>
      BY <1>14 DEF Prompt
    <2>2. PICK row : /\ TurnGoes(t, row) /\ row.stage = "prompted"
                     /\ row.profile = turn[t].profile /\ row.snap = turn[t].snap
      BY <2>1, StageGoes
    <2>3. Quietly(t) /\ status' = status
      BY <1>1, <2>1, <2>2 DEF Quietly, rows
    <2>4. ~turn[t].ignore => shut[Account(turn[t].profile)] = 0 \/ late[t]
      BY <2>1, AccountIsKey DEF StatusHeld, CheckedOutside, Key
    <2> QED
      BY <1>1, <2>2, <2>3, <2>4 DEF TurnGoes
  <1>11. CASE \E e \in Errors, after \in Resets : Fails(t, e, after)
    <2>1. PICK e \in Errors, after \in Resets : Fails(t, e, after)
      BY <1>11
    <2>2. PICK verdict : verdict = classify_acp_error(e, turn[t].profile.family)
      OBVIOUS
    <2>3. verdict.state \in Refusals \cup {"none"}
      BY <2>2, ClassifiedIsRefusal
    <2>4. /\ turn[t].stage \in {"opening", "prompted"} /\ To(t, "failed")
          /\ spoke' = [spoke EXCEPT ![t] = ~e.tool] /\ after \in Nat
      BY <2>1, TimesAssumption DEF Fails
    <2>5. (~e.tool) \in BOOLEAN
      OBVIOUS
    <2>6. turn'[t].stage = "failed" /\ \A u \in Turns : u # t => turn'[u] = turn[u]
      BY <1>1, <2>4 DEF To, TurnRows
    <2>7. CASE verdict.state # "none" /\ record_provider_limit(t, verdict, after)
      <3>1. verdict.state \in Refusals
        BY <2>3, <2>7
      <3>2. Writes(t)
        BY <2>4, <2>5, <2>7, <3>1, LimitWrites DEF record_provider_limit, Verdict
      <3>3. \A k \in Keys : Refused(status[k]) => Refused(status'[k])
        BY <1>1, <2>4, <2>7, <3>1 DEF record_provider_limit, Row, Refused, Key, StatusHeld, StatusTyped
      <3> QED
        BY <2>6, <3>2, <3>3
    <2>8. CASE UNCHANGED rows
      <3>1. PICK row : TurnGoes(t, row) /\ row.stage = "failed"
        BY <2>4, StageGoes
      <3>2. spoke' \in [Turns -> BOOLEAN]
        BY <1>1, <2>4, <2>5
      <3>3. Quietly(t)
        BY <2>8, <3>1, <3>2 DEF Quietly
      <3>4. status' = status
        BY <2>8 DEF rows
      <3> QED
        BY <2>6, <3>3, <3>4
    <2> QED
      BY <2>1, <2>2, <2>7, <2>8 DEF Fails
  <1>12. CASE Succeeds(t)
    <2>1. turn[t].stage = "prompted" /\ To(t, "done") /\ UNCHANGED <<late, spoke>>
      BY <1>12 DEF Succeeds
    <2>2. turn'[t].stage = "done" /\ \A u \in Turns : u # t => turn'[u] = turn[u]
      BY <1>1, <2>1 DEF To, TurnRows
    <2>3. CASE turn[t].context = fingerprint(turn[t].profile, login)
      <3>1. mark_provider_healthy(t)
        BY <1>12, <2>3 DEF Succeeds
      <3>2. IF Clears(Key(t), turn[t].snap) THEN ~late[t] /\ Writes(t) ELSE Quietly(t)
        BY <2>1, <3>1, HealthyWrites
      <3>3. ~Clears(Key(t), turn[t].snap) => status' = status
        BY <3>1 DEF mark_provider_healthy, Key
      <3> QED
        BY <2>1, <2>2, <2>3, <3>2, <3>3 DEF Answered
    <2>4. CASE turn[t].context # fingerprint(turn[t].profile, login)
      <3>1. UNCHANGED <<rows, spoke>>
        BY <1>12, <2>4 DEF Succeeds, rows
      <3> QED
        BY <1>1, <1>2, <2>1, <3>1
    <2> QED
      BY <2>3, <2>4
  <1>13. CASE Cancelled(t)
    BY <1>1, <1>2, <1>13 DEF Cancelled
  <1> QED
    BY <1>5, <1>6, <1>7, <1>8, <1>9, <1>10, <1>11, <1>12, <1>13, <1>14 DEF TurnStep

(* The clock takes the same from a row and from the window it stands for;  *)
(* nothing else but a turn touches the rows.                               *)
LEMMA OthersKeep ==
    ASSUME StatusHeld, (UNCHANGED <<statusVars, login>>) \/ Relogin \/ Tick
    PROVE  /\ StatusHeld' /\ UNCHANGED <<status, turn>>
  <1>1. CASE UNCHANGED <<statusVars, login>>
    BY <1>1 DEF statusVars, rows, StatusHeld, StatusTyped, RowsWritten, Written, LateSeesAnother, Key,
                WindowIsRecorded, CheckedOutside, Refused
  <1>2. CASE Relogin
    BY <1>2 DEF Relogin, statusVars, rows, StatusHeld, StatusTyped, RowsWritten, Written, LateSeesAnother, Key,
                WindowIsRecorded, CheckedOutside, Refused
  <1>3. CASE Tick
    <2>1. UNCHANGED <<status, turn, late, spoke, login>>
      BY <1>3 DEF Tick
    <2>2. /\ left' = [k \in Keys |-> Less(left[k])] /\ shut' = [k \in Keys |-> Less(shut[k])]
      BY <1>3 DEF Tick, StatusHeld, StatusTyped
    <2>3. left' \in [Keys -> Nat] /\ shut' \in [Keys -> Nat]
      BY <2>2, LessTyped DEF StatusHeld, StatusTyped
    <2>4. Less(0) = 0
      BY DEF Less
    <2>5. WindowIsRecorded'
      <3> SUFFICES ASSUME NEW k \in Keys PROVE shut'[k] = IF Refused(status[k]) THEN left'[k] ELSE 0
        BY <2>1 DEF WindowIsRecorded, Refused
      <3>1. shut[k] = IF Refused(status[k]) THEN left[k] ELSE 0
        BY DEF StatusHeld, WindowIsRecorded
      <3> QED
        BY <2>2, <2>4, <3>1
    <2>6. CheckedOutside'
      BY <2>1, <2>2, <2>4 DEF StatusHeld, StatusTyped, CheckedOutside, Key, Keys
    <2> QED
      BY <2>1, <2>3, <2>5, <2>6 DEF StatusHeld, StatusTyped, RowsWritten, Written, LateSeesAnother, Key,
                              Refused
  <1> QED
    BY <1>1, <1>2, <1>3

(* At the start there is no row and no turn. *)
LEMMA InitStatus == Init => StatusHeld
  <1> SUFFICES ASSUME Init PROVE StatusHeld
    OBVIOUS
  <1>1. NoRow \in StatusRows /\ NoRow.state = "unknown"
    BY DEF NoRow, StatusRows
  <1>2. PICK row : row = [stage |-> "none", profile |-> NoProfile, ignore |-> FALSE, bound |-> 0, context |-> 0,
                          snap |-> NoRow]
    OBVIOUS
  <1>3. row \in TurnRows /\ row.stage = "none" /\ row.snap = NoRow
    BY <1>1, <1>2 DEF TurnRows, Stages
  <1>4. turn = [t \in Turns |-> row]
    BY <1>2 DEF Init
  <1>5. StatusTyped
    BY <1>1, <1>3, <1>4, AccountIsKey DEF Init, StatusTyped
  <1>6. RowsWritten
    BY <1>1, <1>3, <1>4 DEF Init, RowsWritten, Written
  <1>7. LateSeesAnother
    BY DEF Init, LateSeesAnother
  <1>8. WindowIsRecorded /\ CheckedOutside
    BY <1>1, <1>3, <1>4, AccountIsKey DEF Init, WindowIsRecorded, CheckedOutside, Refused, Refusals
  <1> QED
    BY <1>5, <1>6, <1>7, <1>8 DEF StatusHeld

(* Every step keeps the invariant. *)
LEMMA NextStatus ==
    ASSUME StatusHeld, [Next]_vars
    PROVE  StatusHeld'
  <1>1. CASE \E t \in Turns : TurnStep(t) /\ UNCHANGED <<login, nativeVars>>
    BY <1>1, TurnStepShape, QuietKeeps, WriteKeeps
  <1>2. CASE ~\E t \in Turns : TurnStep(t) /\ UNCHANGED <<login, nativeVars>>
    BY <1>2, OthersKeep DEF Next, vars
  <1> QED
    BY <1>1, <1>2

(* A recorded refusal gives way only to a turn that read the status after  *)
(* it and was answered on the login it was prompted on                     *)
(* (mark_provider_healthy, _record_provider_health).                       *)
THEOREM RefusalOutlivesSiblings == Spec => NewerRefusalKept
  <1>1. ASSUME StatusHeld, [Next]_vars
        PROVE  \A k \in Keys : Refused(status[k]) /\ ~Refused(status'[k]) =>
                  \E t \in Turns :
                      /\ turn[t].stage = "prompted" /\ turn'[t].stage = "done"
                      /\ ~late[t] /\ turn[t].context = fingerprint(turn[t].profile, login)
    <2>1. CASE \E t \in Turns : TurnStep(t) /\ UNCHANGED <<login, nativeVars>>
      <3>1. PICK t \in Turns : TurnStep(t) /\ UNCHANGED <<login, nativeVars>>
        BY <2>1
      <3>2. \A k \in Keys : Refused(status[k]) /\ ~Refused(status'[k]) => Answered(t)
        BY <1>1, <3>1, TurnStepShape
      <3> QED
        BY <3>2 DEF Answered
    <2>2. CASE ~\E t \in Turns : TurnStep(t) /\ UNCHANGED <<login, nativeVars>>
      <3>1. status' = status
        BY <1>1, <2>2, OthersKeep DEF Next, vars
      <3> QED
        BY <3>1
    <2> QED
      BY <2>1, <2>2
  <1> QED
    BY <1>1, InitStatus, NextStatus, PTL DEF Spec, NewerRefusalKept

(* No prompt reaches an account in the window of its latest refusal unless *)
(* the caller overrode it or the refusal was recorded after the turn's     *)
(* last check (provider_availability,                                      *)
(* _capture_and_validate_provider_status).                                 *)
THEOREM PromptsKeepOut == Spec => WindowRespected
  <1>1. ASSUME StatusHeld, [Next]_vars
        PROVE  \A t \in Turns :
                  (turn[t].stage # "prompted" /\ turn'[t].stage = "prompted" /\ ~turn[t].ignore)
                      => shut[Account(turn[t].profile)] = 0 \/ late[t]
    <2>1. CASE \E t \in Turns : TurnStep(t) /\ UNCHANGED <<login, nativeVars>>
      <3>1. PICK t \in Turns : TurnStep(t) /\ UNCHANGED <<login, nativeVars>>
        BY <2>1
      <3>2. /\ (turn[t].stage # "prompted" /\ turn'[t].stage = "prompted" /\ ~turn[t].ignore)
                   => shut[Account(turn[t].profile)] = 0 \/ late[t]
            /\ \A u \in Turns : u # t => turn'[u] = turn[u]
        BY <1>1, <3>1, TurnStepShape
      <3> QED
        BY <3>2
    <2>2. CASE ~\E t \in Turns : TurnStep(t) /\ UNCHANGED <<login, nativeVars>>
      <3>1. turn' = turn
        BY <1>1, <2>2, OthersKeep DEF Next, vars
      <3> QED
        BY <3>1
    <2> QED
      BY <2>1, <2>2
  <1> QED
    BY <1>1, InitStatus, NextStatus, PTL DEF Spec, WindowRespected
=============================================================================
