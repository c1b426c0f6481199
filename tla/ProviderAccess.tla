----------------------------- MODULE ProviderAccess -----------------------------
(***************************************************************************)
(* What TaskSpindle believes about a provider's seat, and how turns that   *)
(* share the seat change it (service.py, runner.py, store.py), together    *)
(* with the native diagnostics that processes run on the same login        *)
(* (access_checks.py, grok_checks.py).                                     *)
(*                                                                         *)
(* A status row is known by its state and the turn that wrote it: the      *)
(* code compares whole rows, and a row carries a microsecond time stamp.   *)
(* Times are counted down in ticks.                                        *)
(***************************************************************************)
EXTENDS ProviderEvidence, FiniteSets

CONSTANTS
    Turns,          \* the turns, each of one task
    Profiles,       \* the profiles a turn may run under
    Initial,        \* the turns that are their task's first
    Errors,         \* the errors a turn can end with
    Resets,         \* ticks until the time at which the provider says a limit lifts
    EligibleAfter,  \* _ELIGIBLE_AFTER in ticks
    MaxLogins,      \* bound: times the credentials are replaced
    Checkers,       \* the processes that ask for a native check
    CheckTicks,     \* the budget of a check
    LeaseTicks,     \* the lease of a check
    FreshTicks      \* NATIVE_TTL_S in ticks

Keys == {status_key(p) : p \in Profiles}

(* A check ends within its budget, which is shorter than its lease.        *)
TimesOrdered == CheckTicks < LeaseTicks /\ EligibleAfter > 0 /\ FreshTicks > 0

ASSUME TimesAssumption ==
    /\ Resets \subseteq Nat /\ {EligibleAfter, MaxLogins, CheckTicks, LeaseTicks, FreshTicks} \subseteq Nat
    /\ Initial \subseteq Turns
    /\ TimesOrdered

VARIABLES
    status,     \* provider_status: the row of each key, or NoRow
    left,       \* ticks until the row's eligible_at
    login,      \* which credential file the environment selects
    turn,       \* each turn's stage and what its _Run holds
    native,     \* native_checks: the row of the seat that is checked, or NoNative
    check,      \* each process's refresh_native_check call
    late,       \* history: a refusal of the turn's account was recorded after its last check
    spoke,      \* history: the turn's failure was the provider's, not a tool's output
    shut        \* history: ticks left in the window of the account's latest refusal

rows == <<status, left, late, shut>>
statusVars == <<rows, turn, spoke>>
nativeVars == <<native, check>>
vars == <<statusVars, login, nativeVars>>

NoProfile == [id |-> "none", family |-> "none", auth |-> "none"]
NoRow == [state |-> "unknown", by |-> "none"]
Row(state, t) == [state |-> state, by |-> t]
NoResult == [state |-> "not_checked", saw |-> 0]
Idle == [stage |-> "idle", fp |-> 0, result |-> NoResult, age |-> 0]
NoNative == [fp |-> 0, owner |-> "none", lease |-> 0, age |-> FreshTicks,
             result |-> NoResult, success |-> NoResult]

-----------------------------------------------------------------------------
(* Eligibility *)

(* Faulty variant: a refusal without a reset time has no end.              *)
WindowOpenEnded(reset, after) == IF reset THEN after ELSE -1

(* Ticks from a refusal to its eligible_at.                                *)
Window(reset, after) == IF reset THEN after ELSE EligibleAfter

provider_eligible(p) ==
    LET k == status_key(p)
    IN status[k].state \in {"unknown", "ok"} \/ left[k] = 0

ContextKept(t) == t \notin Initial \/ turn[t].bound = fingerprint(turn[t].profile, login)

Admissible(t) == turn[t].ignore \/ provider_eligible(turn[t].profile)

To(t, stage) == turn' = [turn EXCEPT ![t].stage = stage]

-----------------------------------------------------------------------------
(* What a turn writes *)

(* The account behind a key; validate_contexts makes the keys and the      *)
(* accounts agree for OAuth profiles, a key of one's own is an account.    *)
Account(p) == IF p.auth = "oauth" THEN p.family ELSE p.id

SameAccount(t, u) == Account(turn[t].profile) = Account(turn[u].profile)

record_provider_limit(t, verdict, after) ==
    LET k == status_key(turn[t].profile)
    IN /\ status' = [status EXCEPT ![k] = Row(verdict.state, t)]
       /\ left' = [left EXCEPT ![k] = Window(verdict.reset, after)]
       /\ late' = [u \in Turns |-> late[u] \/ (turn[u].stage \in {"checked", "prompted"} /\ SameAccount(u, t))]
       /\ shut' = [shut EXCEPT ![Account(turn[t].profile)] = IF verdict.reset THEN after ELSE EligibleAfter]

(* Faulty variant: any success clears what is recorded.                    *)
ClearsAlways(k, expected) == TRUE

(* The row is the one that was read in the check before the prompt.        *)
Clears(k, expected) == status[k] \in {NoRow, expected}

mark_provider_healthy(t) ==
    LET k == status_key(turn[t].profile)
    IN IF Clears(k, turn[t].snap)
       THEN /\ status' = [status EXCEPT ![k] = Row("ok", t)]
            /\ left' = [left EXCEPT ![k] = 0]
            /\ shut' = [shut EXCEPT ![Account(turn[t].profile)] = IF late[t] THEN @ ELSE 0]
       ELSE UNCHANGED <<status, left, shut>>

-----------------------------------------------------------------------------
(* A turn *)

(* start_task, whose admission needs an eligible provider or the caller's  *)
(* override; a continuation is queued whatever the provider's state.       *)
Submit(t, p, ignore) ==
    /\ turn[t].stage = "none"
    /\ t \notin Initial \/ ignore \/ provider_eligible(p)
    /\ turn' = [turn EXCEPT ![t] = [@ EXCEPT !.stage = "queued", !.profile = p, !.ignore = ignore,
                                             !.bound = fingerprint(p, login)]]
    /\ UNCHANGED <<rows, spoke>>

(* _start_worker_admitted: the task waits in the queue while its provider  *)
(* is not eligible, and fails when the login was replaced.                 *)
Dispatch(t) ==
    /\ turn[t].stage = "queued"
    /\ \/ ~ContextKept(t) /\ To(t, "failed")
       \/ ContextKept(t) /\ Admissible(t) /\ To(t, "claimed")
    /\ UNCHANGED <<rows, spoke>>

(* _run_turn up to the evidence: the login is compared again, and both it  *)
(* and the status are remembered.                                          *)
Preflight(t) ==
    /\ turn[t].stage = "claimed"
    /\ IF ContextKept(t)
       THEN turn' = [turn EXCEPT ![t] = [@ EXCEPT !.stage = "gathering",
                                                  !.snap = status[status_key(turn[t].profile)],
                                                  !.context = fingerprint(turn[t].profile, login)]]
       ELSE To(t, "failed")
    /\ UNCHANGED <<rows, spoke>>

(* _pre_spawn_evidence: only Claude's OAuth seat is asked before the agent *)
(* starts, and a refusal is recorded.                                      *)
EvidenceRefused(t) ==
    /\ turn[t].stage = "gathering"
    /\ turn[t].profile.family = "claude" /\ turn[t].profile.auth = "oauth"
    /\ \E state \in {"auth_expired", "access_denied"} : record_provider_limit(t, Verdict(state, FALSE), 0)
    /\ spoke' = [spoke EXCEPT ![t] = TRUE]
    /\ To(t, "failed")

EvidenceFound(t) ==
    /\ turn[t].stage = "gathering"
    /\ To(t, IF ContextKept(t) THEN "opening" ELSE "failed")
    /\ UNCHANGED <<rows, spoke>>

(* The turn fails with an error before its prompt or while it is under     *)
(* way.  Before the prompt a replaced login hides what the error says.     *)
Fails(t, e, after) ==
    /\ turn[t].stage \in {"opening", "prompted"}
    /\ LET verdict == classify_acp_error(e, turn[t].profile.family)
       IN IF verdict.state # "none" /\ (turn[t].stage = "prompted" \/ ContextKept(t))
          THEN record_provider_limit(t, verdict, after)
          ELSE UNCHANGED rows
    /\ spoke' = [spoke EXCEPT ![t] = ~e.tool]
    /\ To(t, "failed")

(* _capture_and_validate_provider_status, one transaction: the last look at *)
(* the login and the status before the prompt.                              *)
CheckStatus(t) ==
    /\ turn[t].stage = "opening"
    /\ turn' = [turn EXCEPT ![t] = [@ EXCEPT
                    !.stage = IF ContextKept(t) /\ Admissible(t) THEN "checked" ELSE "failed",
                    !.snap = status[status_key(turn[t].profile)],
                    !.context = fingerprint(turn[t].profile, login)]]
    /\ UNCHANGED <<rows, spoke>>

(* The prompt goes out.  Other workers record what they learn meanwhile.    *)
Prompt(t) ==
    /\ turn[t].stage = "checked"
    /\ To(t, "prompted")
    /\ UNCHANGED <<rows, spoke>>

(* _record_provider_health: the login that answered must be the one that   *)
(* was prompted.                                                           *)
Succeeds(t) ==
    /\ turn[t].stage = "prompted"
    /\ IF turn[t].context = fingerprint(turn[t].profile, login)
       THEN mark_provider_healthy(t)
       ELSE UNCHANGED <<status, left, shut>>
    /\ To(t, "done")
    /\ UNCHANGED <<late, spoke>>

(* A cancelled turn proves nothing about the provider.                     *)
Cancelled(t) ==
    /\ turn[t].stage = "prompted"
    /\ To(t, "done")
    /\ UNCHANGED <<rows, spoke>>

-----------------------------------------------------------------------------
(* Native checks *)

Checking == {c \in Checkers : check[c].stage \in {"checking", "checked"}}

(* refresh_native_check fixes the fingerprint before it tries to claim.    *)
AskCheck(c) ==
    /\ check[c].stage = "idle"
    /\ check' = [check EXCEPT ![c] = [@ EXCEPT !.stage = "waiting", !.fp = login]]
    /\ UNCHANGED native

CheckUnclaimed(fp) == native.owner = "none" \/ native.lease = 0

CheckStale(fp) == native.fp # fp \/ native.age >= FreshTicks \/ native.result = NoResult

claim_native_check(c) ==
    /\ check[c].stage = "waiting"
    /\ CheckUnclaimed(check[c].fp) /\ CheckStale(check[c].fp)
    /\ native' = [IF native.fp = check[c].fp THEN native ELSE [NoNative EXCEPT !.fp = check[c].fp]
                    EXCEPT !.owner = c, !.lease = LeaseTicks]
    /\ check' = [check EXCEPT ![c].stage = "checking", ![c].age = 0]

(* The call returns what is cached: the result is fresh, the check of      *)
(* another is not visible under this login, or the wait timed out.         *)
GiveUpCheck(c) ==
    /\ check[c].stage = "waiting"
    /\ ~(CheckUnclaimed(check[c].fp) /\ CheckStale(check[c].fp))
    /\ check' = [check EXCEPT ![c] = Idle]
    /\ UNCHANGED native

(* What Grok can answer to a check: its version, the methods it offers,    *)
(* the billing reply, and whether its process group could be stopped.      *)
GrokReplies == [version: BOOLEAN, cached: BOOLEAN, cleaned: BOOLEAN,
                billing: {"quota", "method", "auth", "schema", "failed"}]

check_grok(r) ==
    CASE ~r.cleaned \/ ~r.version -> "check_failed"
      [] r.cleaned /\ r.version /\ ~r.cached -> "auth_required"
      [] OTHER -> CASE r.billing = "quota" -> "quota"
                    [] r.billing = "auth" -> "auth_required"
                    [] r.billing \in {"method", "schema"} -> "unsupported"
                    [] OTHER -> "check_failed"

Successes == {"quota", "cached_auth", "catalog_access"}

(* check_native_access: the CLI looks at the login that is there when it   *)
(* runs.                                                                   *)
RunCheck(c) ==
    /\ check[c].stage = "checking"
    /\ \E r \in GrokReplies :
          check' = [check EXCEPT ![c] = [@ EXCEPT !.stage = "checked",
                                                  !.result = [state |-> check_grok(r), saw |-> login]]]
    /\ UNCHANGED native

(* Faulty variant: the result is stored whoever holds the row by now.      *)
FinishMatchesAny(c) == TRUE

FinishMatches(c) == native.fp = check[c].fp /\ native.owner = c

finish_native_check(c) ==
    /\ check[c].stage = "checked"
    /\ native' = IF FinishMatches(c)
                 THEN [native EXCEPT !.age = 0, !.result = check[c].result, !.owner = "none", !.lease = 0,
                                     !.success = IF check[c].result.state \in Successes
                                                 THEN check[c].result ELSE @]
                 ELSE native
    /\ check' = [check EXCEPT ![c] = Idle]

(* What a reader is shown: nothing that was stored under another login.    *)
cached_native_check ==
    IF native.fp = login
    THEN [result |-> native.result, success |-> native.success,
          fresh |-> native.age < FreshTicks, checking |-> native.owner # "none" /\ native.lease > 0]
    ELSE [result |-> NoResult, success |-> NoResult, fresh |-> FALSE, checking |-> FALSE]

(* The process dies; the lease it holds runs out.                          *)
CheckerDies(c) ==
    /\ check[c].stage \in {"checking", "checked"}
    /\ check' = [check EXCEPT ![c] = Idle]
    /\ UNCHANGED native

-----------------------------------------------------------------------------
Relogin ==
    /\ login <= MaxLogins
    /\ login' = login + 1
    /\ UNCHANGED <<statusVars, nativeVars>>

Less(n) == IF n <= 0 THEN n ELSE n - 1

(* Time passes.  A check keeps to its budget by the monotonic clock; the   *)
(* wall clock, which ends leases, also runs while the host is suspended.   *)
Tick ==
    /\ left' = [k \in Keys |-> Less(left[k])]
    /\ shut' = [a \in DOMAIN shut |-> Less(shut[a])]
    /\ native' = [native EXCEPT !.lease = Less(@), !.age = IF @ < FreshTicks THEN @ + 1 ELSE @]
    /\ check' = [c \in Checkers |-> [check[c] EXCEPT !.age = IF c \in Checking /\ @ < LeaseTicks THEN @ + 1 ELSE @]]
    /\ UNCHANGED <<status, turn, late, spoke, login>>

TurnStep(t) ==
    \/ \E p \in Profiles, ignore \in BOOLEAN : Submit(t, p, ignore)
    \/ Dispatch(t) \/ Preflight(t) \/ EvidenceRefused(t) \/ EvidenceFound(t) \/ CheckStatus(t) \/ Prompt(t)
    \/ \E e \in Errors, after \in Resets : Fails(t, e, after)
    \/ Succeeds(t) \/ Cancelled(t)

CheckStep(c) ==
    \/ AskCheck(c) \/ claim_native_check(c) \/ GiveUpCheck(c)
    \/ RunCheck(c) \/ finish_native_check(c) \/ CheckerDies(c)

Init ==
    /\ status = [k \in Keys |-> NoRow]
    /\ left = [k \in Keys |-> 0]
    /\ login = 1
    /\ turn = [t \in Turns |-> [stage |-> "none", profile |-> NoProfile, ignore |-> FALSE, bound |-> 0, context |-> 0,
                                snap |-> NoRow]]
    /\ native = NoNative
    /\ check = [c \in Checkers |-> Idle]
    /\ late = [t \in Turns |-> FALSE]
    /\ spoke = [t \in Turns |-> FALSE]
    /\ shut = [a \in {Account(p) : p \in Profiles} |-> 0]

Next ==
    \/ \E t \in Turns : TurnStep(t) /\ UNCHANGED <<login, nativeVars>>
    \/ \E c \in Checkers : CheckStep(c) /\ UNCHANGED <<statusVars, login>>
    \/ Relogin
    \/ Tick

Spec == Init /\ [][Next]_vars

(* The drain loop keeps trying the queue, and time passes.                 *)
Fairness ==
    /\ WF_vars(Tick)
    /\ \A t \in Turns : WF_vars(Dispatch(t) /\ UNCHANGED <<login, nativeVars>>)

FairSpec == Spec /\ Fairness

-----------------------------------------------------------------------------
(* Properties *)

Refused(row) == row.state \in Refusals

(* A recorded refusal gives way only to a turn that read the status after   *)
(* it was recorded and was answered by the login that was prompted: the     *)
(* success of a sibling that had passed its check leaves it                 *)
(* (mark_provider_healthy, _record_provider_health).                        *)
NewerRefusalKept ==
    [][\A k \in Keys : Refused(status[k]) /\ ~Refused(status'[k]) =>
        \E t \in Turns :
            /\ turn[t].stage = "prompted" /\ turn'[t].stage = "done"
            /\ ~late[t] /\ turn[t].context = fingerprint(turn[t].profile, login)]_vars

(* No prompt reaches an account in the window of its latest refusal unless  *)
(* the caller overrode it or the refusal was recorded after the last check  *)
(* before the prompt, whichever of the account's profiles and processes     *)
(* recorded it, and however long after admission (provider_availability,    *)
(* _capture_and_validate_provider_status).                                  *)
WindowRespected ==
    [][\A t \in Turns :
        (turn[t].stage # "prompted" /\ turn'[t].stage = "prompted" /\ ~turn[t].ignore)
            => shut[Account(turn[t].profile)] = 0 \/ late[t]]_vars

(* What docs/architecture.md says of the evidence: tool output does not     *)
(* change account state (classify_acp_error).                               *)
ToolOutputIgnored == \A k \in Keys : Refused(status[k]) => spoke[status[k].by]

(* A task that waits for its provider leaves the queue: every refusal has  *)
(* an end, also one that names no reset time (provider_availability).      *)
HeldTurnsRun == \A t \in Turns : (turn[t].stage = "queued") ~> (turn[t].stage # "queued")

(* A cached result that is shown was seen on the login that is current: a  *)
(* check that outlived its login or its lease cannot attach what it saw to *)
(* another (finish_native_check, cached_native_check).                     *)
ShownIsCurrentLogin ==
    /\ cached_native_check.result.saw \in {0, login}
    /\ cached_native_check.success.saw \in {0, login}
=============================================================================
