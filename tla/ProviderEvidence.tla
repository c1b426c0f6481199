---------------------------- MODULE ProviderEvidence ----------------------------
(***************************************************************************)
(* What a failed turn says about the provider's seat (limits.py, and the   *)
(* retry summary of acp_client.py).                                        *)
(*                                                                         *)
(* An error carries evidence of several kinds: the JSON-RPC code, the      *)
(* SDK's error kind, the text of the message, the last retry notification  *)
(* and, for the native adapters, their own normalised code.  The text of   *)
(* a message is abstracted to what the patterns look for in it.            *)
(***************************************************************************)
EXTENDS Integers

HttpStatuses == {401, 402, 403, 429}
Refusals == {"auth_expired", "throttled", "access_denied", "model_unavailable"}

(* A retry notification as the agent sends it, or its stored summary.      *)
(* `says` is the status and `owes` the credit phrase found in the message; *)
(* a summary keeps neither.                                                *)
Notification(origin, type, kind, api, limited, state, status, credit, says, owes) ==
    [origin |-> origin, type |-> type, kind |-> kind, api |-> api, limited |-> limited,
     state |-> state, status |-> status, credit |-> credit, says |-> says, owes |-> owes]

NoRetry == Notification(FALSE, "none", "none", FALSE, FALSE, "none", 0, FALSE, 0, FALSE)

(* Only the observer of the xAI channel, or a summary that it made         *)
(* earlier, establishes that the provider's own transport is speaking.     *)
ProvenOrigin(u, xai, trusted) == xai \/ (trusted /\ u.origin)

safe_retry_summary(u, xai, trusted) ==
    LET proven == ProvenOrigin(u, xai, trusted)
        terminal == proven /\ u.type = "failed" /\ u.api
        credit == (terminal /\ u.owes) \/ (proven /\ trusted /\ u.credit)
        fixed == IF (u.kind = "http" \/ proven) /\ u.status \in HttpStatuses THEN u.status ELSE 0
        kept == IF proven /\ u.type = "exhausted" /\ (u.limited \/ u.state = "throttled")
                THEN "throttled"
                ELSE IF proven /\ trusted /\ u.state \in {"throttled", "access_denied"}
                     THEN u.state ELSE "none"
    IN [NoRetry EXCEPT
            !.origin = proven, !.type = u.type, !.kind = u.kind, !.api = u.api,
            !.credit = credit,
            !.status = IF terminal /\ u.says # 0 THEN u.says ELSE fixed,
            !.state = IF terminal /\ u.says = 403 /\ credit THEN "access_denied" ELSE kept]

(* A Classification: the state it gives the provider, or "none", and       *)
(* whether it names the time at which the limit lifts.                     *)
Verdict(state, reset) == [state |-> state, reset |-> reset]
Nothing == Verdict("none", FALSE)

muse_classification(e) ==
    IF e.code = "PROVIDER_AUTH_EXPIRED" /\ e.authRequired THEN Verdict("auth_expired", FALSE) ELSE Nothing

NativeStates == [PROVIDER_AUTH_EXPIRED |-> "auth_expired", PROVIDER_THROTTLED |-> "throttled",
                 PROVIDER_ACCESS_DENIED |-> "access_denied", MODEL_UNAVAILABLE |-> "model_unavailable"]

KindStates == [authentication_failed |-> "auth_expired", oauth_org_not_allowed |-> "auth_expired",
               billing_error |-> "access_denied", model_unavailable |-> "model_unavailable"]

RetryCodes == {"TURN_TIMEOUT", "ACP_TURN_ERROR"}

grok_retry_classification(e, retry) ==
    IF e.code \in RetryCodes /\ retry.origin THEN Verdict(retry.state, FALSE) ELSE Nothing

grok_http_status(e, retry) ==
    IF e.code \in RetryCodes /\ retry.origin /\ retry.status \in HttpStatuses THEN retry.status
    ELSE e.status

grok_credit_evidence(e, retry) ==
    retry.origin /\ retry.type = "failed" /\ (retry.credit \/ e.owes)

grok_status_classification(status, e, retry) ==
    CASE status = 401 -> Verdict("auth_expired", FALSE)
      [] status = 429 -> Verdict("throttled", e.reset)
      [] status = 402 -> Verdict("access_denied", FALSE)
      [] status = 403 /\ grok_credit_evidence(e, retry) -> Verdict("access_denied", FALSE)
      [] OTHER -> Nothing

grok_classification(e) ==
    LET observed == safe_retry_summary(e.notice, e.xai, FALSE)
        retry == safe_retry_summary(observed, FALSE, TRUE)
        first == grok_retry_classification(e, retry)
    IN IF first # Nothing THEN first
       ELSE grok_status_classification(grok_http_status(e, retry), e, retry)

(* The fixed order of evidence.  `e.native` says that the native adapter   *)
(* normalised the error, `e.notice` is the last retry notification and     *)
(* `e.xai` whether it came on the provider's own channel.  `e.tool`, which  *)
(* the code does not know, says that the words are those of a tool.         *)
classify_acp_error(e, family) ==
    IF family = "muse" THEN muse_classification(e)
    ELSE IF family = "agy" /\ e.native /\ e.code \in DOMAIN NativeStates
    THEN Verdict(NativeStates[e.code], FALSE)
    ELSE IF e.rpc = -32000 THEN Verdict("auth_expired", FALSE)
    ELSE IF e.kind \in DOMAIN KindStates THEN Verdict(KindStates[e.kind], FALSE)
    ELSE IF e.kind = "rate_limit" \/ e.limitText THEN Verdict("throttled", e.reset)
    ELSE IF family = "grok" THEN grok_classification(e)
    ELSE Nothing

(* The provider row under which a profile's limits are recorded.  Faulty   *)
(* variant: every profile has a row of its own.                            *)
status_key_by_id(p) == p.id
status_key(p) == IF p.auth = "oauth" THEN p.family ELSE p.id

(* The identity of a login is the file that the family's credentials are   *)
(* read from; a refresh of the token in place keeps it.  Other families    *)
(* have no such file.                                                      *)
fingerprint(p, login) == IF p.family \in {"claude", "grok", "agy"} THEN login ELSE 0
=============================================================================
