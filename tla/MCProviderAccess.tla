---------------------------- MODULE MCProviderAccess ----------------------------
(***************************************************************************)
(* Two profiles of one Grok login and one of Claude's.  Turns and checks   *)
(* share the login and the clock only, so that each side is explored with  *)
(* the other at rest.                                                      *)
(***************************************************************************)
EXTENDS ProviderAccess

CONSTANTS t1, t2, c1, c2

VARIABLE side   \* the side that moves: "turns" or "checks"

P(id, family, auth) == [id |-> id, family |-> family, auth |-> auth]
MCProfiles == {P("grok", "grok", "oauth"), P("grok-fast", "grok", "oauth"), P("claude", "claude", "oauth")}

Plain == [code |-> "ACP_TURN_ERROR", rpc |-> 0, kind |-> "none", limitText |-> FALSE,
          native |-> FALSE, authRequired |-> FALSE, status |-> 0, owes |-> FALSE,
          reset |-> FALSE, notice |-> NoRetry, xai |-> FALSE,
          tool |-> FALSE]

(* A terminal notification of the xAI channel, and the same made up by an  *)
(* ordinary session update; a tool's failure; a limit that names its end.  *)
Exhausted == Notification(TRUE, "exhausted", "none", FALSE, TRUE, "throttled", 0, FALSE, 0, FALSE)
OutOfCredit == Notification(FALSE, "failed", "none", TRUE, FALSE, "none", 0, FALSE, 403, TRUE)
MCErrors == {
    Plain,
    [Plain EXCEPT !.notice = Exhausted],
    [Plain EXCEPT !.notice = Exhausted, !.xai = TRUE],
    [Plain EXCEPT !.notice = OutOfCredit, !.xai = TRUE],
    [Plain EXCEPT !.status = 403, !.owes = TRUE, !.tool = TRUE],
    [Plain EXCEPT !.status = 429, !.reset = TRUE],
    [Plain EXCEPT !.kind = "rate_limit", !.reset = TRUE]}

(* A failure whose text quotes a tool: the words of a usage limit.         *)
MCToolErrors == {Plain, [Plain EXCEPT !.limitText = TRUE, !.tool = TRUE]}

Sides ==
    /\ side' = side
    /\ side = "turns" => UNCHANGED check
    /\ side = "checks" => UNCHANGED turn

MCVars == <<vars, side>>
MCInit == Init /\ side \in {"turns", "checks"}
MCSpec == MCInit /\ [][Next /\ Sides]_MCVars
MCFairSpec == MCSpec /\ Fairness
=============================================================================
