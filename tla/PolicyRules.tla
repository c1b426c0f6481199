------------------------------ MODULE PolicyRules ------------------------------
(***************************************************************************)
(* The dispatch policy's rules as operators (policy.py): a provider's      *)
(* share deficit, the ladder level it puts the provider on, the selection  *)
(* a task gets from its role at that level, and the enforced budget.       *)
(*                                                                         *)
(* A document keeps what the rules read: the turn budget of the steered    *)
(* provider, the table of selections and ladders by role, and whether      *)
(* escalation is on.                                                       *)
(* Points are hundredths of a percentage point, as deficit_points is       *)
(* rounded.                                                                *)
(***************************************************************************)
EXTENDS Integers, Sequences, FiniteSets, FiniteSetsExt

CONSTANTS
    Providers,
    Steered,     \* the built-in subscription profile that roles select for
    Target,      \* provider -> target_share
    StepUp,      \* escalation.step_up_points
    Release,     \* escalation.release_points
    MinTurns,    \* escalation.min_turns
    Hold,        \* budget_hold_ratio, in percent
    Down,        \* budget_down_ratio, in percent
    WindowHold,  \* window_hold_percent
    WindowDown,  \* window_down_percent
    NoEffort,    \* models_without_effort of the steered provider
    Efforts      \* advertised_efforts of the steered provider

\* What the Escalation validator requires of a document.
EscalationOrdered ==
    /\ StepUp \in Seq(1..100) /\ Len(StepUp) >= 1
    /\ \A j, k \in 1..Len(StepUp) : j < k => StepUp[j] < StepUp[k]
    /\ Release \in Nat /\ Release < StepUp[1]
    /\ Hold \in 1..100 /\ Down \in Hold..100
    /\ WindowHold \in 1..100 /\ WindowDown \in WindowHold..100
    /\ MinTurns \in Nat

ASSUME EscalationAssumption == EscalationOrdered

Sum(f) == FoldSet(LAMBDA p, s : f[p] + s, 0, Providers)

\* What validate requires of the providers' target shares.
TargetsFit ==
    /\ IsFiniteSet(Providers) /\ Steered \in Providers
    /\ Target \in [Providers -> 0..100]
    /\ Sum(Target) \in 1..100

ASSUME TargetsAssumption == TargetsFit

Unset == "unset"
Nothing == [model |-> Unset, effort |-> Unset]
NoLevel == 99           \* ladder_level is NULL
NoBrake == Len(StepUp)  \* above every level a brake could cap

--------------------------------------------------------------------------------
(* The share deficit.                                                      *)

\* The quotient rounded to the nearest integer.
Rounded(n, d) == (2 * n + d) \div (2 * d)

\* 100 * (target_norm - share) points, where no turns at all is a share of zero.
Deficit(p, used) ==
    LET goal == Sum(Target)
        all  == Sum(used)
    IN  IF all = 0 THEN Rounded(10000 * Target[p], goal)
                   ELSE Rounded(10000 * (Target[p] * all - used[p] * goal), goal * all)

--------------------------------------------------------------------------------
(* The ladder level.                                                       *)

\* Rising needs the threshold itself; a held level needs Release points less.
Magnitude(distance, held) ==
    LET rising  == {k \in 1..Len(StepUp) : distance >= 100 * StepUp[k]}
        holding == {k \in 1..Len(StepUp) : k <= held
                                           /\ distance >= 100 * (StepUp[k] - Release)}
    IN  Max({Cardinality(rising)} \cup holding)

AtLeast(a, b) == IF a > b THEN a ELSE b
AtMost(a, b) == IF a < b THEN a ELSE b

ShareLevel(points, sample, previous) ==
    CASE sample < MinTurns -> 0
      [] sample >= MinTurns /\ points > 0 -> Magnitude(points, AtLeast(previous, 0))
      [] sample >= MinTurns /\ points < 0 -> -Magnitude(-points, AtLeast(-previous, 0))
      [] OTHER -> 0

(* Faulty variant: only a budget over the down ratio brakes. *)
BudgetBrakeLate(used, limit) ==
    IF limit # 0 /\ 100 * used >= Down * limit THEN -1 ELSE NoBrake

\* limit is 0 when the document has no budget for the provider.
BudgetBrake(used, limit) ==
    CASE limit # 0 /\ 100 * used >= Down * limit -> -1
      [] limit # 0 /\ 100 * used >= Hold * limit /\ 100 * used < Down * limit -> 0
      [] OTHER -> NoBrake

\* The fullest usage window the provider reported that is neither resolved nor reset.
WindowPercent(rows) == Max({0} \cup {r.used : r \in {x \in rows : x.current}})

\* The cap that the provider's availability and its reported windows put on the level.
ReportedBrake(report) ==
    CASE WindowPercent(report.windows) >= WindowDown -> -1
      [] WindowPercent(report.windows) < WindowDown
         /\ (WindowPercent(report.windows) >= WindowHold \/ ~report.available) -> 0
      [] OTHER -> NoBrake

EscalationLevel(doc, p, used, previous, report) ==
    IF ~doc.escalate \/ p # Steered
    THEN 0
    ELSE AtMost(ShareLevel(Deficit(p, used), Sum(used), previous),
                AtMost(ReportedBrake(report), BudgetBrake(used[p], doc.budget.turns)))

--------------------------------------------------------------------------------
(* The selection a task runs with.                                         *)

\* The selection level steps from the role's base, and the step reached.
StepSelection(entry, level) ==
    LET up   == AtMost(level, Len(entry.above))
        down == AtMost(-level, Len(entry.below))
    IN  CASE level > 0 /\ up > 0   -> [sel |-> entry.above[up], reached |-> up]
          [] level < 0 /\ down > 0 -> [sel |-> entry.below[down], reached |-> -down]
          [] OTHER                 -> [sel |-> entry.base, reached |-> 0]

\* _check_selection for a profile with a catalog.
ValidPair(sel) ==
    /\ sel.effort \in Efforts \cup {Unset}
    /\ ~(sel.effort # Unset /\ sel.model \in NoEffort)

Kept(asked) == [sel |-> asked, reached |-> NoLevel]

\* What the caller left out is filled from the role's step, when that can be done cleanly.
ResolveSelection(doc, req, level) ==
    IF req.role \notin DOMAIN doc.table \/ req.provider # Steered
       \/ (req.asked.model # Unset /\ req.asked.effort # Unset)
    THEN Kept(req.asked)
    ELSE LET step   == StepSelection(doc.table[req.role], level)
             filled == CASE req.asked = Nothing ->
                              step.sel
                         [] req.asked.model # Unset ->
                              IF step.sel.model = req.asked.model
                              THEN step.sel ELSE req.asked
                         [] OTHER ->
                              IF step.sel.model \in {Unset} \cup NoEffort
                              THEN req.asked ELSE [step.sel EXCEPT !.effort = req.asked.effort]
         IN  IF filled = req.asked \/ ~ValidPair(filled)
             THEN Kept(req.asked)
             ELSE [sel |-> filled, reached |-> step.reached]

--------------------------------------------------------------------------------
(* Budgets.                                                                *)

(* Faulty variant: a budget is exhausted only once it was exceeded. *)
RefusedAbove(doc, p, used) ==
    p = Steered /\ doc.budget.enforce /\ doc.budget.turns # 0 /\ used[p] > doc.budget.turns

\* admission_refusal: an enforced budget that is exhausted.
Refused(doc, p, used) ==
    p = Steered /\ doc.budget.enforce /\ doc.budget.turns # 0 /\ used[p] >= doc.budget.turns
================================================================================
