--------------------------- MODULE CircuitBreaker ---------------------------
(***************************************************************************)
(* The portfolio circuit breaker of risk-mgmt, as operators on a breaker   *)
(* record.  Drawdown and daily loss are magnitudes in whole percent (the   *)
(* code takes abs() of both); a session is a positive day number and 0 is  *)
(* Python's None.                                                          *)
(***************************************************************************)
EXTENDS Integers

CONSTANTS
  DrawdownWarn,      \* DRAWDOWN_WARN_PCT
  DailyLossHalt,     \* DAILY_LOSS_HALT_PCT
  DrawdownFlatten    \* DRAWDOWN_FLATTEN_PCT

ASSUME ThresholdsAssumption ==
  /\ DrawdownWarn \in Nat
  /\ DailyLossHalt \in Nat
  /\ DrawdownFlatten \in Nat \ {0}   \* a book without drawdown is not in breach

Levels == {"NONE", "YELLOW", "RED", "BLACK"}
NoSession == 0

Latches  == [latched : BOOLEAN, halted : Nat]
Breakers == [level : Levels, latched : BOOLEAN, halted : Nat]

FreshBreaker == [level |-> "NONE", latched |-> FALSE, halted |-> NoSession]

IsTrippedOnBlackOnly(b) == b.level = "BLACK"   \* a mutant of IsTripped
IsTripped(b) == b.level \in {"RED", "BLACK"}

\* The worst standing rule wins: a latch, then a halted session, then the metric.
LevelOf(latched, halted, dd, today) ==
  CASE latched                                        -> "BLACK"
    [] ~latched /\ halted = today                     -> "RED"
    [] ~latched /\ halted # today /\ dd >= DrawdownWarn -> "YELLOW"
    [] OTHER                                          -> "NONE"

\* Mutants of Evaluate: RED follows the metric, BLACK follows the metric, and a
\* breach exactly at the flatten threshold does not latch.
EvaluateRedByMetric(b, dd, loss, today) ==
  LET latched == b.latched \/ dd >= DrawdownFlatten
      halted  == IF loss >= DailyLossHalt THEN today ELSE NoSession
  IN  [level |-> LevelOf(latched, halted, dd, today), latched |-> latched, halted |-> halted]

EvaluateBlackByMetric(b, dd, loss, today) ==
  LET latched == dd >= DrawdownFlatten
      halted  == IF loss >= DailyLossHalt THEN today ELSE b.halted
  IN  [level |-> LevelOf(latched, halted, dd, today), latched |-> latched, halted |-> halted]

EvaluateStrictly(b, dd, loss, today) ==
  LET latched == b.latched \/ dd > DrawdownFlatten
      halted  == IF loss >= DailyLossHalt THEN today ELSE b.halted
  IN  [level |-> LevelOf(latched, halted, dd, today), latched |-> latched, halted |-> halted]

Evaluate(b, dd, loss, today) ==
  LET latched == b.latched \/ dd >= DrawdownFlatten
      halted  == IF loss >= DailyLossHalt THEN today ELSE b.halted
  IN  [level   |-> LevelOf(latched, halted, dd, today),
       latched |-> latched,
       halted  |-> halted]

\* A human reset is refused when nothing is latched or the breach still stands.
ResetAccepted(b, dd) == b.latched /\ dd < DrawdownFlatten

Reset(b, dd, loss, today) ==
  Evaluate([b EXCEPT !.latched = FALSE], dd, loss, today)

\* snapshot() keeps the sticky part only; restore() leaves the level to evaluate().
Latch(b) == [latched |-> b.latched, halted |-> b.halted]

\* Mutants of RestoreLatch: the halted session, or everything, is not restored.
RestoreBlackOnly(b, s) == [b EXCEPT !.latched = s.latched]
RestoreNothing(b, s) == b
RestoreLatch(b, s) == [b EXCEPT !.latched = s.latched, !.halted = s.halted]
=============================================================================
