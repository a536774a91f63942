------------------------------ MODULE Backtest ------------------------------
(***************************************************************************)
(* The backtest of a registered rule on one symbol and its walk-forward    *)
(* revalidation.  Prices are logarithms, costs are in the same unit; the   *)
(* Sharpe of a window stands as the sum of what it earned, which has its   *)
(* sign and, over a window of one length, its order.                       *)
(***************************************************************************)
EXTENDS Integers, Sequences, FiniteSets, FiniteSetsExt, SequencesExt

CONSTANTS
  Moves,         \* price moves of a bar
  CostBps,
  OosWindow,     \* oos_window_days
  ThresholdPct,  \* degradation_threshold, in percent
  Baselines,     \* original out-of-sample Sharpes a caller can state
  MaxBars

ASSUME BacktestAssumption ==
  /\ Moves \subseteq Int /\ CostBps \in Nat /\ OosWindow \in Nat \ {0}
  /\ ThresholdPct \in 1..100 /\ Baselines \subseteq Int /\ MaxBars \in Nat \ {0}

VARIABLES
  prices,    \* adjusted closes
  position,  \* the rule's position at each close, 0 or 1
  statuses   \* recommended by the last revalidations, by baseline

backVars == <<prices, position, statuses>>

Signals == {"buy", "sell", "hold"}
Unvalidated == "none"

\* The position bar t earns: the one decided at the close before.
Held(pos, t) == pos[t - 1]
\* The trade that set it; the first entry counts.
TradeOf(pos, t) ==
  LET before == IF t = 2 THEN 0 ELSE pos[t - 2]
  IN  IF pos[t - 1] # before THEN 1 ELSE 0

\* The net returns of the bars from `first`: score_positions.
Scored(px, pos, first) ==
  [i \in 1..Max({0, Len(px) - Max({first, 2}) + 1}) |->
     LET t == Max({first, 2}) + i - 1
     IN  Held(pos, t) * (px[t] - px[t - 1]) - TradeOf(pos, t) * CostBps]

SumOf(seq) == SumFunction(seq)

\* _run_backtest: the trailing window, earlier bars warm the rule up.
OosSharpe(px, pos) == SumOf(Scored(px, pos, Max({Len(px) - OosWindow, 0}) + 1))

\* Percent of the baseline lost; for a negative one, worse is more negative.
Degradation(original, current) ==
  IF original > 0 THEN (100 * (original - current)) \div original
  ELSE IF original < 0 THEN (100 * (original - current)) \div (-original)
  ELSE 0

Recommended(original, current) ==
  IF current < 0 THEN "deactivate"
  ELSE IF Degradation(original, current) >= ThresholdPct THEN "probation" ELSE "active"

BackInit == prices = <<0>> /\ position = <<0>> /\ statuses = [b \in Baselines |-> Unvalidated]

\* One more bar; the rule signals at its close, HOLD carries the position.
NextBar(move, signal) ==
  /\ Len(prices) < MaxBars
  /\ prices' = Append(prices, prices[Len(prices)] + move)
  /\ position' = Append(position, CASE signal = "buy" -> 1 [] signal = "sell" -> 0
                                    [] OTHER -> position[Len(position)])
  /\ statuses' = [b \in Baselines |-> Unvalidated]

\* revalidate, for every baseline a caller may state.
Revalidate ==
  /\ statuses' = [b \in Baselines |-> Recommended(b, OosSharpe(prices, position))]
  /\ UNCHANGED <<prices, position>>

BackNext == Revalidate \/ \E m \in Moves, s \in Signals : NextBar(m, s)
BackSpec == BackInit /\ [][BackNext]_backVars

-----------------------------------------------------------------------------
(* Properties                                                              *)

\* The variables keep their shape.
BackTypeOK ==
  /\ Len(prices) \in 1..MaxBars /\ Len(position) = Len(prices) /\ Range(position) \subseteq {0, 1}
  /\ Range(statuses) \subseteq {"active", "probation", "deactivate", Unvalidated}

\* What a backtest scores does not depend on the position decided at its last
\* close: no bar is earned by the signal it produced (engine.py:60).
NoSameBarReturn ==
  \A q \in {0, 1} :
    Scored(prices, [position EXCEPT ![Len(position)] = q], 1) = Scored(prices, position, 1)

\* Doing worse against the same baseline never earns a better recommendation,
\* be the baseline positive, zero or negative (continuous_validation.py:70).
Grade(status) == CASE status = "deactivate" -> 0 [] status = "probation" -> 1 [] OTHER -> 2
WorseIsNotPromoted ==
  \A b \in Baselines : statuses[b] # Unvalidated =>
    \A worse \in -3..OosSharpe(prices, position) :
      Grade(Recommended(b, worse)) <= Grade(statuses[b])
=============================================================================
