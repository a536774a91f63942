------------------------- MODULE MCSignalAggregator -------------------------
(* Small instances of SignalAggregator for TLC.                            *)
EXTENDS SignalAggregator

Signal(strategy, side, conf, at) ==
  [symbol |-> "A", strategy |-> strategy, side |-> side, conf |-> conf, at |-> at]

\* Two strategies on one symbol, one of which changes its mind.
TwoStrategies ==
  {Signal("momentum", "BUY", 60, 0), Signal("momentum", "SELL", 70, 1),
   Signal("reversion", "BUY", 80, 1)}

MlVotes == {[symbol |-> "A", side |-> "BUY", conf |-> 90, at |-> 1]}
Crisis == {[regime |-> "crisis", at |-> 2]}

Alphabetical == [s \in {"momentum", "reversion"} |-> IF s = "momentum" THEN 1 ELSE 2]

Sources == {"momentum", "reversion", "ml", "macro"}
Equal == [s \in Sources |-> 1]
MlHeavy == [s \in Sources |-> IF s = "ml" THEN 6 ELSE 1]
Adaptively == {Equal, MlHeavy}
=============================================================================
