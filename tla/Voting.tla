------------------------------- MODULE Voting -------------------------------
(***************************************************************************)
(* How signal-aggregator turns component votes into one decision: weighted *)
(* signed confidences against a threshold, the cost gate, and the strategy *)
(* whose levels the order will carry.  Confidences and the threshold are   *)
(* in percent, edges and costs in basis points; weights are positive       *)
(* integers, renormalised over the sources that are present.               *)
(***************************************************************************)
EXTENDS Integers, FiniteSets, Functions

CONSTANTS
  BuyThreshold,    \* BUY_THRESHOLD
  BaseEdge,        \* BASE_EDGE_BPS
  RequiredEdge,    \* min_edge_multiple * round trip costs of a large cap
  Rank             \* the alphabetical rank of each strategy name

ASSUME VotingAssumption ==
  BuyThreshold \in Nat \ {0} /\ BaseEdge \in Nat /\ RequiredEdge \in Nat

Sides == {"BUY", "SELL", "HOLD"}

\* A component is [source, side, conf]; the macro regime is one, or none.
MacroVote(regime) ==
  LET vote(side, conf) == {[source |-> "macro", side |-> side, conf |-> conf]}
  IN  CASE regime = "expansion"   -> vote("BUY", 50)
        [] regime = "recovery"    -> vote("BUY", 30)
        [] regime = "contraction" -> vote("SELL", 30)
        [] regime = "crisis"      -> vote("SELL", 60)
        [] OTHER                  -> {}

Signed(c) == CASE c.side = "BUY" -> c.conf [] c.side = "SELL" -> -c.conf [] OTHER -> 0

\* The score is Sum / Total; the sums keep the comparison in integers.
Total(components, weights) == SumFunction([c \in components |-> weights[c.source]])
Sum(components, weights) == SumFunction([c \in components |-> weights[c.source] * Signed(c)])

Combined(components, weights) ==
  LET sum == Sum(components, weights)
      bar == BuyThreshold * Total(components, weights)
  IN  CASE components # {} /\ sum >= bar  -> "BUY"
        [] components # {} /\ sum <= -bar -> "SELL"
        [] OTHER                          -> "HOLD"

\* confidence * BASE_EDGE_BPS against the required edge.
Profitable(components, weights) ==
  LET sum == Sum(components, weights)
  IN  (IF sum < 0 THEN -sum ELSE sum) * BaseEdge
        >= RequiredEdge * 100 * Total(components, weights)

Decide(components, weights) ==
  IF Profitable(components, weights) THEN Combined(components, weights) ELSE "HOLD"

\* select_levels: of the entries that agree, the most confident, then by name.
\* A set of at most one entry.
Levels(entries, side) ==
  {e \in entries :
     /\ side # "HOLD" /\ e.side = side
     /\ \A f \in entries : f.side = side
          => e.conf > f.conf \/ (e.conf = f.conf /\ Rank[e.strategy] <= Rank[f.strategy])}
=============================================================================
