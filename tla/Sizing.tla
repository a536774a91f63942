------------------------------- MODULE Sizing -------------------------------
(***************************************************************************)
(* Position sizing of risk-mgmt: the drawdown-adaptive risk budget, the 5% *)
(* position cap, the regime's equity exposure cap and its sector allow     *)
(* list.  Exposure, drawdown and the position cap are in whole percent,    *)
(* the risk budget in basis points, prices and values in whole currency    *)
(* units; a division is Python's int(a / b) of positive numbers.           *)
(***************************************************************************)
EXTENDS Integers

CONSTANTS
  BaseRisk,        \* BASE_RISK_PER_TRADE, basis points of the portfolio
  ScalingStart,    \* DD_SCALING_START, percent
  ScalingEnd,      \* DD_SCALING_END, percent
  MaxPositionPct   \* MAX_POSITION_PCT, percent

ASSUME SizingAssumption ==
  /\ BaseRisk \in Nat \ {0}
  /\ ScalingStart \in Nat
  /\ ScalingEnd \in Nat
  /\ ScalingStart < ScalingEnd
  /\ MaxPositionPct \in Nat \ {0}

NoSector == "none"   \* a sector the aggregate does not carry, Python's None

Regimes == {"expansion", "recovery", "slowdown", "contraction", "crisis"}

Defensives == {"Health Care", "Consumer Staples", "Utilities"}

MaxExposure(regime) ==
  CASE regime = "expansion"   -> 90
    [] regime = "recovery"    -> 80
    [] regime = "contraction" -> 35
    [] regime = "crisis"      -> 15
    [] OTHER                  -> 60

SectorAllowed(regime, sector) ==
  CASE regime = "slowdown" -> sector \in Defensives \union {"Information Technology"}
    [] regime \in {"contraction", "crisis"} -> sector \in Defensives
    [] OTHER -> TRUE

\* Share of the base risk left at drawdown dd, out of ScalingEnd - ScalingStart.
RiskScale(dd) ==
  IF dd <= ScalingStart THEN ScalingEnd - ScalingStart
  ELSE IF dd >= ScalingEnd THEN 0
  ELSE ScalingEnd - dd

Distance(price, stop) == IF price >= stop THEN price - stop ELSE stop - price

PositionSize(value, price, stop, dd) ==
  LET byRisk == (value * BaseRisk * RiskScale(dd))
                  \div (10000 * (ScalingEnd - ScalingStart) * Distance(price, stop))
      byPosition == (value * MaxPositionPct) \div (100 * price)
  IN  IF RiskScale(dd) = 0 \/ Distance(price, stop) = 0 THEN 0
      ELSE IF byRisk <= byPosition THEN byRisk ELSE byPosition

\* PositionSizer.size: 0 shares block the order.
Size(price, stop, p, sector) ==
  IF p.exposure >= MaxExposure(p.regime) THEN 0
  ELSE IF sector # NoSector /\ ~SectorAllowed(p.regime, sector) THEN 0
  ELSE PositionSize(p.value, price, stop, p.dd)
=============================================================================
