----------------------------- MODULE Classifier -----------------------------
(***************************************************************************)
(* company-classifier: the style and the model stack of a company from its *)
(* valuation metrics, or its sector when none of them speaks.  Rates are in *)
(* hundredths, ratios in tenths, the market capitalisation in millions;    *)
(* Missing is None.                                                        *)
(***************************************************************************)
EXTENDS Optional, FiniteSets


GrowthSectors == {"Information Technology", "Communication Services",
                  "Consumer Discretionary", "Health Care"}
ValueSectors == {"Financials", "Energy", "Utilities", "Consumer Staples", "Materials",
                 "Real Estate"}

CapTier(cap) ==
  CASE ~Known(cap)   -> "unknown"
    [] cap >= 200000 -> "mega"
    [] cap >= 10000 /\ cap < 200000 -> "large"
    [] cap >= 2000  /\ cap < 10000  -> "mid"
    [] cap >= 300   /\ cap < 2000   -> "small"
    [] OTHER         -> "micro"

\* route_model_stack: the style and the coarse bucket of the tier.
RouteModelStack(style, tier) ==
  <<style, IF tier \in {"mega", "large"} THEN "large" ELSE "small">>

\* The signals present, for growth and for value.
GrowthScore(m) ==
  Cardinality({i \in 1..4 :
    \/ i = 1 /\ Known(m.revenue)  /\ m.revenue >= 15
    \/ i = 2 /\ Known(m.earnings) /\ m.earnings >= 15
    \/ i = 3 /\ Known(m.pe)       /\ m.pe >= 250
    \/ i = 4 /\ Known(m.dividend) /\ m.dividend < 1})

ValueScore(m) ==
  Cardinality({i \in 1..3 :
    \/ i = 1 /\ Known(m.pe)       /\ 0 < m.pe /\ m.pe <= 150
    \/ i = 2 /\ Known(m.pb)       /\ m.pb <= 15
    \/ i = 3 /\ Known(m.dividend) /\ m.dividend >= 3})

SectorStyle(sector) ==
  CASE sector \in GrowthSectors -> "growth"
    [] sector \in ValueSectors  -> "value"
    [] OTHER                    -> "blend"

StyleOf(sector, m) ==
  CASE GrowthScore(m) > ValueScore(m) -> "growth"
    [] GrowthScore(m) < ValueScore(m) -> "value"
    [] GrowthScore(m) = 0 /\ ValueScore(m) = 0 -> SectorStyle(sector)
    [] OTHER -> "blend"

Classify(profile) ==
  LET style == StyleOf(profile.sector, profile.metrics)
  IN  [style |-> style, stack |-> RouteModelStack(style, CapTier(profile.cap))]

-----------------------------------------------------------------------------
(* Laws of the classification on every input of a small grid,              *)
(* which TLC evaluates first.                                              *)

\* A metric that is not known takes at most its own signals away: it never
\* turns growth into value or value into growth (classifier.py).
Metrics ==
  [revenue : {Missing, 20}, earnings : {Missing, 20}, pe : {Missing, -50, 100, 300},
   pb : {Missing, 10}, dividend : {Missing, 0, 4}]
ASSUME MissingMetricsTakeNoSide ==
  \A m \in Metrics : \A k \in DOMAIN m :
    LET less == [m EXCEPT ![k] = Missing]
    IN  /\ GrowthScore(less) <= GrowthScore(m) /\ ValueScore(less) <= ValueScore(m)
        /\ GrowthScore(m) + ValueScore(m) - GrowthScore(less) - ValueScore(less) <= 1
=============================================================================
