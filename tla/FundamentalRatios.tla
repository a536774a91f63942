------------------------- MODULE FundamentalRatios -------------------------
(***************************************************************************)
(* Statements and what is computed from them: the Piotroski F-score, the    *)
(* scale-free features, and which of several statements was public at a     *)
(* cutoff.  A statement is [period, filed, score, v], v giving each field a *)
(* number or Missing; a ratio is <<numerator, denominator>>.               *)
(***************************************************************************)
EXTENDS Optional, FiniteSets

Fields == {"net_income", "operating_cash_flow", "total_assets", "total_liabilities",
           "current_assets", "current_liabilities", "shares_outstanding", "revenue",
           "gross_profit", "cost_of_revenue"}

NoStatement == [period |-> 0, filed |-> Missing, score |-> Missing,
                v |-> [f \in Fields |-> Missing]]

BothHave(current, prior, a, b) ==
  HasRatio(current.v[a], current.v[b]) /\ HasRatio(prior.v[a], prior.v[b])

Improves(current, prior, a, b) ==
  /\ BothHave(current, prior, a, b)
  /\ LargerRatio(current.v[a], current.v[b], prior.v[a], prior.v[b])

Eases(current, prior, a, b) ==
  /\ BothHave(current, prior, a, b)
  /\ LargerRatio(prior.v[a], prior.v[b], current.v[a], current.v[b])

\* compute_f_score: the signals that fire, of nine; without a prior year only
\* the first three can.
FScoreSignals(current, prior) ==
  LET v == current.v  p == prior.v
  IN  {s \in {"positive_net_income", "positive_operating_cash_flow", "quality_of_earnings",
              "improving_roa", "decreasing_leverage", "improving_current_ratio",
              "no_dilution", "improving_net_margin", "improving_asset_turnover"} :
        \/ s = "positive_net_income" /\ Known(v["net_income"]) /\ v["net_income"] > 0
        \/ s = "positive_operating_cash_flow" /\ v["operating_cash_flow"] > 0
        \/ /\ s = "quality_of_earnings"
           /\ Known(v["net_income"]) /\ Known(v["operating_cash_flow"])
           /\ v["operating_cash_flow"] > v["net_income"]
        \/ s = "improving_roa" /\ Improves(current, prior, "net_income", "total_assets")
        \/ s = "decreasing_leverage" /\ Eases(current, prior, "total_liabilities", "total_assets")
        \/ /\ s = "improving_current_ratio"
           /\ Improves(current, prior, "current_assets", "current_liabilities")
        \/ /\ s = "no_dilution"
           /\ Known(v["shares_outstanding"]) /\ Known(p["shares_outstanding"])
           /\ v["shares_outstanding"] <= p["shares_outstanding"]
        \/ s = "improving_net_margin" /\ Improves(current, prior, "net_income", "revenue")
        \/ s = "improving_asset_turnover" /\ Improves(current, prior, "revenue", "total_assets")}

ComputeFScore(current, prior) == Cardinality(FScoreSignals(current, prior))

GrossProfit(s) ==
  IF Known(s.v["gross_profit"]) THEN s.v["gross_profit"]
  ELSE IF Known(s.v["revenue"]) /\ Known(s.v["cost_of_revenue"])
  THEN s.v["revenue"] - s.v["cost_of_revenue"] ELSE Missing

FeatureNames == {"f_score", "fund_net_margin", "fund_roa", "fund_leverage",
                 "fund_gross_profitability", "fund_accruals", "fund_asset_growth",
                 "fund_book_to_market", "fund_earnings_yield"}

\* Numerator and denominator of each feature, before what is missing or
\* degenerate is dropped.  price is the raw close, or Missing.
Quotient(name, s, prior, price) ==
  LET v == s.v
      minus(a, b) == IF Known(a) /\ Known(b) THEN a - b ELSE Missing
      cap == IF Known(price) /\ price > 0 /\ Known(v["shares_outstanding"])
             THEN v["shares_outstanding"] * price ELSE Missing
  IN  CASE name = "f_score"         -> <<s.score, 1>>
        [] name = "fund_net_margin" -> <<v["net_income"], v["revenue"]>>
        [] name = "fund_roa"        -> <<v["net_income"], v["total_assets"]>>
        [] name = "fund_leverage"   -> <<v["total_liabilities"], v["total_assets"]>>
        [] name = "fund_gross_profitability" -> <<GrossProfit(s), v["total_assets"]>>
        [] name = "fund_accruals" ->
             <<minus(v["net_income"], v["operating_cash_flow"]), v["total_assets"]>>
        [] name = "fund_asset_growth" ->
             <<minus(v["total_assets"], prior.v["total_assets"]), prior.v["total_assets"]>>
        [] name = "fund_book_to_market" ->
             <<minus(v["total_assets"], v["total_liabilities"]), cap>>
        [] name = "fund_earnings_yield" -> <<v["net_income"], cap>>

\* fundamental_features: no feature from a missing or degenerate input.
FundamentalFeatures(s, prior, price) ==
  LET q == [n \in FeatureNames |-> Quotient(n, s, prior, price)]
  IN  [n \in {m \in FeatureNames : HasRatio(q[m][1], q[m][2])} |-> q[n]]

-----------------------------------------------------------------------------
(* Point in time: days stand for instants, and a statement's filed is the   *)
(* midnight of its day.                                                     *)

\* session_cutoff: the midnight that opens the session.
SessionCutoff(day) == day

PublicBefore(statements, cutoff) ==
  {s \in statements : Known(s.filed) /\ s.filed < cutoff}

\* latest_available_before, and the SELECT of SqlFundamentalsStore: by filing
\* date, then by period.
LatestAvailableBefore(statements, cutoff) ==
  LET eligible == PublicBefore(statements, cutoff)
  IN  IF eligible = {} THEN NoStatement
      ELSE CHOOSE s \in eligible : \A o \in eligible :
             s.filed > o.filed \/ (s.filed = o.filed /\ s.period >= o.period)

\* prior_available_before: the period before, of what the cutoff allows.
PriorAvailableBefore(statements, cutoff, current) ==
  LET eligible == {s \in PublicBefore(statements, cutoff) : s.period < current.period}
  IN  IF eligible = {} THEN NoStatement
      ELSE CHOOSE s \in eligible : \A o \in eligible : s.period >= o.period

-----------------------------------------------------------------------------
(* Laws of the features and the F-score on every input of a small grid,    *)
(* which TLC evaluates first.                                              *)

Money == Fields \ {"shares_outstanding"}
Values(a, b) ==
  {[f \in Fields |->
      CASE f = "net_income" -> a [] f = "total_assets" -> b [] f = "gross_profit" -> g
        [] f = "operating_cash_flow" -> o [] OTHER -> 40] :
     g \in {Missing, 30}, o \in {-5, 20}}
Years ==
  {[NoStatement EXCEPT !.period = 2, !.score = 5, !.v = v] :
     v \in UNION {Values(a, b) : a \in {Missing, -10, 10}, b \in {0, 80}}}

InAnotherCurrency(s) ==
  [s EXCEPT !.v = [f \in Fields |-> IF f \in Money /\ Known(@[f]) THEN 3 * @[f] ELSE @[f]]]
Times(price, k) == IF Known(price) THEN k * price ELSE price

\* Features and score are free of the currency a company reports in, so names
\* can be ranked against each other (fundamentals.py fundamental_features).
ASSUME FeaturesAreScaleFree ==
  \A s, p \in Years : \A price \in {Missing, 0, 2} :
    LET here  == FundamentalFeatures(s, p, price)
        there == FundamentalFeatures(InAnotherCurrency(s), InAnotherCurrency(p), Times(price, 3))
    IN  /\ DOMAIN here = DOMAIN there
        /\ \A n \in DOMAIN here :
             /\ SameRatio(here[n][1], here[n][2], there[n][1], there[n][2])
             /\ SignOf(here[n][1]) * SignOf(here[n][2]) = SignOf(there[n][1]) * SignOf(there[n][2])
        /\ ComputeFScore(s, p) = ComputeFScore(InAnotherCurrency(s), InAnotherCurrency(p))

\* A field that is not filed takes features away and changes none: nothing is
\* imputed, but for the gross profit, which may stand as a difference.
ASSUME NothingIsImputed ==
  \A s, p \in Years : \A f \in Fields \ {"gross_profit"} :
    LET whole  == FundamentalFeatures(s, p, 2)
        lacking == FundamentalFeatures([s EXCEPT !.v[f] = Missing], p, 2)
    IN  /\ DOMAIN lacking \subseteq DOMAIN whole
        /\ \A n \in DOMAIN lacking : lacking[n] = whole[n]
=============================================================================
