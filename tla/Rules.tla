------------------------------- MODULE Rules -------------------------------
(***************************************************************************)
(* The strategy rules of trading_common.strategies and the gates a signal  *)
(* passes before it is published: protective levels, the schema, the risk  *)
(* envelope and the cost filter.  Prices are integers, fractions (ranks,   *)
(* confidences, %B, ATR) basis points, RSI points, multiples tenths.       *)
(* A feature that could not be computed is not in its vector's domain.     *)
(***************************************************************************)
EXTENDS Integers, FiniteSets

One == 10000
AbsOf(x) == IF x < 0 THEN -x ELSE x
Least(x, y) == IF x < y THEN x ELSE y

RuleNames == {"donchian_breakout", "macd_confirmation", "momentum_rank",
              "rsi_bollinger_reversion", "sma_ema_crossover"}

\* all_strategies: in the order of the names.
Order == [donchian_breakout |-> 1, macd_confirmation |-> 2, momentum_rank |-> 3,
          rsi_bollinger_reversion |-> 4, sma_ema_crossover |-> 5]

RequiredFeatures ==
  [donchian_breakout       |-> {"donchian_pos_20"},
   macd_confirmation       |-> {"macd_hist", "close", "return_20d"},
   momentum_rank           |-> {"rsi_14"},
   rsi_bollinger_reversion |-> {"rsi_14", "bb_pct_b"},
   sma_ema_crossover       |-> {"ema_12", "ema_26", "sma_20", "sma_50"}]
RequiredRanks == [r \in RuleNames |-> IF r = "momentum_rank" THEN {"momentum_20"} ELSE {}]

\* apply_params: the defaults with the caller's overrides on top.
ApplyParams(defaults, params) ==
  [n \in DOMAIN defaults |-> IF n \in DOMAIN params THEN params[n] ELSE defaults[n]]

\* pick: every name, or none.
Pick(source, names) == names \subseteq DOMAIN source

SaturatingConfidence(magnitude, fullScale) ==
  IF fullScale <= 0 THEN One \div 2
  ELSE One \div 2 + ((One \div 2) * Least(fullScale, AbsOf(magnitude))) \div fullScale

Output(signal, confidence, p) ==
  [signal |-> signal, confidence |-> confidence,
   stopMult |-> p.stop_atr_mult, rr |-> p.take_profit_rr]
Hold == [signal |-> "HOLD", confidence |-> One \div 2, stopMult |-> 20, rr |-> 20]

\* The side two readings agree on.
Agreed(x, y) == IF x > 0 /\ y > 0 THEN "BUY" ELSE IF x < 0 /\ y < 0 THEN "SELL" ELSE "HOLD"

-----------------------------------------------------------------------------
MomentumDefaults ==
  [buy_rank |-> 8000, sell_rank |-> 2000, rsi_overbought |-> 70, rsi_oversold |-> 30,
   stop_atr_mult |-> 20, take_profit_rr |-> 20]

MomentumRank(ranked, raw, params) ==
  LET p    == ApplyParams(MomentumDefaults, params)
      rank == ranked["momentum_20"]
  IN  IF ~Pick(ranked, {"momentum_20"}) \/ ~Pick(raw, {"rsi_14"}) THEN Hold
      ELSE IF rank >= p.buy_rank /\ raw["rsi_14"] < p.rsi_overbought
        THEN Output("BUY", rank, p)
      ELSE IF rank <= p.sell_rank /\ raw["rsi_14"] > p.rsi_oversold
        THEN Output("SELL", One - rank, p)
      ELSE Hold

ReversionDefaults ==
  [rsi_oversold |-> 30, rsi_overbought |-> 70, band_lower |-> 500, band_upper |-> 9500,
   full_confidence_rsi |-> 10, stop_atr_mult |-> 15, take_profit_rr |-> 15]

RsiBollingerReversion(raw, params) ==
  LET p   == ApplyParams(ReversionDefaults, params)
      rsi == raw["rsi_14"]
      b   == raw["bb_pct_b"]
  IN  IF ~Pick(raw, {"rsi_14", "bb_pct_b"}) THEN Hold
      ELSE IF rsi <= p.rsi_oversold /\ b <= p.band_lower
        THEN Output("BUY", SaturatingConfidence(p.rsi_oversold - rsi, p.full_confidence_rsi), p)
      ELSE IF rsi >= p.rsi_overbought /\ b >= p.band_upper
        THEN Output("SELL", SaturatingConfidence(rsi - p.rsi_overbought, p.full_confidence_rsi), p)
      ELSE Hold

CrossoverDefaults ==
  [full_confidence_spread |-> 300, stop_atr_mult |-> 20, take_profit_rr |-> 20]

\* The weaker of the two pairs' spreads sets the strength.
SmaEmaCrossover(raw, params) ==
  LET p    == ApplyParams(CrossoverDefaults, params)
      fast == raw["ema_12"] - raw["ema_26"]
      slow == raw["sma_20"] - raw["sma_50"]
      strength == Least((One * AbsOf(fast)) \div raw["ema_26"],
                        (One * AbsOf(slow)) \div raw["sma_50"])
  IN  IF ~Pick(raw, {"ema_12", "ema_26", "sma_20", "sma_50"}) THEN Hold
      ELSE IF raw["ema_26"] <= 0 \/ raw["sma_50"] <= 0 THEN Hold
      ELSE IF Agreed(fast, slow) = "HOLD" THEN Hold
      ELSE Output(Agreed(fast, slow), SaturatingConfidence(strength, p.full_confidence_spread), p)

MacdDefaults == [full_confidence_hist |-> 100, stop_atr_mult |-> 20, take_profit_rr |-> 20]

MacdConfirmation(raw, params) ==
  LET p    == ApplyParams(MacdDefaults, params)
      side == Agreed(raw["macd_hist"], raw["return_20d"])
  IN  IF ~Pick(raw, {"macd_hist", "close", "return_20d"}) THEN Hold
      ELSE IF raw["close"] <= 0 \/ side = "HOLD" THEN Hold
      ELSE Output(side, SaturatingConfidence((One * AbsOf(raw["macd_hist"])) \div raw["close"],
                                             p.full_confidence_hist), p)

BreakoutDefaults == [full_confidence_excess |-> 1000, stop_atr_mult |-> 25, take_profit_rr |-> 25]

\* The position is measured in the channel of the PRIOR sessions.
DonchianBreakout(raw, params) ==
  LET p   == ApplyParams(BreakoutDefaults, params)
      pos == raw["donchian_pos_20"]
  IN  IF ~Pick(raw, {"donchian_pos_20"}) THEN Hold
      ELSE IF pos > One
        THEN Output("BUY", SaturatingConfidence(pos - One, p.full_confidence_excess), p)
      ELSE IF pos < 0
        THEN Output("SELL", SaturatingConfidence(-pos, p.full_confidence_excess), p)
      ELSE Hold

Generate(rule, ranked, raw, params) ==
  CASE rule = "momentum_rank"           -> MomentumRank(ranked, raw, params)
    [] rule = "rsi_bollinger_reversion" -> RsiBollingerReversion(raw, params)
    [] rule = "sma_ema_crossover"       -> SmaEmaCrossover(raw, params)
    [] rule = "macd_confirmation"       -> MacdConfirmation(raw, params)
    [] rule = "donchian_breakout"       -> DonchianBreakout(raw, params)

-----------------------------------------------------------------------------
(* The gates                                                               *)

\* _protective_levels: the stop in ATR units against the raw price.
ProtectiveLevels(decision, price, raw, fallbackStop) ==
  LET fraction == IF "atr_pct_14" \in DOMAIN raw /\ raw["atr_pct_14"] > 0
                    THEN (raw["atr_pct_14"] * decision.stopMult) \div 10 ELSE fallbackStop
      distance == (price * fraction) \div One
      reward   == (distance * decision.rr) \div 10
  IN  IF decision.signal = "BUY"
        THEN [stop |-> price - distance, target |-> price + reward]
        ELSE [stop |-> price + distance, target |-> price - reward]

\* TradingSignal: prices are positive; anything else is a ValidationError.
ValidSignal(decision, price, levels) ==
  decision.confidence \in 0..One /\ price > 0 /\ levels.stop > 0 /\ levels.target > 0

RiskLimits == [exposure |-> 8000, dailyLoss |-> 500, drawdown |-> 1500,
               correlated |-> 3, confidence |-> 5500]

\* RiskEnvelope.check_signal; a signal without a sector counts none.
CheckSignal(portfolio, decision, sectorCount) ==
  /\ AbsOf(portfolio.drawdown) < RiskLimits.drawdown
  /\ AbsOf(portfolio.dailyLoss) < RiskLimits.dailyLoss
  /\ decision.confidence >= RiskLimits.confidence
  /\ portfolio.exposure < RiskLimits.exposure
  /\ sectorCount < RiskLimits.correlated

\* Round trip of spread, slippage and impact, in bps times ten.
RoundTrip10 == 10 * 2 * (5 + 5 + 2)
TierMultiplier10 == [large |-> 10, mid |-> 15, small |-> 25, micro |-> 50]
MinEdgeMultiple == 2

\* CostAwareFilter.is_profitable_after_costs; an unknown tier costs as large.
ProfitableAfterCosts(expectedBps, tier) ==
  LET multiplier == IF tier \in DOMAIN TierMultiplier10 THEN TierMultiplier10[tier] ELSE 10
  IN  100 * expectedBps >= RoundTrip10 * multiplier * MinEdgeMultiple
=============================================================================
