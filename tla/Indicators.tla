----------------------------- MODULE Indicators -----------------------------
(***************************************************************************)
(* trading_common.features: the technical vector of one symbol's bars, the *)
(* same for training and for serving.  A bar is [high, low, close, adj,    *)
(* volume] with adj = 0 for a bar without an adjusted close; a list of     *)
(* bars is in the order of time.  A vector is a function on the features   *)
(* there is enough history for.  Units: returns, ratios and positions in   *)
(* basis points (One), RSI and MFI in points, averages and deviations in   *)
(* tenths of what they average; divisions round down.                      *)
(***************************************************************************)
EXTENDS Rules, Sequences, SequencesExt, FiniteSetsExt, TLC

CONSTANTS MONTH, HALF_YEAR, YEAR   \* in sessions: 21, 126 and 252

ASSUME IndicatorsAssumption == 1 <= MONTH /\ MONTH < HALF_YEAR /\ HALF_YEAR < YEAR /\ YEAR >= 60

Tenths == 10
FULL_HISTORY == YEAR + 1
SqrtTradingDays(x) == (15875 * x) \div 1000   \* times the square root of 252

RULE_ONLY_FEATURES ==
  {"ema_12", "ema_26", "macd", "macd_signal", "macd_hist", "bb_upper", "bb_lower",
   "bb_pct_b", "bb_width", "donchian_high_20", "donchian_low_20", "donchian_pos_20",
   "atr_14", "atr_pct_14", "keltner_pos_20", "stoch_k_14", "stoch_d_14", "cci_20",
   "mfi_14", "vwap_ratio_20", "obv_slope_20", "ad_slope_20", "aroon_up_25",
   "aroon_down_25", "aroon_osc_25", "plus_di_14", "minus_di_14", "adx_14"}
TECHNICAL_FEATURES ==
  RULE_ONLY_FEATURES \union
  {"close", "return_1d", "return_5d", "return_20d", "momentum_20", "sma_10", "sma_20",
   "sma_50", "price_to_sma50", "rsi_14", "realized_vol_20", "volume_ratio", "max_ret_1m",
   "downside_vol_20", "dollar_volume_20", "amihud_20", "skew_60", "momentum_6_1",
   "momentum_12_1", "dist_52w_high"}

-----------------------------------------------------------------------------
Over(s, Op(_)) == [i \in DOMAIN s |-> Op(s[i])]
Highest(s) == Max(Range(s))
Lowest(s) == Min(Range(s))
Recent(s, k) == SubSeq(s, Len(s) - k + 1, Len(s))
Ago(s, k) == s[Len(s) - k]
Change(new, old) == (One * new) \div old - One
Times(s, t) == [i \in DOMAIN s |-> s[i] * t[i]]
Deltas(s) == [i \in 1..Len(s) - 1 |-> s[i + 1] - s[i]]
Returns(s) == [i \in 1..Len(s) - 1 |-> Change(s[i + 1], s[i])]

\* The integer square root, one binary digit after the other.
Sqrt(x) ==
  FoldLeft(LAMBDA root, bit : IF (root + bit) * (root + bit) <= x THEN root + bit ELSE root,
           0, [i \in 1..15 |-> 2^(15 - i)])

\* The standard deviation in tenths; ddof as numpy has it.
Deviation(s, ddof) ==
  LET d == [i \in DOMAIN s |-> s[i] - s[1]]
      n == Len(s)
      squares == SumFunction(Over(d, LAMBDA x : x * x))
  IN  Sqrt(100 * ((n * squares - SumFunction(d) * SumFunction(d)) \div (n * (n - ddof))))

\* A feature that is there only under its condition.
When(condition, features) == IF condition THEN features ELSE <<>>

-----------------------------------------------------------------------------
\* prices.py: a bar's own factor adj_close / close scales the whole bar.
Scaled(bar, price) ==
  IF bar.adj # 0 /\ bar.close > 0 THEN (price * bar.adj) \div bar.close ELSE price
AdjustedClose(bar) == IF bar.adj # 0 THEN bar.adj ELSE bar.close
AdjustedOhlc(bars) ==
  [high  |-> Over(bars, LAMBDA b : Scaled(b, b.high)),
   low   |-> Over(bars, LAMBDA b : Scaled(b, b.low)),
   close |-> Over(bars, AdjustedClose)]

-----------------------------------------------------------------------------
\* Wilder's average: the mean of the first p values, then p - 1 parts of the
\* average so far and one of the new value.
WilderMean(values, p) ==
  LET average[i \in p..Len(values)] ==
        IF i = p THEN SumFunction(SubSeq(values, 1, p)) \div p
        ELSE (average[i - 1] * (p - 1) + values[i]) \div p
  IN  average[Len(values)]

Rsi(closes, p) ==
  LET gains  == Over(Deltas(closes), LAMBDA d : Tenths * (IF d > 0 THEN d ELSE 0))
      losses == Over(Deltas(closes), LAMBDA d : Tenths * (IF d < 0 THEN -d ELSE 0))
      gain   == WilderMean(gains, p)
      loss   == WilderMean(losses, p)
  IN  IF Len(closes) <= p \/ gain + loss = 0 THEN 50 ELSE (100 * gain) \div (gain + loss)

\* _ema from its first defined entry on: seeded with the mean of p values.
Ema(values, p) ==
  LET ema[i \in p..Len(values)] ==
        IF i = p THEN SumFunction(SubSeq(values, 1, p)) \div p
        ELSE (2 * values[i] + (p - 1) * ema[i - 1]) \div (p + 1)
  IN  [i \in 1..Len(values) - p + 1 |-> ema[i + p - 1]]

\* The range of a bar, the gap from the close before included.
TrueRanges(s) ==
  [i \in 1..Len(s.close) - 1 |->
     Max({s.high[i + 1] - s.low[i + 1], AbsOf(s.high[i + 1] - s.close[i]),
          AbsOf(s.low[i + 1] - s.close[i])})]

Atr(s, p) == WilderMean(Over(TrueRanges(s), LAMBDA r : Tenths * r), p)

\* Wilder's smoothing: a sum that decays, from the p-th entry on.
WilderSmooth(values, p) ==
  LET total[i \in p..Len(values)] ==
        IF i = p THEN Tenths * SumFunction(SubSeq(values, 1, p))
        ELSE ((p - 1) * total[i - 1]) \div p + Tenths * values[i]
  IN  [i \in 1..Len(values) - p + 1 |-> total[i + p - 1]]

\* (+DI, -DI, ADX); DX is undefined where nothing has moved either way.
DirectionalIndex(s, p) ==
  LET up     == Deltas(s.high)
      down   == Over(Deltas(s.low), LAMBDA d : -d)
      rises  == [i \in DOMAIN up |-> IF up[i] > down[i] /\ up[i] > 0 THEN up[i] ELSE 0]
      falls  == [i \in DOMAIN up |-> IF down[i] > up[i] /\ down[i] > 0 THEN down[i] ELSE 0]
      range  == WilderSmooth(TrueRanges(s), p)
      plus   == WilderSmooth(rises, p)
      minus  == WilderSmooth(falls, p)
      moved  == SelectSeq([i \in DOMAIN range |-> i], LAMBDA i : plus[i] + minus[i] > 0)
      dx     == Over(moved, LAMBDA i : (One * AbsOf(plus[i] - minus[i])) \div (plus[i] + minus[i]))
      end    == Len(range)
  IN  When(Len(s.close) >= 2 * p + 1,
        When(Len(dx) >= p,
          [plus_di_14  |-> (One * plus[end]) \div range[end],
           minus_di_14 |-> (One * minus[end]) \div range[end],
           adx_14      |-> WilderMean(dx, p)]))

\* The least-squares slope against the bar's index, as a multiple of unit in
\* hundredths; the centred index is doubled to stay an integer.
SlopePerBar(values, unit) ==
  LET n == Len(values)
      x == [i \in 1..n |-> 2 * i - n - 1]
  IN  (200 * SumFunction([i \in 1..n |-> x[i] * values[i]]))
        \div (SumFunction(Over(x, LAMBDA y : y * y)) * unit)

-----------------------------------------------------------------------------
PriceFeatures(s, n, raw) ==
  LET c == s.close
      mean(w) == (Tenths * SumFunction(Recent(c, w))) \div w
  IN  [close |-> raw]
      @@ When(n >= 2, [return_1d |-> Change(Ago(c, 0), Ago(c, 1))])
      @@ When(n >= 6, [return_5d |-> Change(Ago(c, 0), Ago(c, 5))])
      @@ When(n >= 21, [return_20d  |-> Change(Ago(c, 0), Ago(c, 20)),
                        momentum_20 |-> Change(Ago(c, 0), Ago(c, 20))])
      @@ When(n >= 10, [sma_10 |-> mean(10)])
      @@ When(n >= 20, [sma_20 |-> mean(20)])
      @@ When(n >= 50, [sma_50 |-> mean(50)])
      @@ When(n >= 50, When(mean(50) > 0,
           [price_to_sma50 |-> (One * Tenths * Ago(c, 0)) \div mean(50)]))
      @@ When(n >= 15, [rsi_14 |-> Rsi(c, 14)])

\* The last 20 returns and what was traded on those days, at the raw price.
RiskFeatures(s, n, raws, volumes) ==
  LET daily    == Returns(Recent(s.close, 21))
      average  == SumFunction(Recent(volumes, 20)) \div 20
      money    == Times(Recent(raws, 20), Recent(volumes, 20))
      traded   == SelectSeq([i \in 1..20 |-> i], LAMBDA i : money[i] > 0)
      downside == Over(daily, LAMBDA r : Least(r, 0) * Least(r, 0))
  IN  When(n >= 21,
        [realized_vol_20 |-> SqrtTradingDays(Deviation(daily, 1)),
         max_ret_1m      |-> Highest(daily),
         downside_vol_20 |-> SqrtTradingDays(Sqrt(100 * (SumFunction(downside) \div 20)))]
        @@ When(SumFunction(Recent(volumes, 20)) > 0,
             [volume_ratio |-> (20 * One * Ago(volumes, 0)) \div SumFunction(Recent(volumes, 20))])
        @@ When(SumFunction(money) > 0, [dollar_volume_20 |-> SumFunction(money) \div 20])
        @@ When(traded # <<>>,
             [amihud_20 |-> SumFunction(Over(traded, LAMBDA i : (1000000 * AbsOf(daily[i])) \div money[i]))
                              \div Len(traded)]))

Skew(s, n) ==
  LET r == Returns(Recent(s.close, 61))
      mean == SumFunction(r) \div 60
      sd == Deviation(r, 1)
      z == Over(r, LAMBDA x : (1000 * (x - mean)) \div sd)   \* hundredths
  IN  When(n >= 61, When(sd > 0,
        [skew_60 |-> (SumFunction(Over(z, LAMBDA x : x * x * x)) \div 60) \div 100]))

\* Momentum without the last month, which reverses.
MomentumFeatures(s, n) ==
  LET c == s.close  high == Highest(Recent(c, YEAR))
  IN  When(n >= HALF_YEAR + 1, [momentum_6_1 |-> Change(Ago(c, MONTH), Ago(c, HALF_YEAR))])
      @@ When(n >= YEAR + 1, [momentum_12_1 |-> Change(Ago(c, MONTH), Ago(c, YEAR))])
      @@ When(n >= YEAR, When(high > 0, [dist_52w_high |-> (One * Ago(c, 0)) \div high]))

\* The signal line is an EMA of the MACD series, from where that one starts.
MacdFeatures(s, n) ==
  LET c      == Over(s.close, LAMBDA x : Tenths * x)
      fast   == Ema(c, 12)
      slow   == Ema(c, 26)
      macd   == [i \in DOMAIN slow |-> fast[i + 14] - slow[i]]
      signal == Ema(macd, 9)
  IN  When(n >= 26,
        [ema_12 |-> Last(fast), ema_26 |-> Last(slow), macd |-> Last(macd)]
        @@ When(Len(macd) >= 9,
             [macd_signal |-> Last(signal), macd_hist |-> Last(macd) - Last(signal)]))

Bollinger(s, n) ==
  LET window == Recent(s.close, 20)
      middle == (Tenths * SumFunction(window)) \div 20
      sd     == Deviation(window, 0)
      upper  == middle + 2 * sd
      lower  == middle - 2 * sd
  IN  When(n >= 20,
        [bb_upper |-> upper, bb_lower |-> lower]
        @@ When(upper > lower,
             [bb_pct_b |-> (One * (Tenths * Ago(s.close, 0) - lower)) \div (upper - lower)])
        @@ When(middle > 0, [bb_width |-> (One * (upper - lower)) \div middle]))

\* The channel of the 20 bars before today's.
Donchian(s, n) ==
  LET high == Highest(Front(Recent(s.high, 21)))
      low  == Lowest(Front(Recent(s.low, 21)))
  IN  When(n >= 21,
        [donchian_high_20 |-> high, donchian_low_20 |-> low]
        @@ When(high > low,
             [donchian_pos_20 |-> (One * (Ago(s.close, 0) - low)) \div (high - low)]))

AtrFeatures(s, n) ==
  LET atr    == Atr(s, 14)
      today  == Tenths * Ago(s.close, 0)
      middle == (Tenths * SumFunction(Recent(s.close, 20))) \div 20
  IN  When(n >= 15,
        [atr_14 |-> atr]
        @@ When(today > 0, [atr_pct_14 |-> (One * atr) \div today])
        @@ When(n >= 20, When(atr > 0,
             [keltner_pos_20 |-> (One * (today - middle)) \div (2 * atr)])))

\* %K of the 14 bars that end the given number of bars ago, and %D, the mean
\* of the last three where all three exist.
Stochastic(s, n) ==
  LET high(o) == Highest(SubSeq(s.high, n - o - 13, n - o))
      low(o)  == Lowest(SubSeq(s.low, n - o - 13, n - o))
      k(o)    == (One * (Ago(s.close, o) - low(o))) \div (high(o) - low(o))
      here    == {o \in 0..2 : n - o >= 14 /\ high(o) > low(o)}
  IN  When(n >= 15, When(high(0) > low(0),
        [stoch_k_14 |-> k(0)]
        @@ When(here = 0..2, [stoch_d_14 |-> (k(0) + k(1) + k(2)) \div 3])))

\* Three times the typical price.
Typical(high, low, close) == [i \in DOMAIN close |-> high[i] + low[i] + close[i]]

\* CCI and VWAP, of the typical price.
TypicalFeatures(s, n, volumes) ==
  LET typical   == Typical(Recent(s.high, 20), Recent(s.low, 20), Recent(s.close, 20))
      sum       == SumFunction(typical)
      off       == Over(typical, LAMBDA t : 20 * t - sum)
      deviation == SumFunction(Over(off, AbsOf))
      volume    == Recent(volumes, 20)
      traded    == SumFunction(volume)
      vwap      == SumFunction(Times(typical, volume)) \div (3 * traded)
  IN  When(n >= 20,
        When(deviation > 0, [cci_20 |-> (20 * (1000 * off[20])) \div (15 * deviation)])
        @@ When(traded > 0, When(vwap > 0,
             [vwap_ratio_20 |-> (One * Ago(s.close, 0)) \div vwap])))

\* On-balance volume and the accumulation line are running sums since the
\* first bar: what is kept is their slope, in average volumes.
VolumeSlopes(s, n, volumes) ==
  LET sign(d) == CASE d > 0 -> 1 [] d < 0 -> -1 [] OTHER -> 0
      obv[i \in 1..n] ==
        IF i = 1 THEN 0 ELSE obv[i - 1] + sign(s.close[i] - s.close[i - 1]) * volumes[i]
      flow(i) == IF s.high[i] > s.low[i]
                 THEN (100 * (2 * s.close[i] - s.low[i] - s.high[i]) * volumes[i])
                        \div (s.high[i] - s.low[i])
                 ELSE 0
      line[i \in 1..n] == (IF i = 1 THEN 0 ELSE line[i - 1]) + flow(i)
      average == SumFunction(Recent(volumes, 20)) \div 20
      window(sums) == [i \in 1..20 |-> sums[n - 20 + i]]
  IN  When(n >= 20, When(average > 0,
        [obv_slope_20 |-> SlopePerBar(window(obv), average),
         ad_slope_20  |-> SlopePerBar(window(line), 100 * average)]))

\* Each of 20 flows is classed by the typical price's move into its bar.
MoneyFlow(s, n, volumes) ==
  LET typical  == Typical(Recent(s.high, 21), Recent(s.low, 21), Recent(s.close, 21))
      move     == Deltas(typical)
      flow     == Times(Tail(typical), Recent(volumes, 20))
      positive == SumFunction([i \in 1..20 |-> IF move[i] > 0 THEN flow[i] ELSE 0])
      negative == SumFunction([i \in 1..20 |-> IF move[i] < 0 THEN flow[i] ELSE 0])
  IN  When(n >= 21, When(positive + negative > 0,
        [mfi_14 |-> (100 * positive) \div (positive + negative)]))

\* How recently the window's extremes happened: the first of equal ones.
Aroon(s, n) ==
  LET first(window, extreme) == Min({i \in DOMAIN window : window[i] = extreme})
      highs == Recent(s.high, 26)
      lows  == Recent(s.low, 26)
      up    == (One * (first(highs, Highest(highs)) - 1)) \div 25
      down  == (One * (first(lows, Lowest(lows)) - 1)) \div 25
  IN  When(n >= 26, [aroon_up_25 |-> up, aroon_down_25 |-> down, aroon_osc_25 |-> up - down])

ComputeFeatureVector(bars) ==
  LET s       == AdjustedOhlc(bars)
      n       == Len(bars)
      volumes == Over(bars, LAMBDA b : b.volume)
      raws    == Over(bars, LAMBDA b : b.close)
  IN  PriceFeatures(s, n, Last(raws)) @@ RiskFeatures(s, n, raws, volumes) @@ Skew(s, n)
      @@ MomentumFeatures(s, n) @@ MacdFeatures(s, n) @@ Bollinger(s, n) @@ Donchian(s, n)
      @@ AtrFeatures(s, n) @@ Stochastic(s, n) @@ TypicalFeatures(s, n, volumes)
      @@ VolumeSlopes(s, n, volumes) @@ MoneyFlow(s, n, volumes) @@ Aroon(s, n)
      @@ DirectionalIndex(s, 14)
=============================================================================
