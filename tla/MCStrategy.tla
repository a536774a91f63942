----------------------------- MODULE MCStrategy -----------------------------
(***************************************************************************)
(* A symbol whose bars arrive and a peer it is ranked against.  Then the   *)
(* laws: what the technical vector, the rules and the rankings of          *)
(* trading_common must satisfy on every input of a small grid, and on a    *)
(* rising, a falling and a choppy history, beside the states of the        *)
(* services that use them.  TLC evaluates the assumptions before it        *)
(* explores anything; those on vectors bind them with a quantifier, so     *)
(* that they are computed once.                                            *)
(***************************************************************************)
EXTENDS Strategy, Indicators, Ranking

Quiet(close, momentum) ==
  [close |-> close, momentum_20 |-> momentum, rsi_14 |-> 50, donchian_pos_20 |-> 5000,
   atr_pct_14 |-> 200]
Breakout(close, momentum) ==
  [Quiet(close, momentum) EXCEPT !.donchian_pos_20 = 12000]
\* A range so wide that two and a half times it is more than the price.
Wild(close, momentum) ==
  [Breakout(close, momentum) EXCEPT !.atr_pct_14 = 5000]

TwoVectors == [A |-> <<Breakout(1000, 300), Wild(1100, 900)>>, P |-> <<Quiet(1000, 500)>>]
StartBars == [A |-> 0, P |-> 1]
EndBars == [A |-> 2, P |-> 1]

TwoRules == {"donchian_breakout", "momentum_rank"}
NoParams == [r \in TwoRules |-> [none |-> 0]]
Calm    == [exposure |-> 1000, drawdown |-> 0, dailyLoss |-> 0]
Drawn   == [exposure |-> 1000, drawdown |-> -2000, dailyLoss |-> 0]
Books == {Calm, Drawn}

Deactivation == {[strategy |-> "momentum_rank", status |-> "deactivate"]}
Recovered == {[strategy |-> "momentum_rank", sharpe |-> 80, pf |-> 150, wr |-> 50, days |-> 31]}

-----------------------------------------------------------------------------
(* The rules                                                               *)

Raws ==
  [donchian_pos_20 : {-2000, 10000, 10500}, macd_hist : {-1, 1}, return_20d : {-5, 5},
   close : {100}, rsi_14 : {29, 50, 71}, bb_pct_b : {400, 9600},
   ema_12 : {97, 103}, ema_26 : {100}, sma_20 : {99, 104}, sma_50 : {100}]
Ranks == [momentum_20 : {2000, 5000, 8000}, rsi_14 : {0}]
Defaults == [none |-> 0]

Without(f, names) == [n \in DOMAIN f \ names |-> f[n]]
Only(f, names) == [n \in DOMAIN f \intersect names |-> f[n]]

\* A rule reads what it declares (strategies/base.py required_features,
\* required_ranks): the rest does not move it, and it holds as soon as one of
\* its own is missing.
ASSUME RulesReadWhatTheyDeclare ==
  \A rule \in RuleNames : \A raw \in Raws, rank \in Ranks :
    LET features == RequiredFeatures[rule]  ranks == RequiredRanks[rule]
    IN  /\ Generate(rule, Only(rank, ranks), Only(raw, features), Defaults)
             = Generate(rule, rank, raw, Defaults)
        /\ \A n \in features : Generate(rule, rank, Without(raw, {n}), Defaults) = Hold
        /\ \A n \in ranks : Generate(rule, Without(rank, {n}), raw, Defaults) = Hold

\* Turned upside down, a market is sold where it was bought, and as
\* confidently: no threshold is inclusive on one side only.
Mirror(raw) ==
  [raw EXCEPT !.donchian_pos_20 = One - @, !.macd_hist = -@, !.return_20d = -@,
              !.rsi_14 = 100 - @, !.bb_pct_b = One - @,
              !.ema_12 = 200 - @, !.sma_20 = 200 - @]
Opposite == [BUY |-> "SELL", SELL |-> "BUY", HOLD |-> "HOLD"]
ASSUME RulesAreSymmetric ==
  \A rule \in RuleNames : \A raw \in Raws, rank \in Ranks :
    LET here  == Generate(rule, rank, raw, Defaults)
        there == Generate(rule, [rank EXCEPT !.momentum_20 = One - @], Mirror(raw), Defaults)
    IN  there = [here EXCEPT !.signal = Opposite[@]]

\* Whatever a rule decides is a confidence the schema accepts.
ASSUME ConfidenceIsAProbability ==
  \A rule \in RuleNames : \A raw \in Raws, rank \in Ranks :
    Generate(rule, rank, raw, Defaults).confidence \in (One \div 2)..One

-----------------------------------------------------------------------------
Universes == UNION {[1..n -> {[x |-> v] : v \in {-2, 1, 3}}] : n \in 1..4}
Negated(u) == [i \in DOMAIN u |-> [x |-> -u[i].x]]

\* Ranks are of the order alone, and ties are split in the middle: the rank of
\* the negated values is the complement (ranking.py _percentile_ranks).
ASSUME RanksAreOfTheOrder ==
  \A u \in Universes : \A i \in DOMAIN u :
    /\ PercentileRank([j \in DOMAIN u |-> [x |-> u[j].x * u[j].x * u[j].x]], "x", i)
         = PercentileRank(u, "x", i)
    /\ PercentileRank(u, "x", i) + PercentileRank(Negated(u), "x", i) \in {Unit - 1, Unit}

\* A move of a whole sector is invisible after neutralisation, to its members
\* and to everyone else (sectors.py): the residual group, to which names no
\* table knows belong, is a sector too.
Aliases == [Tech |-> "IT", IT |-> "IT", Oil |-> "Energy"]
ASSUME SectorMovesAreNeutral ==
  \A u \in [1..4 -> {[x |-> -2], [x |-> 3]}], raw \in [1..4 -> {"Tech", "IT", "Oil", "Nowhere"}] :
    LET sector  == [i \in DOMAIN u |-> NormalizeSector(Aliases, raw[i])]
        group(i) == Group(sector, 2, i)
        moved(i) == [j \in DOMAIN u |-> [x |-> u[j].x + IF j \in group(i) THEN 7 ELSE 0]]
    IN  \A i \in DOMAIN u :
          /\ i \in group(i)
          /\ Cardinality(group(i)) >= 2 =>
               SectorNeutralize(moved(i), sector, 2) = SectorNeutralize(u, sector, 2)

-----------------------------------------------------------------------------
(* The technical vector                                                    *)

Candle(close, i) ==
  [close |-> close, adj |-> 0, volume |-> 6 + ((i * 7) % 11),
   high |-> close + 20 + ((i * 13) % 31), low |-> close - 20 - ((i * 17) % 29)]
Noise(i) == (i * i * 37 + i * 91) % 211
Length == FULL_HISTORY + 2
Rise == [i \in 1..Length |-> Candle(8000 + 7 * i + Noise(i), i)]
Fall == [i \in 1..Length |-> Candle(11000 - 9 * i + Noise(i), i)]
Chop == [i \in 1..Length |-> Candle(9000 + 3 * Noise(i), i)]
Flat == [i \in 1..35 |-> [close |-> 9000, adj |-> 0, volume |-> 10, high |-> 9000, low |-> 9000]]

\* More history never takes a feature away; the declared set is what a full
\* history gives, and one bar less does not give it (the refusal of a rule
\* that reads an unknown feature rests on that set).
Histories == {1, 15, 21, 29, 34, 50, YEAR, FULL_HISTORY}
ASSUME HistoryOnlyAddsFeatures ==
  \A known \in {[n \in Histories |-> DOMAIN ComputeFeatureVector(SubSeq(Chop, 1, n))]} :
    /\ \A m, n \in Histories : m < n => known[m] \subseteq known[n]
    /\ known[FULL_HISTORY] = TECHNICAL_FEATURES /\ known[YEAR] # TECHNICAL_FEATURES
    /\ \A rule \in RuleNames : RequiredFeatures[rule] \subseteq known[50]

\* Only these look beyond the windows they name: two callers who pass windows
\* of different lengths agree on everything else, the slopes of the running
\* sums included, and disagree on some of these (FEATURE_LOOKBACK is shared).
Smoothed ==
  {"rsi_14", "ema_12", "ema_26", "macd", "macd_signal", "macd_hist", "atr_14",
   "atr_pct_14", "keltner_pos_20", "plus_di_14", "minus_di_14", "adx_14"}
ASSUME OnlyTheSmoothedRemember ==
  \A long \in {ComputeFeatureVector([Chop EXCEPT ![1].volume = 900])},
     short \in {ComputeFeatureVector(Recent(Chop, FULL_HISTORY))} :
    /\ \A f \in TECHNICAL_FEATURES \ Smoothed : short[f] = long[f]
    /\ \E f \in Smoothed : short[f] # long[f]

\* A market without a move has no position in a range it does not have; what
\* can move, stays within its bounds.
Percentages == {"rsi_14", "mfi_14"}
Positions == {"stoch_k_14", "stoch_d_14", "aroon_up_25", "aroon_down_25", "plus_di_14",
              "minus_di_14", "adx_14", "dist_52w_high"}
ASSUME ReadingsHaveTheirRange ==
  /\ \A v \in {ComputeFeatureVector(Rise), ComputeFeatureVector(Fall)} :
       /\ \A f \in Percentages : v[f] \in 0..100
       /\ \A f \in Positions : v[f] \in 0..One
       /\ v["bb_lower"] <= v["bb_upper"]
  /\ \A v \in {ComputeFeatureVector(Flat)} :
       /\ v["rsi_14"] = 50 /\ v["macd_hist"] = 0 /\ v["bb_width"] = 0
       /\ DOMAIN v \intersect {"bb_pct_b", "donchian_pos_20", "keltner_pos_20", "stoch_k_14",
                               "cci_20", "mfi_14", "adx_14"} = {}

-----------------------------------------------------------------------------
\* Today's bar does not move the channel it is held against, so that it can
\* break out of it on either side.
Moved(bar, by) == [bar EXCEPT !.close = @ + by, !.high = @ + by, !.low = @ + by]
ASSUME TodayCanBreakTheChannel ==
  \A here \in {[by \in {-3000, 0, 3000} |->
                  Donchian(AdjustedOhlc([Chop EXCEPT ![Length] = Moved(@, by)]), Length)]} :
    /\ \A by \in {-3000, 3000} :
         /\ here[by].donchian_high_20 = here[0].donchian_high_20
         /\ here[by].donchian_low_20 = here[0].donchian_low_20
    /\ here[3000].donchian_pos_20 > One /\ here[-3000].donchian_pos_20 < 0

\* Every indicator is on the adjusted scale and every amount of money on the
\* raw one: history quoted before a two-for-one split, with the adjusted close
\* it gets afterwards, changes the raw readings alone.
Traded == {"close", "dollar_volume_20", "amihud_20"}
Doubled(candles) ==
  [i \in DOMAIN candles |-> [candles[i] EXCEPT !.close = 2 * @, !.high = 2 * @, !.low = 2 * @]]
Adjusted(candles, to) == [i \in DOMAIN candles |-> [candles[i] EXCEPT !.adj = to[i].close]]
ASSUME TheAdjustedScaleIsUsed ==
  \A plain \in {ComputeFeatureVector(Chop)},
     here \in {ComputeFeatureVector(Adjusted(Doubled(Chop), Chop))} :
    /\ here["close"] = 2 * plain["close"]
    /\ here["dollar_volume_20"] \div 2 = plain["dollar_volume_20"]
    /\ \A f \in TECHNICAL_FEATURES \ Traded : here[f] = plain[f]

\* What a rule compares with a constant has no scale: at twice the price it
\* reads the same, to a fifth of a per cent for the rounding.  Only levels are
\* compared with levels.
Levels == {"sma_10", "sma_20", "sma_50", "ema_12", "ema_26", "bb_upper", "bb_lower",
           "donchian_high_20", "donchian_low_20", "atr_14", "macd", "macd_signal", "macd_hist"}
ASSUME RulesSeeNoScale ==
  \A plain \in {ComputeFeatureVector(Chop)},
     twice \in {ComputeFeatureVector(Doubled(Chop))} :
    /\ \A f \in TECHNICAL_FEATURES \ (Levels \union Traded) : AbsOf(twice[f] - plain[f]) <= 20
    /\ \A f \in Levels : AbsOf(twice[f] - 2 * plain[f]) <= 30
    /\ plain["macd_hist"] > 0 <=> twice["macd_hist"] > 0
=============================================================================
