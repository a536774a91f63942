------------------------------- MODULE Labels -------------------------------
(***************************************************************************)
(* What ml-pipeline learns from: a panel of daily bars, the point-in-time  *)
(* universe, the benchmark, the label of each row relative to it and the   *)
(* weight of overlapping labels.  A panel maps each name to a sequence of  *)
(* sessions, a bar or NoBar; prices are logarithms, so a return is a       *)
(* difference, and benchmark and excess are counted in halves, for the     *)
(* median of an even number of returns.                                    *)
(***************************************************************************)
EXTENDS Integers, Sequences, FiniteSets, SequencesExt, FiniteSetsExt, TLC

CONSTANTS
  Names,           \* symbols, numbers in the order of their tickers
  LabelHorizon,    \* LABEL_HORIZON, in bars of the name
  SigmaWindow,     \* returns behind the volatility estimate
  MinCrossSection, \* returns that make a benchmark session
  MinHistory,      \* bars before a name contributes rows
  MinUniverse,     \* names that make a session's cross-section
  TopN, RebalanceDays, LiquidityWindow,  \* UniverseParams
  Unit             \* parts of a weight of 1; as many overlapping labels as there may be share it evenly

ASSUME LabelsAssumption ==
  /\ Names \subseteq Nat /\ Names # {} /\ IsFiniteSet(Names)
  /\ LabelHorizon \in Nat \ {0} /\ SigmaWindow \in Nat \ {0}
  /\ RebalanceDays \in Nat \ {0} /\ LiquidityWindow \in Nat \ {0}
  /\ Unit \in Nat \ {0} /\ \A c \in 1..(LabelHorizon + 1) : c * (Unit \div c) = Unit

NoBar == [p |-> 0, v |-> -1]
Traded(panel, s, t) == panel[s][t] # NoBar

\* The sessions of a panel: somebody trades on each.
Sessions(panel) == UNION {DOMAIN panel[s] : s \in Names}
\* A set of numbers in increasing order.
Ordered(S) ==
  LET rank == [t \in S |-> Cardinality({u \in S : u <= t})]
  IN  [i \in 1..Cardinality(S) |-> CHOOSE t \in S : rank[t] = i]
OwnBars(panel, s) == Ordered({t \in DOMAIN panel[s] : Traded(panel, s, t)})
\* Bars of s up to and including session t: its index there, plus one.
Depth(panel, s, t) == Cardinality({d \in 1..t : Traded(panel, s, d)})

-----------------------------------------------------------------------------
(* The point-in-time universe                                              *)

\* Twice the median.
Median(f) ==
  LET order == SortSeq(Ordered(DOMAIN f), LAMBDA a, b : f[a] < f[b])
      n     == Len(order)
  IN  IF n % 2 = 1 THEN 2 * f[order[(n + 1) \div 2]]
      ELSE f[order[n \div 2]] + f[order[n \div 2 + 1]]

\* The bars of the trailing liquidity window of a name that ends at t.
LiquidityBars(panel, s, t) ==
  {d \in 1..t : Traded(panel, s, d) /\ Depth(panel, s, t) - Depth(panel, s, d) < LiquidityWindow}

\* Eligible on a rebalance day: a bar that day, history, enough of the window.
Candidates(panel, t) ==
  {s \in Names : /\ Traded(panel, s, t) /\ Depth(panel, s, t) >= MinHistory
                 /\ Cardinality(LiquidityBars(panel, s, t)) >= LiquidityWindow \div 2}

\* The TopN most liquid, ties by ticker.
Liquidity(panel, t) ==
  [s \in Candidates(panel, t) |-> Median([d \in LiquidityBars(panel, s, t) |-> panel[s][d].v])]
TopNames(liquidity) ==
  LET above(q, s) == \/ liquidity[q] > liquidity[s]
                     \/ liquidity[q] = liquidity[s] /\ q < s
  IN  {s \in DOMAIN liquidity : Cardinality({q \in DOMAIN liquidity : above(q, s)}) < TopN}
Selected(panel, t) == LET liquidity == Liquidity(panel, t) IN TopNames(liquidity)

\* A mutant of RebalanceDates: the days are counted back from the last one.
RebalanceDatesFromEnd(panel) ==
  {t \in Sessions(panel) : (Max(Sessions(panel)) - t) % RebalanceDays = 0}
RebalanceDates(panel) == {t \in Sessions(panel) : (t - 1) % RebalanceDays = 0}

\* The members of each session: those of the last rebalance at or before it,
\* nobody before the first.
BuildUniverse(panel) ==
  LET days    == RebalanceDates(panel)
      last(t) == {d \in days : d <= t /\ \A e \in days : e <= d \/ t < e}
  IN  [t \in Sessions(panel) |-> UNION {Selected(panel, d) : d \in last(t)}]

\* Every name on every day: training without universe_top_n.
Everyone(panel) == [t \in Sessions(panel) |-> Names]

-----------------------------------------------------------------------------
(* The benchmark: per session the median return of the names present in it *)
(* and in the session before, cumulated, carried through a thin session.   *)

Here(panel, universe, t) == {s \in universe[t] : Traded(panel, s, t) /\ Traded(panel, s, t - 1)}
Move(panel, universe, t) ==
  IF Cardinality(Here(panel, universe, t)) < MinCrossSection THEN 0
  ELSE Median([s \in Here(panel, universe, t) |-> panel[s][t].p - panel[s][t - 1].p])
MarketLevels(panel, universe) ==
  LET moves == [t \in Sessions(panel) \ {1} |-> Move(panel, universe, t)]
  IN  [t \in Sessions(panel) |-> SumFunctionOnSet(moves, 2..t)]

\* Twice the excess of a name over the benchmark, per bar of its own.
ExcessPath(panel, levels, s) ==
  LET own == OwnBars(panel, s)
  IN  [i \in DOMAIN own |-> 2 * panel[s][own[i]].p - levels[own[i]]]

-----------------------------------------------------------------------------
(* The label                                                               *)

NoLabel == [label |-> -1, touch |-> 0, barrier |-> "none"]

\* The barriers' distance: the trailing volatility of the excess, here its
\* range; 0 is a degenerate estimate.
TrailingWidth(path, i) ==
  LET moves == {path[k] - path[k - 1] : k \in (i - SigmaWindow + 1)..i}
  IN  Max(moves) - Min(moves)

\* Scanned from the next bar: what is touched before the scan ends.
ScanEnd(path, i) == Min({i + LabelHorizon, Len(path)})
Touched(path, i) ==
  {j \in (i + 1)..ScanEnd(path, i) : \/ path[j] - path[i] <= -TrailingWidth(path, i)
                                    \/ path[j] - path[i] >= TrailingWidth(path, i)}

\* The lower barrier first; cut short by the end of history before a touch, there
\* is no label.
ExcessBarrierLabel(path, i) ==
  IF i >= Len(path) \/ i <= SigmaWindow THEN NoLabel
  ELSE IF TrailingWidth(path, i) = 0 THEN NoLabel
  ELSE IF Touched(path, i) # {}
    THEN LET j == Min(Touched(path, i))
         IN  IF path[j] - path[i] <= -TrailingWidth(path, i)
             THEN [label |-> 0, touch |-> j, barrier |-> "lower"]
             ELSE [label |-> 1, touch |-> j, barrier |-> "upper"]
  ELSE IF ScanEnd(path, i) < i + LabelHorizon THEN NoLabel
  ELSE [label |-> IF path[ScanEnd(path, i)] - path[i] > 0 THEN 1 ELSE 0,
        touch |-> ScanEnd(path, i), barrier |-> "vertical"]

-----------------------------------------------------------------------------
(* The dataset                                                             *)

CrossSection(panel, universe, t) ==
  {s \in universe[t] : Traded(panel, s, t) /\ Depth(panel, s, t) >= MinHistory}

ThinSessions(panel, universe) ==
  {t \in Sessions(panel) : Cardinality(CrossSection(panel, universe, t)) \in 1..(MinUniverse - 1)}

\* The row of a name and a session, with the bars of the name and its excess path;
\* session and touch are sessions, first and last the bars of the name they are.
RowOf(panel, own, path, s, t) ==
  LET i == Depth(panel, s, t)
      l == ExcessBarrierLabel(path, i)
  IN  [name |-> s, session |-> t, first |-> i, last |-> l.touch, label |-> l.label,
       barrier |-> l.barrier, touch |-> IF l = NoLabel THEN 0 ELSE own[l.touch]]

\* One row per labelled name of a wide enough session.
BuildDataset(panel, universe, levels) ==
  LET own  == [s \in Names |-> OwnBars(panel, s)]
      path == [s \in Names |-> ExcessPath(panel, levels, s)]
      wide == {t \in Sessions(panel) : Cardinality(CrossSection(panel, universe, t)) >= MinUniverse}
      rowsOf(t) == {RowOf(panel, own[s], path[s], s, t) : s \in CrossSection(panel, universe, t)}
  IN  {r \in UNION {rowsOf(t) : t \in wide} : r.label # -1}

DatesOf(rows) == Ordered({r.session : r \in rows})

\* average_uniqueness: per row, Unit times the sum (the code divides it by the
\* length) over its span of one over the labels of the name open there.
Span(r) == r.first .. r.last
Concurrency(rows, r, k) == Cardinality({q \in rows : q.name = r.name /\ k \in Span(q)})
Uniqueness(rows, r) ==
  SumFunction([k \in Span(r) |-> Unit \div Concurrency(rows, r, k)])
=============================================================================
