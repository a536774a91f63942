------------------------------ MODULE Training ------------------------------
(***************************************************************************)
(* The training side of ml-pipeline over a history that grows: the purged  *)
(* walk-forward and its holdout, the sweep that selects a configuration,   *)
(* and combinatorial cross-validation.  A model is the windows it was      *)
(* fitted, validated and scored on; what it learns is not modelled.        *)
(***************************************************************************)
EXTENDS Labels

CONSTANTS
  Panels,        \* the histories, each to LastSession
  FirstSession, LastSession,
  TrainSize, TestSize, HoldoutSize, ValSize, Embargo,
  MinFit,        \* training sessions a fit needs besides the rest (20)
  SweepFolds,    \* folds a sweep scores
  Designs,       \* pairs <<groups, groups tested>> of cross-validation
  MinSessions, MinSamples, MinWidth, MaxThinShare, MaxShortShare  \* the contract; shares in percent

ASSUME TrainingAssumption ==
  /\ FirstSession \in Nat \ {0} /\ LastSession \in Nat /\ FirstSession <= LastSession
  /\ \A p \in Panels : \A s \in Names : DOMAIN p[s] = 1..LastSession
  /\ {TestSize, HoldoutSize, ValSize, SweepFolds} \subseteq Nat \ {0} /\ Embargo \in Nat
  /\ TrainSize \in Nat /\ TrainSize > LabelHorizon + Embargo
  /\ \A e \in Designs : e \in Nat \X Nat /\ 0 < e[2] /\ e[2] < e[1]

VARIABLES
  panel,     \* the history that will have been
  selective, \* whether training asks for a point-in-time universe
  now,       \* sessions so far
  universe, levels, rows,  \* what a training run started now builds of them
  studyRows, \* the dataset of the other operations: they take every name
  last,      \* what the last operation fitted and scored
  swept      \* sessions a configuration was ever selected on

dataVars == <<panel, selective, now, universe, levels, rows, studyRows>>
trainVars == <<dataVars, last, swept>>

Gap == LabelHorizon + Embargo

-----------------------------------------------------------------------------
(* Windows                                                                 *)

FirstOf(seq, n) == SubSeq(seq, 1, n)
LastOf(seq, n) == SubSeq(seq, Max({Len(seq) - n, 0}) + 1, Len(seq))

PurgedWalkForwardNoEmbargo(dates) ==
  [i \in 1..Max({0, (Len(dates) - TrainSize) \div TestSize}) |->
     LET start == TrainSize + (i - 1) * TestSize
     IN  [train |-> SubSeq(dates, start - TrainSize + 1, start - LabelHorizon),
          test |-> SubSeq(dates, start + 1, start + TestSize)]]

PurgedWalkForward(dates) ==
  [i \in 1..Max({0, (Len(dates) - TrainSize) \div TestSize}) |->
     LET start == TrainSize + (i - 1) * TestSize
     IN  [train |-> SubSeq(dates, start - TrainSize + 1, start - Gap),
          test |-> SubSeq(dates, start + 1, start + TestSize)]]

HoldoutSplit(dates) ==
  LET work == FirstOf(dates, Len(dates) - HoldoutSize)
  IN  [work |-> work, train |-> FirstOf(work, Max({0, Len(work) - Gap})),
       holdout |-> LastOf(dates, HoldoutSize)]

RowsOn(data, dates) == {r \in data : r.session \in Range(dates)}

FitWindow(dates) ==
  [fit |-> FirstOf(dates, Max({0, Len(dates) - ValSize - Gap})), val |-> LastOf(dates, ValSize)]

\* fit_on_dates returns a model: enough sessions, rows on both sides of the
\* purge, and both classes among those fitted.
Trainable(data, dates) ==
  LET w == FitWindow(dates)
  IN  /\ Len(dates) >= ValSize + Gap + MinFit
      /\ RowsOn(data, w.fit) # {} /\ RowsOn(data, w.val) # {}
      /\ {r.label : r \in RowsOn(data, w.fit)} = {0, 1}

\* The report of one model: what it was fitted, validated and scored on.
ScoreWindow(train, test) ==
  [train |-> train, fit |-> FitWindow(train).fit, val |-> FitWindow(train).val, test |-> test]

\* The folds that could be trained, in order.
ScoredFolds(data, folds) ==
  LET done == Ordered({i \in DOMAIN folds : Trainable(data, folds[i].train)})
  IN  [i \in DOMAIN done |-> ScoreWindow(folds[done[i]].train, folds[done[i]].test)]

-----------------------------------------------------------------------------
(* Combinatorial cross-validation                                          *)

\* n groups of contiguous positions; the groups a split can test.
Block(len, n, g) == ((g * len) \div n + 1) .. (((g + 1) * len) \div n)
\* The ways to test k of n groups.
Groupings(n, k) == {c \in SUBSET (0..(n - 1)) : Cardinality(c) = k}

\* combinations(), in its order.
Combos(n, k) ==
  LET all == Groupings(n, k)
      before(c, d) == c # d /\ Min((c \ d) \union (d \ c)) \in c
  IN  [i \in 1..Cardinality(all) |->
         CHOOSE c \in all : Cardinality({d \in all : before(d, c)}) = i - 1]

CpcvSplits(dates, n, k) ==
  LET len == Len(dates)
      combos == Combos(n, k)
      tested(c) == UNION {Block(len, n, g) : g \in c}
      near(c) == {i \in 1..len : \E j \in tested(c) : i - j \in (-Gap)..Gap}
      fitted(c) == (1..len) \ near(c)
      datesAt(positions) == Ordered({dates[i] : i \in positions})
      kept == Ordered({i \in DOMAIN combos : tested(combos[i]) # {} /\ fitted(combos[i]) # {}})
  IN  [i \in DOMAIN kept |-> LET c == combos[kept[i]]
                            IN  [groups |-> c, test |-> datesAt(tested(c)), train |-> datesAt(fitted(c))]]

Choose(n, k) == Cardinality(Groupings(n, k))
BacktestPaths(n, k) == (Choose(n, k) * k) \div n

\* The splits that test a group, by number.
Testing(splits, g) == Ordered({i \in DOMAIN splits : g \in splits[i].groups})

\* A mutant of AssemblePaths: every path takes the first split of a group.
AssemblePathsFirst(splits, n, k) ==
  [j \in 1..BacktestPaths(n, k) |->
     [g \in 0..(n - 1) |-> IF Testing(splits, g) = <<>> THEN 1 ELSE Testing(splits, g)[1]]]

\* The j-th split that tests a group serves path j; a group short of a split
\* ends the list.
AssemblePaths(splits, n, k) ==
  LET complete == {j \in 1..BacktestPaths(n, k) :
                     \A g \in 0..(n - 1) : Len(Testing(splits, g)) >= j}
  IN  [j \in complete |-> [g \in 0..(n - 1) |-> Testing(splits, g)[j]]]

-----------------------------------------------------------------------------
(* Operations                                                              *)

History(t) == [s \in Names |-> [d \in 1..t |-> panel[s][d]]]

\* build_training_dataset: every operation fetches the bars and starts over;
\* only training asks for a universe.
Build(bars) ==
  /\ universe' = IF selective THEN BuildUniverse(bars) ELSE Everyone(bars)
  /\ levels' = MarketLevels(bars, universe')
  /\ rows' = BuildDataset(bars, universe', levels')
  /\ LET everyone == Everyone(bars)
     IN  studyRows' = IF selective
                      THEN BuildDataset(bars, everyone, MarketLevels(bars, everyone))
                      ELSE rows'

\* The contract on what arrived; its checks of the feature columns are left out.
ContractHolds ==
  LET dates    == DatesOf(rows)
      width(t) == Cardinality({r \in rows : r.session = t})
      thin     == Cardinality(ThinSessions(History(now), universe))
      longest  == Max({Depth(panel, s, now) : s \in Names})
      expected == Max({0, longest - MinHistory - LabelHorizon})
  IN  /\ Len(dates) >= MinSessions /\ Cardinality(rows) >= MinSamples
      /\ Median([t \in Range(dates) |-> width(t)]) >= 2 * MinWidth
      /\ expected > 0 => /\ 100 * (expected - Len(dates) - thin) <= MaxShortShare * expected
                         /\ 100 * thin <= MaxThinShare * expected

\* A history long enough for the holdout and one fold.
LongEnough(dates) == Len(dates) >= HoldoutSize + TrainSize + TestSize

Refused == [kind |-> "refused"]

TrainInit ==
  /\ panel \in Panels /\ selective \in BOOLEAN /\ now = 0
  /\ universe = <<>> /\ levels = <<>> /\ rows = {} /\ studyRows = {}
  /\ last = [kind |-> "none"] /\ swept = {}

\* A trading day passes (the first step is the backfill); market-data has one
\* more session.
NextSession ==
  /\ now < LastSession
  /\ now' = IF now = 0 THEN FirstSession ELSE now + 1
  /\ \E bars \in {History(now')} : Build(bars)
  /\ last' = [kind |-> "none"]
  /\ UNCHANGED <<panel, selective, swept>>

\* train: contract, walk-forward, holdout and the final model; short of one of
\* them the run ends in an error.
RunTraining ==
  LET dates == DatesOf(rows)
      h     == HoldoutSplit(dates)
      ok    == /\ ContractHolds /\ LongEnough(dates)
               /\ Trainable(rows, h.train) /\ Trainable(rows, dates)
  IN  /\ now > 0
      /\ last' = IF ok THEN [kind |-> "training",
                             folds |-> ScoredFolds(rows, PurgedWalkForward(h.work)),
                             holdout |-> ScoreWindow(h.train, h.holdout)]
                 ELSE Refused
      /\ UNCHANGED <<dataVars, swept>>

\* The last folds of the walk-forward short of the holdout.
SweptFolds(dates) == LastOf(PurgedWalkForward(HoldoutSplit(dates).work), SweepFolds)

RunSweep ==
  LET dates == DatesOf(studyRows)
      folds == SweptFolds(dates)
  IN  /\ now > 0
      /\ IF LongEnough(dates)
         THEN /\ last' = [kind |-> "sweep", folds |-> ScoredFolds(studyRows, folds)]
              /\ swept' = swept \union UNION {Range(f.train) \union Range(f.test) : f \in Range(folds)}
         ELSE last' = Refused /\ UNCHANGED swept
      /\ UNCHANGED dataVars

\* A path is evaluated when all the splits it takes its groups from were fitted.
RunCpcv(n, k) ==
  LET dates  == DatesOf(studyRows)
      splits == CpcvSplits(dates, n, k)
      paths  == AssemblePaths(splits, n, k)
      fitted == {i \in DOMAIN splits : Trainable(studyRows, splits[i].train)}
  IN  /\ now > 0
      /\ last' = IF Len(dates) >= n /\ DOMAIN paths # {}
                 THEN [kind |-> "cpcv", groups |-> n, tested |-> k, splits |-> splits, paths |-> paths,
                       fitted |-> fitted,
                       evaluated |-> {j \in DOMAIN paths : Range(paths[j]) \subseteq fitted}]
                 ELSE Refused
      /\ UNCHANGED <<dataVars, swept>>

\* The importance study: a model of its own before the holdout, the columns
\* permuted on the holdout.
RunImportance ==
  LET dates == DatesOf(studyRows)
      h     == HoldoutSplit(dates)
  IN  /\ now > 0
      /\ last' = IF Len(dates) > HoldoutSize /\ Trainable(studyRows, h.train)
                 THEN [kind |-> "importance", holdout |-> ScoreWindow(h.train, h.holdout)]
                 ELSE Refused
      /\ UNCHANGED <<dataVars, swept>>

TrainNext ==
  NextSession \/ RunTraining \/ RunSweep \/ RunImportance \/ \E e \in Designs : RunCpcv(e[1], e[2])

TrainSpec == TrainInit /\ [][TrainNext]_trainVars

-----------------------------------------------------------------------------
(* Properties                                                              *)

\* The variables keep their shape.
TrainTypeOK ==
  /\ now \in {0} \union FirstSession..LastSession /\ selective \in BOOLEAN
  /\ swept \subseteq 1..now /\ Len(universe) = now /\ Len(levels) = now
  /\ \A r \in rows \union studyRows :
       /\ r.name \in Names /\ r.label \in {0, 1} /\ r.first < r.last
       /\ r.session < r.touch /\ r.touch <= now
  /\ last.kind \in {"none", "refused", "training", "sweep", "cpcv", "importance"}

\* What a row was labelled, and when its label was decided, is what every later
\* dataset says of it: history only adds rows.  (A label scanned to the end of a
\* window that history cuts short would be revised, labels.py:185.)
LabelsNeverChange == [][rows \subseteq rows' /\ studyRows \subseteq studyRows']_trainVars

\* The names a past session was ranked over, and the benchmark up to it, do not
\* depend on sessions after it (universe.py:114, market_path.py:78).
UniverseIsPointInTime ==
  [][IsPrefix(universe, universe') /\ IsPrefix(levels, levels')]_trainVars

\* The overlapping labels of a name count, in all, as many bars as they cover
\* (uniqueness.py:27).
EpisodesCountOnce ==
  \A data \in {rows, studyRows}, s \in Names :
    LET mine == {r \in data : r.name = s}
    IN  SumFunction([r \in mine |-> Uniqueness(data, r)])
          = Unit * Cardinality(UNION {Span(r) : r \in mine})

\* No label of a row of the one set of sessions is decided on one of the others,
\* unless its name missed more sessions than the embargo: the purge counts
\* sessions of the dataset, a label counts bars of its name.
KeptApart(data, before, after) ==
  \A r \in RowsOn(data, before), t \in Range(after) :
    r.session < t /\ t <= r.touch =>
      Cardinality({d \in {q.session : q \in data} :
                     r.session < d /\ d < t /\ ~Traded(panel, r.name, d)}) > Embargo

\* What the last operation fitted and scored, and on which rows.
LastData == IF last.kind = "training" THEN rows ELSE studyRows
Windows ==
  CASE last.kind = "training" -> Range(last.folds) \union {last.holdout}
    [] last.kind = "sweep" -> Range(last.folds)
    [] last.kind = "importance" -> {last.holdout}
    [] last.kind = "cpcv" -> {ScoreWindow(last.splits[i].train, last.splits[i].test) : i \in last.fitted}
    [] OTHER -> {}

\* No model is scored on sessions its training labels were decided on, whether
\* the test block follows the training window or lies inside it
\* (splits.py:44, training.py:240, cpcv.py:104).
PurgedOfTest == \A w \in Windows : KeptApart(LastData, w.train, w.test)

\* Nor is it stopped and calibrated on them (training.py:256).
ValidationPurged == \A w \in Windows : KeptApart(LastData, w.fit, w.val)

\* The curve the gate deflates has each session once, from a model fitted on
\* earlier ones (gate.py:222).
OutOfSampleOnce ==
  last.kind = "training" =>
    LET curve == last.folds \o <<last.holdout>>
    IN  \A i \in DOMAIN curve :
          /\ \A d \in Range(curve[i].train), t \in Range(curve[i].test) : d < t
          /\ \A j \in DOMAIN curve : i < j =>
               \A t \in Range(curve[i].test), u \in Range(curve[j].test) : t < u

\* No session a sweep selected on is in the holdout of a training run, then or
\* later (tuning.py:132), if that run takes every name as the sweep did: the
\* sessions of a narrower universe may end earlier, and its holdout with them.
SelectionSparesHoldout ==
  last.kind = "training" /\ ~selective => swept \intersect Range(last.holdout.test) = {}

\* A path takes each group from a split that tests all its sessions and is
\* fitted on none, no two paths share a prediction, and with every split there,
\* none is left over (cpcv.py:130, cpcv_run.py:64).
PathsCoverOnce ==
  last.kind = "cpcv" =>
    LET used(j)  == {<<g, last.paths[j][g]>> : g \in 0..(last.groups - 1)}
        dates    == DatesOf(studyRows)
        group(g) == {dates[i] : i \in Block(Len(dates), last.groups, g)}
    IN  /\ \A j \in DOMAIN last.paths : \A u \in used(j) :
             /\ group(u[1]) \subseteq Range(last.splits[u[2]].test)
             /\ group(u[1]) \intersect Range(last.splits[u[2]].train) = {}
        /\ \A i, j \in DOMAIN last.paths : i # j => used(i) \intersect used(j) = {}
        /\ Len(last.splits) = Choose(last.groups, last.tested) =>
             UNION {used(j) : j \in DOMAIN last.paths}
               = UNION {last.splits[i].groups \X {i} : i \in DOMAIN last.splits}

\* Every session has one voice: in the weights of overlapping labels, in the
\* curve the gate deflates and in the paths of the cross-validation.
SessionsCountOnce == TrainTypeOK /\ EpisodesCountOnce /\ OutOfSampleOnce /\ PathsCoverOnce

\* Later sessions change nothing that was said of earlier ones.
PastIsFixed == LabelsNeverChange /\ UniverseIsPointInTime
=============================================================================
