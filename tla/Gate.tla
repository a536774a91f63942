-------------------------------- MODULE Gate --------------------------------
(***************************************************************************)
(* The activation gate of ml-pipeline: the numbers a training run reports  *)
(* against six conditions, while features are added to the comparison and  *)
(* configurations are tried against the same data.  Numbers are scaled     *)
(* integers; a square root is compared by squares.                         *)
(***************************************************************************)
EXTENDS Integers, Sequences, FiniteSets, FiniteSetsExt, SequencesExt

CONSTANTS
  Reports,         \* holdout reports, records as GateTypeOK has them
  FoldActives,     \* sequences of the active Sharpe of the scored folds, NoMetrics where none
  FeatureICs,      \* standalone rank correlations a feature can have
  MaxFeatures, MaxTrials,
  SharpeBar, ActiveBar, TstatBar, DsrBar, MinRecentFolds, MinPortfolioSessions

\* The numbers of a report and the table of ExpectedMaxSharpe.
ReportFields == {"ic", "icStd", "sections", "active", "sharpe", "lift", "bestEpoch", "predStd",
                 "sessions", "brierDelta", "brierDeltaSe", "auc", "edge", "spread",
                 "observations", "moments"}

ASSUME GateAssumption ==
  /\ \A r \in Reports : DOMAIN r = ReportFields /\ \A f \in ReportFields : r[f] \in Int
  /\ FeatureICs \subseteq Int /\ DsrBar \in Int
  /\ MaxFeatures \in Nat /\ MaxTrials \in 1..10

VARIABLES
  holdout,      \* the holdout report
  folds,        \* the active Sharpe of each fold
  baselineIc,   \* the standalone correlation of each feature so far
  trials        \* configurations tried so far

gateVars == <<holdout, folds, baselineIc, trials>>

NoMetrics == -1000

GateInit ==
  /\ holdout \in Reports /\ folds \in FoldActives
  /\ baselineIc = <<>> /\ trials = 1

\* ic_tstat >= TstatBar: zero without spread or sections.
TstatReaches(r) ==
  /\ r.icStd > 0 /\ r.sections >= 2
  /\ r.ic > 0 /\ r.ic * r.ic * r.sections >= TstatBar * TstatBar * r.icStd * r.icStd

\* A mutant of BestBaseline: the comparator is the newest feature.
BestBaselineNewest(ics) == IF ics = <<>> THEN 0 ELSE ics[Len(ics)]
\* The best single feature; 0 without features.
BestBaseline(ics) == IF ics = <<>> THEN 0 ELSE Max(Range(ics))

\* expected_max_sharpe, in tenths, for 1, 2, ... trials.
ExpectedMaxSharpe(n) == IF n <= 1 THEN 0 ELSE <<0, 5, 9, 10, 12, 13, 14, 15, 15, 16>>[n]

\* The deflated Sharpe reaches its bar: enough observations that vary, and a
\* ratio (times the root of their number) above the luckiest of the trials by
\* DsrBar times the root of the moments' term, squared here.
DeflatedReaches(r, n) ==
  LET margin == r.edge - ExpectedMaxSharpe(n)
  IN  /\ r.observations >= 8 /\ r.spread > 0 /\ r.moments > 0
      /\ margin >= 0 /\ margin * margin >= DsrBar * DsrBar * r.moments

Measured(r) == r.ic # NoMetrics

GSanity == /\ holdout.bestEpoch > 1 /\ holdout.predStd > 0
           /\ holdout.sessions >= MinPortfolioSessions /\ Len(folds) >= MinRecentFolds
GRankInformation == Measured(holdout) /\ TstatReaches(holdout)
GBaseline == (IF Measured(holdout) THEN holdout.ic ELSE 0) > BestBaseline(baselineIc)
GEconomics ==
  LET recent  == SubSeq(folds, Max({1, Len(folds) - 2}), Len(folds))
      passing == {i \in DOMAIN recent : recent[i] > ActiveBar}
  IN  /\ Measured(holdout) /\ holdout.active > ActiveBar /\ holdout.sharpe > SharpeBar
      /\ holdout.lift > 0 /\ Cardinality(passing) >= MinRecentFolds
GCalibration == holdout.brierDelta <= 2 * holdout.brierDeltaSe /\ holdout.auc > 50
GDeflated == DeflatedReaches(holdout, trials)

\* All six.
EvaluateGate == GSanity /\ GRankInformation /\ GBaseline /\ GEconomics /\ GCalibration /\ GDeflated

\* A feature family is added to the comparison.
AddFeature(ic) ==
  /\ Len(baselineIc) < MaxFeatures
  /\ baselineIc' = Append(baselineIc, ic)
  /\ UNCHANGED <<holdout, folds, trials>>

\* One more configuration is tried on the same data: n_trials is raised.
Try ==
  /\ trials < MaxTrials
  /\ trials' = trials + 1
  /\ UNCHANGED <<holdout, folds, baselineIc>>

GateNext == Try \/ \E ic \in FeatureICs : AddFeature(ic)
GateSpec == GateInit /\ [][GateNext]_gateVars

-----------------------------------------------------------------------------
(* Properties                                                              *)

\* The variables keep their shape.
GateTypeOK ==
  /\ DOMAIN holdout = ReportFields
  /\ trials \in 1..MaxTrials /\ Len(baselineIc) <= MaxFeatures

\* Neither a feature added to the comparison nor a further trial turns a model
\* the gate refused into one it passes (training.py:363, gate.py:52): the first
\* feature, which may lower the comparator below zero, is caught by the rank
\* condition.
GateOnlyHarder == [][EvaluateGate' => EvaluateGate]_gateVars
=============================================================================
