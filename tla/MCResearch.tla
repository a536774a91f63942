----------------------------- MODULE MCResearch -----------------------------
EXTENDS Training, Books, Gate, Backtest, Schedule

MCLast == 21
\* Price paths: a zigzag, a slow climb, and names that miss one session, miss
\* two in a row, or are delisted.
Bar(p, v) == [p |-> p, v |-> v]
Zigzag(t) == t % 2
Climb(t) == t \div 3
Shapes == <<
  [t \in 1..MCLast |-> Bar(Zigzag(t), 2)],
  [t \in 1..MCLast |-> Bar(Climb(t), IF t > 8 THEN 3 ELSE 1)],
  [t \in 1..MCLast |-> IF t = 9 THEN NoBar ELSE Bar(Zigzag(t) - Climb(t), 1)],
  [t \in 1..MCLast |-> IF t \in 9..10 THEN NoBar ELSE Bar(IF t < 9 THEN 4 * Zigzag(t) ELSE 1, 2)],
  [t \in 1..MCLast |-> IF t > 19 THEN NoBar ELSE Bar(-Climb(t), 4)]>>
MCPanels == {[s \in {1, 2, 3} |-> Shapes[k[s]]] :
               k \in {c \in [{1, 2, 3} -> 1..5] : c[1] < c[2] /\ c[2] <= c[3]}}
MCDesigns == {<<3, 1>>, <<4, 2>>}
MCFeatureICs == {-1, 1, 3, 4}
MCMoves == {-2, 1, 3}
MCBaselines == {-2, 0, 1, 3}

MCTables == {<<>>, [s \in {1} |-> 9], [s \in {1, 2} |-> 2 + s]}

Good == [ic |-> 3, icStd |-> 2, sections |-> 20, active |-> 5, sharpe |-> 9, lift |-> 1, bestEpoch |-> 4,
         predStd |-> 1, sessions |-> 30, brierDelta |-> 1, brierDeltaSe |-> 1, auc |-> 56, edge |-> 25,
         spread |-> 1, observations |-> 40, moments |-> 1]
MCReports == {Good, [Good EXCEPT !.ic = 0], [Good EXCEPT !.ic = -1], [Good EXCEPT !.ic = NoMetrics],
              [Good EXCEPT !.edge = 15], [Good EXCEPT !.moments = 0], [Good EXCEPT !.sections = 1],
              [Good EXCEPT !.active = 0], [Good EXCEPT !.brierDelta = 3], [Good EXCEPT !.bestEpoch = 1]}
MCFolds == {<<>>, <<4>>, <<4, 4>>, <<-1, 4, 4>>, <<4, 4, -1, -1>>, <<NoMetrics, 4, 4>>}

\* The instruments share no state: each behaviour runs one of them.
VARIABLE running
researchVars == <<running, trainVars, bookVars, gateVars, backVars>>
ResearchInit ==
  /\ running \in {"training", "books", "gate", "backtest"}
  /\ TrainInit /\ BooksInit /\ GateInit /\ BackInit
  /\ running # "training" => panel = [s \in {1, 2, 3} |-> Shapes[1 + s]] /\ selective
  /\ running # "books" => tranches = 1 /\ table = <<>>
  /\ running # "gate" => holdout = Good /\ folds = <<>>
ResearchNext ==
  /\ UNCHANGED running
  /\ \/ running = "training" /\ TrainNext /\ UNCHANGED <<bookVars, gateVars, backVars>>
     \/ running = "books" /\ BooksNext /\ UNCHANGED <<trainVars, gateVars, backVars>>
     \/ running = "gate" /\ GateNext /\ UNCHANGED <<trainVars, bookVars, backVars>>
     \/ running = "backtest" /\ BackNext /\ UNCHANGED <<trainVars, bookVars, gateVars>>
ResearchSpec == ResearchInit /\ [][ResearchNext]_researchVars

\* No result is of data that decided it: labels of the fit reach into no scored
\* or validating session, a sweep into no holdout, a position into no bar it was
\* read from.
NothingLeaks == PurgedOfTest /\ ValidationPurged /\ SelectionSparesHoldout /\ NoSameBarReturn

\* More scrutiny or a worse record never improves a verdict, in the promotion
\* gate and in the revalidation of a rule.
VerdictsAreMonotone == GateOnlyHarder /\ [](GateTypeOK /\ BackTypeOK /\ WorseIsNotPromoted)
=============================================================================
