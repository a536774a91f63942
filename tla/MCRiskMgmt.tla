----------------------------- MODULE MCRiskMgmt -----------------------------
(* Small instances of RiskMgmt for TLC.                                    *)
EXTENDS RiskMgmt, TLC

Metric(value, exposure, dd, loss) ==
  [value |-> value, exposure |-> exposure, dd |-> dd, loss |-> loss]

Aggregate(id, side, session, price, stop, sector) ==
  [id |-> id, symbol |-> "A", side |-> side, session |-> session,
   price |-> price, stop |-> stop, sector |-> sector]

\* A healthy book, a halting loss, a warning, a breach.
BreakerPushes ==
  {Metric(100000, 50, 0, 0), Metric(95000, 50, 5, 5),
   Metric(92000, 40, 8, 0), Metric(85000, 40, 15, 0)}

BlackPushes == {Metric(100000, 50, 0, 0), Metric(85000, 40, 15, 0)}
LevelPushes == BlackPushes \union {Metric(92000, 40, 8, 0)}
LedgerPushes == {Metric(100000, 50, 0, 0), Metric(95000, 90, 5, 5)}

NoMsgs == {}

\* One decision delivered twice as two aggregates (a late vote), and the same
\* symbol in the next session.
LedgerMsgs ==
  {Aggregate(1, "BUY", 1, 100, 95, "Energy"), Aggregate(2, "BUY", 1, 101, 96, "none"),
   Aggregate(3, "BUY", 2, 100, 95, "none")}

HttpSymmetry == Permutations(Http)
=============================================================================
