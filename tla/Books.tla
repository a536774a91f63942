-------------------------------- MODULE Books --------------------------------
(***************************************************************************)
(* The portfolios a set of predictions is judged by (evaluation.py): the   *)
(* daily top-quantile book, the book of overlapping tranches the gate      *)
(* scores and the one behind the relative metrics, session by session.  A  *)
(* session is its names, most probable first; what the books earn is left  *)
(* out, what they hold and are charged for is kept.                        *)
(***************************************************************************)
EXTENDS Integers, Sequences, FiniteSets, SequencesExt

CONSTANTS
  BookNames,
  QuantilePct,   \* share of a session's rows selected, in percent
  FlatCost,      \* cost_bps
  CostTables,    \* the partial functions that are a cost_bps_by_symbol
  MaxTranches,
  BookSessions   \* sessions of a window

ASSUME BooksAssumption ==
  /\ IsFiniteSet(BookNames) /\ QuantilePct \in 1..100 /\ FlatCost \in Nat \ {0}
  /\ MaxTranches \in Nat \ {0} /\ BookSessions \in Nat
  /\ \A t \in CostTables : DOMAIN t \subseteq BookNames /\ \A s \in DOMAIN t : t[s] \in Nat \ {0}

VARIABLES
  tranches,  \* sleeves of the book: the label horizon, or 1
  table,     \* the cost of each name in it, the flat one for the others
  gateBook, relativeBook, shortBook, dailyBook,
  picks,     \* the selections of the last sessions, newest last
  narrow     \* whether a session of a single row has passed

bookVars == <<tranches, table, gateBook, relativeBook, shortBook, dailyBook, picks, narrow>>

\* The first ceil(quantile * rows) names, one at least.
TopQuantile(order) ==
  LET k == (QuantilePct * Len(order) + 99) \div 100
  IN  Range(SubSeq(order, 1, IF k < 1 THEN 1 ELSE k))

CostOf(s) == IF s \in DOMAIN table THEN table[s] ELSE FlatCost

\* Per name, what entering has cost; the code weighs the sum of a session by
\* the size of the book and the tranches.
SessionCost(charged, entered) ==
  [s \in BookNames |-> charged[s] + IF s \in entered THEN CostOf(s) ELSE 0]

NoBook == [day |-> 0, sleeves |-> [i \in 0..(MaxTranches - 1) |-> {}],
           charged |-> [s \in BookNames |-> 0]]

\* One session of _tranche_holdings: the sleeve whose turn it is takes the
\* selection, the names new to it are charged.
TrancheHoldings(book, order) ==
  LET active    == book.day % tranches
      refreshed == TopQuantile(order)
  IN  [day |-> book.day + 1, sleeves |-> [book.sleeves EXCEPT ![active] = refreshed],
       charged |-> SessionCost(book.charged, refreshed \ book.sleeves[active])]

\* A mutant of RelativeMetrics: it runs the daily book whatever the gate runs.
RelativeMetricsDaily(book, order) ==
  IF Len(order) < 2 THEN book
  ELSE [day |-> book.day + 1, sleeves |-> [book.sleeves EXCEPT ![0] = TopQuantile(order)],
        charged |-> SessionCost(book.charged, TopQuantile(order) \ book.sleeves[0])]

\* The relative metrics skip a session of one row; the portfolio does not.
RelativeMetrics(book, order) ==
  IF Len(order) < 2 THEN book ELSE TrancheHoldings(book, order)
OverlappingPortfolio(book, order) == TrancheHoldings(book, order)

\* top_quantile_portfolio without tranches: replaced every session, the names
\* not held before charged.
DailyPortfolio(book, order) ==
  LET held == TopQuantile(order)
  IN  [held |-> held,
       charged |-> SessionCost(book.charged, IF book.held = {} THEN held ELSE held \ book.held)]

BooksInit ==
  /\ tranches \in 1..MaxTranches /\ table \in CostTables
  /\ gateBook = NoBook /\ relativeBook = NoBook /\ shortBook = NoBook
  /\ dailyBook = [held |-> {}, charged |-> NoBook.charged]
  /\ picks = <<>> /\ narrow = FALSE

\* A session of the window, its rows ordered by probability.
ScoreSession(order) ==
  /\ gateBook.day < BookSessions
  /\ gateBook' = OverlappingPortfolio(gateBook, order)
  /\ relativeBook' = RelativeMetrics(relativeBook, order)
  /\ shortBook' = RelativeMetrics(shortBook, Reverse(order))
  /\ dailyBook' = DailyPortfolio(dailyBook, order)
  /\ picks' = SubSeq(Append(picks, TopQuantile(order)),
                     IF Len(picks) < tranches THEN 1 ELSE 2, Len(picks) + 1)
  /\ narrow' = (narrow \/ Len(order) = 1)
  /\ UNCHANGED <<tranches, table>>

Orders == {o \in UNION {[1..n -> BookNames] : n \in 1..Cardinality(BookNames)} : IsInjective(o)}

BooksNext == \E order \in Orders : ScoreSession(order)
BooksSpec == BooksInit /\ [][BooksNext]_bookVars

-----------------------------------------------------------------------------
(* Properties                                                              *)

\* The variables keep their shape; a selection is never empty, as the averages
\* over it assume.
BooksTypeOK ==
  /\ tranches \in 1..MaxTranches /\ table \in CostTables /\ narrow \in BOOLEAN
  /\ gateBook.day \in 0..BookSessions /\ relativeBook.day \in 0..gateBook.day
  /\ \A b \in {gateBook, relativeBook, shortBook} : \A i \in DOMAIN b.sleeves : b.sleeves[i] \subseteq BookNames
  /\ Len(picks) \in 0..tranches /\ {} \notin Range(picks)

HeldBy(book) == UNION Range(book.sleeves)

\* A position is held for `tranches` sessions, as many as its label spans: the
\* book is what the last so many sessions selected, no more and no less
\* (evaluation.py:501).
HeldForTheHorizon == HeldBy(gateBook) = UNION Range(picks)

\* The book behind the relative metrics is the one the gate's Sharpe is of, and
\* is charged the same, as long as no session had a single row
\* (evaluation.py:545, training.py:350).
SameBook == ~narrow => relativeBook = gateBook

\* With one tranche the two constructions of a book are one
\* (evaluation.py:164, evaluation.py:510).
DailyIsOneTranche ==
  tranches = 1 => /\ dailyBook.held = gateBook.sleeves[0]
                  /\ dailyBook.charged = gateBook.charged

\* Every position of every sleeve was paid for, at the price of its name or the
\* flat one: a partial table makes no name free (evaluation.py:475).
EntriesPaid ==
  \A b \in {gateBook, relativeBook, shortBook} : \A s \in BookNames :
    b.charged[s] >= CostOf(s) * Cardinality({i \in DOMAIN b.sleeves : s \in b.sleeves[i]})
      /\ (s \in HeldBy(b) => b.charged[s] > 0)

\* The four books are one strategy: held as long as the labels look ahead, the
\* same whichever metric is computed of them, and paid for.
BooksAgree == BooksTypeOK /\ HeldForTheHorizon /\ SameBook /\ DailyIsOneTranche /\ EntriesPaid
=============================================================================
