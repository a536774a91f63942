----------------------------- MODULE PaperBroker -----------------------------
(***************************************************************************)
(* The paper broker of execution, as operators on a broker record.  Prices,*)
(* quantities and cash are integers (the code's floats), a session is a    *)
(* day number, and 0 stands for a protective level that is None.  A symbol *)
(* the code's dict does not hold is a position of quantity 0.  The ids of  *)
(* liquidations and protective exits are fresh UUIDs no later order can    *)
(* carry: they are not kept in processed.                                  *)
(***************************************************************************)
EXTENDS Integers, Sequences, FiniteSets, Functions

CONSTANTS
  Symbols,
  InitialCash,         \* INITIAL_CASH
  SlippageBps,         \* SLIPPAGE_BPS
  EquityHistoryLimit   \* equity_history_limit

ASSUME BrokerAssumption ==
  /\ IsFiniteSet(Symbols)
  /\ InitialCash \in Nat \ {0}
  /\ SlippageBps \in 0..9999
  /\ EquityHistoryLimit \in Nat \ {0}

NoLevel == 0
Flat == [qty |-> 0, last |-> 0, stop |-> NoLevel, take |-> NoLevel]
Positions == [qty : Int, last : Int, stop : Int, take : Int]
Points == [day : Nat, equity : Int]

Magnitude(n) == IF n < 0 THEN -n ELSE n
Higher(a, b) == IF a >= b THEN a ELSE b

PositionsValue(b) == SumFunction([s \in Symbols |-> b.positions[s].qty * b.positions[s].last])
GrossExposure(b) ==
  SumFunction([s \in Symbols |-> Magnitude(b.positions[s].qty) * b.positions[s].last])
Equity(b) == b.cash + PositionsValue(b)

\* positions(): what is open, in either direction.
Open(b) == {s \in Symbols : b.positions[s].qty # 0}
IsProcessed(b, id) == id \in b.processed

\* One point per session, the newest value of the session.
RecordEquity(b, today) ==
  LET point   == [day |-> today, equity |-> Equity(b)]
      n       == Len(b.curve)
      rolled  == IF n > 0 /\ b.curve[n].day = today
                   THEN [b.curve EXCEPT ![n] = point]
                   ELSE Append(b.curve, point)
      excess  == Len(rolled) - EquityHistoryLimit
  IN  [b EXCEPT !.curve = SubSeq(rolled, 1 + (IF excess > 0 THEN excess ELSE 0), Len(rolled))]

\* The first fill or mark of a new day resets the daily-loss baseline.
RollDay(b, today) ==
  IF today = b.dayStartDate THEN b
  ELSE [b EXCEPT !.dayStartDate = today, !.dayStart = Equity(b)]

NewBroker(today) ==
  RecordEquity(
    [cash |-> InitialCash, positions |-> [s \in Symbols |-> Flat],
     peak |-> InitialCash, dayStart |-> InitialCash, dayStartDate |-> today,
     processed |-> {}, curve |-> <<>>], today)

\* Rounded up: as with the code's floats, a price that is positive stays so.
SlippedPrice(side, price) ==
  (price * (IF side = "BUY" THEN 10000 + SlippageBps ELSE 10000 - SlippageBps) + 9999) \div 10000

\* A level the order does not set keeps its value; a closed position has none.
Bought(p, qty, price, stop, take) ==
  [qty |-> p.qty + qty, last |-> price,
   stop |-> IF stop # NoLevel THEN stop ELSE p.stop,
   take |-> IF take # NoLevel THEN take ELSE p.take]

Sold(p, qty, price) ==
  IF p.qty - qty <= 0
    THEN [qty |-> p.qty - qty, last |-> price, stop |-> NoLevel, take |-> NoLevel]
    ELSE [p EXCEPT !.qty = p.qty - qty, !.last = price]

\* The peak and the curve follow every change of a position.
Remark(b, today) ==
  RecordEquity([b EXCEPT !.peak = Higher(b.peak, Equity(b))], today)

\* fill() of an order that was not processed; ids is {order_id}, or {} for a
\* liquidation or an exit.
Fill(b, ids, symbol, side, qty, price, stop, take, today) ==
  LET r  == RollDay(b, today)
      at == SlippedPrice(side, price)
      p  == r.positions[symbol]
      q  == IF side = "BUY" THEN Bought(p, qty, at, stop, take) ELSE Sold(p, qty, at)
      cash == IF side = "BUY" THEN r.cash - qty * at ELSE r.cash + qty * at
      filled == [r EXCEPT !.cash = cash, !.positions[symbol] = q,
                          !.processed = @ \union ids]
  IN  Remark(filled, today)

\* A mutant of Mark: the day rolls over after the price was taken in.
MarkThenRoll(b, symbol, price, today) ==
  IF b.positions[symbol].qty = 0 THEN b
  ELSE Remark(RollDay([b EXCEPT !.positions[symbol].last = price], today), today)

Mark(b, symbol, price, today) ==
  IF b.positions[symbol].qty = 0 THEN b
  ELSE Remark([RollDay(b, today) EXCEPT !.positions[symbol].last = price], today)

\* protective_trigger: a long position whose mark breaches one of its levels.
Breached(p) ==
  /\ p.qty > 0
  /\ \/ p.stop # NoLevel /\ p.last <= p.stop
     \/ p.take # NoLevel /\ p.last >= p.take

\* metrics(): ratios in percent, the losses floored at 0.
Share(part, whole) == IF whole > 0 THEN (part * 100) \div whole ELSE 0

BookMetrics(b) ==
  [value    |-> Equity(b),
   exposure |-> Share(GrossExposure(b), Equity(b)),
   dd       |-> Higher(0, Share(b.peak - Equity(b), b.peak)),
   loss     |-> Higher(0, Share(b.dayStart - Equity(b), b.dayStart))]
=============================================================================
