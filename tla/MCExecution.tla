----------------------------- MODULE MCExecution -----------------------------
(* Small instances of Execution for TLC.                                     *)
EXTENDS Execution

Order(id, side, symbol, qty, price, stop, take) ==
  [id |-> id, side |-> side, symbol |-> symbol, qty |-> qty, price |-> price,
   stop |-> stop, take |-> take]

BuyA  == Order(1, "BUY", "A", 2, 10, 8, 14)
SellA == Order(2, "SELL", "A", 3, 11, 0, 0)
BuyB  == Order(3, "BUY", "B", 1, 20, 16, 0)

NoOrders == {}
BothBuys == {BuyA, BuyB}
Manual == {SellA}
==============================================================================
