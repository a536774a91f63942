---------------------------- MODULE MCMarketData ----------------------------
(* A symbol with some history.                             *)
EXTENDS MarketData

OneSymbol == <<"A">>
Listing == [A |-> 1]
=============================================================================
