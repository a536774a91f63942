--------------------------- MODULE FeatureEngine ---------------------------
(***************************************************************************)
(* The technical path of feature-engine: a market_data.updated event, or a *)
(* POST, has it fetch a symbol's bars, store the vector computed from them *)
(* and announce features.ready.  The subscription handles one message at a *)
(* time; HTTP requests run beside it.  A vector is named by the number of  *)
(* bars it was computed from: what it holds is Vectors.                    *)
(***************************************************************************)
EXTENDS Ranking

CONSTANTS
  Symbols,
  Vectors,      \* per symbol and number of bars: the features computed from them
  FirstBars,    \* per symbol: bars stored at the start
  LastBars,     \* bound, per symbol: bars ever stored
  MinBars,      \* FEATURE_MIN_BARS
  Backend,      \* what the lifespan chose: "redis", or "memory" without one
  MaxDeliver,   \* NATS_MAX_DELIVER
  Asked,        \* bound: the symbols requests are about
  MaxManual,    \* bound: requests, and moves of the book
  MaxFaults     \* bound: failed calls and crashes

ASSUME FeatureEngineAssumption ==
  /\ FirstBars \in [Symbols -> Nat] /\ LastBars \in [Symbols -> Nat]
  /\ \A s \in Symbols : \A n \in 1..LastBars[s] : n \in DOMAIN Vectors[s]
  /\ Asked \subseteq Symbols
  /\ Backend \in {"redis", "memory"}
  /\ MinBars \in Nat \ {0} /\ MaxDeliver \in Nat \ {0}
  /\ MaxManual \in Nat /\ MaxFaults \in Nat

VARIABLES
  bars,      \* per symbol: bars market-data holds
  market,    \* unacknowledged market_data.updated messages: [symbol, bar, tries]
  calc,      \* per caller: the computation in progress
  vector,    \* per symbol: the stored vector, 0 for none
  index,     \* the symbols the store can enumerate
  ready      \* unacknowledged features.ready messages: [symbol, no, tries]

VARIABLES   \* history: read by no action of the program
  crossed,    \* symbols two computations of which overlapped
  dropped,    \* symbols a message of which was given up
  manual, faults

engine  == <<bars, market, calc, vector, index, ready>>
history == <<crossed, dropped, manual, faults>>
featureVars == <<engine, history>>

Callers == {"event", "http"}
NoMessage == [symbol |-> "none", tries |-> 0]
Idle == [pc |-> "idle", symbol |-> "none", bars |-> 0, msg |-> NoMessage]

Fault == faults < MaxFaults /\ faults' = faults + 1

FeatureInit ==
  /\ bars = FirstBars /\ market = {}
  /\ calc = [c \in Callers |-> Idle]
  /\ vector = FirstBars
  /\ index = {s \in Symbols : FirstBars[s] > 0}
  /\ ready = {}
  /\ crossed = {} /\ dropped = {} /\ manual = 0 /\ faults = 0

-----------------------------------------------------------------------------
\* External: market-data stores a bar and announces it.
NewBar(s) ==
  /\ bars[s] < LastBars[s]
  /\ bars' = [bars EXCEPT ![s] = @ + 1]
  /\ market' = market \union {[symbol |-> s, bar |-> bars[s] + 1, tries |-> 0]}
  /\ UNCHANGED <<calc, vector, index, ready, history>>

\* A message that was not acknowledged, until its deliveries are used up.
Redelivery(queue, m) ==
  (queue \ {m}) \union
     {n \in {[m EXCEPT !.tries = @ + 1]} : n.tries < MaxDeliver}
GivenUp(m) == IF m.tries + 1 < MaxDeliver THEN {} ELSE {m.symbol}
\* What a caller leaves undone when it fails: nobody repeats a request.
Abandoned(c) ==
  IF calc[c].pc = "idle" THEN {}
  ELSE IF c = "event" THEN GivenUp(calc[c].msg)
  ELSE {s \in {calc[c].symbol} : calc[c].pc = "index"}

Start(c, s, m) ==
  /\ calc[c].pc = "idle"
  /\ calc' = [calc EXCEPT ![c] = [pc |-> "fetch", symbol |-> s, bars |-> 0, msg |-> m]]
  /\ crossed' = crossed \union {t \in {s} : \E d \in Callers : calc[d].symbol = t}

\* EventSubscriber._on_message of market_data.updated.
HandleMarketData(m) ==
  /\ Start("event", m.symbol, m)
  /\ UNCHANGED <<bars, market, vector, index, ready, dropped, manual, faults>>

\* POST /compute/{symbol}.
PostCompute(s) ==
  /\ manual < MaxManual /\ manual' = manual + 1
  /\ Start("http", s, NoMessage)
  /\ UNCHANGED <<bars, market, vector, index, ready, dropped, faults>>

Finish(c) ==
  /\ calc' = [calc EXCEPT ![c] = Idle]
  /\ market' = market \ {calc[c].msg}

\* compute_for_symbol, up to the answer of market-data.
FetchBars(c) ==
  LET n == bars[calc[c].symbol]
  IN  /\ calc[c].pc = "fetch"
      /\ IF n < MinBars THEN Finish(c)
         ELSE /\ calc' = [calc EXCEPT ![c].pc = "store", ![c].bars = n]
              /\ UNCHANGED market
      /\ UNCHANGED <<bars, vector, index, ready, history>>

\* A mutant of StoreVector: the index is not written.
StoreVectorUnindexed(c) ==
  /\ calc[c].pc = "store"
  /\ vector' = [vector EXCEPT ![calc[c].symbol] = calc[c].bars]
  /\ calc' = [calc EXCEPT ![c].pc = "publish"]
  /\ UNCHANGED <<bars, market, index, ready, history>>

\* RedisFeatureStore.put: the vector, then the index that enumerates it.
StoreVector(c) ==
  LET s == calc[c].symbol
  IN  /\ calc[c].pc = "store"
      /\ vector' = [vector EXCEPT ![s] = calc[c].bars]
      /\ IF Backend = "redis"
           THEN calc' = [calc EXCEPT ![c].pc = "index"] /\ UNCHANGED index
           ELSE calc' = [calc EXCEPT ![c].pc = "publish"] /\ index' = index \union {s}
      /\ UNCHANGED <<bars, market, ready, history>>

IndexVector(c) ==
  /\ calc[c].pc = "index"
  /\ index' = index \union {calc[c].symbol}
  /\ calc' = [calc EXCEPT ![c].pc = "publish"]
  /\ UNCHANGED <<bars, market, vector, ready, history>>

\* Messages that say the same are still two.
FreeNumber == CHOOSE n \in 0..Cardinality(ready) : \A m \in ready : m.no # n

PublishReady(c) ==
  /\ calc[c].pc = "publish"
  /\ ready' = ready \union {[symbol |-> calc[c].symbol, no |-> FreeNumber, tries |-> 0]}
  /\ Finish(c)
  /\ UNCHANGED <<bars, vector, index, crossed, dropped, manual, faults>>

\* A call of the computation raises: nak, or a 5xx to the HTTP caller.
ComputeFails(c) ==
  LET m == calc[c].msg
  IN  /\ calc[c].pc # "idle" /\ Fault
      /\ calc' = [calc EXCEPT ![c] = Idle]
      /\ market' = IF c = "event" THEN Redelivery(market, m) ELSE market
      /\ dropped' = dropped \union Abandoned(c)
      /\ UNCHANGED <<bars, vector, index, ready, crossed, manual>>

\* The process dies: a store in memory dies with it, an unacknowledged
\* message comes back.
FeatureCrash ==
  LET m == calc["event"].msg
  IN  /\ Fault
      /\ calc' = [c \in Callers |-> Idle]
      /\ market' = IF m = NoMessage THEN market ELSE Redelivery(market, m)
      /\ dropped' = IF Backend = "memory" THEN Symbols
                    ELSE dropped \union UNION {Abandoned(c) : c \in Callers}
      /\ vector' = IF Backend = "memory" THEN [s \in Symbols |-> 0] ELSE vector
      /\ index' = IF Backend = "memory" THEN {} ELSE index
      /\ UNCHANGED <<bars, ready, crossed, manual>>

FeatureStep(c) ==
  FetchBars(c) \/ StoreVector(c) \/ IndexVector(c) \/ PublishReady(c)

FeatureNext ==
  \/ \E s \in Symbols : NewBar(s)
  \/ \E s \in Asked : PostCompute(s)
  \/ \E m \in market : HandleMarketData(m)
  \/ \E c \in Callers : FeatureStep(c) \/ ComputeFails(c)
  \/ FeatureCrash

-----------------------------------------------------------------------------
(* The queries                                                             *)

\* get_ranked: the symbol among the indexed ones that have a vector.
GetRanked(s) ==
  LET universe == {t \in index : vector[t] > 0}
      seq      == SetToSeq(universe)
      at       == CHOOSE i \in 1..Len(seq) : seq[i] = s
  IN  IF s \in universe
        THEN <<CrossSectionalRank([i \in 1..Len(seq) |-> Vectors[seq[i]][vector[seq[i]]]])[at]>>
        ELSE <<>>

\* get_features: the vector of a symbol, whether indexed or not.
GetFeatures(s) == IF vector[s] > 0 THEN <<vector[s]>> ELSE <<>>

-----------------------------------------------------------------------------
FeatureTypeOK ==
  /\ bars \in [Symbols -> Nat] /\ vector \in [Symbols -> Nat]
  /\ index \subseteq Symbols
  /\ \A c \in Callers : calc[c].pc \in {"idle", "fetch", "store", "index", "publish"}
  /\ crossed \subseteq Symbols /\ dropped \subseteq Symbols

Waiting(s) == \/ \E m \in market : m.symbol = s
              \/ \E c \in Callers : calc[c].symbol = s

\* Once nothing is on its way for a symbol, its stored vector is that of its
\* latest bars, unless a message was given up or two computations crossed
\* (feature-engine service.py:54: the bars are read before the vector is put).
VectorIsCurrent ==
  \A s \in Symbols :
    ~Waiting(s) /\ s \notin crossed \union dropped /\ bars[s] >= MinBars
      => vector[s] = bars[s]

\* A vector the ranking does not see (store.py:57 writes the index after it)
\* is one whose computation is still to be completed or repeated.
UnindexedIsUnfinished ==
  \A s \in Symbols : vector[s] > 0 /\ s \notin index \union dropped => Waiting(s)
=============================================================================
