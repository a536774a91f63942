--------------------------- MODULE StrategyProofs ---------------------------
(***************************************************************************)
(* What feature-engine and strategy promise together, proved for any       *)
(* symbols, vectors, rules, writers' messages and bounds, and for either   *)
(* backend of the vector store.                                            *)
(*                                                                         *)
(* The argument follows the newest bar of a symbol.  Somebody is always    *)
(* answerable for it: its market message, the computation that read it,    *)
(* the stored vector and its features.ready message, the evaluation that   *)
(* read that vector, and at last the rules.  Each step hands it on, and    *)
(* the crash or failure of a step hands it back to an earlier one.         *)
(***************************************************************************)
EXTENDS Strategy, FiniteSetTheorems, TLAPS

MarketMessage == [symbol : Symbols, bar : Nat, tries : Nat]
ReadyMessage == [symbol : Symbols, no : Nat, tries : Nat]
Calculation ==
  [pc : {"idle", "fetch", "store", "index", "publish"}, symbol : Symbols \union {"none"},
   bars : Nat, msg : MarketMessage \union {NoMessage}]

\* ---- feature-engine ------------------------------------------------------
EngineTyped ==
  /\ bars \in [Symbols -> Nat] /\ vector \in [Symbols -> Nat]
  /\ market \subseteq MarketMessage
  /\ calc \in [Callers -> Calculation]
  /\ index \subseteq Symbols /\ crossed \subseteq Symbols /\ dropped \subseteq Symbols

\* A message announces a bar that is stored; the one being handled is not
\* acknowledged before the computation ends.
MessagesAreOfBars ==
  /\ \A m \in market : m.bar <= bars[m.symbol]
  /\ calc["event"].pc # "idle" =>
       calc["event"].msg \in market /\ calc["event"].msg.symbol = calc["event"].symbol
  /\ calc["http"].msg = NoMessage

HasRead(c) == calc[c].pc \in {"store", "index", "publish"}

CalculationsAreOfBars ==
  \A c \in Callers :
    /\ calc[c].pc = "idle" => calc[c] = Idle
    /\ calc[c].pc # "idle" => calc[c].symbol \in Symbols
    /\ HasRead(c) => MinBars <= calc[c].bars /\ calc[c].bars <= bars[calc[c].symbol]
    /\ calc[c].pc \in {"index", "publish"} => vector[calc[c].symbol] > 0
    /\ calc[c].pc = "publish" => calc[c].symbol \in index

OneCalculation ==
  \A s \in Symbols \ crossed : \E c \in Callers :
    calc[c].pc = "idle" \/ calc[c].symbol # s

VectorsAreOfBars ==
  \A s \in Symbols :
    /\ vector[s] <= bars[s]
    /\ s \in index \ dropped => vector[s] > 0

\* A market message whose bars are still to be read.
Unread(s) ==
  \E m \in market : m.symbol = s /\ ~(calc["event"].msg = m /\ HasRead("event"))
\* The subscriber's computation holds the latest bars.
InHand(s) ==
  calc["event"].symbol = s /\ calc["event"].pc = "store" /\ calc["event"].bars = bars[s]
Stored(s) ==
  /\ vector[s] = bars[s]
  /\ \A c \in Callers :
       calc[c].symbol = s /\ calc[c].pc = "store" => calc[c].bars = bars[s]

VectorToCome ==
  \A s \in Symbols \ (crossed \union dropped) :
    bars[s] >= MinBars => Unread(s) \/ InHand(s) \/ Stored(s)

IndexToCome ==
  \A s \in Symbols \ (index \union dropped) :
    vector[s] > 0 =>
      /\ bars[s] >= MinBars
      /\ \/ \E c \in Callers : calc[c].symbol = s /\ calc[c].pc = "index"
         \/ \E m \in market : m.symbol = s

EngineInv == /\ EngineTyped /\ MessagesAreOfBars /\ CalculationsAreOfBars /\ OneCalculation
             /\ VectorsAreOfBars /\ VectorToCome /\ IndexToCome

\* ---- the evaluations -----------------------------------------------------
\* Every field but the ranking, which is whatever the universe makes of it.
Evaluation(ranked) ==
  [pc : {"idle", "ranked", "raw", "portfolio", "rules"}, symbol : Symbols \union {"none"},
   active : SUBSET Enabled, ranked : {ranked}, raw : Nat, portfolio : Portfolios,
   msg : ReadyMessage \union {NoMessage}, caught : SUBSET Enabled, blind : BOOLEAN]

EvalShape ==
  /\ DOMAIN eval = Callers /\ eval = [c \in Callers |-> eval[c]]
  /\ \A c \in Callers : eval[c] \in Evaluation(eval[c].ranked)

EvalTyped ==
  /\ EvalShape
  /\ ready \subseteq ReadyMessage /\ IsFiniteSet(ready)
  /\ lastSeen \in [Symbols -> Nat] /\ forgotten \subseteq Symbols

\* An announced vector is indexed, and the message being evaluated is not
\* acknowledged before the evaluation ends.
ReadyIsIndexed == \A m \in ready : m.symbol \in index \union dropped

EvaluationsAreOfVectors ==
  /\ eval["event"].pc # "idle" =>
       eval["event"].msg \in ready /\ eval["event"].msg.symbol = eval["event"].symbol
  /\ eval["event"].pc = "idle" => eval["event"].msg = NoMessage
  /\ eval["http"].msg = NoMessage
  /\ \A c \in Callers :
       /\ eval[c].pc # "idle" => eval[c].symbol \in Symbols
       /\ eval[c].pc \in {"portfolio", "rules"} => eval[c].raw <= bars[eval[c].symbol]
  /\ eval["event"].pc = "raw" /\ eval["event"].ranked = <<>> => eval["event"].symbol \in dropped
  /\ \A s \in Symbols : lastSeen[s] <= bars[s]

\* A features.ready message whose evaluation will see, or has seen, the
\* latest vector.
Announced(s) ==
  \E m \in ready :
    /\ m.symbol = s
    /\ eval["event"].msg = m /\ eval["event"].pc \in {"portfolio", "rules"}
         => eval["event"].raw = bars[s]
ToAnnounce(s) == calc["event"].symbol = s /\ calc["event"].pc \in {"index", "publish"}

BarToCome ==
  \A s \in Symbols \ (crossed \union dropped \union forgotten) :
    bars[s] >= MinBars =>
      \/ lastSeen[s] = bars[s]
      \/ Unread(s) \/ InHand(s)
      \/ vector[s] = bars[s] /\ (ToAnnounce(s) \/ Announced(s))

EvalInv == EvalTyped /\ ReadyIsIndexed /\ EvaluationsAreOfVectors /\ BarToCome

\* ---- the status of a rule ------------------------------------------------
StatusTyped ==
  /\ status \in [Enabled -> Statuses] /\ believed \in [Enabled -> Statuses]
  /\ unsaid \subseteq Enabled
  /\ announcing = [w \in Writers |-> announcing[w]]
  /\ \A w \in Writers :
       \/ announcing[w] = NoChange
       \/ announcing[w].rule \in Enabled /\ announcing[w].status \in Statuses

\* One writer at most announces a rule, and it announces the rule's status.
OneAnnouncement ==
  \A r \in Enabled \ unsaid :
    /\ \A w \in Writers : announcing[w].rule = r => announcing[w].status = status[r]
    /\ \A v, w \in Writers : announcing[v].rule = r /\ announcing[w].rule = r => v = w

StatusInv == StatusTyped /\ OneAnnouncement /\ AnnouncedStatusIsTrue

\* ---- what an evaluation holds --------------------------------------------
ListedAreActive ==
  \A c \in Callers : \A r \in Enabled :
    eval[c].pc # "idle" /\ r \in eval[c].active
      => status[r] = "active" \/ r \in eval[c].caught

BookIsCurrent ==
  \A c \in Callers : eval[c].pc = "rules" => eval[c].portfolio = portfolio \/ eval[c].blind

DecisionInv == portfolio \in Portfolios /\ ListedAreActive /\ BookIsCurrent

IInv == EngineInv /\ EvalInv /\ StatusInv /\ DecisionInv

\* What a step of feature-engine may do to who answers for the latest bar.
HandOver ==
  \A t \in Symbols \ (crossed' \union dropped') :
    /\ bars'[t] = bars[t] \/ Unread(t)'
    /\ Unread(t) /\ bars'[t] >= MinBars => Unread(t)' \/ InHand(t)'
    /\ InHand(t) => Unread(t)' \/ InHand(t)' \/ (vector'[t] = bars'[t] /\ ToAnnounce(t)')
    /\ vector[t] = bars[t] /\ bars[t] >= MinBars
         => Unread(t)' \/ InHand(t)' \/ vector'[t] = bars'[t]
    /\ ToAnnounce(t) => \/ Unread(t)' \/ ToAnnounce(t)'
                        \/ \E m \in ready' \ ready : m.symbol = t

-----------------------------------------------------------------------------
(* Messages                                                                *)

LEMMA NoMessageIsNone ==
  /\ NoMessage \notin MarketMessage /\ NoMessage \notin ReadyMessage
  /\ NoMessage.symbol = "none"
<1>1. ASSUME NoMessage \in MarketMessage PROVE FALSE
  <2>1. "bar" \in DOMAIN NoMessage
    BY <1>1 DEF MarketMessage
  <2> QED
    BY <2>1 DEF NoMessage
<1>2. ASSUME NoMessage \in ReadyMessage PROVE FALSE
  <2>1. "no" \in DOMAIN NoMessage
    BY <1>2 DEF ReadyMessage
  <2> QED
    BY <2>1 DEF NoMessage
<1> QED
  BY <1>1, <1>2 DEF NoMessage

\* A message that failed is back with its count raised, or given up.
LEMMA MarketRedelivered ==
  ASSUME NEW q \in SUBSET MarketMessage, NEW m \in MarketMessage
  PROVE  /\ Redelivery(q, m) \subseteq MarketMessage
         /\ q \ {m} \subseteq Redelivery(q, m)
         /\ \A n \in Redelivery(q, m) \ q : n.symbol = m.symbol /\ n.bar = m.bar
         /\ GivenUp(m) \subseteq {m.symbol}
         /\ m.symbol \notin GivenUp(m) => \E n \in Redelivery(q, m) : n.symbol = m.symbol
<1> DEFINE n == [m EXCEPT !.tries = @ + 1]
<1>1. n \in MarketMessage /\ n.symbol = m.symbol /\ n.bar = m.bar /\ n.tries = m.tries + 1
  BY DEF MarketMessage
<1>2. MaxDeliver \in Nat /\ m.tries \in Nat
  BY FeatureEngineAssumption DEF MarketMessage
<1> HIDE DEF n
<1>3. Redelivery(q, m) = (q \ {m}) \union {x \in {n} : x.tries < MaxDeliver}
  BY DEF Redelivery, n
<1>4. GivenUp(m) = IF n.tries < MaxDeliver THEN {} ELSE {m.symbol}
  BY <1>1 DEF GivenUp
<1> QED
  BY <1>1, <1>2, <1>3, <1>4

LEMMA ReadyRedelivered ==
  ASSUME NEW q \in SUBSET ReadyMessage, IsFiniteSet(q), NEW m \in ReadyMessage
  PROVE  /\ Redelivery(q, m) \subseteq ReadyMessage /\ IsFiniteSet(Redelivery(q, m))
         /\ q \ {m} \subseteq Redelivery(q, m)
         /\ \A n \in Redelivery(q, m) \ q : n.symbol = m.symbol
         /\ GivenUp(m) \subseteq {m.symbol}
         /\ m.symbol \notin GivenUp(m) => \E n \in Redelivery(q, m) : n.symbol = m.symbol
<1> DEFINE n == [m EXCEPT !.tries = @ + 1]
<1>1. n \in ReadyMessage /\ n.symbol = m.symbol /\ n.tries = m.tries + 1
  BY DEF ReadyMessage
<1>2. MaxDeliver \in Nat /\ m.tries \in Nat
  BY FeatureEngineAssumption DEF ReadyMessage
<1> HIDE DEF n
<1>3. Redelivery(q, m) = (q \ {m}) \union {x \in {n} : x.tries < MaxDeliver}
  BY DEF Redelivery, n
<1>4. GivenUp(m) = IF n.tries < MaxDeliver THEN {} ELSE {m.symbol}
  BY <1>1 DEF GivenUp
<1>5. IsFiniteSet(q \ {m})
  BY FS_RemoveElement
<1>6. IsFiniteSet((q \ {m}) \union {n})
  BY <1>5, FS_AddElement
<1>7. Redelivery(q, m) \in SUBSET ((q \ {m}) \union {n})
  BY <1>3
<1>8. IsFiniteSet(Redelivery(q, m))
  BY <1>6, <1>7, FS_Subset
<1> QED
  BY <1>1, <1>2, <1>3, <1>4, <1>8

-----------------------------------------------------------------------------
(* feature-engine                                                          *)

LEMMA EngineInit == Init => EngineInv
<1> SUFFICES ASSUME Init PROVE EngineInv
  OBVIOUS
<1> USE FeatureEngineAssumption DEF Init, FeatureInit, Callers
<1>1. \A c \in Callers : calc[c] = Idle
  OBVIOUS
<1>2. Idle \in Calculation /\ Idle.pc = "idle" /\ Idle.msg = NoMessage /\ Idle.symbol = "none"
  BY DEF Idle, Calculation
<1>3. EngineTyped
  BY <1>2 DEF EngineTyped
<1>4. MessagesAreOfBars /\ CalculationsAreOfBars /\ VectorsAreOfBars
  BY <1>1, <1>2 DEF MessagesAreOfBars, CalculationsAreOfBars, VectorsAreOfBars, HasRead
<1>5. VectorToCome /\ IndexToCome /\ OneCalculation
  BY <1>1, <1>2 DEF VectorToCome, IndexToCome, Stored, OneCalculation
<1> QED
  BY <1>3, <1>4, <1>5 DEF EngineInv

LEMMA NewBarEngine ==
  ASSUME EngineInv, NEW s \in Symbols, NewBar(s)
  PROVE  EngineInv' /\ HandOver
<1> DEFINE m == [symbol |-> s, bar |-> bars[s] + 1, tries |-> 0]
<1> USE DEF EngineInv, history, Callers
<1>1. /\ m \in MarketMessage /\ m.symbol = s /\ m.bar = bars[s] + 1
      /\ market' = market \union {m}
      /\ bars' \in [Symbols -> Nat] /\ bars'[s] = bars[s] + 1
      /\ \A t \in Symbols : bars'[t] >= bars[t] /\ (t # s => bars'[t] = bars[t])
      /\ UNCHANGED <<calc, vector, index, crossed, dropped>>
  BY DEF NewBar, EngineTyped, MarketMessage
<1> HIDE DEF m
<1>2. EngineTyped'
  BY <1>1 DEF EngineTyped
<1>3. bars \in [Symbols -> Nat] /\ vector \in [Symbols -> Nat] /\ market \subseteq MarketMessage
      /\ calc \in [Callers -> Calculation] /\ MinBars \in Nat
  BY FeatureEngineAssumption DEF EngineTyped
<1>4. MessagesAreOfBars'
  <2>1. \A x \in market : x.symbol \in Symbols /\ x.bar \in Nat
    BY <1>3 DEF MarketMessage
  <2> QED
    BY <1>1, <1>3, <2>1 DEF MessagesAreOfBars
<1>5. CalculationsAreOfBars'
  <2>1. \A c \in Callers : calc[c].bars \in Nat /\ calc[c].symbol \in Symbols \union {"none"}
    BY <1>3 DEF Calculation
  <2>2. SUFFICES ASSUME NEW c \in Callers, HasRead(c)
                 PROVE  MinBars <= calc[c].bars /\ calc[c].bars <= bars'[calc[c].symbol]
    BY <1>1 DEF CalculationsAreOfBars, HasRead
  <2> QED
    BY <1>1, <1>3, <2>1, <2>2 DEF CalculationsAreOfBars, HasRead
<1>6. OneCalculation' /\ VectorsAreOfBars'
  BY <1>1, <1>3 DEF OneCalculation, VectorsAreOfBars
<1>7. Unread(s)'
  <2>1. ~(calc["event"].msg = m /\ HasRead("event"))
    BY <1>1, <1>3 DEF MessagesAreOfBars, HasRead
  <2> QED
    BY <1>1, <2>1 DEF Unread, HasRead
<1>8. VectorToCome'
  BY <1>1, <1>7 DEF VectorToCome, Unread, InHand, Stored, HasRead
<1>9. IndexToCome'
  BY <1>1, <1>3 DEF IndexToCome
<1>10. HandOver
  BY <1>1, <1>7 DEF HandOver, Unread, InHand, ToAnnounce, HasRead
<1> QED
  BY <1>2, <1>4, <1>5, <1>6, <1>8, <1>9, <1>10

\* A computation starts, for a message or for a request.
LEMMA StartEngine ==
  ASSUME EngineInv, NEW c \in Callers, NEW s \in Symbols, NEW m, Start(c, s, m),
         IF c = "event" THEN m \in market /\ m.symbol = s ELSE m = NoMessage,
         UNCHANGED <<bars, market, vector, index, dropped>>
  PROVE  EngineInv' /\ HandOver
<1> USE DEF EngineInv, Callers
<1>1. /\ calc[c].pc = "idle" /\ calc \in [Callers -> Calculation] /\ market \subseteq MarketMessage
      /\ calc' \in [Callers -> Calculation]
      /\ calc'[c] = [pc |-> "fetch", symbol |-> s, bars |-> 0, msg |-> m]
      /\ \A d \in Callers \ {c} : calc'[d] = calc[d]
      /\ crossed \subseteq crossed' /\ crossed' \subseteq Symbols
      /\ \A d \in Callers : calc[d].symbol = s => s \in crossed'
  BY DEF Start, EngineTyped, Calculation
<1>2. EngineTyped'
  BY <1>1 DEF EngineTyped
<1>3. MessagesAreOfBars' /\ CalculationsAreOfBars'
  BY <1>1 DEF MessagesAreOfBars, CalculationsAreOfBars, HasRead
<1>4. OneCalculation' /\ VectorsAreOfBars'
  BY <1>1 DEF OneCalculation, VectorsAreOfBars
<1>5. \A t \in Symbols :
        /\ Unread(t) => Unread(t)'
        /\ InHand(t) => InHand(t)'
        /\ Stored(t) => Stored(t)'
  <2>1. HasRead("event")' => c # "event" /\ HasRead("event")
    BY <1>1 DEF HasRead
  <2>2. HasRead("event")' => calc'["event"] = calc["event"]
    BY <1>1, <2>1
  <2>3. \A t \in Symbols : Unread(t) => Unread(t)'
    BY <2>1, <2>2 DEF Unread
  <2>4. \A t \in Symbols : InHand(t) => InHand(t)'
    BY <1>1 DEF InHand
  <2>5. \A t \in Symbols : Stored(t) => Stored(t)'
    BY <1>1 DEF Stored
  <2> QED
    BY <2>3, <2>4, <2>5
<1>6. VectorToCome' /\ IndexToCome'
  <2>1. VectorToCome'
    BY <1>1, <1>5 DEF VectorToCome
  <2>2. IndexToCome'
    BY <1>1, <1>5 DEF IndexToCome
  <2> QED
    BY <2>1, <2>2
<1>7. \A t \in Symbols : ToAnnounce(t) => ToAnnounce(t)'
  BY <1>1 DEF ToAnnounce
<1>8. HandOver
  BY <1>5, <1>7 DEF HandOver
<1> QED
  BY <1>2, <1>3, <1>4, <1>6, <1>8

\* The bars are read, or there are too few of them.
LEMMA FetchEngine ==
  ASSUME EngineInv, NEW c \in Callers, FetchBars(c)
  PROVE  EngineInv' /\ HandOver
<1> DEFINE s == calc[c].symbol
<1> USE DEF EngineInv, Callers
<1>1. /\ calc[c].pc = "fetch" /\ s \in Symbols /\ calc \in [Callers -> Calculation]
      /\ market \subseteq MarketMessage /\ MinBars \in Nat /\ bars \in [Symbols -> Nat]
      /\ calc[c].msg \in MarketMessage \union {NoMessage} /\ bars[s] \in Nat
      /\ c = "event" => calc[c].msg \in market /\ calc[c].msg.symbol = s
      /\ c # "event" => calc[c].msg \notin market
  BY NoMessageIsNone, FeatureEngineAssumption
     DEF FetchBars, EngineTyped, Calculation, CalculationsAreOfBars, MessagesAreOfBars
<1>2. UNCHANGED <<bars, vector, index, crossed, dropped>>
  BY DEF FetchBars, history
<1>3. CASE bars[s] < MinBars
  <2>1. /\ calc' = [calc EXCEPT ![c] = Idle] /\ market' = market \ {calc[c].msg}
    BY <1>3 DEF FetchBars, Finish
  <2>2. /\ calc' \in [Callers -> Calculation] /\ calc'[c] = Idle
        /\ \A d \in Callers \ {c} : calc'[d] = calc[d]
        /\ Idle.pc = "idle" /\ Idle.msg = NoMessage
    BY <1>1, <2>1 DEF Idle, Calculation
  <2>3. EngineTyped' /\ MessagesAreOfBars' /\ CalculationsAreOfBars' /\ OneCalculation'
        /\ VectorsAreOfBars'
    BY <1>1, <1>2, <2>1, <2>2
       DEF EngineTyped, MessagesAreOfBars, CalculationsAreOfBars, OneCalculation,
           VectorsAreOfBars, HasRead
  <2>4. \A m \in market : m.symbol # s => m \in market'
    BY <1>1, <2>1
  <2>5. \A t \in Symbols \ {s} :
          /\ Unread(t) => Unread(t)'
          /\ InHand(t) => InHand(t)'
          /\ Stored(t) => Stored(t)'
    BY <1>1, <1>2, <2>2, <2>4 DEF Unread, InHand, Stored, HasRead
  <2>6. VectorToCome' /\ IndexToCome'
    <3>1. VectorToCome'
      BY <1>1, <1>2, <1>3, <2>2, <2>4, <2>5 DEF VectorToCome
    <3>2. IndexToCome'
      BY <1>1, <1>2, <1>3, <2>2, <2>4, <2>5 DEF IndexToCome
    <3> QED
      BY <3>1, <3>2
  <2>7. HandOver
    BY <1>1, <1>2, <1>3, <2>2, <2>5 DEF HandOver, ToAnnounce, Unread, InHand
  <2> QED
    BY <2>3, <2>6, <2>7
<1>4. CASE ~(bars[s] < MinBars)
  <2>1. calc' = [calc EXCEPT ![c].pc = "store", ![c].bars = bars[s]] /\ market' = market
    BY <1>4 DEF FetchBars
  <2>2. /\ calc' \in [Callers -> Calculation]
        /\ calc'[c].pc = "store" /\ calc'[c].bars = bars[s] /\ calc'[c].symbol = s
        /\ calc'[c].msg = calc[c].msg /\ \A d \in Callers \ {c} : calc'[d] = calc[d]
    BY <1>1, <2>1 DEF Calculation
  <2>3. EngineTyped' /\ MessagesAreOfBars' /\ OneCalculation' /\ VectorsAreOfBars'
    BY <1>1, <1>2, <2>1, <2>2
       DEF EngineTyped, MessagesAreOfBars, OneCalculation, VectorsAreOfBars
  <2>4. CalculationsAreOfBars'
    BY <1>1, <1>2, <1>4, <2>2 DEF CalculationsAreOfBars, HasRead
  <2>5. \A t \in Symbols :
          /\ Unread(t) => Unread(t)' \/ (c = "event" /\ t = s)
          /\ InHand(t) => InHand(t)'
          /\ Stored(t) => Stored(t)'
    BY <1>1, <1>2, <2>1, <2>2 DEF Unread, InHand, Stored, HasRead
  <2>6. c = "event" => InHand(s)'
    BY <1>2, <2>2 DEF InHand
  <2>7. VectorToCome' /\ IndexToCome'
    <3>1. VectorToCome'
      BY <1>1, <1>2, <2>1, <2>2, <2>5, <2>6 DEF VectorToCome
    <3>2. IndexToCome'
      BY <1>1, <1>2, <2>1, <2>2, <2>5, <2>6 DEF IndexToCome
    <3> QED
      BY <3>1, <3>2
  <2>8. HandOver
    BY <1>1, <1>2, <2>2, <2>5, <2>6 DEF HandOver, ToAnnounce
  <2> QED
    BY <2>3, <2>4, <2>7, <2>8
<1> QED
  BY <1>3, <1>4

\* The vector is stored, and indexed with it where the store is a dictionary.
LEMMA StoreEngine ==
  ASSUME EngineInv, NEW c \in Callers, StoreVector(c)
  PROVE  EngineInv' /\ HandOver
<1> DEFINE s == calc[c].symbol
<1> USE DEF EngineInv, Callers
<1>1. /\ calc[c].pc = "store" /\ s \in Symbols /\ calc \in [Callers -> Calculation]
      /\ MinBars \in Nat \ {0} /\ bars \in [Symbols -> Nat] /\ vector \in [Symbols -> Nat]
      /\ index \subseteq Symbols
      /\ calc[c].bars \in Nat /\ MinBars <= calc[c].bars /\ calc[c].bars <= bars[s]
  BY FeatureEngineAssumption DEF StoreVector, EngineTyped, Calculation, CalculationsAreOfBars, HasRead
<1>2. /\ UNCHANGED <<bars, market, crossed, dropped>>
      /\ vector' = [vector EXCEPT ![s] = calc[c].bars]
      /\ calc' = [calc EXCEPT ![c].pc = calc'[c].pc]
      /\ calc'[c].pc \in {"index", "publish"}
      /\ index \subseteq index' /\ index' \subseteq index \union {s}
      /\ calc'[c].pc = "publish" => s \in index'
  BY <1>1 DEF StoreVector, history, Calculation
<1>3. /\ calc' \in [Callers -> Calculation]
      /\ calc'[c].bars = calc[c].bars /\ calc'[c].symbol = s
      /\ calc'[c].msg = calc[c].msg /\ \A d \in Callers \ {c} : calc'[d] = calc[d]
  BY <1>1, <1>2 DEF Calculation
<1>4. EngineTyped' /\ MessagesAreOfBars' /\ OneCalculation' /\ VectorsAreOfBars'
  BY <1>1, <1>2, <1>3 DEF EngineTyped, MessagesAreOfBars, OneCalculation, VectorsAreOfBars
<1>5. CalculationsAreOfBars'
  BY <1>1, <1>2, <1>3 DEF CalculationsAreOfBars, HasRead
<1>6. \A t \in Symbols :
        /\ Unread(t) => Unread(t)'
        /\ t # s /\ InHand(t) => InHand(t)'
        /\ t # s /\ Stored(t) => Stored(t)'
  BY <1>1, <1>2, <1>3 DEF Unread, InHand, Stored, HasRead
\* What is stored last is what the only computation of s held.
<1>7. ASSUME NEW t \in Symbols \ crossed, t = s, InHand(t) \/ Stored(t)
      PROVE  Stored(t)'
  <2>1. CASE InHand(t)
    <3>1. c = "event" /\ calc[c].bars = bars[t] /\ \A d \in Callers \ {c} :
            calc[d].symbol = t => calc[d].pc # "store"
      BY <1>1, <1>7, <2>1 DEF InHand, OneCalculation
    <3> QED
      BY <1>1, <1>2, <1>3, <1>7, <3>1 DEF Stored
  <2>2. CASE Stored(t)
    <3>1. calc[c].bars = bars[t] /\ \A d \in Callers \ {c} :
            calc[d].symbol = t /\ calc[d].pc = "store" => calc[d].bars = bars[t]
      BY <1>1, <1>7, <2>2 DEF Stored
    <3> QED
      BY <1>1, <1>2, <1>3, <1>7, <3>1 DEF Stored
  <2> QED
    BY <1>7, <2>1, <2>2
<1>8. VectorToCome'
  BY <1>1, <1>2, <1>6, <1>7 DEF VectorToCome
<1>9. IndexToCome'
  BY <1>1, <1>2, <1>3 DEF IndexToCome
<1>10. ASSUME NEW t \in Symbols \ (crossed' \union dropped'), t = s,
              InHand(t) \/ Stored(t)
       PROVE  vector'[t] = bars'[t] /\ (InHand(t) => ToAnnounce(t)')
  BY <1>1, <1>2, <1>3, <1>7, <1>10 DEF Stored, InHand, ToAnnounce, OneCalculation
<1>11. \A t \in Symbols : ToAnnounce(t) => ToAnnounce(t)'
  BY <1>1, <1>2, <1>3 DEF ToAnnounce
<1>12. HandOver
  BY <1>1, <1>2, <1>6, <1>10, <1>11 DEF HandOver, VectorToCome
<1> QED
  BY <1>4, <1>5, <1>8, <1>9, <1>12

LEMMA IndexEngine ==
  ASSUME EngineInv, NEW c \in Callers, IndexVector(c)
  PROVE  EngineInv' /\ HandOver
<1> DEFINE s == calc[c].symbol
<1> USE DEF EngineInv, Callers
<1>1. /\ calc[c].pc = "index" /\ s \in Symbols /\ calc \in [Callers -> Calculation]
      /\ index \subseteq Symbols /\ index' = index \union {s}
      /\ UNCHANGED <<bars, market, vector, crossed, dropped>>
      /\ calc' = [calc EXCEPT ![c].pc = "publish"]
  BY DEF IndexVector, EngineTyped, CalculationsAreOfBars, history
<1>2. /\ calc' \in [Callers -> Calculation] /\ calc'[c].pc = "publish"
      /\ calc'[c].bars = calc[c].bars /\ calc'[c].symbol = s
      /\ calc'[c].msg = calc[c].msg /\ \A d \in Callers \ {c} : calc'[d] = calc[d]
  BY <1>1 DEF Calculation
<1>3. EngineTyped' /\ MessagesAreOfBars' /\ OneCalculation'
  BY <1>1, <1>2 DEF EngineTyped, MessagesAreOfBars, OneCalculation
<1>4. CalculationsAreOfBars'
  BY <1>1, <1>2 DEF CalculationsAreOfBars, HasRead
<1>5. VectorsAreOfBars'
  BY <1>1 DEF VectorsAreOfBars, CalculationsAreOfBars
<1>6. \A t \in Symbols :
        /\ Unread(t) => Unread(t)'
        /\ InHand(t) => InHand(t)'
        /\ Stored(t) => Stored(t)'
  BY <1>1, <1>2 DEF Unread, InHand, Stored, HasRead
<1>7. VectorToCome' /\ IndexToCome'
  <2>1. VectorToCome'
    BY <1>1, <1>2, <1>6 DEF VectorToCome
  <2>2. IndexToCome'
    BY <1>1, <1>2, <1>6 DEF IndexToCome
  <2> QED
    BY <2>1, <2>2
<1>8. \A t \in Symbols : ToAnnounce(t) => ToAnnounce(t)'
  BY <1>1, <1>2 DEF ToAnnounce
<1>9. HandOver
  BY <1>1, <1>6, <1>8 DEF HandOver
<1> QED
  BY <1>3, <1>4, <1>5, <1>7, <1>9

\* There are more numbers than messages, so a message is always new.
LEMMA NewReady ==
  ASSUME ready \subseteq ReadyMessage, IsFiniteSet(ready)
  PROVE  FreeNumber \in Nat /\ \A m \in ready : m.no # FreeNumber
<1> DEFINE N == 0..Cardinality(ready)
           g == [n \in N |-> CHOOSE m \in ready : m.no = n]
<1>1. Cardinality(ready) \in Nat
  BY FS_CardinalityType
<1>2. IsFiniteSet(N) /\ Cardinality(N) = Cardinality(ready) + 1
  BY <1>1, FS_Interval
<1>3. \E n \in N : \A m \in ready : m.no # n
  <2> SUFFICES ASSUME \A n \in N : \E m \in ready : m.no = n PROVE FALSE
    OBVIOUS
  <2>1. g \in [N -> ready] /\ \A n \in N : g[n].no = n
    OBVIOUS
  <2> HIDE DEF g, N
  <2>2. Cardinality(ready) < Cardinality(N)
    BY <1>1, <1>2
  <2>3. \E x, y \in N : x # y /\ g[x] = g[y]
    BY <1>2, <2>1, <2>2, FS_PigeonHole
  <2> QED
    BY <2>1, <2>3
<1> QED
  BY <1>1, <1>3 DEF FreeNumber

LEMMA PublishEngine ==
  ASSUME EngineInv, ready \subseteq ReadyMessage, IsFiniteSet(ready), NEW c \in Callers, PublishReady(c)
  PROVE  EngineInv' /\ HandOver
<1> DEFINE s == calc[c].symbol
<1> USE DEF EngineInv, Callers
<1>1. /\ calc[c].pc = "publish" /\ s \in Symbols /\ calc \in [Callers -> Calculation]
      /\ market \subseteq MarketMessage /\ s \in index
      /\ c = "event" => calc[c].msg \in market /\ calc[c].msg.symbol = s
      /\ c # "event" => calc[c].msg \notin market
      /\ UNCHANGED <<bars, index, vector, crossed, dropped>>
      /\ calc' = [calc EXCEPT ![c] = Idle] /\ market' = market \ {calc[c].msg}
  BY NoMessageIsNone
     DEF PublishReady, Finish, EngineTyped, CalculationsAreOfBars, MessagesAreOfBars
<1>2. /\ calc' \in [Callers -> Calculation] /\ calc'[c] = Idle
      /\ \A d \in Callers \ {c} : calc'[d] = calc[d]
      /\ Idle.pc = "idle" /\ Idle.msg = NoMessage
  BY <1>1 DEF Idle, Calculation
<1>3. EngineTyped' /\ MessagesAreOfBars' /\ CalculationsAreOfBars' /\ OneCalculation'
      /\ VectorsAreOfBars'
  BY <1>1, <1>2
     DEF EngineTyped, MessagesAreOfBars, CalculationsAreOfBars, OneCalculation,
         VectorsAreOfBars, HasRead
<1>4. \A t \in Symbols :
        /\ Unread(t) => Unread(t)'
        /\ InHand(t) => InHand(t)'
        /\ Stored(t) => Stored(t)'
  BY <1>1, <1>2 DEF Unread, InHand, Stored, HasRead
<1>5. \A m \in market : m.symbol # s => m \in market'
  BY <1>1
<1>6. VectorToCome' /\ IndexToCome'
  <2>1. VectorToCome'
    BY <1>1, <1>2, <1>4, <1>5 DEF VectorToCome
  <2>2. IndexToCome'
    BY <1>1, <1>2, <1>4, <1>5 DEF IndexToCome
  <2> QED
    BY <2>1, <2>2
<1>7. \A t \in Symbols : ToAnnounce(t) =>
                           ToAnnounce(t)' \/ \E m \in ready' \ ready : m.symbol = t
  <2> DEFINE m == [symbol |-> s, no |-> FreeNumber, tries |-> 0]
  <2>1. ready' = ready \union {m} /\ m.symbol = s /\ m.no = FreeNumber
    BY DEF PublishReady
  <2> HIDE DEF m
  <2>2. m \in ready' \ ready
    BY <2>1, NewReady
  <2>3. \A t \in Symbols : ToAnnounce(t) => t = s \/ calc["event"] = calc'["event"]
    BY <1>1, <1>2 DEF ToAnnounce
  <2> QED
    BY <2>1, <2>2, <2>3 DEF ToAnnounce
<1>8. HandOver
  BY <1>1, <1>4, <1>7 DEF HandOver
<1> QED
  BY <1>3, <1>6, <1>8

\* What a failed subscriber leaves is its message, redelivered or given up.
LEMMA FailEngine ==
  ASSUME EngineInv, NEW c \in Callers, ComputeFails(c)
  PROVE  EngineInv' /\ HandOver
<1> DEFINE s == calc[c].symbol
           m == calc[c].msg
<1> USE DEF EngineInv, Callers
<1>1. /\ calc[c].pc # "idle" /\ s \in Symbols /\ calc \in [Callers -> Calculation]
      /\ market \subseteq MarketMessage
      /\ c = "event" => m \in market /\ m.symbol = s
      /\ UNCHANGED <<bars, index, vector, crossed>>
      /\ calc' = [calc EXCEPT ![c] = Idle]
      /\ market' = IF c = "event" THEN Redelivery(market, m) ELSE market
      /\ dropped' = dropped \union Abandoned(c)
  BY DEF ComputeFails, EngineTyped, CalculationsAreOfBars, MessagesAreOfBars
<1>2. /\ calc' \in [Callers -> Calculation] /\ calc'[c] = Idle
      /\ \A d \in Callers \ {c} : calc'[d] = calc[d]
      /\ Idle.pc = "idle" /\ Idle.msg = NoMessage
  BY <1>1 DEF Idle, Calculation
<1>3. Abandoned(c) \subseteq {s}
  BY <1>1, MarketRedelivered DEF Abandoned
<1>4. c = "event" => /\ market' \subseteq MarketMessage /\ market \ {m} \subseteq market'
                     /\ \A n \in market' \ market : n.symbol = s /\ n.bar = m.bar
                     /\ s \notin dropped' => \E n \in market' : n.symbol = s
  <2> SUFFICES ASSUME c = "event" PROVE <1>4!2
    OBVIOUS
  <2>1. Abandoned(c) = GivenUp(m)
    BY <1>1 DEF Abandoned
  <2> QED
    BY <1>1, <2>1, MarketRedelivered
<1>5. EngineTyped' /\ MessagesAreOfBars' /\ CalculationsAreOfBars' /\ OneCalculation'
      /\ VectorsAreOfBars'
  BY <1>1, <1>2, <1>3, <1>4
     DEF EngineTyped, MessagesAreOfBars, CalculationsAreOfBars, OneCalculation,
         VectorsAreOfBars, HasRead
<1>6. \A t \in Symbols \ dropped' :
        /\ Unread(t) => Unread(t)'
        /\ InHand(t) => InHand(t)' \/ Unread(t)'
        /\ Stored(t) => Stored(t)'
  <2>1. CASE c = "event"
    <3>1. ~HasRead("event")'
      BY <1>2, <2>1 DEF HasRead
    <3>2. \A t \in Symbols \ dropped' : (\E n \in market : n.symbol = t) => Unread(t)'
      BY <1>1, <1>4, <2>1, <3>1 DEF Unread
    <3>3. \A t \in Symbols \ dropped' : Unread(t) \/ InHand(t) => \E n \in market : n.symbol = t
      BY <1>1, <2>1 DEF Unread, InHand
    <3>4. \A t \in Symbols : Stored(t) => Stored(t)'
      BY <1>1, <1>2 DEF Stored
    <3> QED
      BY <3>2, <3>3, <3>4
  <2>2. CASE c # "event"
    <3>1. calc'["event"] = calc["event"] /\ UNCHANGED market
      BY <1>1, <1>2, <2>2
    <3> QED
      BY <1>1, <1>2, <3>1 DEF Unread, InHand, Stored, HasRead
  <2> QED
    BY <2>1, <2>2
<1>7. VectorToCome'
  BY <1>1, <1>6 DEF VectorToCome
<1>8. c # "event" /\ calc[c].pc = "index" => s \in dropped'
  BY <1>1 DEF Abandoned
<1>9. IndexToCome'
  BY <1>1, <1>2, <1>4, <1>8 DEF IndexToCome, MessagesAreOfBars
<1>10. \A t \in Symbols \ dropped' : ToAnnounce(t) => ToAnnounce(t)' \/ Unread(t)'
  BY <1>1, <1>2, <1>4 DEF ToAnnounce, Unread, HasRead
<1>11. HandOver
  BY <1>1, <1>6, <1>10 DEF HandOver
<1> QED
  BY <1>5, <1>7, <1>9, <1>11

LEMMA CrashEngine ==
  ASSUME EngineInv, FeatureCrash
  PROVE  EngineInv' /\ HandOver
<1> DEFINE m == calc["event"].msg
<1> USE DEF EngineInv, Callers
<1>1. /\ calc \in [Callers -> Calculation] /\ market \subseteq MarketMessage
      /\ UNCHANGED <<bars, crossed>> /\ Backend \in {"redis", "memory"}
      /\ calc' = [c \in Callers |-> Idle]
      /\ m \in market \/ m = NoMessage
      /\ m = NoMessage <=> calc["event"].pc = "idle"
      /\ m # NoMessage => m.symbol = calc["event"].symbol /\ m.symbol \in Symbols
      /\ market' = IF m = NoMessage THEN market ELSE Redelivery(market, m)
  BY NoMessageIsNone, FeatureEngineAssumption
     DEF FeatureCrash, EngineTyped, CalculationsAreOfBars, MessagesAreOfBars, Idle
<1>2. /\ calc' \in [Callers -> Calculation] /\ \A c \in Callers : calc'[c] = Idle
      /\ Idle.pc = "idle" /\ Idle.msg = NoMessage /\ Idle.symbol = "none"
  BY <1>1 DEF Idle, Calculation
<1>3. /\ market' \subseteq MarketMessage /\ market \ {m} \subseteq market'
      /\ \A n \in market' \ market : n.symbol = m.symbol /\ n.bar = m.bar
      /\ m # NoMessage /\ m.symbol \notin GivenUp(m) => \E n \in market' : n.symbol = m.symbol
  BY <1>1, MarketRedelivered
<1>4. CASE Backend = "memory"
  <2>1. dropped' = Symbols /\ vector' = [t \in Symbols |-> 0] /\ index' = {}
    BY <1>4 DEF FeatureCrash
  <2>2. EngineTyped' /\ MessagesAreOfBars' /\ CalculationsAreOfBars' /\ OneCalculation'
        /\ VectorsAreOfBars'
    BY <1>1, <1>2, <1>3, <2>1
       DEF EngineTyped, MessagesAreOfBars, CalculationsAreOfBars, OneCalculation,
           VectorsAreOfBars, HasRead
  <2>3. VectorToCome' /\ IndexToCome'
    BY <2>1 DEF VectorToCome, IndexToCome
  <2>4. HandOver
    BY <2>1 DEF HandOver
  <2> QED
    BY <2>2, <2>3, <2>4
<1>5. CASE Backend # "memory"
  <2>1. /\ UNCHANGED <<vector, index>>
        /\ dropped' = dropped \union UNION {Abandoned(c) : c \in Callers}
    BY <1>5 DEF FeatureCrash
  <2>2. \A c \in Callers : Abandoned(c) \subseteq Symbols /\ Abandoned(c) \subseteq dropped'
    <3>1. \A c \in Callers : calc[c].pc = "idle" \/ calc[c].symbol \in Symbols
      BY DEF CalculationsAreOfBars
    <3>2. m # NoMessage => GivenUp(m) \subseteq Symbols
      <4>1. m # NoMessage => m \in MarketMessage
        BY <1>1
      <4> QED
        BY <1>1, <4>1, MarketRedelivered
    <3>3. ASSUME NEW c \in Callers PROVE Abandoned(c) \subseteq Symbols
      <4>1. CASE calc[c].pc = "idle"
        BY <4>1 DEF Abandoned
      <4>2. CASE calc[c].pc # "idle" /\ c = "event"
        BY <1>1, <3>2, <4>2 DEF Abandoned
      <4>3. CASE calc[c].pc # "idle" /\ c # "event"
        BY <3>1, <4>3 DEF Abandoned
      <4> QED
        BY <4>1, <4>2, <4>3
    <3> QED
      BY <2>1, <3>3
  <2>3. EngineTyped' /\ MessagesAreOfBars' /\ CalculationsAreOfBars' /\ OneCalculation'
        /\ VectorsAreOfBars'
    BY <1>1, <1>2, <1>3, <2>1, <2>2
       DEF EngineTyped, MessagesAreOfBars, CalculationsAreOfBars, OneCalculation,
           VectorsAreOfBars, HasRead
  <2>4. m # NoMessage => GivenUp(m) \subseteq dropped'
    BY <1>1, <2>2 DEF Abandoned
  <2>5. \A t \in Symbols \ dropped' : (\E n \in market : n.symbol = t) => Unread(t)'
    BY <1>1, <1>2, <1>3, <2>4 DEF Unread, HasRead
  <2>6. \A t \in Symbols \ dropped' :
          /\ Unread(t) => Unread(t)'
          /\ InHand(t) => Unread(t)'
          /\ Stored(t) => Stored(t)'
    BY <1>1, <1>2, <2>1, <2>5 DEF Unread, InHand, Stored
  <2>7. VectorToCome'
    BY <1>1, <2>1, <2>6 DEF VectorToCome
  <2>8. \A t \in Symbols \ dropped' : \A c \in Callers :
          calc[c].symbol = t /\ calc[c].pc = "index" => \E n \in market : n.symbol = t
    BY <1>1, <2>2 DEF Abandoned
  <2>9. IndexToCome'
    BY <1>1, <2>1, <2>5, <2>8 DEF IndexToCome, Unread
  <2>10. \A t \in Symbols \ dropped' : ToAnnounce(t) => Unread(t)'
    BY <1>1, <2>5 DEF ToAnnounce
  <2>11. HandOver
    BY <1>1, <2>1, <2>6, <2>10 DEF HandOver
  <2> QED
    BY <2>3, <2>7, <2>9, <2>11
<1> QED
  BY <1>4, <1>5

LEMMA EngineStep ==
  ASSUME EngineInv, ready \subseteq ReadyMessage, IsFiniteSet(ready), FeatureNext
  PROVE  EngineInv' /\ HandOver
<1>1. ASSUME NEW m \in market, HandleMarketData(m) PROVE EngineInv' /\ HandOver
  <2>1. m \in market /\ m.symbol \in Symbols
    BY DEF EngineInv, EngineTyped, MarketMessage
  <2> QED
    BY <1>1, <2>1, StartEngine DEF HandleMarketData, Callers
<1>2. ASSUME NEW s \in Asked, PostCompute(s) PROVE EngineInv' /\ HandOver
  <2>1. s \in Symbols
    BY FeatureEngineAssumption
  <2> QED
    BY <1>2, <2>1, StartEngine DEF PostCompute, Callers
<1> QED
  BY <1>1, <1>2, NewBarEngine, FetchEngine, StoreEngine, IndexEngine, PublishEngine, FailEngine,
     CrashEngine DEF FeatureNext, FeatureStep

\* The strategies read what feature-engine keeps.
LEMMA StrategyLeavesEngine ==
  ASSUME StrategyNext
  PROVE  UNCHANGED <<bars, market, calc, vector, index, crossed, dropped>>
BY DEF StrategyNext, ApplyRevalidation, UpdateHealth, PublishStatusChanged, PublishStatusFails,
       HandleFeaturesReady, PostEvaluate, Evaluate, QueryRanked, QueryFeatures, QueryPortfolio,
       EvaluateRule, InvalidLevels, EndEvaluation, PortfolioUnavailable, EvaluationFails,
       PortfolioMoves, StrategyCrash, featureVars, engine, history

LEMMA EngineUnchanged ==
  ASSUME EngineInv, UNCHANGED <<bars, market, calc, vector, index, crossed, dropped>>
  PROVE  EngineInv'
BY DEF EngineInv, EngineTyped, MessagesAreOfBars, CalculationsAreOfBars, OneCalculation,
       VectorsAreOfBars, VectorToCome, IndexToCome, Unread, InHand, Stored, HasRead

-----------------------------------------------------------------------------
(* The evaluations                                                         *)

LEMMA EvalInit == Init => EvalInv
<1> SUFFICES ASSUME Init PROVE EvalInv
  OBVIOUS
<1> USE FeatureEngineAssumption, StrategyAssumption DEF Init, FeatureInit, Callers
<1>1. \A c \in Callers : eval[c] = Asleep
  OBVIOUS
<1>2. /\ Asleep \in Evaluation(Asleep.ranked) /\ Asleep.pc = "idle" /\ Asleep.msg = NoMessage
  BY DEF Asleep, Evaluation
<1>3. IsFiniteSet({})
  BY FS_EmptySet
<1>4. EvalTyped
  BY <1>1, <1>2, <1>3 DEF EvalTyped, EvalShape
<1>5. ReadyIsIndexed /\ EvaluationsAreOfVectors
  BY <1>1, <1>2 DEF ReadyIsIndexed, EvaluationsAreOfVectors
<1>6. BarToCome
  BY DEF BarToCome
<1> QED
  BY <1>4, <1>5, <1>6 DEF EvalInv

\* A step of feature-engine may add a message, and an index loses no symbol
\* but with the whole store.
FeatureKeeps ==
  /\ ready \subseteq ready' /\ ready' \subseteq ReadyMessage /\ IsFiniteSet(ready')
  /\ \A m \in ready' \ ready : m.symbol \in index'
  /\ dropped \subseteq dropped' /\ crossed \subseteq crossed'
  /\ index \subseteq index' \/ dropped' = Symbols
  /\ \A s \in Symbols : bars'[s] \in Nat /\ bars'[s] >= bars[s]

LEMMA FeatureKept ==
  ASSUME EngineInv, EvalTyped, FeatureNext
  PROVE  FeatureKeeps
<1> USE DEF Callers
<1>1. /\ bars \in [Symbols -> Nat] /\ dropped \subseteq Symbols
      /\ ready \subseteq ReadyMessage /\ IsFiniteSet(ready)
  BY DEF EngineInv, EngineTyped, EvalTyped
<1>2. ASSUME UNCHANGED <<bars, ready>>, dropped \subseteq dropped', crossed \subseteq crossed',
             index \subseteq index' \/ dropped' = Symbols
      PROVE  FeatureKeeps
  BY <1>1, <1>2 DEF FeatureKeeps
<1>3. ASSUME NEW s \in Symbols, NewBar(s) PROVE FeatureKeeps
  BY <1>1, <1>3 DEF FeatureKeeps, NewBar, history
<1>4. ASSUME NEW s \in Asked, PostCompute(s) PROVE FeatureKeeps
  BY <1>2, <1>4 DEF PostCompute, Start
<1>5. ASSUME NEW m \in market, HandleMarketData(m) PROVE FeatureKeeps
  BY <1>2, <1>5 DEF HandleMarketData, Start
<1>6. ASSUME NEW c \in Callers, PublishReady(c) PROVE FeatureKeeps
  <2> DEFINE m == [symbol |-> calc[c].symbol, no |-> FreeNumber, tries |-> 0]
  <2>1. /\ ready' = ready \union {m} /\ m.symbol = calc[c].symbol
        /\ UNCHANGED <<bars, index, dropped, crossed>> /\ calc[c].pc = "publish"
    BY <1>6 DEF PublishReady
  <2>2. m \in ReadyMessage /\ m.symbol \in index
    BY <1>1, <2>1, NewReady DEF ReadyMessage, EngineInv, CalculationsAreOfBars
  <2> HIDE DEF m
  <2>3. IsFiniteSet(ready')
    BY <1>1, <2>1, FS_AddElement
  <2> QED
    BY <1>1, <2>1, <2>2, <2>3 DEF FeatureKeeps
<1>7. ASSUME NEW c \in Callers, FetchBars(c) \/ StoreVector(c) \/ IndexVector(c) \/ ComputeFails(c)
      PROVE  FeatureKeeps
  BY <1>2, <1>7 DEF FetchBars, StoreVector, IndexVector, ComputeFails, history
<1>8. ASSUME FeatureCrash PROVE FeatureKeeps
  BY <1>1, <1>2, <1>8 DEF FeatureCrash
<1> QED
  BY <1>3, <1>4, <1>5, <1>6, <1>7, <1>8 DEF FeatureNext, FeatureStep

LEMMA EvalByFeature ==
  ASSUME EngineInv, EvalInv, FeatureKeeps, HandOver, EngineInv',
         UNCHANGED <<eval, lastSeen, forgotten>>
  PROVE  EvalInv'
<1> USE DEF EvalInv, Callers
<1>1. /\ bars \in [Symbols -> Nat] /\ index \subseteq Symbols /\ index' \subseteq Symbols
      /\ lastSeen \in [Symbols -> Nat] /\ ready \subseteq ReadyMessage
      /\ \A c \in Callers : eval[c].raw \in Nat
  BY DEF EngineInv, EngineTyped, EvalTyped, EvalShape, Evaluation
<1>2. EvalTyped'
  BY DEF EvalTyped, EvalShape, FeatureKeeps
<1>3. ReadyIsIndexed'
  BY <1>1 DEF ReadyIsIndexed, FeatureKeeps, ReadyMessage
<1>4. EvaluationsAreOfVectors'
  BY <1>1 DEF EvaluationsAreOfVectors, FeatureKeeps
<1>5. ASSUME NEW t \in Symbols, bars'[t] = bars[t], Announced(t) PROVE Announced(t)'
  BY <1>5 DEF Announced, FeatureKeeps
<1>6. ASSUME NEW m \in ready' \ ready PROVE Announced(m.symbol)'
  <2>1. eval["event"].pc \in {"portfolio", "rules"} => eval["event"].msg # m
    BY <1>6 DEF EvaluationsAreOfVectors
  <2> QED
    BY <2>1 DEF Announced
<1>7. BarToCome'
  <2> SUFFICES ASSUME NEW t \in Symbols, t \notin crossed' \union dropped' \union forgotten,
                      bars'[t] >= MinBars, ~Unread(t)', ~InHand(t)'
               PROVE  \/ lastSeen[t] = bars'[t]
                      \/ vector'[t] = bars'[t] /\ (ToAnnounce(t)' \/ Announced(t)')
    BY DEF BarToCome
  <2>1. bars'[t] = bars[t] /\ t \notin crossed \union dropped \union forgotten
    BY DEF HandOver, FeatureKeeps
  <2>2. \/ lastSeen[t] = bars[t] \/ InHand(t)
        \/ vector[t] = bars[t] /\ (ToAnnounce(t) \/ Announced(t))
    BY <2>1 DEF BarToCome, HandOver
  <2>3. InHand(t) => vector'[t] = bars'[t] /\ ToAnnounce(t)'
    BY DEF HandOver
  <2>4. vector[t] = bars[t] => vector'[t] = bars'[t]
    BY <2>1 DEF HandOver
  <2>5. ToAnnounce(t) => ToAnnounce(t)' \/ Announced(t)'
    BY <1>6 DEF HandOver
  <2> QED
    BY <1>5, <2>1, <2>2, <2>3, <2>4, <2>5
<1> QED
  BY <1>2, <1>3, <1>4, <1>7

\* What feature-engine keeps, as the strategies' steps leave it.
Kept == UNCHANGED <<bars, market, calc, vector, index, crossed, dropped>>

\* What a step of the strategies may do to who answers for the latest bar.
EvalHandOver ==
  \A t \in Symbols \ (crossed \union dropped \union forgotten') :
    /\ lastSeen[t] = bars[t] => lastSeen'[t] = bars[t]
    /\ vector[t] = bars[t] /\ bars[t] >= MinBars /\ Announced(t)
         => Announced(t)' \/ lastSeen'[t] = bars[t]

LEMMA BarHandedOver ==
  ASSUME BarToCome, EvalHandOver, Kept, forgotten \subseteq forgotten'
  PROVE  BarToCome'
BY DEF BarToCome, EvalHandOver, Kept, Unread, InHand, ToAnnounce, HasRead

LEMMA OneEvaluation ==
  ASSUME EvalShape, NEW c \in Callers, NEW e, e \in Evaluation(e.ranked),
         eval' = [eval EXCEPT ![c] = e]
  PROVE  EvalShape' /\ eval'[c] = e /\ \A d \in Callers \ {c} : eval'[d] = eval[d]
<1>1. eval' = [d \in Callers |-> IF d = c THEN e ELSE eval[d]]
  BY DEF EvalShape
<1> QED
  BY <1>1 DEF EvalShape

LEMMA AsleepTyped ==
  /\ Asleep \in Evaluation(Asleep.ranked) /\ Asleep.pc = "idle" /\ Asleep.msg = NoMessage
  /\ Asleep.active = {} /\ Asleep.caught = {}
BY StrategyAssumption DEF Asleep, Evaluation

\* The fields an evaluation's step writes, one lemma for each step.
LEMMA RawWritten ==
  ASSUME NEW e, e \in Evaluation(e.ranked), NEW raw \in Nat
  PROVE  LET f == [e EXCEPT !.pc = "portfolio", !.raw = raw]
         IN  /\ f \in Evaluation(f.ranked) /\ f.pc = "portfolio" /\ f.raw = raw
             /\ f.symbol = e.symbol /\ f.msg = e.msg
BY DEF Evaluation

LEMMA PortfolioWritten ==
  ASSUME NEW e, e \in Evaluation(e.ranked), NEW p \in Portfolios
  PROVE  /\ LET f == [e EXCEPT !.pc = "rules", !.portfolio = p]
            IN  /\ f \in Evaluation(f.ranked) /\ f.pc = "rules" /\ f.raw = e.raw
                /\ f.symbol = e.symbol /\ f.msg = e.msg
         /\ LET f == [e EXCEPT !.pc = "rules", !.portfolio = p, !.blind = TRUE]
            IN  /\ f \in Evaluation(f.ranked) /\ f.pc = "rules" /\ f.raw = e.raw
                /\ f.symbol = e.symbol /\ f.msg = e.msg
<1> DEFINE f == [e EXCEPT !.pc = "rules", !.portfolio = p]
<1>2. /\ f \in Evaluation(f.ranked) /\ f.pc = "rules" /\ f.raw = e.raw
      /\ f.symbol = e.symbol /\ f.msg = e.msg
  BY DEF Evaluation
<1> DEFINE g == [e EXCEPT !.pc = "rules", !.portfolio = p, !.blind = TRUE]
<1>4. /\ g \in Evaluation(g.ranked) /\ g.pc = "rules" /\ g.raw = e.raw
      /\ g.symbol = e.symbol /\ g.msg = e.msg
  BY DEF Evaluation
<1> QED
  BY <1>2, <1>4

LEMMA ActiveWritten ==
  ASSUME NEW e, e \in Evaluation(e.ranked), NEW r
  PROVE  LET f == [e EXCEPT !.active = @ \ {r}]
         IN  /\ f \in Evaluation(f.ranked) /\ f.pc = e.pc /\ f.raw = e.raw
             /\ f.symbol = e.symbol /\ f.msg = e.msg
BY DEF Evaluation

\* What is known of the caller of an evaluation in progress.
LEMMA EvaluationFacts ==
  ASSUME EngineInv, EvalInv, NEW c \in Callers, eval[c].pc # "idle"
  PROVE  /\ eval[c] \in Evaluation(eval[c].ranked) /\ EvalShape
         /\ eval[c].symbol \in Symbols /\ eval[c].raw \in Nat
         /\ c = "event" => eval[c].msg \in ready /\ eval[c].msg.symbol = eval[c].symbol
         /\ c # "event" => eval[c].msg = NoMessage /\ eval[c].msg \notin ready
         /\ ready \subseteq ReadyMessage /\ IsFiniteSet(ready)
         /\ lastSeen \in [Symbols -> Nat] /\ bars \in [Symbols -> Nat]
         /\ vector \in [Symbols -> Nat]
BY NoMessageIsNone
   DEF EngineInv, EngineTyped, EvalInv, EvalTyped, EvalShape, Evaluation, EvaluationsAreOfVectors,
       Callers

\* An evaluation begins, with its message if it has one.
LEMMA BeginEval ==
  ASSUME EngineInv, EvalInv, NEW c \in Callers, NEW s \in Symbols, NEW m, eval[c].pc = "idle",
         BeginEvaluation(c, s, m),
         IF c = "event" THEN m \in ready /\ m.symbol = s ELSE m = NoMessage,
         Kept, UNCHANGED <<ready, lastSeen, forgotten>>
  PROVE  EvalInv'
<1> DEFINE e == [Asleep EXCEPT !.pc = "ranked", !.symbol = s, !.active = ActiveRules, !.msg = m]
<1> USE DEF EvalInv, Callers
<1>1. EvalShape /\ ready \subseteq ReadyMessage
  BY DEF EvalTyped
<1>2. /\ e \in Evaluation(e.ranked) /\ e.pc = "ranked" /\ e.symbol = s /\ e.msg = m
  BY <1>1, StrategyAssumption DEF Asleep, Evaluation, ActiveRules
<1>3. eval' = [eval EXCEPT ![c] = e]
  BY DEF BeginEvaluation
<1> HIDE DEF e
<1>4. EvalShape' /\ eval'[c] = e /\ \A d \in Callers \ {c} : eval'[d] = eval[d]
  BY <1>1, <1>2, <1>3, OneEvaluation
<1>5. EvalTyped' /\ ReadyIsIndexed'
  BY <1>4 DEF EvalTyped, ReadyIsIndexed, Kept
<1>6. EvaluationsAreOfVectors'
  BY <1>2, <1>4 DEF EvaluationsAreOfVectors, Kept
<1>7. EvalHandOver
  BY <1>2, <1>4 DEF EvalHandOver, Announced, Kept
<1> QED
  BY <1>5, <1>6, <1>7, BarHandedOver

\* An evaluation ends with its message acknowledged.
LEMMA DoneEval ==
  ASSUME EngineInv, EvalInv, NEW c \in Callers, eval[c].pc # "idle", Done(c), Kept,
         lastSeen' \in [Symbols -> Nat], forgotten' \subseteq Symbols, forgotten \subseteq forgotten',
         \A t \in Symbols : lastSeen'[t] <= bars[t] /\ lastSeen[t] <= lastSeen'[t],
         LET s == eval[c].symbol
         IN  /\ c = "event" /\ s \notin dropped \union forgotten'
             /\ vector[s] = bars[s] /\ bars[s] >= MinBars
             /\ eval[c].pc \in {"portfolio", "rules"} => eval[c].raw = bars[s]
             => lastSeen'[s] = bars[s]
  PROVE  EvalInv'
<1> USE DEF EvalInv, Callers
<1>1. /\ eval' = [eval EXCEPT ![c] = Asleep] /\ ready' = ready \ {eval[c].msg}
  BY DEF Done
<1>2. EvalShape' /\ eval'[c] = Asleep /\ \A d \in Callers \ {c} : eval'[d] = eval[d]
  BY <1>1, EvaluationFacts, AsleepTyped, OneEvaluation
<1>3. EvalTyped'
  <2>1. IsFiniteSet(ready')
    BY <1>1, EvaluationFacts, FS_RemoveElement
  <2> QED
    BY <1>1, <1>2, <2>1 DEF EvalTyped
<1>4. ReadyIsIndexed'
  BY <1>1 DEF ReadyIsIndexed, Kept
<1>5. c # "event" => ready' = ready
  BY <1>1, EvaluationFacts
<1>6. EvaluationsAreOfVectors'
  BY <1>2, <1>5, AsleepTyped DEF EvaluationsAreOfVectors, Kept
<1>7. EvalHandOver
  <2> SUFFICES ASSUME NEW t \in Symbols, t \notin crossed \union dropped \union forgotten'
               PROVE  /\ lastSeen[t] = bars[t] => lastSeen'[t] = bars[t]
                      /\ vector[t] = bars[t] /\ bars[t] >= MinBars /\ Announced(t)
                           => Announced(t)' \/ lastSeen'[t] = bars[t]
    BY DEF EvalHandOver
  <2>1. lastSeen[t] = bars[t] => lastSeen'[t] = bars[t]
    BY EvaluationFacts
  <2>2. CASE c # "event"
    <3>1. eval'["event"] = eval["event"] /\ ready' = ready
      BY <1>2, <1>5, <2>2
    <3>2. Announced(t) => Announced(t)'
      BY <3>1 DEF Announced, Kept
    <3> QED
      BY <2>1, <3>2
  <2>3. CASE c = "event"
    <3>1. \A m \in ready' : m.symbol = t => Announced(t)'
      BY <1>2, <2>3, AsleepTyped DEF Announced
    <3>2. Announced(t) =>
            \/ \E m \in ready' : m.symbol = t
            \/ t = eval[c].symbol /\ (eval[c].pc \in {"portfolio", "rules"} => eval[c].raw = bars[t])
      BY <1>1, <2>3, EvaluationFacts DEF Announced
    <3> QED
      BY <2>1, <2>3, <3>1, <3>2
  <2> QED
    BY <2>2, <2>3
<1> QED
  BY <1>3, <1>4, <1>6, <1>7, BarHandedOver

\* An evaluation moves on: it keeps its caller's message, and what it has read
\* is the vector stored now, or what it had read before.
LEMMA EvalMoves ==
  ASSUME EngineInv, EvalInv, NEW c \in Callers, eval[c].pc # "idle", NEW e,
         e \in Evaluation(e.ranked), eval' = [eval EXCEPT ![c] = e],
         e.symbol = eval[c].symbol, e.msg = eval[c].msg, e.pc # "idle",
         e.raw = eval[c].raw \/ e.raw = vector[e.symbol],
         e.pc \in {"portfolio", "rules"} =>
           \/ eval[c].pc \in {"portfolio", "rules"} /\ e.raw = eval[c].raw
           \/ e.raw = vector[e.symbol],
         c = "event" /\ e.pc = "raw" /\ e.ranked = <<>> => e.symbol \in dropped,
         Kept, UNCHANGED <<ready, lastSeen, forgotten>>
  PROVE  EvalInv'
<1> USE DEF EvalInv, Callers
<1>1. EvalShape' /\ eval'[c] = e /\ \A d \in Callers \ {c} : eval'[d] = eval[d]
  BY EvaluationFacts, OneEvaluation
<1>2. EvalTyped' /\ ReadyIsIndexed'
  BY <1>1 DEF EvalTyped, ReadyIsIndexed, Kept
<1>3. vector[e.symbol] <= bars[e.symbol]
  BY EvaluationFacts DEF EngineInv, VectorsAreOfBars
<1>4. EvaluationsAreOfVectors'
  BY <1>1, <1>3, EvaluationFacts DEF EvaluationsAreOfVectors, Kept
<1>5. EvalHandOver
  <2> SUFFICES ASSUME NEW t \in Symbols, vector[t] = bars[t], Announced(t)
               PROVE  Announced(t)'
    BY DEF EvalHandOver
  <2>1. CASE c # "event"
    BY <1>1, <2>1 DEF Announced, Kept
  <2>2. CASE c = "event"
    <3>1. PICK m \in ready :
            /\ m.symbol = t
            /\ eval[c].msg = m /\ eval[c].pc \in {"portfolio", "rules"} => eval[c].raw = bars[t]
      BY <2>2 DEF Announced
    <3>2. e.msg = m /\ e.pc \in {"portfolio", "rules"} => e.raw = bars[t]
      BY <2>2, <3>1, EvaluationFacts
    <3> QED
      BY <1>1, <2>2, <3>1, <3>2 DEF Announced, Kept
  <2> QED
    BY <2>1, <2>2
<1> QED
  BY <1>2, <1>4, <1>5, BarHandedOver

\* Other parts of an evaluation change, or nothing does.
LEMMA EvalStays ==
  ASSUME EngineInv, EvalInv, EvalShape', Kept, UNCHANGED <<ready, lastSeen, forgotten>>,
         \A c \in Callers :
           /\ eval'[c].pc = eval[c].pc /\ eval'[c].symbol = eval[c].symbol
           /\ eval'[c].raw = eval[c].raw /\ eval'[c].msg = eval[c].msg
           /\ eval'[c].ranked = eval[c].ranked
  PROVE  EvalInv'
<1> USE DEF EvalInv, Callers
<1>1. EvalTyped' /\ ReadyIsIndexed' /\ EvaluationsAreOfVectors'
  BY DEF EvalTyped, ReadyIsIndexed, EvaluationsAreOfVectors, Kept
<1>2. EvalHandOver
  BY DEF EvalHandOver, Announced, Kept
<1> QED
  BY <1>1, <1>2, BarHandedOver

\* The evaluations of the process end; a message comes back or is given up.
LEMMA EvalAborted ==
  ASSUME EngineInv, EvalInv, EvalShape', Kept, UNCHANGED lastSeen,
         \A c \in Callers : eval'[c] = Asleep \/ (c # "event" /\ eval'[c] = eval[c]),
         LET m == eval["event"].msg
         IN  IF m = NoMessage THEN UNCHANGED <<ready, forgotten>>
             ELSE ready' = Redelivery(ready, m) /\ forgotten' = forgotten \union GivenUp(m)
  PROVE  EvalInv'
<1> DEFINE m == eval["event"].msg
<1> USE DEF EvalInv, Callers
<1>1. /\ m # NoMessage => /\ m \in ready /\ m \in ReadyMessage /\ m.symbol \in Symbols
                          /\ ready' = Redelivery(ready, m)
                          /\ forgotten' = forgotten \union GivenUp(m)
      /\ m = NoMessage => UNCHANGED <<ready, forgotten>>
      /\ ready \subseteq ReadyMessage /\ IsFiniteSet(ready)
  BY DEF EvaluationsAreOfVectors, EvalTyped, ReadyMessage
<1>2. /\ ready' \subseteq ReadyMessage /\ IsFiniteSet(ready')
      /\ ready \ {m} \subseteq ready' /\ \A n \in ready' \ ready : n.symbol = m.symbol /\ m \in ready
      /\ forgotten \subseteq forgotten' /\ forgotten' \subseteq forgotten \union Symbols
      /\ m \in ready => m.symbol \in forgotten' \/ \E n \in ready' : n.symbol = m.symbol
  <2>1. CASE m = NoMessage
    BY <1>1, <2>1, NoMessageIsNone
  <2>2. CASE m # NoMessage
    BY <1>1, <2>2, ReadyRedelivered
  <2> QED
    BY <2>1, <2>2
<1>3. eval'["event"].pc = "idle" /\ eval'["event"].msg = NoMessage
  BY AsleepTyped
<1>4. EvalTyped' /\ ReadyIsIndexed'
  BY <1>2 DEF EvalTyped, ReadyIsIndexed, Kept
<1>5. EvaluationsAreOfVectors'
  BY <1>3, AsleepTyped DEF EvaluationsAreOfVectors, Kept
<1>6. \A t : (\E n \in ready' : n.symbol = t) => Announced(t)'
  BY <1>3 DEF Announced
<1>7. EvalHandOver
  BY <1>2, <1>6 DEF EvalHandOver, Announced
<1> QED
  BY <1>2, <1>4, <1>5, <1>7, BarHandedOver

\* A symbol that is indexed and stored has a ranking, and a vector.
LEMMA QueriesAnswer ==
  ASSUME NEW s
  PROVE  /\ GetRanked(s) = <<>> => s \notin index \/ ~(vector[s] > 0)
         /\ GetFeatures(s) = <<>> <=> ~(vector[s] > 0)
         /\ vector[s] > 0 => GetFeatures(s)[1] = vector[s]
<1>1. \A x : <<x>> # <<>> /\ <<x>>[1] = x
  OBVIOUS
<1>2. s \in index /\ vector[s] > 0 => GetRanked(s) # <<>>
  BY <1>1, Zenon DEF GetRanked
<1>3. /\ vector[s] > 0 => GetFeatures(s) = <<vector[s]>>
      /\ ~(vector[s] > 0) => GetFeatures(s) = <<>>
  BY DEF GetFeatures
<1> QED
  BY <1>1, <1>2, <1>3

LEMMA RankedEval ==
  ASSUME EngineInv, EvalInv, NEW c \in Callers, QueryRanked(c)
  PROVE  EvalInv'
<1> DEFINE s == eval[c].symbol
           ranked == GetRanked(s)
           e == [eval[c] EXCEPT !.pc = "raw", !.ranked = ranked]
<1>1. Kept /\ eval[c].pc = "ranked" /\ eval[c].pc # "idle" /\ UNCHANGED forgotten
  BY DEF QueryRanked, Kept, history
<1>2. s \in Symbols /\ vector[s] <= bars[s] /\ vector[s] \in Nat /\ lastSeen[s] \in Nat
  BY <1>1, EvaluationFacts DEF EngineInv, VectorsAreOfBars
<1>3. CASE eval[c].active = {}
  <2>1. Done(c) /\ lastSeen' = [lastSeen EXCEPT ![s] = IF @ < vector[s] THEN vector[s] ELSE @]
    BY <1>3 DEF QueryRanked, Newer
  <2>2. lastSeen \in [Symbols -> Nat] /\ \A t \in Symbols : lastSeen[t] <= bars[t]
    BY DEF EvalInv, EvalTyped, EvaluationsAreOfVectors
  <2>3. /\ lastSeen' \in [Symbols -> Nat]
        /\ \A t \in Symbols : lastSeen'[t] <= bars[t] /\ lastSeen[t] <= lastSeen'[t]
        /\ vector[s] = bars[s] => lastSeen'[s] = bars[s]
    BY <1>2, <2>1, <2>2
  <2>4. forgotten \subseteq forgotten' /\ forgotten' \subseteq Symbols
    BY <1>1 DEF EvalInv, EvalTyped
  <2> QED
    BY <1>1, <2>1, <2>3, <2>4, DoneEval
<1>4. CASE eval[c].active # {}
  <2>1. eval' = [eval EXCEPT ![c] = e] /\ UNCHANGED <<ready, lastSeen>>
    BY <1>4 DEF QueryRanked
  <2>2. /\ e \in Evaluation(ranked) /\ e.pc = "raw" /\ e.ranked = ranked /\ e.symbol = s
        /\ e.msg = eval[c].msg /\ e.raw = eval[c].raw
    BY <1>1, EvaluationFacts DEF Evaluation
  <2> HIDE DEF e, ranked
  <2>3. c = "event" /\ ranked = <<>> => s \in dropped
    <3>1. ASSUME c = "event", s \notin dropped PROVE s \in index /\ vector[s] > 0
      BY <1>1, <1>2, <3>1, EvaluationFacts DEF EvalInv, ReadyIsIndexed, EngineInv, VectorsAreOfBars
    <3> QED
      BY <3>1, QueriesAnswer DEF ranked
  <2> QED
    BY <1>1, <2>1, <2>2, <2>3, EvalMoves
<1> QED
  BY <1>3, <1>4

LEMMA FeaturesEval ==
  ASSUME EngineInv, EvalInv, NEW c \in Callers, QueryFeatures(c)
  PROVE  EvalInv'
<1> DEFINE s == eval[c].symbol
           raw == GetFeatures(s)
           e == [eval[c] EXCEPT !.pc = "portfolio", !.raw = raw[1]]
<1>1. Kept /\ eval[c].pc = "raw" /\ eval[c].pc # "idle" /\ UNCHANGED <<forgotten, lastSeen>>
  BY DEF QueryFeatures, Kept, history, strategyHist
<1>2. s \in Symbols /\ vector[s] \in Nat /\ MinBars \in Nat \ {0}
  BY <1>1, EvaluationFacts, FeatureEngineAssumption
<1>3. CASE eval[c].ranked = <<>> \/ raw = <<>>
  <2>1. Done(c)
    BY <1>3 DEF QueryFeatures
  <2>2. /\ lastSeen' \in [Symbols -> Nat] /\ forgotten \subseteq forgotten' /\ forgotten' \subseteq Symbols
        /\ \A t \in Symbols : lastSeen'[t] <= bars[t] /\ lastSeen[t] <= lastSeen'[t]
    BY <1>1 DEF EvalInv, EvalTyped, EvaluationsAreOfVectors
  <2>3. ASSUME c = "event", s \notin dropped, vector[s] = bars[s], bars[s] >= MinBars
        PROVE  FALSE
    <3>1. eval[c].ranked # <<>>
      BY <1>1, <2>3 DEF EvalInv, EvaluationsAreOfVectors
    <3> QED
      BY <1>2, <1>3, <2>3, <3>1, QueriesAnswer
  <2> QED
    BY <1>1, <2>1, <2>2, <2>3, DoneEval
<1>4. CASE ~(eval[c].ranked = <<>> \/ raw = <<>>)
  <2>1. eval' = [eval EXCEPT ![c] = e] /\ UNCHANGED ready
    BY <1>4 DEF QueryFeatures
  <2>2. raw[1] = vector[s]
    BY <1>4, QueriesAnswer
  <2>3. raw[1] \in Nat /\ eval[c] \in Evaluation(eval[c].ranked)
    BY <1>1, <1>2, <2>2, EvaluationFacts
  <2> HIDE DEF raw
  <2>4. /\ e \in Evaluation(e.ranked) /\ e.pc = "portfolio" /\ e.symbol = s
        /\ e.msg = eval[c].msg /\ e.raw = vector[s]
    BY <2>2, <2>3, RawWritten
  <2> HIDE DEF e
  <2> QED
    BY <1>1, <2>1, <2>4, EvalMoves
<1> QED
  BY <1>3, <1>4

LEMMA PortfolioEval ==
  ASSUME EngineInv, EvalInv, portfolio \in Portfolios, NEW c \in Callers,
         QueryPortfolio(c) \/ PortfolioUnavailable(c) \/ EvaluateRule(c)
  PROVE  EvalInv'
<1>1. /\ Kept /\ UNCHANGED <<ready, lastSeen, forgotten>> /\ StaticPortfolio \in Portfolios
      /\ eval[c].pc \in {"portfolio", "rules"} /\ eval[c].pc # "idle"
      /\ eval[c] \in Evaluation(eval[c].ranked)
  BY EvaluationFacts, StrategyAssumption
     DEF QueryPortfolio, PortfolioUnavailable, EvaluateRule, Kept, featureVars, engine, history,
         strategyHist
<1>2. ASSUME NEW e, eval' = [eval EXCEPT ![c] = e], e \in Evaluation(e.ranked), e.pc = "rules",
             e.raw = eval[c].raw, e.symbol = eval[c].symbol, e.msg = eval[c].msg
      PROVE  EvalInv'
  BY <1>1, <1>2, EvalMoves
<1>3. CASE QueryPortfolio(c)
  <2> DEFINE e == [eval[c] EXCEPT !.pc = "rules", !.portfolio = portfolio]
  <2>1. eval' = [eval EXCEPT ![c] = e]
    BY <1>3 DEF QueryPortfolio
  <2>2. /\ e \in Evaluation(e.ranked) /\ e.pc = "rules" /\ e.raw = eval[c].raw
        /\ e.symbol = eval[c].symbol /\ e.msg = eval[c].msg
    BY <1>1, PortfolioWritten
  <2> HIDE DEF e
  <2> QED
    BY <1>2, <2>1, <2>2
<1>4. CASE PortfolioUnavailable(c)
  <2> DEFINE e == [eval[c] EXCEPT !.pc = "rules", !.portfolio = StaticPortfolio, !.blind = TRUE]
  <2>1. eval' = [eval EXCEPT ![c] = e]
    BY <1>4 DEF PortfolioUnavailable
  <2>2. /\ e \in Evaluation(e.ranked) /\ e.pc = "rules" /\ e.raw = eval[c].raw
        /\ e.symbol = eval[c].symbol /\ e.msg = eval[c].msg
    BY <1>1, PortfolioWritten
  <2> HIDE DEF e
  <2> QED
    BY <1>2, <2>1, <2>2
<1>5. CASE EvaluateRule(c)
  <2> DEFINE e == [eval[c] EXCEPT !.active = @ \ {NextRule(c)}]
  <2>1. eval' = [eval EXCEPT ![c] = e] /\ eval[c].pc = "rules"
    BY <1>5 DEF EvaluateRule
  <2>2. /\ e \in Evaluation(e.ranked) /\ e.pc = eval[c].pc /\ e.raw = eval[c].raw
        /\ e.symbol = eval[c].symbol /\ e.msg = eval[c].msg
    BY <1>1, ActiveWritten
  <2> HIDE DEF e
  <2> QED
    BY <1>2, <2>1, <2>2
<1> QED
  BY <1>3, <1>4, <1>5

LEMMA EndEval ==
  ASSUME EngineInv, EvalInv, NEW c \in Callers, InvalidLevels(c) \/ EndEvaluation(c)
  PROVE  EvalInv'
<1> DEFINE s == eval[c].symbol
<1>1. /\ Kept /\ eval[c].pc = "rules" /\ eval[c].pc # "idle" /\ Done(c)
  BY DEF InvalidLevels, EndEvaluation, Kept, history
<1>2. /\ s \in Symbols /\ eval[c].raw \in Nat /\ eval[c].raw <= bars[s]
      /\ lastSeen \in [Symbols -> Nat] /\ bars \in [Symbols -> Nat]
      /\ \A t \in Symbols : lastSeen[t] <= bars[t]
      /\ forgotten \subseteq Symbols
  BY <1>1, EvaluationFacts DEF EvalInv, EvalTyped, EvaluationsAreOfVectors
<1>3. CASE InvalidLevels(c)
  <2>1. /\ lastSeen' = lastSeen
        /\ forgotten' = IF c = "event" THEN forgotten \union {s} ELSE forgotten
    BY <1>3 DEF InvalidLevels
  <2>2. /\ lastSeen' \in [Symbols -> Nat] /\ forgotten' \subseteq Symbols /\ forgotten \subseteq forgotten'
        /\ \A t \in Symbols : lastSeen'[t] <= bars[t] /\ lastSeen[t] <= lastSeen'[t]
        /\ c = "event" => s \in forgotten'
    BY <1>2, <2>1
  <2> QED
    BY <1>1, <2>2, DoneEval
<1>4. CASE EndEvaluation(c)
  <2>1. /\ lastSeen' = [lastSeen EXCEPT ![s] = IF @ < eval[c].raw THEN eval[c].raw ELSE @]
        /\ UNCHANGED forgotten
    BY <1>4 DEF EndEvaluation, Newer
  <2>2. /\ lastSeen' \in [Symbols -> Nat]
        /\ \A t \in Symbols : lastSeen'[t] <= bars[t] /\ lastSeen[t] <= lastSeen'[t]
        /\ eval[c].raw = bars[s] => lastSeen'[s] = bars[s]
    BY <1>2, <2>1
  <2> QED
    BY <1>1, <1>2, <2>1, <2>2, DoneEval
<1> QED
  BY <1>3, <1>4

LEMMA FailEval ==
  ASSUME EngineInv, EvalInv, NEW c \in Callers, EvaluationFails(c)
  PROVE  EvalInv'
<1>1. /\ Kept /\ UNCHANGED lastSeen /\ eval[c].pc # "idle"
      /\ eval' = [eval EXCEPT ![c] = Asleep]
      /\ ready' = IF c = "event" THEN Redelivery(ready, eval[c].msg) ELSE ready
      /\ forgotten' = IF c = "event" THEN forgotten \union GivenUp(eval[c].msg) ELSE forgotten
  BY DEF EvaluationFails, Kept
<1>2. EvalShape' /\ eval'[c] = Asleep /\ \A d \in Callers \ {c} : eval'[d] = eval[d]
  BY <1>1, EvaluationFacts, AsleepTyped, OneEvaluation
<1>3. CASE c = "event"
  <2>1. eval["event"].msg # NoMessage
    BY <1>1, <1>3, EvaluationFacts, NoMessageIsNone
  <2> QED
    BY <1>1, <1>2, <1>3, <2>1, EvalAborted
<1>4. CASE c # "event"
  <2>1. /\ UNCHANGED <<ready, forgotten>> /\ eval'["event"] = eval["event"]
        /\ \A d \in Callers : eval'[d] = Asleep \/ eval'[d] = eval[d]
    BY <1>1, <1>2, <1>4 DEF Callers
  <2>2. EvalTyped' /\ ReadyIsIndexed'
    BY <1>1, <1>2, <2>1 DEF EvalInv, EvalTyped, ReadyIsIndexed, Kept
  <2>3. EvaluationsAreOfVectors'
    BY <1>1, <2>1, AsleepTyped, <1>2, <1>4 DEF EvalInv, EvaluationsAreOfVectors, Kept, Callers
  <2>4. EvalHandOver
    BY <1>1, <2>1 DEF EvalHandOver, Announced, Kept
  <2> QED
    BY <1>1, <2>1, <2>2, <2>3, <2>4, BarHandedOver DEF EvalInv
<1> QED
  BY <1>3, <1>4

LEMMA CrashEval ==
  ASSUME EngineInv, EvalInv, StrategyCrash
  PROVE  EvalInv'
<1>1. /\ Kept /\ UNCHANGED lastSeen /\ eval' = [c \in Callers |-> Asleep]
      /\ LET m == eval["event"].msg
         IN  IF m = NoMessage THEN UNCHANGED <<ready, forgotten>>
             ELSE ready' = Redelivery(ready, m) /\ forgotten' = forgotten \union GivenUp(m)
  BY DEF StrategyCrash, Kept
<1>2. EvalShape' /\ \A c \in Callers : eval'[c] = Asleep
  BY <1>1, AsleepTyped DEF EvalShape
<1> QED
  BY <1>1, <1>2, EvalAborted

\* A rule taken out of service, or the book moving, is noted beside what the
\* evaluation holds.
LEMMA CaughtEval ==
  ASSUME EvalShape, NEW r \in Enabled, NEW new
  PROVE  LET f == Caught(r, new)
         IN  /\ DOMAIN f = Callers /\ f = [c \in Callers |-> f[c]]
             /\ \A c \in Callers :
                  /\ f[c] \in Evaluation(f[c].ranked)
                  /\ f[c].pc = eval[c].pc /\ f[c].symbol = eval[c].symbol
                  /\ f[c].raw = eval[c].raw /\ f[c].msg = eval[c].msg
                  /\ f[c].ranked = eval[c].ranked /\ f[c].active = eval[c].active
                  /\ f[c].portfolio = eval[c].portfolio /\ f[c].blind = eval[c].blind
                  /\ eval[c].caught \subseteq f[c].caught
                  /\ eval[c].pc # "idle" /\ r \in eval[c].active /\ new # "active"
                       => r \in f[c].caught
<1> DEFINE f == Caught(r, new)
<1>1. ASSUME NEW e, e \in Evaluation(e.ranked)
      PROVE  LET g == [e EXCEPT !.caught = @ \union {r}]
             IN  /\ g \in Evaluation(g.ranked)
                 /\ g.pc = e.pc /\ g.symbol = e.symbol /\ g.raw = e.raw /\ g.msg = e.msg
                 /\ g.ranked = e.ranked /\ g.active = e.active
                 /\ g.portfolio = e.portfolio /\ g.blind = e.blind
                 /\ e.caught \subseteq g.caught /\ r \in g.caught
  BY <1>1 DEF Evaluation
<1>2. ASSUME NEW c \in Callers
      PROVE  /\ f[c] \in Evaluation(f[c].ranked)
             /\ f[c].pc = eval[c].pc /\ f[c].symbol = eval[c].symbol
             /\ f[c].raw = eval[c].raw /\ f[c].msg = eval[c].msg
             /\ f[c].ranked = eval[c].ranked /\ f[c].active = eval[c].active
             /\ f[c].portfolio = eval[c].portfolio /\ f[c].blind = eval[c].blind
             /\ eval[c].caught \subseteq f[c].caught
             /\ eval[c].pc # "idle" /\ r \in eval[c].active /\ new # "active"
                  => r \in f[c].caught
  <2>1. f[c] = IF eval[c].pc # "idle" /\ r \in eval[c].active /\ new # "active"
                 THEN [eval[c] EXCEPT !.caught = @ \union {r}] ELSE eval[c]
    BY DEF Caught
  <2>2. eval[c] \in Evaluation(eval[c].ranked)
    BY DEF EvalShape
  <2> QED
    BY <1>1, <2>1, <2>2
<1>3. DOMAIN f = Callers /\ f = [c \in Callers |-> f[c]]
  BY DEF Caught
<1> QED
  BY <1>2, <1>3

LEMMA StatusEval ==
  ASSUME EngineInv, EvalInv, NEW w, NEW r \in Enabled, NEW new, NEW msg,
         SetStatus(w, r, new, msg), Kept, UNCHANGED <<ready, lastSeen, forgotten>>
  PROVE  EvalInv'
<1>1. EvalShape /\ eval' = Caught(r, new)
  BY DEF SetStatus, EvalInv, EvalTyped
<1>2. EvalShape'
  BY <1>1, CaughtEval DEF EvalShape
<1> QED
  BY <1>1, <1>2, CaughtEval, EvalStays

LEMMA BookEval ==
  ASSUME EngineInv, EvalInv, NEW p, PortfolioMoves(p)
  PROVE  EvalInv'
<1>1. Kept /\ UNCHANGED <<ready, lastSeen, forgotten>> /\ EvalShape
  BY DEF PortfolioMoves, Kept, engine, EvalInv, EvalTyped
<1>2. ASSUME NEW e, e \in Evaluation(e.ranked)
      PROVE  LET g == [e EXCEPT !.blind = TRUE]
             IN  /\ g \in Evaluation(g.ranked) /\ g.pc = e.pc /\ g.symbol = e.symbol
                 /\ g.raw = e.raw /\ g.msg = e.msg /\ g.ranked = e.ranked
  BY <1>2 DEF Evaluation
<1>3. eval' = [c \in Callers |-> IF eval[c].pc = "rules" THEN [eval[c] EXCEPT !.blind = TRUE]
                                 ELSE eval[c]]
  BY DEF PortfolioMoves
<1>4. ASSUME NEW c \in Callers
      PROVE  /\ eval'[c] \in Evaluation(eval'[c].ranked)
             /\ eval'[c].pc = eval[c].pc /\ eval'[c].symbol = eval[c].symbol
             /\ eval'[c].raw = eval[c].raw /\ eval'[c].msg = eval[c].msg
             /\ eval'[c].ranked = eval[c].ranked
  <2>1. eval'[c] = IF eval[c].pc = "rules" THEN [eval[c] EXCEPT !.blind = TRUE] ELSE eval[c]
    BY <1>3
  <2>2. eval[c] \in Evaluation(eval[c].ranked)
    BY <1>1 DEF EvalShape
  <2> QED
    BY <1>2, <2>1, <2>2
<1>5. EvalShape'
  BY <1>3, <1>4 DEF EvalShape
<1> QED
  BY <1>1, <1>4, <1>5, EvalStays

LEMMA EvalStep ==
  ASSUME EngineInv, EvalInv, portfolio \in Portfolios, StrategyNext
  PROVE  EvalInv'
<1> USE DEF Callers, Writers
<1>1. ASSUME EvalShape', Kept, UNCHANGED <<ready, eval, lastSeen, forgotten>> PROVE EvalInv'
  BY <1>1, EvalStays
<1>2. EvalShape
  BY DEF EvalInv, EvalTyped
<1>3. ASSUME NEW d \in reval, ApplyRevalidation(d) PROVE EvalInv'
  <2> DEFINE r == d.msg.strategy
  <2>1. Kept /\ UNCHANGED <<ready, lastSeen, forgotten>>
    BY <1>3 DEF ApplyRevalidation, Kept, featureVars, engine, history
  <2>2. CASE r \notin Enabled \/ d.msg.status \notin DOMAIN RecommendedToStatus
    <3>1. UNCHANGED eval
      BY <1>3, <2>2 DEF ApplyRevalidation
    <3>2. EvalShape'
      BY <1>2, <3>1 DEF EvalShape
    <3> QED
      BY <1>1, <2>1, <3>1, <3>2
  <2>3. CASE ~(r \notin Enabled \/ d.msg.status \notin DOMAIN RecommendedToStatus)
    <3>1. SetStatus("backtest", r, RecommendedToStatus[d.msg.status], <<d>>) /\ r \in Enabled
      BY <1>3, <2>3 DEF ApplyRevalidation
    <3> QED
      BY <2>1, <3>1, StatusEval
  <2> QED
    BY <2>2, <2>3
<1>4. ASSUME NEW m \in Metrics, UpdateHealth(m) PROVE EvalInv'
  <2>1. /\ Kept /\ UNCHANGED <<ready, lastSeen, forgotten>> /\ m.strategy \in Enabled
        /\ SetStatus("http", m.strategy, DecayStatus(m), <<>>)
    BY <1>4 DEF UpdateHealth, Kept, engine
  <2> QED
    BY <2>1, StatusEval
<1>5. ASSUME NEW w \in Writers, PublishStatusChanged(w) \/ PublishStatusFails(w) PROVE EvalInv'
  <2>1. Kept /\ UNCHANGED <<ready, eval, lastSeen, forgotten>>
    BY <1>5 DEF PublishStatusChanged, PublishStatusFails, Kept, featureVars, engine, history
  <2>2. EvalShape'
    BY <1>2, <2>1 DEF EvalShape
  <2> QED
    BY <1>1, <2>1, <2>2
<1>6. ASSUME NEW m \in ready, HandleFeaturesReady(m) PROVE EvalInv'
  <2>1. /\ Kept /\ UNCHANGED <<ready, lastSeen, forgotten>> /\ eval["event"].pc = "idle"
        /\ BeginEvaluation("event", m.symbol, m)
    BY <1>6 DEF HandleFeaturesReady, Kept, featureVars, engine, history
  <2>2. m.symbol \in Symbols
    BY DEF EvalInv, EvalTyped, ReadyMessage
  <2> QED
    BY <2>1, <2>2, BeginEval
<1>7. ASSUME NEW s \in Asked, PostEvaluate(s) PROVE EvalInv'
  <2>1. /\ Kept /\ UNCHANGED <<ready, lastSeen, forgotten>> /\ eval["http"].pc = "idle"
        /\ BeginEvaluation("http", s, NoMessage) /\ s \in Symbols
    BY <1>7, FeatureEngineAssumption DEF PostEvaluate, Kept, engine
  <2> QED
    BY <2>1, BeginEval
<1>8. ASSUME NEW p \in Portfolios, PortfolioMoves(p) PROVE EvalInv'
  BY <1>8, BookEval
<1>9. ASSUME NEW c \in Callers, Evaluate(c) \/ PortfolioUnavailable(c) \/ EvaluationFails(c)
      PROVE  EvalInv'
  BY <1>9, RankedEval, FeaturesEval, PortfolioEval, EndEval, FailEval DEF Evaluate
<1> QED
  BY <1>3, <1>4, <1>5, <1>6, <1>7, <1>8, <1>9, CrashEval DEF StrategyNext

-----------------------------------------------------------------------------
(* The status of a rule                                                    *)

LEMMA NoChangeIsNone ==
  NoChange.rule \notin Enabled
<1>1. NoChange.rule = "none" /\ "none" \notin RuleNames
  BY DEF NoChange, RuleNames
<1> QED
  BY <1>1, StrategyAssumption

LEMMA StatusInit == Init => StatusInv
<1> SUFFICES ASSUME Init PROVE StatusInv
  OBVIOUS
<1>1. /\ status = [r \in Enabled |-> "active"] /\ believed = status /\ unsaid = {}
      /\ announcing = [w \in Writers |-> NoChange]
  BY DEF Init
<1>2. StatusTyped
  BY <1>1 DEF StatusTyped, Statuses
<1>3. OneAnnouncement /\ AnnouncedStatusIsTrue
  BY <1>1, NoChangeIsNone DEF OneAnnouncement, AnnouncedStatusIsTrue
<1> QED
  BY <1>2, <1>3 DEF StatusInv

\* A writer that is not announcing moves a rule.
LEMMA SetStatusKeeps ==
  ASSUME StatusInv, NEW w \in Writers, NEW r \in Enabled, NEW new \in Statuses, NEW msg,
         announcing[w] = NoChange, SetStatus(w, r, new, msg), UNCHANGED believed
  PROVE  StatusInv'
<1> DEFINE k == [rule |-> r, status |-> new, msg |-> msg]
<1> USE DEF StatusInv
<1>1. /\ status \in [Enabled -> Statuses] /\ status' = [status EXCEPT ![r] = new]
      /\ unsaid \subseteq unsaid' /\ unsaid' \subseteq unsaid \union {r}
      /\ announcing = [v \in Writers |-> announcing[v]]
  BY DEF SetStatus, StatusTyped
<1>2. CASE status[r] = new
  <2>1. UNCHANGED <<status, announcing, unsaid>>
    BY <1>1, <1>2 DEF SetStatus
  <2> QED
    BY <2>1 DEF StatusTyped, OneAnnouncement, AnnouncedStatusIsTrue
<1>3. CASE status[r] # new
  <2>1. announcing' = [announcing EXCEPT ![w] = k] /\ k.rule = r /\ k.status = new
    BY <1>3 DEF SetStatus
  <2> HIDE DEF k
  <2>2. announcing'[w] = k /\ \A v \in Writers \ {w} : announcing'[v] = announcing[v]
    BY <1>1, <2>1
  <2>3. announcing' = [v \in Writers |-> announcing'[v]]
    BY <1>1, <2>1
  <2>4. r \notin unsaid' => \A v \in Writers \ {w} : announcing[v].rule # r
    BY <1>3 DEF SetStatus
  <2>5. StatusTyped'
    BY <1>1, <2>1, <2>2, <2>3 DEF StatusTyped
  <2>6. ASSUME NEW q \in Enabled \ unsaid'
        PROVE  /\ \A v \in Writers : announcing'[v].rule = q => announcing'[v].status = status'[q]
               /\ \A u, v \in Writers : announcing'[u].rule = q /\ announcing'[v].rule = q => u = v
               /\ (\A v \in Writers : announcing'[v].rule # q) => believed'[q] = status'[q]
    <3>1. CASE q = r
      BY <1>1, <2>1, <2>2, <2>4, <2>6, <3>1
    <3>2. CASE q # r
      <4>1. q \in Enabled \ unsaid /\ status'[q] = status[q]
        BY <1>1, <2>6, <3>2
      <4>2. \A v \in Writers : announcing'[v].rule = q <=> announcing[v].rule = q
        BY <2>1, <2>2, <3>2, NoChangeIsNone
      <4>3. \A v \in Writers : announcing'[v].rule = q => announcing'[v] = announcing[v]
        BY <2>1, <2>2, <3>2
      <4> QED
        BY <4>1, <4>2, <4>3 DEF OneAnnouncement, AnnouncedStatusIsTrue
    <3> QED
      BY <3>1, <3>2
  <2> QED
    BY <2>5, <2>6 DEF OneAnnouncement, AnnouncedStatusIsTrue
<1> QED
  BY <1>2, <1>3

LEMMA StatusStep ==
  ASSUME StatusInv, StrategyNext
  PROVE  StatusInv'
<1> USE DEF StatusInv
<1>1. ASSUME UNCHANGED <<status, announcing, believed, unsaid>> PROVE StatusInv'
  BY <1>1 DEF StatusTyped, OneAnnouncement, AnnouncedStatusIsTrue
<1>2. ASSUME NEW d \in reval, ApplyRevalidation(d) PROVE StatusInv'
  <2> DEFINE r == d.msg.strategy
             new == RecommendedToStatus[d.msg.status]
  <2>1. UNCHANGED believed /\ announcing["backtest"] = NoChange
    BY <1>2 DEF ApplyRevalidation
  <2>2. CASE r \notin Enabled \/ d.msg.status \notin DOMAIN RecommendedToStatus
    BY <1>1, <1>2, <2>1, <2>2 DEF ApplyRevalidation
  <2>3. CASE ~(r \notin Enabled \/ d.msg.status \notin DOMAIN RecommendedToStatus)
    <3>1. SetStatus("backtest", r, new, <<d>>) /\ r \in Enabled
      BY <1>2, <2>3 DEF ApplyRevalidation
    <3>2. new \in Statuses
      BY <2>3 DEF RecommendedToStatus, Statuses
    <3> QED
      BY <2>1, <3>1, <3>2, SetStatusKeeps DEF Writers
  <2> QED
    BY <2>2, <2>3
<1>3. ASSUME NEW m \in Metrics, UpdateHealth(m) PROVE StatusInv'
  <2>1. /\ UNCHANGED believed /\ announcing["http"] = NoChange /\ m.strategy \in Enabled
        /\ SetStatus("http", m.strategy, DecayStatus(m), <<>>)
    BY <1>3 DEF UpdateHealth
  <2>2. DecayStatus(m) \in Statuses
    BY DEF DecayStatus, Statuses
  <2> QED
    BY <2>1, <2>2, SetStatusKeeps DEF Writers
<1>4. ASSUME NEW w \in Writers, announcing[w] # NoChange, UNCHANGED status,
             announcing' = [announcing EXCEPT ![w] = NoChange],
             \/ believed' = [believed EXCEPT ![announcing[w].rule] = announcing[w].status]
                /\ unsaid' = unsaid
             \/ believed' = believed /\ unsaid' = unsaid \union {announcing[w].rule}
      PROVE  StatusInv'
  <2> DEFINE r == announcing[w].rule
  <2>1. /\ r \in Enabled /\ announcing[w].status \in Statuses
        /\ believed \in [Enabled -> Statuses] /\ unsaid \subseteq Enabled
        /\ announcing = [v \in Writers |-> announcing[v]]
    BY <1>4 DEF StatusTyped
  <2>2. /\ announcing'[w] = NoChange /\ \A v \in Writers \ {w} : announcing'[v] = announcing[v]
        /\ announcing' = [v \in Writers |-> announcing'[v]]
    BY <1>4, <2>1
  <2>3. believed' \in [Enabled -> Statuses] /\ unsaid' \subseteq Enabled /\ unsaid \subseteq unsaid'
    BY <1>4, <2>1
  <2>4. StatusTyped'
    BY <1>4, <2>2, <2>3 DEF StatusTyped
  <2>5. OneAnnouncement'
    BY <1>4, <2>2, <2>3, NoChangeIsNone DEF OneAnnouncement
  <2>6. ASSUME NEW q \in Enabled \ unsaid', \A v \in Writers : announcing'[v].rule # q
        PROVE  believed'[q] = status'[q]
    <3>1. q \in Enabled \ unsaid
      BY <2>3, <2>6
    <3>2. CASE q = r
      BY <1>4, <2>1, <2>6, <3>1, <3>2 DEF OneAnnouncement
    <3>3. CASE q # r
      <4>1. \A v \in Writers : announcing[v].rule # q
        BY <2>2, <2>6, <3>3
      <4> QED
        BY <1>4, <2>1, <3>1, <3>3, <4>1 DEF AnnouncedStatusIsTrue
    <3> QED
      BY <3>2, <3>3
  <2> QED
    BY <2>4, <2>5, <2>6 DEF AnnouncedStatusIsTrue
<1>5. ASSUME NEW w \in Writers, PublishStatusChanged(w) \/ PublishStatusFails(w) PROVE StatusInv'
  BY <1>4, <1>5 DEF PublishStatusChanged, PublishStatusFails
<1>6. ASSUME StrategyCrash PROVE StatusInv'
  <2>1. /\ status' = [r \in Enabled |-> "active"] /\ UNCHANGED believed
        /\ announcing' = [w \in Writers |-> NoChange]
        /\ unsaid' = unsaid \union {r \in Enabled : status[r] # "active" \/ believed[r] # "active"}
    BY <1>6 DEF StrategyCrash
  <2>2. StatusTyped'
    BY <2>1 DEF StatusTyped, Statuses
  <2>3. OneAnnouncement' /\ AnnouncedStatusIsTrue'
    BY <2>1, NoChangeIsNone DEF OneAnnouncement, AnnouncedStatusIsTrue
  <2> QED
    BY <2>2, <2>3
<1>7. ASSUME \/ \E m \in ready : HandleFeaturesReady(m)
             \/ \E s \in Asked : PostEvaluate(s)
             \/ \E c \in Callers : Evaluate(c) \/ PortfolioUnavailable(c) \/ EvaluationFails(c)
             \/ \E p \in Portfolios : PortfolioMoves(p)
      PROVE  StatusInv'
  BY <1>1, <1>7
     DEF HandleFeaturesReady, PostEvaluate, Evaluate, QueryRanked, QueryFeatures, QueryPortfolio,
         EvaluateRule, InvalidLevels, EndEvaluation, PortfolioUnavailable, EvaluationFails,
         PortfolioMoves, strategyHist
<1> QED
  BY <1>2, <1>3, <1>5, <1>6, <1>7 DEF StrategyNext

-----------------------------------------------------------------------------
(* What an evaluation holds                                                *)

LEMMA DecisionInit == Init => DecisionInv
<1> SUFFICES ASSUME Init PROVE DecisionInv
  OBVIOUS
<1>1. portfolio \in Portfolios /\ \A c \in Callers : eval[c] = Asleep
  BY StrategyAssumption DEF Init
<1> QED
  BY <1>1, AsleepTyped DEF DecisionInv, ListedAreActive, BookIsCurrent

\* Rules stay as active as they were, and the book where it was.
LEMMA SameDecision ==
  ASSUME DecisionInv, UNCHANGED <<status, portfolio>>,
         \A c \in Callers :
           \/ eval'[c] = eval[c]
           \/ eval'[c] = Asleep
           \/ eval'[c].active \subseteq ActiveRules /\ eval'[c].pc # "rules"
           \/ /\ eval'[c].active \subseteq eval[c].active /\ eval'[c].caught = eval[c].caught
              /\ eval[c].pc # "idle"
              /\ eval'[c].pc = "rules" =>
                   \/ eval'[c].blind \/ eval'[c].portfolio = portfolio
                   \/ /\ eval[c].pc = "rules" /\ eval'[c].portfolio = eval[c].portfolio
                      /\ eval'[c].blind = eval[c].blind
  PROVE  DecisionInv'
<1> USE DEF DecisionInv
<1>1. ListedAreActive'
  BY AsleepTyped DEF ListedAreActive, ActiveRules
<1>2. BookIsCurrent'
  BY AsleepTyped DEF BookIsCurrent
<1> QED
  BY <1>1, <1>2

LEMMA StatusDecision ==
  ASSUME EvalShape, DecisionInv, status \in [Enabled -> Statuses], NEW w, NEW r \in Enabled, NEW new, NEW msg,
         SetStatus(w, r, new, msg), UNCHANGED portfolio
  PROVE  DecisionInv'
<1> USE DEF DecisionInv
<1>1. /\ eval' = Caught(r, new) /\ status' = [status EXCEPT ![r] = new]
  BY DEF SetStatus
<1>2. \A c \in Callers :
        /\ eval'[c].pc = eval[c].pc /\ eval'[c].active = eval[c].active
        /\ eval'[c].portfolio = eval[c].portfolio /\ eval'[c].blind = eval[c].blind
        /\ eval[c].caught \subseteq eval'[c].caught
        /\ eval[c].pc # "idle" /\ r \in eval[c].active /\ new # "active" => r \in eval'[c].caught
  BY <1>1, CaughtEval
<1>3. ASSUME NEW c \in Callers, NEW q \in Enabled, eval'[c].pc # "idle", q \in eval'[c].active
      PROVE  status'[q] = "active" \/ q \in eval'[c].caught
  <2>1. status[q] = "active" \/ q \in eval[c].caught
    BY <1>2, <1>3 DEF ListedAreActive
  <2>2. status'[q] = IF q = r THEN new ELSE status[q]
    BY <1>1
  <2> QED
    BY <1>2, <1>3, <2>1, <2>2
<1>4. BookIsCurrent'
  BY <1>2 DEF BookIsCurrent
<1> QED
  BY <1>3, <1>4 DEF ListedAreActive

LEMMA DecisionStep ==
  ASSUME EngineInv, EvalInv, StatusInv, DecisionInv, StrategyNext
  PROVE  DecisionInv'
<1>1. EvalShape /\ status \in [Enabled -> Statuses] /\ DOMAIN eval = Callers
  BY DEF EvalInv, EvalTyped, EvalShape, StatusInv, StatusTyped
<1>2. ASSUME NEW d \in reval, ApplyRevalidation(d) PROVE DecisionInv'
  <2> DEFINE r == d.msg.strategy
  <2>1. UNCHANGED portfolio
    BY <1>2 DEF ApplyRevalidation
  <2>2. CASE r \notin Enabled \/ d.msg.status \notin DOMAIN RecommendedToStatus
    <3>1. UNCHANGED <<status, eval>>
      BY <1>2, <2>2 DEF ApplyRevalidation
    <3> QED
      BY <2>1, <3>1, SameDecision
  <2>3. CASE ~(r \notin Enabled \/ d.msg.status \notin DOMAIN RecommendedToStatus)
    <3>1. SetStatus("backtest", r, RecommendedToStatus[d.msg.status], <<d>>) /\ r \in Enabled
      BY <1>2, <2>3 DEF ApplyRevalidation
    <3> QED
      BY <1>1, <2>1, <3>1, StatusDecision
  <2> QED
    BY <2>2, <2>3
<1>3. ASSUME NEW m \in Metrics, UpdateHealth(m) PROVE DecisionInv'
  <2>1. /\ UNCHANGED portfolio /\ m.strategy \in Enabled
        /\ SetStatus("http", m.strategy, DecayStatus(m), <<>>)
    BY <1>3 DEF UpdateHealth
  <2> QED
    BY <1>1, <2>1, StatusDecision
<1>4. ASSUME NEW w \in Writers, PublishStatusChanged(w) \/ PublishStatusFails(w) PROVE DecisionInv'
  <2>1. UNCHANGED <<status, eval, portfolio>>
    BY <1>4 DEF PublishStatusChanged, PublishStatusFails
  <2> QED
    BY <2>1, SameDecision
<1>5. ASSUME NEW c \in Callers, NEW s, NEW m, BeginEvaluation(c, s, m), UNCHANGED <<status, portfolio>>
      PROVE  DecisionInv'
  <2>1. /\ eval'[c].active = ActiveRules /\ eval'[c].pc = "ranked"
        /\ \A d \in Callers \ {c} : eval'[d] = eval[d]
    BY <1>1, <1>5 DEF BeginEvaluation, Asleep
  <2> QED
    BY <1>5, <2>1, SameDecision
<1>6. ASSUME NEW m \in ready, HandleFeaturesReady(m) PROVE DecisionInv'
  BY <1>5, <1>6 DEF HandleFeaturesReady, Callers
<1>7. ASSUME NEW s \in Asked, PostEvaluate(s) PROVE DecisionInv'
  BY <1>5, <1>7 DEF PostEvaluate, Callers
<1>8. ASSUME NEW c \in Callers, eval' = [eval EXCEPT ![c] = Asleep], UNCHANGED <<status, portfolio>>
      PROVE  DecisionInv'
  <2>1. eval'[c] = Asleep /\ \A d \in Callers \ {c} : eval'[d] = eval[d]
    BY <1>1, <1>8
  <2> QED
    BY <1>8, <2>1, SameDecision
<1>9. ASSUME NEW c \in Callers, NEW e, eval' = [eval EXCEPT ![c] = e], UNCHANGED <<status, portfolio>>,
             e.active \subseteq eval[c].active, e.caught = eval[c].caught, eval[c].pc # "idle",
             e.pc = "rules" =>
               \/ e.blind \/ e.portfolio = portfolio
               \/ /\ eval[c].pc = "rules" /\ e.portfolio = eval[c].portfolio
                  /\ e.blind = eval[c].blind
      PROVE  DecisionInv'
  <2>1. eval'[c] = e /\ \A d \in Callers \ {c} : eval'[d] = eval[d]
    BY <1>1, <1>9
  <2> QED
    BY <1>9, <2>1, SameDecision
<1>10. ASSUME NEW c \in Callers, Evaluate(c) \/ PortfolioUnavailable(c) \/ EvaluationFails(c)
       PROVE  DecisionInv'
  <2>1. UNCHANGED <<status, portfolio>> /\ eval[c].pc # "idle"
    BY <1>10 DEF Evaluate, QueryRanked, QueryFeatures, QueryPortfolio, EvaluateRule, InvalidLevels,
                 EndEvaluation, PortfolioUnavailable, EvaluationFails
  <2>2. eval[c] \in Evaluation(eval[c].ranked)
    BY <1>1 DEF EvalShape
  <2>3. \/ eval' = [eval EXCEPT ![c] = Asleep]
        \/ eval' = [eval EXCEPT ![c] = [eval[c] EXCEPT !.pc = "raw", !.ranked = GetRanked(eval[c].symbol)]]
        \/ eval' = [eval EXCEPT ![c] = [eval[c] EXCEPT !.pc = "portfolio",
                                                       !.raw = GetFeatures(eval[c].symbol)[1]]]
        \/ eval' = [eval EXCEPT ![c] = [eval[c] EXCEPT !.pc = "rules", !.portfolio = portfolio]]
        \/ eval' = [eval EXCEPT ![c] = [eval[c] EXCEPT !.pc = "rules", !.portfolio = StaticPortfolio,
                                                       !.blind = TRUE]]
        \/ eval' = [eval EXCEPT ![c] = [eval[c] EXCEPT !.active = @ \ {NextRule(c)}]]
           /\ eval[c].pc = "rules"
    BY <1>10 DEF Evaluate, QueryRanked, QueryFeatures, QueryPortfolio, EvaluateRule, InvalidLevels,
                 EndEvaluation, PortfolioUnavailable, EvaluationFails, Done
  <2>4. CASE eval' = [eval EXCEPT ![c] = Asleep]
    BY <1>8, <2>1, <2>4
  <2>5. ASSUME NEW e, eval' = [eval EXCEPT ![c] = e], e.active = eval[c].active,
               e.caught = eval[c].caught,
               e.pc \in {"raw", "portfolio"} \/ e.blind \/ e.portfolio = portfolio
        PROVE  DecisionInv'
    BY <1>9, <2>1, <2>5
  <2>6. CASE eval' = [eval EXCEPT ![c] = [eval[c] EXCEPT !.pc = "raw", !.ranked = GetRanked(eval[c].symbol)]]
    <3> DEFINE e == [eval[c] EXCEPT !.pc = "raw", !.ranked = GetRanked(eval[c].symbol)]
    <3>1. e.active = eval[c].active /\ e.caught = eval[c].caught /\ e.pc = "raw"
      BY <2>2 DEF Evaluation
    <3>2. eval' = [eval EXCEPT ![c] = e]
      BY <2>6
    <3> HIDE DEF e
    <3> QED
      BY <2>5, <3>1, <3>2
  <2>7. CASE eval' = [eval EXCEPT ![c] = [eval[c] EXCEPT !.pc = "portfolio", !.raw = GetFeatures(eval[c].symbol)[1]]]
    <3> DEFINE e == [eval[c] EXCEPT !.pc = "portfolio", !.raw = GetFeatures(eval[c].symbol)[1]]
    <3>1. e.active = eval[c].active /\ e.caught = eval[c].caught /\ e.pc = "portfolio"
      BY <2>2 DEF Evaluation
    <3>2. eval' = [eval EXCEPT ![c] = e]
      BY <2>7
    <3> HIDE DEF e
    <3> QED
      BY <2>5, <3>1, <3>2
  <2>8. CASE eval' = [eval EXCEPT ![c] = [eval[c] EXCEPT !.pc = "rules", !.portfolio = portfolio]]
    <3> DEFINE e == [eval[c] EXCEPT !.pc = "rules", !.portfolio = portfolio]
    <3>1. e.active = eval[c].active /\ e.caught = eval[c].caught /\ e.portfolio = portfolio
      BY <2>2 DEF Evaluation
    <3>2. eval' = [eval EXCEPT ![c] = e]
      BY <2>8
    <3> HIDE DEF e
    <3> QED
      BY <2>5, <3>1, <3>2
  <2>9. CASE eval' = [eval EXCEPT ![c] = [eval[c] EXCEPT !.pc = "rules", !.portfolio = StaticPortfolio, !.blind = TRUE]]
    <3> DEFINE e == [eval[c] EXCEPT !.pc = "rules", !.portfolio = StaticPortfolio, !.blind = TRUE]
    <3>1. e.active = eval[c].active /\ e.caught = eval[c].caught /\ e.blind
      BY <2>2 DEF Evaluation
    <3>2. eval' = [eval EXCEPT ![c] = e]
      BY <2>9
    <3> HIDE DEF e
    <3> QED
      BY <2>5, <3>1, <3>2
  <2>10. CASE eval[c].pc = "rules" /\ eval' = [eval EXCEPT ![c] = [eval[c] EXCEPT !.active = @ \ {NextRule(c)}]]
    <3> DEFINE e == [eval[c] EXCEPT !.active = @ \ {NextRule(c)}]
    <3>1. /\ e.active \subseteq eval[c].active /\ e.caught = eval[c].caught /\ e.pc = eval[c].pc
          /\ e.portfolio = eval[c].portfolio /\ e.blind = eval[c].blind
      BY <2>2 DEF Evaluation
    <3>2. eval' = [eval EXCEPT ![c] = e]
      BY <2>10
    <3> HIDE DEF e
    <3> QED
      BY <1>9, <2>1, <2>10, <3>1, <3>2
  <2> QED
    BY <2>3, <2>4, <2>6, <2>7, <2>8, <2>9, <2>10
<1>11. ASSUME NEW p \in Portfolios, PortfolioMoves(p) PROVE DecisionInv'
  <2>1. ASSUME NEW c \in Callers
        PROVE  /\ eval'[c].pc = eval[c].pc /\ eval'[c].active = eval[c].active
               /\ eval'[c].caught = eval[c].caught
               /\ eval[c].pc = "rules" => eval'[c].blind
    <3>1. eval'[c] = IF eval[c].pc = "rules" THEN [eval[c] EXCEPT !.blind = TRUE] ELSE eval[c]
      BY <1>11 DEF PortfolioMoves
    <3>2. eval[c] \in Evaluation(eval[c].ranked)
      BY <1>1 DEF EvalShape
    <3> QED
      BY <3>1, <3>2 DEF Evaluation
  <2>2. UNCHANGED status /\ portfolio' \in Portfolios
    BY <1>11 DEF PortfolioMoves
  <2> QED
    BY <2>1, <2>2 DEF DecisionInv, ListedAreActive, BookIsCurrent
<1>12. ASSUME StrategyCrash PROVE DecisionInv'
  <2>1. portfolio' = portfolio /\ \A c \in Callers : eval'[c] = Asleep
    BY <1>12 DEF StrategyCrash
  <2> QED
    BY <2>1, AsleepTyped DEF DecisionInv, ListedAreActive, BookIsCurrent
<1> QED
  BY <1>2, <1>3, <1>4, <1>6, <1>7, <1>10, <1>11, <1>12 DEF StrategyNext

-----------------------------------------------------------------------------
(* The theorems                                                            *)

LEMMA InitInv == Init => IInv
  BY EngineInit, EvalInit, StatusInit, DecisionInit DEF IInv

LEMMA NextInv ==
  ASSUME IInv, [Next]_vars
  PROVE  IInv'
<1> USE DEF IInv
<1>1. ready \subseteq ReadyMessage /\ IsFiniteSet(ready) /\ EvalTyped /\ EvalShape
  BY DEF EvalInv, EvalTyped
<1>2. CASE FeatureNext /\ UNCHANGED <<strategyState, strategyHist>>
  <2>1. EngineInv' /\ HandOver
    BY <1>1, <1>2, EngineStep
  <2>2. UNCHANGED <<status, announcing, portfolio, eval, believed, unsaid, lastSeen, forgotten>>
    BY <1>2 DEF strategyState, strategyHist
  <2>3. EvalInv'
    BY <1>1, <1>2, <2>1, <2>2, FeatureKept, EvalByFeature
  <2>4. StatusInv'
    BY <2>2 DEF StatusInv, StatusTyped, OneAnnouncement, AnnouncedStatusIsTrue
  <2>5. DecisionInv'
    BY <2>2, SameDecision
  <2> QED
    BY <2>1, <2>3, <2>4, <2>5
<1>3. CASE StrategyNext
  <2>1. portfolio \in Portfolios
    BY DEF DecisionInv
  <2>2. EngineInv'
    BY <1>3, StrategyLeavesEngine, EngineUnchanged
  <2> QED
    BY <1>3, <2>1, <2>2, EvalStep, StatusStep, DecisionStep
<1>4. CASE UNCHANGED vars
  <2>1. /\ UNCHANGED <<bars, market, calc, vector, index, ready, crossed, dropped>>
        /\ UNCHANGED <<status, announcing, portfolio, eval, believed, unsaid, lastSeen, forgotten>>
    BY <1>4 DEF vars, featureVars, engine, history, strategyState, strategyHist
  <2>2. EngineInv'
    BY <2>1, EngineUnchanged
  <2>3. EvalShape'
    BY <1>1, <2>1 DEF EvalShape
  <2>4. EvalInv'
    BY <2>1, <2>3, EvalStays DEF Kept
  <2>5. StatusInv'
    BY <2>1 DEF StatusInv, StatusTyped, OneAnnouncement, AnnouncedStatusIsTrue
  <2>6. DecisionInv'
    BY <2>1, SameDecision
  <2> QED
    BY <2>2, <2>4, <2>5, <2>6
<1> QED
  BY <1>2, <1>3, <1>4 DEF Next

LEMMA Invariance == Spec => []IInv
<1>1. IInv /\ [Next]_vars => IInv'
  BY NextInv
<1> QED
  BY InitInv, <1>1, PTL DEF Spec

\* A vector served, raw or ranked, is of the latest bars, or work on it is
\* still to come, whatever messages are redelivered and whichever calls of
\* feature-engine's compute_for_symbol fail (service.py:54, store.py:57).
THEOREM VectorsServed == Spec => []VectorsAreServed
<1>1. IInv => TypeOK
  <2> SUFFICES ASSUME IInv PROVE TypeOK
    OBVIOUS
  <2>1. FeatureTypeOK
    BY DEF IInv, EngineInv, EngineTyped, Calculation, FeatureTypeOK
  <2>2. /\ status \in [Enabled -> Statuses] /\ believed \in [Enabled -> Statuses]
        /\ unsaid \subseteq Enabled /\ forgotten \subseteq Symbols /\ portfolio \in Portfolios
    BY DEF IInv, EvalInv, EvalTyped, StatusInv, StatusTyped, DecisionInv
  <2>3. \A c \in Callers : eval[c] \in Evaluation(eval[c].ranked)
    BY DEF IInv, EvalInv, EvalTyped, EvalShape
  <2> QED
    BY <2>1, <2>2, <2>3 DEF TypeOK, Evaluation
<1>2. IInv => VectorIsCurrent
  BY DEF IInv, EngineInv, VectorToCome, VectorIsCurrent, Waiting, Unread, InHand, Stored, Callers
<1>3. IInv => UnindexedIsUnfinished
  BY DEF IInv, EngineInv, IndexToCome, UnindexedIsUnfinished, Waiting
<1>4. IInv => VectorsAreServed
  BY <1>1, <1>2, <1>3 DEF VectorsAreServed
<1> QED
  BY Invariance, <1>4, PTL

\* A symbol nothing is on its way for has had its latest bar through the rules,
\* unless a message was given up, levels were refused or two computations
\* crossed: no crash, failure or redelivery between market-data's event and the
\* last rule loses one.
THEOREM BarsReachTheRules == Spec => []LatestBarReachesTheRules
<1>1. IInv => LatestBarReachesTheRules
  BY DEF IInv, EvalInv, BarToCome, LatestBarReachesTheRules, QuietFor, Waiting, Unread, InHand,
         ToAnnounce, Announced, Callers
<1> QED
  BY Invariance, <1>1, PTL

\* What was last announced of a rule is its status, unless a publish failed,
\* two writers overlapped or a restart made it active (service.py:139).
THEOREM StatusIsAnnounced == Spec => []AnnouncedStatusIsTrue
<1>1. IInv => AnnouncedStatusIsTrue
  BY DEF IInv, StatusInv
<1> QED
  BY Invariance, <1>1, PTL

LEMMA PublishedPassed ==
  ASSUME NEW c, NEW r, Outcome(c, r) = "publish"
  PROVE  CheckSignal(eval[c].portfolio, DecisionOf(c, r), 0)
<1> DEFINE d == DecisionOf(c, r)
           ok == CheckSignal(eval[c].portfolio, d, 0)
           valid == ValidSignal(d, RawOf(c)["close"], LevelsOf(c, r))
           pays == ProfitableAfterCosts((EdgeBps * d.confidence) \div One, CapTier)
<1>1. Outcome(c, r) = CASE d.signal = "HOLD" -> "skip"
                        [] d.signal # "HOLD" /\ ~valid -> "raise"
                        [] OTHER -> IF ok /\ pays THEN "publish" ELSE "skip"
  BY DEF Outcome
<1> HIDE DEF d, ok, valid, pays
<1>2. ok
  BY <1>1
<1> QED
  BY <1>2 DEF ok, d

\* Every signal published is of a rule that was active, or was taken out of
\* service while that evaluation waited; and it passed the risk envelope against
\* the book as risk-mgmt holds it, unless risk-mgmt did not answer or the book
\* moved after it did (service.py:167-217).
THEOREM SignalsJustified == Spec => SignalsAreJustified
<1> DEFINE Active == \A c \in Callers : \A r \in Enabled :
                       Publishes(c, r) => status[r] = "active" \/ r \in eval[c].caught
           Within == \A c \in Callers : \A r \in Enabled :
                       Publishes(c, r) => CheckSignal(portfolio, DecisionOf(c, r), 0) \/ eval[c].blind
<1>1. IInv => Active
  BY DEF IInv, DecisionInv, ListedAreActive, Publishes
<1>2. IInv => Within
  <2> SUFFICES ASSUME IInv, NEW c \in Callers, NEW r \in Enabled, Publishes(c, r)
               PROVE  CheckSignal(portfolio, DecisionOf(c, r), 0) \/ eval[c].blind
    OBVIOUS
  <2>1. CheckSignal(eval[c].portfolio, DecisionOf(c, r), 0)
    BY PublishedPassed DEF Publishes
  <2>2. eval[c].portfolio = portfolio \/ eval[c].blind
    BY DEF IInv, DecisionInv, BookIsCurrent, Publishes
  <2> QED
    BY <2>1, <2>2
<1>3. Spec => SignalsAreOfActiveRules
  BY Invariance, <1>1, PTL DEF SignalsAreOfActiveRules
<1>4. Spec => SignalsRespectTheBook
  BY Invariance, <1>2, PTL DEF SignalsRespectTheBook
<1> QED
  BY <1>3, <1>4 DEF SignalsAreJustified
=============================================================================
