----------------------------- MODULE Attributes -----------------------------
(***************************************************************************)
(* The slow attributes of one symbol: company-classifier announces a style, *)
(* fundamental-data that its numbers changed, and feature-engine writes     *)
(* both into one record, which it merges into the vectors it serves.  Its   *)
(* two subscriptions each handle one message at a time and run beside each *)
(* other; with Redis a put is a read and a write.                          *)
(***************************************************************************)
EXTENDS Classifier

CONSTANTS
  Profiles,       \* the profiles a user may classify
  LastScore,      \* bound: fundamental-data's answers are numbered 1..LastScore
  AttrBackend,    \* "redis", or "memory" without one
  AttrDeliver,    \* NATS_MAX_DELIVER
  MaxClassified,  \* bound: classifications
  MaxAttrFaults   \* bound: failed calls, failed publishes and restarts

ASSUME AttrAssumption == LastScore \in Nat /\ AttrDeliver \in Nat

VARIABLES
  company,        \* company-classifier's latest style, "none" before the first
  answer,         \* what fundamental-data answers for the symbol; 0 is a 404
  inbox,          \* unacknowledged messages, per subscription
  handler,        \* per subscription: the message in its handler
  attrs,          \* the stored attributes
  sent, attrFaults
VARIABLES         \* history
  newest,         \* number of the last style event handled
  stale           \* keys that an event was lost, reordered or overwritten for
attrVars == <<company, answer, inbox, handler, attrs, sent, attrFaults, newest, stale>>

Keys == {"score", "style"}
NoAttrs == [score |-> 0, style |-> "none"]
IdleHandler == [pc |-> "idle", msg |-> 0, tries |-> 0, value |-> "none", read |-> NoAttrs]

\* Style events carry the style; a fundamentals event only says to ask again.
Message(no, value) == [no |-> no, value |-> value, tries |-> 0]

AttrInit ==
  /\ company = "none" /\ answer = 0
  /\ inbox = [k \in Keys |-> {}] /\ handler = [k \in Keys |-> IdleHandler]
  /\ attrs = NoAttrs /\ sent = [k \in Keys |-> 0] /\ attrFaults = 0
  /\ newest = 0 /\ stale = {}

AttrFault == attrFaults < MaxAttrFaults /\ attrFaults' = attrFaults + 1

\* The event is in the stream, or its publish failed.
Announce(k, value, published) ==
  /\ sent' = [sent EXCEPT ![k] = @ + 1]
  /\ IF published
       THEN /\ inbox' = [inbox EXCEPT ![k] = @ \union {Message(sent[k] + 1, value)}]
            /\ UNCHANGED <<attrFaults, stale>>
       ELSE AttrFault /\ stale' = stale \union {k} /\ UNCHANGED inbox

\* POST /classify
ClassifyCompany(profile, published) ==
  LET result == Classify(profile)
  IN  /\ sent["style"] < MaxClassified
      /\ company' = result.style
      /\ Announce("style", result.style, published)
      /\ UNCHANGED <<answer, handler, attrs, newest>>

\* fundamental-data has new numbers.
NewFundamentals(published) ==
  /\ sent["score"] < LastScore
  /\ answer' = sent["score"] + 1
  /\ Announce("score", "none", published)
  /\ UNCHANGED <<company, handler, attrs, newest>>

\* _latest is memory: after a restart fundamental-data answers 404.
FundamentalsRestart ==
  /\ AttrFault /\ answer' = 0
  /\ UNCHANGED <<company, inbox, handler, attrs, sent, newest, stale>>

\* In order, but for the messages that came back.
Deliver(k) ==
  /\ handler[k].pc = "idle"
  /\ \E m \in inbox[k] :
       /\ m.tries = 0 => \A n \in inbox[k] : n.tries = 0 => m.no <= n.no
       /\ handler' = [handler EXCEPT ![k] =
            [IdleHandler EXCEPT !.pc = IF k = "score" THEN "query" ELSE "get",
                                !.msg = m.no, !.tries = m.tries, !.value = m.value]]
       /\ newest' = IF k = "style" /\ m.no > newest THEN m.no ELSE newest
       /\ stale' = IF k = "style" /\ m.no < newest THEN stale \union {k} ELSE stale
  /\ UNCHANGED <<company, answer, inbox, attrs, sent, attrFaults>>

Acknowledged(k) == [inbox EXCEPT ![k] = {m \in @ : m.no # handler[k].msg}]

\* get_fundamentals: a 404 is acknowledged, and nothing is stored.
QueryFundamentals ==
  LET h == handler["score"]
  IN  /\ h.pc = "query"
      /\ IF answer = 0
           THEN /\ handler' = [handler EXCEPT !["score"] = IdleHandler]
                /\ inbox' = Acknowledged("score")
                /\ stale' = stale \union {"score"}
           ELSE /\ handler' = [handler EXCEPT !["score"].pc = "get", !["score"].value = answer]
                /\ UNCHANGED <<inbox, stale>>
      /\ UNCHANGED <<company, answer, attrs, sent, attrFaults, newest>>

Other(k) == IF k = "score" THEN "style" ELSE "score"

\* RedisAttributeStore.put, its read.  In memory there is none: the update is
\* one step.
GetAttributes(k) ==
  /\ handler[k].pc = "get" /\ AttrBackend = "redis"
  /\ handler' = [handler EXCEPT ![k].pc = "set", ![k].read = attrs]
  /\ stale' = IF handler[Other(k)].pc = "set" THEN stale \union Keys ELSE stale
  /\ UNCHANGED <<company, answer, inbox, attrs, sent, attrFaults, newest>>

\* A mutant of Merged: the handler's keys replace the record.
MergedReplaces(k, base, value) == [NoAttrs EXCEPT ![k] = value]

\* merged.update(attributes)
Merged(k, base, value) == [base EXCEPT ![k] = value]

PutAttributes(k) ==
  LET h == handler[k]
  IN  /\ h.pc = IF AttrBackend = "redis" THEN "set" ELSE "get"
      /\ attrs' = Merged(k, IF AttrBackend = "redis" THEN h.read ELSE attrs, h.value)
      /\ handler' = [handler EXCEPT ![k] = IdleHandler]
      /\ inbox' = Acknowledged(k)
      /\ UNCHANGED <<company, answer, sent, attrFaults, newest, stale>>

Returned(k) == {[m EXCEPT !.tries = @ + 1] : m \in {n \in inbox[k] : n.no = handler[k].msg}}

\* A call of the handler raises: the message comes back, until its deliveries
\* are used up.
HandlerFails(k) ==
  LET others == {m \in inbox[k] : m.no # handler[k].msg}
      back == {m \in Returned(k) : m.tries < AttrDeliver}
  IN  /\ handler[k].pc # "idle" /\ AttrFault
      /\ inbox' = [inbox EXCEPT ![k] = others \union back]
      /\ handler' = [handler EXCEPT ![k] = IdleHandler]
      /\ stale' = IF back = {} THEN stale \union {k} ELSE stale
      /\ UNCHANGED <<company, answer, attrs, sent, newest>>

\* feature-engine restarts: what it was handling comes back.
FeatureEngineCrash ==
  /\ AttrFault
  /\ inbox' = [k \in Keys |-> {m \in inbox[k] : m.no # handler[k].msg} \union
                              {m \in Returned(k) : m.tries < AttrDeliver}]
  /\ stale' = stale \union {k \in Keys : \E m \in Returned(k) : m.tries >= AttrDeliver}
                    \union (IF AttrBackend = "redis" THEN {} ELSE Keys)
  /\ handler' = [k \in Keys |-> IdleHandler]
  /\ attrs' = IF AttrBackend = "redis" THEN attrs ELSE NoAttrs
  /\ UNCHANGED <<company, answer, sent, newest>>

AttrNext ==
  \/ \E p \in Profiles : \E b \in BOOLEAN : ClassifyCompany(p, b)
  \/ \E b \in BOOLEAN : NewFundamentals(b)
  \/ FundamentalsRestart
  \/ \E k \in Keys : Deliver(k) \/ GetAttributes(k) \/ PutAttributes(k) \/ HandlerFails(k)
  \/ QueryFundamentals \/ FeatureEngineCrash

-----------------------------------------------------------------------------
AttrTypeOK ==
  /\ answer \in 0..LastScore /\ stale \subseteq Keys
  /\ attrs.score \in 0..LastScore /\ attrs.style \in {"none", "growth", "value", "blend"}
  /\ \A k \in Keys : handler[k].pc \in {"idle", "query", "get", "set"}

\* Once a symbol's events are handled, the attributes merged into its vectors
\* are its company's style and its last numbers, except a key an event of which
\* was lost, given up or redelivered late, or that a put of the other handler
\* wrote back between read and write (attributes.py:49).
AttributesAreCurrent ==
  /\ inbox["style"] = {} /\ "style" \notin stale => attrs.style = company
  /\ inbox["score"] = {} /\ "score" \notin stale /\ answer # 0 => attrs.score = answer
=============================================================================
