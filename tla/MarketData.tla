----------------------------- MODULE MarketData -----------------------------
(***************************************************************************)
(* market-data: the heartbeat that pulls the sessions the marker does not  *)
(* cover, POST /sync and POST /fetch beside it, and the readers behind a   *)
(* cache.  A bar is its session and its adjustment factor: what a corporate *)
(* action restates for the whole history at once.  Time moves in half days, *)
(* before and after the close hour.                                        *)
(***************************************************************************)
EXTENDS Integers, Sequences, FiniteSets

CONSTANTS
  Symbols,         \* FETCH_SYMBOLS, a sequence: the order of a run
  Weekend,         \* the days without a session
  FirstStored,     \* per symbol: the rows at the start are from this day on
  Days,            \* bound: the days of the model are 1..Days
  StartDay,        \* the model starts after the close of StartDay
  Overlap,         \* FETCH_OVERLAP_DAYS
  InitialHistory,  \* FETCH_INITIAL_HISTORY_DAYS
  DefaultPeriod,   \* Yahoo's period when a request names no start
  Backend,         \* "redis" or "memory": cache and marker
  Limits,          \* the limits readers ask for
  MaxActions,      \* bound: corporate actions
  MaxRequests,     \* bound: POST and GET requests
  MaxFaults        \* bound: failures, restarts and fallbacks

Names == {Symbols[i] : i \in DOMAIN Symbols}

ASSUME MarketDataAssumption ==
  /\ Symbols \in Seq(Names) /\ Symbols # <<>> /\ FirstStored \in [Names -> Int]
  /\ Days \in Nat \ {0} /\ StartDay \in 1..Days /\ Weekend \subseteq 1..Days
  /\ Overlap \in Nat /\ InitialHistory \in Nat /\ DefaultPeriod \in Nat
  /\ Backend \in {"redis", "memory"} /\ Limits \subseteq Nat \ {0}
  /\ MaxActions \in Nat /\ MaxRequests \in Nat /\ MaxFaults \in Nat

VARIABLES
  clock,       \* half days: even before the close hour, odd after it
  epoch,       \* per symbol: the corporate actions so far, from 1
  rows,        \* per symbol and day: 0 no row, Null no factor, else its epoch
  cache,       \* per symbol: <<>> or the cached window, in the form of rows
  marker,      \* the last day marked as pulled, 0 when none
  sync,        \* per caller: the run in progress
  reader,      \* the GET in progress
  asked, faults

VARIABLES   \* history
  unsaid,      \* symbols with rows stored and not announced
  interrupted, \* symbols a publish of which failed or was cut by a restart
  excused,     \* days marked although a symbol failed, the run began before the
               \* close, or the weekend left it out
  unchecked,   \* symbols whose overlap was overwritten without a comparison
  holed,       \* symbols a request stored a window of beyond their newest row
  tainted      \* symbols whose cache was filled by an overtaken read, or whose
               \* invalidation failed

state == <<clock, epoch, rows, cache, marker, sync, reader, asked, faults>>
vars  == <<state, unsaid, interrupted, excused, unchecked, holed, tainted>>

Null == -1
Callers == {"beat", "http"}
Nothing == [d \in 1..Days |-> 0]
Idle == [pc |-> "idle", queue |-> <<>>, fetch |-> FALSE, now |-> 0, full |-> FALSE, from |-> 0,
         bars |-> Nothing, failed |-> FALSE, skipped |-> FALSE]
NoRead == [pc |-> "idle", symbol |-> Symbols[1], limit |-> 1, bars |-> Nothing, overtaken |-> FALSE]

Day(t) == t \div 2
Closed(t) == t % 2 = 1
Stored(r) == {d \in 1..Days : r[d] # 0}
Newest(S) == CHOOSE d \in S : \A e \in S : e <= d
Oldest(S) == CHOOSE d \in S : \A e \in S : d <= e
Smaller(a, b) == IF a < b THEN a ELSE b
Sessions == (1..Days) \ Weekend

Fault == faults < MaxFaults /\ faults' = faults + 1
Request == asked < MaxRequests /\ asked' = asked + 1

-----------------------------------------------------------------------------
(* What to fetch                                                           *)

\* plan_fetch: where the window of a symbol starts.
PlanFetch(stored, now) ==
  IF stored = {} THEN Day(now) - InitialHistory
  ELSE Smaller(Newest(stored) - Overlap, Day(now))

\* A mutant of FullHistoryPlan: the repair reaches back the default depth.
FullHistoryPlanDefault(stored, now) == Day(now) - InitialHistory

FullHistoryPlan(stored, now) ==
  IF stored = {} THEN Day(now) - InitialHistory
  ELSE Smaller(Day(now) - InitialHistory, Oldest(stored))

\* adjustment_drifted: a bar on both sides whose two factors differ.
AdjustmentDrifted(stored, fetched) ==
  \E d \in 1..Days : stored[d] > 0 /\ fetched[d] > 0 /\ stored[d] # fetched[d]

\* A mutant of CoverageDate: the current day, whatever the hour.
CoverageDateToday(t) == Day(t)

CoverageDate(t) == IF Closed(t) THEN Day(t) ELSE Day(t) - 1

\* A marker of the future counts as covered.
NeedsCatchup(last, t) == last = 0 \/ last < CoverageDate(t)

\* What a provider has of a symbol from a day on: the closed sessions, all at
\* today's factor; the second source carries no adjusted close.
Bars(s, from, to, source) ==
  [d \in 1..Days |->
     IF d \in Sessions /\ from <= d /\ d <= Day(to) /\ (d < Day(clock) \/ Closed(clock))
       THEN IF source = "yahoo" THEN epoch[s] ELSE Null
     ELSE 0]

\* A row's mutable columns are overwritten, its key stays.
Upsert(old, new) == [d \in 1..Days |-> IF new[d] # 0 THEN new[d] ELSE old[d]]

\* The most recent rows, up to a limit.
Latest(r, limit) ==
  [d \in 1..Days |->
     IF Cardinality({e \in Stored(r) : e > d}) < limit THEN r[d] ELSE 0]

\* Redis may hold an entry of an earlier run.
Init ==
  /\ clock = 2 * StartDay + 1
  /\ epoch = [s \in Names |-> 1]
  /\ rows = [s \in Names |-> [d \in 1..Days |->
               IF d \in Sessions /\ FirstStored[s] <= d /\ d < StartDay THEN 1 ELSE 0]]
  /\ cache \in [Names -> {<<>>}] \union
               {[s \in Names |-> <<Latest(rows[s], n)>>] : n \in IF Backend = "redis" THEN Limits ELSE {}}
  /\ marker = 0
  /\ sync = [c \in Callers |-> Idle]
  /\ reader = NoRead
  /\ asked = 0 /\ faults = 0
  /\ unsaid = {} /\ interrupted = {} /\ excused = {}
  /\ unchecked = {} /\ holed = {} /\ tainted = {}

-----------------------------------------------------------------------------
(* The passage of time, and the market                                     *)

Tick ==
  /\ clock < 2 * Days + 1
  /\ clock' = clock + 1
  /\ UNCHANGED <<epoch, rows, cache, marker, sync, reader, asked, faults,
                 unsaid, interrupted, excused, unchecked, holed, tainted>>

\* A split or a dividend: the provider restates the whole history.
CorporateAction(s) ==
  /\ epoch[s] <= MaxActions
  /\ epoch' = [epoch EXCEPT ![s] = @ + 1]
  /\ UNCHANGED <<clock, rows, cache, marker, sync, reader, asked, faults,
                 unsaid, interrupted, excused, unchecked, holed, tainted>>

-----------------------------------------------------------------------------
(* A run                                                                   *)

\* The heartbeat: a weekend's run ends before the first symbol and is marked
\* like any other.
Beat ==
  /\ sync["beat"].pc = "idle"
  /\ NeedsCatchup(marker, clock)
  /\ sync' = [sync EXCEPT !["beat"] =
       IF Day(clock) \in Weekend
         THEN [Idle EXCEPT !.pc = "mark", !.now = clock, !.skipped = TRUE]
         ELSE [Idle EXCEPT !.pc = "plan", !.now = clock, !.queue = Symbols]]
  /\ UNCHANGED <<clock, epoch, rows, cache, marker, reader, asked, faults,
                 unsaid, interrupted, excused, unchecked, holed, tainted>>

PostSync ==
  /\ Request
  /\ sync["http"].pc = "idle"
  /\ sync' = [sync EXCEPT !["http"] = [Idle EXCEPT !.pc = "plan", !.queue = Symbols]]
  /\ UNCHANGED <<clock, epoch, rows, cache, marker, reader, faults,
                 unsaid, interrupted, excused, unchecked, holed, tainted>>

\* POST /fetch/{symbol}, with or without a start_date: no plan, no comparison.
PostFetch(s, from) ==
  /\ Request
  /\ sync["http"].pc = "idle"
  /\ sync' = [sync EXCEPT !["http"] =
       [Idle EXCEPT !.pc = "fetch", !.queue = <<s>>, !.fetch = TRUE, !.now = clock,
                    !.from = IF from = 0 THEN Day(clock) - DefaultPeriod ELSE from]]
  /\ UNCHANGED <<clock, epoch, rows, cache, marker, reader, faults,
                 unsaid, interrupted, excused, unchecked, holed, tainted>>

Symbol(c) == Head(sync[c].queue)

\* sync_symbol reads the newest row and plans; a run that was given no time
\* takes the clock of each symbol.
PlanSymbol(c) ==
  LET s == Symbol(c)
      now == IF c = "http" THEN clock ELSE sync[c].now
  IN  /\ sync[c].pc = "plan"
      /\ sync' = [sync EXCEPT ![c].pc = "fetch", ![c].now = now, ![c].full = (Stored(rows[s]) = {}),
                              ![c].from = PlanFetch(Stored(rows[s]), now)]
      /\ UNCHANGED <<clock, epoch, rows, cache, marker, reader, asked, faults,
                     unsaid, interrupted, excused, unchecked, holed, tainted>>

Source(source) == IF source = "yahoo" THEN UNCHANGED faults ELSE Fault

\* The first source answers, or fails and the second one does.
Fetch(c, source) ==
  LET bars == Bars(Symbol(c), sync[c].from, sync[c].now, source)
  IN  /\ sync[c].pc = "fetch"
      /\ Source(source)
      /\ sync' = [sync EXCEPT ![c].bars = bars,
                    ![c].pc = IF sync[c].fetch \/ sync[c].full \/ Stored(bars) = {}
                              THEN "save" ELSE "compare"]
      /\ UNCHANGED <<clock, epoch, rows, cache, marker, reader, asked,
                     unsaid, interrupted, excused, unchecked, holed, tainted>>

\* The stored rows of the window against the fetched ones; a restated history
\* is planned again from its oldest row.
Compare(c) ==
  LET r == rows[Symbol(c)]
      drifted == AdjustmentDrifted([d \in 1..Days |-> IF d >= sync[c].from THEN r[d] ELSE 0],
                                   sync[c].bars)
  IN  /\ sync[c].pc = "compare"
      /\ sync' = [sync EXCEPT ![c].pc = IF drifted THEN "repair" ELSE "save",
                    ![c].full = drifted,
                    ![c].from = IF drifted THEN FullHistoryPlan(Stored(r), sync[c].now) ELSE @]
      /\ UNCHANGED <<clock, epoch, rows, cache, marker, reader, asked, faults,
                     unsaid, interrupted, excused, unchecked, holed, tainted>>

Refetch(c, source) ==
  /\ sync[c].pc = "repair"
  /\ Source(source)
  /\ sync' = [sync EXCEPT ![c].bars = Bars(Symbol(c), sync[c].from, sync[c].now, source),
                          ![c].pc = "save"]
  /\ UNCHANGED <<clock, epoch, rows, cache, marker, reader, asked,
                 unsaid, interrupted, excused, unchecked, holed, tainted>>

\* The window of the next sync, and whether a save blinds it: a request stores
\* rows beside others it did not compare them with, the bars are the second
\* source's or from before a restatement, or they are older than what the other
\* caller, planning the whole history, found stored.
OverlapOf(r) == {d \in Stored(r) : d >= Newest(Stored(r)) - Overlap}
Undercuts(c, b, s) ==
  /\ b # c /\ sync[b].full /\ sync[b].pc \in {"fetch", "repair", "save"} /\ Symbol(b) = s
  /\ \E d \in Stored(sync[c].bars) : d < sync[b].from
Blinds(c, s) ==
  \/ sync[c].fetch /\ ~(Stored(rows[s]) \subseteq Stored(sync[c].bars))
  \/ \E d \in Stored(sync[c].bars) : sync[c].bars[d] < epoch[s]
  \/ \E b \in Callers : Undercuts(c, b, s)

\* save_bars: one transaction.
Save(c) ==
  LET s == Symbol(c)
      new == sync[c].bars
  IN  /\ sync[c].pc = "save"
      /\ rows' = [rows EXCEPT ![s] = Upsert(@, new)]
      /\ sync' = [sync EXCEPT ![c].pc = "invalidate"]
      /\ unsaid' = IF Stored(new) = {} THEN unsaid ELSE unsaid \union {s}
      /\ unchecked' = IF Stored(new) # {} /\ Blinds(c, s) THEN unchecked \union {s} ELSE unchecked
      /\ holed' = IF /\ sync[c].fetch /\ Stored(new) # {} /\ Stored(rows[s]) # {}
                     /\ \E d \in Sessions : /\ d > Newest(Stored(rows[s]))
                                            /\ d < Oldest(Stored(new))
                    THEN holed \union {s} ELSE holed
      /\ reader' = IF reader.pc = "fill" /\ reader.symbol = s
                     THEN [reader EXCEPT !.overtaken = TRUE] ELSE reader
      /\ UNCHANGED <<clock, epoch, cache, marker, asked, faults,
                     interrupted, excused, tainted>>

Invalidate(c) ==
  LET s == Symbol(c)
  IN  /\ sync[c].pc = "invalidate"
      /\ cache' = [cache EXCEPT ![s] = <<>>]
      /\ tainted' = tainted \ {s}
      /\ sync' = [sync EXCEPT ![c].pc = "publish"]
      /\ UNCHANGED <<clock, epoch, rows, marker, reader, asked, faults,
                     unsaid, interrupted, excused, unchecked, holed>>

\* sync_universe goes to its next symbol; fetch_and_store has none.
NextSymbol(c, failed) ==
  LET rest == Tail(sync[c].queue)
  IN  sync' = [sync EXCEPT ![c] =
        [Idle EXCEPT !.now = sync[c].now, !.queue = rest, !.failed = sync[c].failed \/ failed,
                     !.pc = IF rest # <<>> THEN "plan"
                            ELSE IF c = "beat" THEN "mark" ELSE "idle"]]

\* MarketDataUpdated, when a row was written.
Publish(c) ==
  LET s == Symbol(c)
      wrote == Stored(sync[c].bars) # {}
  IN  /\ sync[c].pc = "publish"
      /\ NextSymbol(c, FALSE)
      /\ unsaid' = IF wrote THEN unsaid \ {s} ELSE unsaid
      /\ interrupted' = IF wrote THEN interrupted \ {s} ELSE interrupted
      /\ UNCHANGED <<clock, epoch, rows, cache, marker, reader, asked, faults,
                     excused, unchecked, holed, tainted>>

\* A step of a symbol raises: the run goes on with the next symbol.
SymbolFails(c) ==
  LET s == Symbol(c)
  IN  /\ sync[c].pc \in {"plan", "fetch", "compare", "repair", "save", "invalidate", "publish"}
      /\ Fault
      /\ NextSymbol(c, TRUE)
      /\ interrupted' = IF s \in unsaid THEN interrupted \union {s} ELSE interrupted
      /\ tainted' = IF sync[c].pc = "invalidate" THEN tainted \union {s} ELSE tainted
      /\ UNCHANGED <<clock, epoch, rows, cache, marker, reader, asked,
                     unsaid, excused, unchecked, holed>>

\* Only a run of which every symbol succeeded vouches for all it is marked
\* with, and only for what had closed when it began.
Marks(day) ==
  /\ marker' = IF Backend = "redis" THEN day ELSE 0
  /\ excused' = IF sync["beat"].failed \/ sync["beat"].skipped
                  THEN excused \union 1..day
                  ELSE excused \union {d \in 1..day : d > CoverageDate(sync["beat"].now)}

\* marker.mark, against the session the clock now says.
Mark ==
  /\ sync["beat"].pc = "mark"
  /\ Marks(CoverageDate(clock))
  /\ sync' = [sync EXCEPT !["beat"] = Idle]
  /\ UNCHANGED <<clock, epoch, rows, cache, reader, asked, faults,
                 unsaid, interrupted, unchecked, holed, tainted>>

\* A restart: memory goes, the rows stay, and Redis where it is used.
Crash ==
  /\ Fault
  /\ sync' = [c \in Callers |-> Idle]
  /\ reader' = NoRead
  /\ cache' = IF Backend = "redis" THEN cache ELSE [s \in Names |-> <<>>]
  /\ tainted' = IF Backend = "redis"
                  THEN tainted \union
                         {Symbol(c) : c \in {b \in Callers : sync[b].pc = "invalidate"}}
                  ELSE {}
  /\ interrupted' = interrupted \union unsaid
  /\ UNCHANGED <<clock, epoch, rows, marker, asked, unsaid, excused, unchecked, holed>>

-----------------------------------------------------------------------------
(* The readers                                                             *)

\* A mutant of GetCached: any cached window will do.
GetCachedAny(s, limit) ==
  /\ Request
  /\ reader.pc = "idle"
  /\ reader' = IF cache[s] # <<>>
                 THEN [NoRead EXCEPT !.pc = "answer", !.symbol = s, !.limit = limit,
                                     !.bars = Latest(cache[s][1], limit)]
                 ELSE [NoRead EXCEPT !.pc = "read", !.symbol = s, !.limit = limit]
  /\ UNCHANGED <<clock, epoch, rows, cache, marker, sync, faults,
                 unsaid, interrupted, excused, unchecked, holed, tainted>>

\* GET /ohlcv without dates: the cache answers what its window covers.
GetCached(s, limit) ==
  /\ Request
  /\ reader.pc = "idle"
  /\ reader' = IF cache[s] # <<>> /\ Cardinality(Stored(cache[s][1])) >= limit
                 THEN [NoRead EXCEPT !.pc = "answer", !.symbol = s, !.limit = limit,
                                     !.bars = Latest(cache[s][1], limit)]
                 ELSE [NoRead EXCEPT !.pc = "read", !.symbol = s, !.limit = limit]
  /\ UNCHANGED <<clock, epoch, rows, cache, marker, sync, faults,
                 unsaid, interrupted, excused, unchecked, holed, tainted>>

ReadRows ==
  LET bars == Latest(rows[reader.symbol], reader.limit)
  IN  /\ reader.pc = "read"
      /\ reader' = [reader EXCEPT !.pc = IF Stored(bars) = {} THEN "answer" ELSE "fill",
                                  !.bars = bars]
      /\ UNCHANGED <<clock, epoch, rows, cache, marker, sync, asked, faults,
                     unsaid, interrupted, excused, unchecked, holed, tainted>>

\* The rows read go into the cache, whatever was saved since.
FillCache ==
  /\ reader.pc = "fill"
  /\ cache' = [cache EXCEPT ![reader.symbol] = <<reader.bars>>]
  /\ tainted' = IF reader.overtaken THEN tainted \union {reader.symbol}
                ELSE tainted \ {reader.symbol}
  /\ reader' = [reader EXCEPT !.pc = "answer"]
  /\ UNCHANGED <<clock, epoch, rows, marker, sync, asked, faults,
                 unsaid, interrupted, excused, unchecked, holed>>

Answer ==
  /\ reader.pc = "answer"
  /\ reader' = NoRead
  /\ UNCHANGED <<clock, epoch, rows, cache, marker, sync, asked, faults,
                 unsaid, interrupted, excused, unchecked, holed, tainted>>

\* An entry's TTL; the in-memory cache has none.
Expire(s) ==
  /\ Backend = "redis" /\ cache[s] # <<>>
  /\ cache' = [cache EXCEPT ![s] = <<>>]
  /\ tainted' = tainted \ {s}
  /\ UNCHANGED <<clock, epoch, rows, marker, sync, reader, asked, faults,
                 unsaid, interrupted, excused, unchecked, holed>>

-----------------------------------------------------------------------------
Run(c) ==
  \/ PlanSymbol(c) \/ Compare(c) \/ Save(c) \/ Invalidate(c) \/ Publish(c) \/ SymbolFails(c)
  \/ \E source \in {"yahoo", "alpha_vantage"} : Fetch(c, source) \/ Refetch(c, source)

Next ==
  \/ Tick
  \/ \E s \in Names : CorporateAction(s) \/ Expire(s)
  \/ Beat \/ PostSync \/ Mark \/ Crash
  \/ \E s \in Names : \E from \in {0, Day(clock)} : PostFetch(s, from)
  \/ \E c \in Callers : Run(c)
  \/ \E s \in Names : \E n \in Limits : GetCached(s, n)
  \/ ReadRows \/ FillCache \/ Answer

Spec == Init /\ [][Next]_vars

-----------------------------------------------------------------------------
TypeOK ==
  /\ clock \in 2..(2 * Days + 1)
  /\ epoch \in [Names -> 1..(MaxActions + 1)]
  /\ rows \in [Names -> [1..Days -> -1..(MaxActions + 1)]]
  /\ \A s \in Names : cache[s] = <<>> \/ cache[s][1] \in [1..Days -> -1..(MaxActions + 1)]
  /\ marker \in 0..Days
  /\ \A c \in Callers :
       sync[c].pc \in {"idle", "plan", "fetch", "compare", "repair", "save", "invalidate",
                       "publish", "mark"}
  /\ reader.pc \in {"idle", "read", "fill", "answer"}

\* A day the marker covers is stored for every symbol: no later beat goes back
\* for it.  Excepted are the days a run is marked with although a symbol of it
\* failed, a weekend skipped it, or the close passed while it ran (main.py:197),
\* and the symbols a request stored a window of beyond their newest row.
MarkedDayIsStored ==
  \A d \in Sessions \ excused : \A s \in Names \ holed :
    d <= marker /\ FirstStored[s] <= d => rows[s][d] # 0

\* A missed run is repaired by the next, however many days it missed: the rows
\* of a symbol are contiguous, but for a window a request put beyond them.
NoHole ==
  \A s \in Names \ holed : \A d \in Sessions :
    Stored(rows[s]) # {} /\ Oldest(Stored(rows[s])) <= d /\ d <= Newest(Stored(rows[s]))
      => rows[s][d] # 0

\* A history with rows on two scales shows it to the next sync: one of the rows
\* its overlap compares has the old factor.  Excepted are symbols a request,
\* the second source or a window fetched before the action wrote over, and those
\* of which older rows arrived while a repair was on its way.
MixedScaleIsSeen ==
  \A s \in Names \ unchecked :
    (\E d, e \in Stored(rows[s]) : rows[s][d] # rows[s][e])
      => \E d \in OverlapOf(rows[s]) : rows[s][d] # epoch[s]

\* What is cached is what is stored, but between a commit and its invalidation,
\* or when a read the commit overtook has refilled the entry.
CacheIsCurrent ==
  \A s \in Names \ tainted :
    cache[s] # <<>> /\ (\A c \in Callers : sync[c].pc = "invalidate" => Symbol(c) # s)
      => cache[s][1] = Latest(rows[s], Cardinality(Stored(cache[s][1])))

\* Rows nobody was told of are on their way, unless a failure came between.
StoredIsAnnounced ==
  \A s \in unsaid :
    \/ s \in interrupted
    \/ \E c \in Callers : sync[c].pc \in {"invalidate", "publish"} /\ Symbol(c) = s

\* A reader gets as many bars as it asked for, or all there are: a window some
\* shorter read cached never answers for more (service.py:50).
ReadsAreComplete ==
  [][reader.pc = "idle" /\ reader'.pc = "answer"
       => Cardinality(Stored(reader'.bars)) =
            Smaller(reader'.limit, Cardinality(Stored(rows[reader'.symbol])))]_vars

\* The table has no day missing that a later beat would not ask for, and no rows
\* that nobody will be told of (incremental.py:81, main.py:197, service.py:122).
StoreIsSound == TypeOK /\ MarkedDayIsStored /\ NoHole /\ StoredIsAnnounced

\* The cache never answers with other rows than the table's, nor with fewer than
\* were asked for (service.py:33-60).
CacheAnswersTruly == []CacheIsCurrent /\ ReadsAreComplete
=============================================================================
