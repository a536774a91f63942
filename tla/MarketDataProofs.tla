-------------------------- MODULE MarketDataProofs --------------------------
(***************************************************************************)
(* What market-data keeps, for any calendar, any symbols and any bound: the *)
(* table's soundness, the scale of its histories, and the cache before it. *)
(***************************************************************************)
EXTENDS MarketData, FiniteSetTheorems, TLAPS

-----------------------------------------------------------------------------
(* The days of a set, counted from the newest                              *)

Above(S, d) == {e \in S : e > d}

\* The days of a set are numbered by how many are newer, each number once.
LEMMA DaysAreRanked ==
  ASSUME NEW S \in SUBSET (1..Days)
  PROVE  /\ IsFiniteSet(S) /\ Cardinality(S) \in Nat
         /\ \A d \in S : Cardinality(Above(S, d)) \in 0..(Cardinality(S) - 1)
         /\ \A d, e \in S : d < e => Cardinality(Above(S, e)) < Cardinality(Above(S, d))
         /\ \A n \in 0..(Cardinality(S) - 1) : \E d \in S : Cardinality(Above(S, d)) = n
<1>0. Days \in Nat
  BY MarketDataAssumption
<1>1. IsFiniteSet(S) /\ Cardinality(S) \in Nat
  <2>1. 1 \in Int /\ Days \in Int
    BY <1>0
  <2>2. IsFiniteSet(1..Days)
    BY <2>1, FS_Interval
  <2>3. IsFiniteSet(S)
    BY <2>2, FS_Subset
  <2> QED
    BY <2>3, FS_CardinalityType
<1>2. \A T \in SUBSET S : IsFiniteSet(T) /\ Cardinality(T) \in Nat
  BY <1>1, FS_Subset, FS_CardinalityType
<1>3. \A d \in S : Cardinality(Above(S, d)) \in 0..(Cardinality(S) - 1)
  <2> SUFFICES ASSUME NEW d \in S PROVE Cardinality(Above(S, d)) \in 0..(Cardinality(S) - 1)
    OBVIOUS
  <2>1. Above(S, d) \subseteq S \ {d}
    BY <1>0 DEF Above
  <2>2. IsFiniteSet(S \ {d}) /\ Cardinality(S \ {d}) = Cardinality(S) - 1
    BY <1>1, FS_RemoveElement
  <2>3. Cardinality(Above(S, d)) <= Cardinality(S \ {d})
    BY <2>1, <2>2, FS_Subset
  <2>4. Cardinality(Above(S, d)) \in Nat
    BY <2>1, <1>2
  <2> QED
    BY <2>2, <2>3, <2>4, <1>1
<1>4. \A d, e \in S : d < e => Cardinality(Above(S, e)) < Cardinality(Above(S, d))
  <2> SUFFICES ASSUME NEW d \in S, NEW e \in S, d < e
               PROVE  Cardinality(Above(S, e)) < Cardinality(Above(S, d))
    OBVIOUS
  <2>0. S \subseteq Int
    BY <1>0
  <2>1. Above(S, e) \union {e} \subseteq Above(S, d)
    <3> SUFFICES ASSUME NEW x \in S, x > e PROVE x > d
      BY DEF Above
    <3> QED
      BY <2>0
  <2>2. e \notin Above(S, e)
    BY <1>0 DEF Above
  <2>3. Above(S, d) \subseteq S /\ Above(S, e) \subseteq S
    BY DEF Above
  <2>4. Cardinality(Above(S, e) \union {e}) = Cardinality(Above(S, e)) + 1
    BY <2>2, <2>3, <1>2, FS_AddElement
  <2>5. Cardinality(Above(S, e) \union {e}) <= Cardinality(Above(S, d))
    BY <2>1, <2>3, <1>2, FS_Subset
  <2>6. Cardinality(Above(S, e)) \in Nat /\ Cardinality(Above(S, d)) \in Nat
    BY <2>3, <1>2
  <2> QED
    BY <2>4, <2>5, <2>6
<1>5. \A n \in 0..(Cardinality(S) - 1) : \E d \in S : Cardinality(Above(S, d)) = n
  <2> DEFINE f == [d \in S |-> Cardinality(Above(S, d))]
             N == 0..(Cardinality(S) - 1)
  <2>1. f \in [S -> N]
    BY <1>3
  <2>2. ASSUME NEW d \in S, NEW e \in S, f[d] = f[e] PROVE d = e
    <3>1. Cardinality(Above(S, d)) = Cardinality(Above(S, e))
      BY <2>2
    <3>2. Cardinality(Above(S, d)) \in Int /\ d \in Int /\ e \in Int
      BY <1>3, <1>0
    <3> QED
      BY <3>1, <3>2, <1>4
  <2>3. f \in Injection(S, N)
    BY <2>1, <2>2 DEF Injection, IsInjective
  <2>4. IsFiniteSet(N) /\ Cardinality(N) = Cardinality(S)
    <3>1. 0 \in Int /\ Cardinality(S) - 1 \in Int
      BY <1>1
    <3>2. IsFiniteSet(N) /\ Cardinality(N) = IF 0 > Cardinality(S) - 1 THEN 0 ELSE Cardinality(S) - 1 - 0 + 1
      BY <3>1, FS_Interval
    <3> QED
      BY <3>2, <1>1
  <2>5. f \in Surjection(S, N)
    BY <2>3, <2>4, FS_Injection
  <2> QED
    BY <2>5 DEF Surjection
<1> QED
  BY <1>1, <1>3, <1>4, <1>5

\* A set of days that is not empty has a newest and an oldest day.
LEMMA NewestAndOldest ==
  ASSUME NEW S \in SUBSET (1..Days), S # {}
  PROVE  /\ Newest(S) \in S /\ \A e \in S : e <= Newest(S)
         /\ Oldest(S) \in S /\ \A e \in S : Oldest(S) <= e
         /\ Newest(S) \in Int /\ Oldest(S) \in Int
<1>0. Days \in Nat
  BY MarketDataAssumption
<1> DEFINE k == Cardinality(S)
<1>1. k \in Nat /\ IsFiniteSet(S) /\ k # 0
  BY DaysAreRanked, FS_EmptySet
<1>2. \A T \in SUBSET S : IsFiniteSet(T) /\ Cardinality(T) \in Nat
  BY <1>1, FS_Subset, FS_CardinalityType
<1>3. PICK n \in S : Cardinality(Above(S, n)) = 0
  <2>1. 0 \in 0..(Cardinality(S) - 1)
    BY <1>1
  <2> QED
    BY <2>1, DaysAreRanked
<1>4. Above(S, n) = {}
  <2>1. Above(S, n) \subseteq S
    BY DEF Above
  <2> QED
    BY <2>1, <1>2, <1>3, FS_EmptySet
<1>5. \A e \in S : e <= n
  BY <1>4, <1>0 DEF Above
<1>6. PICK m \in S : Cardinality(Above(S, m)) = k - 1
  <2>1. k - 1 \in 0..(Cardinality(S) - 1)
    BY <1>1
  <2> QED
    BY <2>1, DaysAreRanked
<1>7. Above(S, m) = S \ {m}
  <2>1. Above(S, m) \subseteq S \ {m}
    BY <1>0 DEF Above
  <2>2. IsFiniteSet(S \ {m}) /\ Cardinality(S \ {m}) = k - 1
    BY <1>1, FS_RemoveElement
  <2> QED
    BY <2>1, <2>2, <1>6, FS_Subset
<1>8. \A e \in S : m <= e
  BY <1>7, <1>0 DEF Above
<1>9. Newest(S) \in S /\ \A e \in S : e <= Newest(S)
  BY <1>5 DEF Newest
<1>10. Oldest(S) \in S /\ \A e \in S : Oldest(S) <= e
  BY <1>8 DEF Oldest
<1>11. S \subseteq Int
  BY <1>0
<1> QED
  BY <1>9, <1>10, <1>11

-----------------------------------------------------------------------------
(* The most recent rows                                                    *)

Factor == -1..(MaxActions + 1)
Window == [1..Days -> Factor]

LEMMA StoredDays ==
  ASSUME NEW r
  PROVE  Stored(r) \in SUBSET (1..Days)
BY DEF Stored

\* The newest days of a set, up to a limit, are as many as the limit or the set.
LEMMA NewestDaysCount ==
  ASSUME NEW S \in SUBSET (1..Days), NEW n \in Nat
  PROVE  Cardinality({d \in S : Cardinality(Above(S, d)) < n}) = Smaller(n, Cardinality(S))
<1> DEFINE K == {d \in S : Cardinality(Above(S, d)) < n}
<1>0. Days \in Nat /\ S \subseteq Int
  BY MarketDataAssumption
<1>1. IsFiniteSet(S) /\ Cardinality(S) \in Nat
  BY DaysAreRanked
<1>2. \A d \in S : Cardinality(Above(S, d)) \in 0..(Cardinality(S) - 1)
  BY DaysAreRanked
<1>3. \A d, e \in S : d < e => Cardinality(Above(S, e)) < Cardinality(Above(S, d))
  BY DaysAreRanked
<1>4. \A m \in 0..(Cardinality(S) - 1) : \E d \in S : Cardinality(Above(S, d)) = m
  BY DaysAreRanked
<1>5. CASE Cardinality(S) <= n
  <2>1. ASSUME NEW d \in S PROVE Cardinality(Above(S, d)) < n
    <3>1. Cardinality(Above(S, d)) \in 0..(Cardinality(S) - 1)
      BY <1>2
    <3> QED
      BY <3>1, <1>1, <1>5
  <2>2. K = S
    BY <2>1
  <2> QED
    BY <2>2, <1>1, <1>5 DEF Smaller
<1>6. CASE n < Cardinality(S)
  <2> DEFINE f == [d \in K |-> Cardinality(Above(S, d))]
             N == 0..(n - 1)
  <2>1. ASSUME NEW d \in K PROVE Cardinality(Above(S, d)) \in N
    <3>1. d \in S /\ Cardinality(Above(S, d)) < n
      OBVIOUS
    <3>2. Cardinality(Above(S, d)) \in 0..(Cardinality(S) - 1)
      BY <3>1, <1>2
    <3> QED
      BY <3>1, <3>2, <1>1
  <2>a. f \in [K -> N]
    BY <2>1
  <2>2. ASSUME NEW d \in K, NEW e \in K, f[d] = f[e] PROVE d = e
    <3>1. Cardinality(Above(S, d)) = Cardinality(Above(S, e))
      BY <2>2
    <3>2. Cardinality(Above(S, d)) \in Int /\ d \in Int /\ e \in Int /\ d \in S /\ e \in S
      BY <1>2, <1>0
    <3> QED
      BY <3>1, <3>2, <1>3
  <2>3. f \in Injection(K, N)
    BY <2>a, <2>2 DEF Injection, IsInjective
  <2>4. ASSUME NEW m \in N PROVE \E d \in K : f[d] = m
    <3>1. m \in 0..(Cardinality(S) - 1) /\ m < n
      BY <1>1, <1>6
    <3>2. PICK d \in S : Cardinality(Above(S, d)) = m
      BY <3>1, <1>4
    <3>3. d \in K
      BY <3>1, <3>2
    <3> QED
      BY <3>2, <3>3
  <2>5. f \in Surjection(K, N)
    BY <2>a, <2>4 DEF Surjection
  <2>6. IsFiniteSet(N) /\ Cardinality(N) = n
    <3>1. 0 \in Int /\ n - 1 \in Int
      OBVIOUS
    <3>2. IsFiniteSet(N) /\ Cardinality(N) = IF 0 > n - 1 THEN 0 ELSE n - 1 - 0 + 1
      BY <3>1, FS_Interval
    <3> QED
      BY <3>2
  <2>7. Cardinality(K) = Cardinality(N)
    BY <2>3, <2>5, <2>6, FS_Injection
  <2> QED
    BY <2>6, <2>7, <1>1, <1>6 DEF Smaller
<1> QED
  BY <1>1, <1>5, <1>6

\* Latest keeps rows of the table, as many as asked for or all, and keeps the
\* same ones when asked for as many as it kept.
LEMMA LatestRows ==
  ASSUME NEW r \in Window, NEW n \in Nat
  PROVE  /\ Latest(r, n) \in Window
         /\ Stored(Latest(r, n)) \subseteq Stored(r)
         /\ Cardinality(Stored(Latest(r, n))) = Smaller(n, Cardinality(Stored(r)))
         /\ Latest(r, Cardinality(Stored(Latest(r, n)))) = Latest(r, n)
<1> DEFINE S == Stored(r)
           k == Smaller(n, Cardinality(S))
<1>0. Days \in Nat /\ MaxActions \in Nat /\ 0 \in Factor
  BY MarketDataAssumption DEF Factor
<1>1. S \in SUBSET (1..Days)
  BY StoredDays
<1>2. Cardinality(S) \in Nat /\ \A d \in S : Cardinality(Above(S, d)) \in 0..(Cardinality(S) - 1)
  BY <1>1, DaysAreRanked
<1>3. \A m : Latest(r, m) = [d \in 1..Days |-> IF Cardinality(Above(S, d)) < m THEN r[d] ELSE 0]
  BY DEF Latest, Above
<1> HIDE DEF S
<1>4. Latest(r, n) \in Window
  BY <1>0, <1>3 DEF Window
<1>5. Stored(Latest(r, n)) = {d \in S : Cardinality(Above(S, d)) < n}
  BY <1>3 DEF Stored, S
<1>6. Cardinality(Stored(Latest(r, n))) = k
  BY <1>5, <1>1, NewestDaysCount
<1>7. ASSUME NEW d \in 1..Days
      PROVE  (IF Cardinality(Above(S, d)) < k THEN r[d] ELSE 0)
               = (IF Cardinality(Above(S, d)) < n THEN r[d] ELSE 0)
  <2>1. CASE d \in S
    BY <2>1, <1>2 DEF Smaller
  <2>2. CASE d \notin S
    BY <2>2 DEF Stored, S
  <2> QED
    BY <2>1, <2>2
<1>8. Latest(r, k) = Latest(r, n)
  BY <1>3, <1>7
<1> QED
  BY <1>4, <1>5, <1>6, <1>8 DEF S

-----------------------------------------------------------------------------
(* Types                                                                   *)

Pcs == {"idle", "plan", "fetch", "compare", "repair", "save", "invalidate", "publish", "mark"}
Busy == {"fetch", "compare", "repair", "save", "invalidate", "publish"}
Runs == [pc : Pcs, queue : Seq(Names), fetch : BOOLEAN, now : Int, full : BOOLEAN, from : Int,
         bars : Window, failed : BOOLEAN, skipped : BOOLEAN]
Reads == [pc : {"idle", "read", "fill", "answer"}, symbol : Names, limit : Nat, bars : Window,
          overtaken : BOOLEAN]

Types ==
  /\ clock \in (2 * StartDay + 1)..(2 * Days + 1)
  /\ epoch \in [Names -> 1..(MaxActions + 1)]
  /\ rows \in [Names -> Window]
  /\ cache \in [Names -> Seq(Window)]
  /\ marker \in 0..Days
  /\ sync \in [Callers -> Runs]
  /\ reader \in Reads

\* The times a run takes its plan from, and the queue it works off; the
\* heartbeat never fetches by request.
RunOK(r, t) ==
  /\ r.pc \notin {"idle", "mark"} => r.queue # <<>>
  /\ r.pc \in Busy => r.now \in (2 * StartDay + 1)..t
BeatOK(r, t) ==
  /\ ~r.fetch
  /\ r.pc = "mark" => r.queue = <<>>
  /\ r.skipped => r.pc \in {"idle", "mark"}
  /\ r.pc # "idle" => r.now \in (2 * StartDay + 1)..t

RunInv ==
  /\ \A c \in Callers : RunOK(sync[c], clock)
  /\ BeatOK(sync["beat"], clock)

TypeInv == Types /\ RunInv

LEMMA Constants ==
  /\ Days \in Nat /\ Days # 0 /\ StartDay \in 1..Days /\ Overlap \in Nat
  /\ InitialHistory \in Nat /\ DefaultPeriod \in Nat /\ MaxActions \in Nat /\ Null = -1
  /\ Names # {} /\ Symbols[1] \in Names /\ Symbols \in Seq(Names) /\ Symbols # <<>>
  /\ 0 \in Factor /\ Null \in Factor /\ Factor \subseteq Int
<1>1. Len(Symbols) \in Nat /\ Len(Symbols) # 0 /\ DOMAIN Symbols = 1..Len(Symbols)
  BY MarketDataAssumption
<1>2. 1 \in DOMAIN Symbols
  BY <1>1
<1> QED
  BY <1>2, MarketDataAssumption DEF Names, Factor, Null

LEMMA NothingIsAWindow == Nothing \in Window
BY Constants DEF Nothing, Window

LEMMA IdleIsARun == Idle \in Runs
BY NothingIsAWindow, Constants DEF Idle, Runs, Pcs

LEMMA NoReadIsARead == NoRead \in Reads
BY NothingIsAWindow, Constants DEF NoRead, Reads

\* A symbol at the head of a queue, and what follows it.
LEMMA QueueHead ==
  ASSUME NEW q \in Seq(Names), q # <<>>
  PROVE  /\ Head(q) \in Names /\ Tail(q) \in Seq(Names)
         /\ Len(q) \in Nat \ {0} /\ Len(Tail(q)) = Len(q) - 1
         /\ \A i \in 1..Len(Tail(q)) : Tail(q)[i] = q[i + 1]
         /\ Head(q) = q[1]
OBVIOUS

LEMMA RunFields ==
  ASSUME NEW r \in Runs
  PROVE  /\ r.pc \in Pcs /\ r.queue \in Seq(Names) /\ r.fetch \in BOOLEAN /\ r.now \in Int
         /\ r.full \in BOOLEAN /\ r.from \in Int /\ r.bars \in Window
         /\ r.failed \in BOOLEAN /\ r.skipped \in BOOLEAN
BY DEF Runs

\* The half days, the days they belong to, and the sessions closed by then.
LEMMA Clock ==
  ASSUME NEW t \in Int, 2 * StartDay + 1 <= t
  PROVE  /\ Day(t) \in Int /\ StartDay <= Day(t)
         /\ CoverageDate(t) \in Int /\ StartDay <= CoverageDate(t) /\ CoverageDate(t) <= Day(t)
         /\ t <= 2 * Days + 1 => Day(t) <= Days
         /\ \A u \in Int : t <= u => Day(t) <= Day(u) /\ CoverageDate(t) <= CoverageDate(u)
BY Constants DEF Day, CoverageDate, Closed

\* The sessions of a window, all at one factor.
Filled(from, to, f) ==
  [d \in 1..Days |-> IF d \in Sessions /\ from <= d /\ d <= to THEN f ELSE 0]

LEMMA FilledWindow ==
  ASSUME NEW from \in Int, NEW to \in Int, NEW f \in Factor
  PROVE  /\ Filled(from, to, f) \in Window
         /\ \A d \in 1..Days : Filled(from, to, f)[d] =
              IF d \in Sessions /\ from <= d /\ d <= to THEN f ELSE 0
BY Constants DEF Filled, Window

\* What a source answers: every session of the window that had closed when the
\* run began, at one factor that is no newer than the provider's.
LEMMA BarsFill ==
  ASSUME Types, NEW s \in Names, NEW from \in Int, NEW now \in (2 * StartDay + 1)..clock,
         NEW source
  PROVE  /\ Bars(s, from, now, source) \in Window
         /\ \E T \in StartDay..Days, f \in Factor :
              /\ f # 0 /\ f <= epoch[s] /\ CoverageDate(now) <= T
              /\ Bars(s, from, now, source) = Filled(from, T, f)
<1> DEFINE T == Smaller(Day(now), CoverageDate(clock))
           f == IF source = "yahoo" THEN epoch[s] ELSE Null
<1>0. clock \in Int /\ now \in Int /\ now <= clock /\ 2 * StartDay + 1 <= now
      /\ 2 * StartDay + 1 <= clock /\ clock <= 2 * Days + 1 /\ epoch[s] \in 1..(MaxActions + 1)
  BY Constants DEF Types
<1>1. /\ Day(now) \in Int /\ StartDay <= Day(now) /\ CoverageDate(now) <= Day(now)
      /\ CoverageDate(now) \in Int
      /\ Day(now) <= Day(clock) /\ CoverageDate(now) <= CoverageDate(clock)
  BY <1>0, Clock
<1>2. /\ Day(clock) \in Int /\ Day(clock) <= Days /\ StartDay <= CoverageDate(clock)
      /\ CoverageDate(clock) \in Int
  BY <1>0, Clock
<1>3. T \in StartDay..Days /\ CoverageDate(now) <= T
  BY <1>1, <1>2, Constants DEF Smaller
<1>4. f \in Factor /\ f # 0 /\ f <= epoch[s]
  BY <1>0, Constants DEF Factor
<1>5. ASSUME NEW d \in 1..Days
      PROVE  (d <= Day(now) /\ (d < Day(clock) \/ Closed(clock))) <=> d <= T
  <2>1. d \in Int
    BY Constants
  <2>2. CASE Closed(clock)
    <3>1. CoverageDate(clock) = Day(clock)
      BY <2>2 DEF CoverageDate
    <3> QED
      BY <2>1, <2>2, <3>1, <1>1, <1>2 DEF Smaller
  <2>3. CASE ~Closed(clock)
    <3>1. CoverageDate(clock) = Day(clock) - 1
      BY <2>3 DEF CoverageDate
    <3> QED
      BY <2>1, <2>3, <3>1, <1>1, <1>2 DEF Smaller
  <2> QED
    BY <2>2, <2>3
<1>6. Bars(s, from, now, source) = Filled(from, T, f)
  <2>1. ASSUME NEW d \in 1..Days
        PROVE  Bars(s, from, now, source)[d] = Filled(from, T, f)[d]
    <3> HIDE DEF T
    <3> QED
      BY <1>5 DEF Bars, Filled
  <2> DEFINE L == Bars(s, from, now, source)
             R == Filled(from, T, f)
  <2>2. L = [d \in 1..Days |-> L[d]]
    BY DEF Bars
  <2>3. R = [d \in 1..Days |-> R[d]]
    BY DEF Filled
  <2> HIDE DEF L, R
  <2> QED
    <3>1. \A d \in 1..Days : L[d] = R[d]
      BY <2>1 DEF L, R
    <3>2. L = R
      BY <2>2, <2>3, <3>1
    <3> QED
      BY <3>2 DEF L, R
<1>7. Filled(from, T, f) \in Window
  <2>1. T \in Int
    BY <1>3, Constants
  <2> HIDE DEF T, f
  <2> QED
    BY <2>1, <1>4, FilledWindow
<1> QED
  BY <1>3, <1>4, <1>6, <1>7

LEMMA UpsertRows ==
  ASSUME NEW old \in Window, NEW new \in Window
  PROVE  /\ Upsert(old, new) \in Window
         /\ \A d \in 1..Days : Upsert(old, new)[d] = IF new[d] # 0 THEN new[d] ELSE old[d]
BY DEF Upsert, Window

-----------------------------------------------------------------------------
(* What the steps of a run do                                              *)

\* Only a caller's own run moves.
Moves(c) == sync' \in [Callers -> Runs] /\ \A b \in Callers \ {c} : sync'[b] = sync[b]

LEMMA Callers2 ==
  /\ "beat" \in Callers /\ "http" \in Callers
  /\ \A c \in Callers : c # "beat" => c = "http"
BY DEF Callers

LEMMA SymbolIsAName ==
  ASSUME TypeInv, NEW c \in Callers, sync[c].pc \notin {"idle", "mark"}
  PROVE  /\ Symbol(c) \in Names /\ Symbol(c) = Head(sync[c].queue)
         /\ sync[c].queue \in Seq(Names) /\ sync[c].queue # <<>>
         /\ rows[Symbol(c)] \in Window /\ epoch[Symbol(c)] \in 1..(MaxActions + 1)
<1>1. sync[c].queue \in Seq(Names) /\ sync[c].queue # <<>>
  BY RunFields DEF TypeInv, Types, RunInv, RunOK
<1>2. Symbol(c) \in Names /\ Symbol(c) = Head(sync[c].queue)
  BY <1>1, QueueHead DEF Symbol
<1> QED
  BY <1>1, <1>2 DEF TypeInv, Types

LEMMA PlanSymbolStep ==
  ASSUME TypeInv, NEW c \in Callers, PlanSymbol(c)
  PROVE  /\ Moves(c)
         /\ sync[c].pc = "plan" /\ sync'[c].pc = "fetch"
         /\ sync'[c].queue = sync[c].queue /\ sync'[c].fetch = sync[c].fetch
         /\ sync'[c].failed = sync[c].failed /\ sync'[c].skipped = sync[c].skipped
         /\ sync'[c].now = IF c = "http" THEN clock ELSE sync[c].now
         /\ sync'[c].now \in (2 * StartDay + 1)..clock
         /\ sync'[c].full = (Stored(rows[Symbol(c)]) = {})
         /\ sync'[c].from = PlanFetch(Stored(rows[Symbol(c)]), sync'[c].now)
<1> DEFINE S == Stored(rows[Symbol(c)])
           now == IF c = "http" THEN clock ELSE sync[c].now
<1>1. clock \in (2 * StartDay + 1)..(2 * Days + 1) /\ clock \in Int /\ sync \in [Callers -> Runs]
  BY Constants DEF TypeInv, Types
<1>2. sync[c] \in Runs /\ sync[c].pc = "plan"
  BY <1>1 DEF PlanSymbol
<1>3. now \in (2 * StartDay + 1)..clock /\ now \in Int
  <2>1. CASE c = "http"
    BY <2>1, <1>1, Constants
  <2>2. CASE c # "http"
    <3>1. c = "beat"
      BY <2>2 DEF Callers
    <3> QED
      BY <2>2, <3>1, <1>1, <1>2, Constants DEF TypeInv, RunInv, BeatOK
  <2> QED
    BY <2>1, <2>2
<1>4. S \in SUBSET (1..Days)
  BY StoredDays
<1>5. PlanFetch(S, now) \in Int
  <2>1. now \in Int /\ Day(now) \in Int
    BY <1>3, Clock, Constants
  <2>2. S # {} => Newest(S) \in Int
    BY <1>4, NewestAndOldest, Constants
  <2> HIDE DEF S, now
  <2> QED
    BY <2>1, <2>2, Constants DEF PlanFetch, Smaller
<1>6. sync' = [sync EXCEPT ![c] = [sync[c] EXCEPT !.pc = "fetch", !.now = now, !.full = (S = {}),
                                                  !.from = PlanFetch(S, now)]]
  BY DEF PlanSymbol
<1>7. [sync[c] EXCEPT !.pc = "fetch", !.now = now, !.full = (S = {}), !.from = PlanFetch(S, now)] \in Runs
  <2>1. "fetch" \in Pcs /\ (S = {}) \in BOOLEAN
    BY DEF Pcs
  <2> HIDE DEF S, now
  <2> QED
    BY <2>1, <1>2, <1>3, <1>5 DEF Runs
<1>8. Moves(c)
  BY <1>1, <1>6, <1>7 DEF Moves
<1> HIDE DEF S, now
<1>9. sync'[c] = [sync[c] EXCEPT !.pc = "fetch", !.now = now, !.full = (S = {}), !.from = PlanFetch(S, now)]
  BY <1>1, <1>6
<1>10. /\ sync'[c].pc = "fetch" /\ sync'[c].queue = sync[c].queue /\ sync'[c].fetch = sync[c].fetch
       /\ sync'[c].failed = sync[c].failed /\ sync'[c].skipped = sync[c].skipped
       /\ sync'[c].now = now /\ sync'[c].full = (S = {}) /\ sync'[c].from = PlanFetch(S, now)
  BY <1>2, <1>9 DEF Runs
<1> QED
  BY <1>2, <1>3, <1>8, <1>10 DEF S, now

\* Bars a source answered, as a run keeps them until it stores them.
Fetched(r, e) ==
  \E T \in StartDay..Days, f \in Factor :
    /\ f # 0 /\ f <= e[Head(r.queue)] /\ CoverageDate(r.now) <= T
    /\ r.bars = Filled(r.from, T, f)

LEMMA FetchStep ==
  ASSUME TypeInv, NEW c \in Callers, NEW source, Fetch(c, source)
  PROVE  /\ Moves(c)
         /\ sync[c].pc = "fetch" /\ sync'[c].pc \in {"save", "compare"}
         /\ sync'[c].queue = sync[c].queue /\ sync'[c].fetch = sync[c].fetch
         /\ sync'[c].failed = sync[c].failed /\ sync'[c].skipped = sync[c].skipped
         /\ sync'[c].now = sync[c].now /\ sync'[c].full = sync[c].full
         /\ sync'[c].from = sync[c].from /\ sync'[c].bars \in Window
         /\ sync'[c].pc = "save" => sync[c].fetch \/ sync[c].full \/ Stored(sync'[c].bars) = {}
         /\ sync'[c].pc = "compare" => ~sync[c].fetch /\ ~sync[c].full
         /\ Fetched(sync'[c], epoch)
<1> DEFINE r == sync[c]
           b == Bars(Symbol(c), r.from, r.now, source)
           p == IF r.fetch \/ r.full \/ Stored(b) = {} THEN "save" ELSE "compare"
<1>1. sync \in [Callers -> Runs] /\ r \in Runs /\ r.pc = "fetch" /\ r.from \in Int
  BY RunFields DEF TypeInv, Types, Fetch
<1>2. Symbol(c) \in Names /\ Symbol(c) = Head(r.queue)
  BY <1>1, SymbolIsAName
<1>3. r.now \in (2 * StartDay + 1)..clock
  BY <1>1 DEF TypeInv, RunInv, RunOK, Busy
<1>4. b \in Window /\ \E T \in StartDay..Days, f \in Factor :
                        /\ f # 0 /\ f <= epoch[Symbol(c)] /\ CoverageDate(r.now) <= T
                        /\ b = Filled(r.from, T, f)
  BY <1>1, <1>2, <1>3, BarsFill DEF TypeInv
<1>5. sync' = [sync EXCEPT ![c] = [r EXCEPT !.bars = b, !.pc = p]]
  BY DEF Fetch
<1>6. p \in Pcs /\ p \in {"save", "compare"}
  BY DEF Pcs
<1>7. /\ p = "save" => r.fetch \/ r.full \/ Stored(b) = {}
      /\ p = "compare" => ~r.fetch /\ ~r.full
  OBVIOUS
<1> HIDE DEF b, p
<1>8. [r EXCEPT !.bars = b, !.pc = p] \in Runs
  BY <1>1, <1>4, <1>6 DEF Runs
<1>9. Moves(c) /\ sync'[c] = [r EXCEPT !.bars = b, !.pc = p]
  BY <1>1, <1>5, <1>8 DEF Moves
<1>10. /\ sync'[c].pc = p /\ sync'[c].queue = r.queue /\ sync'[c].fetch = r.fetch
       /\ sync'[c].failed = r.failed /\ sync'[c].skipped = r.skipped
       /\ sync'[c].now = r.now /\ sync'[c].full = r.full /\ sync'[c].from = r.from
       /\ sync'[c].bars = b
  BY <1>1, <1>9 DEF Runs
<1>11. Fetched(sync'[c], epoch)
  BY <1>2, <1>4, <1>10 DEF Fetched
<1> QED
  BY <1>1, <1>4, <1>6, <1>7, <1>9, <1>10, <1>11

LEMMA CompareStep ==
  ASSUME TypeInv, NEW c \in Callers, Compare(c)
  PROVE  /\ Moves(c)
         /\ sync[c].pc = "compare" /\ sync'[c].pc \in {"repair", "save"}
         /\ sync'[c].queue = sync[c].queue /\ sync'[c].fetch = sync[c].fetch
         /\ sync'[c].failed = sync[c].failed /\ sync'[c].skipped = sync[c].skipped
         /\ sync'[c].now = sync[c].now /\ sync'[c].bars = sync[c].bars
         /\ sync'[c].full = (sync'[c].pc = "repair")
         /\ sync'[c].pc = "repair" =>
              sync'[c].from = FullHistoryPlan(Stored(rows[Symbol(c)]), sync[c].now)
         /\ sync'[c].pc = "save" =>
              /\ sync'[c].from = sync[c].from
              /\ \A d \in 1..Days :
                   sync[c].from <= d /\ rows[Symbol(c)][d] > 0 /\ sync[c].bars[d] > 0
                     => rows[Symbol(c)][d] = sync[c].bars[d]
<1> DEFINE r == sync[c]
           R == rows[Symbol(c)]
           drifted == AdjustmentDrifted([d \in 1..Days |-> IF d >= r.from THEN R[d] ELSE 0], r.bars)
           p == IF drifted THEN "repair" ELSE "save"
           f == IF drifted THEN FullHistoryPlan(Stored(R), r.now) ELSE r.from
<1>1. sync \in [Callers -> Runs] /\ r \in Runs /\ r.pc = "compare" /\ r.from \in Int
  BY RunFields DEF TypeInv, Types, Compare
<1>3. r.now \in (2 * StartDay + 1)..clock /\ clock \in Int
  BY <1>1, Constants DEF TypeInv, Types, RunInv, RunOK, Busy
<1>4. FullHistoryPlan(Stored(R), r.now) \in Int
  <2>1. Day(r.now) \in Int
    BY <1>3, Clock, Constants
  <2>2. Stored(R) # {} => Oldest(Stored(R)) \in Int
    BY StoredDays, NewestAndOldest, Constants
  <2> HIDE DEF R, r
  <2> QED
    BY <2>1, <2>2, Constants DEF FullHistoryPlan, Smaller
<1>5. sync' = [sync EXCEPT ![c] = [r EXCEPT !.pc = p, !.full = drifted, !.from = f]]
  BY DEF Compare
<1>6. p \in Pcs /\ p \in {"repair", "save"} /\ drifted \in BOOLEAN /\ drifted = (p = "repair")
  BY DEF Pcs, AdjustmentDrifted
<1>7. /\ p = "repair" => f = FullHistoryPlan(Stored(R), r.now)
      /\ p = "save" => f = r.from
      /\ f \in Int
  BY <1>1, <1>4
<1>8. ASSUME p = "save", NEW d \in 1..Days, r.from <= d, R[d] > 0, r.bars[d] > 0
      PROVE  R[d] = r.bars[d]
  <2>1. ~drifted
    BY <1>8
  <2> DEFINE W == [e \in 1..Days |-> IF e >= r.from THEN R[e] ELSE 0]
  <2>2. W[d] = R[d]
    BY <1>1, <1>8, Constants
  <2>3. ~(W[d] > 0 /\ r.bars[d] > 0 /\ W[d] # r.bars[d])
    <3> HIDE DEF r, R
    <3> QED
      BY <2>1 DEF AdjustmentDrifted
  <2> QED
    BY <2>2, <2>3, <1>8
<1> HIDE DEF drifted, p, f
<1>9. [r EXCEPT !.pc = p, !.full = drifted, !.from = f] \in Runs
  BY <1>1, <1>6, <1>7 DEF Runs
<1>10. Moves(c) /\ sync'[c] = [r EXCEPT !.pc = p, !.full = drifted, !.from = f]
  BY <1>1, <1>5, <1>9 DEF Moves
<1>11. /\ sync'[c].pc = p /\ sync'[c].queue = r.queue /\ sync'[c].fetch = r.fetch
       /\ sync'[c].failed = r.failed /\ sync'[c].skipped = r.skipped
       /\ sync'[c].now = r.now /\ sync'[c].full = drifted /\ sync'[c].from = f
       /\ sync'[c].bars = r.bars
  BY <1>1, <1>10 DEF Runs
<1> QED
  BY <1>1, <1>6, <1>7, <1>8, <1>10, <1>11

LEMMA RefetchStep ==
  ASSUME TypeInv, NEW c \in Callers, NEW source, Refetch(c, source)
  PROVE  /\ Moves(c)
         /\ sync[c].pc = "repair" /\ sync'[c].pc = "save"
         /\ sync'[c].queue = sync[c].queue /\ sync'[c].fetch = sync[c].fetch
         /\ sync'[c].failed = sync[c].failed /\ sync'[c].skipped = sync[c].skipped
         /\ sync'[c].now = sync[c].now /\ sync'[c].full = sync[c].full
         /\ sync'[c].from = sync[c].from /\ Fetched(sync'[c], epoch)
<1> DEFINE r == sync[c]
           b == Bars(Symbol(c), r.from, r.now, source)
<1>1. sync \in [Callers -> Runs] /\ r \in Runs /\ r.pc = "repair" /\ r.from \in Int
  BY RunFields DEF TypeInv, Types, Refetch
<1>2. Symbol(c) \in Names /\ Symbol(c) = Head(r.queue)
  BY <1>1, SymbolIsAName
<1>3. r.now \in (2 * StartDay + 1)..clock
  BY <1>1 DEF TypeInv, RunInv, RunOK, Busy
<1>4. b \in Window /\ \E T \in StartDay..Days, f \in Factor :
                        /\ f # 0 /\ f <= epoch[Symbol(c)] /\ CoverageDate(r.now) <= T
                        /\ b = Filled(r.from, T, f)
  BY <1>1, <1>2, <1>3, BarsFill DEF TypeInv
<1>5. sync' = [sync EXCEPT ![c] = [r EXCEPT !.bars = b, !.pc = "save"]]
  BY DEF Refetch
<1> HIDE DEF b
<1>8. [r EXCEPT !.bars = b, !.pc = "save"] \in Runs
  BY <1>1, <1>4 DEF Runs, Pcs
<1>9. Moves(c) /\ sync'[c] = [r EXCEPT !.bars = b, !.pc = "save"]
  BY <1>1, <1>5, <1>8 DEF Moves
<1>10. /\ sync'[c].pc = "save" /\ sync'[c].queue = r.queue /\ sync'[c].fetch = r.fetch
       /\ sync'[c].failed = r.failed /\ sync'[c].skipped = r.skipped
       /\ sync'[c].now = r.now /\ sync'[c].full = r.full /\ sync'[c].from = r.from
       /\ sync'[c].bars = b
  BY <1>1, <1>9 DEF Runs
<1>11. Fetched(sync'[c], epoch)
  BY <1>2, <1>4, <1>10 DEF Fetched
<1> QED
  BY <1>1, <1>9, <1>10, <1>11

\* Storing, forgetting the cached window: the run only goes on.
Passes(c, from, to) ==
  /\ Moves(c)
  /\ sync[c].pc = from /\ sync'[c].pc = to
  /\ sync'[c].queue = sync[c].queue /\ sync'[c].fetch = sync[c].fetch
  /\ sync'[c].failed = sync[c].failed /\ sync'[c].skipped = sync[c].skipped
  /\ sync'[c].now = sync[c].now /\ sync'[c].bars = sync[c].bars

LEMMA PassingStep ==
  ASSUME TypeInv, NEW c \in Callers, NEW from, NEW to \in Pcs, sync[c].pc = from,
         sync' = [sync EXCEPT ![c].pc = to]
  PROVE  Passes(c, from, to)
<1> DEFINE r == sync[c]
<1>1. sync \in [Callers -> Runs] /\ r \in Runs
  BY DEF TypeInv, Types
<1>2. [r EXCEPT !.pc = to] \in Runs
  BY <1>1 DEF Runs
<1>3. Moves(c) /\ sync'[c] = [r EXCEPT !.pc = to]
  BY <1>1, <1>2 DEF Moves
<1> QED
  BY <1>1, <1>3 DEF Passes, Runs

LEMMA NextSymbolStep ==
  ASSUME TypeInv, NEW c \in Callers, NEW failed \in BOOLEAN, NextSymbol(c, failed),
         sync[c].pc \notin {"idle", "mark"}
  PROVE  /\ Moves(c)
         /\ sync'[c].queue = Tail(sync[c].queue) /\ sync'[c].fetch = FALSE
         /\ sync'[c].failed = (sync[c].failed \/ failed) /\ sync'[c].skipped = FALSE
         /\ sync'[c].now = sync[c].now
         /\ IF sync'[c].queue # <<>> THEN sync'[c].pc = "plan"
            ELSE sync'[c].pc = IF c = "beat" THEN "mark" ELSE "idle"
<1> DEFINE r == sync[c]
           rest == Tail(r.queue)
           g == r.failed \/ failed
           p == IF rest # <<>> THEN "plan" ELSE IF c = "beat" THEN "mark" ELSE "idle"
<1>1. sync \in [Callers -> Runs] /\ r \in Runs /\ r.now \in Int /\ r.failed \in BOOLEAN
  BY RunFields DEF TypeInv, Types
<1>2. rest \in Seq(Names)
  BY SymbolIsAName, QueueHead
<1>3. p \in Pcs /\ g \in BOOLEAN
  BY <1>1 DEF Pcs
<1>4. sync' = [sync EXCEPT ![c] = [Idle EXCEPT !.now = r.now, !.queue = rest, !.failed = g, !.pc = p]]
  BY DEF NextSymbol
<1>5. IF rest # <<>> THEN p = "plan" ELSE p = IF c = "beat" THEN "mark" ELSE "idle"
  OBVIOUS
<1> HIDE DEF rest, p, g
<1> DEFINE q == [Idle EXCEPT !.now = r.now, !.queue = rest, !.failed = g, !.pc = p]
<1>6. q \in Runs
  BY <1>1, <1>2, <1>3, IdleIsARun DEF Runs
<1>7. /\ q.queue = rest /\ q.fetch = FALSE /\ q.failed = g /\ q.skipped = FALSE /\ q.now = r.now
      /\ q.pc = p
  BY DEF Idle
<1> HIDE DEF q
<1>8. Moves(c) /\ sync'[c] = q
  BY <1>1, <1>4, <1>6 DEF Moves, q
<1> QED
  BY <1>5, <1>7, <1>8 DEF rest, g

\* A run that begins: the heartbeat's, a POST's.
LEMMA BeatStep ==
  ASSUME TypeInv, Beat
  PROVE  /\ Moves("beat")
         /\ sync["beat"].pc = "idle" /\ sync'["beat"].now = clock /\ sync'["beat"].fetch = FALSE
         /\ sync'["beat"].failed = FALSE
         /\ \/ /\ sync'["beat"].pc = "mark" /\ sync'["beat"].queue = <<>>
               /\ sync'["beat"].skipped = TRUE
            \/ /\ sync'["beat"].pc = "plan" /\ sync'["beat"].queue = Symbols
               /\ sync'["beat"].skipped = FALSE
<1>1. sync \in [Callers -> Runs] /\ "beat" \in Callers /\ clock \in Int
  BY Callers2, Constants DEF TypeInv, Types
<1>2. CASE Day(clock) \in Weekend
  <2> DEFINE q == [Idle EXCEPT !.pc = "mark", !.now = clock, !.skipped = TRUE]
  <2>1. q \in Runs
    BY <1>1, IdleIsARun DEF Runs, Pcs
  <2>2. /\ q.pc = "mark" /\ q.now = clock /\ q.skipped = TRUE /\ q.fetch = FALSE
        /\ q.failed = FALSE /\ q.queue = <<>>
    BY DEF Idle
  <2>3. sync' = [sync EXCEPT !["beat"] = q]
    BY <1>2 DEF Beat
  <2> HIDE DEF q
  <2>4. Moves("beat") /\ sync'["beat"] = q
    BY <1>1, <2>1, <2>3 DEF Moves
  <2> QED
    BY <2>2, <2>4 DEF Beat
<1>3. CASE Day(clock) \notin Weekend
  <2> DEFINE q == [Idle EXCEPT !.pc = "plan", !.now = clock, !.queue = Symbols]
  <2>1. q \in Runs
    BY <1>1, IdleIsARun, Constants DEF Runs, Pcs
  <2>2. /\ q.pc = "plan" /\ q.now = clock /\ q.skipped = FALSE /\ q.fetch = FALSE
        /\ q.failed = FALSE /\ q.queue = Symbols
    BY DEF Idle
  <2>3. sync' = [sync EXCEPT !["beat"] = q]
    BY <1>3 DEF Beat
  <2> HIDE DEF q
  <2>4. Moves("beat") /\ sync'["beat"] = q
    BY <1>1, <2>1, <2>3 DEF Moves
  <2> QED
    BY <2>2, <2>4 DEF Beat
<1> QED
  BY <1>2, <1>3

LEMMA PostSyncStep ==
  ASSUME TypeInv, PostSync
  PROVE  /\ Moves("http")
         /\ sync["http"].pc = "idle" /\ sync'["http"].pc = "plan"
         /\ sync'["http"].queue = Symbols /\ sync'["http"].fetch = FALSE
<1> DEFINE q == [Idle EXCEPT !.pc = "plan", !.queue = Symbols]
<1>1. sync \in [Callers -> Runs] /\ "http" \in Callers
  BY Callers2 DEF TypeInv, Types
<1>2. q \in Runs
  BY <1>1, IdleIsARun, Constants DEF Runs, Pcs
<1>3. q.pc = "plan" /\ q.queue = Symbols /\ q.fetch = FALSE
  BY DEF Idle
<1>4. sync' = [sync EXCEPT !["http"] = q]
  BY DEF PostSync
<1> HIDE DEF q
<1>5. Moves("http") /\ sync'["http"] = q
  BY <1>1, <1>2, <1>4 DEF Moves
<1> QED
  BY <1>3, <1>5 DEF PostSync

LEMMA PostFetchStep ==
  ASSUME TypeInv, NEW s \in Names, NEW from \in {0, Day(clock)}, PostFetch(s, from)
  PROVE  /\ Moves("http")
         /\ sync["http"].pc = "idle" /\ sync'["http"].pc = "fetch"
         /\ sync'["http"].queue = <<s>> /\ sync'["http"].fetch = TRUE
         /\ sync'["http"].full = FALSE /\ sync'["http"].now = clock
<1> DEFINE f == IF from = 0 THEN Day(clock) - DefaultPeriod ELSE from
           q == [Idle EXCEPT !.pc = "fetch", !.queue = <<s>>, !.fetch = TRUE, !.now = clock,
                             !.from = f]
<1>1. sync \in [Callers -> Runs] /\ "http" \in Callers /\ clock \in Int
  BY Callers2, Constants DEF TypeInv, Types
<1>2. f \in Int
  BY <1>1, Constants DEF Day
<1>3. sync' = [sync EXCEPT !["http"] = q]
  BY DEF PostFetch
<1> HIDE DEF f
<1>4. q \in Runs
  <2>1. <<s>> \in Seq(Names)
    OBVIOUS
  <2>2. "fetch" \in Pcs
    BY DEF Pcs
  <2> QED
    BY <1>1, <1>2, <2>1, <2>2, IdleIsARun DEF Runs
<1>5. q.pc = "fetch" /\ q.queue = <<s>> /\ q.fetch = TRUE /\ q.full = FALSE /\ q.now = clock
  BY DEF Idle
<1> HIDE DEF q
<1>6. Moves("http") /\ sync'["http"] = q
  BY <1>1, <1>3, <1>4 DEF Moves
<1> QED
  BY <1>5, <1>6 DEF PostFetch

LEMMA MarkStep ==
  ASSUME TypeInv, Mark
  PROVE  Moves("beat") /\ sync["beat"].pc = "mark" /\ sync'["beat"].pc = "idle"
         /\ sync'["beat"].fetch = FALSE
<1>1. sync \in [Callers -> Runs] /\ "beat" \in Callers /\ Idle \in Runs
  BY Callers2, IdleIsARun DEF TypeInv, Types
<1>2. sync' = [sync EXCEPT !["beat"] = Idle]
  BY DEF Mark
<1>3. Idle.pc = "idle" /\ Idle.fetch = FALSE
  BY DEF Idle
<1> QED
  BY <1>1, <1>2, <1>3 DEF Moves, Mark

LEMMA CrashStep ==
  ASSUME TypeInv, Crash
  PROVE  sync' \in [Callers -> Runs] /\ \A c \in Callers : sync'[c].pc = "idle" /\ sync'[c].fetch = FALSE
<1>1. Idle.pc = "idle" /\ Idle.fetch = FALSE
  BY DEF Idle
<1> QED
  BY <1>1, IdleIsARun DEF Crash

-----------------------------------------------------------------------------
(* The types are kept                                                      *)

LEMMA CachedWindow ==
  ASSUME NEW w \in Seq(Window), w # <<>>
  PROVE  w[1] \in Window
OBVIOUS

LEMMA OneWindow ==
  ASSUME NEW w \in Window
  PROVE  <<w>> \in Seq(Window) /\ <<w>> # <<>> /\ <<w>>[1] = w
OBVIOUS

LEMMA RunsOn ==
  ASSUME TypeInv, NEW c \in Callers, Moves(c), clock' = clock,
         RunOK(sync'[c], clock), c = "beat" => BeatOK(sync'[c], clock)
  PROVE  sync' \in [Callers -> Runs] /\ RunInv'
<1>1. sync' \in [Callers -> Runs]
  BY DEF Moves
<1>2. ASSUME NEW b \in Callers PROVE RunOK(sync'[b], clock')
  <2>1. CASE b = c
    BY <2>1
  <2>2. CASE b # c
    BY <2>2 DEF Moves, TypeInv, RunInv
  <2> QED
    BY <2>1, <2>2
<1>3. BeatOK(sync'["beat"], clock')
  <2>1. CASE c = "beat"
    BY <2>1
  <2>2. CASE c # "beat"
    BY <2>2, Callers2 DEF Moves, TypeInv, RunInv
  <2> QED
    BY <2>1, <2>2
<1> QED
  BY <1>1, <1>2, <1>3 DEF RunInv

\* Every action on the runs leaves them sound.
LEMMA RunsKept ==
  ASSUME TypeInv, NEW c \in Callers, Run(c)
  PROVE  sync' \in [Callers -> Runs] /\ RunInv'
<1>1. sync[c] \in Runs /\ RunOK(sync[c], clock) /\ (c = "beat" => BeatOK(sync[c], clock))
  BY DEF TypeInv, Types, RunInv
<1>2. CASE PlanSymbol(c)
  <2>1. clock' = clock
    BY <1>2 DEF PlanSymbol
  <2>2. RunOK(sync'[c], clock) /\ (c = "beat" => BeatOK(sync'[c], clock))
    BY <1>1, <1>2, PlanSymbolStep DEF RunOK, BeatOK
  <2> QED
    BY <1>2, <2>1, <2>2, PlanSymbolStep, RunsOn
<1>3. ASSUME NEW source, Fetch(c, source) PROVE sync' \in [Callers -> Runs] /\ RunInv'
  <2>1. clock' = clock
    BY <1>3 DEF Fetch
  <2>2. RunOK(sync'[c], clock) /\ (c = "beat" => BeatOK(sync'[c], clock))
    BY <1>1, <1>3, FetchStep DEF RunOK, BeatOK, Busy
  <2> QED
    BY <1>3, <2>1, <2>2, FetchStep, RunsOn
<1>4. CASE Compare(c)
  <2>1. clock' = clock
    BY <1>4 DEF Compare
  <2>2. RunOK(sync'[c], clock) /\ (c = "beat" => BeatOK(sync'[c], clock))
    BY <1>1, <1>4, CompareStep DEF RunOK, BeatOK, Busy
  <2> QED
    BY <1>4, <2>1, <2>2, CompareStep, RunsOn
<1>5. ASSUME NEW source, Refetch(c, source) PROVE sync' \in [Callers -> Runs] /\ RunInv'
  <2>1. clock' = clock
    BY <1>5 DEF Refetch
  <2>2. RunOK(sync'[c], clock) /\ (c = "beat" => BeatOK(sync'[c], clock))
    BY <1>1, <1>5, RefetchStep DEF RunOK, BeatOK, Busy
  <2> QED
    BY <1>5, <2>1, <2>2, RefetchStep, RunsOn
<1>6. CASE Save(c)
  <2>1. clock' = clock /\ sync[c].pc = "save" /\ sync' = [sync EXCEPT ![c].pc = "invalidate"]
    BY <1>6 DEF Save
  <2>2. Passes(c, "save", "invalidate")
    BY <2>1, PassingStep DEF Pcs
  <2>3. RunOK(sync'[c], clock) /\ (c = "beat" => BeatOK(sync'[c], clock))
    BY <1>1, <2>2 DEF RunOK, BeatOK, Busy, Passes
  <2> QED
    BY <2>1, <2>2, <2>3, RunsOn DEF Passes
<1>7. CASE Invalidate(c)
  <2>1. /\ clock' = clock /\ sync[c].pc = "invalidate"
        /\ sync' = [sync EXCEPT ![c].pc = "publish"]
    BY <1>7 DEF Invalidate
  <2>2. Passes(c, "invalidate", "publish")
    BY <2>1, PassingStep DEF Pcs
  <2>3. RunOK(sync'[c], clock) /\ (c = "beat" => BeatOK(sync'[c], clock))
    BY <1>1, <2>2 DEF RunOK, BeatOK, Busy, Passes
  <2> QED
    BY <2>1, <2>2, <2>3, RunsOn DEF Passes
<1>8. ASSUME NEW failed \in BOOLEAN, NextSymbol(c, failed), clock' = clock,
             sync[c].pc \notin {"idle", "mark"}
      PROVE  sync' \in [Callers -> Runs] /\ RunInv'
  <2>1. Moves(c) /\ sync'[c].pc \in {"plan", "mark", "idle"}
        /\ (sync'[c].pc = "plan" <=> sync'[c].queue # <<>>)
    BY <1>8, NextSymbolStep
  <2>2. RunOK(sync'[c], clock)
    BY <2>1 DEF RunOK, Busy
  <2>3. c = "beat" => BeatOK(sync'[c], clock)
    <3> SUFFICES ASSUME c = "beat" PROVE BeatOK(sync'[c], clock)
      OBVIOUS
    <3>1. sync[c].now \in (2 * StartDay + 1)..clock
      BY <1>1, <1>8 DEF BeatOK
    <3>2. ~sync'[c].fetch /\ sync'[c].now = sync[c].now /\ ~sync'[c].skipped
      BY <1>8, NextSymbolStep
    <3> QED
      BY <2>1, <3>1, <3>2 DEF BeatOK
  <2> QED
    BY <1>8, <2>1, <2>2, <2>3, RunsOn
<1>9. CASE Publish(c)
  BY <1>9, <1>8 DEF Publish
<1>10. CASE SymbolFails(c)
  BY <1>10, <1>8 DEF SymbolFails
<1> QED
  BY <1>2, <1>3, <1>4, <1>5, <1>6, <1>7, <1>9, <1>10 DEF Run

LEMMA OthersKept ==
  ASSUME TypeInv, Beat \/ PostSync \/ Mark \/ Crash
                    \/ \E s \in Names : \E from \in {0, Day(clock)} : PostFetch(s, from)
  PROVE  sync' \in [Callers -> Runs] /\ RunInv' /\ clock' = clock
<1>0. clock \in (2 * StartDay + 1)..clock
  BY Constants DEF TypeInv, Types
<1>1. CASE Beat
  <2>1. clock' = clock
    BY <1>1 DEF Beat
  <2>2. Symbols # <<>>
    BY Constants
  <2>3. RunOK(sync'["beat"], clock) /\ BeatOK(sync'["beat"], clock)
    BY <1>0, <1>1, <2>2, BeatStep DEF RunOK, BeatOK, Busy
  <2> QED
    BY <1>1, <2>1, <2>3, BeatStep, RunsOn, Callers2
<1>2. CASE PostSync
  <2>1. clock' = clock
    BY <1>2 DEF PostSync
  <2>2. Symbols # <<>>
    BY Constants
  <2>3. RunOK(sync'["http"], clock)
    BY <1>2, <2>2, PostSyncStep DEF RunOK, Busy
  <2> QED
    BY <1>2, <2>1, <2>3, PostSyncStep, RunsOn, Callers2
<1>3. CASE Mark
  <2>1. clock' = clock
    BY <1>3 DEF Mark
  <2>3. RunOK(sync'["beat"], clock) /\ BeatOK(sync'["beat"], clock)
    BY <1>3, MarkStep DEF RunOK, BeatOK, Busy
  <2> QED
    BY <1>3, <2>1, <2>3, MarkStep, RunsOn, Callers2
<1>4. CASE Crash
  <2>1. clock' = clock
    BY <1>4 DEF Crash
  <2>2. RunInv'
    BY <1>4, CrashStep, Callers2 DEF RunInv, RunOK, BeatOK, Busy
  <2> QED
    BY <1>4, <2>1, <2>2, CrashStep
<1>5. ASSUME NEW s \in Names, NEW from \in {0, Day(clock)}, PostFetch(s, from)
      PROVE  sync' \in [Callers -> Runs] /\ RunInv' /\ clock' = clock
  <2>1. clock' = clock
    BY <1>5 DEF PostFetch
  <2>2. sync'["http"].queue # <<>>
    <3>1. sync'["http"].queue = <<s>>
      BY <1>5, PostFetchStep
    <3> QED
      BY <3>1
  <2>3. RunOK(sync'["http"], clock)
    BY <1>0, <1>5, <2>2, PostFetchStep DEF RunOK, Busy
  <2> QED
    BY <1>5, <2>1, <2>3, PostFetchStep, RunsOn, Callers2
<1> QED
  BY <1>1, <1>2, <1>3, <1>4, <1>5

\* A read in progress, and what a step makes of it.
LEMMA ReaderKept ==
  ASSUME TypeInv
  PROVE  /\ \A s \in Names : \A n \in Limits : GetCached(s, n) => reader' \in Reads
         /\ ReadRows => reader' \in Reads
         /\ FillCache => reader' \in Reads /\ cache' \in [Names -> Seq(Window)]
<1>0. reader \in Reads /\ cache \in [Names -> Seq(Window)] /\ rows \in [Names -> Window]
  BY DEF TypeInv, Types
<1>00. reader.symbol \in Names /\ reader.limit \in Nat /\ reader.bars \in Window
  BY <1>0 DEF Reads
<1>1. ASSUME NEW s \in Names, NEW n \in Limits, GetCached(s, n) PROVE reader' \in Reads
  <2>0. n \in Nat /\ NoRead \in Reads
    BY MarketDataAssumption, NoReadIsARead
  <2>1. CASE cache[s] # <<>> /\ Cardinality(Stored(cache[s][1])) >= n
    <3> DEFINE b == Latest(cache[s][1], n)
    <3>1. b \in Window
      BY <1>0, <2>0, <2>1, CachedWindow, LatestRows
    <3>2. reader' = [NoRead EXCEPT !.pc = "answer", !.symbol = s, !.limit = n, !.bars = b]
      BY <1>1, <2>1 DEF GetCached
    <3> HIDE DEF b
    <3> QED
      BY <2>0, <3>1, <3>2 DEF Reads
  <2>2. CASE ~(cache[s] # <<>> /\ Cardinality(Stored(cache[s][1])) >= n)
    <3>1. reader' = [NoRead EXCEPT !.pc = "read", !.symbol = s, !.limit = n]
      BY <1>1, <2>2 DEF GetCached
    <3> QED
      BY <2>0, <3>1 DEF Reads
  <2> QED
    BY <2>1, <2>2
<1>2. ASSUME ReadRows PROVE reader' \in Reads
  <2> DEFINE b == Latest(rows[reader.symbol], reader.limit)
             p == IF Stored(b) = {} THEN "answer" ELSE "fill"
  <2>1. b \in Window
    BY <1>0, <1>00, LatestRows
  <2>2. reader' = [reader EXCEPT !.pc = p, !.bars = b]
    BY <1>2 DEF ReadRows
  <2>3. p \in {"answer", "fill"}
    OBVIOUS
  <2> HIDE DEF b, p
  <2> QED
    BY <1>0, <2>1, <2>2, <2>3 DEF Reads
<1>3. ASSUME FillCache PROVE reader' \in Reads /\ cache' \in [Names -> Seq(Window)]
  <2>1. reader' = [reader EXCEPT !.pc = "answer"]
    BY <1>3 DEF FillCache
  <2>2. reader' \in Reads
    BY <1>0, <2>1 DEF Reads
  <2> DEFINE w == <<reader.bars>>
  <2>3. w \in Seq(Window)
    BY <1>00, OneWindow
  <2>4. cache' = [cache EXCEPT ![reader.symbol] = w]
    BY <1>3 DEF FillCache
  <2> HIDE DEF w
  <2>5. cache' \in [Names -> Seq(Window)]
    BY <1>0, <1>00, <2>3, <2>4
  <2> QED
    BY <2>2, <2>5
<1> QED
  BY <1>1, <1>2, <1>3

LEMMA TypeStep ==
  ASSUME TypeInv, [Next]_vars
  PROVE  TypeInv'
<1>0. /\ clock \in (2 * StartDay + 1)..(2 * Days + 1)
      /\ epoch \in [Names -> 1..(MaxActions + 1)]
      /\ rows \in [Names -> Window]
      /\ cache \in [Names -> Seq(Window)]
      /\ marker \in 0..Days
      /\ sync \in [Callers -> Runs]
      /\ reader \in Reads
  BY DEF TypeInv, Types
<1>1. CASE Tick
  <2>1. clock' \in (2 * StartDay + 1)..(2 * Days + 1) /\ clock' = clock + 1
    BY <1>0, <1>1, Constants DEF Tick
  <2>2. UNCHANGED <<epoch, rows, cache, marker, sync, reader>>
    BY <1>1 DEF Tick
  <2>3. ASSUME NEW r \in Runs
        PROVE  (RunOK(r, clock) => RunOK(r, clock')) /\ (BeatOK(r, clock) => BeatOK(r, clock'))
    BY <1>0, <2>1, Constants DEF RunOK, BeatOK, Runs
  <2>4. RunInv'
    BY <1>0, <2>2, <2>3, Callers2 DEF TypeInv, RunInv
  <2> QED
    BY <1>0, <2>1, <2>2, <2>4 DEF TypeInv, Types
<1>2. ASSUME NEW s \in Names, CorporateAction(s) PROVE TypeInv'
  <2>1. epoch' \in [Names -> 1..(MaxActions + 1)]
    BY <1>0, <1>2, Constants DEF CorporateAction
  <2>2. UNCHANGED <<clock, rows, cache, marker, sync, reader>>
    BY <1>2 DEF CorporateAction
  <2>3. RunInv'
    BY <2>2 DEF TypeInv, RunInv
  <2> QED
    BY <1>0, <2>1, <2>2, <2>3 DEF TypeInv, Types
<1>3. ASSUME NEW s \in Names, Expire(s) PROVE TypeInv'
  <2>1. cache' \in [Names -> Seq(Window)]
    BY <1>0, <1>3 DEF Expire
  <2>2. UNCHANGED <<clock, epoch, rows, marker, sync, reader>>
    BY <1>3 DEF Expire
  <2>3. RunInv'
    BY <2>2 DEF TypeInv, RunInv
  <2> QED
    BY <1>0, <2>1, <2>2, <2>3 DEF TypeInv, Types
<1>4. ASSUME Beat \/ PostSync \/ \E s \in Names : \E from \in {0, Day(clock)} : PostFetch(s, from)
      PROVE  TypeInv'
  <2>1. sync' \in [Callers -> Runs] /\ RunInv' /\ clock' = clock
    BY <1>4, OthersKept
  <2>2. UNCHANGED <<epoch, rows, cache, marker, reader>>
    BY <1>4 DEF Beat, PostSync, PostFetch
  <2> QED
    BY <1>0, <2>1, <2>2 DEF TypeInv, Types
<1>5. CASE Mark
  <2>1. sync' \in [Callers -> Runs] /\ RunInv' /\ clock' = clock
    BY <1>5, OthersKept
  <2>2. UNCHANGED <<epoch, rows, cache, reader>>
    BY <1>5 DEF Mark
  <2>3. CoverageDate(clock) \in 0..Days
    <3>1. clock \in Int /\ 2 * StartDay + 1 <= clock /\ clock <= 2 * Days + 1
      BY <1>0, Constants
    <3> QED
      BY <3>1, Clock, Constants
  <2>4. marker' \in 0..Days
    BY <1>5, <2>3, Constants DEF Mark, Marks
  <2> QED
    BY <1>0, <2>1, <2>2, <2>4 DEF TypeInv, Types
<1>6. CASE Crash
  <2>1. sync' \in [Callers -> Runs] /\ RunInv' /\ clock' = clock
    BY <1>6, OthersKept
  <2>2. UNCHANGED <<epoch, rows, marker>>
    BY <1>6 DEF Crash
  <2>3. reader' \in Reads
    BY <1>6, NoReadIsARead DEF Crash
  <2>4. cache' \in [Names -> Seq(Window)]
    BY <1>0, <1>6 DEF Crash
  <2> QED
    BY <1>0, <2>1, <2>2, <2>3, <2>4 DEF TypeInv, Types
<1>7. ASSUME NEW c \in Callers, Run(c) PROVE TypeInv'
  <2>1. sync' \in [Callers -> Runs] /\ RunInv'
    BY <1>7, RunsKept
  <2>2. CASE Save(c)
    <3>1. sync[c].pc = "save" /\ sync[c].bars \in Window
      BY <1>0, <2>2, RunFields DEF Save
    <3>2. Symbol(c) \in Names /\ rows[Symbol(c)] \in Window
      BY <3>1, SymbolIsAName
    <3> DEFINE n == Upsert(rows[Symbol(c)], sync[c].bars)
    <3>3. n \in Window
      BY <3>1, <3>2, UpsertRows
    <3>4. rows' = [rows EXCEPT ![Symbol(c)] = n]
      BY <2>2 DEF Save
    <3> HIDE DEF n
    <3>5. rows' \in [Names -> Window]
      BY <1>0, <3>3, <3>4
    <3>6. reader' \in Reads
      <4>1. reader' = [reader EXCEPT !.overtaken = TRUE] \/ reader' = reader
        BY <2>2 DEF Save
      <4> QED
        BY <1>0, <4>1 DEF Reads
    <3>7. UNCHANGED <<clock, epoch, cache, marker>>
      BY <2>2 DEF Save
    <3> QED
      BY <1>0, <2>1, <3>5, <3>6, <3>7 DEF TypeInv, Types
  <2>3. CASE Invalidate(c)
    <3>1. cache' \in [Names -> Seq(Window)]
      <4>1. cache' = [cache EXCEPT ![Symbol(c)] = <<>>]
        BY <2>3 DEF Invalidate
      <4>2. <<>> \in Seq(Window)
        OBVIOUS
      <4> QED
        BY <1>0, <4>1, <4>2
    <3>2. UNCHANGED <<clock, epoch, rows, marker, reader>>
      BY <2>3 DEF Invalidate
    <3> QED
      BY <1>0, <2>1, <3>1, <3>2 DEF TypeInv, Types
  <2>4. CASE ~Save(c) /\ ~Invalidate(c)
    <3>1. UNCHANGED <<clock, epoch, rows, cache, marker, reader>>
      BY <1>7, <2>4 DEF Run, PlanSymbol, Fetch, Compare, Refetch, Publish, SymbolFails
    <3> QED
      BY <1>0, <2>1, <3>1 DEF TypeInv, Types
  <2> QED
    BY <2>2, <2>3, <2>4
<1>8. ASSUME (\E s \in Names : \E n \in Limits : GetCached(s, n)) \/ ReadRows \/ FillCache \/ Answer
      PROVE  TypeInv'
  <2>1. UNCHANGED <<clock, epoch, rows, marker, sync>>
    BY <1>8 DEF GetCached, ReadRows, FillCache, Answer
  <2>2. reader' \in Reads
    BY <1>8, ReaderKept, NoReadIsARead DEF Answer
  <2>3. cache' \in [Names -> Seq(Window)]
    BY <1>0, <1>8, ReaderKept DEF GetCached, ReadRows, Answer
  <2>4. RunInv'
    BY <2>1 DEF TypeInv, RunInv
  <2> QED
    BY <1>0, <2>1, <2>2, <2>3, <2>4 DEF TypeInv, Types
<1>9. CASE UNCHANGED vars
  BY <1>9 DEF vars, state, TypeInv, Types, RunInv
<1> QED
  BY <1>1, <1>2, <1>3, <1>4, <1>5, <1>6, <1>7, <1>8, <1>9 DEF Next

-----------------------------------------------------------------------------
(* The invariants                                                          *)

\* Rows are of sessions, at a factor the provider has had; those of the start
\* are never lost, and a symbol nothing blinded has no row without a factor.
RowsInv ==
  /\ \A s \in Names : \A d \in Stored(rows[s]) : d \in Sessions /\ rows[s][d] <= epoch[s]
  /\ \A s \in Names : \A d \in Sessions :
       FirstStored[s] <= d /\ d < StartDay => d \in Stored(rows[s])
  /\ \A s \in Names \ unchecked : \A d \in Stored(rows[s]) : rows[s][d] # Null

BarsInv == \A c \in Callers : sync[c].pc \in {"compare", "save"} => Fetched(sync[c], epoch)

\* A plan that is to be compared starts at least the overlap before some row.
OverlapOK(r, R) ==
  ~r.fetch /\ ~r.full /\ r.pc \in {"fetch", "compare", "save"}
    => \E p \in Stored(R[Head(r.queue)]) : r.from + Overlap <= p

\* A plan of the whole history reaches back to every row, and a repair is one.
WholeOK(r, R, U) ==
  /\ (r.pc = "repair" => r.full) /\ (r.pc = "compare" => ~r.full)
  /\ r.full /\ r.pc \in {"fetch", "repair", "save"} /\ Head(r.queue) \notin U
       => \A d \in Stored(R[Head(r.queue)]) : r.from <= d

\* What was compared and is about to be stored, at today's factor, agrees with
\* the rows it overwrites.
ComparedOK(r, R, e, U) ==
  ~r.fetch /\ ~r.full /\ r.pc = "save" /\ Head(r.queue) \notin U
    => \A d \in Stored(R[Head(r.queue)]) :
         r.bars[d] = e[Head(r.queue)] => R[Head(r.queue)][d] = e[Head(r.queue)]

PlansInv ==
  \A c \in Callers : /\ OverlapOK(sync[c], rows)
                     /\ WholeOK(sync[c], rows, unchecked)
                     /\ ComparedOK(sync[c], rows, epoch, unchecked)

ScaleInv == RowsInv /\ BarsInv /\ PlansInv /\ MixedScaleIsSeen

\* Every symbol has a row at the start.
StoredAtStart ==
  \A s \in Names : \E d \in Sessions : FirstStored[s] <= d /\ d < StartDay

\* A plan starts no later than some row: its window leaves no gap.
ReachesBack(r, R) ==
  ~r.fetch /\ r.pc \in {"fetch", "compare", "repair", "save"}
    => \E p \in Stored(R[Head(r.queue)]) : r.from <= p

\* Between two rows of a symbol there is one on every session.
Contiguous ==
  \A s \in Names \ holed : \A a, b \in Stored(rows[s]) : \A d \in Sessions :
    a <= d /\ d <= b => d \in Stored(rows[s])

\* What a run has still to store.
Ahead(r) ==
  {r.queue[i] : i \in IF r.pc \in {"invalidate", "publish"} THEN 2..Len(r.queue)
                      ELSE 1..Len(r.queue)}

\* The heartbeat that failed nowhere has stored, for the symbols behind it, all
\* that had closed when it began.
CoveredOK(r, R, H) ==
  r.pc # "idle" /\ ~r.failed /\ ~r.skipped
    => \A s \in Names \ (H \union Ahead(r)) : \A d \in Sessions :
         FirstStored[s] <= d /\ d <= CoverageDate(r.now) => d \in Stored(R[s])

StoreInv ==
  /\ \A c \in Callers : ReachesBack(sync[c], rows)
  /\ Contiguous /\ CoveredOK(sync["beat"], rows, holed) /\ MarkedDayIsStored

\* Rows nobody was told of are those of a run on its way to tell.
ToldOf(s, r) == r.pc \in {"invalidate", "publish"} /\ Head(r.queue) = s /\ Stored(r.bars) # {}
AnnounceInv == \A s \in unsaid : s \in interrupted \/ \E c \in Callers : ToldOf(s, sync[c])

\* What a reader is about to cache is what is stored, unless a save overtook it;
\* and there is never a bar cached that is not stored.
CacheInv ==
  /\ CacheIsCurrent
  /\ \A s \in Names : cache[s] # <<>> => Stored(cache[s][1]) \subseteq Stored(rows[s])
  /\ reader.pc = "fill" =>
       /\ Stored(reader.bars) \subseteq Stored(rows[reader.symbol])
       /\ ~reader.overtaken => reader.bars = Latest(rows[reader.symbol], reader.limit)

IInv ==
  TypeInv /\ ScaleInv /\ (StoredAtStart => StoreInv) /\ AnnounceInv /\ CacheInv

-----------------------------------------------------------------------------
(* The scale of a history                                                  *)

\* Seen by the next sync is a history all at today's factor, or one with another
\* factor in the overlap.
LEMMA ScaleSeen ==
  ASSUME NEW r \in Window, NEW e
  PROVE  ((\E d1, d2 \in Stored(r) : r[d1] # r[d2]) => \E d \in OverlapOf(r) : r[d] # e)
         <=> ((\A d \in Stored(r) : r[d] = e) \/ \E d \in OverlapOf(r) : r[d] # e)
<1>1. CASE Stored(r) = {}
  BY <1>1
<1>2. CASE Stored(r) # {}
  <2>1. Newest(Stored(r)) \in Stored(r) /\ Newest(Stored(r)) \in Int
    BY <1>2, StoredDays, NewestAndOldest, Constants
  <2>2. Newest(Stored(r)) \in OverlapOf(r)
    BY <2>1, Constants DEF OverlapOf
  <2> QED
    BY <2>1, <2>2
<1> QED
  BY <1>1, <1>2

Seen(r, e) == (\A d \in Stored(r) : r[d] = e) \/ \E d \in OverlapOf(r) : r[d] # e

LEMMA MixedAsSeen ==
  ASSUME Types
  PROVE  MixedScaleIsSeen <=> \A s \in Names \ unchecked : Seen(rows[s], epoch[s])
BY ScaleSeen DEF MixedScaleIsSeen, Seen, Types

\* A run that moved while the table, the factors and the blinded symbols did not.
LEMMA ScaleMoves ==
  ASSUME TypeInv, ScaleInv, NEW c \in Callers, Moves(c), UNCHANGED <<rows, epoch, unchecked>>,
         sync'[c].pc \in {"compare", "save"} => Fetched(sync'[c], epoch),
         OverlapOK(sync'[c], rows), WholeOK(sync'[c], rows, unchecked),
         ComparedOK(sync'[c], rows, epoch, unchecked)
  PROVE  ScaleInv'
<1>1. RowsInv' /\ MixedScaleIsSeen'
  BY DEF ScaleInv, RowsInv, MixedScaleIsSeen
<1>2. BarsInv'
  BY DEF ScaleInv, BarsInv, Moves
<1>3. PlansInv'
  BY DEF ScaleInv, PlansInv, Moves
<1> QED
  BY <1>1, <1>2, <1>3 DEF ScaleInv

\* A run that rests, or has only to tell of what it stored, plans nothing.
LEMMA ScaleRests ==
  ASSUME TypeInv, ScaleInv, NEW c \in Callers, Moves(c), UNCHANGED <<rows, epoch, unchecked>>,
         sync'[c].pc \in {"idle", "plan", "mark", "publish"}
  PROVE  ScaleInv'
BY ScaleMoves DEF OverlapOK, WholeOK, ComparedOK

LEMMA ScalePlan ==
  ASSUME TypeInv, ScaleInv, NEW c \in Callers, PlanSymbol(c)
  PROVE  ScaleInv'
<1> DEFINE q == sync'[c]
           s == Symbol(c)
<1>1. UNCHANGED <<rows, epoch, unchecked>>
  BY DEF PlanSymbol
<1>2. /\ Moves(c) /\ sync[c].pc = "plan" /\ q.pc = "fetch" /\ q.queue = sync[c].queue
      /\ q.now \in (2 * StartDay + 1)..clock
      /\ q.full = (Stored(rows[s]) = {}) /\ q.from = PlanFetch(Stored(rows[s]), q.now)
  BY PlanSymbolStep
<1>3. s = Head(q.queue)
  BY <1>2 DEF Symbol
<1>4. Stored(rows[s]) # {} => \E p \in Stored(rows[s]) : q.from + Overlap <= p
  <2> SUFFICES ASSUME Stored(rows[s]) # {} PROVE \E p \in Stored(rows[s]) : q.from + Overlap <= p
    OBVIOUS
  <2>1. Newest(Stored(rows[s])) \in Stored(rows[s]) /\ Newest(Stored(rows[s])) \in Int
    <3>1. Stored(rows[s]) \in SUBSET (1..Days)
      BY StoredDays
    <3> QED
      BY <3>1, NewestAndOldest
  <2>2. Day(q.now) \in Int
    <3>1. clock \in Int /\ q.now \in Int /\ 2 * StartDay + 1 <= q.now
      BY <1>2, Constants DEF TypeInv, Types
    <3> HIDE DEF q
    <3> QED
      BY <3>1, Clock
  <2>3. q.from <= Newest(Stored(rows[s])) - Overlap /\ q.from \in Int
    <3>1. q.from = Smaller(Newest(Stored(rows[s])) - Overlap, Day(q.now))
      BY <1>2 DEF PlanFetch
    <3> QED
      BY <2>1, <2>2, <3>1, Constants DEF Smaller
  <2> QED
    BY <2>1, <2>3, Constants
<1>5. OverlapOK(q, rows)
  BY <1>2, <1>3, <1>4 DEF OverlapOK
<1>6. WholeOK(q, rows, unchecked)
  BY <1>2, <1>3 DEF WholeOK
<1>7. ComparedOK(q, rows, epoch, unchecked)
  BY <1>2 DEF ComparedOK
<1> QED
  BY <1>1, <1>2, <1>5, <1>6, <1>7, ScaleMoves

LEMMA ScaleFetch ==
  ASSUME TypeInv, ScaleInv, NEW c \in Callers, NEW source, Fetch(c, source)
  PROVE  ScaleInv'
<1> DEFINE q == sync'[c]
           r == sync[c]
<1>1. UNCHANGED <<rows, epoch, unchecked>>
  BY DEF Fetch
<1>2. /\ Moves(c) /\ r.pc = "fetch" /\ q.pc \in {"save", "compare"} /\ q.queue = r.queue
      /\ q.fetch = r.fetch /\ q.full = r.full /\ q.from = r.from /\ q.bars \in Window
      /\ q.pc = "save" => r.fetch \/ r.full \/ Stored(q.bars) = {}
      /\ q.pc = "compare" => ~r.full
      /\ Fetched(q, epoch)
  BY FetchStep
<1>3. OverlapOK(r, rows) /\ WholeOK(r, rows, unchecked)
  BY DEF ScaleInv, PlansInv
<1>4. OverlapOK(q, rows)
  BY <1>2, <1>3 DEF OverlapOK
<1>5. WholeOK(q, rows, unchecked)
  BY <1>2, <1>3 DEF WholeOK
<1>6. ComparedOK(q, rows, epoch, unchecked)
  <2> SUFFICES ASSUME ~q.fetch, ~q.full, q.pc = "save", NEW d \in Stored(rows[Head(q.queue)]),
                      q.bars[d] = epoch[Head(q.queue)]
               PROVE  FALSE
    BY DEF ComparedOK
  <2>1. Stored(q.bars) = {} /\ d \in 1..Days
    BY <1>2 DEF Stored
  <2>2. q.bars[d] = 0
    BY <2>1 DEF Stored
  <2>3. epoch[Head(q.queue)] \in 1..(MaxActions + 1)
    BY <1>2, SymbolIsAName
  <2> QED
    BY <2>2, <2>3, Constants
<1> QED
  BY <1>1, <1>2, <1>4, <1>5, <1>6, ScaleMoves

LEMMA FetchedBars ==
  ASSUME NEW r \in Runs, NEW e \in [Names -> 1..(MaxActions + 1)], Fetched(r, e)
  PROVE  \E T \in StartDay..Days, f \in Factor :
           /\ f # 0 /\ f <= e[Head(r.queue)] /\ CoverageDate(r.now) <= T
           /\ \A d \in 1..Days : r.bars[d] = IF d \in Sessions /\ r.from <= d /\ d <= T THEN f ELSE 0
<1>1. PICK T \in StartDay..Days, f \in Factor :
        /\ f # 0 /\ f <= e[Head(r.queue)] /\ CoverageDate(r.now) <= T
        /\ r.bars = Filled(r.from, T, f)
  BY DEF Fetched
<1>2. r.from \in Int /\ T \in Int
  BY RunFields, Constants
<1>3. \A d \in 1..Days : r.bars[d] = IF d \in Sessions /\ r.from <= d /\ d <= T THEN f ELSE 0
  BY <1>1, <1>2, FilledWindow
<1> QED
  BY <1>1, <1>3

LEMMA ScaleCompare ==
  ASSUME TypeInv, ScaleInv, NEW c \in Callers, Compare(c)
  PROVE  ScaleInv'
<1> DEFINE q == sync'[c]
           r == sync[c]
           s == Head(r.queue)
           R == rows[s]
<1>1. UNCHANGED <<rows, epoch, unchecked>>
  BY DEF Compare
<1>2. /\ Moves(c) /\ r.pc = "compare" /\ q.pc \in {"repair", "save"} /\ q.queue = r.queue
      /\ q.fetch = r.fetch /\ q.now = r.now /\ q.bars = r.bars /\ q.full = (q.pc = "repair")
      /\ q.pc = "repair" => q.from = FullHistoryPlan(Stored(rows[Symbol(c)]), r.now)
      /\ q.pc = "save" =>
           /\ q.from = r.from
           /\ \A d \in 1..Days :
                r.from <= d /\ rows[Symbol(c)][d] > 0 /\ r.bars[d] > 0
                  => rows[Symbol(c)][d] = r.bars[d]
  BY CompareStep
<1>3. s = Symbol(c) /\ s \in Names /\ R \in Window /\ epoch[s] \in 1..(MaxActions + 1)
  BY <1>2, SymbolIsAName
<1>4. OverlapOK(r, rows) /\ WholeOK(r, rows, unchecked) /\ Fetched(r, epoch)
  BY <1>2 DEF ScaleInv, PlansInv, BarsInv
<1>5. OverlapOK(q, rows)
  BY <1>2, <1>4 DEF OverlapOK, WholeOK
<1>6. r \in Runs /\ epoch \in [Names -> 1..(MaxActions + 1)] /\ r.now \in Int
  BY RunFields DEF TypeInv, Types
<1>7. WholeOK(q, rows, unchecked)
  <2> SUFFICES ASSUME q.pc = "repair", NEW d \in Stored(R) PROVE q.from <= d
    BY <1>2 DEF WholeOK
  <2>1. /\ Oldest(Stored(R)) \in Int /\ Oldest(Stored(R)) <= d /\ d \in Int
    BY StoredDays, NewestAndOldest, Constants
  <2>2. Day(r.now) \in Int
    <3>1. r.now \in (2 * StartDay + 1)..clock
      BY <1>2 DEF TypeInv, RunInv, RunOK, Busy
    <3> QED
      BY <1>6, <3>1, Clock, Constants DEF TypeInv, Types
  <2>3. q.from = Smaller(Day(r.now) - InitialHistory, Oldest(Stored(R)))
    BY <1>2, <1>3 DEF FullHistoryPlan
  <2> QED
    BY <2>1, <2>2, <2>3, Constants DEF Smaller
<1>8. ComparedOK(q, rows, epoch, unchecked)
  <2> SUFFICES ASSUME q.pc = "save", s \notin unchecked, NEW d \in Stored(R), r.bars[d] = epoch[s]
               PROVE  R[d] = epoch[s]
    BY <1>2 DEF ComparedOK
  <2>1. d \in 1..Days /\ R[d] # 0 /\ R[d] \in Factor
    BY <1>3 DEF Stored, Window
  <2>2. R[d] # Null
    BY <1>3 DEF ScaleInv, RowsInv
  <2>3. R[d] > 0
    BY <2>1, <2>2, Constants DEF Factor
  <2>4. PICK T \in StartDay..Days, f \in Factor :
          \A x \in 1..Days : r.bars[x] = IF x \in Sessions /\ r.from <= x /\ x <= T THEN f ELSE 0
    BY <1>4, <1>6, FetchedBars
  <2>5. r.bars[d] > 0
    BY <1>3, Constants
  <2>6. r.from <= d
    BY <2>1, <2>4, <2>5
  <2> QED
    BY <1>2, <1>3, <2>1, <2>3, <2>5, <2>6
<1>9. q.pc = "save" => Fetched(q, epoch)
  BY <1>2, <1>4 DEF Fetched
<1> QED
  BY <1>1, <1>2, <1>5, <1>7, <1>8, <1>9, ScaleMoves

LEMMA ScaleRefetch ==
  ASSUME TypeInv, ScaleInv, NEW c \in Callers, NEW source, Refetch(c, source)
  PROVE  ScaleInv'
<1> DEFINE q == sync'[c]
           r == sync[c]
<1>1. UNCHANGED <<rows, epoch, unchecked>>
  BY DEF Refetch
<1>2. /\ Moves(c) /\ r.pc = "repair" /\ q.pc = "save" /\ q.queue = r.queue
      /\ q.fetch = r.fetch /\ q.full = r.full /\ q.from = r.from
      /\ Fetched(q, epoch)
  BY RefetchStep
<1>3. WholeOK(r, rows, unchecked)
  BY DEF ScaleInv, PlansInv
<1>4. q.full
  BY <1>2, <1>3 DEF WholeOK
<1>5. WholeOK(q, rows, unchecked) /\ OverlapOK(q, rows) /\ ComparedOK(q, rows, epoch, unchecked)
  BY <1>2, <1>3, <1>4 DEF WholeOK, OverlapOK, ComparedOK
<1> QED
  BY <1>1, <1>2, <1>5, ScaleMoves

\* What a save leaves of a history: its rows and the window's, the window's bars
\* over the rows.
LEMMA SavedRows ==
  ASSUME TypeInv, BarsInv, NEW c \in Callers, Save(c)
  PROVE  LET s == Symbol(c)
             b == sync[c].bars
         IN  /\ s = Head(sync[c].queue) /\ s \in Names /\ epoch[s] \in 1..(MaxActions + 1)
             /\ rows[s] \in Window /\ rows'[s] \in Window /\ b \in Window
             /\ \A t \in Names \ {s} : rows'[t] = rows[t]
             /\ \A d \in 1..Days : rows'[s][d] = IF b[d] # 0 THEN b[d] ELSE rows[s][d]
             /\ Stored(rows'[s]) = Stored(rows[s]) \union Stored(b)
             /\ Passes(c, "save", "invalidate")
             /\ \E T \in StartDay..Days, f \in Factor :
                  /\ f # 0 /\ f <= epoch[s] /\ CoverageDate(sync[c].now) <= T
                  /\ \A d \in 1..Days :
                       b[d] = IF d \in Sessions /\ sync[c].from <= d /\ d <= T THEN f ELSE 0
<1> DEFINE s == Symbol(c)
           b == sync[c].bars
<1>1. sync[c].pc = "save" /\ sync[c] \in Runs /\ b \in Window /\ rows \in [Names -> Window]
  BY RunFields DEF TypeInv, Types, Save
<1>2. /\ s \in Names /\ s = Head(sync[c].queue) /\ rows[s] \in Window
      /\ epoch[s] \in 1..(MaxActions + 1)
  BY <1>1, SymbolIsAName
<1>3. rows' = [rows EXCEPT ![s] = Upsert(rows[s], b)]
  BY DEF Save
<1>4. rows'[s] = Upsert(rows[s], b) /\ \A t \in Names \ {s} : rows'[t] = rows[t]
  BY <1>1, <1>2, <1>3
<1>5. /\ rows'[s] \in Window
      /\ \A d \in 1..Days : rows'[s][d] = IF b[d] # 0 THEN b[d] ELSE rows[s][d]
  BY <1>1, <1>2, <1>4, UpsertRows
<1>6. Stored(rows'[s]) = Stored(rows[s]) \union Stored(b)
  BY <1>5 DEF Stored
<1>7. Passes(c, "save", "invalidate")
  BY <1>1, PassingStep DEF Save, Pcs
<1>8. \E T \in StartDay..Days, f \in Factor :
        /\ f # 0 /\ f <= epoch[s] /\ CoverageDate(sync[c].now) <= T
        /\ \A d \in 1..Days :
             b[d] = IF d \in Sessions /\ sync[c].from <= d /\ d <= T THEN f ELSE 0
  BY <1>1, <1>2, FetchedBars DEF BarsInv, TypeInv, Types
<1> QED
  BY <1>1, <1>2, <1>4, <1>5, <1>6, <1>7, <1>8

\* A window at today's factor, stored over a history it covers, reaches behind,
\* or was compared with.
SavesOver(r, r2, e, from, T, b) ==
  /\ r \in Window /\ r2 \in Window /\ e \in Int /\ e # 0 /\ from \in Int /\ T \in Int
  /\ b \in Window
  /\ \A d \in 1..Days : b[d] = IF d \in Sessions /\ from <= d /\ d <= T THEN e ELSE 0
  /\ \A d \in 1..Days : r2[d] = IF b[d] # 0 THEN b[d] ELSE r[d]
  /\ Stored(r2) = Stored(r) \union Stored(b)
  /\ Stored(r) \subseteq Sessions
  /\ \/ Stored(r) \subseteq Stored(b)
     \/ \A d \in Stored(r) : from <= d
     \/ /\ \E p \in Stored(r) : from + Overlap <= p
        /\ \A d \in Stored(r) : b[d] = e => r[d] = e

\* What was seen before such a save is seen after it.
LEMMA SeenAfterSave ==
  ASSUME NEW r, NEW r2, NEW e, NEW from, NEW T, NEW b, SavesOver(r, r2, e, from, T, b), Seen(r, e)
  PROVE  Seen(r2, e)
<1>00. /\ r \in Window /\ r2 \in Window /\ e \in Int /\ e # 0 /\ from \in Int /\ T \in Int
       /\ b \in Window
       /\ \A d \in 1..Days : b[d] = IF d \in Sessions /\ from <= d /\ d <= T THEN e ELSE 0
       /\ \A d \in 1..Days : r2[d] = IF b[d] # 0 THEN b[d] ELSE r[d]
       /\ Stored(r2) = Stored(r) \union Stored(b)
       /\ Stored(r) \subseteq Sessions
  BY DEF SavesOver
<1>01. \/ Stored(r) \subseteq Stored(b)
       \/ \A d \in Stored(r) : from <= d
       \/ /\ \E p \in Stored(r) : from + Overlap <= p
          /\ \A d \in Stored(r) : b[d] = e => r[d] = e
  BY DEF SavesOver
<1> USE <1>00, <1>01
<1>0. /\ Days \in Nat /\ Overlap \in Nat /\ Stored(r) \subseteq Int /\ Stored(b) \subseteq Int
      /\ Stored(r) \subseteq 1..Days /\ Stored(b) \subseteq 1..Days
  BY Constants, StoredDays
<1>1. \A d \in Stored(b) : r2[d] = e /\ b[d] = e /\ d <= T /\ from <= d
  BY DEF Stored
<1>2. \A d \in Stored(r) \ Stored(b) : r2[d] = r[d] /\ (d < from \/ d > T)
  <2> SUFFICES ASSUME NEW d \in Stored(r), d \notin Stored(b)
               PROVE  r2[d] = r[d] /\ (d < from \/ d > T)
    OBVIOUS
  <2>1. d \in 1..Days /\ d \in Sessions /\ b[d] = 0 /\ d \in Int
    BY <1>0 DEF Stored
  <2> QED
    BY <2>1
<1>4. CASE \A d \in Stored(r) : r[d] = e
  <2>1. \A d \in Stored(r2) : r2[d] = e
    BY <1>1, <1>2, <1>4
  <2> QED
    BY <2>1 DEF Seen
<1>5. CASE Stored(r) \subseteq Stored(b)
  <2>1. \A d \in Stored(r2) : r2[d] = e
    BY <1>1, <1>5
  <2> QED
    BY <2>1 DEF Seen
<1>6. CASE (\E d \in OverlapOf(r) : r[d] # e) /\ ~(Stored(r) \subseteq Stored(b))
  <2>1. PICK o \in OverlapOf(r) : r[o] # e
    BY <1>6
  <2> DEFINE N == Newest(Stored(r))
             N2 == Newest(Stored(r2))
  <2>2. o \in Stored(r) /\ o >= N - Overlap
    BY <2>1 DEF OverlapOf
  <2>3. N \in Int /\ N \in Stored(r) /\ \A d \in Stored(r) : d <= N
    BY <1>0, <2>2, NewestAndOldest
  <2>4. N2 \in Int /\ N2 \in Stored(r2) /\ \A d \in Stored(r2) : d <= N2
    <3>1. Stored(r2) # {} /\ Stored(r2) \in SUBSET (1..Days)
      BY <2>2, StoredDays
    <3> QED
      BY <3>1, NewestAndOldest
  <2> HIDE DEF N, N2
  <2>5. ASSUME NEW x \in Stored(r), x > T PROVE N2 = N
    <3>1. N > T /\ N <= N2
      BY <1>0, <2>3, <2>4, <2>5
    <3>2. N2 \in Stored(r)
      <4>1. N2 \notin Stored(b)
        BY <1>0, <1>1, <2>3, <2>4, <3>1
      <4> QED
        BY <2>4, <4>1
    <3> QED
      BY <2>3, <2>4, <3>1, <3>2
  <2>6. ASSUME NEW x \in Stored(r), x \notin Stored(b), x > T, r[x] # e, x >= N - Overlap
        PROVE  Seen(r2, e)
    <3>1. N2 = N
      BY <2>5, <2>6
    <3>2. x \in OverlapOf(r2)
      BY <2>6, <3>1 DEF OverlapOf, N2
    <3>3. r2[x] # e
      BY <1>2, <2>6
    <3> QED
      BY <3>2, <3>3 DEF Seen
  <2>7. CASE o \in Stored(b)
    <3>1. CASE \A d \in Stored(r) : from <= d
      <4>1. CASE \A d \in Stored(r2) : r2[d] = e
        BY <4>1 DEF Seen
      <4>2. CASE \E d \in Stored(r2) : r2[d] # e
        <5>1. PICK x \in Stored(r2) : r2[x] # e
          BY <4>2
        <5>2. x \notin Stored(b) /\ x \in Stored(r)
          BY <1>1, <5>1
        <5>3. x > T /\ r[x] # e
          BY <1>0, <1>2, <1>6, <3>1, <5>1, <5>2
        <5>4. o <= T
          BY <1>1, <2>7
        <5>5. x >= N - Overlap
          BY <1>0, <2>2, <2>3, <5>2, <5>3, <5>4
        <5> QED
          BY <2>6, <5>2, <5>3, <5>5
      <4> QED
        BY <4>1, <4>2
    <3>2. CASE \A d \in Stored(r) : b[d] = e => r[d] = e
      BY <1>1, <2>1, <2>2, <2>7, <3>2
    <3> QED
      BY <1>6, <3>1, <3>2
  <2>8. CASE o \notin Stored(b)
    <3>1. o < from \/ o > T
      BY <1>2, <1>6, <2>2, <2>8
    <3>2. ~(o < from)
      <4>1. CASE \A d \in Stored(r) : from <= d
        BY <1>0, <2>2, <4>1
      <4>2. CASE \E p \in Stored(r) : from + Overlap <= p
        <5>1. PICK p \in Stored(r) : from + Overlap <= p
          BY <4>2
        <5>2. p <= N /\ p \in Int /\ o \in Int
          BY <1>0, <2>2, <2>3
        <5> QED
          BY <1>0, <2>2, <2>3, <5>1, <5>2
      <4> QED
        BY <1>6, <4>1, <4>2
    <3> QED
      BY <2>1, <2>2, <2>6, <2>8, <3>1, <3>2 DEF N
  <2> QED
    BY <2>7, <2>8
<1> QED
  BY <1>4, <1>5, <1>6 DEF Seen

LEMMA ScaleSave ==
  ASSUME TypeInv, ScaleInv, NEW c \in Callers, Save(c)
  PROVE  ScaleInv'
<1> DEFINE s == Symbol(c)
           r == sync[c]
           b == r.bars
           e == epoch[s]
<1>1. /\ s = Head(r.queue) /\ s \in Names /\ e \in 1..(MaxActions + 1)
      /\ rows[s] \in Window /\ rows'[s] \in Window /\ b \in Window
      /\ \A t \in Names \ {s} : rows'[t] = rows[t]
      /\ \A d \in 1..Days : rows'[s][d] = IF b[d] # 0 THEN b[d] ELSE rows[s][d]
      /\ Stored(rows'[s]) = Stored(rows[s]) \union Stored(b)
      /\ Passes(c, "save", "invalidate")
  BY SavedRows DEF ScaleInv
<1>2. PICK T \in StartDay..Days, f \in Factor :
        /\ f # 0 /\ f <= e
        /\ \A d \in 1..Days : b[d] = IF d \in Sessions /\ r.from <= d /\ d <= T THEN f ELSE 0
  BY SavedRows DEF ScaleInv
<1>3. epoch' = epoch /\ Moves(c) /\ r.pc = "save" /\ sync'[c].pc = "invalidate"
  BY <1>1 DEF Save, Passes
<1>4. unchecked' = IF Stored(b) # {} /\ Blinds(c, s) THEN unchecked \union {s} ELSE unchecked
  BY DEF Save
<1>5. unchecked \subseteq unchecked' /\ \A t \in Names \ {s} : t \in unchecked' => t \in unchecked
  BY <1>4
<1>6. /\ e \in Int /\ r.from \in Int /\ T \in Int /\ f \in Int /\ f # 0 /\ Stored(b) \subseteq Int
      /\ e # 0 /\ r \in Runs /\ 0 \in Int
  BY <1>1, <1>2, RunFields, Constants, StoredDays DEF TypeInv, Types
<1>7. \A d \in Stored(b) : d \in 1..Days /\ d \in Sessions /\ b[d] = f /\ r.from <= d /\ d <= T
  BY <1>2 DEF Stored
<1>8. ASSUME s \notin unchecked', Stored(b) # {}
      PROVE  /\ f = e
             /\ r.fetch => Stored(rows[s]) \subseteq Stored(b)
             /\ \A x \in Callers : ~Undercuts(c, x, s)
  <2>1. ~Blinds(c, s)
    BY <1>4, <1>8
  <2>2. \A d \in Stored(b) : ~(b[d] < e)
    BY <2>1 DEF Blinds
  <2>3. f = e
    BY <1>2, <1>6, <1>7, <1>8, <2>2
  <2> QED
    BY <2>1, <2>3 DEF Blinds
<1>9. \A t \in Names : Stored(rows[t]) \subseteq Stored(rows'[t])
  BY <1>1
<1>10. RowsInv'
  <2>1. ASSUME NEW t \in Names, NEW d \in Stored(rows'[t])
        PROVE  d \in Sessions /\ rows'[t][d] <= epoch[t]
    <3>1. CASE t # s
      BY <1>1, <2>1, <3>1 DEF ScaleInv, RowsInv
    <3>2. CASE t = s /\ d \in Stored(b)
      BY <1>1, <1>2, <1>6, <1>7, <3>2
    <3>3. CASE t = s /\ d \in Stored(rows[s]) /\ d \notin Stored(b)
      <4>1. b[d] = 0 /\ d \in 1..Days
        BY <3>3 DEF Stored
      <4> QED
        BY <1>1, <3>3, <4>1 DEF ScaleInv, RowsInv
    <3> QED
      BY <1>1, <2>1, <3>1, <3>2, <3>3
  <2>2. ASSUME NEW t \in Names, NEW d \in Sessions, FirstStored[t] <= d, d < StartDay
        PROVE  d \in Stored(rows'[t])
    BY <1>9, <2>2 DEF ScaleInv, RowsInv
  <2>3. ASSUME NEW t \in Names \ unchecked', NEW d \in Stored(rows'[t])
        PROVE  rows'[t][d] # Null
    <3>1. CASE t # s
      BY <1>1, <1>5, <2>3, <3>1 DEF ScaleInv, RowsInv
    <3>2. CASE t = s /\ d \in Stored(b)
      BY <1>1, <1>6, <1>7, <1>8, <2>3, <3>2, Constants
    <3>3. CASE t = s /\ d \in Stored(rows[s]) /\ d \notin Stored(b)
      <4>1. b[d] = 0 /\ d \in 1..Days
        BY <3>3 DEF Stored
      <4> QED
        BY <1>1, <1>5, <2>3, <3>3, <4>1 DEF ScaleInv, RowsInv
    <3> QED
      BY <1>1, <2>3, <3>1, <3>2, <3>3
  <2> QED
    BY <1>3, <2>1, <2>2, <2>3 DEF RowsInv
<1>11. BarsInv'
  <2> SUFFICES ASSUME NEW x \in Callers, sync'[x].pc \in {"compare", "save"}
               PROVE  Fetched(sync'[x], epoch)
    BY <1>3 DEF BarsInv
  <2>1. x # c /\ sync'[x] = sync[x]
    BY <1>3 DEF Moves
  <2> QED
    BY <2>1 DEF ScaleInv, BarsInv
<1>12. PlansInv'
  <2> SUFFICES ASSUME NEW x \in Callers
               PROVE  /\ OverlapOK(sync'[x], rows') /\ WholeOK(sync'[x], rows', unchecked')
                      /\ ComparedOK(sync'[x], rows', epoch, unchecked')
    BY <1>3 DEF PlansInv
  <2>1. CASE x = c
    BY <1>3, <2>1 DEF OverlapOK, WholeOK, ComparedOK
  <2>2. CASE x # c
    <3> DEFINE q == sync[x]
               t == Head(q.queue)
    <3>1. sync'[x] = q
      BY <1>3, <2>2 DEF Moves
    <3>2. OverlapOK(q, rows) /\ WholeOK(q, rows, unchecked) /\ ComparedOK(q, rows, epoch, unchecked)
      BY DEF ScaleInv, PlansInv
    <3>3. q.pc \in Busy => t \in Names
      <4>1. q.pc \in Busy => q.pc \notin {"idle", "mark"}
        BY DEF Busy
      <4> QED
        BY <4>1, SymbolIsAName
    <3>4. OverlapOK(q, rows')
      BY <1>9, <3>2, <3>3 DEF OverlapOK, Busy
    <3>5. WholeOK(q, rows', unchecked')
      <4>1. (q.pc = "repair" => q.full) /\ (q.pc = "compare" => ~q.full)
        BY <3>2 DEF WholeOK
      <4> SUFFICES ASSUME q.full, q.pc \in {"fetch", "repair", "save"}, t \notin unchecked',
                          NEW d \in Stored(rows'[t])
                   PROVE  q.from <= d
        BY <4>1 DEF WholeOK
      <4>2. \A y \in Stored(rows[t]) : q.from <= y
        BY <1>5, <3>2 DEF WholeOK
      <4>3. t \in Names
        BY <3>3 DEF Busy
      <4>4. CASE t # s
        BY <1>1, <4>2, <4>3, <4>4
      <4>5. CASE t = s /\ d \in Stored(b)
        <5>1. ~Undercuts(c, x, s)
          BY <1>8, <4>5
        <5>2. ~(d < q.from)
          BY <2>2, <4>5, <5>1 DEF Undercuts, Symbol
        <5>3. q.from \in Int /\ d \in Int
          BY <1>6, <4>5, RunFields DEF TypeInv, Types
        <5> QED
          BY <5>2, <5>3
      <4>6. CASE t = s /\ d \in Stored(rows[s])
        BY <4>2, <4>6
      <4> QED
        BY <1>1, <4>4, <4>5, <4>6
    <3>6. ComparedOK(q, rows', epoch, unchecked')
      <4> SUFFICES ASSUME ~q.fetch, ~q.full, q.pc = "save", t \notin unchecked',
                          NEW d \in Stored(rows'[t]), q.bars[d] = epoch[t]
                   PROVE  rows'[t][d] = epoch[t]
        BY DEF ComparedOK
      <4>1. \A y \in Stored(rows[t]) : q.bars[y] = epoch[t] => rows[t][y] = epoch[t]
        BY <1>5, <3>2 DEF ComparedOK
      <4>2. t \in Names
        BY <3>3 DEF Busy
      <4>3. CASE t # s
        BY <1>1, <4>1, <4>2, <4>3
      <4>4. CASE t = s /\ d \in Stored(b)
        BY <1>1, <1>6, <1>7, <1>8, <4>4
      <4>5. CASE t = s /\ d \in Stored(rows[s]) /\ d \notin Stored(b)
        <5>1. b[d] = 0 /\ d \in 1..Days
          BY <4>5 DEF Stored
        <5> QED
          BY <1>1, <4>1, <4>5, <5>1
      <4> QED
        BY <1>1, <4>3, <4>4, <4>5
    <3> QED
      BY <3>1, <3>4, <3>5, <3>6
  <2> QED
    BY <2>1, <2>2
<1>13. MixedScaleIsSeen'
  <2>1. \A t \in Names \ unchecked : Seen(rows[t], epoch[t])
    BY MixedAsSeen DEF ScaleInv, TypeInv
  <2>2. ASSUME NEW t \in Names \ unchecked' PROVE Seen(rows'[t], epoch[t])
    <3>1. CASE t # s
      BY <1>1, <1>5, <2>1, <2>2, <3>1
    <3>2. CASE t = s /\ Stored(b) = {}
      <4>1. \A d \in 1..Days : rows'[s][d] = rows[s][d]
        BY <1>1, <3>2 DEF Stored
      <4>2. rows'[s] = rows[s]
        <5>1. rows[s] = [d \in 1..Days |-> rows[s][d]] /\ rows'[s] = [d \in 1..Days |-> rows'[s][d]]
          BY <1>1 DEF Window
        <5> QED
          BY <4>1, <5>1
      <4> QED
        BY <1>5, <2>1, <2>2, <3>2, <4>2
    <3>3. CASE t = s /\ Stored(b) # {}
      <4>1. s \notin unchecked /\ s \notin unchecked'
        BY <1>5, <2>2, <3>3
      <4>2. f = e /\ (r.fetch => Stored(rows[s]) \subseteq Stored(b))
        BY <1>8, <3>3, <4>1
      <4>3. Seen(rows[s], e) /\ Stored(rows[s]) \subseteq Sessions
        BY <1>1, <2>1, <4>1 DEF ScaleInv, RowsInv
      <4>4. \A d \in 1..Days : b[d] = IF d \in Sessions /\ r.from <= d /\ d <= T THEN e ELSE 0
        BY <1>2, <4>2
      <4>5. \/ Stored(rows[s]) \subseteq Stored(b)
            \/ \A d \in Stored(rows[s]) : r.from <= d
            \/ /\ \E p \in Stored(rows[s]) : r.from + Overlap <= p
               /\ \A d \in Stored(rows[s]) : b[d] = e => rows[s][d] = e
        <5>1. OverlapOK(r, rows) /\ WholeOK(r, rows, unchecked) /\ ComparedOK(r, rows, epoch, unchecked)
          BY DEF ScaleInv, PlansInv
        <5>2. r.full => \A d \in Stored(rows[s]) : r.from <= d
          BY <1>1, <1>3, <4>1, <5>1 DEF WholeOK
        <5>3. ~r.fetch /\ ~r.full => \E p \in Stored(rows[s]) : r.from + Overlap <= p
          BY <1>1, <1>3, <5>1 DEF OverlapOK
        <5>4. ~r.fetch /\ ~r.full => \A d \in Stored(rows[s]) : b[d] = e => rows[s][d] = e
          BY <1>1, <1>3, <4>1, <5>1 DEF ComparedOK
        <5> QED
          BY <4>2, <5>2, <5>3, <5>4
      <4> DEFINE R == rows[s]
                 R2 == rows'[s]
                 from == r.from
      <4>6. /\ R \in Window /\ R2 \in Window /\ e \in Int /\ e # 0 /\ from \in Int /\ T \in Int
            /\ b \in Window
            /\ \A d \in 1..Days : b[d] = IF d \in Sessions /\ from <= d /\ d <= T THEN e ELSE 0
            /\ \A d \in 1..Days : R2[d] = IF b[d] # 0 THEN b[d] ELSE R[d]
            /\ Stored(R2) = Stored(R) \union Stored(b)
            /\ Stored(R) \subseteq Sessions
            /\ Seen(R, e)
        BY <1>1, <1>6, <4>3, <4>4
      <4>7. \/ Stored(R) \subseteq Stored(b)
            \/ \A d \in Stored(R) : from <= d
            \/ /\ \E p \in Stored(R) : from + Overlap <= p
               /\ \A d \in Stored(R) : b[d] = e => R[d] = e
        BY <4>5
      <4> HIDE DEF R, R2, from, b, e
      <4>8. SavesOver(R, R2, e, from, T, b)
        BY <4>6, <4>7 DEF SavesOver
      <4>9. Seen(R2, e)
        BY <4>6, <4>8, SeenAfterSave
      <4> QED
        BY <3>3, <4>9 DEF R2, e
    <3> QED
      BY <3>1, <3>2, <3>3
  <2>3. \A t \in Names \ unchecked' : Seen(rows'[t], epoch'[t])
    BY <1>3, <2>2
  <2>4. Types'
    BY TypeStep DEF TypeInv, Next, Run
  <2>5. (MixedScaleIsSeen <=> \A t \in Names \ unchecked : Seen(rows[t], epoch[t]))'
    BY <2>4, ScaleSeen DEF MixedScaleIsSeen, Seen, Types
  <2> QED
    BY <2>3, <2>5
<1> QED
  BY <1>10, <1>11, <1>12, <1>13 DEF ScaleInv

LEMMA ScaleAction ==
  ASSUME TypeInv, ScaleInv, NEW s \in Names, CorporateAction(s)
  PROVE  ScaleInv'
<1>1. /\ UNCHANGED <<rows, sync, unchecked>>
      /\ epoch' = [epoch EXCEPT ![s] = @ + 1]
      /\ epoch \in [Names -> 1..(MaxActions + 1)] /\ rows \in [Names -> Window]
      /\ sync \in [Callers -> Runs]
  BY DEF CorporateAction, TypeInv, Types
<1>2. /\ epoch'[s] = epoch[s] + 1 /\ epoch[s] \in Int /\ epoch[s] >= 1
      /\ \A t \in Names : epoch[t] \in Int /\ epoch[t] <= epoch'[t] /\ epoch'[t] \in Int
      /\ \A t \in Names \ {s} : epoch'[t] = epoch[t]
  BY <1>1, Constants
<1>3. \A t \in Names : \A d \in Stored(rows[t]) : rows[t][d] \in Int
  BY <1>1, Constants DEF Window, Stored
<1>4. RowsInv'
  <2>1. \A t \in Names : \A d \in Stored(rows[t]) : rows[t][d] <= epoch'[t]
    <3> SUFFICES ASSUME NEW t \in Names, NEW d \in Stored(rows[t]) PROVE rows[t][d] <= epoch'[t]
      OBVIOUS
    <3>1. rows[t][d] <= epoch[t]
      BY DEF ScaleInv, RowsInv
    <3> QED
      BY <1>2, <1>3, <3>1
  <2> QED
    BY <1>1, <2>1 DEF ScaleInv, RowsInv
<1>5. ASSUME NEW c \in Callers, sync[c].pc \in {"compare", "save"}
      PROVE  Fetched(sync[c], epoch) /\ Fetched(sync[c], epoch') /\ Head(sync[c].queue) \in Names
  <2>1. Fetched(sync[c], epoch)
    BY <1>5 DEF ScaleInv, BarsInv
  <2>2. Head(sync[c].queue) \in Names
    <3>1. sync[c].pc \notin {"idle", "mark"}
      BY <1>5
    <3> QED
      BY <3>1, SymbolIsAName
  <2>3. \A f \in Factor : f <= epoch[Head(sync[c].queue)] => f <= epoch'[Head(sync[c].queue)]
    <3> DEFINE t == Head(sync[c].queue)
    <3>1. t \in Names /\ Factor \subseteq Int
      BY <2>2, Constants
    <3> HIDE DEF t
    <3>2. \A f \in Factor : f <= epoch[t] => f <= epoch'[t]
      BY <1>2, <3>1
    <3> QED
      BY <3>2 DEF t
  <2> QED
    BY <2>1, <2>2, <2>3 DEF Fetched
<1>6. BarsInv'
  BY <1>1, <1>5 DEF BarsInv
<1>7. PlansInv'
  <2> SUFFICES ASSUME NEW c \in Callers
               PROVE  /\ OverlapOK(sync[c], rows) /\ WholeOK(sync[c], rows, unchecked)
                      /\ ComparedOK(sync[c], rows, epoch', unchecked)
    BY <1>1 DEF PlansInv
  <2>1. OverlapOK(sync[c], rows) /\ WholeOK(sync[c], rows, unchecked)
        /\ ComparedOK(sync[c], rows, epoch, unchecked)
    BY DEF ScaleInv, PlansInv
  <2> DEFINE r == sync[c]
             t == Head(r.queue)
  <2>2. ASSUME ~r.fetch, ~r.full, r.pc = "save", t \notin unchecked,
               NEW d \in Stored(rows[t]), r.bars[d] = epoch'[t]
        PROVE  rows[t][d] = epoch'[t]
    <3>1. Fetched(r, epoch) /\ t \in Names
      BY <1>5, <2>2
    <3>2. CASE t # s
      BY <1>2, <2>1, <2>2, <3>1, <3>2 DEF ComparedOK
    <3>3. CASE t = s
      <4>1. r \in Runs /\ epoch \in [Names -> 1..(MaxActions + 1)] /\ d \in 1..Days
        BY <1>1 DEF Stored
      <4>2. PICK T \in StartDay..Days, f \in Factor :
              /\ f # 0 /\ f <= epoch[t]
              /\ \A x \in 1..Days : r.bars[x] = IF x \in Sessions /\ r.from <= x /\ x <= T THEN f ELSE 0
        BY <3>1, <4>1, FetchedBars
      <4>3. r.bars[d] = f \/ r.bars[d] = 0
        BY <4>1, <4>2
      <4>4. f \in Int
        BY Constants
      <4> QED
        BY <1>2, <2>2, <3>3, <4>2, <4>3, <4>4
    <3> QED
      BY <3>2, <3>3
  <2>3. ComparedOK(r, rows, epoch', unchecked)
    BY <2>2 DEF ComparedOK
  <2> QED
    BY <2>1, <2>3
<1>8. MixedScaleIsSeen'
  <2> SUFFICES ASSUME NEW t \in Names \ unchecked,
                      \E d, x \in Stored(rows[t]) : rows[t][d] # rows[t][x]
               PROVE  \E d \in OverlapOf(rows[t]) : rows[t][d] # epoch'[t]
    BY <1>1 DEF MixedScaleIsSeen
  <2>1. CASE t # s
    BY <1>2, <2>1 DEF ScaleInv, MixedScaleIsSeen
  <2>2. CASE t = s
    <3>1. Newest(Stored(rows[t])) \in Stored(rows[t]) /\ Newest(Stored(rows[t])) \in Int
      BY StoredDays, NewestAndOldest
    <3>2. Newest(Stored(rows[t])) \in OverlapOf(rows[t])
      BY <3>1, Constants DEF OverlapOf
    <3> DEFINE n == Newest(Stored(rows[t]))
    <3> HIDE DEF n
    <3>3. rows[t][n] <= epoch[t] /\ rows[t][n] \in Int
      BY <1>3, <3>1 DEF ScaleInv, RowsInv, n
    <3>4. rows[t][n] # epoch'[t]
      BY <1>2, <2>2, <3>3
    <3> QED
      BY <3>2, <3>4 DEF n
  <2> QED
    BY <2>1, <2>2
<1> QED
  BY <1>4, <1>6, <1>7, <1>8 DEF ScaleInv

LEMMA ScaleCrash ==
  ASSUME TypeInv, ScaleInv, Crash
  PROVE  ScaleInv'
<1>1. UNCHANGED <<rows, epoch, unchecked>> /\ \A c \in Callers : sync'[c].pc = "idle"
  BY CrashStep DEF Crash
<1>2. BarsInv' /\ PlansInv'
  BY <1>1 DEF BarsInv, PlansInv, OverlapOK, WholeOK, ComparedOK
<1>3. RowsInv' /\ MixedScaleIsSeen'
  BY <1>1 DEF ScaleInv, RowsInv, MixedScaleIsSeen
<1> QED
  BY <1>2, <1>3 DEF ScaleInv

LEMMA ScaleStep ==
  ASSUME TypeInv, ScaleInv, [Next]_vars
  PROVE  ScaleInv'
<1>1. ASSUME NEW s \in Names, CorporateAction(s) PROVE ScaleInv'
  BY <1>1, ScaleAction
<1>2. ASSUME Beat PROVE ScaleInv'
  <2>1. Moves("beat") /\ sync'["beat"].pc \in {"plan", "mark"} /\ UNCHANGED <<rows, epoch, unchecked>>
    BY <1>2, BeatStep DEF Beat
  <2> QED
    BY <2>1, ScaleRests, Callers2
<1>3. ASSUME PostSync PROVE ScaleInv'
  <2>1. Moves("http") /\ sync'["http"].pc = "plan" /\ UNCHANGED <<rows, epoch, unchecked>>
    BY <1>3, PostSyncStep DEF PostSync
  <2> QED
    BY <2>1, ScaleRests, Callers2
<1>4. ASSUME NEW s \in Names, NEW from \in {0, Day(clock)}, PostFetch(s, from) PROVE ScaleInv'
  <2>1. /\ Moves("http") /\ sync'["http"].pc = "fetch" /\ sync'["http"].fetch = TRUE
        /\ sync'["http"].full = FALSE /\ UNCHANGED <<rows, epoch, unchecked>>
    BY <1>4, PostFetchStep DEF PostFetch
  <2>2. /\ OverlapOK(sync'["http"], rows) /\ WholeOK(sync'["http"], rows, unchecked)
        /\ ComparedOK(sync'["http"], rows, epoch, unchecked)
    BY <2>1 DEF OverlapOK, WholeOK, ComparedOK
  <2> QED
    BY <2>1, <2>2, ScaleMoves, Callers2
<1>5. ASSUME Mark PROVE ScaleInv'
  <2>1. Moves("beat") /\ sync'["beat"].pc = "idle" /\ UNCHANGED <<rows, epoch, unchecked>>
    BY <1>5, MarkStep DEF Mark
  <2> QED
    BY <2>1, ScaleRests, Callers2
<1>6. ASSUME NEW c \in Callers, Invalidate(c) PROVE ScaleInv'
  <2>1. sync[c].pc = "invalidate" /\ sync' = [sync EXCEPT ![c].pc = "publish"]
        /\ UNCHANGED <<rows, epoch, unchecked>>
    BY <1>6 DEF Invalidate
  <2>2. Passes(c, "invalidate", "publish")
    BY <2>1, PassingStep DEF Pcs
  <2> QED
    BY <2>1, <2>2, ScaleRests DEF Passes
<1>7. ASSUME NEW c \in Callers, Publish(c) \/ SymbolFails(c) PROVE ScaleInv'
  <2>1. /\ \E failed \in BOOLEAN : NextSymbol(c, failed)
        /\ sync[c].pc \notin {"idle", "mark"} /\ UNCHANGED <<rows, epoch, unchecked>>
    BY <1>7 DEF Publish, SymbolFails
  <2>2. Moves(c) /\ sync'[c].pc \in {"plan", "mark", "idle"}
    BY <2>1, NextSymbolStep
  <2> QED
    BY <2>1, <2>2, ScaleRests
<1>8. ASSUME NEW c \in Callers, Run(c) PROVE ScaleInv'
  BY <1>6, <1>7, <1>8, ScalePlan, ScaleCompare, ScaleSave, ScaleFetch, ScaleRefetch DEF Run
<1>9. ASSUME UNCHANGED <<rows, epoch, unchecked, sync>> PROVE ScaleInv'
  BY <1>9 DEF ScaleInv, RowsInv, BarsInv, PlansInv, MixedScaleIsSeen
<1>10. ASSUME \/ Tick \/ \E s \in Names : Expire(s)
              \/ \E s \in Names : \E n \in Limits : GetCached(s, n)
              \/ ReadRows \/ FillCache \/ Answer \/ UNCHANGED vars
       PROVE  ScaleInv'
  <2>1. UNCHANGED <<rows, epoch, unchecked, sync>>
    BY <1>10 DEF Tick, Expire, GetCached, ReadRows, FillCache, Answer, vars, state
  <2> QED
    BY <1>9, <2>1
<1> QED
  BY <1>1, <1>2, <1>3, <1>4, <1>5, <1>8, <1>10, ScaleCrash DEF Next

-----------------------------------------------------------------------------
(* The table                                                               *)

\* No symbol is ever without a row of the start.
LEMMA FirstRow ==
  ASSUME TypeInv, ScaleInv, StoredAtStart, NEW s \in Names
  PROVE  \E a \in Stored(rows[s]) : a < StartDay /\ a \in Int
<1>1. PICK d \in Sessions : FirstStored[s] <= d /\ d < StartDay
  BY DEF StoredAtStart
<1>2. d \in Stored(rows[s])
  BY <1>1 DEF ScaleInv, RowsInv
<1>3. d \in Int
  BY <1>2, Constants DEF Stored
<1> QED
  BY <1>1, <1>2, <1>3

LEMMA StoreMoves ==
  ASSUME TypeInv, StoreInv, NEW c \in Callers, Moves(c),
         UNCHANGED <<rows, holed, marker, excused>>,
         ReachesBack(sync'[c], rows), c = "beat" => CoveredOK(sync'[c], rows, holed)
  PROVE  StoreInv'
<1>1. Contiguous' /\ MarkedDayIsStored'
  BY DEF StoreInv, Contiguous, MarkedDayIsStored
<1>2. ASSUME NEW b \in Callers PROVE ReachesBack(sync'[b], rows')
  <2>1. CASE b = c
    BY <2>1
  <2>2. CASE b # c
    BY <2>2 DEF StoreInv, Moves
  <2> QED
    BY <2>1, <2>2
<1>3. CoveredOK(sync'["beat"], rows', holed')
  <2>1. CASE c = "beat"
    BY <2>1
  <2>2. CASE c # "beat"
    <3>1. sync'["beat"] = sync["beat"]
      BY <2>2, Callers2 DEF Moves
    <3> QED
      BY <3>1 DEF StoreInv
  <2> QED
    BY <2>1, <2>2
<1> QED
  BY <1>1, <1>2, <1>3 DEF StoreInv

\* A run that goes on with its symbol has as much ahead of it as before.
LEMMA CoveredGoesOn ==
  ASSUME NEW r, NEW q, NEW R, NEW H, CoveredOK(r, R, H),
         q.queue = r.queue, q.failed = r.failed, q.skipped = r.skipped, q.now = r.now,
         r.pc # "idle",
         q.pc \in {"invalidate", "publish"} <=> r.pc \in {"invalidate", "publish"}
  PROVE  CoveredOK(q, R, H)
<1>1. Ahead(q) = Ahead(r)
  BY DEF Ahead
<1> QED
  BY <1>1 DEF CoveredOK

LEMMA StorePlan ==
  ASSUME TypeInv, ScaleInv, StoredAtStart, StoreInv, NEW c \in Callers, PlanSymbol(c)
  PROVE  StoreInv'
<1> DEFINE q == sync'[c]
           r == sync[c]
           s == Symbol(c)
<1>1. UNCHANGED <<rows, holed, marker, excused>>
  BY DEF PlanSymbol
<1>2. /\ Moves(c) /\ r.pc = "plan" /\ q.pc = "fetch" /\ q.queue = r.queue
      /\ q.failed = r.failed /\ q.skipped = r.skipped
      /\ q.now = IF c = "http" THEN clock ELSE r.now
      /\ q.now \in (2 * StartDay + 1)..clock
      /\ q.from = PlanFetch(Stored(rows[s]), q.now)
  BY PlanSymbolStep
<1>3. s = Head(q.queue) /\ s \in Names
  BY <1>2, SymbolIsAName DEF Symbol
<1>4. \E p \in Stored(rows[s]) : q.from <= p
  <2>1. PICK a \in Stored(rows[s]) : TRUE
    BY <1>3, FirstRow
  <2>2. /\ Newest(Stored(rows[s])) \in Stored(rows[s]) /\ Newest(Stored(rows[s])) \in Int
        /\ Stored(rows[s]) # {}
    BY <2>1, StoredDays, NewestAndOldest
  <2>3. Day(q.now) \in Int
    <3>1. clock \in Int /\ q.now \in Int /\ 2 * StartDay + 1 <= q.now
      BY <1>2, Constants DEF TypeInv, Types
    <3> HIDE DEF q
    <3> QED
      BY <3>1, Clock
  <2>4. q.from = Smaller(Newest(Stored(rows[s])) - Overlap, Day(q.now))
    BY <1>2, <2>2 DEF PlanFetch
  <2>5. q.from <= Newest(Stored(rows[s]))
    BY <2>2, <2>3, <2>4, Constants DEF Smaller
  <2> QED
    BY <2>2, <2>5
<1>5. ReachesBack(q, rows)
  BY <1>3, <1>4 DEF ReachesBack
<1>6. ASSUME c = "beat" PROVE CoveredOK(q, rows, holed)
  <2>1. CoveredOK(r, rows, holed)
    BY <1>6 DEF StoreInv
  <2>2. q.now = r.now
    BY <1>2, <1>6
  <2> QED
    BY <1>2, <2>1, <2>2, CoveredGoesOn
<1> QED
  BY <1>1, <1>2, <1>5, <1>6, StoreMoves

LEMMA StoreFetch ==
  ASSUME TypeInv, ScaleInv, StoreInv, NEW c \in Callers, NEW source,
         Fetch(c, source) \/ Refetch(c, source)
  PROVE  StoreInv'
<1> DEFINE q == sync'[c]
           r == sync[c]
<1>1. UNCHANGED <<rows, holed, marker, excused>>
  BY DEF Fetch, Refetch
<1>2. /\ Moves(c) /\ r.pc \in {"fetch", "repair"} /\ q.pc \in {"compare", "save"}
      /\ q.queue = r.queue
      /\ q.failed = r.failed /\ q.skipped = r.skipped /\ q.now = r.now
      /\ q.fetch = r.fetch /\ q.from = r.from
  BY FetchStep, RefetchStep
<1>3. ReachesBack(r, rows)
  BY DEF StoreInv
<1>4. ReachesBack(q, rows)
  BY <1>2, <1>3 DEF ReachesBack
<1>5. ASSUME c = "beat" PROVE CoveredOK(q, rows, holed)
  <2>1. CoveredOK(r, rows, holed)
    BY <1>5 DEF StoreInv
  <2>2. r.pc # "idle" /\ (q.pc \in {"invalidate", "publish"} <=> r.pc \in {"invalidate", "publish"})
    BY <1>2
  <2> HIDE DEF q, r
  <2> QED
    BY <1>2, <2>1, <2>2, CoveredGoesOn
<1> QED
  BY <1>1, <1>2, <1>4, <1>5, StoreMoves

LEMMA StoreCompare ==
  ASSUME TypeInv, ScaleInv, StoredAtStart, StoreInv, NEW c \in Callers, Compare(c)
  PROVE  StoreInv'
<1> DEFINE q == sync'[c]
           r == sync[c]
           s == Head(r.queue)
<1>1. UNCHANGED <<rows, holed, marker, excused>>
  BY DEF Compare
<1>2. /\ Moves(c) /\ r.pc = "compare" /\ q.pc \in {"repair", "save"} /\ q.queue = r.queue
      /\ q.failed = r.failed /\ q.skipped = r.skipped /\ q.now = r.now /\ q.fetch = r.fetch
      /\ q.pc = "repair" => q.from = FullHistoryPlan(Stored(rows[Symbol(c)]), r.now)
      /\ q.pc = "save" => q.from = r.from
  BY CompareStep
<1>3. s = Symbol(c) /\ s \in Names
  BY <1>2, SymbolIsAName
<1>4. q.pc = "repair" => \E p \in Stored(rows[s]) : q.from <= p
  <2> SUFFICES ASSUME q.pc = "repair" PROVE \E p \in Stored(rows[s]) : q.from <= p
    OBVIOUS
  <2>1. PICK a \in Stored(rows[s]) : TRUE
    BY <1>3, FirstRow
  <2>2. /\ Oldest(Stored(rows[s])) \in Stored(rows[s]) /\ Oldest(Stored(rows[s])) \in Int
        /\ Stored(rows[s]) # {}
    BY <2>1, StoredDays, NewestAndOldest
  <2>3. Day(r.now) \in Int
    <3>1. r.now \in (2 * StartDay + 1)..clock
      BY <1>2 DEF TypeInv, RunInv, RunOK, Busy
    <3>2. clock \in Int /\ r.now \in Int /\ 2 * StartDay + 1 <= r.now
      BY <3>1, Constants DEF TypeInv, Types
    <3> HIDE DEF r
    <3> QED
      BY <3>2, Clock
  <2>4. q.from = Smaller(Day(r.now) - InitialHistory, Oldest(Stored(rows[s])))
    BY <1>2, <1>3, <2>2 DEF FullHistoryPlan
  <2>5. q.from <= Oldest(Stored(rows[s]))
    BY <2>2, <2>3, <2>4, Constants DEF Smaller
  <2> QED
    BY <2>2, <2>5
<1>5. ReachesBack(r, rows)
  BY DEF StoreInv
<1>6. ReachesBack(q, rows)
  BY <1>2, <1>4, <1>5 DEF ReachesBack
<1>7. ASSUME c = "beat" PROVE CoveredOK(q, rows, holed)
  <2>1. CoveredOK(r, rows, holed)
    BY <1>7 DEF StoreInv
  <2>2. r.pc # "idle" /\ (q.pc \in {"invalidate", "publish"} <=> r.pc \in {"invalidate", "publish"})
    BY <1>2
  <2> HIDE DEF q, r
  <2> QED
    BY <1>2, <2>1, <2>2, CoveredGoesOn
<1> QED
  BY <1>1, <1>2, <1>6, <1>7, StoreMoves

\* A window that ends after some row and starts no later than some row, or with
\* no session between the newest row and its first bar.
Joins(S, W, from, T) ==
  /\ S \in SUBSET (1..Days) /\ W \in SUBSET (1..Days) /\ from \in Int /\ T \in Int
  /\ \A d \in 1..Days : d \in W <=> d \in Sessions /\ from <= d /\ d <= T
  /\ \A a, b \in S : \A d \in Sessions : a <= d /\ d <= b => d \in S
  /\ \E a \in S : a <= T
  /\ (\E p \in S : from <= p) \/ ~(\E x \in Sessions : x > Newest(S) /\ x < Oldest(W))

\* Stored beside rows without a gap, such a window leaves none.
LEMMA NoGap ==
  ASSUME NEW S, NEW W, NEW from, NEW T, Joins(S, W, from, T),
         NEW a \in S \union W, NEW b \in S \union W, NEW d \in Sessions, a <= d, d <= b
  PROVE  d \in S \union W
<1>00. /\ S \in SUBSET (1..Days) /\ W \in SUBSET (1..Days) /\ from \in Int /\ T \in Int
       /\ \A e \in 1..Days : e \in W <=> e \in Sessions /\ from <= e /\ e <= T
       /\ \A u, v \in S : \A e \in Sessions : u <= e /\ e <= v => e \in S
       /\ \E u \in S : u <= T
       /\ (\E p \in S : from <= p) \/ ~(\E x \in Sessions : x > Newest(S) /\ x < Oldest(W))
  BY DEF Joins
<1> USE <1>00
<1>0. Days \in Nat /\ S \subseteq Int /\ W \subseteq Int /\ d \in 1..Days /\ d \in Int
      /\ a \in Int /\ b \in Int
  BY Constants DEF Sessions
<1>1. CASE from <= d /\ d <= T
  BY <1>0, <1>1
<1>2. CASE T < d
  <2>1. b \in S
    BY <1>0, <1>2
  <2>2. PICK x \in S : x <= T
    OBVIOUS
  <2>3. x <= d /\ x \in Int
    BY <1>0, <1>2, <2>2
  <2> QED
    BY <2>1, <2>3
<1>3. CASE d < from
  <2>1. a \in S
    BY <1>0, <1>3
  <2>2. CASE \E p \in S : from <= p
    <3>1. PICK p \in S : from <= p
      BY <2>2
    <3>2. d <= p /\ p \in Int
      BY <1>0, <1>3, <3>1
    <3> QED
      BY <2>1, <3>2
  <2>3. CASE ~(\E x \in Sessions : x > Newest(S) /\ x < Oldest(W))
    <3>1. CASE b \in S
      BY <2>1, <3>1
    <3>2. CASE b \in W
      <4>1. Newest(S) \in S /\ Newest(S) \in Int
        BY <2>1, NewestAndOldest
      <4>2. Oldest(W) \in W /\ Oldest(W) \in Int
        BY <3>2, NewestAndOldest
      <4>3. d < Oldest(W)
        BY <1>0, <1>3, <4>2
      <4>4. d <= Newest(S)
        BY <1>0, <2>3, <4>1, <4>3
      <4> QED
        BY <2>1, <4>1, <4>4
    <3> QED
      BY <3>1, <3>2
  <2> QED
    BY <2>2, <2>3
<1> QED
  BY <1>0, <1>1, <1>2, <1>3

LEMMA StoreSave ==
  ASSUME TypeInv, ScaleInv, StoredAtStart, StoreInv, NEW c \in Callers, Save(c)
  PROVE  StoreInv'
<1> DEFINE s == Symbol(c)
           r == sync[c]
           b == r.bars
           q == sync'[c]
           S == Stored(rows[s])
           W == Stored(b)
<1>1. /\ s = Head(r.queue) /\ s \in Names
      /\ \A t \in Names \ {s} : rows'[t] = rows[t]
      /\ Stored(rows'[s]) = S \union W
      /\ Passes(c, "save", "invalidate")
  BY SavedRows DEF ScaleInv
<1>2. PICK T \in StartDay..Days, f \in Factor :
        /\ f # 0 /\ CoverageDate(r.now) <= T
        /\ \A d \in 1..Days : b[d] = IF d \in Sessions /\ r.from <= d /\ d <= T THEN f ELSE 0
  BY SavedRows DEF ScaleInv
<1>3. /\ Moves(c) /\ r.pc = "save" /\ q.pc = "invalidate" /\ q.queue = r.queue /\ q.fetch = r.fetch
      /\ q.failed = r.failed /\ q.skipped = r.skipped /\ q.now = r.now
  BY <1>1 DEF Passes
<1>4. UNCHANGED <<marker, excused>>
  BY DEF Save
<1>5. /\ holed \subseteq holed' /\ \A t \in Names \ {s} : t \in holed' => t \in holed
      /\ r.fetch /\ W # {} /\ S # {} /\ s \notin holed'
           => ~(\E x \in Sessions : x > Newest(S) /\ x < Oldest(W))
  BY DEF Save
<1>6. \A t \in Names : Stored(rows[t]) \subseteq Stored(rows'[t])
  BY <1>1
<1>7. /\ S \in SUBSET (1..Days) /\ W \in SUBSET (1..Days) /\ T \in Int /\ StartDay <= T
      /\ r.from \in Int /\ StartDay \in Int /\ r.now \in (2 * StartDay + 1)..clock
      /\ CoverageDate(r.now) \in Int
  <2>1. r \in Runs /\ clock \in Int
    BY Constants DEF TypeInv, Types
  <2>2. r.now \in (2 * StartDay + 1)..clock
    BY <1>3 DEF TypeInv, RunInv, RunOK, Busy
  <2>3. r.now \in Int /\ 2 * StartDay + 1 <= r.now
    BY <2>1, <2>2, Constants
  <2>4. CoverageDate(r.now) \in Int
    BY <2>3, Clock
  <2> QED
    BY <2>1, <2>2, <2>4, RunFields, StoredDays, Constants
<1>8. \A d \in 1..Days : d \in W <=> d \in Sessions /\ r.from <= d /\ d <= T
  BY <1>2 DEF Stored
<1>9. PICK a0 \in S : a0 < StartDay /\ a0 \in Int
  BY <1>1, FirstRow
<1>10. ~r.fetch => \E p \in S : r.from <= p
  BY <1>1, <1>3 DEF StoreInv, ReachesBack
<1>11. s \notin holed => \A x, y \in S : \A d \in Sessions : x <= d /\ d <= y => d \in S
  BY <1>1 DEF StoreInv, Contiguous
<1>12. ASSUME s \notin holed', NEW x \in S \union W, NEW y \in S \union W, NEW d \in Sessions,
              x <= d, d <= y
       PROVE  d \in S \union W
  <2>1. \A u, v \in S : \A e \in Sessions : u <= e /\ e <= v => e \in S
    BY <1>5, <1>11, <1>12
  <2>2. CASE W = {}
    BY <1>12, <2>1, <2>2
  <2>3. CASE W # {}
    <3>1. (\E p \in S : r.from <= p) \/ ~(\E z \in Sessions : z > Newest(S) /\ z < Oldest(W))
      BY <1>5, <1>9, <1>10, <1>12, <2>3
    <3>2. \E z \in S : z <= T
      BY <1>7, <1>9
    <3> DEFINE from == r.from
    <3>3. from \in Int /\ \A e \in 1..Days : e \in W <=> e \in Sessions /\ from <= e /\ e <= T
      BY <1>7, <1>8
    <3>4. (\E p \in S : from <= p) \/ ~(\E z \in Sessions : z > Newest(S) /\ z < Oldest(W))
      BY <3>1
    <3>5. Joins(S, W, from, T)
      <4> HIDE DEF S, W, from
      <4> QED
        BY <1>7, <2>1, <3>2, <3>3, <3>4 DEF Joins
    <3> HIDE DEF S, W, from
    <3> QED
      BY <1>12, <3>5, NoGap
  <2> QED
    BY <2>2, <2>3
<1> HIDE DEF S, W
<1>13. Contiguous'
  <2> SUFFICES ASSUME NEW t \in Names \ holed', NEW x \in Stored(rows'[t]), NEW y \in Stored(rows'[t]),
                      NEW d \in Sessions, x <= d, d <= y
               PROVE  d \in Stored(rows'[t])
    BY DEF Contiguous
  <2>1. CASE t = s
    BY <1>1, <1>12, <2>1
  <2>2. CASE t # s
    BY <1>1, <1>5, <2>2 DEF StoreInv, Contiguous
  <2> QED
    BY <2>1, <2>2
<1>14. ASSUME NEW x \in Callers PROVE ReachesBack(sync'[x], rows')
  <2>1. CASE x = c
    BY <1>3, <2>1 DEF ReachesBack
  <2>2. CASE x # c
    <3>1. sync'[x] = sync[x] /\ ReachesBack(sync[x], rows)
      BY <1>3, <2>2 DEF Moves, StoreInv
    <3>2. sync[x].pc \in {"fetch", "compare", "repair", "save"} => Head(sync[x].queue) \in Names
      <4>1. sync[x].pc \in {"fetch", "compare", "repair", "save"} => sync[x].pc \notin {"idle", "mark"}
        OBVIOUS
      <4> QED
        BY <4>1, SymbolIsAName
    <3> QED
      BY <1>6, <3>1, <3>2 DEF ReachesBack
  <2> QED
    BY <2>1, <2>2
<1>15. ASSUME s \notin holed, ~r.fetch, NEW d \in Sessions, FirstStored[s] <= d,
              d <= CoverageDate(r.now)
       PROVE  d \in S \union W
  <2>0. d \in Int /\ d \in 1..Days
    BY Constants DEF Sessions
  <2>1. CASE r.from <= d
    BY <1>2, <1>7, <1>8, <1>15, <2>0, <2>1
  <2>2. CASE d < r.from /\ d < StartDay
    BY <1>1, <1>15, <2>2 DEF ScaleInv, RowsInv, S
  <2>3. CASE d < r.from /\ StartDay <= d
    <3>1. PICK p \in S : r.from <= p
      BY <1>10, <1>15
    <3>2. a0 <= d /\ d <= p
      BY <1>7, <1>9, <2>0, <2>3, <3>1
    <3> QED
      BY <1>9, <1>11, <1>15, <3>1, <3>2
  <2> QED
    BY <1>7, <2>0, <2>1, <2>2, <2>3
<1>16. CoveredOK(sync'["beat"], rows', holed')
  <2>1. CoveredOK(sync["beat"], rows, holed) /\ ~sync["beat"].fetch
    BY DEF StoreInv, TypeInv, RunInv, BeatOK
  <2>2. CASE c # "beat"
    <3>1. sync'["beat"] = sync["beat"]
      BY <1>3, <2>2, Callers2 DEF Moves
    <3> QED
      BY <1>5, <1>6, <2>1, <3>1 DEF CoveredOK
  <2>3. CASE c = "beat"
    <3> SUFFICES ASSUME ~r.failed, ~r.skipped, NEW t \in Names \ (holed' \union Ahead(q)),
                        NEW d \in Sessions, FirstStored[t] <= d, d <= CoverageDate(r.now)
                 PROVE  d \in Stored(rows'[t])
      BY <1>3, <2>3 DEF CoveredOK
    <3>1. CASE t = s
      BY <1>1, <1>5, <1>15, <2>1, <2>3, <3>1
    <3>2. CASE t # s
      <4>1. t \notin Ahead(r)
        <5>1. \A i \in 2..Len(r.queue) : r.queue[i] # t
          BY <1>3 DEF Ahead
        <5>2. r.queue[1] # t
          <6>1. r.queue \in Seq(Names) /\ r.queue # <<>>
            BY <1>3, SymbolIsAName
          <6> QED
            BY <1>1, <3>2, <6>1, QueueHead
        <5>3. \A i \in 1..Len(r.queue) : i = 1 \/ i \in 2..Len(r.queue)
          <6>1. Len(r.queue) \in Nat
            BY <1>3, SymbolIsAName, QueueHead
          <6> QED
            BY <6>1
        <5>4. \A i \in 1..Len(r.queue) : r.queue[i] # t
          BY <5>1, <5>2, <5>3
        <5> QED
          BY <1>3, <5>4 DEF Ahead
      <4>2. d \in Stored(rows[t])
        BY <1>3, <1>5, <2>1, <2>3, <4>1 DEF CoveredOK
      <4> QED
        BY <1>6, <4>2
    <3> QED
      BY <3>1, <3>2
  <2> QED
    BY <2>2, <2>3
<1>17. MarkedDayIsStored'
  <2>1. ASSUME NEW d \in Sessions \ excused, NEW t \in Names \ holed', d <= marker, FirstStored[t] <= d
        PROVE  rows'[t][d] # 0
    <3>1. rows[t][d] # 0 /\ d \in 1..Days
      BY <1>5, <2>1 DEF StoreInv, MarkedDayIsStored, Sessions
    <3>2. d \in Stored(rows'[t])
      BY <1>6, <3>1 DEF Stored
    <3> QED
      BY <3>2 DEF Stored
  <2> QED
    BY <1>4, <2>1 DEF MarkedDayIsStored
<1> QED
  BY <1>13, <1>14, <1>16, <1>17 DEF StoreInv

LEMMA StorePasses ==
  ASSUME TypeInv, StoreInv, NEW c \in Callers, Invalidate(c)
  PROVE  StoreInv'
<1> DEFINE q == sync'[c]
           r == sync[c]
<1>1. /\ r.pc = "invalidate" /\ sync' = [sync EXCEPT ![c].pc = "publish"]
      /\ UNCHANGED <<rows, holed, marker, excused>>
  BY DEF Invalidate
<1>2. Passes(c, "invalidate", "publish")
  BY <1>1, PassingStep DEF Pcs
<1>3. ReachesBack(q, rows)
  BY <1>2 DEF Passes, ReachesBack
<1>4. ASSUME c = "beat" PROVE CoveredOK(q, rows, holed)
  <2>1. CoveredOK(r, rows, holed)
    BY <1>4 DEF StoreInv
  <2>2. /\ q.queue = r.queue /\ q.failed = r.failed /\ q.skipped = r.skipped /\ q.now = r.now
        /\ r.pc # "idle" /\ (q.pc \in {"invalidate", "publish"} <=> r.pc \in {"invalidate", "publish"})
    BY <1>2 DEF Passes
  <2> HIDE DEF q, r
  <2> QED
    BY <2>1, <2>2, CoveredGoesOn
<1> QED
  BY <1>1, <1>2, <1>3, <1>4, StoreMoves DEF Passes

\* The symbol a run ends leaves the queue; one that failed taints the run.
LEMMA StoreNextSymbol ==
  ASSUME TypeInv, StoreInv, NEW c \in Callers, Publish(c) \/ SymbolFails(c)
  PROVE  StoreInv'
<1> DEFINE q == sync'[c]
           r == sync[c]
<1>1. UNCHANGED <<rows, holed, marker, excused>> /\ r.pc \notin {"idle", "mark"}
  BY DEF Publish, SymbolFails
<1>2. PICK failed \in BOOLEAN : /\ NextSymbol(c, failed)
                                /\ ~failed => r.pc = "publish"
  BY DEF Publish, SymbolFails
<1>3. /\ Moves(c) /\ q.queue = Tail(r.queue) /\ q.failed = (r.failed \/ failed)
      /\ q.now = r.now /\ q.pc \in {"plan", "mark", "idle"}
  BY <1>1, <1>2, NextSymbolStep
<1>4. ReachesBack(q, rows)
  BY <1>3 DEF ReachesBack
<1>5. r.queue \in Seq(Names) /\ r.queue # <<>>
  BY <1>1, SymbolIsAName
<1>6. ASSUME c = "beat" PROVE CoveredOK(q, rows, holed)
  <2> SUFFICES ASSUME ~q.failed, ~q.skipped, NEW s \in Names \ (holed \union Ahead(q)),
                      NEW d \in Sessions, FirstStored[s] <= d, d <= CoverageDate(q.now)
               PROVE  d \in Stored(rows[s])
    BY DEF CoveredOK
  <2>1. CoveredOK(r, rows, holed) /\ ~r.failed /\ r.pc = "publish"
    BY <1>2, <1>3, <1>6 DEF StoreInv
  <2>2. ~r.skipped
    BY <1>6, <2>1 DEF TypeInv, RunInv, BeatOK
  <2>3. s \notin Ahead(r)
    <3>1. \A i \in 1..Len(q.queue) : q.queue[i] # s
      BY <1>3 DEF Ahead
    <3>2. /\ Len(r.queue) \in Nat \ {0} /\ Len(q.queue) = Len(r.queue) - 1
          /\ \A i \in 1..Len(q.queue) : q.queue[i] = r.queue[i + 1]
      BY <1>3, <1>5, QueueHead
    <3>3. ASSUME NEW i \in 2..Len(r.queue) PROVE r.queue[i] # s
      <4>1. i - 1 \in 1..Len(q.queue) /\ (i - 1) + 1 = i
        BY <3>2
      <4>2. q.queue[i - 1] = r.queue[(i - 1) + 1]
        BY <3>2, <4>1
      <4> QED
        BY <3>1, <4>1, <4>2
    <3> QED
      BY <2>1, <3>3 DEF Ahead
  <2> QED
    BY <1>3, <2>1, <2>2, <2>3 DEF CoveredOK
<1> QED
  BY <1>1, <1>3, <1>4, <1>6, StoreMoves

LEMMA StoreMark ==
  ASSUME TypeInv, StoreInv, Mark
  PROVE  StoreInv'
<1> DEFINE r == sync["beat"]
           day == CoverageDate(clock)
<1>1. /\ Moves("beat") /\ r.pc = "mark" /\ sync'["beat"].pc = "idle" /\ "beat" \in Callers
      /\ UNCHANGED <<rows, holed>>
  BY MarkStep, Callers2 DEF Mark
<1>2. /\ marker' = IF Backend = "redis" THEN day ELSE 0
      /\ excused' = IF r.failed \/ r.skipped THEN excused \union 1..day
                    ELSE excused \union {d \in 1..day : d > CoverageDate(r.now)}
  BY DEF Mark, Marks
<1>3. r.queue = <<>> /\ r.now \in (2 * StartDay + 1)..clock
  BY <1>1 DEF TypeInv, RunInv, BeatOK
<1>4. day \in Int /\ day >= 0 /\ CoverageDate(r.now) \in Int
  <2>1. clock \in Int /\ 2 * StartDay + 1 <= clock /\ r.now \in Int /\ 2 * StartDay + 1 <= r.now
    BY <1>3, Constants DEF TypeInv, Types
  <2> HIDE DEF r
  <2> QED
    BY <2>1, Clock, Constants
<1>5. Ahead(r) = {}
  BY <1>1, <1>3 DEF Ahead
<1>6. MarkedDayIsStored'
  <2> SUFFICES ASSUME NEW d \in Sessions \ excused', NEW s \in Names \ holed, d <= marker',
                      FirstStored[s] <= d
               PROVE  rows[s][d] # 0
    BY <1>1 DEF MarkedDayIsStored
  <2>1. d \in 1..day /\ d \in Int
    BY <1>2, <1>4, Constants DEF Sessions
  <2>2. ~r.failed /\ ~r.skipped
    BY <1>2, <2>1
  <2>3. d <= CoverageDate(r.now)
    BY <1>2, <1>4, <2>1, <2>2
  <2>4. CoveredOK(r, rows, holed)
    BY DEF StoreInv
  <2>5. d \in Stored(rows[s])
    BY <1>1, <1>5, <2>2, <2>3, <2>4 DEF CoveredOK
  <2> QED
    BY <2>5 DEF Stored
<1>7. Contiguous'
  BY <1>1 DEF StoreInv, Contiguous
<1>8. ASSUME NEW c \in Callers PROVE ReachesBack(sync'[c], rows')
  BY <1>1 DEF StoreInv, ReachesBack, Moves
<1>9. CoveredOK(sync'["beat"], rows', holed')
  BY <1>1 DEF CoveredOK
<1> QED
  BY <1>6, <1>7, <1>8, <1>9 DEF StoreInv

LEMMA StoreBegins ==
  ASSUME TypeInv, StoreInv,
         Beat \/ PostSync \/ \E s \in Names : \E from \in {0, Day(clock)} : PostFetch(s, from)
  PROVE  StoreInv'
<1>1. UNCHANGED <<rows, holed, marker, excused>>
  BY DEF Beat, PostSync, PostFetch
<1>2. CASE Beat
  <2>1. /\ Moves("beat") /\ sync'["beat"].pc \in {"mark", "plan"}
        /\ sync'["beat"].pc = "mark" => sync'["beat"].skipped
        /\ sync'["beat"].pc = "plan" => sync'["beat"].queue = Symbols
    BY <1>2, BeatStep
  <2>2. ReachesBack(sync'["beat"], rows)
    BY <2>1 DEF ReachesBack
  <2>3. sync'["beat"].pc = "plan" => \A s \in Names : s \in Ahead(sync'["beat"])
    <3>1. DOMAIN Symbols = 1..Len(Symbols)
      BY Constants
    <3> QED
      BY <2>1, <3>1 DEF Ahead, Names
  <2>4. CoveredOK(sync'["beat"], rows, holed)
    BY <2>1, <2>3 DEF CoveredOK
  <2> QED
    BY <1>1, <2>1, <2>2, <2>4, StoreMoves, Callers2
<1>3. CASE PostSync
  <2>1. Moves("http") /\ sync'["http"].pc = "plan"
    BY <1>3, PostSyncStep
  <2>2. ReachesBack(sync'["http"], rows)
    BY <2>1 DEF ReachesBack
  <2> QED
    BY <1>1, <2>1, <2>2, StoreMoves, Callers2
<1>4. ASSUME NEW s \in Names, NEW from \in {0, Day(clock)}, PostFetch(s, from) PROVE StoreInv'
  <2>1. Moves("http") /\ sync'["http"].fetch = TRUE
    BY <1>4, PostFetchStep
  <2>2. ReachesBack(sync'["http"], rows)
    BY <2>1 DEF ReachesBack
  <2> QED
    BY <1>1, <2>1, <2>2, StoreMoves, Callers2
<1> QED
  BY <1>2, <1>3, <1>4

LEMMA StoreStep ==
  ASSUME TypeInv, ScaleInv, StoredAtStart, StoreInv, [Next]_vars
  PROVE  StoreInv'
<1>1. CASE Crash
  <2>1. UNCHANGED <<rows, holed, marker, excused>> /\ \A c \in Callers : sync'[c].pc = "idle"
    BY <1>1, CrashStep DEF Crash
  <2>2. \A c \in Callers : ReachesBack(sync'[c], rows')
    BY <2>1 DEF ReachesBack
  <2>3. CoveredOK(sync'["beat"], rows', holed')
    BY <2>1, Callers2 DEF CoveredOK
  <2>4. Contiguous' /\ MarkedDayIsStored'
    BY <2>1 DEF StoreInv, Contiguous, MarkedDayIsStored
  <2> QED
    BY <2>2, <2>3, <2>4 DEF StoreInv
<1>2. ASSUME UNCHANGED <<rows, holed, marker, excused, sync>> PROVE StoreInv'
  BY <1>2 DEF StoreInv, Contiguous, MarkedDayIsStored
<1>3. ASSUME \/ Tick \/ \E s \in Names : CorporateAction(s) \/ Expire(s)
             \/ \E s \in Names : \E n \in Limits : GetCached(s, n)
             \/ ReadRows \/ FillCache \/ Answer \/ UNCHANGED vars
      PROVE  StoreInv'
  <2>1. UNCHANGED <<rows, holed, marker, excused, sync>>
    BY <1>3 DEF Tick, CorporateAction, Expire, GetCached, ReadRows, FillCache, Answer, vars, state
  <2> QED
    BY <1>2, <2>1
<1>4. ASSUME NEW c \in Callers, Run(c) PROVE StoreInv'
  BY <1>4, StorePlan, StoreFetch, StoreCompare, StoreSave, StorePasses, StoreNextSymbol DEF Run
<1> QED
  BY <1>1, <1>3, <1>4, StoreBegins, StoreMark DEF Next

-----------------------------------------------------------------------------
(* The announcements                                                       *)

LEMMA ToldStays ==
  ASSUME TypeInv, AnnounceInv, NEW c \in Callers, Moves(c),
         sync[c].pc \notin {"invalidate", "publish"},
         unsaid' = unsaid, interrupted \subseteq interrupted'
  PROVE  AnnounceInv'
BY DEF AnnounceInv, ToldOf, Moves

LEMMA AnnounceStep ==
  ASSUME TypeInv, ScaleInv, AnnounceInv, [Next]_vars
  PROVE  AnnounceInv'
<1>1. ASSUME UNCHANGED <<sync, unsaid, interrupted>> PROVE AnnounceInv'
  BY <1>1 DEF AnnounceInv
<1>2. ASSUME \/ Tick \/ \E s \in Names : CorporateAction(s) \/ Expire(s)
             \/ \E s \in Names : \E n \in Limits : GetCached(s, n)
             \/ ReadRows \/ FillCache \/ Answer \/ UNCHANGED vars
      PROVE  AnnounceInv'
  <2>1. UNCHANGED <<sync, unsaid, interrupted>>
    BY <1>2 DEF Tick, CorporateAction, Expire, GetCached, ReadRows, FillCache, Answer, vars, state
  <2> QED
    BY <1>1, <2>1
<1>3. CASE Beat \/ PostSync \/ Mark
                \/ \E s \in Names : \E from \in {0, Day(clock)} : PostFetch(s, from)
  <2>1. unsaid' = unsaid /\ interrupted' = interrupted
    BY <1>3 DEF Beat, PostSync, PostFetch, Mark
  <2>2. \E c \in Callers : Moves(c) /\ sync[c].pc \notin {"invalidate", "publish"}
    BY <1>3, BeatStep, PostSyncStep, PostFetchStep, MarkStep, Callers2
  <2> QED
    BY <2>1, <2>2, ToldStays
<1>4. CASE Crash
  <2>1. unsaid' = unsaid /\ interrupted' = interrupted \union unsaid
    BY <1>4 DEF Crash
  <2> QED
    BY <2>1 DEF AnnounceInv
<1>5. ASSUME NEW c \in Callers,
             PlanSymbol(c) \/ Compare(c) \/ \E source \in {"yahoo", "alpha_vantage"} :
                                              Fetch(c, source) \/ Refetch(c, source)
      PROVE  AnnounceInv'
  <2>1. unsaid' = unsaid /\ interrupted' = interrupted
    BY <1>5 DEF PlanSymbol, Compare, Fetch, Refetch
  <2>2. Moves(c) /\ sync[c].pc \notin {"invalidate", "publish"}
    BY <1>5, PlanSymbolStep, CompareStep, FetchStep, RefetchStep
  <2> QED
    BY <2>1, <2>2, ToldStays
<1>6. ASSUME NEW c \in Callers, Save(c) PROVE AnnounceInv'
  <2>1. Passes(c, "save", "invalidate") /\ Symbol(c) = Head(sync[c].queue)
    BY <1>6, SavedRows DEF ScaleInv
  <2>2. /\ unsaid' = IF Stored(sync[c].bars) = {} THEN unsaid ELSE unsaid \union {Symbol(c)}
        /\ interrupted' = interrupted
    BY <1>6 DEF Save
  <2>3. Stored(sync[c].bars) # {} => ToldOf(Symbol(c), sync'[c])
    BY <2>1 DEF Passes, ToldOf
  <2>4. ASSUME NEW s \in unsaid, s \notin interrupted
        PROVE  \E b \in Callers : ToldOf(s, sync'[b])
    <3>1. PICK b \in Callers : ToldOf(s, sync[b])
      BY <2>4 DEF AnnounceInv
    <3>2. b # c
      BY <2>1, <3>1 DEF Passes, ToldOf
    <3> QED
      BY <2>1, <3>1, <3>2 DEF Passes, Moves
  <2> QED
    BY <2>2, <2>3, <2>4 DEF AnnounceInv
<1>7. ASSUME NEW c \in Callers, Invalidate(c) PROVE AnnounceInv'
  <2>1. /\ sync[c].pc = "invalidate" /\ sync' = [sync EXCEPT ![c].pc = "publish"]
        /\ unsaid' = unsaid /\ interrupted' = interrupted
    BY <1>7 DEF Invalidate
  <2>2. Passes(c, "invalidate", "publish")
    BY <2>1, PassingStep DEF Pcs
  <2>3. ASSUME NEW s \in unsaid, NEW b \in Callers, ToldOf(s, sync[b])
        PROVE  ToldOf(s, sync'[b])
    BY <2>2, <2>3 DEF Passes, Moves, ToldOf
  <2> QED
    BY <2>1, <2>3 DEF AnnounceInv
<1>8. ASSUME NEW c \in Callers, Publish(c) PROVE AnnounceInv'
  <2>1. /\ sync[c].pc = "publish" /\ NextSymbol(c, FALSE)
        /\ Stored(sync[c].bars) # {} => /\ unsaid' = unsaid \ {Symbol(c)}
                                        /\ interrupted' = interrupted \ {Symbol(c)}
        /\ Stored(sync[c].bars) = {} => unsaid' = unsaid /\ interrupted' = interrupted
    BY <1>8 DEF Publish
  <2>2. Moves(c)
    BY <2>1, NextSymbolStep
  <2>3. ASSUME NEW s \in unsaid', s \notin interrupted'
        PROVE  \E b \in Callers : ToldOf(s, sync'[b])
    <3>1. s \in unsaid /\ s \notin interrupted
      BY <2>1, <2>3
    <3>2. PICK b \in Callers : ToldOf(s, sync[b])
      BY <3>1 DEF AnnounceInv
    <3>3. b # c
      BY <2>1, <2>3, <3>2 DEF ToldOf, Symbol
    <3> QED
      BY <2>2, <3>2, <3>3 DEF Moves
  <2> QED
    BY <2>3 DEF AnnounceInv
<1>9. ASSUME NEW c \in Callers, SymbolFails(c) PROVE AnnounceInv'
  <2>1. /\ NextSymbol(c, TRUE) /\ unsaid' = unsaid /\ sync[c].pc \notin {"idle", "mark"}
        /\ interrupted' = IF Symbol(c) \in unsaid THEN interrupted \union {Symbol(c)} ELSE interrupted
    BY <1>9 DEF SymbolFails
  <2>2. Moves(c)
    BY <2>1, NextSymbolStep
  <2>3. ASSUME NEW s \in unsaid, s \notin interrupted'
        PROVE  \E b \in Callers : ToldOf(s, sync'[b])
    <3>1. s \notin interrupted
      BY <2>1, <2>3
    <3>2. PICK b \in Callers : ToldOf(s, sync[b])
      BY <3>1 DEF AnnounceInv
    <3>3. b # c
      BY <2>1, <2>3, <3>2 DEF ToldOf, Symbol
    <3> QED
      BY <2>2, <3>2, <3>3 DEF Moves
  <2> QED
    BY <2>1, <2>3 DEF AnnounceInv
<1> QED
  BY <1>2, <1>3, <1>4, <1>5, <1>6, <1>7, <1>8, <1>9 DEF Next, Run

-----------------------------------------------------------------------------
(* The cache                                                               *)

\* An entry that is current: its window is the table's.
Current(s) == cache[s][1] = Latest(rows[s], Cardinality(Stored(cache[s][1])))

LEMMA CacheMoves ==
  ASSUME TypeInv, CacheInv, NEW c \in Callers, Moves(c), UNCHANGED <<cache, rows, reader>>,
         sync'[c].pc # "invalidate",
         tainted \subseteq tainted', sync[c].pc = "invalidate" => Symbol(c) \in tainted'
  PROVE  CacheInv'
<1>1. CacheIsCurrent'
  <2> SUFFICES ASSUME NEW s \in Names \ tainted', cache[s] # <<>>,
                      \A b \in Callers : sync'[b].pc = "invalidate" => Symbol(b)' # s
               PROVE  Current(s)
    BY DEF CacheIsCurrent, Current
  <2>1. ASSUME NEW b \in Callers, sync[b].pc = "invalidate" PROVE Symbol(b) # s
    <3>1. CASE b = c
      BY <2>1, <3>1
    <3>2. CASE b # c
      BY <2>1, <3>2 DEF Moves, Symbol
    <3> QED
      BY <3>1, <3>2
  <2> QED
    BY <2>1 DEF CacheInv, CacheIsCurrent, Current
<1> QED
  BY <1>1 DEF CacheInv

LEMMA CacheSave ==
  ASSUME TypeInv, ScaleInv, CacheInv, NEW c \in Callers, Save(c)
  PROVE  CacheInv'
<1> DEFINE s == Symbol(c)
<1>1. /\ s = Head(sync[c].queue) /\ s \in Names
      /\ \A t \in Names \ {s} : rows'[t] = rows[t]
      /\ Stored(rows'[s]) = Stored(rows[s]) \union Stored(sync[c].bars)
      /\ Passes(c, "save", "invalidate")
  BY SavedRows DEF ScaleInv
<1>2. /\ cache' = cache /\ tainted' = tainted
      /\ reader' = IF reader.pc = "fill" /\ reader.symbol = s
                     THEN [reader EXCEPT !.overtaken = TRUE] ELSE reader
  BY DEF Save
<1>3. sync'[c].pc = "invalidate" /\ Symbol(c)' = s /\ Moves(c) /\ sync[c].pc = "save"
  BY <1>1 DEF Passes, Symbol
<1>4. CacheIsCurrent'
  <2> SUFFICES ASSUME NEW t \in Names \ tainted, cache[t] # <<>>,
                      \A b \in Callers : sync'[b].pc = "invalidate" => Symbol(b)' # t
               PROVE  cache[t][1] = Latest(rows'[t], Cardinality(Stored(cache[t][1])))
    BY <1>2 DEF CacheIsCurrent
  <2>1. t # s
    BY <1>3
  <2>2. ASSUME NEW b \in Callers, sync[b].pc = "invalidate" PROVE Symbol(b) # t
    <3>1. b # c
      BY <1>3, <2>2
    <3> QED
      BY <1>3, <2>2, <3>1 DEF Moves, Symbol
  <2> QED
    BY <1>1, <2>1, <2>2 DEF CacheInv, CacheIsCurrent
<1>5. \A t \in Names : Stored(rows[t]) \subseteq Stored(rows'[t])
  BY <1>1
<1>6. reader \in Reads /\ reader.symbol \in Names
  BY DEF TypeInv, Types, Reads
<1>7. CASE reader.pc = "fill" /\ reader.symbol = s
  <2>1. /\ reader'.overtaken = TRUE /\ reader'.bars = reader.bars /\ reader'.symbol = reader.symbol
    BY <1>2, <1>6, <1>7 DEF Reads
  <2> QED
    BY <1>2, <1>4, <1>5, <1>6, <1>7, <2>1 DEF CacheInv
<1>8. CASE ~(reader.pc = "fill" /\ reader.symbol = s)
  <2>1. reader' = reader
    BY <1>2, <1>8
  <2>2. reader.pc = "fill" => rows'[reader.symbol] = rows[reader.symbol]
    BY <1>1, <1>6, <1>8
  <2> QED
    BY <1>2, <1>4, <1>5, <2>1, <2>2 DEF CacheInv
<1> QED
  BY <1>7, <1>8

\* An entry that goes is no longer wrong.
LEMMA CacheForgets ==
  ASSUME TypeInv, CacheInv, NEW s \in Names, cache' = [cache EXCEPT ![s] = <<>>],
         tainted' = tainted \ {s}, UNCHANGED <<rows, reader>>,
         \A b \in Callers : \A t \in Names \ {s} :
           sync[b].pc = "invalidate" /\ Symbol(b) = t => sync'[b] = sync[b]
  PROVE  CacheInv'
<1>1. /\ cache'[s] = <<>> /\ \A t \in Names \ {s} : cache'[t] = cache[t]
      /\ \A t \in Names \ {s} : t \in tainted' <=> t \in tainted
  BY DEF TypeInv, Types
<1>2. CacheIsCurrent'
  <2> SUFFICES ASSUME NEW t \in Names \ tainted', cache'[t] # <<>>,
                      \A b \in Callers : sync'[b].pc = "invalidate" => Symbol(b)' # t
               PROVE  cache'[t][1] = Latest(rows[t], Cardinality(Stored(cache'[t][1])))
    BY DEF CacheIsCurrent
  <2>1. t # s /\ t \notin tainted /\ cache'[t] = cache[t]
    BY <1>1
  <2>2. ASSUME NEW b \in Callers, sync[b].pc = "invalidate" PROVE Symbol(b) # t
    <3> SUFFICES ASSUME Symbol(b) = t PROVE FALSE
      OBVIOUS
    <3>1. sync'[b] = sync[b]
      BY <2>1, <2>2
    <3> QED
      BY <2>2, <3>1 DEF Symbol
  <2> QED
    BY <2>1, <2>2 DEF CacheInv, CacheIsCurrent
<1>3. \A t \in Names : cache'[t] # <<>> => Stored(cache'[t][1]) \subseteq Stored(rows[t])
  BY <1>1 DEF CacheInv
<1> QED
  BY <1>2, <1>3 DEF CacheInv

LEMMA CacheFills ==
  ASSUME TypeInv, CacheInv, FillCache
  PROVE  CacheInv'
<1> DEFINE s == reader.symbol
<1>1. /\ reader.pc = "fill" /\ cache' = [cache EXCEPT ![s] = <<reader.bars>>]
      /\ tainted' = IF reader.overtaken THEN tainted \union {s} ELSE tainted \ {s}
      /\ reader' = [reader EXCEPT !.pc = "answer"]
      /\ UNCHANGED <<rows, sync>>
  BY DEF FillCache
<1>2. /\ reader \in Reads /\ s \in Names /\ reader.limit \in Nat /\ reader.bars \in Window
      /\ cache \in [Names -> Seq(Window)] /\ rows[s] \in Window /\ reader.overtaken \in BOOLEAN
  BY DEF TypeInv, Types, Reads
<1>3. cache'[s] = <<reader.bars>> /\ \A t \in Names \ {s} : cache'[t] = cache[t]
  BY <1>1, <1>2
<1>4. cache'[s][1] = reader.bars
  BY <1>3
<1>5. reader'.pc = "answer"
  BY <1>1, <1>2 DEF Reads
<1>6. Stored(reader.bars) \subseteq Stored(rows[s])
  BY <1>1 DEF CacheInv
<1>7. ~reader.overtaken => reader.bars = Latest(rows[s], Cardinality(Stored(reader.bars)))
  BY <1>1, <1>2, LatestRows DEF CacheInv
<1>8. CacheIsCurrent'
  <2> SUFFICES ASSUME NEW t \in Names \ tainted', cache'[t] # <<>>,
                      \A b \in Callers : sync'[b].pc = "invalidate" => Symbol(b)' # t
               PROVE  cache'[t][1] = Latest(rows[t], Cardinality(Stored(cache'[t][1])))
    BY <1>1 DEF CacheIsCurrent
  <2>1. CASE t = s
    BY <1>1, <1>4, <1>7, <2>1
  <2>2. CASE t # s
    <3>1. t \notin tainted /\ cache'[t] = cache[t]
      BY <1>1, <1>3, <2>2
    <3>2. \A b \in Callers : sync[b].pc = "invalidate" => Symbol(b) # t
      BY <1>1 DEF Symbol
    <3> QED
      BY <3>1, <3>2 DEF CacheInv, CacheIsCurrent
  <2> QED
    BY <2>1, <2>2
<1>9. \A t \in Names : cache'[t] # <<>> => Stored(cache'[t][1]) \subseteq Stored(rows[t])
  BY <1>3, <1>4, <1>6 DEF CacheInv
<1> QED
  BY <1>1, <1>5, <1>8, <1>9 DEF CacheInv

LEMMA CacheCrash ==
  ASSUME TypeInv, CacheInv, Crash
  PROVE  CacheInv'
<1>1. rows' = rows /\ reader' = NoRead /\ NoRead.pc = "idle"
  BY DEF Crash, NoRead
<1>2. CASE Backend = "redis"
  <2>1. /\ cache' = cache
        /\ tainted' = tainted \union {Symbol(c) : c \in {b \in Callers : sync[b].pc = "invalidate"}}
    BY <1>2 DEF Crash
  <2>2. CacheIsCurrent'
    BY <1>1, <2>1 DEF CacheInv, CacheIsCurrent
  <2> QED
    BY <1>1, <2>1, <2>2 DEF CacheInv
<1>3. CASE Backend # "redis"
  <2>1. \A s \in Names : cache'[s] = <<>>
    BY <1>3 DEF Crash
  <2> QED
    BY <1>1, <2>1 DEF CacheInv, CacheIsCurrent
<1> QED
  BY <1>2, <1>3

LEMMA CacheReads ==
  ASSUME TypeInv, CacheInv,
         (\E s \in Names : \E n \in Limits : GetCached(s, n)) \/ ReadRows \/ Answer
  PROVE  CacheInv'
<1>1. UNCHANGED <<cache, rows, sync, tainted>>
  BY DEF GetCached, ReadRows, Answer
<1>2. CacheIsCurrent'
  BY <1>1 DEF CacheInv, CacheIsCurrent, Symbol
<1>3. CASE ReadRows
  <2> DEFINE b == Latest(rows[reader.symbol], reader.limit)
  <2>1. reader' = [reader EXCEPT !.pc = IF Stored(b) = {} THEN "answer" ELSE "fill", !.bars = b]
    BY <1>3 DEF ReadRows
  <2>2. reader \in Reads /\ reader.symbol \in Names /\ reader.limit \in Nat
        /\ rows[reader.symbol] \in Window
    BY DEF TypeInv, Types, Reads
  <2>3. Stored(b) \subseteq Stored(rows[reader.symbol])
    BY <2>2, LatestRows
  <2> HIDE DEF b
  <2>4. reader'.bars = b /\ reader'.symbol = reader.symbol /\ reader'.limit = reader.limit
    BY <2>1, <2>2 DEF Reads
  <2>5. Stored(reader'.bars) \subseteq Stored(rows[reader'.symbol])
        /\ reader'.bars = Latest(rows[reader'.symbol], reader'.limit)
    BY <2>3, <2>4 DEF b
  <2> QED
    BY <1>1, <1>2, <2>5 DEF CacheInv
<1>4. CASE Answer
  <2>1. reader'.pc = "idle"
    BY <1>4 DEF Answer, NoRead
  <2> QED
    BY <1>1, <1>2, <2>1 DEF CacheInv
<1>5. ASSUME NEW s \in Names, NEW n \in Limits, GetCached(s, n) PROVE CacheInv'
  <2>1. reader'.pc \in {"answer", "read"}
    <3>1. \/ \E b : reader' = [NoRead EXCEPT !.pc = "answer", !.symbol = s, !.limit = n, !.bars = b]
          \/ reader' = [NoRead EXCEPT !.pc = "read", !.symbol = s, !.limit = n]
      BY <1>5 DEF GetCached
    <3> QED
      BY <3>1 DEF NoRead
  <2> QED
    BY <1>1, <1>2, <2>1 DEF CacheInv
<1> QED
  BY <1>3, <1>4, <1>5

LEMMA CacheStep ==
  ASSUME TypeInv, ScaleInv, CacheInv, [Next]_vars
  PROVE  CacheInv'
<1>1. ASSUME Tick \/ (\E s \in Names : CorporateAction(s)) \/ UNCHANGED vars PROVE CacheInv'
  <2>1. UNCHANGED <<cache, rows, sync, reader, tainted>>
    BY <1>1 DEF Tick, CorporateAction, vars, state
  <2>2. CacheIsCurrent'
    BY <2>1 DEF CacheInv, CacheIsCurrent, Symbol
  <2> QED
    BY <2>1, <2>2 DEF CacheInv
<1>2. ASSUME NEW s \in Names, Expire(s) PROVE CacheInv'
  <2>1. /\ cache' = [cache EXCEPT ![s] = <<>>] /\ tainted' = tainted \ {s}
        /\ UNCHANGED <<rows, reader, sync>>
    BY <1>2 DEF Expire
  <2> QED
    BY <2>1, CacheForgets
<1>3. CASE Beat \/ PostSync \/ Mark
                \/ \E s \in Names : \E from \in {0, Day(clock)} : PostFetch(s, from)
  <2>1. UNCHANGED <<cache, rows, reader, tainted>>
    BY <1>3 DEF Beat, PostSync, PostFetch, Mark
  <2>2. \E c \in Callers : Moves(c) /\ sync[c].pc # "invalidate" /\ sync'[c].pc # "invalidate"
    BY <1>3, BeatStep, PostSyncStep, PostFetchStep, MarkStep, Callers2
  <2> QED
    BY <2>1, <2>2, CacheMoves
<1>4. ASSUME NEW c \in Callers,
             PlanSymbol(c) \/ Compare(c) \/ \E source \in {"yahoo", "alpha_vantage"} :
                                              Fetch(c, source) \/ Refetch(c, source)
      PROVE  CacheInv'
  <2>1. UNCHANGED <<cache, rows, reader, tainted>>
    BY <1>4 DEF PlanSymbol, Compare, Fetch, Refetch
  <2>2. Moves(c) /\ sync[c].pc # "invalidate" /\ sync'[c].pc # "invalidate"
    BY <1>4, PlanSymbolStep, CompareStep, FetchStep, RefetchStep
  <2> QED
    BY <2>1, <2>2, CacheMoves
<1>5. ASSUME NEW c \in Callers, Invalidate(c) PROVE CacheInv'
  <2>1. /\ sync[c].pc = "invalidate" /\ sync' = [sync EXCEPT ![c].pc = "publish"]
        /\ cache' = [cache EXCEPT ![Symbol(c)] = <<>>] /\ tainted' = tainted \ {Symbol(c)}
        /\ UNCHANGED <<rows, reader>>
    BY <1>5 DEF Invalidate
  <2>2. Passes(c, "invalidate", "publish") /\ Symbol(c) \in Names
    BY <2>1, PassingStep, SymbolIsAName DEF Pcs
  <2>3. \A b \in Callers : \A t \in Names \ {Symbol(c)} :
          sync[b].pc = "invalidate" /\ Symbol(b) = t => sync'[b] = sync[b]
    BY <2>2 DEF Passes, Moves
  <2> QED
    BY <2>1, <2>2, <2>3, CacheForgets
<1>6. ASSUME NEW c \in Callers, Publish(c) \/ SymbolFails(c) PROVE CacheInv'
  <2>1. /\ \E failed \in BOOLEAN : NextSymbol(c, failed)
        /\ sync[c].pc \notin {"idle", "mark"} /\ UNCHANGED <<cache, rows, reader>>
        /\ tainted \subseteq tainted' /\ (sync[c].pc = "invalidate" => Symbol(c) \in tainted')
    BY <1>6 DEF Publish, SymbolFails
  <2>2. Moves(c) /\ sync'[c].pc # "invalidate"
    BY <2>1, NextSymbolStep
  <2> QED
    BY <2>1, <2>2, CacheMoves
<1>7. ASSUME NEW c \in Callers, Run(c) PROVE CacheInv'
  BY <1>4, <1>5, <1>6, <1>7, CacheSave DEF Run
<1> QED
  BY <1>1, <1>2, <1>3, <1>7, CacheFills, CacheCrash, CacheReads DEF Next

\* A window that answers for the cache has as many bars as were asked for, and
\* there were as many.
LEMMA ReadStep ==
  ASSUME TypeInv, CacheInv, [Next]_vars, reader.pc = "idle", reader'.pc = "answer"
  PROVE  Cardinality(Stored(reader'.bars)) =
           Smaller(reader'.limit, Cardinality(Stored(rows[reader'.symbol])))
<1>1. ASSUME reader' = reader \/ reader' = NoRead PROVE FALSE
  BY <1>1 DEF NoRead
<1>2. ASSUME NEW c \in Callers, Run(c) PROVE FALSE
  <2>1. reader' = reader \/ (reader.pc = "fill" /\ reader' = [reader EXCEPT !.overtaken = TRUE])
    BY <1>2 DEF Run, PlanSymbol, Fetch, Compare, Refetch, Save, Invalidate, Publish, SymbolFails
  <2> QED
    BY <1>1, <2>1
<1>3. ASSUME \/ Tick \/ \E s \in Names : CorporateAction(s) \/ Expire(s)
             \/ Beat \/ PostSync \/ Mark \/ Crash
             \/ \E s \in Names : \E from \in {0, Day(clock)} : PostFetch(s, from)
             \/ ReadRows \/ FillCache \/ Answer \/ UNCHANGED vars
      PROVE  FALSE
  <2>1. reader' = reader \/ reader' = NoRead
    BY <1>3 DEF Tick, CorporateAction, Expire, Beat, PostSync, Mark, Crash, PostFetch, ReadRows,
                FillCache, Answer, vars, state
  <2> QED
    BY <1>1, <2>1
<1>4. PICK s \in Names, n \in Limits : GetCached(s, n)
  BY <1>2, <1>3 DEF Next
<1>5. cache[s] # <<>> /\ Cardinality(Stored(cache[s][1])) >= n
  <2> SUFFICES ASSUME ~(cache[s] # <<>> /\ Cardinality(Stored(cache[s][1])) >= n) PROVE FALSE
    OBVIOUS
  <2>1. reader' = [NoRead EXCEPT !.pc = "read", !.symbol = s, !.limit = n]
    BY <1>4 DEF GetCached
  <2> QED
    BY <2>1 DEF NoRead
<1> DEFINE w == cache[s][1]
           b == Latest(w, n)
<1>6. reader' = [NoRead EXCEPT !.pc = "answer", !.symbol = s, !.limit = n, !.bars = b]
  BY <1>4, <1>5 DEF GetCached
<1>7. n \in Nat /\ w \in Window
  BY <1>5, MarketDataAssumption, CachedWindow DEF TypeInv, Types
<1>8. Cardinality(Stored(b)) = Smaller(n, Cardinality(Stored(w)))
  BY <1>7, LatestRows
<1>9. /\ Cardinality(Stored(w)) \in Nat /\ Cardinality(Stored(rows[s])) \in Nat
      /\ IsFiniteSet(Stored(rows[s]))
  BY StoredDays, DaysAreRanked
<1>10. Cardinality(Stored(w)) <= Cardinality(Stored(rows[s]))
  <2>1. Stored(w) \subseteq Stored(rows[s])
    BY <1>5 DEF CacheInv
  <2> QED
    BY <1>9, <2>1, FS_Subset
<1>11. reader'.bars = b /\ reader'.limit = n /\ reader'.symbol = s
  <2> HIDE DEF b
  <2> QED
    BY <1>6 DEF NoRead
<1> QED
  BY <1>5, <1>7, <1>8, <1>9, <1>10, <1>11 DEF Smaller

-----------------------------------------------------------------------------
(* The results                                                             *)

LEMMA InitTypes ==
  ASSUME Init
  PROVE  TypeInv
<1>1. clock \in (2 * StartDay + 1)..(2 * Days + 1) /\ marker \in 0..Days
  BY Constants DEF Init
<1>2. epoch \in [Names -> 1..(MaxActions + 1)]
  BY Constants DEF Init
<1>3. rows \in [Names -> Window]
  <2>1. 1 \in Factor /\ 0 \in Factor
    BY Constants DEF Factor
  <2> QED
    BY <2>1 DEF Init, Window
<1>4. cache \in [Names -> Seq(Window)]
  <2>1. CASE cache \in [Names -> {<<>>}]
    <3>1. <<>> \in Seq(Window)
      OBVIOUS
    <3> QED
      BY <2>1, <3>1
  <2>2. CASE cache \notin [Names -> {<<>>}]
    <3>1. PICK n \in Limits : cache = [s \in Names |-> <<Latest(rows[s], n)>>]
      BY <2>2 DEF Init
    <3>2. ASSUME NEW s \in Names PROVE <<Latest(rows[s], n)>> \in Seq(Window)
      <4>1. n \in Nat /\ rows[s] \in Window
        BY <1>3, MarketDataAssumption
      <4>2. Latest(rows[s], n) \in Window
        BY <4>1, LatestRows
      <4> QED
        BY <4>2, OneWindow
    <3> QED
      BY <3>1, <3>2
  <2> QED
    BY <2>1, <2>2
<1>5. sync \in [Callers -> Runs] /\ \A c \in Callers : sync[c] = Idle
  BY IdleIsARun DEF Init
<1>6. reader \in Reads
  BY NoReadIsARead DEF Init
<1>7. RunOK(Idle, clock) /\ BeatOK(Idle, clock)
  BY DEF RunOK, BeatOK, Idle, Busy
<1>8. RunInv
  BY <1>5, <1>7, Callers2 DEF RunInv
<1> QED
  BY <1>1, <1>2, <1>3, <1>4, <1>5, <1>6, <1>8 DEF TypeInv, Types

LEMMA InitHolds ==
  ASSUME Init
  PROVE  IInv
<1>1. TypeInv
  BY InitTypes
<1>2. \A c \in Callers : sync[c] = Idle
  BY DEF Init
<1>3. Idle.pc = "idle"
  BY DEF Idle
<1>4. \A s \in Names : \A d \in 1..Days :
        rows[s][d] = IF d \in Sessions /\ FirstStored[s] <= d /\ d < StartDay THEN 1 ELSE 0
  BY DEF Init
<1>5. \A s \in Names : \A d : d \in Stored(rows[s]) <=>
        d \in Sessions /\ FirstStored[s] <= d /\ d < StartDay
  BY <1>4 DEF Stored, Sessions
<1>6. \A s \in Names : epoch[s] = 1 /\ \A d \in Stored(rows[s]) : rows[s][d] = 1
  BY <1>4, <1>5 DEF Init, Stored
<1>7. ScaleInv
  <2>1. RowsInv
    BY <1>5, <1>6 DEF RowsInv, Null
  <2>2. BarsInv /\ PlansInv
    BY <1>2, <1>3 DEF BarsInv, PlansInv, OverlapOK, WholeOK, ComparedOK
  <2>3. MixedScaleIsSeen
    BY <1>6 DEF MixedScaleIsSeen
  <2> QED
    BY <2>1, <2>2, <2>3 DEF ScaleInv
<1>8. StoreInv
  <2>1. \A c \in Callers : ReachesBack(sync[c], rows)
    BY <1>2, <1>3 DEF ReachesBack
  <2>2. CoveredOK(sync["beat"], rows, holed)
    BY <1>2, <1>3, Callers2 DEF CoveredOK
  <2>3. Contiguous
    <3> SUFFICES ASSUME NEW s \in Names, NEW a \in Stored(rows[s]), NEW b \in Stored(rows[s]),
                        NEW d \in Sessions, a <= d, d <= b
                 PROVE  d \in Stored(rows[s])
      BY DEF Contiguous
    <3>1. a \in Int /\ b \in Int /\ d \in Int /\ StartDay \in Int
      BY Constants DEF Stored, Sessions
    <3>2. FirstStored[s] \in Int
      BY MarketDataAssumption
    <3>3. FirstStored[s] <= a /\ b < StartDay
      BY <1>5
    <3>4. FirstStored[s] <= d /\ d < StartDay
      BY <3>1, <3>2, <3>3
    <3> QED
      BY <1>5, <3>4
  <2>4. MarkedDayIsStored
    <3>1. marker = 0 /\ \A d \in Sessions : ~(d <= 0)
      BY Constants DEF Init, Sessions
    <3> QED
      BY <3>1 DEF MarkedDayIsStored
  <2> QED
    BY <2>1, <2>2, <2>3, <2>4 DEF StoreInv
<1>9. AnnounceInv
  BY DEF Init, AnnounceInv
<1>10. CacheInv
  <2>1. ASSUME NEW s \in Names, cache[s] # <<>>
        PROVE  Current(s) /\ Stored(cache[s][1]) \subseteq Stored(rows[s])
    <3>1. cache \notin [Names -> {<<>>}]
      BY <2>1
    <3>2. PICK n \in Limits : cache = [t \in Names |-> <<Latest(rows[t], n)>>]
      BY <3>1 DEF Init
    <3>3. cache[s][1] = Latest(rows[s], n)
      BY <3>2
    <3>4. n \in Nat /\ rows[s] \in Window
      BY <1>1, MarketDataAssumption DEF TypeInv, Types
    <3> QED
      BY <3>3, <3>4, LatestRows DEF Current
  <2>2. reader.pc # "fill"
    BY DEF Init, NoRead
  <2> QED
    BY <2>1, <2>2 DEF CacheInv, CacheIsCurrent, Current
<1> QED
  BY <1>1, <1>7, <1>8, <1>9, <1>10 DEF IInv

LEMMA InvIsKept ==
  ASSUME IInv, [Next]_vars
  PROVE  IInv'
<1>1. TypeInv /\ ScaleInv /\ (StoredAtStart => StoreInv) /\ AnnounceInv /\ CacheInv
  BY DEF IInv
<1>2. StoredAtStart' = StoredAtStart
  BY DEF StoredAtStart
<1> QED
  BY <1>1, <1>2, TypeStep, ScaleStep, StoreStep, AnnounceStep, CacheStep DEF IInv

LEMMA InvAlways == Spec => []IInv
<1>1. Init => IInv
  BY InitHolds
<1>2. IInv /\ [Next]_vars => IInv'
  BY InvIsKept
<1> QED
  BY <1>1, <1>2, PTL DEF Spec

LEMMA InvGivesTypes ==
  ASSUME IInv
  PROVE  TypeOK
<1>1. Types
  BY DEF IInv, TypeInv
<1>2. clock \in 2..(2 * Days + 1)
  BY <1>1, Constants DEF Types
<1>3. epoch \in [Names -> 1..(MaxActions + 1)] /\ rows \in [Names -> [1..Days -> -1..(MaxActions + 1)]]
  BY <1>1 DEF Types, Window, Factor
<1>4. \A s \in Names : cache[s] = <<>> \/ cache[s][1] \in [1..Days -> -1..(MaxActions + 1)]
  <2> SUFFICES ASSUME NEW s \in Names, cache[s] # <<>> PROVE cache[s][1] \in Window
    BY DEF Window, Factor
  <2>1. cache[s] \in Seq(Window)
    BY <1>1 DEF Types
  <2> QED
    BY <2>1, CachedWindow
<1>5. marker \in 0..Days /\ \A c \in Callers : sync[c].pc \in Pcs
  BY <1>1, RunFields DEF Types
<1>6. reader.pc \in {"idle", "read", "fill", "answer"}
  BY <1>1 DEF Types, Reads
<1> QED
  BY <1>2, <1>3, <1>4, <1>5, <1>6 DEF TypeOK, Pcs

\* The rows of a symbol are contiguous because any two of them have every
\* session between them.
LEMMA InvGivesNoHole ==
  ASSUME Contiguous
  PROVE  NoHole
<1> SUFFICES ASSUME NEW s \in Names \ holed, NEW d \in Sessions, Stored(rows[s]) # {},
                    Oldest(Stored(rows[s])) <= d, d <= Newest(Stored(rows[s]))
             PROVE  rows[s][d] # 0
  BY DEF NoHole
<1>1. Oldest(Stored(rows[s])) \in Stored(rows[s]) /\ Newest(Stored(rows[s])) \in Stored(rows[s])
  BY StoredDays, NewestAndOldest
<1>2. d \in Stored(rows[s])
  BY <1>1 DEF Contiguous
<1> QED
  BY <1>2 DEF Stored

\* Of every symbol that had a row at the start: a session the marker covers is
\* stored, no gap is left between its rows, and what was stored and not
\* announced is on its way or was cut by a failure, whatever the heartbeat, the
\* requests, the failures and the restarts do (incremental.py:55-91,
\* service.py:78-184, main.py:160-199).
THEOREM StoreSound ==
  ASSUME StoredAtStart
  PROVE  Spec => []StoreIsSound
<1>1. IInv => StoreIsSound
  <2> SUFFICES ASSUME IInv PROVE StoreIsSound
    OBVIOUS
  <2>1. TypeOK
    BY InvGivesTypes
  <2>2. StoreInv /\ AnnounceInv
    BY DEF IInv
  <2>3. MarkedDayIsStored /\ NoHole
    BY <2>2, InvGivesNoHole DEF StoreInv
  <2>4. StoredIsAnnounced
    BY <2>2 DEF AnnounceInv, ToldOf, StoredIsAnnounced, Symbol
  <2> QED
    BY <2>1, <2>3, <2>4 DEF StoreIsSound
<1> QED
  BY <1>1, InvAlways, PTL

\* A history with rows on two scales always shows the old one to the overlap the
\* next sync compares, but for the symbols a save blinded: the repair is planned
\* from the oldest row and the comparison from the newest, and both are still
\* right when the save comes (incremental.py:74-134, service.py:106-119).
THEOREM ScaleSeenAlways == Spec => []MixedScaleIsSeen
<1>1. IInv => MixedScaleIsSeen
  BY DEF IInv, ScaleInv
<1> QED
  BY <1>1, InvAlways, PTL

\* A cached window is the table's, but between a commit and its invalidation or
\* after a read that a commit overtook; and a reader that is answered from the
\* cache gets as many bars as it asked for (service.py:33-60).
THEOREM CacheIsTrue == Spec => CacheAnswersTruly
<1> DEFINE Fit == reader.pc = "idle" /\ reader'.pc = "answer"
                    => Cardinality(Stored(reader'.bars)) =
                         Smaller(reader'.limit, Cardinality(Stored(rows[reader'.symbol])))
<1>1. IInv => CacheIsCurrent
  BY DEF IInv, CacheInv
<1>2. IInv /\ [Next]_vars => [Fit]_vars
  BY ReadStep DEF IInv
<1>3. Spec => []CacheIsCurrent
  BY <1>1, InvAlways, PTL
<1>4. Spec => [][Fit]_vars
  BY <1>2, InvAlways, PTL DEF Spec
<1> QED
  BY <1>3, <1>4 DEF CacheAnswersTruly, ReadsAreComplete
=============================================================================
