---------------------------- MODULE ResearchProofs ----------------------------
(***************************************************************************)
(* Theorems about the instruments of research: the books predictions are   *)
(* judged by, the gate and the revalidation, what a model is fitted,       *)
(* validated and scored on, and how often a session counts in it.          *)
(***************************************************************************)
EXTENDS MCResearch, FiniteSetTheorems, SequenceTheorems,
        WellFoundedInduction, TLAPS

-----------------------------------------------------------------------------
(* Numbers and sets of them                                                *)

\* Some number of any set of naturals is its least: what an induction rests on.
LEMMA LeastNumber ==
  ASSUME NEW T \in SUBSET Nat, T # {}
  PROVE  \E n \in T : \A m \in T : n <= m
<1> DEFINE R == OpToRel(<, Nat)
<1>1. IsWellFoundedOn(R, Nat)
  BY NatLessThanWellFounded
<1>2. PICK n \in T : \A m \in T : ~ (<<m, n>> \in R)
  <2> HIDE DEF R
  <2> QED
    BY <1>1, WFMin
<1>3. \A m \in T : ~(m < n)
  BY <1>2 DEF OpToRel
<1> QED
  BY <1>3


HasGreatest(P) == \E m \in P : \A n \in P : m >= n

\* By the least size of a set without one.
LEMMA FiniteSetsHaveGreatest ==
  ASSUME NEW P \in SUBSET Int, IsFiniteSet(P), P # {}
  PROVE  HasGreatest(P)
<1> DEFINE Fails == {n \in Nat : \E Q \in SUBSET P : Q # {} /\ Cardinality(Q) = n /\ ~HasGreatest(Q)}
<1>1. \A Q \in SUBSET P : IsFiniteSet(Q) /\ Cardinality(Q) \in Nat
  BY FS_Subset, FS_CardinalityType
<1>2. Fails = {}
  <2> SUFFICES ASSUME Fails # {} PROVE FALSE
    OBVIOUS
  <2>1. PICK n \in Fails : \A k \in Fails : n <= k
    BY LeastNumber
  <2>2. PICK Q \in SUBSET P : Q # {} /\ Cardinality(Q) = n /\ ~HasGreatest(Q)
    BY <2>1
  <2>3. PICK x \in Q : TRUE
    BY <2>2
  <2> DEFINE R == Q \ {x}
  <2>4. R \in SUBSET P /\ Cardinality(R) = n - 1 /\ Cardinality(R) \in Nat
    BY <1>1, <2>2, <2>3, FS_RemoveElement
  <2>5. R = {} \/ HasGreatest(R)
    BY <2>1, <2>4
  <2>6. CASE R = {}
    BY <2>2, <2>3, <2>6 DEF HasGreatest
  <2>7. CASE HasGreatest(R)
    <3>1. PICK m \in R : \A k \in R : m >= k
      BY <2>7 DEF HasGreatest
    <3>2. m \in Int /\ x \in Int /\ R \subseteq Int
      OBVIOUS
    <3>3. CASE m >= x
      <4>1. \A k \in Q : m >= k
        BY <3>1, <3>3
      <4> QED
        BY <4>1, <2>2 DEF HasGreatest
    <3>4. CASE ~(m >= x)
      <4>1. \A k \in R : x >= k
        BY <3>1, <3>2, <3>4
      <4>2. \A k \in Q : x >= k
        BY <4>1, <3>2
      <4> QED
        BY <4>2, <2>2, <2>3 DEF HasGreatest
    <3> QED
      BY <3>3, <3>4
  <2> QED
    BY <2>5, <2>6, <2>7
<1>3. Cardinality(P) \in Nat /\ Cardinality(P) \notin Fails
  BY <1>1, <1>2
<1> QED
  BY <1>3

LEMMA MaxIsGreatest ==
  ASSUME NEW P \in SUBSET Int, IsFiniteSet(P), P # {}
  PROVE  Max(P) \in P /\ \A x \in P : x <= Max(P)
<1>1. \E m \in P : \A n \in P : m >= n
  BY FiniteSetsHaveGreatest DEF HasGreatest
<1>2. Max(P) \in P /\ \A n \in P : Max(P) >= n
  BY <1>1, Zenon DEF Max
<1> QED
  BY <1>2

LEMMA MinIsLeast ==
  ASSUME NEW P \in SUBSET Nat, P # {}
  PROVE  Min(P) \in P /\ \A x \in P : Min(P) <= x
<1>1. \E m \in P : \A n \in P : m <= n
  BY LeastNumber
<1> QED
  BY <1>1, Zenon DEF Min

LEMMA QuotientsGrow ==
  ASSUME NEW a \in Int, NEW b \in Int, NEW k \in Nat \ {0}, a <= b
  PROVE  (a \div k) \in Int /\ (a \div k) <= (b \div k)
<1> DEFINE q == a \div k
           p == b \div k
<1>1. q \in Int /\ k * q <= a /\ a < k * q + k
  OBVIOUS
<1>2. p \in Int /\ k * p <= b /\ b < k * p + k
  OBVIOUS
<1> HIDE DEF q, p
<1>3. q <= p
  <2> SUFFICES ASSUME q > p PROVE FALSE
    BY <1>1, <1>2
  <2>1. PICK m \in Nat : q = p + 1 + m
    <3>1. q - (p + 1) \in Nat
      BY <1>1, <1>2
    <3> QED
      BY <3>1, <1>1, <1>2
  <2>2. k * q = k * p + k + k * m /\ k * m \in Nat
    BY <2>1, <1>2
  <2> QED
    BY <1>1, <1>2, <2>2
<1> QED
  BY <1>1, <1>3 DEF q, p

LEMMA RangeIsFinite ==
  ASSUME NEW S, NEW seq \in Seq(S)
  PROVE  IsFiniteSet(Range(seq))
<1>1. Len(seq) \in Nat /\ seq \in [1..Len(seq) -> S]
  BY LenProperties
<1>2. IsFiniteSet(1..Len(seq))
  BY <1>1, FS_Interval
<1>3. seq \in Surjection(1..Len(seq), Range(seq))
  BY <1>1 DEF Surjection, Range
<1> QED
  BY <1>2, <1>3, FS_Surjection

LEMMA MaxOfTwo ==
  ASSUME NEW a \in Int, NEW b \in Int
  PROVE  Max({a, b}) = IF a >= b THEN a ELSE b
<1>1. \E x \in {a, b} : \A y \in {a, b} : x >= y
  OBVIOUS
<1>2. Max({a, b}) \in {a, b} /\ \A y \in {a, b} : Max({a, b}) >= y
  BY <1>1, Zenon DEF Max
<1> QED
  BY <1>2

LEMMA MinOfTwo ==
  ASSUME NEW a \in Int, NEW b \in Int
  PROVE  Min({a, b}) = IF a <= b THEN a ELSE b
<1>1. \E x \in {a, b} : \A y \in {a, b} : x <= y
  OBVIOUS
<1>2. Min({a, b}) \in {a, b} /\ \A y \in {a, b} : Min({a, b}) <= y
  BY <1>1, Zenon DEF Min
<1> QED
  BY <1>2

\* The sum of the values of f on s, taken out one by one.
Some(s) == CHOOSE x \in s : TRUE
SumUpTo(f, s, g) == IF s = {} THEN 0 ELSE f[Some(s)] + g[s \ {Some(s)}]
AddsUp(f, S, g) == g = [s \in SUBSET S |-> SumUpTo(f, s, g)]

LEMMA SomeLess ==
  ASSUME NEW s, IsFiniteSet(s), s # {}
  PROVE  /\ Some(s) \in s
         /\ IsFiniteSet(s \ {Some(s)})
         /\ Cardinality(s) \in Nat /\ Cardinality(s) > 0
         /\ Cardinality(s \ {Some(s)}) = Cardinality(s) - 1
<1>1. Some(s) \in s
  BY DEF Some
<1>2. Cardinality(s) \in Nat /\ Cardinality(s) # 0
  BY FS_CardinalityType, FS_EmptySet
<1> QED
  BY <1>1, <1>2, FS_RemoveElement

LEMMA SumIsDefined ==
  ASSUME NEW S, IsFiniteSet(S), NEW f
  PROVE  \E g : AddsUp(f, S, g)
<1> DEFINE Adds(n, g) == \A s \in SUBSET S : Cardinality(s) <= n => g[s] = SumUpTo(f, s, g)
           Fails == {n \in Nat : ~ \E g : Adds(n, g)}
<1>1. \A s \in SUBSET S : IsFiniteSet(s) /\ Cardinality(s) \in Nat
  BY FS_Subset, FS_CardinalityType
<1>2. Fails = {}
  <2> SUFFICES ASSUME Fails # {} PROVE FALSE
    OBVIOUS
  <2>1. PICK n \in Fails : \A m \in Fails : n <= m
    BY LeastNumber
  <2>2. CASE n = 0
    <3> DEFINE g == [s \in SUBSET S |-> 0]
    <3>1. \A s \in SUBSET S : Cardinality(s) <= 0 => s = {}
      BY <1>1, FS_EmptySet
    <3>2. Adds(0, g)
      BY <3>1 DEF SumUpTo
    <3> QED
      BY <2>1, <2>2, <3>2
  <2>3. CASE n > 0
    <3>1. n - 1 \in Nat /\ n - 1 \notin Fails
      BY <2>1, <2>3
    <3>2. PICK g : Adds(n - 1, g)
      BY <3>1
    <3> DEFINE h == [s \in SUBSET S |-> IF Cardinality(s) <= n - 1 THEN g[s] ELSE SumUpTo(f, s, g)]
    <3>3. ASSUME NEW s \in SUBSET S, Cardinality(s) <= n
          PROVE  h[s] = SumUpTo(f, s, h)
      <4>1. CASE s = {}
        <5>1. Cardinality(s) = 0
          BY <4>1, FS_EmptySet
        <5> QED
          BY <4>1, <5>1, <3>1, <3>2 DEF SumUpTo
      <4>2. CASE s # {}
        <5> DEFINE r == s \ {Some(s)}
        <5>1. /\ r \in SUBSET S /\ Cardinality(s) \in Nat /\ Cardinality(r) = Cardinality(s) - 1
          BY <4>2, <1>1, SomeLess
        <5>2. Cardinality(r) <= n - 1 /\ h[r] = g[r]
          BY <5>1, <3>1, <3>3
        <5>3. h[s] = SumUpTo(f, s, g)
          BY <3>2
        <5> QED
          BY <5>2, <5>3 DEF SumUpTo
      <4> QED
        BY <4>1, <4>2
    <3> HIDE DEF h
    <3> QED
      BY <2>1, <3>3
  <2> QED
    BY <2>1, <2>2, <2>3
<1>3. Cardinality(S) \in Nat /\ \A s \in SUBSET S : Cardinality(s) <= Cardinality(S)
  BY FS_CardinalityType, FS_Subset
<1>4. PICK g : Adds(Cardinality(S), g)
  BY <1>2, <1>3
<1> DEFINE h == [s \in SUBSET S |-> g[s]]
<1>5. \A s \in SUBSET S : g[s] = SumUpTo(f, s, h)
  <2> TAKE s \in SUBSET S
  <2>1. g[s] = SumUpTo(f, s, g)
    BY <1>3, <1>4
  <2>2. s # {} => h[s \ {Some(s)}] = g[s \ {Some(s)}]
    OBVIOUS
  <2> QED
    BY <2>1, <2>2 DEF SumUpTo
<1>6. AddsUp(f, S, h)
  BY <1>5 DEF AddsUp
<1> QED
  BY <1>6

\* A set closed under addition holds every sum of its members.
LEMMA SumStays ==
  ASSUME NEW S, IsFiniteSet(S), NEW V \in SUBSET Int, 0 \in V,
         \A v, w \in V : v + w \in V,
         NEW f \in [S -> V]
  PROVE  SumFunction(f) \in V
<1> DEFINE g == CHOOSE g : AddsUp(f, S, g)
<1>1. SumFunction(f) = g[S]
  <2>1. DOMAIN f = S
    OBVIOUS
  <2>2. SumFunction(f) = (CHOOSE iter : iter =
           [s \in SUBSET S |->
              IF s = {} THEN 0 ELSE f[CHOOSE x \in s : TRUE] + iter[s \ {CHOOSE x \in s : TRUE}]])[S]
    BY <2>1, Zenon DEF SumFunction, SumFunctionOnSet, FoldFunctionOnSet, MapThenFoldSet
  <2> QED
    BY <2>2, Zenon DEF AddsUp, SumUpTo, Some
<1>2. g = [s \in SUBSET S |-> SumUpTo(f, s, g)]
  <2>1. \E h : AddsUp(f, S, h)
    BY SumIsDefined
  <2>2. AddsUp(f, S, g)
    BY <2>1, Zenon
  <2> QED
    BY <2>2 DEF AddsUp
<1> HIDE DEF g
<1> DEFINE Bad == {n \in Nat : \E s \in SUBSET S : Cardinality(s) = n /\ g[s] \notin V}
<1>3. Bad = {}
  <2> SUFFICES ASSUME Bad # {} PROVE FALSE
    OBVIOUS
  <2>1. PICK n \in Bad : \A m \in Bad : n <= m
    BY LeastNumber
  <2>2. PICK s \in SUBSET S : Cardinality(s) = n /\ g[s] \notin V
    BY <2>1
  <2>3. IsFiniteSet(s)
    BY FS_Subset
  <2>4. g[s] = SumUpTo(f, s, g)
    BY <1>2
  <2>5. s # {}
    BY <2>2, <2>4 DEF SumUpTo
  <2> DEFINE r == s \ {Some(s)}
  <2>6. /\ Some(s) \in S /\ r \in SUBSET S /\ n > 0 /\ n \in Nat /\ Cardinality(r) = n - 1
    BY <2>2, <2>3, <2>5, SomeLess
  <2>7. g[r] \in V
    BY <2>1, <2>6
  <2>8. g[s] = f[Some(s)] + g[r] /\ f[Some(s)] \in V
    BY <2>4, <2>5, <2>6 DEF SumUpTo
  <2> QED
    BY <2>2, <2>7, <2>8
<1>4. g[S] \in V
  <2>1. Cardinality(S) \in Nat /\ S \in SUBSET S
    BY FS_CardinalityType
  <2> QED
    BY <1>3, <2>1
<1> QED
  BY <1>1, <1>4

-----------------------------------------------------------------------------
(* The books                                                               *)

Turns == 0..(MaxTranches - 1)
BookType == [day : Nat, sleeves : [Turns -> SUBSET BookNames], charged : [BookNames -> Nat]]

\* Every selection has a name, and none that is not ranked.
LEMMA SelectionIsOfNames ==
  ASSUME NEW order \in Orders
  PROVE  TopQuantile(order) \in (SUBSET BookNames) \ {{}}
<1>1. PICK n \in 1..Cardinality(BookNames) : order \in [1..n -> BookNames]
  BY DEF Orders
<1>2. Cardinality(BookNames) \in Nat /\ n \in Nat \ {0}
  BY FS_CardinalityType, BooksAssumption
<1>3. Len(order) = n /\ order \in Seq(BookNames)
  BY <1>1, <1>2
<1> DEFINE k == (QuantilePct * Len(order) + 99) \div 100
           m == IF k < 1 THEN 1 ELSE k
<1>4. QuantilePct \in 1..100
  BY BooksAssumption
<1>5. QuantilePct * n <= 100 * n /\ QuantilePct * n \in Nat
  BY <1>2, <1>4, SMT
<1>6. k \in Nat /\ k <= n
  BY <1>2, <1>3, <1>5
<1>7. m \in 1..n
  BY <1>2, <1>6
<1>8. TopQuantile(order) = Range(SubSeq(order, 1, m))
  BY DEF TopQuantile
<1> HIDE DEF m
<1>9. \A i \in 1..m : order[i] \in BookNames
  BY <1>1, <1>2, <1>7
<1>10. /\ SubSeq(order, 1, m) \in Seq(BookNames) /\ Len(SubSeq(order, 1, m)) = m
       /\ \A i \in 1..(m - 1 + 1) : SubSeq(order, 1, m)[i] = order[1 + i - 1]
  BY <1>7, <1>9, SubSeqProperties
<1>11. Range(SubSeq(order, 1, m)) \in SUBSET BookNames
  BY <1>10, RangeOfSeq
<1>12. order[1] \in Range(SubSeq(order, 1, m))
  <2>1. Range(SubSeq(order, 1, m)) = {SubSeq(order, 1, m)[i] : i \in 1..m}
    BY <1>10, RangeEquality
  <2>2. 1 \in 1..m /\ SubSeq(order, 1, m)[1] = order[1]
    BY <1>7, <1>10
  <2> QED
    BY <2>1, <2>2
<1> QED
  BY <1>8, <1>11, <1>12

LEMMA ReversedIsAnOrder ==
  ASSUME NEW order \in Orders
  PROVE  Reverse(order) \in Orders /\ Len(Reverse(order)) = Len(order)
<1>1. PICK n \in 1..Cardinality(BookNames) : order \in [1..n -> BookNames] /\ IsInjective(order)
  BY DEF Orders
<1>2. Cardinality(BookNames) \in Nat /\ n \in Nat \ {0}
  BY FS_CardinalityType, BooksAssumption
<1>3. Len(order) = n
  BY <1>1, <1>2
<1>4. Reverse(order) = [i \in 1..n |-> order[n - i + 1]]
  BY <1>3 DEF Reverse
<1>5. \A i \in 1..n : n - i + 1 \in 1..n
  BY <1>2
<1>6. Reverse(order) \in [1..n -> BookNames]
  BY <1>1, <1>4, <1>5
<1>7. IsInjective(Reverse(order))
  <2>1. \A i, j \in 1..n : order[n - i + 1] = order[n - j + 1] => n - i + 1 = n - j + 1
    BY <1>1, <1>5 DEF IsInjective
  <2>2. \A i, j \in 1..n : order[n - i + 1] = order[n - j + 1] => i = j
    BY <1>2, <2>1
  <2> QED
    BY <1>4, <2>2 DEF IsInjective
<1>8. Len(Reverse(order)) = n
  BY <1>2, <1>4
<1> QED
  BY <1>1, <1>3, <1>6, <1>7, <1>8 DEF Orders

\* The tranches whose sleeve has the name s, and what is owed for them.
SleevesWith(b, s) == {i \in DOMAIN b.sleeves : s \in b.sleeves[i]}
Paid(b) == \A s \in BookNames : b.charged[s] >= CostOf(s) * Cardinality(SleevesWith(b, s))

LEMMA CostIsPositive ==
  ASSUME NEW s \in BookNames, table \in CostTables
  PROVE  CostOf(s) \in Nat \ {0}
  BY BooksAssumption DEF CostOf

LEMMA TurnIsATurn ==
  ASSUME NEW d \in Nat, tranches \in 1..MaxTranches
  PROVE  d % tranches \in Turns /\ d % tranches \in 0..(tranches - 1)
<1>1. tranches \in Nat \ {0} /\ MaxTranches \in Nat /\ tranches <= MaxTranches
  BY BooksAssumption
<1>2. d % tranches \in 0..(tranches - 1)
  BY <1>1
<1> QED
  BY <1>1, <1>2 DEF Turns

\* What one session does to a book: one sleeve is replaced, what is new in it is
\* charged, and the book stays paid for.
LEMMA SessionIsPaid ==
  ASSUME NEW b \in BookType, NEW order \in Orders,
         tranches \in 1..MaxTranches, table \in CostTables
  PROVE  /\ TrancheHoldings(b, order) \in BookType
         /\ Paid(b) => Paid(TrancheHoldings(b, order))
<1> DEFINE active == b.day % tranches
           refreshed == TopQuantile(order)
           c == TrancheHoldings(b, order)
           sleeves == [b.sleeves EXCEPT ![active] = refreshed]
           entered == refreshed \ b.sleeves[active]
<1>0. /\ b.day \in Nat /\ b.sleeves \in [Turns -> SUBSET BookNames] /\ b.charged \in [BookNames -> Nat]
  BY DEF BookType
<1>1. active \in Turns /\ refreshed \in SUBSET BookNames
  BY <1>0, TurnIsATurn, SelectionIsOfNames
<1>2. \A s \in BookNames : CostOf(s) \in Nat \ {0}
  BY CostIsPositive
<1>3. c = [day |-> b.day + 1, sleeves |-> sleeves, charged |-> SessionCost(b.charged, entered)]
  BY DEF TrancheHoldings
<1> HIDE DEF active, refreshed, c
<1>4. sleeves \in [Turns -> SUBSET BookNames]
  BY <1>0, <1>1
<1>5. /\ SessionCost(b.charged, entered) \in [BookNames -> Nat]
      /\ \A s \in BookNames : SessionCost(b.charged, entered)[s] =
                                b.charged[s] + IF s \in entered THEN CostOf(s) ELSE 0
  BY <1>0, <1>2 DEF SessionCost
<1>6. c \in BookType
  <2> HIDE DEF sleeves, entered
  <2> QED
    BY <1>0, <1>3, <1>4, <1>5 DEF BookType
<1>7. ASSUME Paid(b), NEW s \in BookNames
      PROVE  c.charged[s] >= CostOf(s) * Cardinality(SleevesWith(c, s))
  <2> DEFINE A == SleevesWith(b, s)
             B == SleevesWith(c, s)
  <2>1. A = {i \in Turns : s \in b.sleeves[i]} /\ B = {i \in Turns : s \in sleeves[i]}
    BY <1>0, <1>3, <1>4 DEF SleevesWith
  <2>2. IsFiniteSet(Turns)
    BY FS_Interval, BooksAssumption DEF Turns
  <2>3. IsFiniteSet(A) /\ Cardinality(A) \in Nat
    BY <2>1, <2>2, FS_Subset, FS_CardinalityType
  <2>4. b.charged[s] >= CostOf(s) * Cardinality(A)
    BY <1>7 DEF Paid
  <2>5. /\ CostOf(s) \in Nat \ {0} /\ b.charged[s] \in Nat
        /\ c.charged[s] = b.charged[s] + IF s \in entered THEN CostOf(s) ELSE 0
    BY <1>0, <1>2, <1>3, <1>5
  <2>6. CASE s \in refreshed
    <3>1. B = A \union {active}
      BY <1>0, <1>1, <2>1, <2>6
    <3>2. active \in A <=> s \in b.sleeves[active]
      BY <1>1, <2>1
    <3> HIDE DEF A, B
    <3>3. CASE active \in A
      <4>1. B = A
        BY <3>1, <3>3
      <4> QED
        BY <2>4, <2>5, <3>2, <3>3, <4>1 DEF A, B
    <3>4. CASE active \notin A
      <4>1. Cardinality(B) = Cardinality(A) + 1
        BY <2>3, <3>1, <3>4, FS_AddElement
      <4>2. c.charged[s] = b.charged[s] + CostOf(s)
        BY <2>5, <2>6, <3>2, <3>4
      <4>3. CostOf(s) * (Cardinality(A) + 1) = CostOf(s) * Cardinality(A) + CostOf(s)
        BY <2>3, <2>5
      <4> QED
        BY <2>3, <2>4, <2>5, <4>1, <4>2, <4>3 DEF A, B
    <3> QED
      BY <3>3, <3>4
  <2>7. CASE s \notin refreshed
    <3>1. B = A \ {active}
      BY <1>0, <1>1, <2>1, <2>7
    <3> HIDE DEF A, B
    <3>2. Cardinality(B) \in Nat /\ Cardinality(B) <= Cardinality(A)
      BY <2>3, <3>1, FS_Subset, FS_CardinalityType
    <3>3. PICK x \in Nat : x = Cardinality(A)
      BY <2>3
    <3>4. PICK y \in Nat : y = Cardinality(B)
      BY <3>2
    <3>5. PICK k \in Nat : k = CostOf(s)
      BY <2>5
    <3>6. k * y <= k * x
      BY <3>2, <3>3, <3>4
    <3>7. c.charged[s] = b.charged[s]
      BY <2>5, <2>7
    <3>8. b.charged[s] >= k * x
      BY <2>4, <3>3, <3>5 DEF A
    <3> QED
      BY <2>5, <3>4, <3>5, <3>6, <3>7, <3>8 DEF B
  <2> QED
    BY <2>6, <2>7
<1>8. Paid(b) => Paid(c)
  BY <1>7 DEF Paid
<1> QED
  BY <1>6, <1>8 DEF c

\* Two days less than the tranches apart refresh different sleeves; days that many
\* apart refresh the same.
LEMMA TurnsComeRound ==
  ASSUME NEW d \in Nat, NEW n \in Nat, NEW k \in Nat \ {0}, d < n
  PROVE  /\ n - d < k => d % k # n % k
         /\ n - d = k => d % k = n % k
<1> DEFINE q == d \div k
           r == d % k
           p == n \div k
           u == n % k
<1>1. q \in Nat /\ r \in 0..(k - 1) /\ d = k * q + r
  OBVIOUS
<1>2. p \in Nat /\ u \in 0..(k - 1) /\ n = k * p + u
  OBVIOUS
<1> HIDE DEF q, r, p, u
<1>3. ASSUME r = u
      PROVE  n - d >= k
  <2>1. n - d = k * p - k * q
    BY <1>1, <1>2, <1>3
  <2>2. k * p - k * q = k * (p - q)
    BY <1>1, <1>2
  <2>3. p - q >= 1
    <3> SUFFICES ASSUME p <= q PROVE FALSE
      BY <1>1, <1>2
    <3>1. k * p <= k * q
      BY <1>1, <1>2
    <3> QED
      BY <2>1, <3>1, <1>1, <1>2
  <2>4. PICK m \in Nat : m = p - q - 1
    BY <2>3, <1>1, <1>2
  <2>5. k * (p - q) = k * m + k /\ k * m \in Nat
    BY <2>4, <1>1, <1>2
  <2> QED
    BY <2>1, <2>2, <2>5
<1>4. ASSUME n - d = k
      PROVE  r = u
  <2>1. k * p + u = k * (q + 1) + r
    BY <1>1, <1>2, <1>4
  <2>2. CASE p > q + 1
    <3>1. PICK m \in Nat : p = q + 2 + m
      <4>1. p - (q + 2) \in Nat
        BY <1>1, <1>2, <2>2
      <4> QED
        BY <4>1, <1>1, <1>2
    <3>2. k * p = k * (q + 1) + k + k * m /\ k * m \in Nat /\ k * (q + 1) \in Nat
      BY <1>1, <3>1
    <3> QED
      BY <2>1, <3>2, <1>1, <1>2
  <2>3. CASE p < q + 1
    <3>1. PICK m \in Nat : q = p + m
      <4>1. q - p \in Nat
        BY <1>1, <1>2, <2>3
      <4> QED
        BY <4>1, <1>1, <1>2
    <3>2. k * (q + 1) = k * p + k + k * m /\ k * m \in Nat /\ k * p \in Nat
      BY <1>1, <1>2, <3>1
    <3> QED
      BY <2>1, <3>2, <1>1, <1>2
  <2>4. CASE p = q + 1
    BY <2>1, <2>4, <1>1, <1>2
  <2> QED
    BY <2>2, <2>3, <2>4, <1>1, <1>2
<1> QED
  BY <1>3, <1>4 DEF r, u

\* Of the last sessions each is in its sleeve, and no other sleeve is filled.
Selections == (SUBSET BookNames) \ {{}}
FirstHeld == gateBook.day - Len(picks)
HeldInv ==
  /\ picks \in Seq(Selections)
  /\ Len(picks) <= tranches /\ Len(picks) <= gateBook.day
  /\ Len(picks) < tranches => Len(picks) = gateBook.day
  /\ \A d \in FirstHeld..(gateBook.day - 1) :
       gateBook.sleeves[d % tranches] = picks[d - FirstHeld + 1]
  /\ \A i \in Turns : gateBook.sleeves[i] # {} =>
       \E d \in FirstHeld..(gateBook.day - 1) : i = d % tranches

BooksInv ==
  /\ tranches \in 1..MaxTranches /\ table \in CostTables /\ narrow \in BOOLEAN
  /\ gateBook \in BookType /\ relativeBook \in BookType /\ shortBook \in BookType
  /\ gateBook.day <= BookSessions /\ relativeBook.day <= gateBook.day
  /\ HeldInv
  /\ SameBook /\ DailyIsOneTranche
  /\ Paid(gateBook) /\ Paid(relativeBook) /\ Paid(shortBook)

LEMMA BooksInvInit == BooksInit => BooksInv
<1> SUFFICES ASSUME BooksInit PROVE BooksInv
  OBVIOUS
<1> USE DEF BooksInit
<1>1. NoBook \in BookType
  <2>1. NoBook.day = 0 /\ NoBook.sleeves = [i \in Turns |-> {}] /\ NoBook.charged = [s \in BookNames |-> 0]
    BY DEF NoBook, Turns
  <2>2. NoBook = [day |-> NoBook.day, sleeves |-> NoBook.sleeves, charged |-> NoBook.charged]
    BY DEF NoBook
  <2>3. /\ NoBook.day \in Nat /\ NoBook.sleeves \in [Turns -> SUBSET BookNames]
        /\ NoBook.charged \in [BookNames -> Nat]
    BY <2>1
  <2> QED
    BY <2>2, <2>3 DEF BookType
<1>2. Paid(NoBook)
  <2> SUFFICES ASSUME NEW s \in BookNames
               PROVE  NoBook.charged[s] >= CostOf(s) * Cardinality(SleevesWith(NoBook, s))
    BY DEF Paid
  <2>1. SleevesWith(NoBook, s) = {}
    BY DEF NoBook, SleevesWith
  <2>2. Cardinality(SleevesWith(NoBook, s)) = 0
    BY <2>1, FS_EmptySet
  <2>3. CostOf(s) \in Nat /\ NoBook.charged[s] = 0
    BY CostIsPositive DEF NoBook
  <2> QED
    BY <2>2, <2>3
<1>3. /\ tranches \in 1..MaxTranches /\ tranches \in Nat
  BY BooksAssumption
<1>4. HeldInv
  BY <1>3 DEF HeldInv, NoBook, FirstHeld, Turns
<1>5. SameBook /\ DailyIsOneTranche
  BY BooksAssumption DEF SameBook, DailyIsOneTranche, NoBook
<1>6. gateBook.day <= BookSessions /\ relativeBook.day <= gateBook.day
  BY BooksAssumption DEF NoBook
<1> QED
  BY <1>1, <1>2, <1>3, <1>4, <1>5, <1>6 DEF BooksInv

LEMMA HeldInvNext ==
  ASSUME BooksInv, NEW order \in Orders, ScoreSession(order)
  PROVE  HeldInv'
<1> DEFINE n == gateBook.day
           L == Len(picks)
           x == TopQuantile(order)
           active == n % tranches
           app == Append(picks, x)
<1>1. /\ tranches \in Nat \ {0} /\ tranches \in 1..MaxTranches /\ table \in CostTables
      /\ gateBook \in BookType /\ n \in Nat /\ gateBook.sleeves \in [Turns -> SUBSET BookNames]
      /\ picks \in Seq(Selections) /\ L \in Nat /\ L <= tranches /\ L <= n
      /\ L < tranches => L = n
  <2>1. MaxTranches \in Nat
    BY BooksAssumption
  <2> QED
    BY <2>1, LenProperties DEF BooksInv, HeldInv, BookType
<1>2. x \in Selections
  BY SelectionIsOfNames DEF Selections
<1>3. /\ tranches' = tranches
      /\ gateBook' = [day |-> n + 1, sleeves |-> [gateBook.sleeves EXCEPT ![active] = x],
                      charged |-> SessionCost(gateBook.charged, x \ gateBook.sleeves[active])]
      /\ picks' = SubSeq(app, IF L < tranches THEN 1 ELSE 2, L + 1)
  BY DEF ScoreSession, OverlappingPortfolio, TrancheHoldings
<1>4. active \in Turns
  BY <1>1, TurnIsATurn
<1>5. \A d \in (n - L)..(n - 1) : gateBook.sleeves[d % tranches] = picks[d - (n - L) + 1]
  BY DEF BooksInv, HeldInv, FirstHeld
<1>6. \A i \in Turns : gateBook.sleeves[i] # {} => \E d \in (n - L)..(n - 1) : i = d % tranches
  BY DEF BooksInv, HeldInv, FirstHeld
<1>7. /\ app \in Seq(Selections) /\ Len(app) = L + 1 /\ app[L + 1] = x
      /\ \A i \in 1..L : app[i] = picks[i]
  BY <1>1, <1>2, AppendProperties
<1> HIDE DEF n, L, x, active, app
<1>8. PICK m \in {1, 2} : /\ m = IF L < tranches THEN 1 ELSE 2
                          /\ picks' = SubSeq(app, m, L + 1)
  BY <1>3
<1>9. m <= L + 1
  BY <1>1, <1>8
<1>10. \A i \in m..(L + 1) : app[i] \in Selections
  BY <1>1, <1>7, <1>8, ElementOfSeq
<1>11. /\ picks' \in Seq(Selections) /\ Len(picks') = L + 2 - m
       /\ \A i \in 1..(L + 2 - m) : picks'[i] = app[m + i - 1]
  <2>1. m \in Int /\ L + 1 \in Int
    BY <1>1, <1>8
  <2> QED
    BY <1>1, <1>8, <1>9, <1>10, <2>1, SubSeqProperties
<1>12. /\ gateBook'.day = n + 1
       /\ gateBook'.sleeves[active] = x
       /\ \A i \in Turns : i # active => gateBook'.sleeves[i] = gateBook.sleeves[i]
  BY <1>1, <1>3, <1>4
<1>13. FirstHeld' = n + 1 - (L + 2 - m)
  <2>1. FirstHeld' = gateBook'.day - Len(picks')
    BY DEF FirstHeld
  <2> QED
    BY <1>1, <1>8, <1>11, <1>12, <2>1
<1>14. n + 1 - (L + 2 - m) = n - L + m - 1
  BY <1>1, <1>8
<1>15. ASSUME NEW d \in (n - L + m - 1)..(n - 1)
       PROVE  d \in Nat /\ d % tranches \in Turns /\ d % tranches # active
  <2>1. d \in Nat /\ d < n /\ n - d < tranches
    BY <1>1, <1>8
  <2> QED
    BY <1>1, <2>1, TurnsComeRound, TurnIsATurn DEF active
<1>16. ASSUME NEW d \in (n - L + m - 1)..n
       PROVE  gateBook'.sleeves[d % tranches] = picks'[d - (n - L + m - 1) + 1]
  <2> DEFINE i == d - (n - L + m - 1) + 1
  <2>1. i \in 1..(L + 2 - m) /\ m + i - 1 = d - (n - L) + 1
    BY <1>1, <1>8
  <2>2. picks'[i] = app[d - (n - L) + 1]
    BY <1>11, <2>1
  <2>3. CASE d = n
    BY <1>1, <1>7, <1>12, <2>2, <2>3 DEF active
  <2>4. CASE d # n
    <3>1. d \in (n - L + m - 1)..(n - 1) /\ d \in (n - L)..(n - 1) /\ d - (n - L) + 1 \in 1..L
      <4>1. d \in Int /\ n - L + m - 1 <= d /\ d <= n - 1 /\ m >= 1 /\ m \in Int /\ L \in Int /\ n \in Int
        BY <1>1, <1>8, <2>4
      <4>2. n - L <= d
        BY <4>1
      <4>3. d - (n - L) + 1 \in 1..L
        BY <4>1, <4>2
      <4> QED
        BY <4>1, <4>2, <4>3
    <3>2. app[d - (n - L) + 1] = picks[d - (n - L) + 1]
      BY <1>7, <3>1
    <3>3. gateBook'.sleeves[d % tranches] = gateBook.sleeves[d % tranches]
      BY <1>12, <1>15, <3>1
    <3>4. gateBook.sleeves[d % tranches] = picks[d - (n - L) + 1]
      BY <1>5, <3>1
    <3> QED
      BY <2>2, <3>2, <3>3, <3>4
  <2> QED
    BY <2>3, <2>4
<1>17. ASSUME NEW i \in Turns, gateBook'.sleeves[i] # {}
       PROVE  \E d \in (n - L + m - 1)..n : i = d % tranches
  <2>1. CASE i = active
    <3>1. n \in (n - L + m - 1)..n
      BY <1>1, <1>9
    <3> QED
      BY <2>1, <3>1 DEF active
  <2>2. CASE i # active
    <3>1. PICK d \in (n - L)..(n - 1) : i = d % tranches
      BY <1>6, <1>12, <1>17, <2>2
    <3>2. CASE d \in (n - L + m - 1)..n
      BY <3>1, <3>2
    <3>3. CASE d \notin (n - L + m - 1)..n
      <4>1. d \in Nat /\ d < n /\ n - d = tranches
        BY <1>1, <1>8, <3>1, <3>3
      <4> QED
        BY <1>1, <2>2, <3>1, <4>1, TurnsComeRound DEF active
    <3> QED
      BY <3>2, <3>3
  <2> QED
    BY <2>1, <2>2
<1>18. /\ Len(picks') <= tranches' /\ Len(picks') <= gateBook'.day
       /\ Len(picks') < tranches' => Len(picks') = gateBook'.day
  BY <1>1, <1>3, <1>8, <1>11, <1>12
<1>19. gateBook'.day - 1 = n
  BY <1>1, <1>12
<1>20. FirstHeld' = n - L + m - 1
  BY <1>13, <1>14
<1>21. \A d \in FirstHeld'..(gateBook'.day - 1) :
         gateBook'.sleeves[d % tranches'] = picks'[d - FirstHeld' + 1]
  BY <1>3, <1>16, <1>19, <1>20
<1>22. \A i \in Turns : gateBook'.sleeves[i] # {} =>
         \E d \in FirstHeld'..(gateBook'.day - 1) : i = d % tranches'
  BY <1>3, <1>17, <1>19, <1>20
<1> QED
  BY <1>11, <1>18, <1>21, <1>22 DEF HeldInv, Selections, Turns

LEMMA BooksInvNext == BooksInv /\ [BooksNext]_bookVars => BooksInv'
<1> SUFFICES ASSUME BooksInv, [BooksNext]_bookVars PROVE BooksInv'
  OBVIOUS
<1>1. CASE UNCHANGED bookVars
  BY <1>1 DEF bookVars, BooksInv, HeldInv, FirstHeld, Paid, SleevesWith, CostOf, SameBook,
     DailyIsOneTranche
<1>2. ASSUME NEW order \in Orders, ScoreSession(order)
      PROVE  BooksInv'
  <2> USE <1>2 DEF BooksInv
  <2>1. HeldInv'
    BY HeldInvNext
  <2>2. /\ gateBook' = TrancheHoldings(gateBook, order)
        /\ relativeBook' = RelativeMetrics(relativeBook, order)
        /\ shortBook' = RelativeMetrics(shortBook, Reverse(order))
        /\ tranches' = tranches /\ table' = table
        /\ narrow' = (narrow \/ Len(order) = 1)
        /\ dailyBook' = DailyPortfolio(dailyBook, order)
        /\ gateBook.day < BookSessions
    BY DEF ScoreSession, OverlappingPortfolio
  <2>3. Reverse(order) \in Orders
    BY ReversedIsAnOrder
  <2>4. /\ gateBook' \in BookType /\ Paid(gateBook')
        /\ relativeBook' \in BookType /\ Paid(relativeBook')
        /\ shortBook' \in BookType /\ Paid(shortBook')
    BY <2>2, <2>3, SessionIsPaid DEF RelativeMetrics
  <2>5. \A b : Paid(b)' <=> Paid(b')
    BY <2>2 DEF Paid, CostOf, SleevesWith
  <2>6. /\ gateBook.day \in Nat /\ relativeBook.day \in Nat
        /\ gateBook'.day = gateBook.day + 1
        /\ relativeBook'.day \in {relativeBook.day, relativeBook.day + 1}
    BY <2>2 DEF TrancheHoldings, RelativeMetrics, BookType
  <2>7. gateBook'.day <= BookSessions /\ relativeBook'.day <= gateBook'.day
    BY <2>2, <2>6, BooksAssumption
  <2>8. SameBook'
    <3>1. Len(order) \in Nat \ {0}
      <4>1. PICK k \in 1..Cardinality(BookNames) : order \in [1..k -> BookNames]
        BY DEF Orders
      <4>2. k \in Nat \ {0}
        BY FS_CardinalityType, BooksAssumption
      <4> QED
        BY <4>1, <4>2
    <3> SUFFICES ASSUME ~narrow' PROVE relativeBook' = gateBook'
      BY DEF SameBook
    <3>2. ~narrow /\ Len(order) # 1
      BY <2>2, Zenon
    <3>3. Len(order) # 1
      BY <3>2, Zenon
    <3>4. relativeBook = gateBook
      BY <3>2 DEF SameBook
    <3>5. ~(Len(order) < 2)
      <4>1. PICK k \in Nat \ {0} : k = Len(order)
        BY <3>1
      <4>2. k # 1
        BY <3>3, <4>1
      <4>3. ~(k < 2)
        BY <4>2
      <4> QED
        BY <4>1, <4>3
    <3> QED
      BY <2>2, <3>4, <3>5 DEF RelativeMetrics
  <2>9. DailyIsOneTranche'
    <3> SUFFICES ASSUME tranches = 1
                 PROVE  /\ dailyBook'.held = gateBook'.sleeves[0]
                        /\ dailyBook'.charged = gateBook'.charged
      BY <2>2 DEF DailyIsOneTranche
    <3>1. /\ dailyBook.held = gateBook.sleeves[0] /\ dailyBook.charged = gateBook.charged
      BY DEF DailyIsOneTranche
    <3>2. gateBook.day % tranches = 0
      BY <2>6
    <3>3. /\ 0 \in Turns /\ gateBook.sleeves \in [Turns -> SUBSET BookNames]
      BY BooksAssumption DEF Turns, BookType
    <3>4. /\ gateBook'.sleeves[0] = TopQuantile(order)
          /\ gateBook'.charged = SessionCost(gateBook.charged, TopQuantile(order) \ gateBook.sleeves[0])
      BY <2>2, <3>2, <3>3 DEF TrancheHoldings
    <3>5. dailyBook.held = {} => TopQuantile(order) = TopQuantile(order) \ dailyBook.held
      OBVIOUS
    <3> QED
      BY <2>2, <3>1, <3>4, <3>5 DEF DailyPortfolio
  <2> QED
    BY <2>1, <2>2, <2>4, <2>5, <2>7, <2>8, <2>9 DEF BookType, Turns
<1> QED
  BY <1>1, <1>2 DEF BooksNext

LEMMA BooksInvHolds == BooksSpec => []BooksInv
<1>1. BooksInit => BooksInv
  BY BooksInvInit
<1>2. BooksInv /\ [BooksNext]_bookVars => BooksInv'
  BY BooksInvNext
<1> QED
  BY <1>1, <1>2, PTL DEF BooksSpec

LEMMA BooksInvAgrees == BooksInv => BooksAgree
<1> SUFFICES ASSUME BooksInv PROVE BooksAgree
  OBVIOUS
<1> USE DEF BooksInv
<1>1. /\ tranches \in Nat \ {0} /\ gateBook.day \in Nat /\ relativeBook.day \in Nat
      /\ gateBook.sleeves \in [Turns -> SUBSET BookNames]
      /\ picks \in Seq(Selections) /\ Len(picks) \in Nat
      /\ Len(picks) <= tranches /\ Len(picks) <= gateBook.day
  <2>1. MaxTranches \in Nat
    BY BooksAssumption
  <2> QED
    BY <2>1, LenProperties DEF HeldInv, BookType
<1>2. Range(picks) = {picks[i] : i \in 1..Len(picks)} /\ Range(picks) \in SUBSET Selections
  BY <1>1, RangeEquality, RangeOfSeq
<1>3. BooksTypeOK
  <2>1. gateBook.day \in 0..BookSessions /\ relativeBook.day \in 0..gateBook.day
    BY <1>1, BooksAssumption
  <2>2. \A b \in {gateBook, relativeBook, shortBook} :
          \A i \in DOMAIN b.sleeves : b.sleeves[i] \subseteq BookNames
    BY DEF BookType
  <2>3. Len(picks) \in 0..tranches /\ {} \notin Range(picks)
    BY <1>1, <1>2 DEF Selections
  <2> QED
    BY <2>1, <2>2, <2>3 DEF BooksTypeOK
<1>4. HeldForTheHorizon
  <2>1. FirstHeld \in Nat /\ FirstHeld + Len(picks) = gateBook.day
    BY <1>1 DEF FirstHeld
  <2>2. \A d \in FirstHeld..(gateBook.day - 1) :
          gateBook.sleeves[d % tranches] = picks[d - FirstHeld + 1]
    BY DEF HeldInv
  <2>3. \A i \in Turns : gateBook.sleeves[i] # {} =>
          \E d \in FirstHeld..(gateBook.day - 1) : i = d % tranches
    BY DEF HeldInv
  <2>4. HeldBy(gateBook) = UNION {gateBook.sleeves[i] : i \in Turns}
    BY <1>1 DEF HeldBy, Range
  <2>5. ASSUME NEW i \in Turns, gateBook.sleeves[i] # {}
        PROVE  gateBook.sleeves[i] \in Range(picks)
    <3>1. PICK d \in FirstHeld..(gateBook.day - 1) : i = d % tranches
      BY <2>3, <2>5
    <3>2. d - FirstHeld + 1 \in 1..Len(picks)
      BY <1>1, <2>1
    <3> QED
      BY <1>2, <2>2, <3>1, <3>2
  <2>6. ASSUME NEW k \in 1..Len(picks)
        PROVE  \E i \in Turns : picks[k] = gateBook.sleeves[i]
    <3> DEFINE d == k + FirstHeld - 1
    <3>1. d \in FirstHeld..(gateBook.day - 1) /\ d \in Nat /\ d - FirstHeld + 1 = k
      BY <1>1, <2>1
    <3>2. d % tranches \in Turns
      BY <3>1, TurnIsATurn
    <3> QED
      BY <2>2, <3>1, <3>2
  <2> QED
    BY <1>2, <2>4, <2>5, <2>6 DEF HeldForTheHorizon
<1>5. EntriesPaid
  <2> SUFFICES ASSUME NEW b \in {gateBook, relativeBook, shortBook}, NEW s \in BookNames
               PROVE  /\ b.charged[s] >= CostOf(s) * Cardinality(SleevesWith(b, s))
                      /\ s \in HeldBy(b) => b.charged[s] > 0
    BY DEF EntriesPaid, SleevesWith
  <2>1. b \in BookType /\ Paid(b)
    OBVIOUS
  <2>2. b.charged[s] >= CostOf(s) * Cardinality(SleevesWith(b, s))
    BY <2>1 DEF Paid
  <2>3. /\ b.sleeves \in [Turns -> SUBSET BookNames] /\ b.charged[s] \in Nat
        /\ CostOf(s) \in Nat \ {0}
    BY <2>1, CostIsPositive DEF BookType
  <2>4. ASSUME s \in HeldBy(b)
        PROVE  b.charged[s] > 0
    <3>1. PICK i \in Turns : s \in b.sleeves[i]
      BY <2>3, <2>4 DEF HeldBy, Range
    <3>2. SleevesWith(b, s) \in SUBSET Turns /\ i \in SleevesWith(b, s)
      BY <2>3, <3>1 DEF SleevesWith
    <3>3. IsFiniteSet(Turns)
      BY FS_Interval, BooksAssumption DEF Turns
    <3>4. Cardinality(SleevesWith(b, s)) \in Nat \ {0}
      BY <3>2, <3>3, FS_Subset, FS_CardinalityType, FS_EmptySet
    <3>5. PICK c \in Nat \ {0} : c = Cardinality(SleevesWith(b, s))
      BY <3>4
    <3>6. PICK k \in Nat \ {0} : k = CostOf(s)
      BY <2>3
    <3>7. k * c > 0 /\ k * c \in Nat
      BY <3>5, <3>6
    <3> QED
      BY <2>2, <2>3, <3>5, <3>6, <3>7
  <2> QED
    BY <2>2, <2>4
<1> QED
  BY <1>3, <1>4, <1>5 DEF BooksAgree

\* However sessions rank their names, the four books are one strategy: each
\* position is held as many sessions as its label spans, the book of the relative
\* metrics is the one the gate scores, one tranche is the daily book, and no name
\* is held unpaid (evaluation.py:475-524, training.py:350).
THEOREM BooksAreOne == BooksSpec => []BooksAgree
<1>1. BooksSpec => []BooksInv
  BY BooksInvHolds
<1>2. BooksInv => BooksAgree
  BY BooksInvAgrees
<1> QED
  BY <1>1, <1>2, PTL

-----------------------------------------------------------------------------
(* The gate                                                                *)

GateInv ==
  /\ holdout \in Reports /\ baselineIc \in Seq(Int) /\ Len(baselineIc) <= MaxFeatures
  /\ trials \in 1..MaxTrials

LEMMA GateInvInit == GateInit => GateInv
  BY EmptySeq, GateAssumption DEF GateInit, GateInv

LEMMA GateInvNext == GateInv /\ [GateNext]_gateVars => GateInv'
<1> SUFFICES ASSUME GateInv, [GateNext]_gateVars PROVE GateInv'
  OBVIOUS
<1> USE DEF GateInv
<1>1. CASE UNCHANGED gateVars
  BY <1>1 DEF gateVars
<1>2. CASE Try
  BY <1>2, GateAssumption DEF Try
<1>3. ASSUME NEW ic \in FeatureICs, AddFeature(ic)
      PROVE  GateInv'
  <2>1. ic \in Int /\ Len(baselineIc) \in Nat /\ MaxFeatures \in Nat
    BY GateAssumption, LenProperties
  <2>2. baselineIc' \in Seq(Int) /\ Len(baselineIc') = Len(baselineIc) + 1
    BY <1>3, <2>1, AppendProperties DEF AddFeature
  <2> QED
    BY <1>3, <2>1, <2>2 DEF AddFeature
<1> QED
  BY <1>1, <1>2, <1>3 DEF GateNext

\* The luckiest of more trials is luckier.
LEMMA TrialsRaiseTheBar ==
  ASSUME NEW n \in 1..9
  PROVE  /\ ExpectedMaxSharpe(n) \in Int /\ ExpectedMaxSharpe(n + 1) \in Int
         /\ ExpectedMaxSharpe(n) <= ExpectedMaxSharpe(n + 1)
<1>1. n = 1 \/ n = 2 \/ n = 3 \/ n = 4 \/ n = 5 \/ n = 6 \/ n = 7 \/ n = 8 \/ n = 9
  OBVIOUS
<1>2. CASE n = 1
  BY <1>2 DEF ExpectedMaxSharpe
<1>3. CASE n = 2
  BY <1>3 DEF ExpectedMaxSharpe
<1>4. CASE n = 3
  BY <1>4 DEF ExpectedMaxSharpe
<1>5. CASE n = 4
  BY <1>5 DEF ExpectedMaxSharpe
<1>6. CASE n = 5
  BY <1>6 DEF ExpectedMaxSharpe
<1>7. CASE n = 6
  BY <1>7 DEF ExpectedMaxSharpe
<1>8. CASE n = 7
  BY <1>8 DEF ExpectedMaxSharpe
<1>9. CASE n = 8
  BY <1>9 DEF ExpectedMaxSharpe
<1>10. CASE n = 9
  BY <1>10 DEF ExpectedMaxSharpe
<1> QED
  BY <1>1, <1>2, <1>3, <1>4, <1>5, <1>6, <1>7, <1>8, <1>9, <1>10

\* What is enough after one more trial was enough before.
LEMMA FewerTrialsSuffice ==
  ASSUME NEW r \in Reports, NEW n \in 1..9, DeflatedReaches(r, n + 1)
  PROVE  DeflatedReaches(r, n)
<1>1. r.edge \in Int /\ r.moments \in Int /\ DsrBar \in Int
  BY GateAssumption DEF ReportFields
<1>2. PICK bar \in Int : bar = DsrBar * DsrBar * r.moments
  BY <1>1
<1>3. PICK a \in Int : a = r.edge - ExpectedMaxSharpe(n + 1)
  BY <1>1, TrialsRaiseTheBar
<1>4. PICK b \in Int : b = r.edge - ExpectedMaxSharpe(n) /\ a <= b
  BY <1>1, <1>3, TrialsRaiseTheBar
<1>5. r.observations >= 8 /\ r.spread > 0 /\ r.moments > 0 /\ a >= 0 /\ a * a >= bar
  BY <1>2, <1>3 DEF DeflatedReaches
<1>6. b >= 0 /\ a * a <= a * b /\ a * b <= b * b
  BY <1>4, <1>5
<1>7. b * b >= bar
  <2>1. a * a \in Int /\ a * b \in Int /\ b * b \in Int
    BY <1>3, <1>4
  <2> QED
    BY <1>2, <1>5, <1>6, <2>1
<1> QED
  BY <1>2, <1>4, <1>5, <1>6, <1>7 DEF DeflatedReaches

\* The comparator only rises, but for the first feature.
LEMMA FeaturesRaiseTheBar ==
  ASSUME NEW ics \in Seq(Int), NEW ic \in Int, ics # <<>>
  PROVE  /\ BestBaseline(ics) \in Int /\ BestBaseline(Append(ics, ic)) \in Int
         /\ BestBaseline(ics) <= BestBaseline(Append(ics, ic))
<1> DEFINE more == Append(ics, ic)
<1>1. /\ more \in Seq(Int) /\ more # <<>> /\ Len(more) = Len(ics) + 1
      /\ \A i \in 1..Len(ics) : more[i] = ics[i]
  BY AppendProperties
<1>2. Len(ics) \in Nat \ {0}
  BY EmptySeq
<1> HIDE DEF more
<1>3. Range(ics) = {ics[i] : i \in 1..Len(ics)} /\ Range(more) = {more[i] : i \in 1..Len(more)}
  BY <1>1, RangeEquality
<1>4. Range(ics) \in SUBSET Int /\ Range(more) \in SUBSET Int
  BY <1>1, RangeOfSeq
<1>5. Range(ics) # {} /\ Range(ics) \subseteq Range(more)
  <2>1. 1 \in 1..Len(ics) /\ \A i \in 1..Len(ics) : i \in 1..Len(more)
    BY <1>1, <1>2
  <2> QED
    BY <1>1, <1>3, <2>1
<1>6. IsFiniteSet(Range(ics)) /\ IsFiniteSet(Range(more))
  BY <1>1, RangeIsFinite
<1>7. /\ Max(Range(ics)) \in Range(more) /\ Max(Range(more)) \in Int
      /\ \A x \in Range(more) : x <= Max(Range(more))
  BY <1>4, <1>5, <1>6, MaxIsGreatest
<1> QED
  BY <1>1, <1>4, <1>7 DEF BestBaseline, more

LEMMA GateStepsAreHarder == GateInv /\ [GateNext]_gateVars => (EvaluateGate' => EvaluateGate)
<1> SUFFICES ASSUME GateInv, [GateNext]_gateVars, EvaluateGate' PROVE EvaluateGate
  OBVIOUS
<1>1. CASE UNCHANGED gateVars
  BY <1>1 DEF gateVars, EvaluateGate, GSanity, GRankInformation, GBaseline, GEconomics,
     GCalibration, GDeflated
<1>2. CASE Try
  <2>1. holdout' = holdout /\ folds' = folds /\ baselineIc' = baselineIc /\ trials' = trials + 1
    BY <1>2 DEF Try
  <2>2. GSanity /\ GRankInformation /\ GBaseline /\ GEconomics /\ GCalibration
    BY <2>1 DEF EvaluateGate, GSanity, GRankInformation, GBaseline, GEconomics, GCalibration
  <2>3. holdout \in Reports /\ trials \in 1..9
    BY <1>2, GateAssumption DEF Try, GateInv
  <2>4. DeflatedReaches(holdout, trials + 1)
    BY <2>1 DEF EvaluateGate, GDeflated
  <2>5. GDeflated
    BY <2>3, <2>4, FewerTrialsSuffice DEF GDeflated
  <2> QED
    BY <2>2, <2>5 DEF EvaluateGate
<1>3. ASSUME NEW ic \in FeatureICs, AddFeature(ic)
      PROVE  EvaluateGate
  <2>1. /\ holdout' = holdout /\ folds' = folds /\ trials' = trials
        /\ baselineIc' = Append(baselineIc, ic)
    BY <1>3 DEF AddFeature
  <2>2. GSanity /\ GRankInformation /\ GEconomics /\ GCalibration /\ GDeflated
    BY <2>1 DEF EvaluateGate, GSanity, GRankInformation, GEconomics, GCalibration, GDeflated
  <2>3. Measured(holdout) /\ holdout.ic > 0
    BY <2>2 DEF GRankInformation, TstatReaches
  <2>4. holdout.ic > BestBaseline(Append(baselineIc, ic))
    BY <2>1, <2>3 DEF EvaluateGate, GBaseline
  <2>5. holdout.ic > BestBaseline(baselineIc)
    <3>1. CASE baselineIc = <<>>
      BY <2>3, <3>1 DEF BestBaseline
    <3>2. CASE baselineIc # <<>>
      <4>1. baselineIc \in Seq(Int) /\ ic \in Int /\ holdout.ic \in Int
        BY GateAssumption DEF GateInv, ReportFields
      <4>2. /\ BestBaseline(baselineIc) \in Int /\ BestBaseline(Append(baselineIc, ic)) \in Int
            /\ BestBaseline(baselineIc) <= BestBaseline(Append(baselineIc, ic))
        BY <3>2, <4>1, FeaturesRaiseTheBar
      <4> QED
        BY <2>4, <4>1, <4>2
    <3> QED
      BY <3>1, <3>2
  <2> QED
    BY <2>2, <2>3, <2>5 DEF EvaluateGate, GBaseline
<1> QED
  BY <1>1, <1>2, <1>3 DEF GateNext

-----------------------------------------------------------------------------
(* The revalidation of a rule                                              *)

BackInv ==
  /\ Len(prices) \in 1..MaxBars /\ Len(position) = Len(prices)
  /\ prices \in Seq(Int) /\ position \in Seq({0, 1})
  /\ statuses \in [Baselines -> {"active", "probation", "deactivate", Unvalidated}]
  /\ \A b \in Baselines : statuses[b] # Unvalidated =>
       statuses[b] = Recommended(b, OosSharpe(prices, position))

LEMMA ScoredIsInt ==
  ASSUME NEW px \in Seq(Int), NEW pos \in Seq({0, 1}), Len(pos) = Len(px), NEW first \in Nat \ {0}
  PROVE  Scored(px, pos, first) \in Seq(Int)
<1> DEFINE f == Max({first, 2})
           n == Max({0, Len(px) - f + 1})
<1>1. Len(px) \in Nat
  BY LenProperties
<1>2. f \in Nat /\ f >= 2
  BY MaxOfTwo
<1> HIDE DEF f
<1>3. n \in Nat /\ (n = 0 \/ n = Len(px) - f + 1)
  <2>1. Len(px) - f + 1 \in Int
    BY <1>1, <1>2
  <2>2. n = IF 0 >= Len(px) - f + 1 THEN 0 ELSE Len(px) - f + 1
    BY <2>1, MaxOfTwo
  <2> QED
    BY <1>1, <1>2, <2>2
<1> HIDE DEF n
<1>4. CostBps \in Int
  BY BacktestAssumption
<1>5. ASSUME NEW i \in 1..n
      PROVE  LET t == f + i - 1
             IN  Held(pos, t) * (px[t] - px[t - 1]) - TradeOf(pos, t) * CostBps \in Int
  <2> DEFINE t == f + i - 1
  <2>1. t \in 2..Len(px)
    BY <1>1, <1>2, <1>3
  <2> HIDE DEF t
  <2>2. t \in 1..Len(px) /\ t - 1 \in 1..Len(px)
    BY <1>1, <2>1
  <2>3. px[t] \in Int /\ px[t - 1] \in Int
    BY <2>2, ElementOfSeq
  <2>4. Held(pos, t) \in {0, 1}
    BY <2>2, ElementOfSeq DEF Held
  <2>5. TradeOf(pos, t) \in {0, 1}
    BY DEF TradeOf
  <2>6. px[t] - px[t - 1] \in Int
    BY <2>3
  <2>7. Held(pos, t) * (px[t] - px[t - 1]) \in Int /\ TradeOf(pos, t) * CostBps \in Int
    BY <1>4, <2>4, <2>5, <2>6
  <2>8. Held(pos, t) * (px[t] - px[t - 1]) - TradeOf(pos, t) * CostBps \in Int
    BY <2>7
  <2> QED
    BY <2>8 DEF t
<1>6. Scored(px, pos, first) = [i \in 1..n |->
         LET t == f + i - 1
         IN  Held(pos, t) * (px[t] - px[t - 1]) - TradeOf(pos, t) * CostBps]
  BY DEF Scored, f, n
<1> QED
  BY <1>3, <1>5, <1>6

LEMMA OosIsInt ==
  ASSUME BackInv
  PROVE  OosSharpe(prices, position) \in Int
<1>1. /\ prices \in Seq(Int) /\ position \in Seq({0, 1}) /\ Len(position) = Len(prices)
      /\ Len(prices) \in Nat /\ OosWindow \in Nat
  BY LenProperties, BacktestAssumption DEF BackInv
<1>2. Len(prices) - OosWindow \in Int
  BY <1>1
<1>3. Max({Len(prices) - OosWindow, 0}) \in Nat
  BY <1>2, MaxOfTwo
<1>4. PICK k \in Nat : k = Max({Len(prices) - OosWindow, 0})
  BY <1>3
<1>5. Scored(prices, position, k + 1) \in Seq(Int)
  BY <1>1, ScoredIsInt
<1>6. PICK s \in Seq(Int) : s = Scored(prices, position, k + 1)
  BY <1>5
<1>7. SumFunction(s) \in Int
  <2>1. Len(s) \in Nat /\ s \in [1..Len(s) -> Int]
    BY LenProperties
  <2>2. IsFiniteSet(1..Len(s)) /\ Int \in SUBSET Int /\ 0 \in Int
    BY <2>1, FS_Interval
  <2>3. \A v, w \in Int : v + w \in Int
    OBVIOUS
  <2> QED
    BY <2>1, <2>2, <2>3, SumStays
<1> QED
  BY <1>4, <1>6, <1>7 DEF OosSharpe, SumOf

LEMMA BackInvInit == BackInit => BackInv
<1> SUFFICES ASSUME BackInit PROVE BackInv
  OBVIOUS
<1>1. prices = <<0>> /\ position = <<0>> /\ statuses = [b \in Baselines |-> Unvalidated]
  BY DEF BackInit
<1>2. prices \in Seq(Int) /\ position \in Seq({0, 1}) /\ Len(prices) = 1 /\ Len(position) = 1
  BY <1>1
<1>3. Len(prices) \in 1..MaxBars
  BY <1>2, BacktestAssumption
<1> QED
  BY <1>1, <1>2, <1>3 DEF BackInv

LEMMA BackInvNext == BackInv /\ [BackNext]_backVars => BackInv'
<1> SUFFICES ASSUME BackInv, [BackNext]_backVars PROVE BackInv'
  OBVIOUS
<1>1. CASE UNCHANGED backVars
  BY <1>1 DEF backVars, BackInv
<1>2. CASE Revalidate
  <2>1. /\ prices' = prices /\ position' = position
        /\ statuses' = [b \in Baselines |-> Recommended(b, OosSharpe(prices, position))]
    BY <1>2 DEF Revalidate
  <2>2. \A b : Recommended(b, OosSharpe(prices, position)) \in {"active", "probation", "deactivate"}
    BY DEF Recommended
  <2> QED
    BY <2>1, <2>2 DEF BackInv
<1>3. ASSUME NEW m \in Moves, NEW s \in Signals, NextBar(m, s)
      PROVE  BackInv'
  <2> DEFINE step == prices[Len(prices)] + m
             pos == CASE s = "buy" -> 1 [] s = "sell" -> 0 [] OTHER -> position[Len(position)]
  <2>1. /\ prices \in Seq(Int) /\ position \in Seq({0, 1})
        /\ Len(position) = Len(prices) /\ Len(prices) \in 1..Len(prices) /\ Len(prices) \in Nat \ {0}
        /\ MaxBars \in Nat /\ m \in Int
    BY BacktestAssumption DEF BackInv
  <2>2. step \in Int /\ pos \in {0, 1}
    <3>1. prices[Len(prices)] \in Int /\ position[Len(position)] \in {0, 1}
      BY <2>1, ElementOfSeq
    <3> QED
      BY <2>1, <3>1
  <2>3. /\ prices' = Append(prices, step) /\ position' = Append(position, pos)
        /\ statuses' = [b \in Baselines |-> Unvalidated] /\ Len(prices) < MaxBars
    BY <1>3 DEF NextBar
  <2> HIDE DEF step, pos
  <2>4. /\ prices' \in Seq(Int) /\ Len(prices') = Len(prices) + 1
        /\ position' \in Seq({0, 1}) /\ Len(position') = Len(position) + 1
    BY <2>1, <2>2, <2>3, AppendProperties
  <2> QED
    BY <2>1, <2>3, <2>4 DEF BackInv, Unvalidated
<1> QED
  BY <1>1, <1>2, <1>3 DEF BackNext

\* A worse record loses as much of the baseline, or more.
LEMMA LossesAdd ==
  ASSUME NEW original \in Int, NEW x \in Int, NEW y \in Int, x <= y
  PROVE  /\ Degradation(original, x) \in Int /\ Degradation(original, y) \in Int
         /\ Degradation(original, y) <= Degradation(original, x)
<1>1. 100 * (original - x) \in Int /\ 100 * (original - y) \in Int
      /\ 100 * (original - y) <= 100 * (original - x)
  OBVIOUS
<1>2. CASE original > 0
  <2>1. original \in Nat \ {0}
    BY <1>2
  <2> QED
    BY <1>1, <1>2, <2>1, QuotientsGrow DEF Degradation
<1>3. CASE original < 0
  <2>1. -original \in Nat \ {0}
    BY <1>3
  <2> QED
    BY <1>1, <1>3, <2>1, QuotientsGrow DEF Degradation
<1>4. CASE original = 0
  BY <1>4 DEF Degradation
<1> QED
  BY <1>2, <1>3, <1>4

LEMMA BackInvGrades == BackInv => BackTypeOK /\ WorseIsNotPromoted
<1> SUFFICES ASSUME BackInv PROVE BackTypeOK /\ WorseIsNotPromoted
  OBVIOUS
<1>1. BackTypeOK
  BY RangeOfSeq DEF BackInv, BackTypeOK, Range
<1>2. ASSUME NEW b \in Baselines, statuses[b] # Unvalidated,
             NEW worse \in -3..OosSharpe(prices, position)
      PROVE  Grade(Recommended(b, worse)) <= Grade(statuses[b])
  <2>1. PICK current \in Int : current = OosSharpe(prices, position)
    BY OosIsInt
  <2>2. worse \in Int /\ worse <= current /\ b \in Int
    BY <2>1, BacktestAssumption
  <2>3. statuses[b] = Recommended(b, current)
    BY <1>2, <2>1 DEF BackInv
  <2>4. /\ Degradation(b, worse) \in Int /\ Degradation(b, current) \in Int
        /\ Degradation(b, current) <= Degradation(b, worse)
    BY <2>1, <2>2, LossesAdd
  <2>5. ThresholdPct \in Int
    BY BacktestAssumption
  <2>6. Grade(Recommended(b, worse)) <= Grade(Recommended(b, current))
    <3>1. CASE current < 0
      <4>1. worse < 0
        BY <2>1, <2>2, <3>1
      <4> QED
        BY <3>1, <4>1 DEF Recommended, Grade
    <3>2. CASE ~(current < 0) /\ worse < 0
      BY <3>2 DEF Recommended, Grade
    <3>3. CASE ~(current < 0) /\ ~(worse < 0)
      <4>1. Degradation(b, current) >= ThresholdPct => Degradation(b, worse) >= ThresholdPct
        BY <2>4, <2>5
      <4> QED
        BY <3>3, <4>1 DEF Recommended, Grade
    <3> QED
      BY <3>1, <3>2, <3>3
  <2> QED
    BY <2>3, <2>6
<1> QED
  BY <1>1, <1>2 DEF WorseIsNotPromoted

\* Neither a further trial nor a further feature lets a model pass that the gate
\* refused, and a rule that earned less against the same baseline is not
\* recommended for more (gate.py:52, continuous_validation.py:70).
THEOREM VerdictsOnlyHarden == GateSpec /\ BackSpec => VerdictsAreMonotone
<1>1. GateInit => GateInv
  BY GateInvInit
<1>2. GateInv /\ [GateNext]_gateVars => GateInv'
  BY GateInvNext
<1>3. GateInv /\ [GateNext]_gateVars => [EvaluateGate' => EvaluateGate]_gateVars
  BY GateStepsAreHarder
<1>4. BackInit => BackInv
  BY BackInvInit
<1>5. BackInv /\ [BackNext]_backVars => BackInv'
  BY BackInvNext
<1>6. GateInv => GateTypeOK
  BY GateAssumption DEF GateInv, GateTypeOK
<1>7. BackInv => BackTypeOK /\ WorseIsNotPromoted
  BY BackInvGrades
<1> QED
  BY <1>1, <1>2, <1>3, <1>4, <1>5, <1>6, <1>7, PTL
  DEF GateSpec, BackSpec, VerdictsAreMonotone, GateOnlyHarder

\* No bar is earned by the signal it produced.
LEMMA BackInvEarnsLater == BackInv => NoSameBarReturn
<1> SUFFICES ASSUME BackInv, NEW q \in {0, 1}
             PROVE  Scored(prices, [position EXCEPT ![Len(position)] = q], 1)
                      = Scored(prices, position, 1)
  BY DEF NoSameBarReturn
<1> DEFINE pos == [position EXCEPT ![Len(position)] = q]
           n == Len(prices)
           m == Max({0, n - 2 + 1})
<1>1. n \in Nat \ {0} /\ Len(position) = n /\ position \in [1..n -> {0, 1}]
  BY LenProperties DEF BackInv
<1>2. \A k \in 1..n : k # n => pos[k] = position[k]
  BY <1>1
<1>3. Max({1, 2}) = 2
  BY MaxOfTwo
<1>4. m \in Nat /\ (m = 0 \/ m = n - 1)
  <2>1. n - 2 + 1 \in Int
    BY <1>1
  <2>2. m = IF 0 >= n - 2 + 1 THEN 0 ELSE n - 2 + 1
    BY <2>1, MaxOfTwo
  <2> QED
    BY <1>1, <2>2
<1> HIDE DEF pos, m, n
<1>5. ASSUME NEW i \in 1..m
      PROVE  Held(pos, 2 + i - 1) = Held(position, 2 + i - 1)
             /\ TradeOf(pos, 2 + i - 1) = TradeOf(position, 2 + i - 1)
  <2> DEFINE t == 2 + i - 1
  <2>1. t \in 2..n /\ t - 1 \in 1..n /\ t - 1 # n
    BY <1>1, <1>4
  <2>2. t # 2 => t - 2 \in 1..n /\ t - 2 # n
    BY <1>1, <2>1
  <2> HIDE DEF t
  <2>3. pos[t - 1] = position[t - 1] /\ (t # 2 => pos[t - 2] = position[t - 2])
    BY <1>2, <2>1, <2>2
  <2>4. Held(pos, t) = Held(position, t) /\ TradeOf(pos, t) = TradeOf(position, t)
    BY <2>3 DEF Held, TradeOf
  <2> QED
    BY <2>4 DEF t
<1>6. \A p : Scored(prices, p, 1) =
        [i \in 1..m |-> Held(p, 2 + i - 1) * (prices[2 + i - 1] - prices[2 + i - 1 - 1])
                          - TradeOf(p, 2 + i - 1) * CostBps]
  <2> DEFINE Earned(p, t) == Held(p, t) * (prices[t] - prices[t - 1]) - TradeOf(p, t) * CostBps
             Bars(p, k) == [i \in 1..Max({0, Len(prices) - k + 1}) |-> Earned(p, k + i - 1)]
  <2>1. \A p : Scored(prices, p, 1) = Bars(p, Max({1, 2}))
    BY DEF Scored, Bars, Earned
  <2>2. \A p : Bars(p, 2) = [i \in 1..m |-> Held(p, 2 + i - 1) * (prices[2 + i - 1] - prices[2 + i - 1 - 1])
                                            - TradeOf(p, 2 + i - 1) * CostBps]
    BY DEF m, n
  <2> HIDE DEF Bars
  <2>3. \A p : Scored(prices, p, 1) = Bars(p, 2)
    BY <1>3, <2>1
  <2> QED
    BY <2>2, <2>3
<1>7. Scored(prices, pos, 1) = Scored(prices, position, 1)
  BY <1>5, <1>6
<1> QED
  BY <1>7 DEF pos

-----------------------------------------------------------------------------
(* Sets of numbers in order                                                *)

Below(S, t) == {u \in S : u <= t}
\* The i-th of S.
IsNth(S, i, t) == t \in S /\ Cardinality(Below(S, t)) = i

LEMMA NthIsUnique ==
  ASSUME NEW S \in SUBSET Nat, IsFiniteSet(S), NEW t \in S, NEW u \in S,
         Cardinality(Below(S, t)) = Cardinality(Below(S, u))
  PROVE  t = u
<1>1. ASSUME NEW a \in S, NEW b \in S, a < b
      PROVE  Cardinality(Below(S, a)) # Cardinality(Below(S, b))
  <2>1. Below(S, a) \subseteq Below(S, b) /\ b \in Below(S, b) /\ b \notin Below(S, a)
    <3>1. \A c \in S : c <= a => c <= b
      <4>1. TAKE c \in S
      <4>2. a \in Nat /\ b \in Nat /\ c \in Nat
        OBVIOUS
      <4> QED
        BY <4>2, <1>1
    <3>2. a \in Nat /\ b \in Nat /\ ~(b <= a) /\ b <= b
      <4>1. a \in Nat /\ b \in Nat
        OBVIOUS
      <4> QED
        BY <4>1, <1>1
    <3> QED
      BY <3>1, <3>2 DEF Below
  <2>2. IsFiniteSet(Below(S, b))
    BY FS_Subset DEF Below
  <2>3. Below(S, a) # Below(S, b)
    BY <2>1
  <2> QED
    BY <2>1, <2>2, <2>3, FS_Subset, FS_CardinalityType
<1>2. t \in Nat /\ u \in Nat /\ (t < u \/ u < t \/ t = u)
  OBVIOUS
<1> QED
  BY <1>1, <1>2

HasAll(S) == \A i \in 1..Cardinality(S) : \E t \in S : IsNth(S, i, t)

\* By the least size of a set that lacks an i-th: without its greatest it lacks it too.
LEMMA NthExists ==
  ASSUME NEW S \in SUBSET Nat, IsFiniteSet(S)
  PROVE  HasAll(S)
<1> DEFINE Fails == {n \in Nat : \E Q \in SUBSET S : Cardinality(Q) = n /\ ~HasAll(Q)}
<1>1. \A Q \in SUBSET S : IsFiniteSet(Q) /\ Cardinality(Q) \in Nat
  BY FS_Subset, FS_CardinalityType
<1>2. Fails = {}
  <2> SUFFICES ASSUME Fails # {} PROVE FALSE
    OBVIOUS
  <2>1. PICK n \in Fails : \A k \in Fails : n <= k
    BY LeastNumber
  <2>2. PICK Q \in SUBSET S : Cardinality(Q) = n /\ ~HasAll(Q)
    BY <2>1
  <2>3. Q # {}
    BY <2>2, FS_EmptySet DEF HasAll
  <2> DEFINE m == Max(Q)
             R == Q \ {m}
  <2>4. m \in Q /\ \A x \in Q : x <= m
    <3>1. Q \in SUBSET Int /\ IsFiniteSet(Q)
      BY <1>1
    <3> QED
      BY <2>3, <3>1, MaxIsGreatest
  <2> HIDE DEF m
  <2>5. R \in SUBSET S /\ Cardinality(R) = n - 1 /\ Cardinality(R) \in Nat
    BY <1>1, <2>2, <2>4, FS_RemoveElement
  <2>6. HasAll(R)
    BY <2>1, <2>5
  <2>7. ASSUME NEW i \in 1..n
        PROVE  \E t \in Q : IsNth(Q, i, t)
    <3>1. CASE i = n
      <4>1. Below(Q, m) = Q
        BY <2>4 DEF Below
      <4> QED
        BY <2>2, <2>4, <3>1, <4>1 DEF IsNth
    <3>2. CASE i # n
      <4>1. i \in 1..Cardinality(R)
        BY <2>5, <3>2
      <4>2. PICK t \in R : IsNth(R, i, t)
        BY <2>6, <4>1 DEF HasAll
      <4>3. m \in Nat /\ t \in Nat /\ t <= m /\ t # m
        BY <2>4
      <4>4. Below(Q, t) = Below(R, t)
        BY <4>3 DEF Below
      <4> QED
        BY <4>2, <4>4 DEF IsNth
    <3> QED
      BY <3>1, <3>2
  <2> QED
    BY <2>2, <2>7 DEF HasAll
<1>3. Cardinality(S) \in Nat /\ Cardinality(S) \notin Fails
  BY <1>1, <1>2
<1> QED
  BY <1>3

LEMMA OrderedNth ==
  ASSUME NEW S \in SUBSET Nat, IsFiniteSet(S)
  PROVE  /\ DOMAIN Ordered(S) = 1..Cardinality(S) /\ Len(Ordered(S)) = Cardinality(S)
         /\ \A i \in 1..Cardinality(S) : IsNth(S, i, Ordered(S)[i])
         /\ \A t \in S : /\ Cardinality(Below(S, t)) \in 1..Cardinality(S)
                         /\ Ordered(S)[Cardinality(Below(S, t))] = t
<1> DEFINE rank == [t \in S |-> Cardinality({u \in S : u <= t})]
<1>1. \A t \in S : rank[t] = Cardinality(Below(S, t))
  BY DEF Below
<1>2. Ordered(S) = [i \in 1..Cardinality(S) |-> CHOOSE t \in S : rank[t] = i]
  BY DEF Ordered
<1>3. Cardinality(S) \in Nat
  BY FS_CardinalityType
<1>4. DOMAIN Ordered(S) = 1..Cardinality(S) /\ Len(Ordered(S)) = Cardinality(S)
  BY <1>2, <1>3
<1> HIDE DEF rank
<1>5. ASSUME NEW i \in 1..Cardinality(S)
      PROVE  IsNth(S, i, Ordered(S)[i])
  <2>1. \E t \in S : rank[t] = i
    BY <1>1, NthExists DEF HasAll, IsNth
  <2>2. Ordered(S)[i] = CHOOSE t \in S : rank[t] = i
    BY <1>2
  <2>3. Ordered(S)[i] \in S /\ rank[Ordered(S)[i]] = i
    BY <2>1, <2>2, Zenon
  <2> QED
    BY <1>1, <2>3 DEF IsNth
<1>6. ASSUME NEW t \in S
      PROVE  /\ Cardinality(Below(S, t)) \in 1..Cardinality(S)
             /\ Ordered(S)[Cardinality(Below(S, t))] = t
  <2> DEFINE k == Cardinality(Below(S, t))
  <2>1. Below(S, t) \subseteq S /\ t \in Below(S, t) /\ IsFiniteSet(Below(S, t))
    BY FS_Subset DEF Below
  <2>2. k \in Nat /\ k # 0 /\ k <= Cardinality(S)
    BY <2>1, FS_CardinalityType, FS_EmptySet, FS_Subset
  <2>3. k \in 1..Cardinality(S)
    BY <2>2, <1>3
  <2>4. IsNth(S, k, Ordered(S)[k])
    BY <2>3, <1>5
  <2> DEFINE u == Ordered(S)[k]
  <2>5. u \in S /\ Cardinality(Below(S, u)) = Cardinality(Below(S, t))
    BY <2>4 DEF IsNth
  <2> HIDE DEF u
  <2>6. u = t
    BY <2>5, NthIsUnique
  <2> QED
    BY <2>3, <2>6 DEF u
<1> QED
  BY <1>4, <1>5, <1>6

\* What is added above leaves the order below.
LEMMA OrderedPrefix ==
  ASSUME NEW S \in SUBSET Nat, NEW T \in SUBSET Nat, IsFiniteSet(T), S \subseteq T,
         \A t \in S, u \in T \ S : t < u
  PROVE  /\ IsFiniteSet(S) /\ Cardinality(S) <= Cardinality(T)
         /\ Cardinality(S) \in Nat /\ Cardinality(T) \in Nat
         /\ \A i \in 1..Cardinality(S) : Ordered(S)[i] = Ordered(T)[i]
<1>1. /\ IsFiniteSet(S) /\ Cardinality(S) <= Cardinality(T)
      /\ Cardinality(S) \in Nat /\ Cardinality(T) \in Nat
  BY FS_Subset, FS_CardinalityType
<1>2. ASSUME NEW i \in 1..Cardinality(S)
      PROVE  Ordered(S)[i] = Ordered(T)[i]
  <2> DEFINE t == Ordered(S)[i]
  <2>1. IsNth(S, i, t)
    BY <1>1, OrderedNth
  <2> HIDE DEF t
  <2>2. t \in S /\ t \in T /\ t \in Nat
    BY <2>1 DEF IsNth
  <2>3. Below(T, t) = Below(S, t)
    <3>1. \A u \in T : u <= t => u \in S
      BY <2>2
    <3> QED
      BY <3>1 DEF Below
  <2>4. Ordered(T)[Cardinality(Below(T, t))] = t
    BY <2>2, OrderedNth
  <2> QED
    BY <2>1, <2>3, <2>4 DEF IsNth, t
<1> QED
  BY <1>1, <1>2

-----------------------------------------------------------------------------
(* Sessions between two windows                                            *)

\* A sequence of members of S in increasing order.
Rising(seq, S) ==
  /\ Len(seq) \in Nat /\ seq = [i \in 1..Len(seq) |-> seq[i]]
  /\ \A i \in 1..Len(seq) : seq[i] \in S
  /\ \A i, j \in 1..Len(seq) : i < j => seq[i] < seq[j]

Between(S, a, b) == {d \in S : a < d /\ d < b}
After(S, a) == {d \in S : a < d}

LEMMA OrderedRises ==
  ASSUME NEW S \in SUBSET Nat, IsFiniteSet(S)
  PROVE  /\ Rising(Ordered(S), S) /\ Len(Ordered(S)) = Cardinality(S) /\ Range(Ordered(S)) = S
         /\ DOMAIN Ordered(S) = 1..Cardinality(S) /\ Cardinality(S) \in Nat
<1> DEFINE n == Cardinality(S)
<1>1. n \in Nat
  BY FS_CardinalityType
<1>2. /\ DOMAIN Ordered(S) = 1..n /\ Len(Ordered(S)) = n
      /\ \A i \in 1..n : IsNth(S, i, Ordered(S)[i])
      /\ \A t \in S : Cardinality(Below(S, t)) \in 1..n /\ Ordered(S)[Cardinality(Below(S, t))] = t
  BY OrderedNth
<1>3. Ordered(S) = [i \in 1..n |-> Ordered(S)[i]]
  <2> DEFINE rank == [t \in S |-> Cardinality({u \in S : u <= t})]
  <2>1. Ordered(S) = [i \in 1..n |-> CHOOSE t \in S : rank[t] = i]
    BY DEF Ordered
  <2> HIDE DEF rank
  <2> QED
    BY <2>1
<1>4. \A i \in 1..n : Ordered(S)[i] \in S
  BY <1>2 DEF IsNth
<1>5. ASSUME NEW i \in 1..n, NEW j \in 1..n, i < j
      PROVE  Ordered(S)[i] < Ordered(S)[j]
  <2> DEFINE a == Ordered(S)[i]
             b == Ordered(S)[j]
  <2>1. a \in Nat /\ b \in Nat /\ Cardinality(Below(S, a)) = i /\ Cardinality(Below(S, b)) = j
    BY <1>2 DEF IsNth
  <2> HIDE DEF a, b
  <2>2. SUFFICES ASSUME b <= a PROVE FALSE
    BY <2>1 DEF a, b
  <2>3. Below(S, b) \subseteq Below(S, a)
    <3>1. \A u \in S : u <= b => u <= a
      <4>1. TAKE u \in S
      <4>2. u \in Nat
        OBVIOUS
      <4> QED
        BY <4>2, <2>1, <2>2
    <3> QED
      BY <3>1 DEF Below
  <2>4. IsFiniteSet(Below(S, a))
    BY FS_Subset DEF Below
  <2>5. Cardinality(Below(S, b)) <= Cardinality(Below(S, a))
    BY <2>3, <2>4, FS_Subset
  <2>6. j <= i
    BY <2>1, <2>5
  <2> QED
    BY <2>6, <1>1, <1>5
<1>6. Range(Ordered(S)) = S
  BY <1>2, <1>4 DEF Range
<1> QED
  BY <1>1, <1>2, <1>3, <1>4, <1>5, <1>6 DEF Rising

\* A set that has the members of a rising sequence at the positions after i up to k.
LEMMA ManyMembers ==
  ASSUME NEW S \in SUBSET Nat, IsFiniteSet(S), NEW seq, Rising(seq, S), NEW B \in SUBSET S,
         NEW i \in Nat, NEW k \in Nat, k <= Len(seq), i <= k, \A p \in (i + 1)..k : seq[p] \in B
  PROVE  IsFiniteSet(B) /\ Cardinality(B) \in Nat /\ Cardinality(B) >= k - i
<1> DEFINE P == (i + 1)..k
           f == [p \in P |-> seq[p]]
<1>1. Len(seq) \in Nat /\ \A p \in P : p \in 1..Len(seq)
  BY DEF Rising
<1>2. IsFiniteSet(P) /\ Cardinality(P) = k - i
  <2>1. i + 1 \in Int /\ k \in Int
    OBVIOUS
  <2>2. IsFiniteSet(P) /\ Cardinality(P) = IF i + 1 > k THEN 0 ELSE k - (i + 1) + 1
    BY <2>1, FS_Interval
  <2> QED
    BY <2>2
<1>3. IsFiniteSet(B) /\ Cardinality(B) \in Nat
  BY FS_Subset, FS_CardinalityType
<1>4. ASSUME NEW p \in P, NEW q \in P, f[p] = f[q]
      PROVE  p = q
  <2>1. p \in 1..Len(seq) /\ q \in 1..Len(seq) /\ p \in Nat /\ q \in Nat /\ seq[p] = seq[q]
    BY <1>1, <1>4
  <2>2. seq[p] \in Nat
    BY <2>1 DEF Rising
  <2>3. ~(p < q) /\ ~(q < p)
    BY <2>1, <2>2 DEF Rising
  <2> QED
    BY <2>1, <2>3
<1>5. f \in Injection(P, B)
  BY <1>4 DEF Injection, IsInjective
<1>6. Cardinality(P) <= Cardinality(B)
  BY <1>3, <1>5, FS_Injection
<1> QED
  BY <1>2, <1>3, <1>6

\* Between two members of a rising sequence lie those between them in it.
LEMMA BetweenPositions ==
  ASSUME NEW S \in SUBSET Nat, IsFiniteSet(S), NEW seq, Rising(seq, S),
         NEW i \in 1..Len(seq), NEW j \in 1..Len(seq), i < j
  PROVE  Cardinality(Between(S, seq[i], seq[j])) >= j - i - 1
<1>1. Len(seq) \in Nat /\ i \in Nat /\ j - 1 \in Nat /\ j - 1 <= Len(seq) /\ i <= j - 1
  BY DEF Rising
<1>2. \A p \in (i + 1)..(j - 1) : p \in 1..Len(seq) /\ i < p /\ p < j
  BY <1>1
<1>3. \A p \in (i + 1)..(j - 1) : seq[p] \in Between(S, seq[i], seq[j])
  BY <1>2 DEF Rising, Between
<1>4. Between(S, seq[i], seq[j]) \in SUBSET S
  BY DEF Between
<1>5. Cardinality(Between(S, seq[i], seq[j])) >= (j - 1) - i
  BY <1>1, <1>3, <1>4, ManyMembers
<1> QED
  BY <1>1, <1>5

\* The last of the sessions have fewer after them.
LEMMA AfterTheLast ==
  ASSUME NEW S \in SUBSET Nat, IsFiniteSet(S), NEW i \in 1..Cardinality(S)
  PROVE  Cardinality(After(S, Ordered(S)[i])) = Cardinality(S) - i
<1> DEFINE t == Ordered(S)[i]
<1>1. IsNth(S, i, t)
  BY OrderedNth
<1> HIDE DEF t
<1>2. t \in Nat /\ \A u \in S : u \in Nat
  BY <1>1 DEF IsNth
<1>3. After(S, t) = S \ Below(S, t) /\ Below(S, t) \subseteq S
  <2>1. \A u \in S : t < u <=> ~(u <= t)
    BY <1>2
  <2> QED
    BY <2>1 DEF After, Below
<1>4. S \cap Below(S, t) = Below(S, t)
  BY <1>3
<1>5. Cardinality(S \ Below(S, t)) = Cardinality(S) - Cardinality(S \cap Below(S, t))
  BY FS_Difference
<1> QED
  BY <1>1, <1>3, <1>4, <1>5 DEF IsNth, t

\* A window cut from a rising sequence.
LEMMA CutRises ==
  ASSUME NEW S \in SUBSET Nat, NEW seq, Rising(seq, S), NEW a \in Nat \ {0}, NEW b \in Int, b <= Len(seq)
  PROVE  /\ Rising(SubSeq(seq, a, b), S)
         /\ \A x \in Range(SubSeq(seq, a, b)) : \E i \in a..b : i \in 1..Len(seq) /\ x = seq[i]
<1>1. Len(seq) \in Nat /\ seq \in Seq(S)
  BY DEF Rising
<1>2. CASE b < a
  <2>1. SubSeq(seq, a, b) = <<>>
    BY <1>1, <1>2
  <2>2. Len(<<>>) = 0 /\ <<>> = [i \in 1..0 |-> <<>>[i]] /\ Range(<<>>) = {}
    BY DEF Range
  <2> QED
    BY <2>1, <2>2 DEF Rising
<1>3. CASE ~(b < a)
  <2> DEFINE n == b - a + 1
             cut == SubSeq(seq, a, b)
  <2>1. n \in Nat /\ \A i \in 1..n : a + i - 1 \in 1..Len(seq) /\ a + i - 1 \in a..b
    BY <1>1, <1>3
  <2>2. Len(cut) = n /\ cut = [i \in 1..n |-> seq[a + i - 1]]
    BY <1>1, <1>3
  <2> HIDE DEF n, cut
  <2>3. \A i, j \in 1..n : i < j => cut[i] < cut[j]
    <3> SUFFICES ASSUME NEW i \in 1..n, NEW j \in 1..n, i < j PROVE cut[i] < cut[j]
      OBVIOUS
    <3>1. a + i - 1 \in 1..Len(seq) /\ a + j - 1 \in 1..Len(seq) /\ a + i - 1 < a + j - 1
      BY <2>1
    <3>2. seq[a + i - 1] < seq[a + j - 1]
      BY <3>1 DEF Rising
    <3> QED
      BY <2>2, <3>2
  <2>4. \A i \in 1..n : cut[i] \in S
    BY <2>1, <2>2 DEF Rising
  <2>5. Rising(cut, S)
    BY <2>1, <2>2, <2>3, <2>4 DEF Rising
  <2>6. \A x \in Range(cut) : \E i \in 1..n : x = seq[a + i - 1]
    BY <2>2 DEF Range
  <2> QED
    BY <2>1, <2>5, <2>6 DEF cut
<1> QED
  BY <1>2, <1>3

IsCut(S, seq, a, b) ==
  /\ Rising(SubSeq(seq, a, b), S)
  /\ \A x \in Range(SubSeq(seq, a, b)) : \E i \in a..b : i \in 1..Len(seq) /\ x = seq[i]

LEMMA CutIsCut ==
  ASSUME NEW S \in SUBSET Nat, NEW seq, Rising(seq, S), NEW a \in Nat \ {0}, NEW b \in Int, b <= Len(seq)
  PROVE  IsCut(S, seq, a, b)
BY CutRises DEF IsCut

\* Sessions enough lie between each of the one window and a later one of the other.
ApartIn(S, before, after) ==
  \A a \in Range(before), b \in Range(after) :
    a < b => Cardinality(Between(S, a, b)) >= Gap

LEMMA GapIsNat ==
  Gap \in Nat /\ LabelHorizon \in Nat \ {0} /\ Embargo \in Nat /\ Gap = LabelHorizon + Embargo
  BY LabelsAssumption, TrainingAssumption DEF Gap

LEMMA CutsApart ==
  ASSUME NEW S \in SUBSET Nat, IsFiniteSet(S), NEW seq, Rising(seq, S),
         NEW a \in Nat \ {0}, NEW b \in Int, b <= Len(seq),
         NEW c \in Nat \ {0}, NEW e \in Int, e <= Len(seq),
         c - b > Gap
  PROVE  ApartIn(S, SubSeq(seq, a, b), SubSeq(seq, c, e))
<1> SUFFICES ASSUME NEW x \in Range(SubSeq(seq, a, b)), NEW y \in Range(SubSeq(seq, c, e))
             PROVE  Cardinality(Between(S, x, y)) >= Gap
  BY DEF ApartIn
<1>0. /\ \A z \in Range(SubSeq(seq, a, b)) : \E i \in a..b : i \in 1..Len(seq) /\ z = seq[i]
      /\ \A z \in Range(SubSeq(seq, c, e)) : \E i \in c..e : i \in 1..Len(seq) /\ z = seq[i]
  BY CutRises
<1>1. PICK i \in a..b : i \in 1..Len(seq) /\ x = seq[i]
  BY <1>0
<1>2. PICK j \in c..e : j \in 1..Len(seq) /\ y = seq[j]
  BY <1>0
<1>3. i < j /\ j - i - 1 >= Gap
  BY <1>1, <1>2, GapIsNat
<1>4. Cardinality(Between(S, x, y)) >= j - i - 1
  BY <1>1, <1>2, <1>3, BetweenPositions
<1>5. Cardinality(Between(S, x, y)) \in Nat
  <2>1. Between(S, x, y) \subseteq S
    BY DEF Between
  <2> QED
    BY <2>1, FS_Subset, FS_CardinalityType
<1> QED
  BY <1>3, <1>4, <1>5, GapIsNat

LEMMA FitApart ==
  ASSUME NEW S \in SUBSET Nat, IsFiniteSet(S), NEW train, Rising(train, S)
  PROVE  ApartIn(S, FitWindow(train).fit, FitWindow(train).val)
<1> DEFINE L == Len(train)
           b == Max({0, L - ValSize - Gap})
           c == Max({L - ValSize, 0}) + 1
<1>1. L \in Nat /\ Gap \in Nat /\ ValSize \in Nat \ {0}
  BY GapIsNat, TrainingAssumption DEF Rising
<1>2. /\ FitWindow(train).fit = SubSeq(train, 1, b) /\ FitWindow(train).val = SubSeq(train, c, L)
  BY DEF FitWindow, FirstOf, LastOf
<1>3. b = (IF 0 >= L - ValSize - Gap THEN 0 ELSE L - ValSize - Gap)
  BY <1>1, MaxOfTwo
<1>4. c = (IF L - ValSize >= 0 THEN L - ValSize ELSE 0) + 1
  BY <1>1, MaxOfTwo
<1> HIDE DEF b, c
<1>5. b \in Nat /\ b <= L /\ c \in Nat \ {0}
  BY <1>1, <1>3, <1>4
<1>6. CASE b = 0
  <2>1. SubSeq(train, 1, 0) = <<>> /\ Range(<<>>) = {}
    BY <1>1 DEF Range, Rising
  <2> QED
    BY <1>2, <1>6, <2>1 DEF ApartIn
<1>7. CASE b # 0
  <2>1. b = L - ValSize - Gap /\ ~(0 >= L - ValSize - Gap)
    BY <1>3, <1>7
  <2>2. c = L - ValSize + 1
    <3>1. L - ValSize >= 0
      BY <1>1, <2>1
    <3> QED
      BY <1>4, <3>1
  <2>3. c - b > Gap
    BY <1>1, <2>1, <2>2
  <2>4. 1 \in Nat \ {0} /\ b \in Int /\ b <= Len(train) /\ L \in Int /\ L <= Len(train)
    BY <1>1, <1>5
  <2> QED
    BY <1>2, <1>5, <2>3, <2>4, CutsApart
<1> QED
  BY <1>6, <1>7

-----------------------------------------------------------------------------
(* A history and a longer one                                              *)

LEMMA SumAgrees ==
  ASSUME NEW S, NEW f, NEW g, \A x \in S : f[x] = g[x]
  PROVE  SumFunctionOnSet(f, S) = SumFunctionOnSet(g, S)
<1> DEFINE Sums(h, iter) == iter = [s \in SUBSET S |-> SumUpTo(h, s, iter)]
<1>1. ASSUME NEW h
      PROVE  SumFunctionOnSet(h, S) = (CHOOSE iter : Sums(h, iter))[S]
  <2>1. SumFunctionOnSet(h, S) = (CHOOSE iter : iter =
           [s \in SUBSET S |->
              IF s = {} THEN 0 ELSE h[CHOOSE x \in s : TRUE] + iter[s \ {CHOOSE x \in s : TRUE}]])[S]
    BY Zenon DEF SumFunctionOnSet, FoldFunctionOnSet, MapThenFoldSet
  <2> QED
    BY <2>1, Zenon DEF SumUpTo, Some
<1>2. ASSUME NEW iter
      PROVE  [s \in SUBSET S |-> SumUpTo(f, s, iter)] = [s \in SUBSET S |-> SumUpTo(g, s, iter)]
  <2>1. ASSUME NEW s \in SUBSET S
        PROVE  SumUpTo(f, s, iter) = SumUpTo(g, s, iter)
    <3>1. s # {} => Some(s) \in S
      BY DEF Some
    <3> QED
      BY <3>1 DEF SumUpTo
  <2> QED
    BY <2>1
<1>3. ASSUME NEW iter
      PROVE  Sums(f, iter) = Sums(g, iter)
  BY <1>2
<1> HIDE DEF Sums
<1>4. (CHOOSE iter : Sums(f, iter)) = (CHOOSE iter : Sums(g, iter))
  BY <1>3, Zenon
<1> QED
  BY <1>1, <1>4

\* The bars g are the bars h of the sessions 1..t and more, up to u.
Longer(h, t, g, u) ==
  /\ t \in Nat \ {0} /\ u \in Nat /\ t <= u
  /\ \A s \in Names : /\ DOMAIN h[s] = 1..t /\ DOMAIN g[s] = 1..u
                      /\ \A d \in 1..t : h[s][d] = g[s][d]

LEMMA SessionsAreDays ==
  ASSUME NEW h, NEW t, NEW g, NEW u, Longer(h, t, g, u)
  PROVE  /\ Sessions(h) = 1..t /\ Sessions(g) = 1..u /\ t \in Nat /\ u \in Nat /\ t <= u
         /\ \A d \in 1..t : d \in 1..u /\ 1..d \subseteq 1..t
<1>1. Names # {}
  BY LabelsAssumption
<1>2. Sessions(h) = 1..t /\ Sessions(g) = 1..u
  BY <1>1 DEF Longer, Sessions
<1>3. t \in Nat /\ u \in Nat /\ t <= u
  BY DEF Longer
<1> QED
  BY <1>2, <1>3

\* What is read of a name up to a session of both.
LEMMA SameBars ==
  ASSUME NEW h, NEW t, NEW g, NEW u, Longer(h, t, g, u), NEW s \in Names, NEW d \in 1..t
  PROVE  /\ h[s][d] = g[s][d] /\ Traded(h, s, d) = Traded(g, s, d)
         /\ Depth(h, s, d) = Depth(g, s, d)
         /\ LiquidityBars(h, s, d) = LiquidityBars(g, s, d)
         /\ LiquidityBars(h, s, d) \subseteq 1..t
<1>1. \A e \in 1..t : h[s][e] = g[s][e] /\ Traded(h, s, e) = Traded(g, s, e)
  BY DEF Longer, Traded
<1>2. ASSUME NEW e \in 1..t
      PROVE  Depth(h, s, e) = Depth(g, s, e)
  <2>1. 1..e \subseteq 1..t
    BY SessionsAreDays
  <2>2. {c \in 1..e : Traded(h, s, c)} = {c \in 1..e : Traded(g, s, c)}
    BY <2>1, <1>1
  <2> QED
    BY <2>2 DEF Depth
<1>3. 1..d \subseteq 1..t
  BY SessionsAreDays
<1>4. \A e \in 1..d : /\ Traded(h, s, e) = Traded(g, s, e)
                      /\ Depth(h, s, d) - Depth(h, s, e) = Depth(g, s, d) - Depth(g, s, e)
  BY <1>1, <1>2, <1>3
<1>5. LiquidityBars(h, s, d) = LiquidityBars(g, s, d)
  BY <1>4 DEF LiquidityBars
<1>6. LiquidityBars(h, s, d) \subseteq 1..t
  BY <1>3 DEF LiquidityBars
<1> QED
  BY <1>1, <1>2, <1>5, <1>6

LEMMA SameSelection ==
  ASSUME NEW h, NEW t, NEW g, NEW u, Longer(h, t, g, u), NEW d \in 1..t
  PROVE  Selected(h, d) = Selected(g, d) /\ Selected(h, d) \subseteq Names
<1>1. Candidates(h, d) = Candidates(g, d) /\ Candidates(h, d) \subseteq Names
  <2>1. \A s \in Names : /\ Traded(h, s, d) = Traded(g, s, d) /\ Depth(h, s, d) = Depth(g, s, d)
                         /\ LiquidityBars(h, s, d) = LiquidityBars(g, s, d)
    BY SameBars
  <2> QED
    BY <2>1 DEF Candidates
<1>2. Liquidity(h, d) = Liquidity(g, d)
  <2>1. ASSUME NEW s \in Candidates(h, d)
        PROVE  [e \in LiquidityBars(h, s, d) |-> h[s][e].v] = [e \in LiquidityBars(g, s, d) |-> g[s][e].v]
    <3>1. s \in Names
      BY <1>1
    <3>2. LiquidityBars(h, s, d) = LiquidityBars(g, s, d) /\ LiquidityBars(h, s, d) \subseteq 1..t
      BY <3>1, SameBars
    <3>3. \A e \in LiquidityBars(h, s, d) : h[s][e].v = g[s][e].v
      BY <3>1, <3>2, SameBars
    <3> QED
      BY <3>2, <3>3
  <2>2. \A s \in Candidates(h, d) : Median([e \in LiquidityBars(h, s, d) |-> h[s][e].v])
                                      = Median([e \in LiquidityBars(g, s, d) |-> g[s][e].v])
    BY <2>1
  <2> QED
    BY <2>2, <1>1 DEF Liquidity
<1>3. Selected(h, d) \subseteq Candidates(h, d)
  BY DEF Selected, TopNames, Liquidity
<1> QED
  BY <1>1, <1>2, <1>3 DEF Selected

\* Two sequences of what is said of each session say the same up to t.
SameUpTo(a, b, t) == \A d \in 1..t : a[d] = b[d]
IsUpTo(a, t) == a = [d \in 1..t |-> a[d]]

LEMMA SameUniverse ==
  ASSUME NEW h, NEW t, NEW g, NEW u, Longer(h, t, g, u)
  PROVE  /\ IsUpTo(BuildUniverse(h), t) /\ IsUpTo(BuildUniverse(g), u)
         /\ SameUpTo(BuildUniverse(h), BuildUniverse(g), t)
         /\ \A d \in 1..t : BuildUniverse(h)[d] \subseteq Names
<1>1. Sessions(h) = 1..t /\ Sessions(g) = 1..u /\ t \in Nat /\ u \in Nat /\ t <= u
  BY SessionsAreDays
<1> DEFINE Latest(p, d) == {c \in RebalanceDates(p) : c <= d /\ \A e \in RebalanceDates(p) : e <= c \/ d < e}
<1>2. ASSUME NEW p
      PROVE  BuildUniverse(p) = [d \in Sessions(p) |-> UNION {Selected(p, c) : c \in Latest(p, d)}]
  BY DEF BuildUniverse
<1>3. /\ RebalanceDates(h) \subseteq 1..t /\ RebalanceDates(g) \subseteq 1..u
      /\ \A c \in 1..t : c \in RebalanceDates(h) <=> c \in RebalanceDates(g)
  <2>1. \A c \in 1..t : c \in 1..u
    BY <1>1
  <2> QED
    BY <1>1, <2>1 DEF RebalanceDates
<1>4. ASSUME NEW d \in 1..t
      PROVE  Latest(h, d) = Latest(g, d) /\ Latest(h, d) \subseteq 1..t
  <2>1. ASSUME NEW c \in RebalanceDates(g), ~(d < c)
        PROVE  c \in RebalanceDates(h)
    <3>1. c \in 1..u
      BY <1>3
    <3>2. c \in 1..t
      BY <3>1, <2>1, <1>1
    <3> QED
      BY <3>2, <1>3
  <2>2. ASSUME NEW c \in RebalanceDates(g), c <= d
        PROVE  c \in RebalanceDates(h)
    <3>1. c \in 1..u
      BY <1>3
    <3>2. ~(d < c)
      BY <3>1, <2>2, <1>1
    <3> QED
      BY <3>2, <2>1
  <2>3. RebalanceDates(h) \subseteq RebalanceDates(g)
    BY <1>3
  <2> QED
    BY <2>1, <2>2, <2>3, <1>3, Zenon
<1> HIDE DEF Latest
<1>5. ASSUME NEW d \in 1..t
      PROVE  /\ BuildUniverse(h)[d] = BuildUniverse(g)[d] /\ BuildUniverse(h)[d] \subseteq Names
  <2>1. \A c \in Latest(h, d) : Selected(h, c) = Selected(g, c) /\ Selected(h, c) \subseteq Names
    BY <1>4, SameSelection
  <2>2. {Selected(h, c) : c \in Latest(h, d)} = {Selected(g, c) : c \in Latest(g, d)}
    BY <2>1, <1>4
  <2>3. d \in 1..u
    BY <1>1
  <2>4. /\ BuildUniverse(h)[d] = UNION {Selected(h, c) : c \in Latest(h, d)}
        /\ BuildUniverse(g)[d] = UNION {Selected(g, c) : c \in Latest(g, d)}
    BY <2>3, <1>1, <1>2
  <2> QED
    BY <2>1, <2>2, <2>4
<1>6. IsUpTo(BuildUniverse(h), t) /\ IsUpTo(BuildUniverse(g), u)
  BY <1>1, <1>2 DEF IsUpTo
<1> QED
  BY <1>5, <1>6 DEF SameUpTo

LEMMA SameEveryone ==
  ASSUME NEW h, NEW t, NEW g, NEW u, Longer(h, t, g, u)
  PROVE  /\ IsUpTo(Everyone(h), t) /\ IsUpTo(Everyone(g), u)
         /\ SameUpTo(Everyone(h), Everyone(g), t)
         /\ \A d \in 1..t : Everyone(h)[d] \subseteq Names
<1>1. Sessions(h) = 1..t /\ Sessions(g) = 1..u /\ \A d \in 1..t : d \in 1..u
  BY SessionsAreDays
<1> QED
  BY <1>1 DEF Everyone, SameUpTo, IsUpTo

\* The benchmark of a session is of sessions up to it.
LEMMA SameLevels ==
  ASSUME NEW h, NEW t, NEW g, NEW u, Longer(h, t, g, u), NEW a, NEW b,
         SameUpTo(a, b, t), \A d \in 1..t : a[d] \subseteq Names
  PROVE  /\ IsUpTo(MarketLevels(h, a), t) /\ IsUpTo(MarketLevels(g, b), u)
         /\ SameUpTo(MarketLevels(h, a), MarketLevels(g, b), t)
<1>1. Sessions(h) = 1..t /\ Sessions(g) = 1..u /\ t \in Nat /\ u \in Nat /\ t <= u
  BY SessionsAreDays
<1>2. ASSUME NEW d \in 2..t
      PROVE  Here(h, a, d) = Here(g, b, d) /\ Move(h, a, d) = Move(g, b, d)
  <2>1. d \in 1..t /\ d - 1 \in 1..t
    BY <1>1
  <2>2. a[d] = b[d] /\ a[d] \subseteq Names
    BY <2>1 DEF SameUpTo
  <2>3. \A s \in Names : /\ Traded(h, s, d) = Traded(g, s, d) /\ Traded(h, s, d - 1) = Traded(g, s, d - 1)
                         /\ h[s][d] = g[s][d] /\ h[s][d - 1] = g[s][d - 1]
    BY <2>1, SameBars
  <2>4. Here(h, a, d) = Here(g, b, d) /\ Here(h, a, d) \subseteq Names
    BY <2>2, <2>3 DEF Here
  <2>5. [s \in Here(h, a, d) |-> h[s][d].p - h[s][d - 1].p] = [s \in Here(g, b, d) |-> g[s][d].p - g[s][d - 1].p]
    BY <2>3, <2>4
  <2>6. Move(h, a, d) = Move(g, b, d)
    BY <2>4, <2>5, Zenon DEF Move
  <2> QED
    BY <2>4, <2>6
<1> DEFINE F(p, w) == [d \in Sessions(p) \ {1} |-> Move(p, w, d)]
<1>3. ASSUME NEW p, NEW w
      PROVE  MarketLevels(p, w) = [d \in Sessions(p) |-> SumFunctionOnSet(F(p, w), 2..d)]
  BY DEF MarketLevels
<1>4. \A d \in 2..t : F(h, a)[d] = F(g, b)[d]
  BY <1>1, <1>2
<1> HIDE DEF F
<1>5. ASSUME NEW d \in 1..t
      PROVE  SumFunctionOnSet(F(h, a), 2..d) = SumFunctionOnSet(F(g, b), 2..d)
  <2>1. \A c \in 2..d : c \in 2..t
    BY <1>1
  <2>2. \A c \in 2..d : F(h, a)[c] = F(g, b)[c]
    BY <2>1, <1>4
  <2> QED
    BY <2>2, SumAgrees
<1>6. \A d \in 1..t : d \in 1..u
  BY <1>1
<1> QED
  BY <1>1, <1>3, <1>5, <1>6 DEF SameUpTo, IsUpTo

-----------------------------------------------------------------------------
(* Labels of a history and of a longer one                                 *)

LEMMA WidthStays ==
  ASSUME NEW p, NEW q, NEW n \in Nat, \A j \in 1..n : p[j] = q[j],
         NEW i \in Nat, i <= n, SigmaWindow < i
  PROVE  TrailingWidth(p, i) = TrailingWidth(q, i)
<1>1. SigmaWindow \in Nat
  BY LabelsAssumption
<1>2. \A k \in (i - SigmaWindow + 1)..i : k \in 1..n /\ k - 1 \in 1..n
  BY <1>1
<1>3. {p[k] - p[k - 1] : k \in (i - SigmaWindow + 1)..i} = {q[k] - q[k - 1] : k \in (i - SigmaWindow + 1)..i}
  BY <1>2
<1> QED
  BY <1>3 DEF TrailingWidth

\* A label given by the bars of a path is the label of every path that goes on
\* from there.
LEMMA LabelStays ==
  ASSUME NEW p, NEW q, NEW n \in Nat, NEW k \in Nat, Len(p) = n, Len(q) = k, n <= k,
         \A j \in 1..n : p[j] = q[j], NEW i \in Nat, ExcessBarrierLabel(p, i).label # -1
  PROVE  /\ ExcessBarrierLabel(q, i) = ExcessBarrierLabel(p, i)
         /\ ExcessBarrierLabel(p, i).touch \in 1..n
<1>1. SigmaWindow \in Nat /\ LabelHorizon \in Nat /\ i + LabelHorizon \in Nat
  BY LabelsAssumption
<1>2. NoLabel.label = -1
  BY DEF NoLabel
<1>3. ~(i >= n) /\ ~(i <= SigmaWindow) /\ ~(i >= k)
  BY <1>1, <1>2 DEF ExcessBarrierLabel
<1>4. i \in 1..n /\ p[i] = q[i] /\ i <= n /\ SigmaWindow < i
  BY <1>1, <1>3
<1>5. TrailingWidth(p, i) = TrailingWidth(q, i)
  BY <1>4, WidthStays
<1>6. TrailingWidth(p, i) # 0
  BY <1>2, <1>3 DEF ExcessBarrierLabel
<1>7. /\ ScanEnd(p, i) = (IF i + LabelHorizon <= n THEN i + LabelHorizon ELSE n)
      /\ ScanEnd(q, i) = (IF i + LabelHorizon <= k THEN i + LabelHorizon ELSE k)
  BY <1>1, MinOfTwo DEF ScanEnd
<1>8. /\ ScanEnd(p, i) \in Nat /\ ScanEnd(p, i) <= n /\ ScanEnd(q, i) \in Nat
      /\ ScanEnd(p, i) <= ScanEnd(q, i)
  BY <1>1, <1>7
<1>9. \A j \in (i + 1)..ScanEnd(p, i) : j \in 1..n /\ j \in (i + 1)..ScanEnd(q, i) /\ p[j] = q[j]
  BY <1>4, <1>8
<1>10. Touched(p, i) \subseteq Touched(q, i)
  BY <1>4, <1>5, <1>9 DEF Touched
<1>11. \A j \in Touched(q, i) : j <= ScanEnd(p, i) => j \in Touched(p, i)
  <2>1. SUFFICES ASSUME NEW j \in Touched(q, i), j <= ScanEnd(p, i) PROVE j \in Touched(p, i)
    OBVIOUS
  <2>2. j \in (i + 1)..ScanEnd(q, i)
    BY DEF Touched
  <2>3. j \in (i + 1)..ScanEnd(p, i)
    BY <2>1, <2>2, <1>8
  <2> QED
    BY <2>3, <1>4, <1>5, <1>9 DEF Touched
<1>12. /\ \A j \in Touched(p, i) : j \in Nat /\ j \in 1..n /\ j <= ScanEnd(p, i)
       /\ \A j \in Touched(q, i) : j \in Nat
  <2>1. Touched(p, i) \subseteq (i + 1)..ScanEnd(p, i) /\ Touched(q, i) \subseteq (i + 1)..ScanEnd(q, i)
    BY DEF Touched
  <2> QED
    BY <2>1, <1>9, <1>8
<1>13. CASE Touched(p, i) # {}
  <2> DEFINE a == Min(Touched(p, i))
             b == Min(Touched(q, i))
  <2>1. a \in Touched(p, i) /\ \A j \in Touched(p, i) : a <= j
    <3>1. Touched(p, i) \in SUBSET Nat
      BY <1>12
    <3> QED
      BY <3>1, <1>13, MinIsLeast
  <2>2. b \in Touched(q, i) /\ \A j \in Touched(q, i) : b <= j
    <3>1. Touched(q, i) \in SUBSET Nat /\ Touched(q, i) # {}
      BY <1>10, <1>12, <1>13
    <3> QED
      BY <3>1, MinIsLeast
  <2> HIDE DEF a, b
  <2>3. a \in Nat /\ b \in Nat /\ a \in 1..n /\ a <= ScanEnd(p, i) /\ b <= a
    BY <2>1, <2>2, <1>10, <1>12
  <2>4. b \in Touched(p, i)
    BY <2>2, <2>3, <1>8, <1>11
  <2>5. a = b
    BY <2>1, <2>3, <2>4
  <2>6. Touched(q, i) # {} /\ p[a] = q[a]
    BY <2>2, <2>3
  <2>7. ExcessBarrierLabel(p, i) = IF p[a] - p[i] <= -TrailingWidth(p, i)
                                   THEN [label |-> 0, touch |-> a, barrier |-> "lower"]
                                   ELSE [label |-> 1, touch |-> a, barrier |-> "upper"]
    BY <1>3, <1>6, <1>13 DEF ExcessBarrierLabel, a
  <2>8. ExcessBarrierLabel(q, i) = IF q[b] - q[i] <= -TrailingWidth(q, i)
                                   THEN [label |-> 0, touch |-> b, barrier |-> "lower"]
                                   ELSE [label |-> 1, touch |-> b, barrier |-> "upper"]
    BY <1>3, <1>5, <1>6, <2>6 DEF ExcessBarrierLabel, b
  <2>9. ExcessBarrierLabel(q, i) = ExcessBarrierLabel(p, i)
    BY <2>5, <2>6, <2>7, <2>8, <1>4, <1>5
  <2>10. ExcessBarrierLabel(p, i).touch = a
    BY <2>7
  <2> QED
    BY <2>3, <2>9, <2>10
<1>14. CASE Touched(p, i) = {}
  <2> DEFINE e == ScanEnd(p, i)
  <2>1. ~(ScanEnd(p, i) < i + LabelHorizon)
    BY <1>2, <1>3, <1>6, <1>14 DEF ExcessBarrierLabel
  <2>2. ScanEnd(p, i) = i + LabelHorizon /\ ScanEnd(q, i) = i + LabelHorizon /\ i + LabelHorizon <= n
    BY <2>1, <1>1, <1>7
  <2>3. Touched(q, i) = {}
    <3>1. \A j \in Touched(q, i) : j <= ScanEnd(p, i)
      BY <2>2, <1>1 DEF Touched
    <3> QED
      BY <3>1, <1>11, <1>14
  <2>4. e \in 1..n /\ p[e] = q[e]
    BY <2>2, <1>1, <1>4
  <2>5. ExcessBarrierLabel(p, i) =
          [label |-> IF p[e] - p[i] > 0 THEN 1 ELSE 0, touch |-> e, barrier |-> "vertical"]
    BY <1>3, <1>6, <1>14, <2>1 DEF ExcessBarrierLabel
  <2>6. e = ScanEnd(q, i)
    BY <2>2
  <2>7. ExcessBarrierLabel(q, i) =
          [label |-> IF q[e] - q[i] > 0 THEN 1 ELSE 0, touch |-> e, barrier |-> "vertical"]
    BY <1>3, <1>5, <1>6, <2>1, <2>3, <2>6 DEF ExcessBarrierLabel
  <2> HIDE DEF e
  <2> QED
    BY <2>4, <2>5, <2>7, <1>4
<1> QED
  BY <1>13, <1>14

\* The bars of a name, its path and its place, in both histories.
LEMMA SamePath ==
  ASSUME NEW h, NEW t, NEW g, NEW u, Longer(h, t, g, u), NEW l, NEW m, SameUpTo(l, m, t),
         NEW s \in Names
  PROVE  \E n, k \in Nat :
           /\ n <= k /\ Len(ExcessPath(h, l, s)) = n /\ Len(ExcessPath(g, m, s)) = k
           /\ \A i \in 1..n : /\ OwnBars(h, s)[i] = OwnBars(g, s)[i]
                              /\ ExcessPath(h, l, s)[i] = ExcessPath(g, m, s)[i]
<1> DEFINE S == {d \in DOMAIN h[s] : Traded(h, s, d)}
           T == {d \in DOMAIN g[s] : Traded(g, s, d)}
<1>1. /\ DOMAIN h[s] = 1..t /\ DOMAIN g[s] = 1..u
      /\ t \in Nat /\ u \in Nat /\ t <= u
  BY DEF Longer
<1>2. \A d \in 1..t : Traded(h, s, d) = Traded(g, s, d)
  BY SameBars
<1>3. S \in SUBSET Nat /\ T \in SUBSET Nat /\ S \subseteq T /\ S \subseteq 1..t /\ T \subseteq 1..u
  BY <1>1, <1>2
<1>4. IsFiniteSet(T) /\ IsFiniteSet(S)
  <2>1. 1 \in Int /\ t \in Int /\ u \in Int
    BY <1>1
  <2>2. IsFiniteSet(1..u) /\ IsFiniteSet(1..t)
    BY <2>1, FS_Interval
  <2> QED
    BY <1>3, <2>2, FS_Subset
<1>5. \A d \in S, e \in T \ S : d < e
  <2> SUFFICES ASSUME NEW d \in S, NEW e \in T, e \notin S PROVE d < e
    OBVIOUS
  <2>1. e \notin 1..t
    BY <1>1, <1>2
  <2>2. e \in 1..u /\ d \in 1..t
    BY <1>3
  <2> QED
    BY <2>1, <2>2, <1>1
<1>6. OwnBars(h, s) = Ordered(S) /\ OwnBars(g, s) = Ordered(T)
  BY DEF OwnBars
<1> HIDE DEF S, T
<1> DEFINE n == Cardinality(S)
           k == Cardinality(T)
<1>7. n \in Nat /\ k \in Nat /\ n <= k /\ \A i \in 1..n : Ordered(S)[i] = Ordered(T)[i]
  BY <1>3, <1>4, <1>5, OrderedPrefix
<1>8. /\ DOMAIN Ordered(S) = 1..n /\ DOMAIN Ordered(T) = 1..k
      /\ \A i \in 1..n : Ordered(S)[i] \in S
  <2>1. DOMAIN Ordered(T) = 1..k
    BY <1>3, <1>4, OrderedNth
  <2>2. DOMAIN Ordered(S) = 1..n /\ \A i \in 1..n : IsNth(S, i, Ordered(S)[i])
    BY <1>3, <1>4, OrderedNth
  <2> QED
    BY <2>1, <2>2 DEF IsNth
<1> HIDE DEF n, k
<1>9. /\ ExcessPath(h, l, s) = [i \in 1..n |-> 2 * h[s][Ordered(S)[i]].p - l[Ordered(S)[i]]]
      /\ ExcessPath(g, m, s) = [i \in 1..k |-> 2 * g[s][Ordered(T)[i]].p - m[Ordered(T)[i]]]
  BY <1>6, <1>8 DEF ExcessPath
<1>10. Len(ExcessPath(h, l, s)) = n /\ Len(ExcessPath(g, m, s)) = k
  BY <1>7, <1>9
<1>11. ASSUME NEW i \in 1..n
       PROVE  ExcessPath(h, l, s)[i] = ExcessPath(g, m, s)[i]
  <2> DEFINE d == Ordered(S)[i]
  <2>1. d \in 1..t /\ Ordered(T)[i] = d
    BY <1>3, <1>7, <1>8
  <2> HIDE DEF d
  <2>2. h[s][d] = g[s][d] /\ l[d] = m[d]
    BY <2>1, SameBars DEF SameUpTo
  <2>3. i \in 1..k
    BY <1>7
  <2>4. ExcessPath(h, l, s)[i] = 2 * h[s][d].p - l[d]
    BY <1>9 DEF d
  <2>5. ExcessPath(g, m, s)[i] = 2 * g[s][d].p - m[d]
    BY <1>9, <2>1, <2>3
  <2> QED
    BY <2>2, <2>4, <2>5
<1> QED
  BY <1>6, <1>7, <1>10, <1>11

LEMMA RowStays ==
  ASSUME NEW h, NEW t, NEW g, NEW u, Longer(h, t, g, u), NEW l, NEW m, SameUpTo(l, m, t),
         NEW s \in Names, NEW d \in 1..t,
         RowOf(h, OwnBars(h, s), ExcessPath(h, l, s), s, d).label # -1
  PROVE  RowOf(h, OwnBars(h, s), ExcessPath(h, l, s), s, d)
           = RowOf(g, OwnBars(g, s), ExcessPath(g, m, s), s, d)
<1> DEFINE p == ExcessPath(h, l, s)
           q == ExcessPath(g, m, s)
           i == Depth(h, s, d)
<1>1. i = Depth(g, s, d)
  BY SameBars
<1>2. i \in Nat
  <2>1. IsFiniteSet(1..d)
    BY FS_Interval
  <2>2. {c \in 1..d : Traded(h, s, c)} \subseteq 1..d
    OBVIOUS
  <2>3. IsFiniteSet({c \in 1..d : Traded(h, s, c)})
    BY <2>1, <2>2, FS_Subset
  <2> QED
    BY <2>3, FS_CardinalityType DEF Depth
<1>3. PICK n, k \in Nat :
        /\ n <= k /\ Len(p) = n /\ Len(q) = k
        /\ \A j \in 1..n : OwnBars(h, s)[j] = OwnBars(g, s)[j] /\ p[j] = q[j]
  BY SamePath
<1> HIDE DEF i, p, q
<1> DEFINE Made(own, label) ==
             [name |-> s, session |-> d, first |-> i, last |-> label.touch, label |-> label.label,
              barrier |-> label.barrier, touch |-> IF label = NoLabel THEN 0 ELSE own[label.touch]]
<1>4. i = Depth(h, s, d) /\ i = Depth(g, s, d)
  BY <1>1 DEF i
<1>5. /\ RowOf(h, OwnBars(h, s), p, s, d) = Made(OwnBars(h, s), ExcessBarrierLabel(p, i))
      /\ RowOf(g, OwnBars(g, s), q, s, d) = Made(OwnBars(g, s), ExcessBarrierLabel(q, i))
  BY <1>4 DEF RowOf
<1>6. ExcessBarrierLabel(p, i).label # -1
  <2>1. RowOf(h, OwnBars(h, s), p, s, d).label = ExcessBarrierLabel(p, i).label
    BY <1>5
  <2> QED
    BY <2>1 DEF p
<1>7. /\ ExcessBarrierLabel(q, i) = ExcessBarrierLabel(p, i)
      /\ ExcessBarrierLabel(p, i).touch \in 1..n
  BY <1>2, <1>3, <1>6, LabelStays
<1>8. RowOf(h, OwnBars(h, s), p, s, d) = RowOf(g, OwnBars(g, s), q, s, d)
  BY <1>3, <1>5, <1>7
<1> QED
  BY <1>8 DEF p, q

LEMMA RowsStay ==
  ASSUME NEW h, NEW t, NEW g, NEW u, Longer(h, t, g, u), NEW l, NEW m, SameUpTo(l, m, t),
         NEW a, NEW b, SameUpTo(a, b, t), \A d \in 1..t : a[d] \subseteq Names
  PROVE  BuildDataset(h, a, l) \subseteq BuildDataset(g, b, m)
<1>1. Sessions(h) = 1..t /\ Sessions(g) = 1..u /\ \A d \in 1..t : d \in 1..u
  BY SessionsAreDays
<1>2. ASSUME NEW d \in 1..t
      PROVE  CrossSection(h, a, d) = CrossSection(g, b, d) /\ CrossSection(h, a, d) \subseteq Names
  <2>1. a[d] = b[d] /\ a[d] \subseteq Names
    BY DEF SameUpTo
  <2>2. \A s \in Names : Traded(h, s, d) = Traded(g, s, d) /\ Depth(h, s, d) = Depth(g, s, d)
    BY SameBars
  <2> QED
    BY <2>1, <2>2 DEF CrossSection
<1> DEFINE Wide(x, w) == {d \in Sessions(x) : Cardinality(CrossSection(x, w, d)) >= MinUniverse}
           Own(x) == [s \in Names |-> OwnBars(x, s)]
           Path(x, v) == [s \in Names |-> ExcessPath(x, v, s)]
           RowsOf(x, w, v, d) == {RowOf(x, Own(x)[s], Path(x, v)[s], s, d) : s \in CrossSection(x, w, d)}
<1>3. ASSUME NEW x, NEW w, NEW v
      PROVE  BuildDataset(x, w, v) = {r \in UNION {RowsOf(x, w, v, d) : d \in Wide(x, w)} : r.label # -1}
  BY Zenon DEF BuildDataset
<1>4. ASSUME NEW x, NEW v, NEW s \in Names
      PROVE  Own(x)[s] = OwnBars(x, s) /\ Path(x, v)[s] = ExcessPath(x, v, s)
  OBVIOUS
<1>5. \A d \in Wide(h, a) : d \in 1..t /\ d \in Wide(g, b)
  BY <1>1, <1>2
<1> HIDE DEF Wide, Own, Path
<1> SUFFICES ASSUME NEW r \in BuildDataset(h, a, l) PROVE r \in BuildDataset(g, b, m)
  OBVIOUS
<1>6. r.label # -1 /\ r \in UNION {RowsOf(h, a, l, d) : d \in Wide(h, a)}
  BY <1>3
<1>7. PICK d \in Wide(h, a) : r \in RowsOf(h, a, l, d)
  BY <1>6
<1>8. PICK s \in CrossSection(h, a, d) : r = RowOf(h, Own(h)[s], Path(h, l)[s], s, d)
  BY <1>7
<1>9. d \in 1..t /\ d \in Wide(g, b) /\ s \in Names /\ s \in CrossSection(g, b, d)
  BY <1>2, <1>5, <1>8
<1>10. r = RowOf(h, OwnBars(h, s), ExcessPath(h, l, s), s, d)
  BY <1>4, <1>8, <1>9
<1>11. r = RowOf(g, OwnBars(g, s), ExcessPath(g, m, s), s, d)
  BY <1>6, <1>9, <1>10, RowStays
<1>12. r = RowOf(g, Own(g)[s], Path(g, m)[s], s, d)
  BY <1>4, <1>9, <1>11
<1>13. r \in RowsOf(g, b, m, d)
  BY <1>9, <1>12
<1> HIDE DEF RowsOf
<1>14. r \in UNION {RowsOf(g, b, m, c) : c \in Wide(g, b)}
  BY <1>9, <1>13
<1> QED
  BY <1>3, <1>6, <1>14

-----------------------------------------------------------------------------
(* What a training run builds of a history that grows                      *)

LEMMA PrefixUpTo ==
  ASSUME NEW n \in Nat, NEW k \in Nat, n <= k, NEW a, NEW b,
         IsUpTo(a, n), IsUpTo(b, k), SameUpTo(a, b, n)
  PROVE  IsPrefix(a, b)
<1> DEFINE A == {a[d] : d \in 1..n} \union {b[d] : d \in 1..k}
<1>1. a \in [1..n -> A] /\ b \in [1..k -> A]
  <2>1. \A d \in 1..n : a[d] \in A
    OBVIOUS
  <2>2. \A d \in 1..k : b[d] \in A
    OBVIOUS
  <2>3. a = [d \in 1..n |-> a[d]] /\ b = [d \in 1..k |-> b[d]]
    BY DEF IsUpTo
  <2> HIDE DEF A
  <2> QED
    BY <2>1, <2>2, <2>3
<1> HIDE DEF A
<1>2. a \in Seq(A) /\ b \in Seq(A) /\ Len(a) = n /\ Len(b) = k
  BY <1>1
<1>3. \A d \in 1..n : a[d] = b[d]
  BY DEF SameUpTo
<1>4. SubSeq(a, 1, n) = SubSeq(b, 1, n)
  BY <1>2, <1>3
<1> QED
  BY <1>2, <1>4 DEF IsPrefix

LEMMA NothingIsPrefix ==
  ASSUME NEW k \in Nat, NEW b, IsUpTo(b, k)
  PROVE  IsPrefix(<<>>, b)
<1>1. IsUpTo(<<>>, 0) /\ SameUpTo(<<>>, b, 0)
  BY DEF IsUpTo, SameUpTo
<1>2. 0 \in Nat /\ 0 <= k
  OBVIOUS
<1> QED
  BY <1>1, <1>2, PrefixUpTo

LEMMA HistoryIsLonger ==
  ASSUME NEW t \in Nat \ {0}, NEW u \in Nat, t <= u
  PROVE  Longer(History(t), t, History(u), u)
<1>1. \A d \in 1..t : d \in 1..u
  OBVIOUS
<1> QED
  BY <1>1 DEF Longer, History

Asked(t) == IF selective THEN BuildUniverse(History(t)) ELSE Everyone(History(t))
RowsOf(t, w) == BuildDataset(History(t), w, MarketLevels(History(t), w))
StudyOf(t) == IF selective THEN RowsOf(t, Everyone(History(t))) ELSE RowsOf(t, Asked(t))

BuiltInv ==
  /\ now = 0 => universe = <<>> /\ levels = <<>> /\ rows = {} /\ studyRows = {}
  /\ now # 0 => /\ universe = Asked(now) /\ levels = MarketLevels(History(now), universe)
                /\ rows = RowsOf(now, universe) /\ studyRows = StudyOf(now)
  /\ now \in Nat

LEMMA BuiltInvHolds == TrainSpec => []BuiltInv
<1>1. TrainInit => BuiltInv
  BY DEF TrainInit, BuiltInv
<1>2. BuiltInv /\ [TrainNext]_trainVars => BuiltInv'
  <2> SUFFICES ASSUME BuiltInv, [TrainNext]_trainVars PROVE BuiltInv'
    OBVIOUS
  <2>1. CASE UNCHANGED dataVars
    BY <2>1 DEF dataVars, BuiltInv, Asked, RowsOf, StudyOf, History
  <2>2. CASE NextSession
    <3> DEFINE bars == History(now')
    <3>1. /\ now' \in Nat \ {0} /\ panel' = panel /\ selective' = selective
      BY <2>2, TrainingAssumption DEF NextSession, BuiltInv
    <3>2. Build(bars)
      BY <2>2 DEF NextSession
    <3>3. History(now)' = bars
      BY <3>1 DEF History
    <3> HIDE DEF bars
    <3>4. /\ universe' = Asked(now)' /\ levels' = MarketLevels(bars, universe')
          /\ rows' = BuildDataset(bars, universe', levels')
      BY <3>1, <3>2, <3>3 DEF Build, Asked
    <3>5. studyRows' = IF selective THEN BuildDataset(bars, Everyone(bars), MarketLevels(bars, Everyone(bars)))
                       ELSE rows'
      BY <3>2, Zenon DEF Build
    <3>6. rows' = RowsOf(now, universe)' /\ studyRows' = StudyOf(now)'
      BY <3>1, <3>3, <3>4, <3>5 DEF RowsOf, StudyOf
    <3>7. levels' = MarketLevels(History(now)', universe')
      BY <3>3, <3>4
    <3> QED
      BY <3>1, <3>4, <3>6, <3>7 DEF BuiltInv
  <2>3. TrainNext => NextSession \/ UNCHANGED dataVars
    BY DEF TrainNext, RunTraining, RunSweep, RunImportance, RunCpcv
  <2> QED
    BY <2>1, <2>2, <2>3 DEF trainVars
<1> QED
  BY <1>1, <1>2, PTL DEF TrainSpec

LEMMA HistoryOnlyAdds ==
  ASSUME BuiltInv, BuiltInv', NextSession
  PROVE  /\ rows \subseteq rows' /\ studyRows \subseteq studyRows'
         /\ IsPrefix(universe, universe') /\ IsPrefix(levels, levels')
<1> DEFINE t == now
           u == now'
           h == History(now)
           g == History(now')
<1>1. /\ t \in Nat /\ u \in Nat \ {0} /\ t <= u /\ panel' = panel /\ selective' = selective
  BY TrainingAssumption DEF NextSession, BuiltInv
<1>2. History(now)' = g
  BY <1>1 DEF History
<1>3. Asked(now)' = (IF selective THEN BuildUniverse(g) ELSE Everyone(g))
  BY <1>1, <1>2 DEF Asked
<1>4. /\ universe' = Asked(now)' /\ levels' = MarketLevels(g, universe')
      /\ rows' = BuildDataset(g, universe', levels')
  BY <1>1, <1>2 DEF BuiltInv, RowsOf
<1>5. studyRows' = IF selective THEN BuildDataset(g, Everyone(g), MarketLevels(g, Everyone(g)))
                   ELSE BuildDataset(g, universe', levels')
  <2>1. studyRows' = StudyOf(now)'
    BY <1>1 DEF BuiltInv
  <2>2. StudyOf(now)' = IF selective THEN BuildDataset(g, Everyone(g), MarketLevels(g, Everyone(g)))
                        ELSE BuildDataset(g, Asked(now)', MarketLevels(g, Asked(now)'))
    BY <1>1, <1>2 DEF StudyOf, RowsOf
  <2> QED
    BY <2>1, <2>2, <1>4
<1> HIDE DEF h, g
<1>6. Longer(g, u, g, u)
  BY <1>1, HistoryIsLonger DEF g
<1>7. /\ IsUpTo(universe', u) /\ IsUpTo(levels', u)
  <2>1. /\ IsUpTo(BuildUniverse(g), u) /\ IsUpTo(Everyone(g), u)
        /\ SameUpTo(BuildUniverse(g), BuildUniverse(g), u) /\ SameUpTo(Everyone(g), Everyone(g), u)
        /\ \A d \in 1..u : BuildUniverse(g)[d] \subseteq Names /\ Everyone(g)[d] \subseteq Names
    BY <1>6, SameUniverse, SameEveryone
  <2>2. /\ IsUpTo(universe', u) /\ SameUpTo(universe', universe', u)
        /\ \A d \in 1..u : universe'[d] \subseteq Names
    BY <2>1, <1>3, <1>4
  <2> QED
    BY <2>2, <1>4, <1>6, SameLevels
<1>8. CASE now = 0
  BY <1>1, <1>7, <1>8, NothingIsPrefix DEF BuiltInv
<1>9. CASE now # 0
  <2>1. Longer(h, t, g, u)
    BY <1>1, <1>9, HistoryIsLonger DEF h, g
  <2>2. /\ universe = Asked(now) /\ levels = MarketLevels(h, universe)
        /\ rows = BuildDataset(h, universe, levels)
        /\ studyRows = IF selective THEN BuildDataset(h, Everyone(h), MarketLevels(h, Everyone(h)))
                       ELSE BuildDataset(h, universe, levels)
    BY <1>9 DEF BuiltInv, RowsOf, StudyOf, h
  <2>3. Asked(now) = IF selective THEN BuildUniverse(h) ELSE Everyone(h)
    BY DEF Asked, h
  <2>4. /\ SameUpTo(BuildUniverse(h), BuildUniverse(g), t) /\ SameUpTo(Everyone(h), Everyone(g), t)
        /\ IsUpTo(BuildUniverse(h), t) /\ IsUpTo(Everyone(h), t)
        /\ \A d \in 1..t : BuildUniverse(h)[d] \subseteq Names /\ Everyone(h)[d] \subseteq Names
    BY <2>1, SameUniverse, SameEveryone
  <2>5. /\ SameUpTo(universe, universe', t) /\ IsUpTo(universe, t)
        /\ \A d \in 1..t : universe[d] \subseteq Names
    BY <2>2, <2>3, <2>4, <1>3, <1>4
  <2>6. IsUpTo(levels, t) /\ SameUpTo(levels, levels', t)
    BY <2>1, <2>2, <2>5, <1>4, SameLevels
  <2>7. IsPrefix(universe, universe') /\ IsPrefix(levels, levels')
    BY <1>1, <1>7, <2>5, <2>6, PrefixUpTo
  <2>8. BuildDataset(h, universe, levels) \subseteq BuildDataset(g, universe', levels')
    BY <2>1, <2>5, <2>6, RowsStay
  <2>9. BuildDataset(h, Everyone(h), MarketLevels(h, Everyone(h)))
          \subseteq BuildDataset(g, Everyone(g), MarketLevels(g, Everyone(g)))
    <3>1. SameUpTo(MarketLevels(h, Everyone(h)), MarketLevels(g, Everyone(g)), t)
      BY <2>1, <2>4, SameLevels
    <3> QED
      BY <2>1, <2>4, <3>1, RowsStay
  <2> QED
    BY <2>2, <2>7, <2>8, <2>9, <1>4, <1>5
<1> QED
  BY <1>8, <1>9

\* Later sessions change nothing that was said of earlier ones (labels.py:185,
\* universe.py:114, market_path.py:78): a dataset only gains rows, the universe and the
\* benchmark only sessions.
THEOREM HistoryIsFixed == TrainSpec => PastIsFixed
<1>1. BuiltInv /\ BuiltInv' /\ [TrainNext]_trainVars =>
        /\ [rows \subseteq rows' /\ studyRows \subseteq studyRows']_trainVars
        /\ [IsPrefix(universe, universe') /\ IsPrefix(levels, levels')]_trainVars
  <2> SUFFICES ASSUME BuiltInv, BuiltInv', TrainNext
               PROVE  /\ rows \subseteq rows' /\ studyRows \subseteq studyRows'
                      /\ IsPrefix(universe, universe') /\ IsPrefix(levels, levels')
    OBVIOUS
  <2>1. CASE NextSession
    BY <2>1, HistoryOnlyAdds
  <2>2. CASE UNCHANGED dataVars
    <3>1. IsPrefix(universe, universe) /\ IsPrefix(levels, levels)
      BY DEF IsPrefix
    <3> QED
      BY <2>2, <3>1 DEF dataVars
  <2>3. TrainNext => NextSession \/ UNCHANGED dataVars
    BY DEF TrainNext, RunTraining, RunSweep, RunImportance, RunCpcv
  <2> QED
    BY <2>1, <2>2, <2>3
<1> QED
  BY <1>1, BuiltInvHolds, PTL DEF TrainSpec, PastIsFixed, LabelsNeverChange, UniverseIsPointInTime

-----------------------------------------------------------------------------
(* How far the label of a row reaches                                      *)

\* A label is 0 or 1, decided at most the horizon after its bar.
LEMMA LabelReach ==
  ASSUME NEW p, NEW n \in Nat, Len(p) = n, NEW i \in Nat, ExcessBarrierLabel(p, i).label # -1
  PROVE  /\ ExcessBarrierLabel(p, i).touch \in 1..n
         /\ i < ExcessBarrierLabel(p, i).touch
         /\ ExcessBarrierLabel(p, i).touch <= i + LabelHorizon
         /\ ExcessBarrierLabel(p, i).label \in {0, 1}
<1>1. LabelHorizon \in Nat \ {0} /\ i + LabelHorizon \in Nat
  BY LabelsAssumption
<1>2. NoLabel.label = -1
  BY DEF NoLabel
<1>3. ~(i >= n) /\ ~(i <= SigmaWindow) /\ TrailingWidth(p, i) # 0
  BY <1>2 DEF ExcessBarrierLabel
<1>4. ScanEnd(p, i) = (IF i + LabelHorizon <= n THEN i + LabelHorizon ELSE n)
  BY <1>1, MinOfTwo DEF ScanEnd
<1>5. ScanEnd(p, i) \in Nat /\ ScanEnd(p, i) <= n /\ ScanEnd(p, i) <= i + LabelHorizon /\ i < ScanEnd(p, i)
  BY <1>1, <1>3, <1>4
<1>6. CASE Touched(p, i) # {}
  <2> DEFINE a == Min(Touched(p, i))
  <2>1. Touched(p, i) \subseteq (i + 1)..ScanEnd(p, i)
    BY DEF Touched
  <2>2. a \in Touched(p, i)
    <3>1. Touched(p, i) \in SUBSET Nat
      BY <2>1
    <3> QED
      BY <3>1, <1>6, MinIsLeast
  <2>3. ExcessBarrierLabel(p, i) = IF p[a] - p[i] <= -TrailingWidth(p, i)
                                   THEN [label |-> 0, touch |-> a, barrier |-> "lower"]
                                   ELSE [label |-> 1, touch |-> a, barrier |-> "upper"]
    BY <1>3, <1>6 DEF ExcessBarrierLabel
  <2> HIDE DEF a
  <2>4. ExcessBarrierLabel(p, i).touch = a /\ ExcessBarrierLabel(p, i).label \in {0, 1}
    BY <2>3
  <2>5. a \in (i + 1)..ScanEnd(p, i)
    BY <2>1, <2>2
  <2>6. a \in 1..n /\ i < a /\ a <= i + LabelHorizon
    BY <2>5, <1>1, <1>5
  <2> QED
    BY <2>4, <2>6
<1>7. CASE Touched(p, i) = {}
  <2> DEFINE e == ScanEnd(p, i)
  <2>1. ~(e < i + LabelHorizon)
    BY <1>2, <1>3, <1>7 DEF ExcessBarrierLabel
  <2>2. ExcessBarrierLabel(p, i) =
          [label |-> IF p[e] - p[i] > 0 THEN 1 ELSE 0, touch |-> e, barrier |-> "vertical"]
    BY <1>3, <1>7, <2>1 DEF ExcessBarrierLabel
  <2>3. ExcessBarrierLabel(p, i).touch = e /\ ExcessBarrierLabel(p, i).label \in {0, 1}
    BY <2>2
  <2>4. e \in 1..n /\ i < e /\ e <= i + LabelHorizon
    BY <1>5
  <2> QED
    BY <2>3, <2>4
<1> QED
  BY <1>6, <1>7

\* The bars of a name up to a session.
TradedDays(h, t, s) == {d \in 1..t : Traded(h, s, d)}
\* A row, how many bars of its name lie between its own and the one its label is
\* decided on, and which bars of its name these are.
Reaches(h, t, r) ==
  /\ r.name \in Names
  /\ r.session \in TradedDays(h, t, r.name) /\ r.touch \in TradedDays(h, t, r.name)
  /\ r.session < r.touch
  /\ Cardinality(Between(TradedDays(h, t, r.name), r.session, r.touch)) < LabelHorizon
  /\ r.label \in {0, 1} /\ r.first = Cardinality(Below(TradedDays(h, t, r.name), r.session))
  /\ r.first \in Nat \ {0} /\ r.last \in Nat
  /\ r.first < r.last /\ r.last <= r.first + LabelHorizon /\ r.last <= t

LEMMA RowReaches ==
  ASSUME NEW h, NEW t, Longer(h, t, h, t), NEW l, NEW s \in Names, NEW d \in 1..t, Traded(h, s, d),
         RowOf(h, OwnBars(h, s), ExcessPath(h, l, s), s, d).label # -1
  PROVE  Reaches(h, t, RowOf(h, OwnBars(h, s), ExcessPath(h, l, s), s, d))
<1> DEFINE T == TradedDays(h, t, s)
           own == OwnBars(h, s)
           p == ExcessPath(h, l, s)
           i == Depth(h, s, d)
           n == Cardinality(T)
           b == ExcessBarrierLabel(p, i)
           r == RowOf(h, own, p, s, d)
<1>1. t \in Nat /\ DOMAIN h[s] = 1..t
  BY DEF Longer
<1>2. T \in SUBSET Nat /\ IsFiniteSet(T) /\ T \subseteq 1..t
  <2>1. IsFiniteSet(1..t) /\ T \subseteq 1..t
    BY <1>1, FS_Interval DEF TradedDays
  <2>2. 1..t \subseteq Nat
    OBVIOUS
  <2> QED
    BY <2>1, <2>2, FS_Subset
<1>3. own = Ordered(T)
  BY <1>1 DEF OwnBars, TradedDays
<1>4. d \in T
  BY DEF TradedDays
<1>5. i = Cardinality(Below(T, d))
  <2>1. Below(T, d) = {c \in 1..d : Traded(h, s, c)}
    <3>1. \A c \in 1..t : c <= d <=> c \in 1..d
      BY <1>1
    <3>2. 1..d \subseteq 1..t
      BY <1>1
    <3> QED
      BY <3>1, <3>2 DEF Below, TradedDays
  <2> QED
    BY <2>1 DEF Depth
<1> HIDE DEF T
<1>6. /\ DOMAIN own = 1..n /\ i \in 1..n /\ own[i] = d /\ n \in Nat
      /\ \A j \in 1..n : IsNth(T, j, own[j])
  <2>1. n \in Nat
    BY <1>2, FS_CardinalityType
  <2>2. /\ DOMAIN Ordered(T) = 1..n /\ \A j \in 1..n : IsNth(T, j, Ordered(T)[j])
        /\ Cardinality(Below(T, d)) \in 1..n /\ Ordered(T)[Cardinality(Below(T, d))] = d
    BY <1>2, <1>4, OrderedNth
  <2> HIDE DEF n, own, i
  <2> QED
    BY <2>1, <2>2, <1>3, <1>5
<1>7. Len(p) = n
  <2> HIDE DEF n, own
  <2>1. p = [j \in 1..n |-> 2 * h[s][own[j]].p - l[own[j]]]
    BY <1>6 DEF ExcessPath, own
  <2> HIDE DEF p
  <2> QED
    BY <2>1, <1>6
<1> HIDE DEF own, p, i, n
<1>8. r = [name |-> s, session |-> d, first |-> i, last |-> b.touch, label |-> b.label,
           barrier |-> b.barrier, touch |-> IF b = NoLabel THEN 0 ELSE own[b.touch]]
  BY DEF RowOf, i
<1>9. b.label # -1
  <2>1. r.label # -1
    BY DEF own, p
  <2> HIDE DEF b
  <2> QED
    BY <2>1, <1>8
<1>10. i \in Nat
  BY <1>6
<1>11. b.touch \in 1..n /\ i < b.touch /\ b.touch <= i + LabelHorizon /\ b.label \in {0, 1}
  BY <1>6, <1>7, <1>9, <1>10, LabelReach
<1>12. b # NoLabel
  BY <1>9 DEF NoLabel
<1> DEFINE j == b.touch
           u == own[j]
<1> HIDE DEF b, r
<1>13. r.name = s /\ r.session = d /\ r.touch = u /\ r.first = i /\ r.last = j /\ r.label = b.label
  BY <1>8, <1>12
<1>14. IsNth(T, j, u)
  BY <1>6, <1>11
<1> HIDE DEF j, u
<1>15. u \in T /\ u \in Nat /\ d \in Nat /\ Cardinality(Below(T, u)) = j
  BY <1>2, <1>14 DEF IsNth
<1>16. d < u
  <2>1. SUFFICES ASSUME u <= d PROVE FALSE
    BY <1>15
  <2>2. Below(T, u) \subseteq Below(T, d)
    <3>1. \A c \in T : c <= u => c <= d
      <4>1. TAKE c \in T
      <4>2. c \in Nat
        BY <1>2
      <4> QED
        BY <4>2, <1>15, <2>1
    <3> QED
      BY <3>1 DEF Below
  <2>3. Below(T, d) \subseteq T
    BY DEF Below
  <2>4. IsFiniteSet(Below(T, d))
    BY <2>3, <1>2, FS_Subset
  <2>5. Cardinality(Below(T, u)) <= Cardinality(Below(T, d))
    BY <2>2, <2>4, FS_Subset
  <2> QED
    BY <2>5, <1>5, <1>6, <1>11, <1>15 DEF j
<1>17. Cardinality(Between(T, d, u)) < LabelHorizon
  <2> DEFINE B == Between(T, d, u)
             A == Below(T, d)
             C == Below(T, u)
  <2>1. C \subseteq T /\ A \subseteq T /\ B \subseteq T
    BY DEF Below, Between
  <2>2. IsFiniteSet(C) /\ IsFiniteSet(B) /\ IsFiniteSet(A)
    BY <2>1, <1>2, FS_Subset
  <2>3. A \subseteq C /\ u \in C \ A /\ B \subseteq (C \ A) \ {u}
    <3>1. \A c \in T : (c <= d => c <= u) /\ (d < c => ~(c <= d)) /\ (c < u => c <= u /\ c # u)
      <4>1. TAKE c \in T
      <4>2. c \in Nat
        BY <1>2
      <4> QED
        BY <4>2, <1>15, <1>16
    <3>2. u <= u /\ ~(u <= d)
      BY <1>15, <1>16
    <3> QED
      BY <3>1, <3>2, <1>15 DEF Below, Between
  <2> HIDE DEF A, B, C
  <2>4. IsFiniteSet(C \ A) /\ Cardinality(C \ A) = Cardinality(C) - Cardinality(C \cap A)
    BY <2>2, FS_Difference
  <2>5. C \cap A = A
    BY <2>3
  <2>6. Cardinality(C \ A) = j - i
    BY <2>4, <2>5, <1>5, <1>15 DEF A, C
  <2>7. IsFiniteSet((C \ A) \ {u}) /\ Cardinality((C \ A) \ {u}) = Cardinality(C \ A) - 1
    BY <2>3, <2>4, FS_RemoveElement
  <2>8. Cardinality(B) <= Cardinality((C \ A) \ {u}) /\ Cardinality(B) \in Nat
    BY <2>2, <2>3, <2>7, FS_Subset, FS_CardinalityType
  <2>9. j \in Nat /\ i \in Nat /\ j <= i + LabelHorizon /\ LabelHorizon \in Nat
    BY <1>6, <1>11, LabelsAssumption DEF j
  <2> QED
    BY <2>6, <2>7, <2>8, <2>9 DEF B
<1>18. r.session \in T /\ r.touch \in T /\ r.session < r.touch
  BY <1>4, <1>13, <1>15, <1>16
<1>19. n <= t
  <2>1. IsFiniteSet(1..t) /\ Cardinality(1..t) = t
    BY <1>1, FS_Interval
  <2>2. Cardinality(T) <= Cardinality(1..t)
    BY <1>2, <2>1, FS_Subset
  <2> QED
    BY <2>1, <2>2 DEF n
<1>20. /\ r.label \in {0, 1} /\ r.first = Cardinality(Below(T, d)) /\ r.first \in Nat \ {0} /\ r.last \in Nat
       /\ r.first < r.last /\ r.last <= r.first + LabelHorizon /\ r.last <= t
  BY <1>1, <1>5, <1>6, <1>11, <1>13, <1>19 DEF j
<1> QED
  BY <1>13, <1>17, <1>18, <1>20 DEF Reaches, T, r, own, p
\* The sessions of a dataset.
DaysOf(data) == {q.session : q \in data}
DataReaches(data) == now \in Nat /\ \A r \in data : Reaches(History(now), now, r)

LEMMA DatasetReaches ==
  ASSUME NEW h, NEW t, Longer(h, t, h, t), NEW w, \A d \in 1..t : w[d] \subseteq Names, NEW l
  PROVE  \A r \in BuildDataset(h, w, l) : Reaches(h, t, r)
<1>1. Sessions(h) = 1..t
  BY SessionsAreDays
<1> DEFINE Wide == {d \in Sessions(h) : Cardinality(CrossSection(h, w, d)) >= MinUniverse}
           Own == [s \in Names |-> OwnBars(h, s)]
           Path == [s \in Names |-> ExcessPath(h, l, s)]
           Row(d) == {RowOf(h, Own[s], Path[s], s, d) : s \in CrossSection(h, w, d)}
<1>2. BuildDataset(h, w, l) = {r \in UNION {Row(d) : d \in Wide} : r.label # -1}
  BY Zenon DEF BuildDataset
<1>3. \A s \in Names : Own[s] = OwnBars(h, s) /\ Path[s] = ExcessPath(h, l, s)
  OBVIOUS
<1>4. \A d \in Wide : d \in 1..t
  BY <1>1
<1>5. \A d \in 1..t : \A s \in CrossSection(h, w, d) : s \in Names /\ Traded(h, s, d)
  BY DEF CrossSection
<1> HIDE DEF Wide, Own, Path
<1> SUFFICES ASSUME NEW r \in BuildDataset(h, w, l) PROVE Reaches(h, t, r)
  OBVIOUS
<1>6. r.label # -1 /\ r \in UNION {Row(d) : d \in Wide}
  BY <1>2
<1>7. PICK d \in Wide : r \in Row(d)
  BY <1>6
<1>8. PICK s \in CrossSection(h, w, d) : r = RowOf(h, Own[s], Path[s], s, d)
  BY <1>7
<1>9. d \in 1..t /\ s \in Names /\ Traded(h, s, d)
  BY <1>4, <1>5
<1>10. r = RowOf(h, OwnBars(h, s), ExcessPath(h, l, s), s, d)
  BY <1>3, <1>8, <1>9
<1> QED
  BY <1>6, <1>9, <1>10, RowReaches

LEMMA BuiltReaches ==
  ASSUME BuiltInv
  PROVE  DataReaches(rows) /\ DataReaches(studyRows)
<1>1. CASE now = 0
  BY <1>1 DEF BuiltInv, DataReaches
<1>2. CASE now # 0
  <2> DEFINE h == History(now)
  <2>1. now \in Nat \ {0} /\ now <= now
    BY <1>2 DEF BuiltInv
  <2>2. Longer(h, now, h, now)
    BY <2>1, HistoryIsLonger
  <2>3. \A d \in 1..now : BuildUniverse(h)[d] \subseteq Names /\ Everyone(h)[d] \subseteq Names
    BY <2>2, SameUniverse, SameEveryone
  <2>4. /\ rows = BuildDataset(h, Asked(now), MarketLevels(h, Asked(now)))
        /\ studyRows = IF selective THEN BuildDataset(h, Everyone(h), MarketLevels(h, Everyone(h)))
                       ELSE BuildDataset(h, Asked(now), MarketLevels(h, Asked(now)))
        /\ Asked(now) = IF selective THEN BuildUniverse(h) ELSE Everyone(h)
    BY <1>2 DEF BuiltInv, RowsOf, StudyOf, Asked
  <2> HIDE DEF h
  <2>5. \A d \in 1..now : Asked(now)[d] \subseteq Names
    BY <2>3, <2>4
  <2>6. \A r \in BuildDataset(h, Asked(now), MarketLevels(h, Asked(now))) : Reaches(h, now, r)
    BY <2>2, <2>5, DatasetReaches
  <2>7. \A r \in BuildDataset(h, Everyone(h), MarketLevels(h, Everyone(h))) : Reaches(h, now, r)
    BY <2>2, <2>3, DatasetReaches
  <2>8. (\A r \in rows : Reaches(h, now, r)) /\ \A r \in studyRows : Reaches(h, now, r)
    BY <2>4, <2>6, <2>7
  <2> QED
    BY <2>1, <2>8 DEF DataReaches, h
<1> QED
  BY <1>1, <1>2

LEMMA DaysAreFinite ==
  ASSUME NEW data, DataReaches(data)
  PROVE  DaysOf(data) \in SUBSET Nat /\ IsFiniteSet(DaysOf(data)) /\ DaysOf(data) \subseteq 1..now
<1>1. now \in Nat /\ \A r \in data : r.session \in 1..now
  BY DEF DataReaches, Reaches, TradedDays
<1>2. DaysOf(data) \subseteq 1..now /\ IsFiniteSet(1..now)
  BY <1>1, FS_Interval DEF DaysOf
<1>3. 1..now \subseteq Nat
  OBVIOUS
<1> QED
  BY <1>2, <1>3, FS_Subset

\* With sessions enough between two windows, a label that reaches across is of a
\* name that missed more of them than the embargo.
LEMMA ApartIsKeptApart ==
  ASSUME NEW data, DataReaches(data), NEW before, NEW after, Range(after) \subseteq Nat,
         ApartIn(DaysOf(data), before, after)
  PROVE  KeptApart(data, before, after)
<1> DEFINE S == DaysOf(data)
<1>1. S \in SUBSET Nat /\ IsFiniteSet(S) /\ S \subseteq 1..now
  BY DaysAreFinite
<1> SUFFICES ASSUME NEW r \in data, r.session \in Range(before), NEW t \in Range(after),
                    r.session < t, t <= r.touch
             PROVE  Cardinality({d \in S : r.session < d /\ d < t /\ ~Traded(panel, r.name, d)}) > Embargo
  BY DEF KeptApart, RowsOn, DaysOf
<1> DEFINE h == History(now)
           N == {d \in S : r.session < d /\ d < t /\ ~Traded(panel, r.name, d)}
           B == Between(S, r.session, t)
           A == Between(TradedDays(h, now, r.name), r.session, r.touch)
<1>2. Reaches(h, now, r) /\ now \in Nat
  BY DEF DataReaches
<1>3. r.name \in Names /\ r.session \in Nat /\ r.touch \in Nat /\ t \in Nat /\ Cardinality(A) < LabelHorizon
  BY <1>2 DEF Reaches, TradedDays
<1>4. Cardinality(B) >= Gap
  BY DEF ApartIn
<1>5. \A d \in 1..now : Traded(h, r.name, d) = Traded(panel, r.name, d)
  BY <1>3 DEF Traded, History
<1> HIDE DEF S, h
<1>6. IsFiniteSet(A)
  <2>1. A \subseteq 1..now /\ IsFiniteSet(1..now)
    BY <1>2, FS_Interval DEF Between, TradedDays
  <2> QED
    BY <2>1, FS_Subset
<1>7. B \ N \subseteq A
  <2> SUFFICES ASSUME NEW d \in B, d \notin N PROVE d \in A
    OBVIOUS
  <2>1. d \in S /\ r.session < d /\ d < t /\ Traded(panel, r.name, d)
    BY DEF Between
  <2>2. d \in 1..now /\ d \in Nat
    BY <2>1, <1>1
  <2>3. d < r.touch
    BY <2>1, <2>2, <1>3
  <2> QED
    BY <2>1, <2>2, <2>3, <1>5 DEF Between, TradedDays
<1>8. N \subseteq B /\ B \subseteq S
  BY DEF Between
<1>9. IsFiniteSet(B) /\ IsFiniteSet(N)
  BY <1>1, <1>8, FS_Subset
<1> HIDE DEF N, B, A
<1>10. Cardinality(B \ N) = Cardinality(B) - Cardinality(B \cap N)
  BY <1>9, FS_Difference
<1>11. B \cap N = N
  BY <1>8
<1>12. Cardinality(B \ N) <= Cardinality(A) /\ Cardinality(B \ N) \in Nat
  BY <1>6, <1>7, FS_Subset, FS_CardinalityType
<1>13. Cardinality(B) \in Nat /\ Cardinality(N) \in Nat /\ Cardinality(A) \in Nat
  BY <1>6, <1>9, FS_CardinalityType
<1>14. Cardinality(N) > Embargo
  <2> DEFINE a == Cardinality(A)
             b == Cardinality(B)
             n == Cardinality(N)
             k == Cardinality(B \ N)
  <2>1. k = b - n
    BY <1>10, <1>11
  <2>2. a < LabelHorizon /\ b >= Gap /\ k <= a
    BY <1>3, <1>4, <1>12
  <2>3. a \in Nat /\ b \in Nat /\ n \in Nat /\ k \in Nat
    BY <1>12, <1>13
  <2> HIDE DEF a, b, n, k
  <2>4. n > Embargo
    BY <2>1, <2>2, <2>3, GapIsNat
  <2> QED
    BY <2>4 DEF n
<1> QED
  BY <1>14 DEF N, S
-----------------------------------------------------------------------------
(* The windows of the walk-forward and of the holdout                      *)

\* A window to fit on and one to score on, cut from the sessions of a dataset.
Cut(S, dates, train, test) ==
  /\ Rising(train, S) /\ Rising(test, S) /\ ApartIn(S, train, test)
  /\ Range(train) \union Range(test) \subseteq Range(dates)

\* A window scored whose labels reach into no session they are judged on.
Apart(S, w) ==
  /\ Range(w.test) \subseteq Nat /\ Range(w.val) \subseteq Nat
  /\ ApartIn(S, w.train, w.test) /\ ApartIn(S, w.fit, w.val)

LEMMA RangeOfRising ==
  ASSUME NEW S, NEW seq, Rising(seq, S)
  PROVE  Range(seq) \subseteq S /\ DOMAIN seq = 1..Len(seq) /\ \A x \in Range(seq) : \E i \in 1..Len(seq) : x = seq[i]
<1>1. DOMAIN seq = 1..Len(seq) /\ \A i \in 1..Len(seq) : seq[i] \in S
  BY DEF Rising
<1> QED
  BY <1>1 DEF Range

LEMMA ScoredApart ==
  ASSUME NEW S \in SUBSET Nat, IsFiniteSet(S), NEW dates, NEW train, NEW test, Cut(S, dates, train, test)
  PROVE  Apart(S, ScoreWindow(train, test))
<1> DEFINE w == ScoreWindow(train, test)
<1>1. /\ w.train = train /\ w.test = test
      /\ w.fit = FitWindow(train).fit /\ w.val = FitWindow(train).val
  BY DEF ScoreWindow
<1>2. Rising(train, S) /\ Rising(test, S) /\ ApartIn(S, train, test)
  BY DEF Cut
<1>3. ApartIn(S, FitWindow(train).fit, FitWindow(train).val)
  BY <1>2, FitApart
<1>4. Range(FitWindow(train).val) \subseteq S
  <2> DEFINE a == Max({Len(train) - ValSize, 0}) + 1
  <2>1. Len(train) \in Nat /\ ValSize \in Nat
    BY <1>2, TrainingAssumption DEF Rising
  <2>2. Len(train) - ValSize \in Int /\ 0 \in Int
    BY <2>1
  <2>3. Max({Len(train) - ValSize, 0}) = IF Len(train) - ValSize >= 0 THEN Len(train) - ValSize ELSE 0
    BY <2>2, MaxOfTwo
  <2>4. a \in Nat \ {0} /\ Len(train) \in Int /\ Len(train) <= Len(train)
    BY <2>1, <2>3
  <2>5. FitWindow(train).val = SubSeq(train, a, Len(train))
    BY DEF FitWindow, LastOf
  <2> HIDE DEF a
  <2>6. Rising(SubSeq(train, a, Len(train)), S)
    BY <1>2, <2>4, CutRises
  <2> QED
    BY <2>5, <2>6, RangeOfRising
<1>5. Range(test) \subseteq S
  BY <1>2, RangeOfRising
<1> QED
  BY <1>1, <1>2, <1>3, <1>4, <1>5 DEF Apart

\* A list of windows each of which is cut from the sessions.
FoldsCut(S, dates, cuts) ==
  /\ cuts \in Seq(Range(cuts))
  /\ \A i \in DOMAIN cuts : Cut(S, dates, cuts[i].train, cuts[i].test)

LEMMA ListOfItsOwn ==
  ASSUME NEW m \in Nat, NEW f, f = [i \in 1..m |-> f[i]]
  PROVE  f \in Seq(Range(f)) /\ DOMAIN f = 1..m
<1>1. \A i \in 1..m : f[i] \in Range(f)
  BY DEF Range
<1> QED
  BY <1>1

\* The i-th fold: where in the dates it is trained and tested.
FoldAt(dates, i, f) ==
  \E a, c \in Nat \ {0}, b, e \in Int :
    /\ f.train = SubSeq(dates, a, b) /\ f.test = SubSeq(dates, c, e)
    /\ b <= Len(dates) /\ e <= Len(dates) /\ c - b > Gap
    /\ c = TrainSize + (i - 1) * TestSize + 1 /\ e = TrainSize + i * TestSize

LEMMA FoldsAreAt ==
  ASSUME NEW dates, Len(dates) \in Nat
  PROVE  \E n \in Nat : /\ PurgedWalkForward(dates) = [i \in 1..n |-> PurgedWalkForward(dates)[i]]
                        /\ \A i \in 1..n : FoldAt(dates, i, PurgedWalkForward(dates)[i])
<1> DEFINE L == Len(dates)
           q == (L - TrainSize) \div TestSize
           n == Max({0, q})
<1>1. L \in Nat /\ TrainSize \in Nat /\ TestSize \in Nat \ {0} /\ TrainSize > Gap /\ Gap \in Nat
  BY GapIsNat, TrainingAssumption
<1>2. q \in Int /\ TestSize * q <= L - TrainSize
  <2>1. \A a \in Int, b \in Nat \ {0} : (a \div b) \in Int /\ b * (a \div b) <= a
    OBVIOUS
  <2>2. L - TrainSize \in Int
    BY <1>1
  <2> QED
    BY <1>1, <2>1, <2>2
<1>3. n = IF 0 >= q THEN 0 ELSE q
  BY <1>2, MaxOfTwo
<1>4. PurgedWalkForward(dates) =
        [i \in 1..n |->
           LET start == TrainSize + (i - 1) * TestSize
           IN  [train |-> SubSeq(dates, start - TrainSize + 1, start - Gap),
                test |-> SubSeq(dates, start + 1, start + TestSize)]]
  BY DEF PurgedWalkForward
<1> HIDE DEF n, q
<1>5. n \in Nat
  BY <1>2, <1>3
<1>6. ASSUME NEW i \in 1..n
      PROVE  FoldAt(dates, i, PurgedWalkForward(dates)[i])
  <2> DEFINE start == TrainSize + (i - 1) * TestSize
             m == (i - 1) * TestSize
             a == start - TrainSize + 1
             b == start - Gap
             c == start + 1
             e == start + TestSize
  <2>1. i \in Nat /\ i - 1 \in Nat /\ i <= q
    BY <1>2, <1>3
  <2>2. m \in Nat
    BY <2>1, <1>1
  <2>3. m + TestSize = TestSize * i
    BY <2>1, <1>1
  <2>4. TestSize * i <= TestSize * q
    BY <2>1, <1>1, <1>2
  <2>5. m + TestSize <= L - TrainSize
    <3>1. TestSize * i \in Int /\ TestSize * q \in Int
      BY <2>1, <1>1, <1>2
    <3> HIDE DEF m
    <3> QED
      BY <2>2, <2>3, <2>4, <3>1, <1>1, <1>2
  <2>6. start = TrainSize + m
    OBVIOUS
  <2> HIDE DEF m, start
  <2>7. a \in Nat \ {0} /\ b \in Int /\ b <= L /\ c \in Nat \ {0} /\ e \in Int /\ e <= L /\ c - b > Gap
    BY <2>2, <2>5, <2>6, <1>1
  <2>8. /\ PurgedWalkForward(dates)[i].train = SubSeq(dates, a, b)
        /\ PurgedWalkForward(dates)[i].test = SubSeq(dates, c, e)
    BY <1>4 DEF start
  <2>9. c = TrainSize + (i - 1) * TestSize + 1 /\ e = TrainSize + i * TestSize
    <3>1. TestSize * i = i * TestSize
      BY <2>1, <1>1
    <3>2. e = TrainSize + (m + TestSize)
      BY <2>2, <2>6, <1>1
    <3> QED
      BY <2>3, <3>1, <3>2 DEF start
  <2> HIDE DEF a, b, c, e
  <2> QED
    BY <2>7, <2>8, <2>9 DEF FoldAt
<1> DEFINE fold(i) ==
             LET start == TrainSize + (i - 1) * TestSize
             IN  [train |-> SubSeq(dates, start - TrainSize + 1, start - Gap),
                  test |-> SubSeq(dates, start + 1, start + TestSize)]
<1>7. PurgedWalkForward(dates) = [i \in 1..n |-> fold(i)]
  BY <1>4
<1> HIDE DEF fold
<1>8. PurgedWalkForward(dates) = [i \in 1..n |-> PurgedWalkForward(dates)[i]]
  BY <1>7
<1> QED
  BY <1>5, <1>6, <1>8

LEMMA FoldsAreCut ==
  ASSUME NEW S \in SUBSET Nat, IsFiniteSet(S), NEW dates, Rising(dates, S)
  PROVE  FoldsCut(S, dates, PurgedWalkForward(dates))
<1> DEFINE W == PurgedWalkForward(dates)
<1>1. Len(dates) \in Nat
  BY DEF Rising
<1>2. PICK n \in Nat : W = [i \in 1..n |-> W[i]] /\ \A i \in 1..n : FoldAt(dates, i, W[i])
  BY <1>1, FoldsAreAt
<1> HIDE DEF W
<1>3. W \in Seq(Range(W)) /\ DOMAIN W = 1..n
  BY <1>2, ListOfItsOwn
<1>4. ASSUME NEW i \in 1..n
      PROVE  Cut(S, dates, W[i].train, W[i].test)
  <2>1. PICK a \in Nat \ {0}, c \in Nat \ {0}, b \in Int, e \in Int :
          /\ W[i].train = SubSeq(dates, a, b) /\ W[i].test = SubSeq(dates, c, e)
          /\ b <= Len(dates) /\ e <= Len(dates) /\ c - b > Gap
    BY <1>2 DEF FoldAt
  <2>2. IsCut(S, dates, a, b) /\ IsCut(S, dates, c, e)
    BY <2>1, CutIsCut
  <2>3. ApartIn(S, SubSeq(dates, a, b), SubSeq(dates, c, e))
    BY <2>1, CutsApart
  <2>4. \A k \in 1..Len(dates) : dates[k] \in Range(dates)
    BY RangeOfRising DEF Range
  <2>5. Range(SubSeq(dates, a, b)) \subseteq Range(dates) /\ Range(SubSeq(dates, c, e)) \subseteq Range(dates)
    BY <2>2, <2>4 DEF IsCut
  <2> QED
    BY <2>1, <2>2, <2>3, <2>5 DEF Cut, IsCut
<1> QED
  BY <1>3, <1>4 DEF FoldsCut, W

LEMMA ScoredFoldsApart ==
  ASSUME NEW S \in SUBSET Nat, IsFiniteSet(S), NEW dates, NEW cuts, FoldsCut(S, dates, cuts), NEW data
  PROVE  \A w \in Range(ScoredFolds(data, cuts)) : Apart(S, w)
<1> DEFINE D == {i \in DOMAIN cuts : Trainable(data, cuts[i].train)}
           done == Ordered(D)
<1>1. D \in SUBSET Nat /\ IsFiniteSet(D) /\ D \subseteq DOMAIN cuts
  <2>1. Len(cuts) \in Nat /\ DOMAIN cuts = 1..Len(cuts)
    BY LenProperties DEF FoldsCut
  <2>3. IsFiniteSet(1..Len(cuts)) /\ D \subseteq 1..Len(cuts)
    BY <2>1, FS_Interval
  <2>2. 1..Len(cuts) \subseteq Nat
    OBVIOUS
  <2> QED
    BY <2>2, <2>3, FS_Subset
<1>2. ScoredFolds(data, cuts) = [i \in DOMAIN done |-> ScoreWindow(cuts[done[i]].train, cuts[done[i]].test)]
  BY Zenon DEF ScoredFolds
<1> HIDE DEF D
<1>3. \A i \in DOMAIN done : done[i] \in D
  <2>1. Rising(done, D)
    BY <1>1, OrderedRises
  <2> QED
    BY <2>1, RangeOfRising DEF Range
<1> HIDE DEF done
<1> SUFFICES ASSUME NEW w \in Range(ScoredFolds(data, cuts)) PROVE Apart(S, w)
  OBVIOUS
<1>4. PICK i \in DOMAIN done : w = ScoreWindow(cuts[done[i]].train, cuts[done[i]].test)
  BY <1>2 DEF Range
<1>5. Cut(S, dates, cuts[done[i]].train, cuts[done[i]].test)
  BY <1>1, <1>3 DEF FoldsCut
<1> QED
  BY <1>4, <1>5, ScoredApart
LEMMA LastFoldsAreCut ==
  ASSUME NEW S, NEW dates, NEW cuts, FoldsCut(S, dates, cuts), NEW k \in Nat
  PROVE  FoldsCut(S, dates, LastOf(cuts, k))
<1> DEFINE n == Len(cuts)
           a == Max({n - k, 0}) + 1
           m == n - a + 1
<1>1. n \in Nat /\ DOMAIN cuts = 1..n /\ cuts \in Seq(Range(cuts))
  BY LenProperties DEF FoldsCut
<1>2. Max({n - k, 0}) = IF n - k >= 0 THEN n - k ELSE 0
  <2>1. n - k \in Int /\ 0 \in Int
    BY <1>1
  <2> QED
    BY <2>1, MaxOfTwo
<1>3. a \in Nat \ {0} /\ a <= n + 1
  BY <1>1, <1>2
<1> DEFINE cut == SubSeq(cuts, a, n)
<1>4. LastOf(cuts, k) = cut
  BY DEF LastOf
<1> HIDE DEF a, n
<1>5. m \in Nat /\ \A i \in 1..m : a + i - 1 \in 1..n
  BY <1>1, <1>3
<1>6. cut = [i \in 1..m |-> cuts[a + i - 1]]
  BY <1>1, <1>3 DEF n
<1> HIDE DEF cut, m
<1>7. cut \in Seq(Range(cut)) /\ DOMAIN cut = 1..m
  BY <1>5, <1>6, ListOfItsOwn
<1>8. \A i \in 1..m : Cut(S, dates, cut[i].train, cut[i].test)
  BY <1>1, <1>5, <1>6 DEF FoldsCut
<1> QED
  BY <1>4, <1>7, <1>8 DEF FoldsCut

\* What lies before the holdout, and the holdout.
HoldsOut(S, dates) ==
  /\ Rising(HoldoutSplit(dates).work, S)
  /\ Cut(S, dates, HoldoutSplit(dates).train, HoldoutSplit(dates).holdout)
  /\ \A x \in Range(HoldoutSplit(dates).work) :
       \E i \in 1..Len(dates) : i <= Len(dates) - HoldoutSize /\ x = dates[i]
  /\ \A x \in Range(HoldoutSplit(dates).holdout) :
       \E i \in 1..Len(dates) : i > Len(dates) - HoldoutSize /\ x = dates[i]

LEMMA HoldoutIsCut ==
  ASSUME NEW S \in SUBSET Nat, IsFiniteSet(S), NEW dates, Rising(dates, S), Len(dates) >= HoldoutSize
  PROVE  HoldsOut(S, dates)
<1> DEFINE L == Len(dates)
           b == L - HoldoutSize
           m == Max({0, b - Gap})
           work == HoldoutSplit(dates).work
<1>1. /\ L \in Nat /\ HoldoutSize \in Nat \ {0} /\ Gap \in Nat /\ b \in Nat /\ b <= L
      /\ dates \in Seq(S)
  <2>1. L \in Nat /\ HoldoutSize \in Nat \ {0} /\ Gap \in Nat /\ dates \in Seq(S)
    BY GapIsNat, TrainingAssumption DEF Rising
  <2> QED
    BY <2>1
<1>2. work = SubSeq(dates, 1, b)
  BY DEF HoldoutSplit, FirstOf
<1>3. Max({L - HoldoutSize, 0}) = b
  <2>1. b \in Int /\ 0 \in Int /\ b >= 0
    BY <1>1
  <2> QED
    BY <2>1, MaxOfTwo
<1>4. HoldoutSplit(dates).holdout = SubSeq(dates, b + 1, L)
  BY <1>3 DEF HoldoutSplit, LastOf
<1>5. m = IF 0 >= b - Gap THEN 0 ELSE b - Gap
  <2>1. b - Gap \in Int /\ 0 \in Int
    BY <1>1
  <2> QED
    BY <2>1, MaxOfTwo
<1>6. m \in Nat /\ m <= b
  BY <1>1, <1>5
<1>7. Len(work) = b /\ \A i \in 1..b : work[i] = dates[i]
  BY <1>1, <1>2
<1>8. HoldoutSplit(dates).train = SubSeq(work, 1, m)
  BY <1>7 DEF HoldoutSplit, FirstOf
<1> HIDE DEF m, work, b
<1>9. SubSeq(work, 1, m) = SubSeq(dates, 1, m)
  <2>1. work \in Seq(S)
    BY <1>1, <1>2
  <2>2. \A i \in 1..m : i \in 1..b /\ i \in 1..L
    BY <1>1, <1>6
  <2>3. SubSeq(work, 1, m) = [i \in 1..m |-> work[i]]
    BY <2>1, <1>1, <1>6, <1>7
  <2>4. SubSeq(dates, 1, m) = [i \in 1..m |-> dates[i]]
    BY <1>1, <1>6
  <2> QED
    BY <2>2, <2>3, <2>4, <1>7
<1> HIDE DEF L
<1>10. /\ 1 \in Nat \ {0} /\ b \in Int /\ m \in Int /\ L \in Int /\ b + 1 \in Nat \ {0}
       /\ b <= Len(dates) /\ m <= Len(dates) /\ L <= Len(dates)
  BY <1>1, <1>6 DEF L
<1> DEFINE one == 1
           c == b + 1
<1> HIDE DEF one, c
<1>11. one \in Nat \ {0} /\ c \in Nat \ {0}
  BY <1>10 DEF one, c
<1>12. IsCut(S, dates, one, b)
  BY <1>10, <1>11, CutIsCut
<1>13. IsCut(S, dates, one, m)
  BY <1>10, <1>11, CutIsCut
<1>14. IsCut(S, dates, c, L)
  BY <1>10, <1>11, CutIsCut
<1>15. ApartIn(S, SubSeq(dates, one, m), SubSeq(dates, c, L))
  <2>1. CASE m = 0
    <3>1. Range(SubSeq(dates, one, m)) = {}
      <4>1. one..m = {}
        BY <2>1 DEF one
      <4> QED
        BY <4>1, <1>13 DEF IsCut
    <3> QED
      BY <3>1 DEF ApartIn
  <2>2. CASE m # 0
    <3>1. c - m > Gap
      BY <2>2, <1>1, <1>5 DEF c
    <3> QED
      BY <3>1, <1>10, <1>11, CutsApart
  <2> QED
    BY <2>1, <2>2
<1>16. \A i \in 1..Len(dates) : dates[i] \in Range(dates)
  <2>1. DOMAIN dates = 1..Len(dates)
    BY RangeOfRising
  <2> QED
    BY <2>1 DEF Range
<1>17. /\ work = SubSeq(dates, one, b) /\ HoldoutSplit(dates).train = SubSeq(dates, one, m)
       /\ HoldoutSplit(dates).holdout = SubSeq(dates, c, L)
  BY <1>2, <1>4, <1>8, <1>9 DEF one, c
<1>18. Cut(S, dates, SubSeq(dates, one, m), SubSeq(dates, c, L))
  BY <1>13, <1>14, <1>15, <1>16 DEF Cut, IsCut
<1>19. \A i \in c..L : i > Len(dates) - HoldoutSize
  BY <1>1 DEF b, c, L
<1>20. \A i \in one..b : i <= Len(dates) - HoldoutSize
  BY <1>1 DEF b, L
<1> QED
  BY <1>12, <1>14, <1>18, <1>19, <1>20, <1>17 DEF work, IsCut, HoldsOut
-----------------------------------------------------------------------------
(* The splits of the cross-validation                                      *)

\* In a strict total order of a finite set every rank is somebody's.
LEMMA RanksAreTaken ==
  ASSUME NEW A, IsFiniteSet(A), NEW R,
         \A c \in A : <<c, c>> \notin R,
         \A c, d \in A : c # d => <<c, d>> \in R \/ <<d, c>> \in R,
         \A c, d, e \in A : <<c, d>> \in R /\ <<d, e>> \in R => <<c, e>> \in R
  PROVE  \A i \in 1..Cardinality(A) : \E c \in A : Cardinality({d \in A : <<d, c>> \in R}) = i - 1
<1> DEFINE Ahead(c) == {d \in A : <<d, c>> \in R}
           n == Cardinality(A)
           rank == [c \in A |-> Cardinality(Ahead(c))]
<1>1. n \in Nat
  BY FS_CardinalityType
<1>2. ASSUME NEW c \in A
      PROVE  IsFiniteSet(Ahead(c)) /\ Cardinality(Ahead(c)) \in 0..(n - 1)
  <2>1. Ahead(c) \subseteq A \ {c}
    OBVIOUS
  <2> HIDE DEF Ahead
  <2>2. IsFiniteSet(A \ {c}) /\ Cardinality(A \ {c}) = n - 1
    BY FS_RemoveElement
  <2>3. IsFiniteSet(Ahead(c)) /\ Cardinality(Ahead(c)) \in Nat /\ Cardinality(Ahead(c)) <= Cardinality(A \ {c})
    BY <2>1, <2>2, FS_Subset, FS_CardinalityType
  <2> QED
    BY <2>2, <2>3, <1>1
<1>3. ASSUME NEW c \in A, NEW d \in A, <<c, d>> \in R
      PROVE  Cardinality(Ahead(c)) # Cardinality(Ahead(d))
  <2>1. Ahead(c) \subseteq Ahead(d) /\ c \in Ahead(d) /\ c \notin Ahead(c)
    BY <1>3
  <2>2. IsFiniteSet(Ahead(d))
    BY <1>2
  <2> HIDE DEF Ahead
  <2>3. Ahead(c) # Ahead(d)
    BY <2>1
  <2> QED
    BY <2>1, <2>2, <2>3, FS_Subset
<1> HIDE DEF Ahead, n
<1>4. \A c, d \in A : rank[c] = rank[d] => c = d
  BY <1>3
<1>5. rank \in Injection(A, 0..(n - 1))
  BY <1>2, <1>4 DEF Injection, IsInjective
<1>6. IsFiniteSet(0..(n - 1)) /\ Cardinality(0..(n - 1)) = n
  <2>1. 0 \in Int /\ n - 1 \in Int
    BY <1>1
  <2>2. IsFiniteSet(0..(n - 1)) /\ Cardinality(0..(n - 1)) = IF 0 > n - 1 THEN 0 ELSE (n - 1) - 0 + 1
    BY <2>1, FS_Interval
  <2> QED
    BY <2>2, <1>1
<1>7. rank \in Surjection(A, 0..(n - 1))
  BY <1>5, <1>6, FS_Injection DEF n
<1>8. ASSUME NEW i \in 1..n
      PROVE  \E c \in A : rank[c] = i - 1
  <2>1. i - 1 \in 0..(n - 1)
    BY <1>1
  <2> HIDE DEF rank
  <2> QED
    BY <2>1, <1>7 DEF Surjection
<1> QED
  BY <1>8 DEF n, Ahead

\* combinations(): the first number that only one of two has is in the earlier one.
FirstApart(c, d) == \E m \in c \ d : \A x \in Nat : x < m => (x \in c <=> x \in d)

LEMMA FirstApartIsLeast ==
  ASSUME NEW c \in SUBSET Nat, NEW d \in SUBSET Nat
  PROVE  c # d /\ Min((c \ d) \union (d \ c)) \in c <=> FirstApart(c, d)
<1> DEFINE D == (c \ d) \union (d \ c)
           m == Min(D)
<1>1. c # d => D # {} /\ D \in SUBSET Nat
  OBVIOUS
<1>2. c # d => m \in D /\ \A x \in D : m <= x
  BY <1>1, MinIsLeast
<1> HIDE DEF m
<1>3. ASSUME c # d, m \in c
      PROVE  FirstApart(c, d)
  <2>1. m \in c \ d /\ m \in Nat
    BY <1>2, <1>3
  <2>2. \A x \in Nat : x < m => x \notin D
    BY <1>2, <1>3, <2>1
  <2> QED
    BY <2>1, <2>2 DEF FirstApart
<1>4. ASSUME FirstApart(c, d)
      PROVE  c # d /\ m \in c
  <2>1. PICK y \in c \ d : \A x \in Nat : x < y => (x \in c <=> x \in d)
    BY <1>4 DEF FirstApart
  <2>2. c # d /\ y \in D /\ y \in Nat
    BY <2>1
  <2>3. m \in D /\ m <= y /\ m \in Nat
    BY <1>1, <1>2, <2>2
  <2>4. ~(m < y)
    BY <2>1, <2>3
  <2>5. m = y
    BY <2>2, <2>3, <2>4
  <2> QED
    BY <2>1, <2>2, <2>5
<1> QED
  BY <1>3, <1>4 DEF m, D

LEMMA FirstApartOrders ==
  ASSUME NEW c \in SUBSET Nat, NEW d \in SUBSET Nat, NEW e \in SUBSET Nat
  PROVE  /\ ~FirstApart(c, c)
         /\ c # d => FirstApart(c, d) \/ FirstApart(d, c)
         /\ FirstApart(c, d) /\ FirstApart(d, e) => FirstApart(c, e)
<1>1. ~FirstApart(c, c)
  BY DEF FirstApart
<1>2. ASSUME c # d
      PROVE  FirstApart(c, d) \/ FirstApart(d, c)
  <2> DEFINE D == (c \ d) \union (d \ c)
  <2>1. D \in SUBSET Nat /\ D # {}
    BY <1>2
  <2>2. PICK m \in D : \A x \in D : m <= x
    BY <2>1, LeastNumber
  <2>3. \A x \in Nat : x < m => x \notin D
    BY <2>1, <2>2
  <2> QED
    BY <2>2, <2>3 DEF FirstApart
<1>3. ASSUME FirstApart(c, d), FirstApart(d, e)
      PROVE  FirstApart(c, e)
  <2>1. PICK m \in c \ d : \A x \in Nat : x < m => (x \in c <=> x \in d)
    BY <1>3 DEF FirstApart
  <2>2. PICK y \in d \ e : \A x \in Nat : x < y => (x \in d <=> x \in e)
    BY <1>3 DEF FirstApart
  <2>3. m \in Nat /\ y \in Nat /\ m # y
    BY <2>1, <2>2
  <2>4. CASE m < y
    <3>1. m \in c \ e
      BY <2>1, <2>2, <2>3, <2>4
    <3>2. \A x \in Nat : x < m => x < y
      BY <2>3, <2>4
    <3> QED
      BY <2>1, <2>2, <3>1, <3>2 DEF FirstApart
  <2>5. CASE y < m
    <3>1. y \in c \ e
      BY <2>1, <2>2, <2>3, <2>5
    <3>2. \A x \in Nat : x < y => x < m
      BY <2>3, <2>5
    <3> QED
      BY <2>1, <2>2, <3>1, <3>2 DEF FirstApart
  <2> QED
    BY <2>3, <2>4, <2>5
<1> QED
  BY <1>1, <1>2, <1>3
LEMMA CombosAreGroups ==
  ASSUME NEW n \in Nat, NEW k
  PROVE  /\ Combos(n, k) \in Seq(SUBSET (0..(n - 1)))
         /\ \A i \in DOMAIN Combos(n, k) : Combos(n, k)[i] \subseteq 0..(n - 1)
         /\ IsFiniteSet(DOMAIN Combos(n, k)) /\ DOMAIN Combos(n, k) \subseteq Nat
         /\ \A i \in DOMAIN Combos(n, k) : Combos(n, k)[i] \in Groupings(n, k)
         /\ \A i, j \in DOMAIN Combos(n, k) : Combos(n, k)[i] = Combos(n, k)[j] => i = j
<1> DEFINE all == Groupings(n, k)
           before(c, d) == c # d /\ Min((c \ d) \union (d \ c)) \in c
           R == {e \in all \X all : FirstApart(e[1], e[2])}
           N == Cardinality(all)
<1>1. Combos(n, k) = [i \in 1..N |-> CHOOSE c \in all : Cardinality({d \in all : before(d, c)}) = i - 1]
  BY Zenon DEF Combos
<1>2. IsFiniteSet(all) /\ N \in Nat /\ all \subseteq SUBSET (0..(n - 1)) /\ \A c \in all : c \in SUBSET Nat
  <2>1. 0 \in Int /\ n - 1 \in Int /\ 0..(n - 1) \subseteq Nat
    OBVIOUS
  <2>2. IsFiniteSet(SUBSET (0..(n - 1)))
    BY <2>1, FS_Interval, FS_SUBSET
  <2>3. all \in SUBSET (SUBSET (0..(n - 1)))
    BY DEF Groupings
  <2>4. IsFiniteSet(all)
    BY <2>2, <2>3, FS_Subset
  <2> QED
    BY <2>1, <2>3, <2>4, FS_CardinalityType
<1> HIDE DEF all, N
<1>3. \A c, d \in all : <<c, d>> \in R <=> FirstApart(c, d)
  OBVIOUS
<1> HIDE DEF R
<1>4. /\ \A c \in all : <<c, c>> \notin R
      /\ \A c, d \in all : c # d => <<c, d>> \in R \/ <<d, c>> \in R
      /\ \A c, d, e \in all : <<c, d>> \in R /\ <<d, e>> \in R => <<c, e>> \in R
  <2>1. \A c, d, e \in all : /\ ~FirstApart(c, c)
                             /\ c # d => FirstApart(c, d) \/ FirstApart(d, c)
                             /\ FirstApart(c, d) /\ FirstApart(d, e) => FirstApart(c, e)
    BY <1>2, FirstApartOrders
  <2> QED
    BY <1>3, <2>1
<1>5. \A i \in 1..N : \E c \in all : Cardinality({d \in all : <<d, c>> \in R}) = i - 1
  BY <1>2, <1>4, RanksAreTaken DEF N
<1>6. ASSUME NEW c \in all
      PROVE  {d \in all : <<d, c>> \in R} = {d \in all : before(d, c)}
  <2>1. \A d \in all : before(d, c) <=> FirstApart(d, c)
    BY <1>2, FirstApartIsLeast
  <2> HIDE DEF before
  <2> QED
    BY <2>1, <1>3
<1> HIDE DEF before
<1>7. \A i \in 1..N : \E c \in all : Cardinality({d \in all : before(d, c)}) = i - 1
  BY <1>5, <1>6
<1>8. ASSUME NEW i \in 1..N
      PROVE  /\ (CHOOSE c \in all : Cardinality({d \in all : before(d, c)}) = i - 1) \in all
             /\ Cardinality({b \in all : before(b, CHOOSE c \in all : Cardinality({d \in all : before(d, c)}) = i - 1)}) = i - 1
  <2> DEFINE Rank(c, r) == Cardinality({d \in all : before(d, c)}) = r
  <2>1. \E c \in all : Rank(c, i - 1)
    BY <1>7
  <2> HIDE DEF Rank
  <2>2. (CHOOSE c \in all : Rank(c, i - 1)) \in all /\ Rank(CHOOSE c \in all : Rank(c, i - 1), i - 1)
    BY <2>1, Zenon
  <2> QED
    BY <2>2, Zenon DEF Rank
<1>9. /\ DOMAIN Combos(n, k) = 1..N
      /\ \A i \in 1..N : /\ Combos(n, k)[i] \in all
                         /\ Cardinality({d \in all : before(d, Combos(n, k)[i])}) = i - 1
  BY <1>1, <1>8
<1>10. Combos(n, k) = [i \in 1..N |-> Combos(n, k)[i]]
  <2> DEFINE f == [i \in 1..N |-> CHOOSE c \in all : Cardinality({d \in all : before(d, c)}) = i - 1]
  <2>1. f = [i \in 1..N |-> f[i]]
    OBVIOUS
  <2> HIDE DEF f
  <2> QED
    BY <2>1, <1>1 DEF f
<1>11. \A i \in 1..N : Combos(n, k)[i] \in SUBSET (0..(n - 1))
  BY <1>2, <1>9
<1>12. Combos(n, k) \in Seq(SUBSET (0..(n - 1)))
  BY <1>2, <1>10, <1>11
<1>13. IsFiniteSet(1..N) /\ 1..N \subseteq Nat
  BY <1>2, FS_Interval
<1>14. ASSUME NEW i \in 1..N, NEW j \in 1..N, Combos(n, k)[i] = Combos(n, k)[j]
       PROVE  i = j
  <2>1. i - 1 = j - 1
    BY <1>9, <1>14
  <2> QED
    BY <2>1
<1> QED
  BY <1>9, <1>11, <1>12, <1>13, <1>14 DEF all

LEMMA BlocksArePositions ==
  ASSUME NEW len \in Nat, NEW n \in Nat \ {0}, NEW g \in 0..(n - 1)
  PROVE  Block(len, n, g) \subseteq 1..len
<1> DEFINE a == g * len
           b == (g + 1) * len
<1>1. g \in Nat /\ g <= n - 1
  OBVIOUS
<1>2. a \in Nat /\ b \in Int /\ b <= n * len /\ n * len \in Int
  <2>1. PICK m \in Nat : n = g + 1 + m
    <3>1. n - (g + 1) \in Nat /\ n = g + 1 + (n - (g + 1))
      BY <1>1
    <3> QED
      BY <3>1
  <2>2. n * len = b + m * len /\ m * len \in Nat /\ a \in Nat /\ b \in Nat
    BY <2>1, <1>1
  <2> HIDE DEF a, b
  <2> QED
    BY <2>2
<1> HIDE DEF a, b
<1>3. 0 \div n = 0 /\ (n * len) \div n = len
  OBVIOUS
<1>4. 0 <= a \div n /\ a \div n \in Int
  <2>1. 0 \in Int /\ a \in Int /\ 0 <= a
    BY <1>2
  <2>2. (0 \div n) <= (a \div n)
    BY <2>1, QuotientsGrow
  <2>3. (a \div n) \in Int
    BY <2>1, QuotientsGrow
  <2> QED
    BY <2>2, <2>3, <1>3
<1>5. b \div n <= len /\ b \div n \in Int
  <2>1. (b \div n) \in Int /\ (b \div n) <= ((n * len) \div n)
    BY <1>2, QuotientsGrow
  <2> QED
    BY <2>1, <1>3
<1> DEFINE p == a \div n
           q == b \div n
<1>6. Block(len, n, g) = (p + 1)..q
  BY DEF Block, a, b
<1> HIDE DEF p, q
<1>7. p \in Int /\ 0 <= p /\ q \in Int /\ q <= len
  BY <1>4, <1>5 DEF p, q
<1> QED
  BY <1>6, <1>7
\* Positions further apart than the gap: what is fitted on and what is tested.
LEMMA PositionsAreCut ==
  ASSUME NEW S \in SUBSET Nat, IsFiniteSet(S), NEW dates, Rising(dates, S),
         NEW P \in SUBSET (1..Len(dates)), NEW Q \in SUBSET (1..Len(dates)),
         \A i \in P, j \in Q : i - j \notin (-Gap)..Gap
  PROVE  Cut(S, dates, Ordered({dates[i] : i \in P}), Ordered({dates[i] : i \in Q}))
<1> DEFINE X == {dates[i] : i \in P}
           Y == {dates[i] : i \in Q}
           L == Len(dates)
<1>1. /\ L \in Nat /\ \A i \in 1..L : dates[i] \in S /\ dates[i] \in Nat /\ dates[i] \in Range(dates)
      /\ \A i, j \in 1..L : i < j => dates[i] < dates[j]
  <2>1. DOMAIN dates = 1..L
    BY RangeOfRising
  <2> QED
    BY <2>1 DEF Rising, Range
<1>2. X \subseteq S /\ Y \subseteq S /\ X \subseteq Range(dates) /\ Y \subseteq Range(dates)
  BY <1>1
<1>3. X \in SUBSET Nat /\ Y \in SUBSET Nat /\ IsFiniteSet(X) /\ IsFiniteSet(Y)
  BY <1>2, FS_Subset
<1>4. \A x \in X : \E i \in P : x = dates[i]
  OBVIOUS
<1>5. \A y \in Y : \E j \in Q : y = dates[j]
  OBVIOUS
<1> HIDE DEF X, Y
<1>6. /\ Rising(Ordered(X), X) /\ Range(Ordered(X)) = X
      /\ Rising(Ordered(Y), Y) /\ Range(Ordered(Y)) = Y
  <2>1. Rising(Ordered(X), X) /\ Range(Ordered(X)) = X
    BY <1>3, OrderedRises
  <2>2. Rising(Ordered(Y), Y) /\ Range(Ordered(Y)) = Y
    BY <1>3, OrderedRises
  <2> QED
    BY <2>1, <2>2
<1>7. Rising(Ordered(X), S) /\ Rising(Ordered(Y), S)
  <2>1. \A Z, seq : Z \subseteq S /\ Rising(seq, Z) => Rising(seq, S)
    BY DEF Rising
  <2> QED
    BY <1>2, <1>6, <2>1
<1>8. ASSUME NEW x \in X, NEW y \in Y, x < y
      PROVE  Cardinality(Between(S, x, y)) >= Gap
  <2>1. PICK i \in P : x = dates[i]
    BY <1>4
  <2>2. PICK j \in Q : y = dates[j]
    BY <1>5
  <2>3. i \in 1..Len(dates) /\ j \in 1..Len(dates) /\ i \in Nat /\ j \in Nat
    OBVIOUS
  <2>4. i < j
    <3>1. SUFFICES ASSUME ~(i < j) PROVE FALSE
      OBVIOUS
    <3>2. i = j \/ j < i
      BY <2>3, <3>1
    <3>3. dates[i] \in Nat /\ dates[j] \in Nat /\ (j < i => dates[j] < dates[i])
      BY <1>1, <2>3
    <3> QED
      BY <1>8, <2>1, <2>2, <3>2, <3>3
  <2>5. j - i - 1 >= Gap
    <3>1. i - j \notin (-Gap)..Gap
      BY <2>1, <2>2
    <3> QED
      BY <3>1, <2>3, <2>4, GapIsNat
  <2>6. Cardinality(Between(S, x, y)) >= j - i - 1
    BY <2>1, <2>2, <2>3, <2>4, BetweenPositions
  <2>7. Cardinality(Between(S, x, y)) \in Nat
    <3>1. Between(S, x, y) \subseteq S
      BY DEF Between
    <3> QED
      BY <3>1, FS_Subset, FS_CardinalityType
  <2> QED
    BY <2>3, <2>5, <2>6, <2>7, GapIsNat
<1>9. ApartIn(S, Ordered(X), Ordered(Y))
  BY <1>6, <1>8 DEF ApartIn
<1>10. Cut(S, dates, Ordered(X), Ordered(Y))
  BY <1>2, <1>6, <1>7, <1>9 DEF Cut
<1> QED
  BY <1>10 DEF X, Y

LEMMA SplitsAreCut ==
  ASSUME NEW S \in SUBSET Nat, IsFiniteSet(S), NEW dates, Rising(dates, S),
         NEW n \in Nat \ {0}, NEW k
  PROVE  \A i \in DOMAIN CpcvSplits(dates, n, k) :
           Cut(S, dates, CpcvSplits(dates, n, k)[i].train, CpcvSplits(dates, n, k)[i].test)
<1> DEFINE len == Len(dates)
           combos == Combos(n, k)
           tested(c) == UNION {Block(len, n, g) : g \in c}
           near(c) == {i \in 1..len : \E j \in tested(c) : i - j \in (-Gap)..Gap}
           fitted(c) == (1..len) \ near(c)
           datesAt(positions) == Ordered({dates[i] : i \in positions})
           K == {i \in DOMAIN combos : tested(combos[i]) # {} /\ fitted(combos[i]) # {}}
           kept == Ordered(K)
           splits == CpcvSplits(dates, n, k)
<1>1. splits = [i \in DOMAIN kept |-> [groups |-> combos[kept[i]], test |-> datesAt(tested(combos[kept[i]])),
                                       train |-> datesAt(fitted(combos[kept[i]]))]]
  BY Zenon DEF CpcvSplits
<1>2. len \in Nat
  BY DEF Rising
<1>3. /\ \A i \in DOMAIN combos : combos[i] \subseteq 0..(n - 1)
      /\ IsFiniteSet(DOMAIN combos) /\ DOMAIN combos \subseteq Nat
  BY CombosAreGroups
<1>4. K \subseteq DOMAIN combos
  OBVIOUS
<1> HIDE DEF K
<1>5. Rising(kept, K)
  <2>1. K \in SUBSET Nat /\ IsFiniteSet(K)
    BY <1>3, <1>4, FS_Subset
  <2> QED
    BY <2>1, OrderedRises
<1>6. \A i \in DOMAIN kept : kept[i] \in K
  BY <1>5, RangeOfRising DEF Range
<1>7. ASSUME NEW c \in SUBSET (0..(n - 1))
      PROVE  Cut(S, dates, datesAt(fitted(c)), datesAt(tested(c)))
  <2>1. \A g \in c : Block(len, n, g) \subseteq 1..len
    BY <1>2, BlocksArePositions
  <2>2. tested(c) \subseteq 1..len
    BY <2>1
  <2> HIDE DEF tested
  <2>3. fitted(c) \subseteq 1..len /\ \A i \in fitted(c), j \in tested(c) : i - j \notin (-Gap)..Gap
    OBVIOUS
  <2> HIDE DEF fitted, near
  <2>4. Cut(S, dates, Ordered({dates[i] : i \in fitted(c)}), Ordered({dates[i] : i \in tested(c)}))
    BY <2>2, <2>3, PositionsAreCut
  <2> QED
    BY <2>4
<1> HIDE DEF kept, combos, tested, near, fitted, datesAt
<1>8. ASSUME NEW i \in DOMAIN kept
      PROVE  /\ splits[i].test = datesAt(tested(combos[kept[i]]))
             /\ splits[i].train = datesAt(fitted(combos[kept[i]]))
             /\ combos[kept[i]] \in SUBSET (0..(n - 1))
  BY <1>1, <1>3, <1>4, <1>6
<1>9. DOMAIN splits = DOMAIN kept
  BY <1>1
<1> HIDE DEF splits
<1>10. \A i \in DOMAIN splits : Cut(S, dates, splits[i].train, splits[i].test)
  BY <1>7, <1>8, <1>9
<1> QED
  BY <1>10 DEF splits
-----------------------------------------------------------------------------
(* What the operations fit and score                                       *)

\* Every window scored is apart from the labels it was fitted on.
WindowsApart == \A w \in Windows : Apart(DaysOf(LastData), w)
\* What a sweep selected on has a holdout's worth of sessions after it.
SweptIsEarly ==
  \A t \in swept : t \in DaysOf(studyRows) /\ Cardinality(After(DaysOf(studyRows), t)) >= HoldoutSize
\* What a training run holds out has fewer.
HeldOutIsLate ==
  last.kind = "training" =>
    \A t \in Range(last.holdout.test) : Cardinality(After(DaysOf(rows), t)) < HoldoutSize

LeakInv == BuiltInv /\ WindowsApart /\ SweptIsEarly /\ HeldOutIsLate

LEMMA DatesRise ==
  ASSUME NEW data, DataReaches(data)
  PROVE  /\ DaysOf(data) \in SUBSET Nat /\ IsFiniteSet(DaysOf(data)) /\ DatesOf(data) = Ordered(DaysOf(data))
         /\ Rising(DatesOf(data), DaysOf(data)) /\ Len(DatesOf(data)) \in Nat
         /\ Len(DatesOf(data)) = Cardinality(DaysOf(data))
<1>1. DaysOf(data) \in SUBSET Nat /\ IsFiniteSet(DaysOf(data))
  BY DaysAreFinite
<1>2. DatesOf(data) = Ordered(DaysOf(data))
  BY DEF DatesOf, DaysOf
<1>3. /\ Rising(Ordered(DaysOf(data)), DaysOf(data)) /\ Cardinality(DaysOf(data)) \in Nat
      /\ Len(Ordered(DaysOf(data))) = Cardinality(DaysOf(data))
  BY <1>1, OrderedRises
<1> QED
  BY <1>1, <1>2, <1>3

LEMMA HoldoutFits ==
  ASSUME NEW dates, Len(dates) \in Nat, LongEnough(dates)
  PROVE  Len(dates) >= HoldoutSize
<1>1. HoldoutSize \in Nat /\ TrainSize \in Nat /\ TestSize \in Nat
  BY TrainingAssumption
<1> QED
  BY <1>1 DEF LongEnough

\* The holdout, for training and the importance study.
LEMMA HoldoutApart ==
  ASSUME NEW data, DataReaches(data), Len(DatesOf(data)) >= HoldoutSize
  PROVE  /\ Rising(HoldoutSplit(DatesOf(data)).work, DaysOf(data))
         /\ Apart(DaysOf(data), ScoreWindow(HoldoutSplit(DatesOf(data)).train, HoldoutSplit(DatesOf(data)).holdout))
         /\ \A t \in Range(HoldoutSplit(DatesOf(data)).holdout) :
              Cardinality(After(DaysOf(data), t)) < HoldoutSize
         /\ \A t \in Range(HoldoutSplit(DatesOf(data)).work) :
              t \in DaysOf(data) /\ Cardinality(After(DaysOf(data), t)) >= HoldoutSize
<1> DEFINE S == DaysOf(data)
           dates == DatesOf(data)
           h == HoldoutSplit(dates)
<1>1. /\ S \in SUBSET Nat /\ IsFiniteSet(S) /\ dates = Ordered(S) /\ Rising(dates, S)
      /\ Len(dates) \in Nat /\ Len(dates) = Cardinality(S)
  BY DatesRise
<1>2. Len(dates) >= HoldoutSize /\ HoldoutSize \in Nat
  BY TrainingAssumption
<1> HIDE DEF S, dates
<1>3. /\ Rising(h.work, S) /\ Cut(S, dates, h.train, h.holdout)
      /\ \A x \in Range(h.work) : \E i \in 1..Len(dates) : i <= Len(dates) - HoldoutSize /\ x = dates[i]
      /\ \A x \in Range(h.holdout) : \E i \in 1..Len(dates) : i > Len(dates) - HoldoutSize /\ x = dates[i]
  <2>1. HoldsOut(S, dates)
    BY <1>1, <1>2, HoldoutIsCut
  <2> QED
    BY <2>1 DEF HoldsOut
<1> HIDE DEF h
<1>4. Apart(S, ScoreWindow(h.train, h.holdout))
  BY <1>1, <1>3, ScoredApart
<1>5. ASSUME NEW i \in 1..Len(dates)
      PROVE  /\ Cardinality(After(S, dates[i])) = Len(dates) - i
             /\ dates[i] \in S
  <2>1. i \in 1..Cardinality(S)
    BY <1>1
  <2>2. Cardinality(After(S, Ordered(S)[i])) = Cardinality(S) - i
    BY <1>1, <2>1, AfterTheLast
  <2>3. dates[i] \in S
    BY <1>1 DEF Rising
  <2> QED
    BY <1>1, <2>2, <2>3
<1>6. ASSUME NEW t \in Range(h.holdout)
      PROVE  Cardinality(After(S, t)) < HoldoutSize
  <2>1. PICK i \in 1..Len(dates) : i > Len(dates) - HoldoutSize /\ t = dates[i]
    BY <1>3
  <2>2. Len(dates) - i < HoldoutSize
    BY <1>1, <1>2, <2>1
  <2> QED
    BY <1>5, <2>1, <2>2
<1>7. ASSUME NEW t \in Range(h.work)
      PROVE  t \in S /\ Cardinality(After(S, t)) >= HoldoutSize
  <2>1. PICK i \in 1..Len(dates) : i <= Len(dates) - HoldoutSize /\ t = dates[i]
    BY <1>3
  <2>2. Len(dates) - i >= HoldoutSize
    BY <1>1, <1>2, <2>1
  <2> QED
    BY <1>5, <2>1, <2>2
<1> QED
  BY <1>3, <1>4, <1>6, <1>7 DEF S, dates, h

LEMMA TrainingIsApart ==
  ASSUME BuiltInv, RunTraining
  PROVE  WindowsApart' /\ HeldOutIsLate'
<1> DEFINE S == DaysOf(rows)
           dates == DatesOf(rows)
           h == HoldoutSplit(dates)
           F == ScoredFolds(rows, PurgedWalkForward(h.work))
           H == ScoreWindow(h.train, h.holdout)
           ok == /\ ContractHolds /\ LongEnough(dates)
                 /\ Trainable(rows, h.train) /\ Trainable(rows, dates)
<1>1. /\ last' = IF ok THEN [kind |-> "training", folds |-> F, holdout |-> H] ELSE Refused
      /\ rows' = rows /\ studyRows' = studyRows
  BY DEF RunTraining, dataVars
<1>2. DataReaches(rows)
  BY BuiltReaches
<1>3. ok => LongEnough(dates)
  OBVIOUS
<1> HIDE DEF ok
<1>4. CASE ~ok
  <2>1. last'.kind = "refused"
    BY <1>1, <1>4 DEF Refused
  <2>2. Windows' = {}
    BY <2>1 DEF Windows
  <2> QED
    BY <2>1, <2>2 DEF WindowsApart, HeldOutIsLate
<1>5. CASE ok
  <2>1. S \in SUBSET Nat /\ IsFiniteSet(S) /\ Rising(dates, S) /\ Len(dates) \in Nat
    BY <1>2, DatesRise
  <2>2. Len(dates) >= HoldoutSize
    BY <1>3, <1>5, <2>1, HoldoutFits
  <2>3. Rising(h.work, S) /\ Apart(S, H) /\ \A t \in Range(h.holdout) : Cardinality(After(S, t)) < HoldoutSize
    BY <1>2, <2>2, HoldoutApart
  <2>4. FoldsCut(S, h.work, PurgedWalkForward(h.work))
    BY <2>1, <2>3, FoldsAreCut
  <2>5. \A w \in Range(F) : Apart(S, w)
    BY <2>1, <2>4, ScoredFoldsApart
  <2>6. H.test = h.holdout
    BY DEF ScoreWindow
  <2> HIDE DEF S, dates, h, F, H
  <2>7. last'.kind = "training" /\ last'.folds = F /\ last'.holdout = H
    BY <1>1, <1>5
  <2>8. Windows' = Range(F) \union {H} /\ LastData' = rows
    BY <1>1, <2>7 DEF Windows, LastData
  <2>9. WindowsApart'
    BY <2>3, <2>5, <2>8 DEF WindowsApart, S
  <2>10. HeldOutIsLate'
    BY <1>1, <2>3, <2>6, <2>7 DEF HeldOutIsLate, S
  <2> QED
    BY <2>9, <2>10
<1> QED
  BY <1>4, <1>5
LEMMA SweepIsApart ==
  ASSUME BuiltInv, SweptIsEarly, RunSweep
  PROVE  WindowsApart' /\ HeldOutIsLate' /\ SweptIsEarly'
<1> DEFINE S == DaysOf(studyRows)
           dates == DatesOf(studyRows)
           work == HoldoutSplit(dates).work
           fs == SweptFolds(dates)
           used == UNION {Range(f.train) \union Range(f.test) : f \in Range(fs)}
           F == ScoredFolds(studyRows, fs)
<1>1. /\ IF LongEnough(dates)
         THEN last' = [kind |-> "sweep", folds |-> F] /\ swept' = swept \union used
         ELSE last' = Refused /\ UNCHANGED swept
      /\ rows' = rows /\ studyRows' = studyRows
  BY DEF RunSweep, dataVars
<1>2. DataReaches(studyRows)
  BY BuiltReaches
<1>3. CASE ~LongEnough(dates)
  <2>1. last'.kind = "refused" /\ swept' = swept
    BY <1>1, <1>3 DEF Refused
  <2>2. Windows' = {}
    BY <2>1 DEF Windows
  <2> QED
    BY <1>1, <2>1, <2>2 DEF WindowsApart, HeldOutIsLate, SweptIsEarly
<1>4. CASE LongEnough(dates)
  <2>1. S \in SUBSET Nat /\ IsFiniteSet(S) /\ Rising(dates, S) /\ Len(dates) \in Nat
    BY <1>2, DatesRise
  <2>2. Len(dates) >= HoldoutSize
    BY <1>4, <2>1, HoldoutFits
  <2>3. Rising(work, S) /\ \A t \in Range(work) : t \in S /\ Cardinality(After(S, t)) >= HoldoutSize
    BY <1>2, <2>2, HoldoutApart
  <2>4. FoldsCut(S, work, PurgedWalkForward(work))
    BY <2>1, <2>3, FoldsAreCut
  <2>5. FoldsCut(S, work, fs)
    <3>1. SweepFolds \in Nat
      BY TrainingAssumption
    <3> QED
      BY <2>4, <3>1, LastFoldsAreCut DEF SweptFolds
  <2>6. \A w \in Range(F) : Apart(S, w)
    BY <2>1, <2>5, ScoredFoldsApart
  <2>7. used \subseteq Range(work)
    <3>1. \A f \in Range(fs) : Cut(S, work, f.train, f.test)
      BY <2>5 DEF FoldsCut, Range
    <3> HIDE DEF fs, work, S
    <3> QED
      BY <3>1 DEF Cut
  <2> HIDE DEF S, dates, work, fs, F, used
  <2>8. last'.kind = "sweep" /\ last'.folds = F /\ swept' = swept \union used
    BY <1>1, <1>4
  <2>9. Windows' = Range(F) /\ LastData' = studyRows
    BY <1>1, <2>8 DEF Windows, LastData
  <2>10. WindowsApart'
    BY <2>6, <2>9 DEF WindowsApart, S
  <2>11. HeldOutIsLate'
    BY <2>8 DEF HeldOutIsLate
  <2>12. SweptIsEarly'
    BY <1>1, <2>3, <2>7, <2>8 DEF SweptIsEarly, S
  <2> QED
    BY <2>10, <2>11, <2>12
<1> QED
  BY <1>3, <1>4

LEMMA ImportanceIsApart ==
  ASSUME BuiltInv, RunImportance
  PROVE  WindowsApart' /\ HeldOutIsLate'
<1> DEFINE S == DaysOf(studyRows)
           dates == DatesOf(studyRows)
           h == HoldoutSplit(dates)
           H == ScoreWindow(h.train, h.holdout)
           ok == Len(dates) > HoldoutSize /\ Trainable(studyRows, h.train)
<1>1. /\ last' = IF ok THEN [kind |-> "importance", holdout |-> H] ELSE Refused
      /\ rows' = rows /\ studyRows' = studyRows
  BY DEF RunImportance, dataVars
<1>2. DataReaches(studyRows)
  BY BuiltReaches
<1>3. ok => Len(dates) > HoldoutSize
  OBVIOUS
<1> HIDE DEF ok
<1>4. CASE ~ok
  <2>1. last'.kind = "refused"
    BY <1>1, <1>4 DEF Refused
  <2>2. Windows' = {}
    BY <2>1 DEF Windows
  <2> QED
    BY <2>1, <2>2 DEF WindowsApart, HeldOutIsLate
<1>5. CASE ok
  <2>1. Len(dates) >= HoldoutSize
    <3>1. Len(dates) \in Nat /\ HoldoutSize \in Nat
      BY <1>2, DatesRise, TrainingAssumption
    <3> QED
      BY <1>3, <1>5, <3>1
  <2>2. Apart(S, H)
    BY <1>2, <2>1, HoldoutApart
  <2> HIDE DEF S, dates, h, H
  <2>3. last'.kind = "importance" /\ last'.holdout = H
    BY <1>1, <1>5
  <2>4. Windows' = {H} /\ LastData' = studyRows
    BY <1>1, <2>3 DEF Windows, LastData
  <2> QED
    BY <2>2, <2>3, <2>4 DEF WindowsApart, HeldOutIsLate, S
<1> QED
  BY <1>4, <1>5

LEMMA CpcvIsApart ==
  ASSUME BuiltInv, NEW e \in Designs, RunCpcv(e[1], e[2])
  PROVE  WindowsApart' /\ HeldOutIsLate'
<1> DEFINE n == e[1]
           k == e[2]
           S == DaysOf(studyRows)
           dates == DatesOf(studyRows)
           splits == CpcvSplits(dates, n, k)
           paths == AssemblePaths(splits, n, k)
           fitted == {i \in DOMAIN splits : Trainable(studyRows, splits[i].train)}
           ok == Len(dates) >= n /\ DOMAIN paths # {}
           report == [kind |-> "cpcv", groups |-> n, tested |-> k, splits |-> splits, paths |-> paths,
                      fitted |-> fitted,
                      evaluated |-> {j \in DOMAIN paths : Range(paths[j]) \subseteq fitted}]
<1>1. /\ last' = IF ok THEN report ELSE Refused
      /\ rows' = rows /\ studyRows' = studyRows
  BY DEF RunCpcv, dataVars
<1>2. DataReaches(studyRows)
  BY BuiltReaches
<1>3. n \in Nat \ {0}
  BY TrainingAssumption
<1> HIDE DEF ok
<1>4. CASE ~ok
  <2>1. last'.kind = "refused"
    BY <1>1, <1>4 DEF Refused
  <2>2. Windows' = {}
    BY <2>1 DEF Windows
  <2> QED
    BY <2>1, <2>2 DEF WindowsApart, HeldOutIsLate
<1>5. CASE ok
  <2>1. S \in SUBSET Nat /\ IsFiniteSet(S) /\ Rising(dates, S)
    BY <1>2, DatesRise
  <2> HIDE DEF S, dates, n, k
  <2>2. \A i \in DOMAIN splits : Cut(S, dates, splits[i].train, splits[i].test)
    BY <1>3, <2>1, SplitsAreCut
  <2> HIDE DEF splits
  <2>3. \A i \in DOMAIN splits : Apart(S, ScoreWindow(splits[i].train, splits[i].test))
    BY <2>1, <2>2, ScoredApart
  <2>4. report.kind = "cpcv" /\ report.splits = splits /\ report.fitted = fitted
    OBVIOUS
  <2>5. fitted \subseteq DOMAIN splits
    OBVIOUS
  <2> HIDE DEF report, fitted, paths
  <2>6. last'.kind = "cpcv" /\ last'.splits = splits /\ last'.fitted = fitted
    BY <1>1, <1>5, <2>4
  <2>7. Windows' = {ScoreWindow(splits[i].train, splits[i].test) : i \in fitted} /\ LastData' = studyRows
    BY <1>1, <2>6 DEF Windows, LastData
  <2> QED
    BY <2>3, <2>5, <2>6, <2>7 DEF WindowsApart, HeldOutIsLate, S
<1> QED
  BY <1>4, <1>5
LEMMA DaysOfBuilt == BuiltInv => IsFiniteSet(DaysOf(studyRows))
BY BuiltReaches, DaysAreFinite

LEMMA SessionIsApart ==
  ASSUME BuiltInv, BuiltInv', SweptIsEarly, NextSession
  PROVE  WindowsApart' /\ HeldOutIsLate' /\ SweptIsEarly'
<1> DEFINE S == DaysOf(studyRows)
           T == DaysOf(studyRows')
<1>1. last' = [kind |-> "none"] /\ swept' = swept
  BY DEF NextSession
<1>2. last'.kind = "none"
  BY <1>1
<1>3. Windows' = {}
  BY <1>2 DEF Windows
<1>4. studyRows \subseteq studyRows'
  BY HistoryOnlyAdds
<1>5. S \subseteq T
  BY <1>4 DEF DaysOf
<1>6. IsFiniteSet(T)
  <2>1. IsFiniteSet(DaysOf(studyRows))'
    BY DaysOfBuilt, PTL
  <2> QED
    BY <2>1 DEF DaysOf
<1> HIDE DEF S, T
<1>7. ASSUME NEW t \in swept
      PROVE  t \in T /\ Cardinality(After(T, t)) >= HoldoutSize
  <2>1. t \in S /\ Cardinality(After(S, t)) >= HoldoutSize
    BY DEF SweptIsEarly, S
  <2>2. After(S, t) \subseteq After(T, t) /\ After(T, t) \subseteq T
    BY <1>5 DEF After
  <2>3. IsFiniteSet(After(T, t))
    BY <1>6, <2>2, FS_Subset
  <2>4. Cardinality(After(S, t)) <= Cardinality(After(T, t)) /\ IsFiniteSet(After(S, t))
    BY <2>2, <2>3, FS_Subset
  <2>5. Cardinality(After(S, t)) \in Nat /\ Cardinality(After(T, t)) \in Nat /\ HoldoutSize \in Nat
    BY <2>3, <2>4, FS_CardinalityType, TrainingAssumption
  <2> QED
    BY <1>5, <2>1, <2>4, <2>5
<1>8. SweptIsEarly'
  BY <1>1, <1>7 DEF SweptIsEarly, T
<1> QED
  BY <1>2, <1>3, <1>8 DEF WindowsApart, HeldOutIsLate

LEMMA LeakInvHolds == TrainSpec => []LeakInv
<1>1. TrainInit => WindowsApart /\ SweptIsEarly /\ HeldOutIsLate
  <2> SUFFICES ASSUME TrainInit PROVE WindowsApart /\ SweptIsEarly /\ HeldOutIsLate
    OBVIOUS
  <2>1. last.kind = "none" /\ swept = {}
    BY DEF TrainInit
  <2>2. Windows = {}
    BY <2>1 DEF Windows
  <2> QED
    BY <2>1, <2>2 DEF WindowsApart, SweptIsEarly, HeldOutIsLate
<1>2. BuiltInv /\ BuiltInv' /\ WindowsApart /\ SweptIsEarly /\ HeldOutIsLate /\ [TrainNext]_trainVars
        => WindowsApart' /\ SweptIsEarly' /\ HeldOutIsLate'
  <2> SUFFICES ASSUME BuiltInv, BuiltInv', WindowsApart, SweptIsEarly, HeldOutIsLate, [TrainNext]_trainVars
               PROVE  WindowsApart' /\ SweptIsEarly' /\ HeldOutIsLate'
    OBVIOUS
  <2>1. CASE NextSession
    BY <2>1, SessionIsApart
  <2>2. CASE RunTraining
    <3>1. SweptIsEarly'
      BY <2>2 DEF RunTraining, dataVars, SweptIsEarly, DaysOf
    <3> QED
      BY <2>2, <3>1, TrainingIsApart
  <2>3. CASE RunSweep
    BY <2>3, SweepIsApart
  <2>4. CASE RunImportance
    <3>1. SweptIsEarly'
      BY <2>4 DEF RunImportance, dataVars, SweptIsEarly, DaysOf
    <3> QED
      BY <2>4, <3>1, ImportanceIsApart
  <2>5. ASSUME NEW e \in Designs, RunCpcv(e[1], e[2])
        PROVE  WindowsApart' /\ SweptIsEarly' /\ HeldOutIsLate'
    <3>1. SweptIsEarly'
      BY <2>5 DEF RunCpcv, dataVars, SweptIsEarly, DaysOf
    <3> QED
      BY <2>5, <3>1, CpcvIsApart
  <2>6. CASE UNCHANGED trainVars
    <3>1. /\ last' = last /\ rows' = rows /\ studyRows' = studyRows /\ swept' = swept
      BY <2>6 DEF trainVars, dataVars
    <3>2. Windows' = Windows /\ LastData' = LastData
      BY <3>1 DEF Windows, LastData
    <3> QED
      BY <3>1, <3>2 DEF WindowsApart, SweptIsEarly, HeldOutIsLate, DaysOf
  <2> QED
    BY <2>1, <2>2, <2>3, <2>4, <2>5, <2>6 DEF TrainNext
<1> QED
  BY <1>1, <1>2, BuiltInvHolds, PTL DEF TrainSpec, LeakInv

LEMMA LeakInvKeepsApart == LeakInv => PurgedOfTest /\ ValidationPurged
<1> SUFFICES ASSUME LeakInv, NEW w \in Windows
             PROVE  KeptApart(LastData, w.train, w.test) /\ KeptApart(LastData, w.fit, w.val)
  BY DEF PurgedOfTest, ValidationPurged
<1>1. Apart(DaysOf(LastData), w)
  BY DEF LeakInv, WindowsApart
<1>2. DataReaches(LastData)
  BY BuiltReaches DEF LeakInv, LastData
<1> HIDE DEF LeakInv
<1> QED
  BY <1>1, <1>2, ApartIsKeptApart DEF Apart

LEMMA LeakInvSpares == LeakInv => SelectionSparesHoldout
<1> SUFFICES ASSUME LeakInv, last.kind = "training", ~selective,
                    NEW t \in swept, t \in Range(last.holdout.test)
             PROVE  FALSE
  BY DEF SelectionSparesHoldout
<1>1. rows = studyRows
  <2>1. BuiltInv
    BY DEF LeakInv
  <2>2. CASE now = 0
    BY <2>1, <2>2 DEF BuiltInv
  <2>3. CASE now # 0
    BY <2>1, <2>3 DEF BuiltInv, StudyOf
  <2> QED
    BY <2>2, <2>3
<1>2. Cardinality(After(DaysOf(studyRows), t)) >= HoldoutSize
  BY DEF LeakInv, SweptIsEarly
<1>3. Cardinality(After(DaysOf(rows), t)) < HoldoutSize
  BY DEF LeakInv, HeldOutIsLate
<1>4. Cardinality(After(DaysOf(rows), t)) \in Nat /\ HoldoutSize \in Nat
  <2>1. IsFiniteSet(DaysOf(rows))
    BY BuiltReaches, DaysAreFinite DEF LeakInv
  <2>2. After(DaysOf(rows), t) \subseteq DaysOf(rows)
    BY DEF After
  <2> QED
    BY <2>1, <2>2, FS_Subset, FS_CardinalityType, TrainingAssumption
<1> QED
  BY <1>1, <1>2, <1>3, <1>4

\* No result is of data that decided it (splits.py:44, training.py:240,
\* training.py:256, cpcv.py:104, tuning.py:132): the labels a model is fitted on reach
\* into no session it is stopped or scored on, beyond what an embargo leaves to names
\* that missed sessions; a sweep selects on no session a later training run holds out;
\* and no position earns the bar it was read from.
THEOREM NothingEverLeaks == TrainSpec /\ BackSpec => []NothingLeaks
<1>1. LeakInv => PurgedOfTest /\ ValidationPurged /\ SelectionSparesHoldout
  BY LeakInvKeepsApart, LeakInvSpares
<1>2. BackSpec => []NoSameBarReturn
  <2>1. BackInit => BackInv
    BY BackInvInit
  <2>2. BackInv /\ [BackNext]_backVars => BackInv'
    BY BackInvNext
  <2>3. BackInv => NoSameBarReturn
    BY BackInvEarnsLater
  <2> QED
    BY <2>1, <2>2, <2>3, PTL DEF BackSpec
<1> QED
  BY <1>1, <1>2, LeakInvHolds, PTL DEF NothingLeaks
-----------------------------------------------------------------------------
(* Sums of functions                                                       *)

\* The sums of f over the parts of its domain.
LEMMA SumUnfolds ==
  ASSUME NEW S, IsFiniteSet(S), NEW f \in [S -> Int]
  PROVE  \E g : /\ SumFunction(f) = g[S]
                /\ \A s \in SUBSET S : g[s] \in Int /\ g[s] = SumUpTo(f, s, g)
<1> DEFINE g == CHOOSE g : AddsUp(f, S, g)
<1>1. SumFunction(f) = g[S]
  <2>1. DOMAIN f = S
    OBVIOUS
  <2>2. SumFunction(f) = (CHOOSE iter : iter =
           [s \in SUBSET S |->
              IF s = {} THEN 0 ELSE f[CHOOSE x \in s : TRUE] + iter[s \ {CHOOSE x \in s : TRUE}]])[S]
    BY <2>1, Zenon DEF SumFunction, SumFunctionOnSet, FoldFunctionOnSet, MapThenFoldSet
  <2> QED
    BY <2>2, Zenon DEF AddsUp, SumUpTo, Some
<1>2. g = [s \in SUBSET S |-> SumUpTo(f, s, g)]
  <2>1. \E h : AddsUp(f, S, h)
    BY SumIsDefined
  <2>2. AddsUp(f, S, g)
    BY <2>1, Zenon
  <2> QED
    BY <2>2 DEF AddsUp
<1> HIDE DEF g
<1>3. \A s \in SUBSET S : g[s] = SumUpTo(f, s, g)
  BY <1>2
<1> DEFINE Bad == {n \in Nat : \E s \in SUBSET S : Cardinality(s) = n /\ g[s] \notin Int}
<1>4. Bad = {}
  <2> SUFFICES ASSUME Bad # {} PROVE FALSE
    OBVIOUS
  <2>1. PICK n \in Bad : \A m \in Bad : n <= m
    BY LeastNumber
  <2>2. PICK s \in SUBSET S : Cardinality(s) = n /\ g[s] \notin Int
    BY <2>1
  <2>3. IsFiniteSet(s)
    BY FS_Subset
  <2>4. g[s] = SumUpTo(f, s, g)
    BY <1>3
  <2>5. s # {}
    BY <2>2, <2>4 DEF SumUpTo
  <2> DEFINE r == s \ {Some(s)}
  <2>6. /\ Some(s) \in S /\ r \in SUBSET S /\ n > 0 /\ n \in Nat /\ Cardinality(r) = n - 1
    BY <2>2, <2>3, <2>5, SomeLess
  <2>7. g[r] \in Int
    BY <2>1, <2>6
  <2>8. g[s] = f[Some(s)] + g[r] /\ f[Some(s)] \in Int
    BY <2>4, <2>5, <2>6 DEF SumUpTo
  <2> QED
    BY <2>2, <2>7, <2>8
<1>5. \A s \in SUBSET S : g[s] \in Int
  <2> TAKE s \in SUBSET S
  <2>1. Cardinality(s) \in Nat
    BY FS_Subset, FS_CardinalityType
  <2> QED
    BY <1>4, <2>1
<1> QED
  BY <1>1, <1>3, <1>5

\* A sum of sums is the sum of what is added, value by value.
LEMMA SumsAdd ==
  ASSUME NEW S, IsFiniteSet(S), NEW a \in [S -> Int], NEW b \in [S -> Int], NEW c \in [S -> Int],
         \A x \in S : c[x] = a[x] + b[x]
  PROVE  SumFunction(c) = SumFunction(a) + SumFunction(b)
<1>1. PICK f : /\ SumFunction(a) = f[S]
               /\ \A s \in SUBSET S : f[s] \in Int /\ f[s] = SumUpTo(a, s, f)
  BY SumUnfolds
<1>2. PICK g : /\ SumFunction(b) = g[S]
               /\ \A s \in SUBSET S : g[s] \in Int /\ g[s] = SumUpTo(b, s, g)
  BY SumUnfolds
<1>3. PICK h : /\ SumFunction(c) = h[S]
               /\ \A s \in SUBSET S : h[s] \in Int /\ h[s] = SumUpTo(c, s, h)
  BY SumUnfolds
<1> DEFINE Bad == {n \in Nat : \E s \in SUBSET S : Cardinality(s) = n /\ h[s] # f[s] + g[s]}
<1>4. Bad = {}
  <2> SUFFICES ASSUME Bad # {} PROVE FALSE
    OBVIOUS
  <2>1. PICK n \in Bad : \A m \in Bad : n <= m
    BY LeastNumber
  <2>2. PICK s \in SUBSET S : Cardinality(s) = n /\ h[s] # f[s] + g[s]
    BY <2>1
  <2>3. IsFiniteSet(s)
    BY FS_Subset
  <2>4. f[s] = SumUpTo(a, s, f) /\ g[s] = SumUpTo(b, s, g) /\ h[s] = SumUpTo(c, s, h)
    BY <1>1, <1>2, <1>3
  <2>5. s # {}
    BY <2>2, <2>4 DEF SumUpTo
  <2> DEFINE x == Some(s)
             r == s \ {x}
  <2>6. /\ x \in S /\ r \in SUBSET S /\ n > 0 /\ n \in Nat /\ Cardinality(r) = n - 1
    BY <2>2, <2>3, <2>5, SomeLess
  <2>7. h[r] = f[r] + g[r] /\ f[r] \in Int /\ g[r] \in Int
    BY <1>1, <1>2, <2>1, <2>6
  <2>8. f[s] = a[x] + f[r] /\ g[s] = b[x] + g[r] /\ h[s] = c[x] + h[r]
    BY <2>4, <2>5 DEF SumUpTo
  <2>9. a[x] \in Int /\ b[x] \in Int /\ c[x] = a[x] + b[x]
    BY <2>6
  <2> HIDE DEF x, r
  <2> QED
    BY <2>2, <2>7, <2>8, <2>9
<1>5. h[S] = f[S] + g[S]
  <2>1. Cardinality(S) \in Nat /\ S \in SUBSET S
    BY FS_CardinalityType
  <2> QED
    BY <1>4, <2>1
<1> QED
  BY <1>1, <1>2, <1>3, <1>5

\* What is w on a part and nothing elsewhere adds up to w times the size of the part.
LEMMA SumCounts ==
  ASSUME NEW S, IsFiniteSet(S), NEW T \in SUBSET S, NEW w \in Int, NEW a \in [S -> Int],
         \A x \in S : a[x] = IF x \in T THEN w ELSE 0
  PROVE  SumFunction(a) = w * Cardinality(T)
<1>1. PICK f : /\ SumFunction(a) = f[S]
               /\ \A s \in SUBSET S : f[s] \in Int /\ f[s] = SumUpTo(a, s, f)
  BY SumUnfolds
<1>2. \A s \in SUBSET S : IsFiniteSet(s) /\ IsFiniteSet(s \cap T) /\ Cardinality(s) \in Nat /\ Cardinality(s \cap T) \in Nat
  <2> TAKE s \in SUBSET S
  <2>1. IsFiniteSet(s) /\ IsFiniteSet(s \cap T)
    BY FS_Subset
  <2> QED
    BY <2>1, FS_CardinalityType
<1> DEFINE Counts(s) == f[s] = w * Cardinality(s \cap T)
           Bad == {n \in Nat : \E s \in SUBSET S : Cardinality(s) = n /\ ~Counts(s)}
<1> HIDE DEF Counts
<1>4. Bad = {}
  <2> SUFFICES ASSUME Bad # {} PROVE FALSE
    OBVIOUS
  <2>1. PICK n \in Bad : \A m \in Bad : n <= m
    BY LeastNumber
  <2>2. PICK s \in SUBSET S : Cardinality(s) = n /\ ~Counts(s)
    BY <2>1
  <2>3. IsFiniteSet(s)
    BY FS_Subset
  <2>4. f[s] = SumUpTo(a, s, f)
    BY <1>1
  <2>5. s # {}
    <3>1. SUFFICES ASSUME s = {} PROVE FALSE
      OBVIOUS
    <3>2. s \cap T = {} /\ f[s] = 0
      BY <2>4, <3>1 DEF SumUpTo
    <3>3. Cardinality(s \cap T) = 0
      BY <3>2, FS_EmptySet
    <3> QED
      BY <2>2, <3>2, <3>3 DEF Counts
  <2> DEFINE x == Some(s)
             r == s \ {x}
  <2>6. /\ x \in S /\ x \in s /\ r \in SUBSET S /\ n > 0 /\ n \in Nat /\ Cardinality(r) = n - 1
    BY <2>2, <2>3, <2>5, SomeLess
  <2>7. Counts(r)
    BY <2>1, <2>6
  <2>8. f[s] = a[x] + f[r]
    BY <2>4, <2>5 DEF SumUpTo
  <2>9. \A y \in s : (s \ {y}) \cap T = IF y \in T THEN (s \cap T) \ {y} ELSE s \cap T
    OBVIOUS
  <2> HIDE DEF x
  <2>10. CASE x \in T
    <3>1. r \cap T = (s \cap T) \ {x} /\ x \in s \cap T
      BY <2>6, <2>9, <2>10
    <3> HIDE DEF r
    <3> DEFINE k == Cardinality(s \cap T)
    <3>2. Cardinality(r \cap T) = k - 1
      <4> DEFINE c == s \cap T
      <4>1. IsFiniteSet(c) /\ x \in c /\ r \cap T = c \ {x}
        BY <1>2, <3>1
      <4> HIDE DEF c
      <4>2. Cardinality(c \ {x}) = Cardinality(c) - 1
        BY <4>1, FS_RemoveElement
      <4> QED
        BY <4>1, <4>2 DEF c
    <3>3. k \in Nat
      BY <1>2
    <3> HIDE DEF k
    <3>4. f[s] = w + w * (k - 1)
      BY <2>6, <2>7, <2>8, <2>10, <3>2 DEF Counts
    <3>5. w + w * (k - 1) = w * k
      BY <3>3
    <3> QED
      BY <2>2, <3>4, <3>5 DEF k, Counts
  <2>11. CASE x \notin T
    <3>1. r \cap T = s \cap T
      BY <2>6, <2>9, <2>11
    <3> HIDE DEF r
    <3>2. f[s] = f[r]
      BY <1>1, <2>6, <2>8, <2>11
    <3> QED
      BY <2>2, <2>7, <3>1, <3>2 DEF Counts
  <2> QED
    BY <2>10, <2>11
<1>5. Counts(S)
  <2>1. Cardinality(S) \in Nat /\ S \in SUBSET S
    BY <1>2
  <2> QED
    BY <1>4, <2>1
<1>6. S \cap T = T
  OBVIOUS
<1> QED
  BY <1>1, <1>5, <1>6 DEF Counts

LEMMA SumIsInt ==
  ASSUME NEW S, IsFiniteSet(S), NEW a \in [S -> Int]
  PROVE  SumFunction(a) \in Int
<1>1. PICK f : /\ SumFunction(a) = f[S]
               /\ \A s \in SUBSET S : f[s] \in Int /\ f[s] = SumUpTo(a, s, f)
  BY SumUnfolds
<1> QED
  BY <1>1

\* Bars 0..n-1 under the spans of M: what lies over a bar weighs u there, all together.
Weighed(M, span, n, w, u) ==
  \A k \in 0..(n - 1) : LET over == {r \in M : k \in span[r]}
                   IN  over # {} => w[k] * Cardinality(over) = u

\* Then it weighs u times the bars covered; bar by bar.
LEMMA WeightsCoverBars ==
  ASSUME NEW M, IsFiniteSet(M), NEW n \in Nat, NEW span \in [M -> SUBSET (0..(n - 1))],
         NEW w, \A k \in 0..(n - 1) : w[k] \in Int, NEW u \in Int, Weighed(M, span, n, w, u)
  PROVE  SumFunction([r \in M |-> SumFunction([k \in span[r] |-> w[k]])])
           = u * Cardinality(UNION {span[r] : r \in M})
<1> DEFINE Over(k) == {r \in M : k \in span[r]}
           All == UNION {span[r] : r \in M}
           Part(m, r) == [k \in span[r] |-> IF k < m THEN w[k] ELSE 0]
           Alone(m, r) == [k \in span[r] |-> IF k = m THEN w[k] ELSE 0]
           Parts(m) == [r \in M |-> SumFunction(Part(m, r))]
           Alones(m) == [r \in M |-> SumFunction(Alone(m, r))]
           Covered(m) == {k \in All : k < m}
           Agrees(m) == SumFunction(Parts(m)) = u * Cardinality(Covered(m))
<1>1. All \subseteq 0..(n - 1) /\ IsFiniteSet(All)
  <2>1. All \subseteq 0..(n - 1)
    OBVIOUS
  <2> QED
    BY <2>1, FS_Interval, FS_Subset
<1>2. \A r \in M : IsFiniteSet(span[r]) /\ span[r] \subseteq 0..(n - 1)
  <2>1. IsFiniteSet(0..(n - 1)) /\ \A r \in M : span[r] \subseteq 0..(n - 1)
    BY FS_Interval
  <2> QED
    BY <2>1, FS_Subset
<1>3. \A m \in Nat : IsFiniteSet(Covered(m)) /\ Cardinality(Covered(m)) \in Nat
  <2> TAKE m \in Nat
  <2>1. Covered(m) \subseteq All
    OBVIOUS
  <2> QED
    BY <1>1, <2>1, FS_Subset, FS_CardinalityType
<1>4. \A m \in Nat : \A r \in M : Part(m, r) \in [span[r] -> Int] /\ Alone(m, r) \in [span[r] -> Int]
  BY <1>2
<1>5. \A m \in Nat : Parts(m) \in [M -> Int] /\ Alones(m) \in [M -> Int]
  <2> TAKE m \in Nat
  <2>1. ASSUME NEW r \in M
        PROVE  SumFunction(Part(m, r)) \in Int /\ SumFunction(Alone(m, r)) \in Int
    <3>1. IsFiniteSet(span[r]) /\ Part(m, r) \in [span[r] -> Int] /\ Alone(m, r) \in [span[r] -> Int]
      BY <1>2, <1>4
    <3> HIDE DEF Part, Alone
    <3> QED
      BY <3>1, SumIsInt
  <2> HIDE DEF Part, Alone
  <2> QED
    BY <2>1
<1>6. Agrees(0)
  <2>1. ASSUME NEW r \in M
        PROVE  SumFunction(Part(0, r)) = 0
    <3>1. \A k \in span[r] : Part(0, r)[k] = IF k \in {} THEN 0 ELSE 0
      BY <1>2
    <3>2. IsFiniteSet(span[r]) /\ Part(0, r) \in [span[r] -> Int] /\ {} \in SUBSET span[r] /\ 0 \in Int
      BY <1>2, <1>4
    <3> HIDE DEF Part
    <3>3. SumFunction(Part(0, r)) = 0 * Cardinality({})
      BY <3>1, <3>2, SumCounts
    <3> QED
      BY <3>3, FS_EmptySet
  <2>2. \A r \in M : Parts(0)[r] = IF r \in {} THEN 0 ELSE 0
    BY <2>1
  <2>3. Parts(0) \in [M -> Int]
    BY <1>5
  <2> HIDE DEF Parts
  <2>4. SumFunction(Parts(0)) = 0 * Cardinality({})
    BY <2>2, <2>3, SumCounts
  <2>5. Covered(0) = {}
    BY <1>1
  <2>6. SumFunction(Parts(0)) = 0 /\ Cardinality(Covered(0)) = 0
    BY <2>4, <2>5, FS_EmptySet
  <2> HIDE DEF Covered
  <2> QED
    BY <2>6
<1> HIDE DEF Agrees
<1>7. ASSUME NEW m \in Nat, m < n, Agrees(m)
      PROVE  Agrees(m + 1)
  <2> DEFINE e == m + 1
  <2>1. m \in 0..(n - 1) /\ e \in Nat /\ w[m] \in Int
    BY <1>7
  <2>2. ASSUME NEW r \in M
        PROVE  /\ SumFunction(Part(e, r)) = SumFunction(Part(m, r)) + SumFunction(Alone(m, r))
               /\ SumFunction(Alone(m, r)) = IF r \in Over(m) THEN w[m] ELSE 0
    <3>1. \A k \in span[r] : /\ Part(e, r)[k] = Part(m, r)[k] + Alone(m, r)[k]
                             /\ Alone(m, r)[k] = IF k \in {m} \cap span[r] THEN w[m] ELSE 0
      <4> TAKE k \in span[r]
      <4>1. k \in 0..(n - 1) /\ w[k] \in Int
        BY <1>2
      <4>2. (k < e <=> k < m \/ k = m) /\ ~(k < m /\ k = m)
        BY <4>1
      <4> QED
        BY <4>1, <4>2
    <3>2. /\ IsFiniteSet(span[r]) /\ {m} \cap span[r] \in SUBSET span[r]
          /\ Part(e, r) \in [span[r] -> Int] /\ Part(m, r) \in [span[r] -> Int] /\ Alone(m, r) \in [span[r] -> Int]
      BY <1>2, <1>4, <2>1
    <3> HIDE DEF Part, Alone, e
    <3> DEFINE s == span[r]
               a == Part(m, r)
               b == Alone(m, r)
               c == Part(e, r)
               only == {m} \cap s
    <3>7. IsFiniteSet(s) /\ a \in [s -> Int] /\ b \in [s -> Int] /\ c \in [s -> Int] /\ only \in SUBSET s
      BY <3>2
    <3>8. \A x \in s : c[x] = a[x] + b[x]
      BY <3>1
    <3>9. \A x \in s : b[x] = IF x \in only THEN w[m] ELSE 0
      BY <3>1
    <3> HIDE DEF s, a, b, c, only
    <3>3. SumFunction(c) = SumFunction(a) + SumFunction(b)
      BY <3>7, <3>8, SumsAdd
    <3>4. SumFunction(b) = w[m] * Cardinality(only)
      BY <2>1, <3>7, <3>9, SumCounts
    <3> USE DEF s, a, b, c, only
    <3>5. CASE m \in span[r]
      <4>1. {m} \cap span[r] = {m} /\ Cardinality({m}) = 1
        BY <3>5, FS_Singleton
      <4>2. SumFunction(Alone(m, r)) = w[m] * 1
        BY <3>4, <4>1
      <4> QED
        BY <2>1, <3>3, <3>5, <4>2
    <3>6. CASE m \notin span[r]
      <4>1. {m} \cap span[r] = {} /\ Cardinality({}) = 0
        BY <3>6, FS_EmptySet
      <4>2. SumFunction(Alone(m, r)) = w[m] * 0
        BY <3>4, <4>1
      <4> QED
        BY <2>1, <3>3, <3>6, <4>2
    <3> QED
      BY <3>5, <3>6
  <2>3. \A r \in M : /\ Parts(e)[r] = Parts(m)[r] + Alones(m)[r]
                     /\ Alones(m)[r] = IF r \in Over(m) THEN w[m] ELSE 0
    BY <2>2
  <2>4. Parts(e) \in [M -> Int] /\ Parts(m) \in [M -> Int] /\ Alones(m) \in [M -> Int] /\ Over(m) \in SUBSET M
    BY <1>5, <2>1
  <2>5. Covered(e) = Covered(m) \union (IF m \in All THEN {m} ELSE {}) /\ m \notin Covered(m)
    <3>1. \A k \in All : (k < e <=> k < m \/ k = m)
      BY <1>1, <2>1
    <3> QED
      BY <3>1
  <2>6. m \in All <=> Over(m) # {}
    OBVIOUS
  <2>7. Over(m) # {} => w[m] * Cardinality(Over(m)) = u
    BY <2>1 DEF Weighed
  <2>8. IsFiniteSet(Covered(m)) /\ Cardinality(Covered(m)) \in Nat
    BY <1>3
  <2> SUFFICES Agrees(e)
    OBVIOUS
  <2> HIDE DEF Parts, Alones, Over, Covered, e, All
  <2>9. SumFunction(Parts(e)) = SumFunction(Parts(m)) + SumFunction(Alones(m))
    BY <2>3, <2>4, SumsAdd
  <2>10. SumFunction(Alones(m)) = w[m] * Cardinality(Over(m))
    BY <2>1, <2>3, <2>4, SumCounts
  <2>11. SumFunction(Parts(m)) = u * Cardinality(Covered(m))
    BY <1>7 DEF Agrees
  <2>12. CASE Over(m) = {}
    <3>1. Cardinality(Over(m)) = 0
      BY <2>12, FS_EmptySet
    <3>2. SumFunction(Alones(m)) = w[m] * 0
      BY <2>10, <3>1
    <3>3. Covered(e) = Covered(m)
      BY <2>5, <2>6, <2>12
    <3>4. SumFunction(Parts(m)) \in Int
      BY <2>4, SumIsInt
    <3>5. SumFunction(Parts(e)) = SumFunction(Parts(m))
      BY <2>1, <2>9, <3>2, <3>4
    <3>6. SumFunction(Parts(e)) = u * Cardinality(Covered(e))
      BY <2>11, <3>3, <3>5
    <3> QED
      BY <3>6, Zenon DEF Agrees
  <2>13. CASE Over(m) # {}
    <3>1. Covered(e) = Covered(m) \union {m}
      BY <2>5, <2>6, <2>13
    <3> DEFINE c == Cardinality(Covered(m))
    <3>2. Cardinality(Covered(e)) = c + 1
      BY <2>5, <2>8, <3>1, FS_AddElement
    <3>3. c \in Nat
      BY <2>8
    <3> HIDE DEF c
    <3>4. SumFunction(Parts(e)) = u * c + u
      BY <2>7, <2>9, <2>10, <2>11, <2>13 DEF c
    <3>5. u * c + u = u * (c + 1)
      BY <3>3
    <3>6. SumFunction(Parts(e)) = u * Cardinality(Covered(e))
      BY <3>2, <3>4, <3>5
    <3> QED
      BY <3>6, Zenon DEF Agrees
  <2> QED
    BY <2>12, <2>13
<1>8. Agrees(n)
  <2> DEFINE Fails == {m \in 0..n : ~Agrees(m)}
  <2> SUFFICES ASSUME Fails # {} PROVE FALSE
    OBVIOUS
  <2>1. PICK m \in Fails : \A k \in Fails : m <= k
    <3>1. Fails \in SUBSET Nat
      OBVIOUS
    <3> HIDE DEF Fails
    <3> QED
      BY <3>1, LeastNumber
  <2>2. m # 0 /\ m \in 0..n
    BY <1>6, <2>1
  <2>3. m - 1 \in Nat /\ m - 1 < n /\ m - 1 \in 0..n /\ (m - 1) + 1 = m
    BY <2>2
  <2>4. m - 1 \notin Fails
    BY <2>1, <2>3
  <2>5. Agrees((m - 1) + 1)
    BY <1>7, <2>3, <2>4
  <2> QED
    BY <2>1, <2>3, <2>5
<1>9. Covered(n) = All
  BY <1>1
<1>10. \A r \in M : Part(n, r) = [k \in span[r] |-> w[k]]
  BY <1>2
<1>11. Parts(n) = [r \in M |-> SumFunction([k \in span[r] |-> w[k]])]
  <2> HIDE DEF Part
  <2> QED
    BY <1>10
<1> QED
  BY <1>8, <1>9, <1>11 DEF Agrees

-----------------------------------------------------------------------------
(* The weights of overlapping labels                                       *)

\* A name has one row a session.
Determined(data) == \A q, r \in data : q.name = r.name /\ q.session = r.session => q = r

LEMMA DatasetDetermined ==
  ASSUME NEW h, NEW t, Longer(h, t, h, t), NEW w, \A d \in 1..t : w[d] \subseteq Names, NEW l
  PROVE  Determined(BuildDataset(h, w, l))
<1>1. Sessions(h) = 1..t
  BY SessionsAreDays
<1> DEFINE Wide == {d \in Sessions(h) : Cardinality(CrossSection(h, w, d)) >= MinUniverse}
           Own == [s \in Names |-> OwnBars(h, s)]
           Path == [s \in Names |-> ExcessPath(h, l, s)]
           Row(d) == {RowOf(h, Own[s], Path[s], s, d) : s \in CrossSection(h, w, d)}
           Its(s, d) == RowOf(h, Own[s], Path[s], s, d)
<1>2. BuildDataset(h, w, l) = {r \in UNION {Row(d) : d \in Wide} : r.label # -1}
  BY Zenon DEF BuildDataset
<1>3. \A s, d : Its(s, d).name = s /\ Its(s, d).session = d
  BY DEF RowOf
<1> HIDE DEF Its
<1>4. ASSUME NEW r \in BuildDataset(h, w, l)
      PROVE  r = Its(r.name, r.session)
  <2>1. PICK d \in Wide : r \in Row(d)
    BY <1>2
  <2>2. PICK s \in CrossSection(h, w, d) : r = Its(s, d)
    BY <2>1 DEF Its
  <2> QED
    BY <1>3, <2>2
<1> HIDE DEF Wide, Row
<1>5. ASSUME NEW q \in BuildDataset(h, w, l), NEW r \in BuildDataset(h, w, l),
             q.name = r.name, q.session = r.session
      PROVE  q = r
  <2>1. q = Its(q.name, q.session) /\ r = Its(r.name, r.session)
    BY <1>4
  <2> QED
    BY <1>5, <2>1
<1> QED
  BY <1>5 DEF Determined

LEMMA BuiltDetermined ==
  ASSUME BuiltInv
  PROVE  Determined(rows) /\ Determined(studyRows)
<1>1. CASE now = 0
  BY <1>1 DEF BuiltInv, Determined
<1>2. CASE now # 0
  <2> DEFINE h == History(now)
  <2>1. now \in Nat \ {0} /\ now <= now
    BY <1>2 DEF BuiltInv
  <2>2. Longer(h, now, h, now)
    BY <2>1, HistoryIsLonger
  <2>3. \A d \in 1..now : BuildUniverse(h)[d] \subseteq Names /\ Everyone(h)[d] \subseteq Names
    BY <2>2, SameUniverse, SameEveryone
  <2>4. /\ rows = BuildDataset(h, Asked(now), MarketLevels(h, Asked(now)))
        /\ studyRows = IF selective THEN BuildDataset(h, Everyone(h), MarketLevels(h, Everyone(h)))
                       ELSE BuildDataset(h, Asked(now), MarketLevels(h, Asked(now)))
        /\ Asked(now) = IF selective THEN BuildUniverse(h) ELSE Everyone(h)
    BY <1>2 DEF BuiltInv, RowsOf, StudyOf, Asked
  <2> HIDE DEF h
  <2>5. \A d \in 1..now : Asked(now)[d] \subseteq Names
    BY <2>3, <2>4
  <2>6. Determined(BuildDataset(h, Asked(now), MarketLevels(h, Asked(now))))
    BY <2>2, <2>5, DatasetDetermined
  <2>7. Determined(BuildDataset(h, Everyone(h), MarketLevels(h, Everyone(h))))
    BY <2>2, <2>3, DatasetDetermined
  <2> QED
    BY <2>4, <2>6, <2>7
<1> QED
  BY <1>1, <1>2

\* The labels of a name open at a bar of it are at most one more than the horizon:
\* each starts at a bar of its own, the horizon back at most.
LEMMA FewOverlap ==
  ASSUME NEW data, DataReaches(data), Determined(data), NEW s \in Names,
         NEW mine, mine = {r \in data : r.name = s}
  PROVE  /\ IsFiniteSet(mine)
         /\ \A r \in mine : Span(r) \in SUBSET (1..now)
         /\ \A k \in 1..now :
              LET over == {r \in mine : k \in Span(r)}
              IN  over # {} => Cardinality(over) \in 1..(LabelHorizon + 1)
<1> DEFINE T == TradedDays(History(now), now, s)
<1>1. now \in Nat /\ LabelHorizon \in Nat
  BY LabelsAssumption DEF DataReaches
<1>2. \A r \in mine : Reaches(History(now), now, r) /\ r.name = s
  BY DEF DataReaches
<1>3. \A r \in mine : /\ r.session \in T /\ r.first = Cardinality(Below(T, r.session))
                      /\ r.first \in Nat \ {0} /\ r.last \in Nat
                      /\ r.first < r.last /\ r.last <= r.first + LabelHorizon /\ r.last <= now
  <2> TAKE r \in mine
  <2>1. Reaches(History(now), now, r) /\ r.name = s
    BY <1>2
  <2> QED
    BY <2>1 DEF Reaches
<1>4. T \in SUBSET Nat /\ IsFiniteSet(T)
  <2>1. IsFiniteSet(1..now) /\ T \subseteq 1..now
    BY <1>1, FS_Interval DEF TradedDays
  <2>2. 1..now \subseteq Nat
    OBVIOUS
  <2> QED
    BY <2>1, <2>2, FS_Subset
<1> HIDE DEF T
<1>5. ASSUME NEW q \in mine, NEW r \in mine, q.first = r.first
      PROVE  q = r
  <2>1. q.session \in T /\ r.session \in T /\ Cardinality(Below(T, q.session)) = Cardinality(Below(T, r.session))
    BY <1>3, <1>5
  <2>2. q.session = r.session
    <3> DEFINE a == q.session
               b == r.session
    <3> SUFFICES a = b
      OBVIOUS
    <3>1. a \in T /\ b \in T /\ Cardinality(Below(T, a)) = Cardinality(Below(T, b))
      BY <2>1
    <3> HIDE DEF a, b
    <3> QED
      BY <1>4, <3>1, NthIsUnique
  <2>3. q \in data /\ r \in data /\ q.name = r.name
    OBVIOUS
  <2> QED
    BY <2>2, <2>3 DEF Determined
<1> DEFINE start(A) == [r \in A |-> r.first]
<1>6. ASSUME NEW A \in SUBSET mine, NEW B, \A r \in A : r.first \in B
      PROVE  start(A) \in Injection(A, B)
  BY <1>5, <1>6 DEF Injection, IsInjective
<1>7. IsFiniteSet(mine)
  <2>1. \A r \in mine : r.first \in 1..now
    BY <1>1, <1>3
  <2>2. start(mine) \in Injection(mine, 1..now)
    BY <1>6, <2>1
  <2> HIDE DEF start
  <2> QED
    BY <1>1, <2>2, FS_Injection, FS_Interval
<1>8. \A r \in mine : Span(r) \in SUBSET (1..now)
  <2> TAKE r \in mine
  <2>1. r.first \in Nat \ {0} /\ r.last \in Nat /\ r.last <= now
    BY <1>3
  <2> QED
    BY <1>1, <2>1 DEF Span
<1>9. ASSUME NEW k \in 1..now, NEW over, over = {r \in mine : k \in Span(r)}, over # {}
      PROVE  Cardinality(over) \in 1..(LabelHorizon + 1)
  <2> DEFINE B == (k - LabelHorizon)..k
  <2>1. over \in SUBSET mine
    BY <1>9
  <2>2. \A r \in over : r.first \in B
    <3> TAKE r \in over
    <3>1. r \in mine /\ k \in Span(r)
      BY <1>9
    <3>2. r.first \in Nat /\ r.last \in Nat /\ r.last <= r.first + LabelHorizon
      BY <1>3, <3>1
    <3> QED
      BY <1>1, <3>1, <3>2 DEF Span
  <2>3. IsFiniteSet(B) /\ Cardinality(B) = LabelHorizon + 1
    BY <1>1, FS_Interval
  <2> HIDE DEF B
  <2>4. start(over) \in Injection(over, B)
    BY <1>6, <2>1, <2>2
  <2> HIDE DEF start
  <2>5. IsFiniteSet(over) /\ Cardinality(over) <= Cardinality(B)
    BY <2>3, <2>4, FS_Injection
  <2>6. Cardinality(over) \in Nat /\ Cardinality(over) # 0
    BY <1>9, <2>5, FS_CardinalityType, FS_EmptySet
  <2> QED
    BY <1>1, <2>3, <2>5, <2>6
<1> QED
  BY <1>7, <1>8, <1>9

LEMMA WeightsCount ==
  ASSUME NEW data, DataReaches(data), Determined(data), NEW s \in Names,
         NEW mine, mine = {r \in data : r.name = s}
  PROVE  SumFunction([r \in mine |-> Uniqueness(data, r)]) = Unit * Cardinality(UNION {Span(r) : r \in mine})
<1> DEFINE over(k) == {r \in mine : k \in Span(r)}
           span == [r \in mine |-> Span(r)]
           w == [k \in 0..now |-> IF over(k) = {} THEN 0 ELSE Unit \div Cardinality(over(k))]
           share(r) == [k \in span[r] |-> w[k]]
<1>1. /\ now \in Nat /\ LabelHorizon \in Nat /\ Unit \in Nat
      /\ \A c \in 1..(LabelHorizon + 1) : c * (Unit \div c) = Unit
  BY LabelsAssumption DEF DataReaches
<1>2. /\ IsFiniteSet(mine)
      /\ \A r \in mine : Span(r) \in SUBSET (1..now)
      /\ \A k \in 0..now : over(k) # {} => Cardinality(over(k)) \in 1..(LabelHorizon + 1)
  <2>1. /\ IsFiniteSet(mine)
        /\ \A r \in mine : Span(r) \in SUBSET (1..now)
        /\ \A k \in 1..now : over(k) # {} => Cardinality(over(k)) \in 1..(LabelHorizon + 1)
    BY FewOverlap
  <2>2. over(0) = {}
    BY <2>1
  <2>3. \A k \in 0..now : k = 0 \/ k \in 1..now
    BY <1>1
  <2> HIDE DEF over
  <2> QED
    BY <2>1, <2>2, <2>3
<1>3. \A c \in 1..(LabelHorizon + 1) : Unit \div c \in Int /\ (Unit \div c) * c = Unit
  <2> TAKE c \in 1..(LabelHorizon + 1)
  <2>1. c * (Unit \div c) = Unit /\ c \in Nat /\ c > 0
    BY <1>1
  <2>2. Unit \div c \in Int
    BY <1>1, <2>1
  <2> DEFINE e == Unit \div c
  <2> HIDE DEF e
  <2>3. c * e = e * c
    BY <2>1, <2>2 DEF e
  <2> QED
    BY <2>1, <2>2, <2>3 DEF e
<1>4. ASSUME NEW k \in 0..now
      PROVE  w[k] \in Int /\ (over(k) # {} => w[k] * Cardinality(over(k)) = Unit)
  <2>1. CASE over(k) = {}
    BY <2>1
  <2>2. CASE over(k) # {}
    <3> DEFINE c == Cardinality(over(k))
    <3>1. w[k] = Unit \div c
      BY <2>2
    <3>2. c \in 1..(LabelHorizon + 1)
      BY <1>2, <2>2
    <3> HIDE DEF c, w
    <3>3. Unit \div c \in Int /\ (Unit \div c) * c = Unit
      BY <1>3, <3>2
    <3> QED
      BY <3>1, <3>3 DEF c
  <2> QED
    BY <2>1, <2>2
<1>5. \A r \in mine : Uniqueness(data, r) = SumFunction(share(r))
  <2> TAKE r \in mine
  <2>1. r.name = s /\ span[r] = Span(r) /\ Span(r) \subseteq 1..now
    BY <1>2
  <2>2. ASSUME NEW k \in Span(r)
        PROVE  Unit \div Concurrency(data, r, k) = w[k]
    <3>1. {q \in data : q.name = r.name /\ k \in Span(q)} = over(k) /\ r \in over(k)
      BY <2>1
    <3>2. k \in 0..now /\ over(k) # {}
      BY <2>1, <3>1
    <3>3. w[k] = Unit \div Cardinality(over(k))
      BY <3>2
    <3> QED
      BY <3>1, <3>3 DEF Concurrency
  <2>3. [k \in Span(r) |-> Unit \div Concurrency(data, r, k)] = share(r)
    BY <2>1, <2>2
  <2> QED
    BY <2>3, Zenon DEF Uniqueness
<1>6. span \in [mine -> SUBSET (0..now)]
  <2>1. 1..now \subseteq 0..now
    BY <1>1
  <2> QED
    BY <1>2, <2>1
<1> DEFINE bars == now + 1
<1>12. bars \in Nat /\ bars - 1 = now
  BY <1>1
<1> HIDE DEF bars
<1>7. Weighed(mine, span, bars, w, Unit)
  <2>1. \A k \in 0..(bars - 1) : {r \in mine : k \in span[r]} = over(k)
    OBVIOUS
  <2> HIDE DEF w, over, span
  <2> QED
    BY <1>4, <1>12, <2>1 DEF Weighed
<1>8. [r \in mine |-> Uniqueness(data, r)] = [r \in mine |-> SumFunction(share(r))]
  <2> HIDE DEF share
  <2> QED
    BY <1>5
<1>9. {span[r] : r \in mine} = {Span(r) : r \in mine}
  OBVIOUS
<1>10. \A k \in 0..(bars - 1) : w[k] \in Int
  BY <1>4, <1>12
<1> HIDE DEF w, span
<1>11. SumFunction([r \in mine |-> SumFunction([k \in span[r] |-> w[k]])])
         = Unit * Cardinality(UNION {span[r] : r \in mine})
  <2>1. Unit \in Int /\ IsFiniteSet(mine) /\ bars \in Nat /\ span \in [mine -> SUBSET (0..(bars - 1))]
    BY <1>1, <1>2, <1>6, <1>12
  <2> QED
    BY <1>7, <1>10, <2>1, WeightsCoverBars
<1> QED
  BY <1>8, <1>9, <1>11

LEMMA EpisodesCount ==
  ASSUME BuiltInv
  PROVE  EpisodesCountOnce
<1>1. DataReaches(rows) /\ DataReaches(studyRows) /\ Determined(rows) /\ Determined(studyRows)
  BY BuiltReaches, BuiltDetermined
<1> SUFFICES ASSUME NEW data \in {rows, studyRows}, NEW s \in Names
             PROVE  LET mine == {r \in data : r.name = s}
                    IN  SumFunction([r \in mine |-> Uniqueness(data, r)])
                          = Unit * Cardinality(UNION {Span(r) : r \in mine})
  BY DEF EpisodesCountOnce
<1>2. DataReaches(data) /\ Determined(data)
  BY <1>1
<1> QED
  BY <1>2, WeightsCount


-----------------------------------------------------------------------------
(* The curve the gate deflates                                             *)

Before(a, b) == \A x \in Range(a), y \in Range(b) : x < y

LEMMA CutsBefore ==
  ASSUME NEW S \in SUBSET Nat, NEW seq, Rising(seq, S), NEW a \in Int, NEW b \in Int, NEW c \in Int, NEW e \in Int,
         IsCut(S, seq, a, b), IsCut(S, seq, c, e), b < c
  PROVE  Before(SubSeq(seq, a, b), SubSeq(seq, c, e))
<1> SUFFICES ASSUME NEW x \in Range(SubSeq(seq, a, b)), NEW y \in Range(SubSeq(seq, c, e)) PROVE x < y
  BY DEF Before
<1>1. PICK i \in a..b : i \in 1..Len(seq) /\ x = seq[i]
  BY DEF IsCut
<1>2. PICK j \in c..e : j \in 1..Len(seq) /\ y = seq[j]
  BY DEF IsCut
<1>3. i < j
  BY <1>1, <1>2
<1> QED
  BY <1>1, <1>2, <1>3 DEF Rising

\* Windows tested after what they are trained on, each after the one before it.
InTurn(cuts) ==
  /\ \A i \in DOMAIN cuts : Before(cuts[i].train, cuts[i].test)
  /\ \A i, j \in DOMAIN cuts : i < j => Before(cuts[i].test, cuts[j].test)

LEMMA FoldsInTurn ==
  ASSUME NEW S \in SUBSET Nat, NEW dates, Rising(dates, S)
  PROVE  InTurn(PurgedWalkForward(dates))
<1> DEFINE W == PurgedWalkForward(dates)
<1>1. Len(dates) \in Nat
  BY DEF Rising
<1>2. PICK n \in Nat : W = [i \in 1..n |-> W[i]] /\ \A i \in 1..n : FoldAt(dates, i, W[i])
  BY <1>1, FoldsAreAt
<1> HIDE DEF W
<1>3. DOMAIN W = 1..n
  BY <1>2
<1>4. ASSUME NEW i \in 1..n
      PROVE  Before(W[i].train, W[i].test)
  <2>1. PICK a \in Nat \ {0}, c \in Nat \ {0}, b \in Int, e \in Int :
          /\ W[i].train = SubSeq(dates, a, b) /\ W[i].test = SubSeq(dates, c, e)
          /\ b <= Len(dates) /\ e <= Len(dates) /\ c - b > Gap
    BY <1>2 DEF FoldAt
  <2>2. IsCut(S, dates, a, b) /\ IsCut(S, dates, c, e)
    BY <2>1, CutIsCut
  <2>3. b < c
    BY <2>1, GapIsNat
  <2> QED
    BY <2>1, <2>2, <2>3, CutsBefore
<1>5. ASSUME NEW i \in 1..n, NEW j \in 1..n, i < j
      PROVE  Before(W[i].test, W[j].test)
  <2>1. PICK a \in Nat \ {0}, b \in Int :
          /\ W[i].test = SubSeq(dates, a, b) /\ b <= Len(dates)
          /\ b = TrainSize + i * TestSize
    BY <1>2 DEF FoldAt
  <2>2. PICK c \in Nat \ {0}, e \in Int :
          /\ W[j].test = SubSeq(dates, c, e) /\ e <= Len(dates)
          /\ c = TrainSize + (j - 1) * TestSize + 1
    BY <1>2 DEF FoldAt
  <2>3. IsCut(S, dates, a, b) /\ IsCut(S, dates, c, e)
    BY <2>1, <2>2, CutIsCut
  <2>4. b < c
    <3>1. TestSize \in Nat /\ TrainSize \in Nat
      BY TrainingAssumption
    <3>2. i * TestSize <= (j - 1) * TestSize /\ i * TestSize \in Int /\ (j - 1) * TestSize \in Int
      BY <1>5, <3>1
    <3> DEFINE x == i * TestSize
               y == (j - 1) * TestSize
    <3>3. x \in Int /\ y \in Int /\ x <= y /\ b = TrainSize + x /\ c = TrainSize + y + 1
      BY <2>1, <2>2, <3>2
    <3> HIDE DEF x, y
    <3> QED
      BY <3>1, <3>3
  <2> QED
    BY <2>1, <2>2, <2>3, <2>4, CutsBefore
<1> QED
  BY <1>3, <1>4, <1>5 DEF InTurn, W

\* Folds that cannot be trained are left out; the rest stay in turn.
LEMMA ScoredInTurn ==
  ASSUME NEW S, NEW dates, NEW cuts, FoldsCut(S, dates, cuts), InTurn(cuts), NEW data
  PROVE  /\ InTurn(ScoredFolds(data, cuts))
         /\ ScoredFolds(data, cuts) \in Seq(Range(ScoredFolds(data, cuts)))
         /\ \A i \in DOMAIN ScoredFolds(data, cuts) : Range(ScoredFolds(data, cuts)[i].test) \subseteq Range(dates)
<1> DEFINE D == {i \in DOMAIN cuts : Trainable(data, cuts[i].train)}
           done == Ordered(D)
           F == ScoredFolds(data, cuts)
           m == Cardinality(D)
<1>1. D \in SUBSET Nat /\ IsFiniteSet(D) /\ D \subseteq DOMAIN cuts
  <2>1. Len(cuts) \in Nat /\ DOMAIN cuts = 1..Len(cuts)
    BY LenProperties DEF FoldsCut
  <2>3. IsFiniteSet(1..Len(cuts)) /\ D \subseteq 1..Len(cuts)
    BY <2>1, FS_Interval
  <2>2. 1..Len(cuts) \subseteq Nat
    OBVIOUS
  <2> QED
    BY <2>2, <2>3, FS_Subset
<1>2. F = [i \in DOMAIN done |-> ScoreWindow(cuts[done[i]].train, cuts[done[i]].test)]
  BY Zenon DEF ScoredFolds
<1> HIDE DEF D
<1>3. Rising(done, D) /\ DOMAIN done = 1..m /\ m \in Nat /\ Len(done) = m
  BY <1>1, OrderedRises
<1> HIDE DEF F, m, done
<1>4. DOMAIN F = 1..m /\ \A i \in 1..m : /\ done[i] \in DOMAIN cuts /\ done[i] \in Nat
                                         /\ F[i].train = cuts[done[i]].train /\ F[i].test = cuts[done[i]].test
  BY <1>1, <1>2, <1>3 DEF ScoreWindow, Rising
<1>5. \A i, j \in 1..m : i < j => done[i] < done[j]
  BY <1>3 DEF Rising
<1>6. InTurn(F)
  BY <1>4, <1>5 DEF InTurn
<1>7. F \in Seq(Range(F))
  <2>1. F = [i \in 1..m |-> F[i]]
    BY <1>2, <1>3
  <2> QED
    BY <1>3, <2>1, ListOfItsOwn
<1>8. \A i \in 1..m : Range(F[i].test) \subseteq Range(dates)
  BY <1>4 DEF FoldsCut, Cut
<1> QED
  BY <1>4, <1>6, <1>7, <1>8 DEF F

\* The holdout follows what lies before it, and its model is trained on nothing else.
LEMMA HoldoutFollows ==
  ASSUME NEW S \in SUBSET Nat, NEW dates, Rising(dates, S), HoldsOut(S, dates)
  PROVE  /\ Before(HoldoutSplit(dates).work, HoldoutSplit(dates).holdout)
         /\ Before(HoldoutSplit(dates).train, HoldoutSplit(dates).holdout)
<1> DEFINE h == HoldoutSplit(dates)
           k == Max({0, Len(h.work) - Gap})
<1>1. /\ Rising(h.work, S) /\ Len(h.work) \in Nat /\ Len(dates) \in Nat
      /\ \A x \in Range(h.work) : \E i \in 1..Len(dates) : i <= Len(dates) - HoldoutSize /\ x = dates[i]
      /\ \A x \in Range(h.holdout) : \E i \in 1..Len(dates) : i > Len(dates) - HoldoutSize /\ x = dates[i]
  BY DEF HoldsOut, Rising
<1>2. h.train = SubSeq(h.work, 1, k)
  BY DEF HoldoutSplit, FirstOf
<1> HIDE DEF h
<1>3. k = IF 0 >= Len(h.work) - Gap THEN 0 ELSE Len(h.work) - Gap
  BY <1>1, GapIsNat, MaxOfTwo
<1>4. k \in Int /\ k <= Len(h.work)
  BY <1>1, <1>3, GapIsNat
<1> HIDE DEF k
<1>5. IsCut(S, h.work, 1, k)
  BY <1>1, <1>4, CutIsCut
<1>6. Range(h.train) \subseteq Range(h.work)
  <2>1. \A i \in 1..Len(h.work) : h.work[i] \in Range(h.work)
    BY <1>1, RangeOfRising DEF Range
  <2> QED
    BY <1>2, <1>5, <2>1 DEF IsCut
<1>7. Before(h.work, h.holdout)
  <2> SUFFICES ASSUME NEW x \in Range(h.work), NEW y \in Range(h.holdout) PROVE x < y
    BY DEF Before
  <2>1. PICK i \in 1..Len(dates) : i <= Len(dates) - HoldoutSize /\ x = dates[i]
    BY <1>1
  <2>2. PICK j \in 1..Len(dates) : j > Len(dates) - HoldoutSize /\ y = dates[j]
    BY <1>1
  <2>3. i < j
    BY <1>1, <2>1, <2>2, TrainingAssumption
  <2> QED
    BY <2>1, <2>2, <2>3 DEF Rising
<1>8. Before(h.train, h.holdout)
  BY <1>6, <1>7 DEF Before
<1> QED
  BY <1>7, <1>8 DEF h

LEMMA TrainingCountsOnce ==
  ASSUME BuiltInv, RunTraining
  PROVE  OutOfSampleOnce'
<1> DEFINE S == DaysOf(rows)
           dates == DatesOf(rows)
           h == HoldoutSplit(dates)
           F == ScoredFolds(rows, PurgedWalkForward(h.work))
           H == ScoreWindow(h.train, h.holdout)
           ok == /\ ContractHolds /\ LongEnough(dates)
                 /\ Trainable(rows, h.train) /\ Trainable(rows, dates)
           curve == F \o <<H>>
<1>1. last' = IF ok THEN [kind |-> "training", folds |-> F, holdout |-> H] ELSE Refused
  BY DEF RunTraining, dataVars
<1>2. DataReaches(rows)
  BY BuiltReaches
<1>3. ok => LongEnough(dates)
  OBVIOUS
<1> HIDE DEF ok
<1>4. CASE ~ok
  BY <1>1, <1>4 DEF Refused, OutOfSampleOnce
<1>5. CASE ok
  <2>1. S \in SUBSET Nat /\ IsFiniteSet(S) /\ Rising(dates, S) /\ Len(dates) \in Nat
    BY <1>2, DatesRise
  <2>2. Len(dates) >= HoldoutSize
    BY <1>3, <1>5, <2>1, HoldoutFits
  <2> HIDE DEF S, dates
  <2>3. HoldsOut(S, dates)
    BY <2>1, <2>2, HoldoutIsCut
  <2>4. Before(h.work, h.holdout) /\ Before(h.train, h.holdout) /\ Rising(h.work, S)
    BY <2>1, <2>3, HoldoutFollows DEF HoldsOut
  <2>5. H.train = h.train /\ H.test = h.holdout
    BY DEF ScoreWindow
  <2> HIDE DEF h
  <2>6. FoldsCut(S, h.work, PurgedWalkForward(h.work)) /\ InTurn(PurgedWalkForward(h.work))
    BY <2>1, <2>4, FoldsAreCut, FoldsInTurn
  <2>7. InTurn(F) /\ F \in Seq(Range(F)) /\ \A i \in DOMAIN F : Range(F[i].test) \subseteq Range(h.work)
    BY <2>6, ScoredInTurn
  <2> HIDE DEF F, H
  <2> DEFINE n == Len(F)
  <2>8. n \in Nat /\ DOMAIN F = 1..n
    BY <2>7, LenProperties
  <2>9. DOMAIN curve = 1..(n + 1) /\ curve[n + 1] = H /\ \A i \in 1..n : curve[i] = F[i]
    <3>1. F \in Seq(Range(F) \union {H}) /\ <<H>> \in Seq(Range(F) \union {H}) /\ Len(<<H>>) = 1 /\ <<H>>[1] = H
      BY <2>7
    <3> QED
      BY <2>8, <3>1
  <2> HIDE DEF n, curve
  <2>10. \A i \in DOMAIN curve : i \in 1..n \/ i = n + 1
    BY <2>8, <2>9
  <2>11. ASSUME NEW i \in DOMAIN curve
         PROVE  Before(curve[i].train, curve[i].test)
    BY <2>4, <2>5, <2>7, <2>8, <2>9, <2>10 DEF InTurn
  <2>12. ASSUME NEW i \in DOMAIN curve, NEW j \in DOMAIN curve, i < j
         PROVE  Before(curve[i].test, curve[j].test)
    <3>1. i \in 1..n
      BY <2>8, <2>9, <2>12
    <3>2. CASE j \in 1..n
      BY <2>7, <2>8, <2>9, <2>12, <3>1, <3>2 DEF InTurn
    <3>3. CASE j = n + 1
      <4>1. Range(curve[i].test) \subseteq Range(h.work) /\ curve[j].test = h.holdout
        BY <2>5, <2>7, <2>8, <2>9, <3>1, <3>3
      <4> QED
        BY <2>4, <4>1 DEF Before
    <3> QED
      BY <2>10, <3>2, <3>3
  <2>13. last'.kind = "training" /\ last'.folds \o <<last'.holdout>> = curve
    BY <1>1, <1>5 DEF curve
  <2> QED
    BY <2>11, <2>12, <2>13 DEF OutOfSampleOnce, Before
<1> QED
  BY <1>4, <1>5

-----------------------------------------------------------------------------
(* The paths of the cross-validation                                       *)

LEMMA GroupingsAreFinite ==
  ASSUME NEW n \in Nat, NEW k
  PROVE  /\ IsFiniteSet(Groupings(n, k)) /\ Choose(n, k) \in Nat
         /\ \A c \in Groupings(n, k) : /\ c \subseteq 0..(n - 1) /\ IsFiniteSet(c) /\ Cardinality(c) = k
<1>1. IsFiniteSet(0..(n - 1))
  BY FS_Interval
<1>2. IsFiniteSet(SUBSET (0..(n - 1)))
  BY <1>1, FS_SUBSET
<1>3. Groupings(n, k) \in SUBSET (SUBSET (0..(n - 1)))
  BY DEF Groupings
<1>4. IsFiniteSet(Groupings(n, k))
  BY <1>2, <1>3, FS_Subset
<1>5. \A c \in Groupings(n, k) : c \subseteq 0..(n - 1) /\ Cardinality(c) = k
  BY DEF Groupings
<1>6. \A c \in Groupings(n, k) : IsFiniteSet(c)
  BY <1>1, <1>5, FS_Subset
<1> QED
  BY <1>4, <1>5, <1>6, FS_CardinalityType DEF Choose

\* The groupings that test a group.
WithGroup(n, k, g) == {c \in Groupings(n, k) : g \in c}

\* No group is tested by more of them than another: h takes the place of g.
LEMMA AsManyWith ==
  ASSUME NEW n \in Nat, NEW k, NEW g \in 0..(n - 1), NEW h \in 0..(n - 1)
  PROVE  /\ IsFiniteSet(WithGroup(n, k, g)) /\ Cardinality(WithGroup(n, k, g)) \in Nat
         /\ Cardinality(WithGroup(n, k, g)) <= Cardinality(WithGroup(n, k, h))
<1> DEFINE G == Groupings(n, k)
           A == WithGroup(n, k, g)
           B == WithGroup(n, k, h)
           swapped(c) == (c \ {g}) \union {h}
           f == [c \in A |-> IF h \in c THEN c ELSE swapped(c)]
<1>1. /\ IsFiniteSet(G)
      /\ \A c \in G : c \subseteq 0..(n - 1) /\ IsFiniteSet(c) /\ Cardinality(c) = k
  BY GroupingsAreFinite
<1>2. A \subseteq G /\ B \subseteq G /\ (\A c \in A : g \in c) /\ \A c \in G : h \in c => c \in B
  BY DEF WithGroup
<1>3. IsFiniteSet(A) /\ IsFiniteSet(B) /\ Cardinality(A) \in Nat
  BY <1>1, <1>2, FS_Subset, FS_CardinalityType
<1> HIDE DEF G, A, B
<1>4. ASSUME NEW c \in A, h \notin c
      PROVE  swapped(c) \in G
  <2>1. c \subseteq 0..(n - 1) /\ IsFiniteSet(c) /\ Cardinality(c) = k /\ g \in c
    BY <1>1, <1>2
  <2>2. Cardinality(c) \in Nat
    BY <2>1, FS_CardinalityType
  <2>3. IsFiniteSet(c \ {g}) /\ Cardinality(c \ {g}) = Cardinality(c) - 1
    BY <2>1, FS_RemoveElement
  <2>4. h \notin c \ {g}
    BY <1>4
  <2>5. Cardinality(swapped(c)) = Cardinality(c \ {g}) + 1
    BY <2>3, <2>4, FS_AddElement
  <2>6. swapped(c) \in SUBSET (0..(n - 1))
    BY <2>1
  <2> HIDE DEF swapped
  <2>7. Cardinality(swapped(c)) = k
    BY <2>1, <2>2, <2>3, <2>5
  <2> QED
    BY <2>6, <2>7 DEF Groupings, G
<1>5. f \in [A -> B]
  <2>1. ASSUME NEW c \in A
        PROVE  f[c] \in B
    BY <1>2, <1>4
  <2> HIDE DEF f
  <2>2. f = [c \in A |-> f[c]]
    BY DEF f
  <2> QED
    BY <2>1, <2>2
<1>6. ASSUME NEW c \in A, NEW d \in A, f[c] = f[d]
      PROVE  c = d
  <2>1. g \in c /\ g \in d
    BY <1>2
  <2>2. CASE h \in c /\ h \in d
    BY <1>6, <2>2
  <2>3. CASE h \in c /\ h \notin d
    <3>1. c = swapped(d) /\ g # h
      BY <1>6, <2>1, <2>3
    <3> QED
      BY <2>1, <3>1
  <2>4. CASE h \notin c /\ h \in d
    <3>1. d = swapped(c) /\ g # h
      BY <1>6, <2>1, <2>4
    <3> QED
      BY <2>1, <3>1
  <2>5. CASE h \notin c /\ h \notin d
    <3>1. swapped(c) = swapped(d)
      BY <1>6, <2>5
    <3> QED
      BY <2>1, <2>5, <3>1
  <2> QED
    BY <2>2, <2>3, <2>4, <2>5
<1>7. f \in Injection(A, B)
  <2> HIDE DEF f
  <2> QED
    BY <1>5, <1>6 DEF Injection, IsInjective
<1> HIDE DEF f
<1>8. Cardinality(A) <= Cardinality(B)
  BY <1>3, <1>7, FS_Injection
<1> QED
  BY <1>3, <1>8 DEF A, B

LEMMA OnesCount ==
  ASSUME NEW c, IsFiniteSet(c), NEW each \in [c -> Int], \A b \in c : each[b] = 1
  PROVE  SumFunction(each) = Cardinality(c)
<1>1. \A b \in c : each[b] = IF b \in c THEN 1 ELSE 0
  OBVIOUS
<1>2. c \in SUBSET c /\ 1 \in Int /\ Cardinality(c) \in Nat
  BY FS_CardinalityType
<1>3. SumFunction(each) = 1 * Cardinality(c)
  BY <1>1, <1>2, SumCounts
<1> QED
  BY <1>2, <1>3

\* Every group is tested by as many groupings as there are paths.
LEMMA PathsPerGroup ==
  ASSUME NEW n \in Nat \ {0}, NEW k \in Nat \ {0}, k <= n
  PROVE  /\ BacktestPaths(n, k) \in Nat
         /\ \A g \in 0..(n - 1) : Cardinality(WithGroup(n, k, g)) = BacktestPaths(n, k)
<1> DEFINE G == Groupings(n, k)
           u == Cardinality(WithGroup(n, k, 0))
           span == [c \in G |-> c]
           one == [b \in 0..(n - 1) |-> 1]
<1>1. /\ IsFiniteSet(G) /\ Cardinality(G) = Choose(n, k) /\ Choose(n, k) \in Nat
      /\ \A c \in G : c \subseteq 0..(n - 1) /\ IsFiniteSet(c) /\ Cardinality(c) = k
  BY GroupingsAreFinite DEF Choose
<1>2. 0 \in 0..(n - 1)
  OBVIOUS
<1>3. u \in Nat
  BY <1>2, AsManyWith
<1>4. ASSUME NEW g \in 0..(n - 1)
      PROVE  Cardinality(WithGroup(n, k, g)) = u
  <2>1. Cardinality(WithGroup(n, k, g)) <= u /\ Cardinality(WithGroup(n, k, g)) \in Nat
    BY <1>2, AsManyWith
  <2>2. u <= Cardinality(WithGroup(n, k, g))
    BY <1>2, AsManyWith
  <2> HIDE DEF u
  <2> QED
    BY <1>3, <2>1, <2>2
<1> HIDE DEF u
<1>5. Weighed(G, span, n, one, u)
  <2>1. ASSUME NEW b \in 0..(n - 1)
        PROVE  one[b] * Cardinality({c \in G : b \in span[c]}) = u
    <3>1. {c \in G : b \in span[c]} = WithGroup(n, k, b) /\ one[b] = 1
      BY DEF WithGroup
    <3>2. Cardinality({c \in G : b \in span[c]}) = u
      BY <3>1, <1>4
    <3> QED
      BY <3>1, <3>2, <1>3
  <2> QED
    BY <2>1 DEF Weighed
<1>6. \A c \in G : SumFunction([b \in span[c] |-> one[b]]) = k
  <2> TAKE c \in G
  <2> DEFINE each == [b \in span[c] |-> one[b]]
  <2>1. span[c] = c /\ IsFiniteSet(c) /\ Cardinality(c) = k /\ c \subseteq 0..(n - 1)
    BY <1>1
  <2>2. each \in [c -> Int] /\ \A b \in c : each[b] = 1
    BY <2>1
  <2> HIDE DEF each, span, one
  <2>3. SumFunction(each) = Cardinality(c)
    BY <2>1, <2>2, OnesCount
  <2> QED
    BY <2>1, <2>3 DEF each
<1> DEFINE sizes == [c \in G |-> SumFunction([b \in span[c] |-> one[b]])]
<1>7. sizes \in [G -> Int] /\ \A c \in G : sizes[c] = IF c \in G THEN k ELSE 0
  BY <1>6
<1>8. SumFunction(sizes) = u * Cardinality(UNION {span[c] : c \in G})
  <2>1. /\ span \in [G -> SUBSET (0..(n - 1))] /\ u \in Int
        /\ \A b \in 0..(n - 1) : one[b] \in Int
    BY <1>1, <1>3
  <2> HIDE DEF span, one
  <2> QED
    BY <1>1, <1>5, <2>1, WeightsCoverBars
<1> HIDE DEF sizes
<1>9. SumFunction(sizes) = k * Choose(n, k)
  BY <1>1, <1>7, SumCounts
<1>10. UNION {span[c] : c \in G} = 0..(n - 1)
  <2>1. UNION {span[c] : c \in G} \subseteq 0..(n - 1)
    BY <1>1
  <2>2. ASSUME NEW b \in 0..(n - 1)
        PROVE  \E c \in G : b \in c
    <3>1. 0..(k - 1) \in G
      <4>1. 0..(k - 1) \in SUBSET (0..(n - 1)) /\ Cardinality(0..(k - 1)) = k
        BY FS_Interval
      <4> QED
        BY <4>1 DEF Groupings
    <3>2. 0..(k - 1) \in WithGroup(n, k, 0)
      BY <3>1 DEF WithGroup
    <3>3. u # 0
      BY <1>2, <3>2, AsManyWith, FS_EmptySet DEF u
    <3>4. WithGroup(n, k, b) # {}
      BY <1>4, <3>3, FS_EmptySet
    <3> QED
      BY <3>4 DEF WithGroup
  <2> QED
    BY <2>1, <2>2
<1>11. Cardinality(0..(n - 1)) = n
  BY FS_Interval
<1>12. k * Choose(n, k) = u * n
  BY <1>8, <1>9, <1>10, <1>11
<1>13. BacktestPaths(n, k) = u
  <2>1. Choose(n, k) * k = u * n
    BY <1>1, <1>12
  <2>2. (u * n) \div n = u
    BY <1>3
  <2> QED
    BY <2>1, <2>2 DEF BacktestPaths
<1> QED
  BY <1>3, <1>4, <1>13

\* A split tests all sessions of its groups and is fitted on none of them; no two
\* splits test the same groups.
GroupDates(dates, n, g) == {dates[p] : p \in Block(Len(dates), n, g)}
SplitsTest(dates, n, k, splits) ==
  /\ Len(splits) \in Nat /\ DOMAIN splits = 1..Len(splits)
  /\ \A i \in DOMAIN splits :
       /\ splits[i].groups \in Groupings(n, k)
       /\ \A g \in splits[i].groups : /\ GroupDates(dates, n, g) \subseteq Range(splits[i].test)
                                      /\ GroupDates(dates, n, g) \cap Range(splits[i].train) = {}
  /\ \A i, j \in DOMAIN splits : splits[i].groups = splits[j].groups => i = j

LEMMA SplitsTestGroups ==
  ASSUME NEW S \in SUBSET Nat, IsFiniteSet(S), NEW dates, Rising(dates, S),
         NEW n \in Nat \ {0}, NEW k
  PROVE  SplitsTest(dates, n, k, CpcvSplits(dates, n, k))
<1> DEFINE len == Len(dates)
           combos == Combos(n, k)
           tested(c) == UNION {Block(len, n, g) : g \in c}
           near(c) == {i \in 1..len : \E j \in tested(c) : i - j \in (-Gap)..Gap}
           fitted(c) == (1..len) \ near(c)
           datesAt(positions) == Ordered({dates[i] : i \in positions})
           K == {i \in DOMAIN combos : tested(combos[i]) # {} /\ fitted(combos[i]) # {}}
           kept == Ordered(K)
           splits == CpcvSplits(dates, n, k)
<1>1. splits = [i \in DOMAIN kept |-> [groups |-> combos[kept[i]], test |-> datesAt(tested(combos[kept[i]])),
                                       train |-> datesAt(fitted(combos[kept[i]]))]]
  BY Zenon DEF CpcvSplits
<1>2. /\ len \in Nat /\ \A i \in 1..len : dates[i] \in S
      /\ \A i, j \in 1..len : i < j => dates[i] < dates[j]
  BY DEF Rising
<1>3. /\ \A i \in DOMAIN combos : combos[i] \subseteq 0..(n - 1) /\ combos[i] \in Groupings(n, k)
      /\ \A i, j \in DOMAIN combos : combos[i] = combos[j] => i = j
      /\ IsFiniteSet(DOMAIN combos) /\ DOMAIN combos \subseteq Nat
  BY CombosAreGroups
<1>4. K \subseteq DOMAIN combos
  OBVIOUS
<1> HIDE DEF K
<1>5. Rising(kept, K) /\ Len(kept) \in Nat /\ DOMAIN kept = 1..Len(kept)
  <2>1. K \in SUBSET Nat /\ IsFiniteSet(K)
    BY <1>3, <1>4, FS_Subset
  <2>2. Rising(kept, K)
    BY <2>1, OrderedRises
  <2> QED
    BY <2>2, RangeOfRising DEF Rising
<1>6. \A i \in DOMAIN kept : kept[i] \in K /\ kept[i] \in DOMAIN combos
  BY <1>4, <1>5, RangeOfRising DEF Range
<1>7. ASSUME NEW c \in SUBSET (0..(n - 1)), NEW g \in c
      PROVE  /\ GroupDates(dates, n, g) \subseteq Range(datesAt(tested(c)))
             /\ GroupDates(dates, n, g) \cap Range(datesAt(fitted(c))) = {}
  <2>1. \A e \in c : Block(len, n, e) \subseteq 1..len
    BY <1>2, BlocksArePositions
  <2>2. tested(c) \subseteq 1..len /\ Block(len, n, g) \subseteq tested(c)
    BY <2>1
  <2>3. fitted(c) \subseteq 1..len /\ fitted(c) \cap tested(c) = {}
    <3> SUFFICES ASSUME NEW i \in tested(c) PROVE i \in near(c)
      OBVIOUS
    <3>1. i \in 1..len /\ i - i \in (-Gap)..Gap
      BY <2>2, GapIsNat
    <3> QED
      BY <3>1
  <2> DEFINE B == Block(len, n, g)
             T == tested(c)
             F == fitted(c)
  <2>4. B \subseteq T /\ T \subseteq 1..len /\ F \subseteq 1..len /\ F \cap T = {}
    BY <2>2, <2>3
  <2> HIDE DEF B, T, F
  <2>5. ASSUME NEW P \in SUBSET (1..len)
        PROVE  Range(Ordered({dates[i] : i \in P})) = {dates[i] : i \in P}
    <3>1. {dates[i] : i \in P} \subseteq S
      BY <1>2
    <3>2. {dates[i] : i \in P} \in SUBSET Nat /\ IsFiniteSet({dates[i] : i \in P})
      BY <3>1, FS_Subset
    <3> QED
      BY <3>2, OrderedRises
  <2>6. /\ Range(Ordered({dates[i] : i \in T})) = {dates[i] : i \in T}
        /\ Range(Ordered({dates[i] : i \in F})) = {dates[i] : i \in F}
    BY <2>4, <2>5
  <2>7. {dates[i] : i \in B} \subseteq {dates[i] : i \in T}
    BY <2>4
  <2>8. {dates[i] : i \in B} \cap {dates[i] : i \in F} = {}
    <3> SUFFICES ASSUME NEW i \in B, NEW j \in F, dates[i] = dates[j] PROVE FALSE
      OBVIOUS
    <3>1. i \in 1..len /\ j \in 1..len /\ i # j
      BY <2>4
    <3>2. dates[i] \in S /\ dates[j] \in S
      BY <1>2, <3>1
    <3>3. dates[i] \in Nat /\ dates[j] \in Nat
      BY <3>2
    <3>4. i < j \/ j < i
      BY <1>2, <3>1
    <3>5. (i < j => dates[i] < dates[j]) /\ (j < i => dates[j] < dates[i])
      BY <1>2, <3>1
    <3>6. dates[i] = dates[j]
      OBVIOUS
    <3> QED
      BY <3>3, <3>4, <3>5, <3>6
  <2> QED
    BY <2>6, <2>7, <2>8 DEF GroupDates, B, T, F
<1> HIDE DEF kept, combos, tested, near, fitted, datesAt
<1>8. DOMAIN splits = DOMAIN kept /\ Len(splits) = Len(kept)
  <2>1. DOMAIN splits = DOMAIN kept /\ splits = [i \in 1..Len(kept) |-> splits[i]]
    BY <1>1, <1>5
  <2> HIDE DEF splits
  <2> QED
    BY <1>5, <2>1
<1>9. ASSUME NEW i \in DOMAIN kept
      PROVE  /\ splits[i].test = datesAt(tested(combos[kept[i]]))
             /\ splits[i].train = datesAt(fitted(combos[kept[i]]))
             /\ splits[i].groups = combos[kept[i]]
             /\ combos[kept[i]] \in SUBSET (0..(n - 1)) /\ combos[kept[i]] \in Groupings(n, k)
  BY <1>1, <1>3, <1>6
<1> HIDE DEF splits
<1>10. ASSUME NEW i \in DOMAIN splits
       PROVE  /\ splits[i].groups \in Groupings(n, k)
              /\ \A g \in splits[i].groups : /\ GroupDates(dates, n, g) \subseteq Range(splits[i].test)
                                             /\ GroupDates(dates, n, g) \cap Range(splits[i].train) = {}
  BY <1>7, <1>8, <1>9
<1>11. ASSUME NEW i \in DOMAIN splits, NEW j \in DOMAIN splits, splits[i].groups = splits[j].groups
       PROVE  i = j
  <2>1. i \in 1..Len(kept) /\ j \in 1..Len(kept)
    BY <1>5, <1>8
  <2>2. kept[i] = kept[j]
    BY <1>3, <1>6, <1>8, <1>9, <1>11
  <2>3. kept[i] \in Nat /\ kept[j] \in Nat
    BY <1>3, <1>6, <1>8
  <2> QED
    BY <1>5, <2>1, <2>2, <2>3 DEF Rising
<1> QED
  BY <1>5, <1>8, <1>10, <1>11 DEF SplitsTest, splits

\* The splits that test a group, in order.
TestsOf(splits, g) == {i \in DOMAIN splits : g \in splits[i].groups}
LEMMA TestingIsOrdered ==
  ASSUME NEW dates, NEW n, NEW k, NEW splits, SplitsTest(dates, n, k, splits), NEW g
  PROVE  /\ Cardinality(TestsOf(splits, g)) \in Nat
         /\ Len(Testing(splits, g)) = Cardinality(TestsOf(splits, g))
         /\ \A i \in TestsOf(splits, g) : \E j \in 1..Cardinality(TestsOf(splits, g)) : Testing(splits, g)[j] = i
         /\ \A j \in 1..Cardinality(TestsOf(splits, g)) : Testing(splits, g)[j] \in TestsOf(splits, g)
         /\ \A i, j \in 1..Cardinality(TestsOf(splits, g)) : Testing(splits, g)[i] = Testing(splits, g)[j] => i = j
<1> DEFINE tests == TestsOf(splits, g)
<1>1. tests \in SUBSET Nat /\ IsFiniteSet(tests)
  <2>1. DOMAIN splits = 1..Len(splits) /\ Len(splits) \in Nat
    BY DEF SplitsTest
  <2>2. IsFiniteSet(1..Len(splits)) /\ tests \subseteq 1..Len(splits) /\ 1..Len(splits) \subseteq Nat
    BY <2>1, FS_Interval DEF TestsOf
  <2> QED
    BY <2>2, FS_Subset
<1>2. Testing(splits, g) = Ordered(tests)
  BY DEF Testing, TestsOf
<1> HIDE DEF tests
<1>3. /\ Rising(Ordered(tests), tests) /\ Len(Ordered(tests)) = Cardinality(tests)
      /\ \A i \in tests : \E j \in 1..Cardinality(tests) : Ordered(tests)[j] = i
      /\ Cardinality(tests) \in Nat
  <2>1. /\ Rising(Ordered(tests), tests) /\ Len(Ordered(tests)) = Cardinality(tests)
        /\ Range(Ordered(tests)) = tests /\ Cardinality(tests) \in Nat
    BY <1>1, OrderedRises
  <2>2. DOMAIN Ordered(tests) = 1..Cardinality(tests)
    BY <2>1, RangeOfRising
  <2> QED
    BY <2>1, <2>2 DEF Range
<1>4. \A i, j \in 1..Cardinality(tests) : Ordered(tests)[i] = Ordered(tests)[j] => i = j
  <2> SUFFICES ASSUME NEW i \in 1..Cardinality(tests), NEW j \in 1..Cardinality(tests), i # j
               PROVE  Ordered(tests)[i] # Ordered(tests)[j]
    OBVIOUS
  <2>1. i < j \/ j < i
    BY <1>3
  <2>2. Ordered(tests)[i] \in Nat /\ Ordered(tests)[j] \in Nat
    BY <1>1, <1>3 DEF Rising
  <2> QED
    BY <1>3, <2>1, <2>2 DEF Rising
<1>5. \A j \in 1..Cardinality(tests) : Ordered(tests)[j] \in tests
  BY <1>3 DEF Rising
<1> QED
  BY <1>1, <1>2, <1>3, <1>4, <1>5 DEF tests

\* With every split there, every group has a split for each path.
LEMMA EveryPathIsComplete ==
  ASSUME NEW dates, NEW n \in Nat \ {0}, NEW k \in Nat \ {0}, k <= n,
         NEW splits, SplitsTest(dates, n, k, splits), Len(splits) = Choose(n, k),
         NEW g \in 0..(n - 1)
  PROVE  Cardinality(TestsOf(splits, g)) = BacktestPaths(n, k)
<1> DEFINE G == Groupings(n, k)
           D == DOMAIN splits
           N == {i \in D : g \in splits[i].groups}
           O == WithGroup(n, k, g)
           f == [i \in D |-> splits[i].groups]
           h == [i \in N |-> splits[i].groups]
<1>1. /\ Len(splits) \in Nat /\ D = 1..Len(splits)
      /\ \A i \in D : splits[i].groups \in G
      /\ \A i, j \in D : splits[i].groups = splits[j].groups => i = j
  BY DEF SplitsTest
<1>2. IsFiniteSet(G) /\ Cardinality(G) = Len(splits)
  BY GroupingsAreFinite DEF Choose
<1>3. IsFiniteSet(D) /\ Cardinality(D) = Len(splits)
  BY <1>1, FS_Interval
<1>4. f \in Injection(D, G)
  BY <1>1 DEF Injection, IsInjective
<1>5. \A c \in G : \E i \in D : splits[i].groups = c
  <2> HIDE DEF G, D
  <2>1. f \in Surjection(D, G)
    <3> HIDE DEF f
    <3> QED
      BY <1>2, <1>3, <1>4, FS_Injection
  <2> QED
    BY <2>1 DEF Surjection
<1>6. O = {c \in G : g \in c}
  BY DEF WithGroup
<1> HIDE DEF G, D, O
<1>7. h \in Bijection(N, O)
  <2>1. \A i \in N : h[i] \in O
    BY <1>1, <1>6
  <2>2. h \in [N -> O]
    BY <2>1
  <2>3. \A i, j \in N : h[i] = h[j] => i = j
    BY <1>1
  <2>4. \A c \in O : \E i \in N : h[i] = c
    <3> TAKE c \in O
    <3>1. PICK i \in D : splits[i].groups = c
      BY <1>5, <1>6
    <3>2. i \in N
      BY <1>6, <3>1
    <3> QED
      BY <3>1, <3>2
  <2>5. DOMAIN h = N
    OBVIOUS
  <2> HIDE DEF h, N
  <2> QED
    BY <2>2, <2>3, <2>4, <2>5 DEF Bijection, Injection, Surjection, IsInjective
<1>8. IsFiniteSet(N)
  BY <1>3, FS_Subset
<1>9. Cardinality(O) = Cardinality(N)
  <2>1. ExistsBijection(N, O)
    BY <1>7 DEF ExistsBijection
  <2> HIDE DEF N, h
  <2> QED
    BY <1>8, <2>1, FS_Bijection
<1> QED
  BY <1>9, PathsPerGroup DEF O, N, D, TestsOf


\* A path takes every group from a split that tests it, no two take one from the
\* same, and with every split there each is taken.
WholePaths(n, k, splits, paths) ==
  /\ \A j \in DOMAIN paths, g \in 0..(n - 1) :
       paths[j][g] \in DOMAIN splits /\ g \in splits[paths[j][g]].groups
  /\ \A i, j \in DOMAIN paths, g \in 0..(n - 1) : paths[i][g] = paths[j][g] => i = j
  /\ Len(splits) = Choose(n, k) =>
       \A i \in DOMAIN splits : \A g \in splits[i].groups :
         g \in 0..(n - 1) /\ \E j \in DOMAIN paths : paths[j][g] = i

LEMMA PathsAreWhole ==
  ASSUME NEW dates, NEW n \in Nat \ {0}, NEW k \in Nat \ {0}, k <= n,
         NEW splits, SplitsTest(dates, n, k, splits)
  PROVE  WholePaths(n, k, splits, AssemblePaths(splits, n, k))
<1> DEFINE paths == AssemblePaths(splits, n, k)
           C == {j \in 1..BacktestPaths(n, k) : \A g \in 0..(n - 1) : Len(Testing(splits, g)) >= j}
<1>1. paths = [j \in C |-> [g \in 0..(n - 1) |-> Testing(splits, g)[j]]]
  BY Zenon DEF AssemblePaths
<1>2. BacktestPaths(n, k) \in Nat
  <2>1. 0 \in 0..(n - 1)
    OBVIOUS
  <2> QED
    BY <2>1, PathsPerGroup
<1> HIDE DEF paths
<1>3. DOMAIN paths = C /\ \A j \in C, g \in 0..(n - 1) : paths[j][g] = Testing(splits, g)[j]
  BY <1>1
<1>4. ASSUME NEW j \in C, NEW g \in 0..(n - 1) PROVE j \in 1..Cardinality(TestsOf(splits, g))
  <2>1. j \in 1..BacktestPaths(n, k) /\ Len(Testing(splits, g)) >= j
    OBVIOUS
  <2>2. Cardinality(TestsOf(splits, g)) \in Nat /\ Len(Testing(splits, g)) = Cardinality(TestsOf(splits, g))
    BY TestingIsOrdered
  <2> QED
    BY <1>2, <2>1, <2>2
<1>5. ASSUME NEW j \in C, NEW g \in 0..(n - 1)
      PROVE  Testing(splits, g)[j] \in TestsOf(splits, g)
  BY <1>4, TestingIsOrdered
<1>6. ASSUME NEW i \in C, NEW j \in C, NEW g \in 0..(n - 1), Testing(splits, g)[i] = Testing(splits, g)[j]
      PROVE  i = j
  BY <1>4, TestingIsOrdered, <1>6
<1>7. ASSUME Len(splits) = Choose(n, k), NEW i \in DOMAIN splits, NEW g \in splits[i].groups
      PROVE  g \in 0..(n - 1) /\ \E j \in C : Testing(splits, g)[j] = i
  <2>1. g \in 0..(n - 1)
    BY DEF SplitsTest, Groupings
  <2>2. \A e \in 0..(n - 1) : Cardinality(TestsOf(splits, e)) = BacktestPaths(n, k)
    BY <1>7, EveryPathIsComplete
  <2>3. i \in TestsOf(splits, g)
    BY DEF TestsOf
  <2>4. PICK j \in 1..Cardinality(TestsOf(splits, g)) : Testing(splits, g)[j] = i
    BY <2>3, TestingIsOrdered
  <2>5. j \in 1..BacktestPaths(n, k)
    BY <2>1, <2>2, <2>4
  <2>6. \A e \in 0..(n - 1) : Len(Testing(splits, e)) >= j
    <3> TAKE e \in 0..(n - 1)
    <3>1. Len(Testing(splits, e)) = BacktestPaths(n, k)
      BY <2>2, TestingIsOrdered
    <3> QED
      BY <1>2, <2>5, <3>1
  <2>7. j \in C
    BY <2>5, <2>6
  <2> QED
    BY <2>1, <2>4, <2>7
<1> HIDE DEF C
<1>8. \A j \in DOMAIN paths, g \in 0..(n - 1) :
        paths[j][g] \in DOMAIN splits /\ g \in splits[paths[j][g]].groups
  BY <1>3, <1>5 DEF TestsOf
<1>9. \A i, j \in DOMAIN paths, g \in 0..(n - 1) : paths[i][g] = paths[j][g] => i = j
  BY <1>3, <1>6
<1>10. Len(splits) = Choose(n, k) =>
         \A i \in DOMAIN splits : \A g \in splits[i].groups :
           g \in 0..(n - 1) /\ \E j \in DOMAIN paths : paths[j][g] = i
  BY <1>3, <1>7
<1> QED
  BY <1>8, <1>9, <1>10 DEF paths, WholePaths

CoversOnce(splits, paths, dates, n, k) ==
  LET used(j)  == {<<g, paths[j][g]>> : g \in 0..(n - 1)}
      group(g) == {dates[i] : i \in Block(Len(dates), n, g)}
  IN  /\ \A j \in DOMAIN paths : \A u \in used(j) :
           /\ group(u[1]) \subseteq Range(splits[u[2]].test)
           /\ group(u[1]) \intersect Range(splits[u[2]].train) = {}
      /\ \A i, j \in DOMAIN paths : i # j => used(i) \intersect used(j) = {}
      /\ Len(splits) = Choose(n, k) =>
           UNION {used(j) : j \in DOMAIN paths} = UNION {splits[i].groups \X {i} : i \in DOMAIN splits}

LEMMA CpcvCoversOnce ==
  ASSUME BuiltInv, NEW e \in Designs, RunCpcv(e[1], e[2])
  PROVE  PathsCoverOnce'
<1> DEFINE n == e[1]
           k == e[2]
           S == DaysOf(studyRows)
           dates == DatesOf(studyRows)
           splits == CpcvSplits(dates, n, k)
           paths == AssemblePaths(splits, n, k)
           fitted == {i \in DOMAIN splits : Trainable(studyRows, splits[i].train)}
           ok == Len(dates) >= n /\ DOMAIN paths # {}
           report == [kind |-> "cpcv", groups |-> n, tested |-> k, splits |-> splits, paths |-> paths,
                      fitted |-> fitted,
                      evaluated |-> {j \in DOMAIN paths : Range(paths[j]) \subseteq fitted}]
<1>1. last' = IF ok THEN report ELSE Refused
  BY DEF RunCpcv, dataVars
<1>2. studyRows' = studyRows
  BY DEF RunCpcv, dataVars
<1> HIDE DEF ok
<1>3. CASE ~ok
  BY <1>1, <1>3 DEF Refused, PathsCoverOnce
<1>4. CASE ok
  <2>1. n \in Nat \ {0} /\ k \in Nat \ {0} /\ k <= n
    BY TrainingAssumption
  <2>2. S \in SUBSET Nat /\ IsFiniteSet(S) /\ Rising(dates, S)
    BY BuiltReaches, DatesRise
  <2>3. report.kind = "cpcv" /\ report.groups = n /\ report.tested = k /\ report.splits = splits
        /\ report.paths = paths
    OBVIOUS
  <2> HIDE DEF report, fitted, S, n, k, dates
  <2>4. SplitsTest(dates, n, k, splits)
    BY <2>1, <2>2, SplitsTestGroups
  <2> HIDE DEF splits
  <2>5. WholePaths(n, k, splits, paths)
    BY <2>1, <2>4, PathsAreWhole
  <2> DEFINE used(j) == {<<g, paths[j][g]>> : g \in 0..(n - 1)}
             group(g) == {dates[i] : i \in Block(Len(dates), n, g)}
  <2> HIDE DEF paths
  <2>6. ASSUME NEW j \in DOMAIN paths, NEW u \in used(j)
        PROVE  /\ group(u[1]) \subseteq Range(splits[u[2]].test)
               /\ group(u[1]) \intersect Range(splits[u[2]].train) = {}
    <3>1. PICK g \in 0..(n - 1) : u = <<g, paths[j][g]>>
      OBVIOUS
    <3>2. paths[j][g] \in DOMAIN splits /\ g \in splits[paths[j][g]].groups
      BY <2>5 DEF WholePaths
    <3>3. /\ GroupDates(dates, n, g) \subseteq Range(splits[paths[j][g]].test)
          /\ GroupDates(dates, n, g) \cap Range(splits[paths[j][g]].train) = {}
      BY <2>4, <3>2 DEF SplitsTest
    <3>4. u[1] = g /\ u[2] = paths[j][g]
      BY <3>1
    <3> QED
      BY <3>3, <3>4 DEF GroupDates
  <2>7. \A i, j \in DOMAIN paths : i # j => used(i) \intersect used(j) = {}
    BY <2>5 DEF WholePaths
  <2>8. ASSUME Len(splits) = Choose(n, k)
        PROVE  UNION {used(j) : j \in DOMAIN paths} = UNION {splits[i].groups \X {i} : i \in DOMAIN splits}
    <3>1. ASSUME NEW j \in DOMAIN paths, NEW g \in 0..(n - 1)
          PROVE  <<g, paths[j][g]>> \in UNION {splits[i].groups \X {i} : i \in DOMAIN splits}
      BY <2>5 DEF WholePaths
    <3>2. ASSUME NEW i \in DOMAIN splits, NEW g \in splits[i].groups
          PROVE  <<g, i>> \in UNION {used(j) : j \in DOMAIN paths}
      <4>1. g \in 0..(n - 1)
        BY <2>5, <2>8 DEF WholePaths
      <4>2. PICK j \in DOMAIN paths : paths[j][g] = i
        BY <2>5, <2>8 DEF WholePaths
      <4>3. <<g, i>> \in used(j)
        BY <4>1, <4>2
      <4> QED
        BY <4>3
    <3>3. UNION {used(j) : j \in DOMAIN paths} \subseteq UNION {splits[i].groups \X {i} : i \in DOMAIN splits}
      BY <3>1
    <3>4. UNION {splits[i].groups \X {i} : i \in DOMAIN splits} \subseteq UNION {used(j) : j \in DOMAIN paths}
      BY <3>2
    <3> QED
      BY <3>3, <3>4
  <2>9. CoversOnce(splits, paths, dates, n, k)
    BY <2>6, <2>7, <2>8, Zenon DEF CoversOnce
  <2>10. /\ last'.kind = "cpcv" /\ last'.groups = n /\ last'.tested = k
         /\ last'.splits = splits /\ last'.paths = paths /\ DatesOf(studyRows') = dates
    BY <1>1, <1>2, <1>4, <2>3 DEF dates
  <2>11. CoversOnce(last'.splits, last'.paths, DatesOf(studyRows'), last'.groups, last'.tested)
    BY <2>9, <2>10
  <2> QED
    BY <2>11, Zenon DEF CoversOnce, PathsCoverOnce
<1> QED
  BY <1>3, <1>4

-----------------------------------------------------------------------------
(* Every session counts once                                               *)

\* The calendar and the kinds of report.
ShapeInv ==
  /\ now \in {0} \union FirstSession..LastSession /\ selective \in BOOLEAN
  /\ last.kind \in {"none", "refused", "training", "sweep", "cpcv", "importance"}

CountInv == LeakInv /\ ShapeInv /\ OutOfSampleOnce /\ PathsCoverOnce

LEMMA ShapeIsKept == ShapeInv /\ [TrainNext]_trainVars => ShapeInv'
<1> SUFFICES ASSUME ShapeInv, [TrainNext]_trainVars PROVE ShapeInv'
  OBVIOUS
<1>1. CASE NextSession
  <2>1. now' = IF now = 0 THEN FirstSession ELSE now + 1
    BY <1>1 DEF NextSession
  <2>2. now' \in FirstSession..LastSession
    BY <1>1, <2>1, TrainingAssumption DEF NextSession, ShapeInv
  <2>3. selective' = selective /\ last'.kind = "none"
    BY <1>1 DEF NextSession
  <2> QED
    BY <2>2, <2>3 DEF ShapeInv
<1>2. CASE RunTraining
  BY <1>2 DEF RunTraining, dataVars, Refused, ShapeInv
<1>3. CASE RunSweep
  BY <1>3 DEF RunSweep, dataVars, Refused, ShapeInv
<1>4. CASE RunImportance
  BY <1>4 DEF RunImportance, dataVars, Refused, ShapeInv
<1>5. ASSUME NEW e \in Designs, RunCpcv(e[1], e[2]) PROVE ShapeInv'
  BY <1>5 DEF RunCpcv, dataVars, Refused, ShapeInv
<1>6. CASE UNCHANGED trainVars
  BY <1>6 DEF trainVars, dataVars, ShapeInv
<1> QED
  BY <1>1, <1>2, <1>3, <1>4, <1>5, <1>6 DEF TrainNext

\* What the reports say of the sessions, kept by every step.
LEMMA ReportsCountOnce ==
  ASSUME BuiltInv, OutOfSampleOnce, PathsCoverOnce, [TrainNext]_trainVars
  PROVE  OutOfSampleOnce' /\ PathsCoverOnce'
<1>1. CASE NextSession
  <2>1. last'.kind = "none"
    BY <1>1 DEF NextSession
  <2> QED
    BY <2>1 DEF OutOfSampleOnce, PathsCoverOnce
<1>2. CASE RunTraining
  <2>1. last'.kind # "cpcv"
    BY <1>2 DEF RunTraining, Refused
  <2> QED
    BY <1>2, <2>1, TrainingCountsOnce DEF PathsCoverOnce
<1>3. CASE RunSweep
  <2>1. last'.kind \notin {"training", "cpcv"}
    BY <1>3 DEF RunSweep, Refused
  <2> QED
    BY <2>1 DEF OutOfSampleOnce, PathsCoverOnce
<1>4. CASE RunImportance
  <2>1. last'.kind \notin {"training", "cpcv"}
    BY <1>4 DEF RunImportance, Refused
  <2> QED
    BY <2>1 DEF OutOfSampleOnce, PathsCoverOnce
<1>5. ASSUME NEW e \in Designs, RunCpcv(e[1], e[2]) PROVE OutOfSampleOnce' /\ PathsCoverOnce'
  <2>1. last'.kind # "training"
    BY <1>5 DEF RunCpcv, Refused
  <2> QED
    BY <1>5, <2>1, CpcvCoversOnce DEF OutOfSampleOnce
<1>6. CASE UNCHANGED trainVars
  <2>1. last' = last /\ studyRows' = studyRows
    BY <1>6 DEF trainVars, dataVars
  <2>2. OutOfSampleOnce'
    BY <2>1 DEF OutOfSampleOnce
  <2>3. DatesOf(studyRows') = DatesOf(studyRows)
    BY <2>1
  <2>4. PathsCoverOnce'
    <3> SUFFICES ASSUME last'.kind = "cpcv"
                 PROVE  CoversOnce(last'.splits, last'.paths, DatesOf(studyRows'), last'.groups, last'.tested)
      BY Zenon DEF CoversOnce, PathsCoverOnce
    <3>1. last.kind = "cpcv"
      BY <2>1
    <3>2. CoversOnce(last.splits, last.paths, DatesOf(studyRows), last.groups, last.tested)
      BY <3>1, Zenon DEF CoversOnce, PathsCoverOnce
    <3> QED
      BY <2>1, <2>3, <3>2
  <2> QED
    BY <2>2, <2>4
<1> QED
  BY <1>1, <1>2, <1>3, <1>4, <1>5, <1>6 DEF TrainNext

LEMMA CountInvHolds == TrainSpec => []CountInv
<1>1. TrainInit => ShapeInv /\ OutOfSampleOnce /\ PathsCoverOnce
  BY DEF TrainInit, ShapeInv, OutOfSampleOnce, PathsCoverOnce
<1>2. LeakInv /\ ShapeInv /\ OutOfSampleOnce /\ PathsCoverOnce /\ [TrainNext]_trainVars
        => ShapeInv' /\ OutOfSampleOnce' /\ PathsCoverOnce'
  BY ShapeIsKept, ReportsCountOnce DEF LeakInv
<1> QED
  BY <1>1, <1>2, LeakInvHolds, PTL DEF TrainSpec, CountInv

\* A universe and a benchmark have an entry for every session.
LEMMA BuiltIsLong ==
  ASSUME BuiltInv
  PROVE  Len(universe) = now /\ Len(levels) = now
<1>1. CASE now = 0
  BY <1>1 DEF BuiltInv
<1>2. CASE now # 0
  <2> DEFINE h == History(now)
  <2>1. now \in Nat \ {0} /\ now <= now
    BY <1>2 DEF BuiltInv
  <2>2. Longer(h, now, h, now)
    BY <2>1, HistoryIsLonger
  <2>3. /\ IsUpTo(BuildUniverse(h), now) /\ IsUpTo(Everyone(h), now)
        /\ \A d \in 1..now : BuildUniverse(h)[d] \subseteq Names /\ Everyone(h)[d] \subseteq Names
    BY <2>2, SameUniverse, SameEveryone
  <2>4. /\ universe = (IF selective THEN BuildUniverse(h) ELSE Everyone(h))
        /\ levels = MarketLevels(h, universe)
    BY <1>2 DEF BuiltInv, Asked
  <2> HIDE DEF h
  <2>5. IsUpTo(universe, now) /\ \A d \in 1..now : universe[d] \subseteq Names
    BY <2>3, <2>4
  <2>6. IsUpTo(levels, now)
    <3>1. SameUpTo(universe, universe, now)
      BY DEF SameUpTo
    <3> QED
      BY <2>2, <2>4, <2>5, <3>1, SameLevels
  <2> QED
    BY <2>1, <2>5, <2>6 DEF IsUpTo
<1> QED
  BY <1>1, <1>2

LEMMA CountInvTyped == CountInv => TrainTypeOK
<1> SUFFICES ASSUME CountInv PROVE TrainTypeOK
  OBVIOUS
<1>1. BuiltInv /\ SweptIsEarly /\ ShapeInv
  BY DEF CountInv, LeakInv
<1>2. DataReaches(rows) /\ DataReaches(studyRows)
  BY <1>1, BuiltReaches
<1>3. swept \subseteq 1..now
  BY <1>1, <1>2, DaysAreFinite DEF SweptIsEarly
<1>4. Len(universe) = now /\ Len(levels) = now
  BY <1>1, BuiltIsLong
<1>5. \A r \in rows \union studyRows :
        /\ r.name \in Names /\ r.label \in {0, 1} /\ r.first < r.last
        /\ r.session < r.touch /\ r.touch <= now
  <2>1. now \in Nat /\ \A r \in rows \union studyRows : Reaches(History(now), now, r)
    BY <1>2 DEF DataReaches
  <2> DEFINE h == History(now)
  <2> HIDE DEF h
  <2> SUFFICES ASSUME NEW r \in rows \union studyRows
               PROVE  /\ r.name \in Names /\ r.label \in {0, 1} /\ r.first < r.last
                      /\ r.session < r.touch /\ r.touch <= now
    OBVIOUS
  <2>2. Reaches(h, now, r)
    BY <2>1 DEF h
  <2>3. r.touch \in TradedDays(h, now, r.name)
    BY <2>2 DEF Reaches
  <2>4. r.touch <= now
    BY <2>1, <2>3 DEF TradedDays
  <2> QED
    BY <2>2, <2>4 DEF Reaches
<1> QED
  BY <1>1, <1>3, <1>4, <1>5 DEF TrainTypeOK, ShapeInv

\* Every session has one voice: the overlapping labels of a name share its bars
\* (uniqueness.py:27), the curve the gate deflates has each session once, from a model
\* of earlier ones (gate.py:222), and a path of the cross-validation takes each group
\* from a split that was not fitted on it, no two paths the same one (cpcv.py:130).
THEOREM SessionsAreOnce == TrainSpec => []SessionsCountOnce
<1>1. CountInv => SessionsCountOnce
  <2>1. CountInv => EpisodesCountOnce
    BY EpisodesCount DEF CountInv, LeakInv
  <2> QED
    BY <2>1, CountInvTyped DEF CountInv, SessionsCountOnce
<1> QED
  BY <1>1, CountInvHolds, PTL
=============================================================================
