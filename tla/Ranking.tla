------------------------------ MODULE Ranking ------------------------------
(***************************************************************************)
(* trading_common.ranking and trading_common.sectors: percentile ranks of  *)
(* a universe, and the sector-neutral values they may be taken of.  A      *)
(* vector is a function from feature names to integers (a feature that is  *)
(* missing is not in its domain), a universe a sequence of vectors.        *)
(* Ranks are integers over Unit.                                           *)
(***************************************************************************)
EXTENDS Integers, FiniteSets, Sequences, SequencesExt, FiniteSetsExt

Unit == 10000

Holders(vectors, key) == {i \in 1..Len(vectors) : key \in DOMAIN vectors[i]}

\* _percentile_ranks: the mean 0-based rank of i's tie group over n - 1.
PercentileRank(vectors, key, i) ==
  LET n     == Cardinality(Holders(vectors, key))
      below == Cardinality({j \in Holders(vectors, key) : vectors[j][key] < vectors[i][key]})
      tied  == Cardinality({j \in Holders(vectors, key) : vectors[j][key] = vectors[i][key]})
  IN  IF n = 1 THEN Unit \div 2
      ELSE (Unit * (2 * below + tied - 1)) \div (2 * (n - 1))

\* A feature is ranked among the vectors that have it.
CrossSectionalRank(vectors) ==
  [i \in 1..Len(vectors) |->
     [key \in DOMAIN vectors[i] |-> PercentileRank(vectors, key, i)]]

-----------------------------------------------------------------------------
\* The canonical name of a sector, "" for one no table knows.
NormalizeSector(aliases, name) == IF name \in DOMAIN aliases THEN aliases[name] ELSE ""

\* The peers of i: its sector if that is large enough, else the residual
\* group of the unknown and the undersized.
Group(sector, minSize, i) ==
  LET members(s) == {j \in 1..Len(sector) : sector[j] = s}
      small(s)   == s = "" \/ Cardinality(members(s)) < minSize
  IN  IF small(sector[i]) THEN {j \in 1..Len(sector) : small(sector[j])}
      ELSE members(sector[i])

\* statistics.median, doubled (the median of an even number is a mean of two).
Median2(S) ==   \* S: a set of <<index, value>>
  LET sorted == SetToSortSeq(S, LAMBDA a, b : a[2] < b[2] \/ (a[2] = b[2] /\ a[1] < b[1]))
      n      == Len(sorted)
  IN  sorted[(n + 1) \div 2][2] + sorted[(n + 2) \div 2][2]

\* Each feature minus its peers' median, doubled; untouched, and doubled all
\* the same, where fewer than minSize peers have it.
SectorNeutralize(vectors, sector, minSize) ==
  [i \in 1..Len(vectors) |->
     [key \in DOMAIN vectors[i] |->
        LET present == Group(sector, minSize, i) \intersect Holders(vectors, key)
        IN  IF Cardinality(present) < minSize THEN 2 * vectors[i][key]
            ELSE 2 * vectors[i][key] - Median2({<<j, vectors[j][key]>> : j \in present})]]
=============================================================================
