------------------------------- MODULE FkColumn -------------------------------
(* build_single_fk_expression of GenerateDbgen: the values of a column that  *)
(* references one column of another table.  The referenced column of the     *)
(* target is low .. low + size - 1; h is the histogram of the source column. *)
EXTENDS SourceColumn

CONSTANTS
  LowCardinality,  \* EXACT_LOW_CARDINALITY_THRESHOLD
  MaxDistinct,     \* DATAGENX_FK_FREQUENCY_SHAPE_MAX_DISTINCT
  MaxGroups,       \* DATAGENX_FK_FREQUENCY_SHAPE_MAX_GROUPS
  MinBuckets,      \* buckets and distinct values for weighted ranges of keys
  MinDistinct

ASSUME FkColumnAssumption ==
  {LowCardinality, MaxDistinct, MaxGroups, MinBuckets, MinDistinct} \subseteq Nat

Referenced(c) == c.low .. c.low + c.size - 1
Valid(c)      == AtLeast(1, SumOf(c.freq))
RefSize(c)    == AtLeast(1, c.size)
LastKey(c)    == c.low + Distinct(c) - 1

\* unknown_rate_per_10000 > 0
UnknownSeen(c) == Total(c) > 0 /\ Rate(c.zero + c.null, Total(c), 10000) > 0

\* The bands of the 0 and NULL rows come before all others.
UnknownBandsNoNull(c) == <<Constant(c.zero, 0), <<>>>>
UnknownBands(c) == <<Constant(c.zero, 0), Constant(c.null, None)>>

\* A formula that divides by zero stops the engine: it yields no value.
Turning(c, cycle, r) == IF cycle = 0 THEN {} ELSE {c.low + ((r - 1) % cycle)}
Turned(c, cycle) == [r \in 1 .. c.rows |-> Turning(c, cycle, r)]

-----------------------------------------------------------------------------
(* The values in descending frequency, each with the rows it has: one band   *)
(* for each value, or one for all the values of a frequency.                 *)
RankedColumn(c) ==
  LET ranked == Descending(c.freq)
  IN  Sure(Case(UnknownBands(c) \o
                  [i \in DOMAIN ranked |-> Constant(ranked[i], c.low + i - 1)],
                LAMBDA r : LastKey(c), c.rows))

ExactApplies(c) ==
  Distinct(c) \in 1 .. LowCardinality /\ c.size >= Distinct(c)

FrequencyShapeApplies(c) ==
  /\ Distinct(c) \in 1 .. MaxDistinct
  /\ c.size >= Distinct(c)
  /\ Cardinality(Range(c.freq)) <= MaxGroups

-----------------------------------------------------------------------------
(* Weights of the column's own histogram over sampled keys of the target.    *)
SingletonApplies(c, h) == IsSingleton(h) /\ c.size >= Len(h.buckets)

SingletonColumn(c, h) ==
  LET n == Len(h.buckets)
      counts == WeightedCounts(Weights(c, h), Units, Valid(c))
      Sampled(i) == c.low + (((i - 1) * c.size) \div n)
  IN  Sure(Case([i \in 1 .. n |-> Constant(counts[i], Sampled(i))],
                LAMBDA r : Sampled(n), c.rows))

\* COUNT(DISTINCT) of the whole column, 0 included.
EquiHeightApplies(c, h) ==
  LET distinct == Len(AllValues(c))
  IN  /\ IsEquiHeight(h)
      /\ 5 * distinct < c.size
      /\ Len(h.buckets) >= MinBuckets /\ distinct >= MinDistinct

\* A weighted choice of a bucket, and a random key of its range.
EquiHeightColumn(c, h) ==
  LET n   == Len(h.buckets)
      per == AtLeast(1, AtLeast(Len(AllValues(c)), n) \div n)
      Within(v) == AtMost(v, c.low + c.size - 1)
      Keys(i)   == Within(c.low + (i - 1) * per) .. Within(c.low + i * per - 1)
  IN  AnyOf(UNION {Keys(i) : i \in 1 .. n}, c.rows)

DenseColumn(c) == AnyOf(IF c.size = 0 THEN {0} ELSE Referenced(c), c.rows)

-----------------------------------------------------------------------------
CyclingColumn(c) == Turned(c, Distinct(c))

WrappedCyclingColumn(c) ==
  IF UnknownSeen(c)
  THEN Case([b \in 1 .. 2 |-> Sure(UnknownBands(c)[b])],
            LAMBDA r : Turning(c, Distinct(c), r), c.rows)
  ELSE CyclingColumn(c)

\* --rows on TiDB: the statistics' estimate takes the place of the count.
Estimated(c) == c.estimate # None

EstimatedColumnUncapped(c) == Turned(c, AtLeast(1, c.estimate))
EstimatedColumn(c) == Turned(c, AtLeast(1, AtMost(c.estimate, RefSize(c))))

\* distinct_ratio >= 0.5, and coverage_ratio below a percentage.
NearlyUnique(c) == 2 * Distinct(c) >= Valid(c)
CoverageBelow(c, percent) == 100 * Distinct(c) < percent * RefSize(c)

FkColumn(c, h) ==
  CASE Estimated(c) -> EstimatedColumn(c)
    [] ~Estimated(c) /\ (ExactApplies(c) \/ FrequencyShapeApplies(c)) ->
         RankedColumn(c)
    [] OTHER ->
         IF NearlyUnique(c) THEN CyclingColumn(c)
         ELSE IF SingletonApplies(c, h) THEN SingletonColumn(c, h)
         ELSE IF CoverageBelow(c, 20) /\ EquiHeightApplies(c, h) THEN EquiHeightColumn(c, h)
         ELSE IF CoverageBelow(c, 80) \/ Distinct(c) <= RefSize(c)
              THEN WrappedCyclingColumn(c)
         ELSE DenseColumn(c)
=============================================================================
