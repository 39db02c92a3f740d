--------------------------- MODULE HistogramColumn ---------------------------
(* The columns that are no keys: what GenerateDbgen writes for numbers,      *)
(* strings, dates, years and enumerations, from exact counts where there are *)
(* few values and from the histogram h where there are many.  The values are *)
(* synthetic: a number or a date is its offset from the base of its domain.  *)
EXTENDS SourceColumn

CONSTANTS
  ExactValues,   \* EXACT_LOW_CARDINALITY_THRESHOLD, the 1000 of histogram_to_case
  RowsPerValue,  \* the 10 rows per value up to which a date table is small
  FewYears,      \* the 20 years that are chosen by weight
  Radix,         \* of the numerals in a synthetic string: 10 in the code
  Random         \* a value of a domain that has nothing to do with the source

ASSUME HistogramColumnAssumption ==
  {ExactValues, RowsPerValue, FewYears} \subseteq Nat /\ Radix \in Nat \ {0, 1}

\* A synthetic string: its ordinal and, if that has been cut to it, its length.
Strings == [text : Nat, length : Nat \cup {None}]

ASSUME ValuesAssumption ==
  None # Random /\ \A v \in {None, Random} : v \notin Int /\ v \notin Strings

\* The positions, largest count first; equal counts keep their order.
RankedPositions(counts) ==
  LET Before(b) == {a \in DOMAIN counts :
                      counts[a] > counts[b] \/ (counts[a] = counts[b] /\ a < b)}
  IN  [i \in DOMAIN counts |-> CHOOSE b \in DOMAIN counts : Cardinality(Before(b)) = i - 1]

\* distinct_ratio of the whole table, NULL rows included, at least a percentage.
DistinctRatioFrom(c, percent) == 100 * Distinct(c) >= percent * Total(c)

-----------------------------------------------------------------------------
(* Exact frequencies: only where there are few values and no NULL.           *)
ExactCountsApply(c) ==
  Total(c) > 0 /\ c.null = 0 /\ Distinct(c) \in 1 .. ExactValues

ExactColumn(c) ==
  LET ranked == Descending(c.freq)
  IN  Sure(Case([i \in DOMAIN ranked |-> Constant(ranked[i], i - 1)],
                LAMBDA r : Distinct(c) - 1, c.rows))

-----------------------------------------------------------------------------
(* Strings.  A synthetic string has the length of the source string and ends *)
(* in its ordinal, which is cut to its leading digits where it is too long.  *)
Power(n) ==
  LET power[i \in 0 .. n] == IF i = 0 THEN 1 ELSE Radix * power[i - 1]
  IN  power[n]
Digits(n) == CHOOSE d \in 1 .. n + 1 : n < Power(d) /\ \A e \in 1 .. d - 1 : n >= Power(e)

\* A numeral of that length, or (length 0) a name and the ordinal.
Synthetic(ordinal, length) ==
  LET digits == Digits(ordinal)
  IN  CASE length >= digits + 2 -> [text |-> ordinal, length |-> 0]
        [] length \in digits .. digits + 1 -> [text |-> ordinal, length |-> length]
        [] length < digits ->
             [text |-> ordinal \div Power(digits - length), length |-> length]

\* synthetic_string_expression: the name, as much of it as there is room for,
\* and all digits of the ordinal.
SyntheticExpression(ordinal) == [text |-> ordinal, length |-> None]

\* The pseudo counts of get_string_column_values, and the buckets by them.
PseudoCounts(c, h) ==
  [b \in DOMAIN h.buckets |-> Rate(h.buckets[b].rows, c.null + SumOf(RowsOf(h)), Units)]
RankedBuckets(c, h) == RankedPositions(PseudoCounts(c, h))

\* None is the empty formula.
SingletonStrings(c, h) ==
  LET order   == RankedBuckets(c, h)
      pseudo  == [i \in DOMAIN order |-> PseudoCounts(c, h)[order[i]]]
      weights == [i \in DOMAIN order |-> RoundDiv(pseudo[i] * Units, SumOf(pseudo))]
      counts  == WeightedCounts(weights, Units, Total(c))
      n       == Len(order)
  IN  IF SumOf(pseudo) = 0 THEN None
      ELSE Sure(Case([i \in 1 .. n |-> Constant(counts[i], Synthetic(i, c.length))],
                     LAMBDA r : Synthetic(n, c.length), c.rows))

\* The distinct counts of the buckets, brought to the exact count by one at a
\* time from the last bucket back and round again, none of them below one.
ScaledStrings(c, h) ==
  LET raw == DistinctsOf(h)
  IN  [b \in DOMAIN raw |-> AtLeast(1, RoundDiv(raw[b] * Distinct(c), SumOf(raw)))]

StringStep(s) ==
  LET change == IF s.diff > 0 THEN 1 ELSE IF s.counts[s.at] > 1 THEN -1 ELSE 0
  IN  IF s.diff = 0 THEN s
      ELSE [counts |-> [s.counts EXCEPT ![s.at] = @ + change],
            diff |-> s.diff - change,
            at |-> IF s.at = 1 THEN Len(s.counts) ELSE s.at - 1]

\* Enough steps for each bucket to have its turn for each value too many.
StringSteps(c, scaled) == Len(scaled) * (Distinct(c) + SumOf(scaled))

StringDistincts(c, h) ==
  LET scaled == ScaledStrings(c, h)
      start == [counts |-> scaled, diff |-> Distinct(c) - SumOf(scaled), at |-> Len(scaled)]
      adjusted[k \in 0 .. StringSteps(c, scaled)] ==
        IF k = 0 THEN start ELSE StringStep(adjusted[k - 1])
  IN  IF Distinct(c) <= Len(scaled)
      THEN [b \in DOMAIN scaled |-> IF b <= Distinct(c) THEN 1 ELSE 0]
      ELSE adjusted[StringSteps(c, scaled)].counts

\* The frequencies of all the buckets times the rows are the rows themselves.
EquiHeightStrings(c, h) ==
  LET rows == LastTakesRest(RowsOf(h), Total(c))
      room == [b \in DOMAIN rows |->
                 IF rows[b] <= 0 THEN 0 ELSE AtMost(StringDistincts(c, h)[b], rows[b])]
      Band(b) == IF room[b] = 0 THEN <<>>
                 ELSE Cycled(rows[b], SumsOf(room)[b - 1] + 1, room[b])
      numbers == Case([b \in DOMAIN rows |-> Band(b)],
                      LAMBDA r : AtLeast(SumOf(room), 1), c.rows)
  IN  Sure([r \in DOMAIN numbers |-> SyntheticExpression(numbers[r])])

StringColumn(c, h) ==
  CASE h = None        -> AnyOf({Random}, c.rows)
    [] IsSingleton(h)  -> SingletonStrings(c, h)
    [] IsEquiHeight(h) -> EquiHeightStrings(c, h)

-----------------------------------------------------------------------------
(* Numbers.                                                                  *)
SingletonNumbers(c, h) ==
  LET n == Distinct(c)
      counts == IF n = Len(h.buckets)
                THEN WeightedCounts(Weights(c, h), Units, Total(c))
                ELSE LastTakesRest(Constant(n, RoundDiv(Total(c), n)), Total(c))
  IN  IF DistinctRatioFrom(c, 80) THEN Sure(Cycled(c.rows, 1, n))
      ELSE IF n > ExactValues THEN AnyOf(1 .. n, c.rows)
      ELSE Sure(Case([i \in 1 .. n |-> Constant(counts[i], i)], LAMBDA r : n, c.rows))

\* The distinct counts of the buckets, brought to the exact count: a bucket of
\* one value stays, the rest is scaled, and the largest takes what is missing.
SingleBuckets(h) == {b \in DOMAIN h.buckets : h.buckets[b].values = 1}
OpenBuckets(h) ==
  LET rest == DOMAIN h.buckets \ SingleBuckets(h)
  IN  IF rest = {} THEN DOMAIN h.buckets ELSE rest

NumberDistinctsScaled(c, h) ==
  LET raw == DistinctsOf(h)
  IN  [b \in DOMAIN raw |-> AtLeast(1, RoundDiv(raw[b] * Distinct(c), SumOf(raw)))]
ScaledNumbers(c, h) ==
  LET raw    == DistinctsOf(h)
      single == SingleBuckets(h)
      wanted == AtLeast(0, Distinct(c) - Cardinality(single))
      total  == SumOf(raw) - Cardinality(single)
  IN  [b \in DOMAIN raw |-> IF b \in single THEN raw[b]
                            ELSE AtLeast(1, RoundDiv(raw[b] * wanted, total))]

NumberStep(c, open, counts) ==
  LET diff == Distinct(c) - SumOf(counts)
      b    == Largest(counts, open)
  IN  IF diff > 0 THEN [counts EXCEPT ![b] = @ + diff]
      ELSE IF diff = 0 \/ counts[b] = 1 THEN counts
      ELSE [counts EXCEPT ![b] = @ - 1]

\* Each step but the last takes one away.
NumberDistincts(c, h) ==
  LET scaled == ScaledNumbers(c, h)
      adjusted[k \in 0 .. SumOf(scaled)] ==
        IF k = 0 THEN scaled ELSE NumberStep(c, OpenBuckets(h), adjusted[k - 1])
  IN  adjusted[SumOf(scaled)]

\* The rows of the buckets: the largest remainders are rounded up.
NumberRows(c, h) ==
  LET share == [b \in DOMAIN h.buckets |-> Weights(c, h)[b] * Total(c)]
      floor == [b \in DOMAIN share |-> share[b] \div Units]
      order == RankedPositions([b \in DOMAIN share |-> share[b] % Units])
      up    == {order[i] : i \in 1 .. AtMost(Len(order), Total(c) - SumOf(floor))}
  IN  [b \in DOMAIN share |-> floor[b] + (IF b \in up THEN 1 ELSE 0)]

EquiHeightNumbers(c, h) ==
  LET distincts == NumberDistincts(c, h)
      rows      == NumberRows(c, h)
      Band(b)   == Cycled(rows[b], SumsOf(distincts)[b - 1], distincts[b])
  IN  Sure(Case([b \in DOMAIN rows |-> Band(b)],
                LAMBDA r : SumOf(distincts) - 1, c.rows))

\* A column of NULLs only is left without a formula, another one without a
\* histogram gets rand.range(0,5).
NumberColumn(c, h) ==
  CASE ExactCountsApply(c) -> ExactColumn(c)
    [] ~ExactCountsApply(c) /\ IsSingleton(h)  -> SingletonNumbers(c, h)
    [] ~ExactCountsApply(c) /\ IsEquiHeight(h) -> EquiHeightNumbers(c, h)
    [] ~ExactCountsApply(c) /\ h = None        ->
         IF Distinct(c) = 0 THEN None ELSE AnyOf(0 .. 4, c.rows)

-----------------------------------------------------------------------------
(* Dates and times.                                                          *)
SparseDates(c, h) ==
  LET n      == Len(h.buckets)
      counts == [i \in 1 .. n |-> AtLeast(1, RoundDiv(Weights(c, h)[i] * Total(c), Units))]
      excess == SumOf(counts) - Total(c)
      most   == Largest(counts, 1 .. n)
      fitted == IF excess > 0
                THEN [counts EXCEPT ![most] = AtLeast(1, @ - excess)] ELSE counts
  IN  IF DistinctRatioFrom(c, 80) THEN Sure(Cycled(c.rows, 0, n))
      ELSE IF Total(c) <= n * RowsPerValue
      THEN Sure(Case([i \in 1 .. n |-> Constant(fitted[i], i - 1)],
                     LAMBDA r : n - 1, c.rows))
      ELSE AnyOf(0 .. n - 1, c.rows)

\* The first bucket has the least value of the column, the last the greatest.
Offsets(c) == 0 .. c.span

\* MySQL's 0000-00-00 among the dates (span None) has no range.
DenseDates(c) ==
  IF c.span = None THEN AnyOf({Random}, c.rows)
  ELSE IF 10 * Distinct(c) > 9 * Total(c) THEN Sure(Cycled(c.rows, 0, c.span + 1))
  ELSE AnyOf(Offsets(c), c.rows)

\* Dates with a bucket each are told apart, all else is taken from the range.
OverRange(c, h) ==
  /\ c.kind \in {"date", "time"} /\ ~ExactCountsApply(c)
  /\ h # None /\ ~(IsSingleton(h) /\ c.kind = "date")

DateColumn(c, h) ==
  IF ExactCountsApply(c) THEN ExactColumn(c)
  ELSE IF h = None THEN AnyOf({Random}, c.rows)
  ELSE IF OverRange(c, h) THEN DenseDates(c)
  ELSE SparseDates(c, h)

YearColumn(c) ==
  CASE Distinct(c) = 0              -> AnyOf({Random}, c.rows)
    [] Distinct(c) \in 1 .. FewYears -> AnyOf(0 .. Distinct(c) - 1, c.rows)
    [] Distinct(c) > FewYears        -> AnyOf(0 .. c.span, c.rows)

\* The members of the type are 1 .. size, the first of them those in use.
EnumColumn(c) ==
  AnyOf(IF Distinct(c) = 0 THEN 1 .. c.size
        ELSE {i \in DOMAIN c.freq : RoundDiv(c.freq[i] * Units, SumOf(c.freq)) > 0},
        c.rows)
=============================================================================
