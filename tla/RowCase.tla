------------------------------- MODULE RowCase -------------------------------
(* The searched CASE expressions of a generated template,                    *)
(*     case when rownum <= c1 then e1 when rownum <= c2 then e2 ... else d   *)
(* A band is the sequence of the values its rows take, so a CASE over bands  *)
(* is their concatenation, and the default where the bands have run out.  A  *)
(* band of no rows is the branch the code leaves out with `continue`.        *)
EXTENDS Integers, Sequences, FiniteSets, SequencesExt

CeilDiv(a, b) == (a + b - 1) \div b
AtLeast(a, b) == IF a >= b THEN a ELSE b
AtMost(a, b)  == IF a <= b THEN a ELSE b

\* The sums of the first elements of s, and of all.
SumsOf(s) ==
  LET sums[i \in 0 .. Len(s)] == IF i = 0 THEN 0 ELSE sums[i - 1] + s[i]
  IN  sums
SumOf(s) == SumsOf(s)[Len(s)]

\* The i-th largest is the least that fewer than i elements are larger than.
Descending(s) ==
  [i \in DOMAIN s |->
     Min({x \in Range(s) : Cardinality({j \in DOMAIN s : s[j] > x}) < i})]

\* The first of the positions in S with the largest count, as Python's max() and
\* sorted() find it.
Largest(counts, S) ==
  CHOOSE i \in S : \A j \in S : counts[i] > counts[j] \/ (counts[i] = counts[j] /\ i <= j)

\* mod over the rows of a band of n rows, counted from zero.
Cycled(n, low, cycle) == [l \in 1 .. n |-> low + ((l - 1) % cycle)]
Constant(n, value)    == [l \in 1 .. n |-> value]

Case(bands, Default(_), rows) ==
  LET all == FlattenSeq(bands)
  IN  [r \in 1 .. rows |-> IF r <= Len(all) THEN all[r] ELSE Default(r)]

\* A column gives each row the set of the values it may take: one value where
\* the formula is over rownum only, several where it draws a random one.
Sure(values)         == [r \in DOMAIN values |-> {values[r]}]
AnyOf(choices, rows) == [r \in 1 .. rows |-> choices]

\* Python's round() of a/b: to the nearest integer, a half to the even one.
RoundDiv(a, b) ==
  LET q == a \div b
      twice == 2 * (a % b)
  IN  IF twice > b \/ (twice = b /\ q % 2 = 1) THEN q + 1 ELSE q

\* counts[-1] += rows - sum(counts)
LastTakesRest(counts, rows) ==
  [i \in DOMAIN counts |->
     counts[i] + (IF i = Len(counts) THEN rows - SumOf(counts) ELSE 0)]

\* counts = [round(w * rows) ...], the weights as multiples of 1 / units.
WeightedCounts(weights, units, rows) ==
  LastTakesRest([i \in DOMAIN weights |-> RoundDiv(weights[i] * rows, units)], rows)
=============================================================================
