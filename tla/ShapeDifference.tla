-------------------------- MODULE ShapeDifference --------------------------
(* How far two columns are apart by the frequencies of their values, as the  *)
(* validation computes it: histogram_difference of the validation scripts    *)
(* from the masses of the buckets, and _frequency_shape_diff_from_groups of  *)
(* MasterRun from groups of values of one frequency.  Both are probabilities *)
(* here times 2 * (rows of the one) * (rows of the other), no rows for one.  *)
EXTENDS RowCase

\* Nothing is as far as can be from whatever it is compared with: 1.0.
FarApart(source, target) == 2 * AtLeast(1, SumOf(source)) * AtLeast(1, SumOf(target))

\* One bucket for each value: the masses from the largest, the shorter padded.
HistogramDifference(source, target) ==
  LET p == Descending(source)
      q == Descending(target)
      n == AtLeast(Len(p), Len(q))
      Mass(s, i, rows) == (IF i <= Len(s) THEN s[i] ELSE 0) * rows
      Apart(x, y) == AtLeast(x - y, y - x)
  IN  IF p = <<>> \/ q = <<>> THEN FarApart(source, target)
      ELSE SumOf([i \in 1 .. n |-> Apart(Mass(p, i, SumOf(q)), Mass(q, i, SumOf(p)))])

\* SELECT frequency, COUNT(*) ... GROUP BY frequency, largest first.
FrequencyGroupsOnce(counts) ==
  LET frequencies == Descending(SetToSeq(Range(counts)))
  IN  [g \in DOMAIN frequencies |-> [frequency |-> frequencies[g], values |-> 1]]
FrequencyGroups(counts) ==
  LET frequencies == Descending(SetToSeq(Range(counts)))
  IN  [g \in DOMAIN frequencies |->
         [frequency |-> frequencies[g],
          values |-> Cardinality({v \in DOMAIN counts : counts[v] = frequencies[g]})]]

\* One turn of the merge of the two lists of groups: i and j are the groups it is
\* at, x and y what is left of their values, apart the sum so far.  A list that
\* has ended has frequency 0.
FrequencyAt(groups, g) == IF g <= Len(groups) THEN groups[g].frequency ELSE 0
ValuesAt(groups, g)    == IF g <= Len(groups) THEN groups[g].values ELSE 0

MergeStep(p, q, pRows, qRows, s) ==
  LET take == IF s.i > Len(p) THEN s.y ELSE IF s.j > Len(q) THEN s.x ELSE AtMost(s.x, s.y)
      a    == FrequencyAt(p, s.i) * qRows
      b    == FrequencyAt(q, s.j) * pRows
      endP == s.i <= Len(p) /\ s.x = take
      endQ == s.j <= Len(q) /\ s.y = take
  IN  [i |-> IF endP THEN s.i + 1 ELSE s.i,
       j |-> IF endQ THEN s.j + 1 ELSE s.j,
       x |-> IF endP THEN ValuesAt(p, s.i + 1) ELSE IF s.i <= Len(p) THEN s.x - take ELSE 0,
       y |-> IF endQ THEN ValuesAt(q, s.j + 1) ELSE IF s.j <= Len(q) THEN s.y - take ELSE 0,
       apart |-> s.apart + take * AtLeast(a - b, b - a)]

\* Each turn ends a group at least; once both lists have ended nothing changes.
FrequencyShapeDifference(source, target) ==
  LET p == FrequencyGroups(source)
      q == FrequencyGroups(target)
      first == [i |-> 1, j |-> 1, x |-> ValuesAt(p, 1), y |-> ValuesAt(q, 1), apart |-> 0]
      merged[k \in 0 .. Len(p) + Len(q)] ==
        IF k = 0 THEN first ELSE MergeStep(p, q, SumOf(source), SumOf(target), merged[k - 1])
  IN  IF source = <<>> \/ target = <<>> THEN FarApart(source, target)
      ELSE merged[Len(p) + Len(q)].apart
=============================================================================
