---------------------------- MODULE SourceColumn ----------------------------
(* A column of a source table, as the counts that the queries of             *)
(* GenerateDbgen return of it.  It is a record of                            *)
(*   kind      what annotate_table_with_histogram takes it for               *)
(*   freq      rows of each value, in the order of the values                *)
(*   null      rows with NULL                                                *)
(*   zero      rows with 0, where 0 is no key of the referenced table        *)
(*   low       least value; of a foreign key, the least referenced key       *)
(*   size      rows of the referenced table, whose keys are consecutive      *)
(*   estimate  source_distinct_override with prefer_cycling, or None         *)
(*   span      greatest value less the least, of a date                      *)
(*   length    of its strings                                                *)
(*   rows      rows to generate: those of the source, or --rows              *)
(* and of its histogram in information_schema.column_statistics.             *)
EXTENDS RowCase

CONSTANTS
  None,      \* NULL, and what is not there
  Buckets,   \* WITH n BUCKETS of ANALYZE TABLE
  Units      \* 1 / Units is the precision that weights are rounded to

ASSUME ColumnAssumption == {Buckets, Units} \subseteq Nat \ {0}

Distinct(c) == Len(c.freq)
Total(c)    == c.null + c.zero + SumOf(c.freq)
Rate(part, whole, over) == (part * over) \div whole

\* The rows of each value, 0 included.
AllValues(c) == (IF c.zero > 0 THEN <<c.zero>> ELSE <<>>) \o c.freq

-----------------------------------------------------------------------------
(* A histogram: its type and, for each bucket, its first value, the rows     *)
(* sampled of it, the number of its values and the server's guess of that.   *)
(* A singleton histogram has a bucket for each value the sample has found.   *)
Bucket(first, rows, values, distinct) ==
  [first |-> first, rows |-> rows, values |-> values, distinct |-> distinct]

SingletonHistograms(c) ==
  {[type |-> "singleton",
    buckets |-> [b \in 1 .. Cardinality(S) |->
                   LET v == Min({v \in S : Cardinality({u \in S : u <= v}) >= b})
                   IN  Bucket(v, AllValues(c)[v], 1, 1)]] :
     S \in {S \in SUBSET DOMAIN AllValues(c) : Cardinality(S) \in 1 .. Buckets}}

\* last[b] is the last value of bucket b.
EquiHeightHistograms(c) ==
  LET n == Len(AllValues(c))
      Cuts == {last \in [1 .. Buckets -> 1 .. n] :
                 last[Buckets] = n /\ \A b \in 1 .. Buckets - 1 : last[b] < last[b + 1]}
      First(last, b) == IF b = 1 THEN 1 ELSE last[b - 1] + 1
  IN  {[type |-> "equi-height",
        buckets |-> [b \in 1 .. Buckets |->
                       Bucket(First(last, b),
                              SumOf(SubSeq(AllValues(c), First(last, b), last[b])),
                              last[b] - First(last, b) + 1,
                              IF First(last, b) = last[b] THEN 1 ELSE guess[b])]] :
         last \in Cuts, guess \in [1 .. Buckets -> 1 .. n]}

\* The server builds none of a column that is a unique index by itself, and
\* one without buckets of a column of NULLs, which the code takes for none.
Histograms(c) ==
  {None}
    \cup (IF AllValues(c) = <<>> THEN {} ELSE SingletonHistograms(c))
    \cup (IF Len(AllValues(c)) > Buckets THEN EquiHeightHistograms(c) ELSE {})

IsSingleton(h)  == h # None /\ h.type = "singleton"
IsEquiHeight(h) == h # None /\ h.type = "equi-height"

RowsOf(h)       == [b \in DOMAIN h.buckets |-> h.buckets[b].rows]
DistinctsOf(h)  == [b \in DOMAIN h.buckets |-> h.buckets[b].distinct]

\* The weights: the cumulative frequencies, one less the other, rounded.
Weights(c, h) ==
  [b \in DOMAIN h.buckets |->
     RoundDiv(h.buckets[b].rows * Units, c.null + SumOf(RowsOf(h)))]
=============================================================================
