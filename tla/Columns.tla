------------------------------- MODULE Columns -------------------------------
(* One column of a table on its way through GenerateDbgen and after it:      *)
(* annotate_table_with_histogram has the histogram built, chooses the        *)
(* formula of the column by what the column is, and the engine gives the     *)
(* rows their values.  What is generated is then compared with the source,   *)
(* and a query on the source is rewritten for it.                            *)
EXTENDS FkColumn, LiteralMapping, ShapeDifference

CONSTANT Inputs   \* the source columns that are followed

\* No value has no rows, a key has no NULL and no value twice, only a foreign key
\* is asked for its zeroes, where 0 is no key of the referenced table, and only
\* dates may have a value without a place in the calendar.
SourceColumns ==
  {c \in [kind : {"fk", "key", "key part", "string", "text", "date", "time", "year",
                  "enum", "number", "other"},
          freq : Seq(Nat \ {0}), null : Nat, zero : Nat, low : Int, size : Nat,
          estimate : Nat \cup {None}, span : Nat \cup {None}, length : Nat, rows : Nat] :
     /\ c.zero > 0 => c.kind = "fk" /\ 0 \notin Referenced(c)
     /\ c.kind \in {"key", "key part"} => c.null = 0
     /\ c.kind = "key" => Range(c.freq) \subseteq {1}
     /\ c.kind = "year" => c.span \in Nat}

ASSUME InputsAssumption == Inputs \subseteq SourceColumns

VARIABLES
  column,      \* the source column, see SourceColumn
  histogram,   \* its histogram in the source, or None
  values,      \* for each row the values it may get; None if no formula
  difference,  \* what the validation finds, or None
  query,       \* a literal of a query and what it was rewritten to, or None
  pc

vars == <<column, histogram, values, difference, query, pc>>

-----------------------------------------------------------------------------
(* Keys.  A column that is the key counts the rows from the least key of the *)
(* source; the one column of a composite key that is no foreign key groups   *)
(* the rows if there are enough of them for each value.                      *)
KeyColumn(c) == Sure([r \in 1 .. c.rows |-> c.low + r - 1])

PartOfRowUncapped(c, per, r) ==
  IF per >= 2 THEN (r - 1) \div per ELSE (r - 1) % Distinct(c)
PartOfRow(c, per, r) ==
  IF per >= 2 THEN ((r - 1) \div per) % Distinct(c) ELSE (r - 1) % Distinct(c)

KeyPartColumn(c) ==
  IF Distinct(c) = 0 THEN Sure([r \in 1 .. c.rows |-> r])
  ELSE LET per == Total(c) \div Distinct(c)
       IN  Sure([r \in 1 .. c.rows |-> c.low + PartOfRow(c, per, r)])

Formula(c, h) ==
  CASE c.kind = "fk"               -> FkColumn(c, h)
    [] c.kind = "key"              -> KeyColumn(c)
    [] c.kind = "key part"         -> KeyPartColumn(c)
    [] c.kind = "string"           -> StringColumn(c, h)
    [] c.kind = "text"             -> AnyOf({Random}, c.rows)
    [] c.kind \in {"date", "time"} -> DateColumn(c, h)
    [] c.kind = "year"             -> YearColumn(c)
    [] c.kind = "enum"             -> EnumColumn(c)
    [] c.kind = "number"           -> NumberColumn(c, h)
    [] c.kind = "other"            -> None

\* The types that analyze_and_update_histograms asks for.
HasHistogram(c) == c.kind \notin {"text", "year", "enum", "other"}

-----------------------------------------------------------------------------
\* Every row has one value, whatever the random numbers are.
Determined(vs) == vs # None /\ \A r \in DOMAIN vs : Cardinality(vs[r]) = 1
Generated(vs)  == (UNION Range(vs)) \ {None}
RowsWith(vs, v) == Cardinality({r \in DOMAIN vs : vs[r] = {v}})

\* The rows that are the first with their value, if that is no NULL.
FirstRows(vs) ==
  {r \in DOMAIN vs : vs[r] # {None} /\ \A q \in 1 .. r - 1 : vs[q] # vs[r]}

\* The rows of each value that is no NULL, one value after the other.
Frequencies(vs) ==
  LET first  == FirstRows(vs)
      Nth(k) == CHOOSE r \in first : Cardinality({q \in first : q <= r}) = k
  IN  [k \in 1 .. Cardinality(first) |->
         Cardinality({q \in DOMAIN vs : vs[q] = vs[Nth(k)]})]

\* _unique_cardinality_shape_diff: as many rows, and a value for each of them.
UniqueInBoth(c, vs) ==
  /\ c.rows = Total(c) /\ c.rows > 0
  /\ Len(AllValues(c)) = c.rows /\ Cardinality(Generated(vs)) = c.rows

Init ==
  /\ column \in Inputs
  /\ histogram = None /\ values = None /\ difference = None /\ query = None
  /\ pc = "analyze"

Analyze ==
  /\ pc = "analyze"
  /\ histogram' \in (IF HasHistogram(column) THEN Histograms(column) ELSE {None})
  /\ pc' = "annotate"
  /\ UNCHANGED <<column, values, difference, query>>

Generate ==
  /\ pc = "annotate"
  /\ values' = Formula(column, histogram)
  /\ pc' = "generated"
  /\ UNCHANGED <<column, histogram, difference, query>>

\* The exact comparison, which asks for nothing but the two columns.  It takes the
\* place of that of the histograms on TiDB, if these are apart by 0.05 and there
\* are not too many values, and if it is below 0.05 itself.
Validate ==
  /\ pc = "generated" /\ Determined(values) /\ difference = None
  /\ difference' = IF UniqueInBoth(column, values) THEN 0
                   ELSE FrequencyShapeDifference(AllValues(column), Frequencies(values))
  /\ UNCHANGED <<column, histogram, values, query, pc>>

\* Another column of the mapping may have an entry for the same literal.
RewriteQuery ==
  /\ pc = "generated" /\ column.kind = "string" /\ query = None
  /\ \E v \in DOMAIN column.freq :
       \E others \in {{}, {[source |-> v, target |-> Random]}} :
         query' = [literal |-> v, elsewhere |-> others # {},
                   target |-> Rewritten(Entries(column, histogram) \cup others, v)]
  /\ UNCHANGED <<column, histogram, values, difference, pc>>

Next == Analyze \/ Generate \/ Validate \/ RewriteQuery
Spec == Init /\ [][Next]_vars

-----------------------------------------------------------------------------
(* Every key that a foreign key column may take is a key of the referenced   *)
(* table, or the NULL or 0 that the source has too: on whichever path, for   *)
(* any number of rows, if the target has at least the keys the source uses.  *)
FkValuesExist ==
  column.kind = "fk" /\ values # None
      /\ Distinct(column) \in 1 .. column.size =>
    UNION Range(values) \subseteq
      Referenced(column) \cup (IF column.null > 0 THEN {None} ELSE {})
                         \cup (IF column.zero > 0 THEN {0} ELSE {})

(* The paths that are to keep the shape do: the frequencies of the generated *)
(* values are those of the source, NULL apart.  The frequencies of strings   *)
(* have been rounded twice, so they must be few for the precision.           *)
ShapeExact(c, h) ==
  /\ c.rows = Total(c)
  /\ \/ c.kind = "fk" /\ ~Estimated(c)
        /\ (ExactApplies(c) \/ FrequencyShapeApplies(c))
     \/ c.kind \in {"number", "date", "time"} /\ ExactCountsApply(c)
     \/ c.kind = "string" /\ c.null = 0 /\ Digits(Distinct(c)) <= c.length
          /\ IsSingleton(h) /\ Len(h.buckets) = Distinct(c)
          /\ 2 * Distinct(c) * Total(c) <= Units
FrequenciesKept ==
  ShapeExact(column, histogram) /\ difference # None => difference = 0

(* No formula without random values gives a column more values than the      *)
(* source has, although counts of buckets are rounded, guessed, scaled and   *)
(* shared out.  The one exception are dates and times of nearly as many      *)
(* values as rows: they count the rows over the range of the source, and may *)
(* get a ninth more values than it has, one for each row.                    *)
NoNewDistinct ==
  values # None /\ Determined(values) /\ column.rows <= Total(column)
      /\ ~Estimated(column) =>
    LET given == Cardinality(Generated(values))
        known == AtLeast(1, Len(AllValues(column)))
    IN  IF OverRange(column, histogram) THEN 9 * given <= 10 * known
                                        ELSE given <= known

(* The buckets of an equi-height histogram share out exactly the distinct    *)
(* values of the source, and each of them is given one at least.             *)
BucketsShareValues ==
  IsEquiHeight(histogram) /\ column.kind \in {"number", "string"} =>
    LET counts == IF column.kind = "number" THEN NumberDistincts(column, histogram)
                  ELSE StringDistincts(column, histogram)
    IN  SumOf(counts) = Distinct(column) /\ \A b \in DOMAIN counts : counts[b] > 0

(* The merge of the groups finds what the definition by sorted masses does,  *)
(* and so does the comparison of unique columns: whatever the columns are,   *)
(* also where one of them has no values at all.                              *)
DifferencesAgree ==
  difference # None =>
    difference = HistogramDifference(AllValues(column), Frequencies(values))

(* A rewritten literal selects as many rows of the target as the literal     *)
(* does of the source, if the histogram has a bucket for each value and the  *)
(* strings are long enough for the ordinals.                                 *)
RewrittenSelectsSame ==
  query # None /\ ShapeExact(column, histogram) =>
    IF query.elsewhere THEN query.target = None
    ELSE RowsWith(values, query.target) = column.freq[query.literal]
=============================================================================
