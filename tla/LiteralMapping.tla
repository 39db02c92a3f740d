--------------------------- MODULE LiteralMapping ---------------------------
(* validation/literal_mapping.py: which synthetic string stands for a string *)
(* of the source, and how a literal of a query is rewritten for the target.  *)
(* A source literal is the number of its value in the order of the values.   *)
EXTENDS HistogramColumn

\* The entries of a column: the first value of each bucket, by rank.
EntriesByBucket(c, h) ==
  IF h = None THEN {}
  ELSE {[source |-> h.buckets[i].first, target |-> Synthetic(i, c.length)] :
          i \in DOMAIN h.buckets}
Entries(c, h) ==
  IF h = None THEN {}
  ELSE {[source |-> h.buckets[RankedBuckets(c, h)[i]].first,
         target |-> Synthetic(i, c.length)] : i \in DOMAIN h.buckets}

\* unique_literal_index over this column and the other columns of the mapping.
Targets(entries, literal) == {e.target : e \in {e \in entries : e.source = literal}}

\* A literal with one target is replaced, an ambiguous or unknown one is kept.
Rewritten(entries, literal) ==
  LET targets == Targets(entries, literal)
  IN  IF Cardinality(targets) = 1 THEN CHOOSE t \in targets : TRUE ELSE None
=============================================================================
