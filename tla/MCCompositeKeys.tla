--------------------------- MODULE MCCompositeKeys ---------------------------
(* Every parent table over a grid of key tuples, up to renaming the values   *)
(* of the first column, and every child table that references it.            *)
EXTENDS CompositeKeys

CONSTANT Grid   \* the values 1 .. Grid[c] of column c

\* One of the tables that differ in the names of their first column only.
Canonical(tuples) ==
  \A v \in 1 .. Grid[1] - 1 :
    Cardinality({t \in tuples : t[1] = v}) >= Cardinality({t \in tuples : t[1] = v + 1})

MCPairs   == {p \in SUBSET ((1 .. Grid[1]) \X (1 .. Grid[2])) : p # {} /\ Canonical(p)}
MCTriples == {p \in SUBSET ((1 .. 2) \X (1 .. 2) \X (1 .. 3)) : p # {} /\ Cardinality(p) <= 6}
MCParents(l) == MCPairs \cup (IF l = "plain" THEN MCTriples ELSE {})

\* A child with the reference in its key takes some of the parent's tuples, or
\* some of them once or twice with a further column; of one with the reference
\* outside its key only the number of rows matters.
MCLongerKeys(tuples) ==
  IF Cardinality(tuples) > 3 THEN {}
  ELSE SUBSET {<<t[1], t[2], k>> : t \in tuples, k \in 1 .. 2}

MCChildren(tuples) ==
  {[inKey |-> FALSE, keys |-> {}, rows |-> n] :
     n \in {0} \cup (IF tuples \in MCPairs THEN {1, 2 * Cardinality(tuples)} ELSE {})}
    \cup (IF tuples \notin MCPairs THEN {}
          ELSE {[inKey |-> TRUE, keys |-> keys, rows |-> Cardinality(keys)] :
                  keys \in (SUBSET tuples \cup MCLongerKeys(tuples)) \ {{}}})

MCGrid == <<3, 3>>
=============================================================================
