----------------------------- MODULE TableGraph -----------------------------
(***************************************************************************)
(* The tables of a schema and what they reference, as the orchestrator     *)
(* discovers them (orchestration/MasterRun.py), and the notions the order  *)
(* of generation is judged by.                                             *)
(*                                                                         *)
(* A table is a number, and the order of the numbers is that of the names. *)
(***************************************************************************)
EXTENDS Integers, SequencesExt

CONSTANTS
  Tables,       \* the tables of the source schema
  Outside       \* tables of other schemas that may be referenced

ASSUME TableGraphAssumption ==
  /\ Tables \subseteq Nat
  /\ IsFiniteSet(Tables)
  /\ Outside \cap Tables = {}

\* dependencies: for each table those that it references, itself left out.
Dependencies == {g \in [Tables -> SUBSET (Tables \cup Outside)] : \A t \in Tables : t \notin g[t]}

\* "Only consider dependencies within our table set".
Parents(g, t) == g[t] \cap Tables

\* A set that no order can start: each of its tables references another.
Stuck(g, S) == \A t \in S : Parents(g, t) \cap S # {}

\* t is on a cycle, or references a table that is, or so on.
BehindCycle(g, t) == \E S \in SUBSET Tables : t \in S /\ Stuck(g, S)

\* sorted(S): a set of tables in the order of their names.
ByName(S) ==
  CHOOSE s \in [1 .. Cardinality(S) -> S] : \A i, j \in DOMAIN s : i < j => s[i] < s[j]

\* Tables not placed yet whose parents all are.
Ready(g, placed) == {t \in Tables \ placed : Parents(g, t) \subseteq placed}

\* What may come at place i of an order, after what it has before: a table that
\* is ready, and as soon as none is, any of the rest.
Before(s, i) == {s[j] : j \in 1 .. i - 1}
Candidates(g, s, i) ==
  IF \A j \in 1 .. i : Ready(g, Before(s, j)) # {}
  THEN Ready(g, Before(s, i)) ELSE Tables \ Before(s, i)

\* The order that topological_sort returns: at each place the first by name.
TopologicalSort(g) ==
  CHOOSE s \in [1 .. Cardinality(Tables) -> Tables] :
    \A i \in DOMAIN s : s[i] = Min(Candidates(g, s, i))

\* The place of t in an order.
PlaceOf(order, t) == CHOOSE i \in DOMAIN order : order[i] = t
Precedes(order, d, t) == PlaceOf(order, d) < PlaceOf(order, t)
=============================================================================
