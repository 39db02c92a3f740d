----------------------------- MODULE TableOrder -----------------------------
(***************************************************************************)
(* The order in which the tables are generated: topological_sort of        *)
(* generation/GenerateDbgen.py, one action for each turn of its loop.      *)
(*                                                                         *)
(* The code sorts its queue before each pop, so the queue is a set here    *)
(* and its smallest table is popped.                                       *)
(***************************************************************************)
EXTENDS TableGraph

VARIABLES
  dependencies,
  in_degree,    \* for each table, its parents that are not in result yet
  queue,        \* the tables ready to be popped
  result,       \* the order so far
  pc            \* "sorting" or "done"

vars == <<dependencies, in_degree, queue, result, pc>>

Init ==
  /\ dependencies \in Dependencies
  /\ in_degree = [t \in Tables |-> Cardinality(Parents(dependencies, t))]
  /\ queue = {t \in Tables : in_degree[t] = 0}
  /\ result = <<>>
  /\ pc = "sorting"

\* Mutant: a table is ready as soon as one of its parents is placed.
LoweredToZero(current) ==
  [t \in Tables |-> IF current \in dependencies[t] THEN 0 ELSE in_degree[t]]

Lowered(current) ==
  [t \in Tables |-> IF current \in dependencies[t] THEN in_degree[t] - 1 ELSE in_degree[t]]

\* The dependents of current whose last parent it was.
NewlyReady(current) == {t \in Tables : current \in dependencies[t] /\ Lowered(current)[t] = 0}

\* Mutant: the last of the sorted queue is popped.
PoppedLast == Max(queue)

Popped == Min(queue)

Pop ==
  /\ pc = "sorting"
  /\ queue # {}
  /\ LET current == Popped IN
     /\ result' = Append(result, current)
     /\ in_degree' = Lowered(current)
     /\ queue' = (queue \ {current}) \cup NewlyReady(current)
  /\ UNCHANGED <<dependencies, pc>>

Remaining == Tables \ ToSet(result)

\* What is left when the queue runs empty is added in the order of the names.
AddRemaining ==
  /\ pc = "sorting"
  /\ queue = {}
  /\ result' = result \o ByName(Remaining)
  /\ pc' = "done"
  /\ UNCHANGED <<dependencies, in_degree, queue>>

Terminated == pc = "done" /\ UNCHANGED vars

Next == Pop \/ AddRemaining \/ Terminated

Spec == Init /\ [][Next]_vars
----------------------------------------------------------------------------
(* Properties.                                                             *)

\* The loop computes the set-based definition that MasterRun uses.
SortAgrees == pc = "done" => result = TopologicalSort(dependencies)

\* A table that is not behind a cycle comes after every table it references
\* ("Sort tables in dependency order").
ParentsFirst ==
  pc = "done" =>
    \A t \in Tables : ~ BehindCycle(dependencies, t) =>
      \A d \in Parents(dependencies, t) : Precedes(result, d, t)
=============================================================================
