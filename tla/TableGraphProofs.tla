-------------------------- MODULE TableGraphProofs --------------------------
(***************************************************************************)
(* Facts about TableGraph, for any finite schema: the set-based order      *)
(* TopologicalSort exists, is unique, places every table once, and places  *)
(* a table that is not behind a cycle after every table it references.     *)
(***************************************************************************)
EXTENDS TableGraph, FiniteSetTheorems, WellFoundedInduction, TLAPS

-----------------------------------------------------------------------------
(* Least elements, which stand in for induction.                             *)

LEMMA LeastExists ==
  ASSUME NEW T \in SUBSET Nat, T # {}
  PROVE  \E x \in T : \A y \in T : x <= y
<1> DEFINE R == OpToRel(<, Nat)
<1>1. IsWellFoundedOn(R, Nat)
  BY NatLessThanWellFounded
<1>2. \E x \in T : \A y \in T : ~ (<<y, x>> \in R)
  <2> HIDE DEF R
  <2>. QED BY <1>1, WFMin
<1>3. \A x, y \in Nat : y < x => <<y, x>> \in R
  BY DEF OpToRel
<1>4. PICK x \in T : \A y \in T : ~ (<<y, x>> \in R)
  BY <1>2
<1>5. ASSUME NEW y \in T PROVE x <= y
  <2>1. x \in Nat /\ y \in Nat
    OBVIOUS
  <2> HIDE DEF R
  <2>2. ~ (y < x)
    BY <1>3, <1>4, <2>1
  <2>. QED BY <2>1, <2>2
<1>. QED BY <1>5

LEMMA LeastElement ==
  ASSUME NEW T \in SUBSET Nat, T # {}
  PROVE  Min(T) \in T /\ \A y \in T : Min(T) <= y
BY LeastExists DEF Min

\* What is the least of a set is its Min.
LEMMA LeastIsMin ==
  ASSUME NEW T \in SUBSET Nat, NEW x \in T, \A y \in T : x <= y
  PROVE  x = Min(T)
<1>1. Min(T) \in T /\ \A y \in T : Min(T) <= y
  BY LeastElement
<1>2. x \in Nat /\ Min(T) \in Nat /\ x <= Min(T) /\ Min(T) <= x
  BY <1>1
<1>. QED BY <1>2

-----------------------------------------------------------------------------
(* ByName.                                                                   *)

Increasing(s) == \A i, j \in DOMAIN s : i < j => s[i] < s[j]

\* Every finite set of numbers can be sorted.
LEMMA Sortable ==
  ASSUME NEW S \in SUBSET Nat, IsFiniteSet(S)
  PROVE  \E s \in [1 .. Cardinality(S) -> S] : Increasing(s)
<1> DEFINE Sorted(U) == \E s \in [1 .. Cardinality(U) -> U] : Increasing(s)
           Sizes == {n \in Nat : \E U \in SUBSET Nat :
                       IsFiniteSet(U) /\ Cardinality(U) = n /\ ~ Sorted(U)}
<1>1. SUFFICES ASSUME Sizes # {} PROVE FALSE
  <2>1. Cardinality(S) \in Nat
    BY FS_CardinalityType
  <2>. QED BY <1>1, <2>1
<1>2. PICK n \in Sizes : \A m \in Sizes : n <= m
  <2>1. Sizes \in SUBSET Nat
    OBVIOUS
  <2> HIDE DEF Sizes
  <2>. QED BY <1>1, <2>1, LeastExists
<1>3. PICK U \in SUBSET Nat : IsFiniteSet(U) /\ Cardinality(U) = n /\ ~ Sorted(U)
  OBVIOUS
<1>4. U # {}
  <2>1. SUFFICES ASSUME U = {} PROVE FALSE
    OBVIOUS
  <2>2. Cardinality(U) = 0
    BY <2>1, FS_EmptySet
  <2>3. [i \in {} |-> i] \in [1 .. 0 -> {}] /\ Increasing([i \in {} |-> i])
    BY DEF Increasing
  <2>. QED BY <1>3, <2>1, <2>2, <2>3
<1> DEFINE x == Min(U)
           V == U \ {x}
<1>5. x \in U /\ \A y \in U : x <= y
  BY <1>4, LeastElement
<1>6. IsFiniteSet(V) /\ Cardinality(V) = n - 1
  BY <1>3, <1>5, FS_RemoveElement
<1>7. n \in Nat \ {0}
  BY <1>3, <1>4, FS_EmptySet
<1>8. Sorted(V)
  <2>1. n - 1 \in Nat /\ n - 1 \notin Sizes
    BY <1>2, <1>7
  <2>2. V \in SUBSET Nat
    OBVIOUS
  <2>. QED BY <1>6, <2>1, <2>2
<1>9. PICK s \in [1 .. n - 1 -> V] : Increasing(s)
  BY <1>6, <1>8
<1> DEFINE u == [i \in 1 .. n |-> IF i = 1 THEN x ELSE s[i - 1]]
<1>10. \A i \in 2 .. n : i - 1 \in 1 .. n - 1 /\ u[i] = s[i - 1] /\ s[i - 1] \in V
  BY <1>7, <1>9
<1>11. u \in [1 .. n -> U]
  BY <1>5, <1>7, <1>10
<1>12. Increasing(u)
  <2>1. SUFFICES ASSUME NEW i \in 1 .. n, NEW j \in 1 .. n, i < j PROVE u[i] < u[j]
    BY DEF Increasing
  <2>2. j \in 2 .. n
    BY <2>1, <1>7
  <2>3. CASE i = 1
    <3>1. u[i] = x /\ u[j] = s[j - 1] /\ s[j - 1] \in V
      BY <2>2, <2>3, <1>7, <1>10
    <3>2. x <= s[j - 1] /\ x # s[j - 1] /\ x \in Nat /\ s[j - 1] \in Nat
      BY <3>1, <1>5
    <3> HIDE DEF x, u
    <3>. QED BY <3>1, <3>2
  <2>4. CASE i # 1
    <3>1. i \in 2 .. n /\ i - 1 < j - 1
      BY <2>1, <2>4, <1>7
    <3>2. s[i - 1] < s[j - 1]
      BY <1>9, <1>10, <2>2, <3>1 DEF Increasing
    <3>. QED BY <3>1, <3>2, <2>2, <1>10
  <2>. QED BY <2>3, <2>4
<1>. QED BY <1>3, <1>11, <1>12

\* An injective enumeration of as many elements as the set has reaches all.
LEMMA Enumerates ==
  ASSUME NEW S, IsFiniteSet(S), NEW s \in [1 .. Cardinality(S) -> S],
         \A i, j \in DOMAIN s : i # j => s[i] # s[j]
  PROVE  \A x \in S : \E i \in DOMAIN s : s[i] = x
<1>1. Cardinality(S) \in Nat
  BY FS_CardinalityType
<1>2. Cardinality(1 .. Cardinality(S)) = Cardinality(S)
  BY <1>1, FS_Interval
<1>3. s \in Injection(1 .. Cardinality(S), S)
  BY DEF Injection, IsInjective
<1>4. s \in Surjection(1 .. Cardinality(S), S)
  BY <1>2, <1>3, FS_Injection
<1>. QED BY <1>4 DEF Surjection

\* ByName sorts a set of tables: all of it, in the order of the names.
LEMMA ByNameSorts ==
  ASSUME NEW S \in SUBSET Nat, IsFiniteSet(S)
  PROVE  /\ Cardinality(S) \in Nat
         /\ ByName(S) \in [1 .. Cardinality(S) -> S]
         /\ Increasing(ByName(S))
         /\ \A x \in S : \E i \in 1 .. Cardinality(S) : ByName(S)[i] = x
<1> DEFINE s == ByName(S)
<1>1. Cardinality(S) \in Nat
  BY FS_CardinalityType
<1>2. s \in [1 .. Cardinality(S) -> S] /\ Increasing(s)
  BY Sortable DEF ByName, Increasing
<1>3. \A i, j \in DOMAIN s : i # j => s[i] # s[j]
  <2> HIDE DEF s
  <2>1. ASSUME NEW i \in DOMAIN s PROVE i \in Nat /\ s[i] \in Nat
    <3>1. DOMAIN s = 1 .. Cardinality(S)
      BY <1>2
    <3>2. s[i] \in S
      BY <1>2, <3>1
    <3>3. i \in 1 .. Cardinality(S)
      BY <3>1
    <3>4. i \in Nat
      BY <1>1, <3>3
    <3>5. s[i] \in Nat
      BY <3>2
    <3>. QED BY <3>4, <3>5
  <2>2. \A i, j \in DOMAIN s : i < j => s[i] < s[j]
    BY <1>2 DEF Increasing
  <2>3. ASSUME NEW i \in DOMAIN s, NEW j \in DOMAIN s, i # j PROVE s[i] # s[j]
    <3>1. i < j \/ j < i
      BY <2>1, <2>3
    <3>. QED BY <2>1, <2>2, <3>1
  <2>. QED BY <2>3
<1>4. \A x \in S : \E i \in DOMAIN s : s[i] = x
  <2> HIDE DEF s
  <2>. QED BY <1>2, <1>3, Enumerates
<1>. QED BY <1>1, <1>2, <1>4

-----------------------------------------------------------------------------
(* TopologicalSort.                                                          *)

LEMMA BeforeBounded ==
  ASSUME NEW n \in Nat, NEW s \in [1 .. n -> Tables], NEW i \in 1 .. n + 1
  PROVE  /\ Before(s, i) \subseteq Tables
         /\ IsFiniteSet(Before(s, i))
         /\ Cardinality(Before(s, i)) <= i - 1
<1> DEFINE f == [j \in 1 .. i - 1 |-> s[j]]
<1>1. \A j \in 1 .. i - 1 : j \in 1 .. n
  OBVIOUS
<1>2. Before(s, i) \subseteq Tables
  BY <1>1 DEF Before
<1>3. IsFiniteSet(Before(s, i))
  BY <1>2, TableGraphAssumption, FS_Subset
<1>4. f \in Surjection(1 .. i - 1, Before(s, i))
  BY DEF Surjection, Before
<1>5. Cardinality(Before(s, i)) <= i - 1
  <2>1. i - 1 \in Nat
    OBVIOUS
  <2>. QED BY <1>4, <2>1, FS_SurjCardinalityBound DEF ExistsSurjection
<1>. QED BY <1>2, <1>3, <1>5

\* What may come at place i depends on the places before it only.
LEMMA CandidatesSame ==
  ASSUME NEW g, NEW s, NEW u, NEW i \in Nat,
         \A j \in 1 .. i - 1 : s[j] = u[j]
  PROVE  Candidates(g, s, i) = Candidates(g, u, i)
<1>1. ASSUME NEW j \in 1 .. i PROVE Before(s, j) = Before(u, j)
  <2>1. \A k \in 1 .. j - 1 : k \in 1 .. i - 1
    OBVIOUS
  <2>. QED BY <2>1 DEF Before
<1>2. CASE i = 0
  <2>1. 1 .. i = {} /\ 1 .. i - 1 = {}
    BY <1>2
  <2>2. Before(s, i) = {} /\ Before(u, i) = {}
    BY <2>1 DEF Before
  <2>. QED BY <2>1, <2>2 DEF Candidates
<1>3. CASE i # 0
  <2>1. i \in 1 .. i
    BY <1>3
  <2>. QED BY <1>1, <2>1 DEF Candidates
<1>. QED BY <1>2, <1>3

LEMMA CandidatesNew ==
  ASSUME NEW g, NEW s, NEW i
  PROVE  Candidates(g, s, i) \subseteq Tables \ Before(s, i)
BY DEF Candidates, Ready

\* The first n places of an order, each the first by name of its candidates.
IsOrder(g, s, n) ==
  /\ s \in [1 .. n -> Tables]
  /\ \A i \in 1 .. n : /\ s[i] \in Candidates(g, s, i)
                        /\ s[i] = Min(Candidates(g, s, i))

\* As long as tables are left, some may come next.
LEMMA CandidatesLeft ==
  ASSUME NEW g, NEW n \in Nat, n < Cardinality(Tables), NEW s \in [1 .. n -> Tables]
  PROVE  Candidates(g, s, n + 1) # {}
<1>1. Tables \ Before(s, n + 1) # {}
  <2>1. Cardinality(Before(s, n + 1)) <= n /\ Before(s, n + 1) \subseteq Tables
        /\ IsFiniteSet(Before(s, n + 1))
    BY BeforeBounded
  <2>2. Cardinality(Before(s, n + 1)) \in Nat /\ Cardinality(Tables) \in Nat
    BY <2>1, TableGraphAssumption, FS_CardinalityType
  <2>3. Before(s, n + 1) # Tables
    BY <2>1, <2>2
  <2>. QED BY <2>1, <2>3
<1>2. n + 1 \in 1 .. n + 1
  OBVIOUS
<1>. QED BY <1>1, <1>2 DEF Candidates

LEMMA OrderExists ==
  ASSUME NEW g, NEW n \in 0 .. Cardinality(Tables)
  PROVE  \E s : IsOrder(g, s, n)
<1> DEFINE Missing == {m \in Nat : m <= Cardinality(Tables) /\ ~ \E s : IsOrder(g, s, m)}
<1>1. Cardinality(Tables) \in Nat
  BY TableGraphAssumption, FS_CardinalityType
<1>2. SUFFICES ASSUME Missing # {} PROVE FALSE
  BY <1>1
<1>3. PICK m \in Missing : \A k \in Missing : m <= k
  <2>1. Missing \in SUBSET Nat
    OBVIOUS
  <2> HIDE DEF Missing
  <2>. QED BY <1>2, <2>1, LeastExists
<1>4. m \in Nat /\ m <= Cardinality(Tables) /\ ~ \E s : IsOrder(g, s, m)
  OBVIOUS
<1>5. m # 0
  <2>1. SUFFICES ASSUME m = 0 PROVE FALSE
    OBVIOUS
  <2>2. [i \in {} |-> i] \in [1 .. 0 -> Tables] /\ 1 .. 0 = {}
    OBVIOUS
  <2>3. IsOrder(g, [i \in {} |-> i], 0)
    BY <2>2 DEF IsOrder
  <2>. QED BY <1>4, <2>1, <2>3
<1> DEFINE k == m - 1
<1>6. k \in Nat /\ k < Cardinality(Tables) /\ m = k + 1
  BY <1>1, <1>4, <1>5
<1>7. PICK s : IsOrder(g, s, k)
  <2>1. k \notin Missing
    BY <1>3, <1>6
  <2>. QED BY <1>1, <1>6, <2>1
<1> HIDE DEF k
<1> DEFINE C == Candidates(g, s, m)
           u == [i \in 1 .. m |-> IF i = m THEN Min(C) ELSE s[i]]
<1>8. Min(C) \in C /\ C \subseteq Tables
  <2>1. C # {}
    BY <1>6, <1>7, CandidatesLeft DEF IsOrder
  <2>2. C \subseteq Tables
    BY CandidatesNew
  <2>3. C \in SUBSET Nat
    BY <2>2, TableGraphAssumption
  <2> HIDE DEF C
  <2>. QED BY <2>1, <2>2, <2>3, LeastElement
<1>9. \A i \in 1 .. k : i \in 1 .. m /\ i # m /\ u[i] = s[i]
  BY <1>6
<1>10. \A i \in 1 .. m : i = m \/ i \in 1 .. k
  BY <1>6
<1>11. u \in [1 .. m -> Tables]
  <2>1. \A i \in 1 .. k : s[i] \in Tables
    BY <1>7 DEF IsOrder
  <2> HIDE DEF C
  <2>. QED BY <1>8, <1>10, <2>1
<1>12. ASSUME NEW i \in 1 .. m PROVE Candidates(g, u, i) = Candidates(g, s, i)
  <2>1. i \in Nat /\ \A j \in 1 .. i - 1 : j \in 1 .. k
    BY <1>6
  <2>2. \A j \in 1 .. i - 1 : u[j] = s[j]
    BY <1>9, <2>1
  <2> HIDE DEF u
  <2>. QED BY <2>1, <2>2, CandidatesSame
<1>13. u[m] = Min(C)
  BY <1>4, <1>5
<1>14. ASSUME NEW i \in 1 .. m
       PROVE  u[i] \in Candidates(g, u, i) /\ u[i] = Min(Candidates(g, u, i))
  <2>1. CASE i = m
    BY <1>8, <1>12, <1>13, <2>1
  <2>2. CASE i \in 1 .. k
    BY <1>7, <1>9, <1>12, <2>2 DEF IsOrder
  <2>. QED BY <1>10, <2>1, <2>2
<1>15. IsOrder(g, u, m)
  BY <1>11, <1>14 DEF IsOrder
<1>. QED BY <1>4, <1>15

LEMMA OrderUnique ==
  ASSUME NEW g, NEW n \in Nat,
         NEW s \in [1 .. n -> Tables], NEW u \in [1 .. n -> Tables],
         \A i \in 1 .. n : s[i] = Min(Candidates(g, s, i)),
         \A i \in 1 .. n : u[i] = Min(Candidates(g, u, i))
  PROVE  s = u
<1> DEFINE Differ == {i \in 1 .. n : s[i] # u[i]}
<1>1. SUFFICES ASSUME Differ # {} PROVE FALSE
  OBVIOUS
<1>2. PICK i \in Differ : \A j \in Differ : i <= j
  <2>1. Differ \in SUBSET Nat
    OBVIOUS
  <2> HIDE DEF Differ
  <2>. QED BY <1>1, <2>1, LeastExists
<1>3. i \in 1 .. n /\ i \in Nat
  OBVIOUS
<1>4. \A j \in 1 .. i - 1 : s[j] = u[j]
  BY <1>2, <1>3
<1>5. Candidates(g, s, i) = Candidates(g, u, i)
  BY <1>3, <1>4, CandidatesSame
<1>. QED BY <1>3, <1>5

\* An order of all the tables is the one that TopologicalSort chooses.
LEMMA OrderIsSort ==
  ASSUME NEW g, NEW s, IsOrder(g, s, Cardinality(Tables))
  PROVE  s = TopologicalSort(g)
<1> DEFINE n == Cardinality(Tables)
           t == TopologicalSort(g)
<1>1. n \in Nat
  BY TableGraphAssumption, FS_CardinalityType
<1>2. s \in [1 .. n -> Tables] /\ \A i \in 1 .. n : s[i] = Min(Candidates(g, s, i))
  BY DEF IsOrder
<1>3. DOMAIN s = 1 .. n
  BY <1>2
<1>4. t \in [1 .. n -> Tables] /\ \A i \in DOMAIN t : t[i] = Min(Candidates(g, t, i))
  BY <1>2, <1>3 DEF TopologicalSort
<1>. HIDE DEF n, t
<1>5. \A i \in 1 .. n : t[i] = Min(Candidates(g, t, i))
  BY <1>4
<1>6. s = t
  BY <1>1, <1>2, <1>4, <1>5, OrderUnique
<1>. QED BY <1>6 DEF t

LEMMA SortIsOrder ==
  ASSUME NEW g
  PROVE  /\ Cardinality(Tables) \in Nat
         /\ IsOrder(g, TopologicalSort(g), Cardinality(Tables))
<1>1. Cardinality(Tables) \in Nat
  BY TableGraphAssumption, FS_CardinalityType
<1>2. PICK s : IsOrder(g, s, Cardinality(Tables))
  BY <1>1, OrderExists
<1>3. s = TopologicalSort(g)
  BY <1>2, OrderIsSort
<1>. QED BY <1>1, <1>2, <1>3

LEMMA OrderInjective ==
  ASSUME NEW g, NEW s, NEW n \in Nat, IsOrder(g, s, n)
  PROVE  \A i, j \in 1 .. n : i # j => s[i] # s[j]
<1>1. ASSUME NEW i \in 1 .. n, NEW j \in 1 .. n, i < j PROVE s[i] # s[j]
  <2>1. s[i] \in Before(s, j)
    BY <1>1 DEF Before
  <2>. QED BY <2>1, CandidatesNew DEF IsOrder
<1>2. \A i, j \in 1 .. n : i # j => i < j \/ j < i
  OBVIOUS
<1>. QED BY <1>1, <1>2

\* topological_sort places every table once ("Add remaining tables (circular
\* dependencies) at the end"), on a cycle or not.
THEOREM SortPlacesEveryTable ==
  ASSUME NEW g
  PROVE  \A t \in Tables : \E i \in 1 .. Cardinality(Tables) :
           /\ TopologicalSort(g)[i] = t
           /\ \A j \in 1 .. Cardinality(Tables) : TopologicalSort(g)[j] = t => j = i
<1> DEFINE n == Cardinality(Tables)
           s == TopologicalSort(g)
<1>1. n \in Nat /\ IsOrder(g, s, n)
  BY SortIsOrder
<1>2. s \in [1 .. n -> Tables]
  BY <1>1 DEF IsOrder
<1> HIDE DEF s
<1>3. \A i, j \in 1 .. n : i # j => s[i] # s[j]
  BY <1>1, OrderInjective
<1>4. DOMAIN s = 1 .. n
  BY <1>2
<1>5. \A t \in Tables : \E i \in DOMAIN s : s[i] = t
  <2>1. \A i, j \in DOMAIN s : i # j => s[i] # s[j]
    BY <1>3, <1>4
  <2>. QED BY <1>2, <2>1, TableGraphAssumption, Enumerates
<1>6. \A t \in Tables : \E i \in 1 .. n : s[i] = t /\ \A j \in 1 .. n : s[j] = t => j = i
  BY <1>3, <1>4, <1>5
<1>. QED BY <1>6 DEF s

\* The parents of a table that is not behind a cycle are all before it.
LEMMA SortParentsBefore ==
  ASSUME NEW g, NEW n \in Nat, NEW s, IsOrder(g, s, n),
         NEW i \in 1 .. n, ~ BehindCycle(g, s[i])
  PROVE  Parents(g, s[i]) \subseteq Before(s, i)
<1>1. CASE \A j \in 1 .. i : Ready(g, Before(s, j)) # {}
  <2>1. s[i] \in Ready(g, Before(s, i))
    BY <1>1 DEF IsOrder, Candidates
  <2>. QED BY <2>1 DEF Ready
<1>2. ASSUME NEW j \in 1 .. i, Ready(g, Before(s, j)) = {} PROVE FALSE
  <2> DEFINE S == Tables \ Before(s, j)
  <2>1. s[i] \in S
    <3>1. s[i] \in Tables /\ \A k \in 1 .. j - 1 : k \in 1 .. n /\ k # i
      BY DEF IsOrder
    <3>2. \A k \in 1 .. j - 1 : s[k] # s[i]
      BY <3>1, OrderInjective
    <3>. QED BY <3>1, <3>2 DEF Before
  <2>2. ASSUME NEW t \in S PROVE Parents(g, t) \cap S # {}
    BY <1>2 DEF Ready, Parents
  <2>3. Stuck(g, S)
    BY <2>2 DEF Stuck
  <2>. QED BY <2>1, <2>3 DEF BehindCycle
<1>. QED BY <1>1, <1>2

\* A table that is not behind a cycle comes after every table it references.
THEOREM SortParentsFirst ==
  ASSUME NEW g
  PROVE  \A t \in Tables : ~ BehindCycle(g, t) =>
           \A d \in Parents(g, t) : Precedes(TopologicalSort(g), d, t)
<1> DEFINE n == Cardinality(Tables)
           s == TopologicalSort(g)
<1>1. n \in Nat /\ IsOrder(g, s, n)
  BY SortIsOrder
<1>2. s \in [1 .. n -> Tables]
  BY <1>1 DEF IsOrder
<1>3. \A t \in Tables : \E i \in 1 .. n : s[i] = t /\ \A j \in 1 .. n : s[j] = t => j = i
  BY SortPlacesEveryTable
<1> HIDE DEF s, n
<1>4. ASSUME NEW t \in Tables
      PROVE  PlaceOf(s, t) \in 1 .. n /\ \A j \in 1 .. n : s[j] = t <=> j = PlaceOf(s, t)
  <2>1. PICK i \in 1 .. n : s[i] = t /\ \A j \in 1 .. n : s[j] = t => j = i
    BY <1>3
  <2>2. PlaceOf(s, t) = i
    BY <1>2, <2>1 DEF PlaceOf
  <2>. QED BY <2>1, <2>2
<1>5. ASSUME NEW t \in Tables, ~ BehindCycle(g, t), NEW d \in Parents(g, t)
      PROVE  Precedes(s, d, t)
  <2>1. d \in Tables
    BY DEF Parents
  <2>2. s[PlaceOf(s, t)] = t /\ PlaceOf(s, t) \in 1 .. n
    BY <1>4
  <2>3. Parents(g, t) \subseteq Before(s, PlaceOf(s, t))
    BY <1>1, <1>5, <2>2, SortParentsBefore
  <2>4. PICK k \in 1 .. PlaceOf(s, t) - 1 : s[k] = d
    BY <2>3 DEF Before
  <2>5. k = PlaceOf(s, d)
    BY <1>1, <1>4, <2>1, <2>2, <2>4
  <2>. QED BY <2>2, <2>4, <2>5 DEF Precedes
<1>. QED BY <1>5 DEF s
=============================================================================
