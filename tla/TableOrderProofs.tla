-------------------------- MODULE TableOrderProofs --------------------------
(***************************************************************************)
(* Proofs about TableOrder, for any finite schema and any dependencies:    *)
(* topological_sort computes the set-based order TopologicalSort, and so   *)
(* it places a table that is not behind a cycle after all its parents.     *)
(***************************************************************************)
EXTENDS TableOrder, TableGraphProofs, SequenceTheorems

-----------------------------------------------------------------------------
(* The inductive invariant.                                                  *)

\* Each table was the first by name of those that were ready when it was popped.
PoppedInOrder ==
  /\ result \in Seq(Tables)
  /\ \A i \in 1 .. Len(result) :
       LET ready == Ready(dependencies, Before(result, i))
       IN  result[i] \in ready /\ result[i] = Min(ready)

\* in_degree counts the parents still to come, and queue has the tables
\* that wait for none.
CountsLeft ==
  /\ in_degree \in [Tables -> Nat]
  /\ \A t \in Tables : in_degree[t] = Cardinality(Parents(dependencies, t) \ ToSet(result))
  /\ queue = Ready(dependencies, ToSet(result))

IInv ==
  /\ dependencies \in Dependencies
  /\ pc \in {"sorting", "done"}
  /\ pc = "sorting" => PoppedInOrder /\ CountsLeft
  /\ pc = "done" => IsOrder(dependencies, result, Cardinality(Tables))

-----------------------------------------------------------------------------
(* The tables placed so far.                                                 *)

LEMMA PlacedIsBefore ==
  ASSUME NEW s \in Seq(Tables)
  PROVE  ToSet(s) = Before(s, Len(s) + 1) /\ ToSet(s) \subseteq Tables
<1>1. Len(s) \in Nat /\ DOMAIN s = 1 .. Len(s) /\ \A i \in 1 .. Len(s) : s[i] \in Tables
  BY LenProperties, ElementOfSeq
<1>2. (Len(s) + 1) - 1 = Len(s)
  BY <1>1
<1>. QED BY <1>1, <1>2 DEF ToSet, Before

\* A placed table was not there before, and has its parents placed.
LEMMA PlacedClosed ==
  ASSUME PoppedInOrder
  PROVE  /\ \A i, j \in 1 .. Len(result) : i # j => result[i] # result[j]
         /\ \A t \in ToSet(result) : Parents(dependencies, t) \subseteq ToSet(result)
<1>1. result \in Seq(Tables) /\ Len(result) \in Nat /\ DOMAIN result = 1 .. Len(result)
  BY LenProperties DEF PoppedInOrder
<1>2. ASSUME NEW i \in 1 .. Len(result), NEW j \in 1 .. Len(result), i < j
      PROVE  result[i] # result[j]
  <2>1. i \in 1 .. j - 1
    BY <1>2
  <2>2. result[i] \in Before(result, j)
    BY <2>1 DEF Before
  <2>. QED BY <2>2 DEF PoppedInOrder, Ready
<1>3. \A i, j \in 1 .. Len(result) : i # j => i < j \/ j < i
  BY <1>1
<1>4. ASSUME NEW i \in 1 .. Len(result)
      PROVE  Parents(dependencies, result[i]) \subseteq ToSet(result)
  <2>1. Parents(dependencies, result[i]) \subseteq Before(result, i)
    BY DEF PoppedInOrder, Ready
  <2>2. \A k \in 1 .. i - 1 : k \in 1 .. Len(result)
    BY <1>1
  <2>3. Before(result, i) \subseteq ToSet(result)
    BY <1>1, <2>2 DEF Before, ToSet
  <2>. QED BY <2>1, <2>3
<1>5. \A t \in ToSet(result) : \E i \in 1 .. Len(result) : t = result[i]
  BY <1>1 DEF ToSet
<1>. QED BY <1>2, <1>3, <1>4, <1>5

LEMMA PlacedCounted ==
  ASSUME PoppedInOrder
  PROVE  Cardinality(ToSet(result)) = Len(result)
<1>1. result \in Seq(Tables) /\ Len(result) \in Nat /\ DOMAIN result = 1 .. Len(result)
  BY LenProperties DEF PoppedInOrder
<1>2. \A i, j \in 1 .. Len(result) : i # j => result[i] # result[j]
  BY PlacedClosed
<1>3. result \in [1 .. Len(result) -> ToSet(result)]
  BY <1>1, LenProperties DEF ToSet
<1>4. result \in Injection(1 .. Len(result), ToSet(result))
  BY <1>1, <1>2, <1>3 DEF Injection, IsInjective
<1>5. result \in Surjection(1 .. Len(result), ToSet(result))
  BY <1>1, <1>3 DEF Surjection, ToSet
<1>6. ExistsBijection(1 .. Len(result), ToSet(result))
  BY <1>4, <1>5 DEF ExistsBijection, Bijection
<1>. QED BY <1>1, <1>6, FS_CountingElements

LEMMA ParentsFinite ==
  ASSUME NEW g, NEW t, NEW S
  PROVE  IsFiniteSet(Parents(g, t) \ S) /\ Cardinality(Parents(g, t) \ S) \in Nat
<1>1. Parents(g, t) \ S \in SUBSET Tables
  BY DEF Parents
<1>. QED BY <1>1, TableGraphAssumption, FS_Subset, FS_CardinalityType

-----------------------------------------------------------------------------
(* The invariant is inductive.                                               *)

LEMMA InitIInv == Init => IInv
<1> SUFFICES ASSUME Init PROVE IInv
  OBVIOUS
<1>1. result = <<>> /\ Len(result) = 0 /\ ToSet(result) = {} /\ result \in Seq(Tables)
  BY DEF Init, ToSet
<1>2. PoppedInOrder
  BY <1>1 DEF PoppedInOrder
<1>3. in_degree \in [Tables -> Nat]
      /\ \A t \in Tables : in_degree[t] = Cardinality(Parents(dependencies, t) \ ToSet(result))
  <2>1. \A t \in Tables : Parents(dependencies, t) \ {} = Parents(dependencies, t)
    OBVIOUS
  <2>2. \A t \in Tables : Cardinality(Parents(dependencies, t)) \in Nat
    BY <2>1, ParentsFinite
  <2>. QED BY <1>1, <2>1, <2>2 DEF Init
<1>4. queue = Ready(dependencies, {})
  <2>1. \A t \in Tables : in_degree[t] = Cardinality(Parents(dependencies, t) \ {})
    BY <1>1, <1>3
  <2>2. \A t \in Tables : in_degree[t] = 0 <=> Parents(dependencies, t) \ {} = {}
    BY <2>1, ParentsFinite, FS_EmptySet
  <2>. QED BY <2>2 DEF Init, Ready
<1>. QED BY <1>1, <1>2, <1>3, <1>4 DEF IInv, CountsLeft, Init

LEMMA PopIInv == IInv /\ Pop => IInv'
<1> SUFFICES ASSUME IInv, Pop PROVE IInv'
  OBVIOUS
<1> DEFINE c == Min(queue)
           R == ToSet(result)
           n == Len(result)
<1>1. PoppedInOrder /\ CountsLeft /\ dependencies \in Dependencies
  BY DEF IInv, Pop
<1>2. result \in Seq(Tables) /\ n \in Nat /\ DOMAIN result = 1 .. n
  BY <1>1, LenProperties DEF PoppedInOrder
<1>3. queue = Ready(dependencies, R) /\ queue \subseteq Tables /\ queue # {}
  BY <1>1 DEF CountsLeft, Ready, Pop
<1>4. c \in queue
  <2>1. queue \in SUBSET Nat
    BY <1>3, TableGraphAssumption
  <2>. QED BY <1>3, <2>1, LeastElement
<1>5. c \in Tables /\ c \notin R /\ Parents(dependencies, c) \subseteq R
  BY <1>3, <1>4 DEF Ready
<1> HIDE DEF c
<1>6. /\ result' = Append(result, c)
      /\ in_degree' = Lowered(c)
      /\ queue' = (queue \ {c}) \cup NewlyReady(c)
      /\ dependencies' = dependencies /\ pc' = pc /\ pc = "sorting"
  BY DEF Pop, Popped, c
<1>7. /\ result' \in Seq(Tables)
      /\ Len(result') = n + 1
      /\ \A i \in 1 .. n : result'[i] = result[i]
      /\ result'[n + 1] = c
  BY <1>2, <1>5, <1>6, AppendProperties
<1>8. ASSUME NEW i \in 1 .. n + 1 PROVE Before(result', i) = Before(result, i)
  <2>1. \A j \in 1 .. i - 1 : j \in 1 .. n
    BY <1>2
  <2>. QED BY <1>7, <2>1 DEF Before
<1>9. R = Before(result, n + 1)
  BY <1>2, PlacedIsBefore
<1>10. PoppedInOrder'
  <2>1. ASSUME NEW i \in 1 .. n + 1
        PROVE  /\ result'[i] \in Ready(dependencies, Before(result', i))
               /\ result'[i] = Min(Ready(dependencies, Before(result', i)))
    <3>1. CASE i = n + 1
      <4>1. Before(result', i) = R
        BY <1>8, <1>9, <3>1
      <4>. QED BY <1>3, <1>4, <1>7, <3>1, <4>1 DEF c
    <3>2. CASE i # n + 1
      <4>1. i \in 1 .. n
        BY <1>2, <3>2
      <4>2. result'[i] = result[i] /\ Before(result', i) = Before(result, i)
        BY <1>7, <1>8, <4>1
      <4>. QED BY <1>1, <4>1, <4>2 DEF PoppedInOrder
    <3>. QED BY <3>1, <3>2
  <2>. QED BY <1>6, <1>7, <2>1 DEF PoppedInOrder
<1>11. ToSet(result') = R \cup {c}
  <2>1. DOMAIN result' = 1 .. n + 1
    BY <1>7, LenProperties
  <2>2. 1 .. n + 1 = 1 .. n \cup {n + 1}
    BY <1>2
  <2>. QED BY <1>2, <1>7, <2>1, <2>2 DEF ToSet
<1>12. ASSUME NEW t \in Tables
       PROVE  /\ Lowered(c)[t] \in Nat
              /\ Lowered(c)[t] = Cardinality(Parents(dependencies, t) \ (R \cup {c}))
  <2> DEFINE P == Parents(dependencies, t)
  <2>1. in_degree[t] = Cardinality(P \ R)
    BY <1>1 DEF CountsLeft
  <2>2. (P \ R) \ {c} = P \ (R \cup {c})
    OBVIOUS
  <2>3. c \in P \ R <=> c \in dependencies[t]
    BY <1>5 DEF Parents
  <2>4. IsFiniteSet(P \ R) /\ Cardinality(P \ (R \cup {c})) \in Nat
    BY ParentsFinite
  <2>5. Cardinality((P \ R) \ {c}) = IF c \in P \ R THEN Cardinality(P \ R) - 1
                                     ELSE Cardinality(P \ R)
    BY <2>4, FS_RemoveElement
  <2>6. Lowered(c)[t] = IF c \in dependencies[t] THEN in_degree[t] - 1 ELSE in_degree[t]
    BY DEF Lowered
  <2> HIDE DEF P
  <2>7. Lowered(c)[t] = Cardinality(P \ (R \cup {c}))
    BY <2>1, <2>2, <2>3, <2>5, <2>6
  <2>. QED BY <2>4, <2>7 DEF P
<1>13. queue' = Ready(dependencies, R \cup {c})
  <2>1. ASSUME NEW t \in Tables
        PROVE  Lowered(c)[t] = 0 <=> Parents(dependencies, t) \subseteq R \cup {c}
    <3>1. Lowered(c)[t] = 0 <=> Parents(dependencies, t) \ (R \cup {c}) = {}
      BY <1>12, ParentsFinite, FS_EmptySet
    <3>. QED BY <3>1
  <2>2. ASSUME NEW t \in Ready(dependencies, R \cup {c}) PROVE t \in queue'
    <3>1. t \in Tables /\ t \notin R /\ t # c /\ Parents(dependencies, t) \subseteq R \cup {c}
      BY DEF Ready
    <3>2. CASE c \in dependencies[t]
      BY <1>6, <2>1, <3>1, <3>2 DEF NewlyReady
    <3>3. CASE c \notin dependencies[t]
      <4>1. Parents(dependencies, t) \subseteq R
        BY <3>1, <3>3 DEF Parents
      <4>2. t \in queue \ {c}
        BY <1>3, <3>1, <4>1 DEF Ready
      <4>. QED BY <1>6, <4>2
    <3>. QED BY <3>2, <3>3
  <2>3. ASSUME NEW t \in queue \ {c} PROVE t \in Ready(dependencies, R \cup {c})
    BY <1>3 DEF Ready
  <2>4. ASSUME NEW t \in NewlyReady(c) PROVE t \in Ready(dependencies, R \cup {c})
    <3>1. t \in Tables /\ c \in dependencies[t] /\ Parents(dependencies, t) \subseteq R \cup {c}
      BY <2>1 DEF NewlyReady
    <3>2. t # c
      BY <1>1, <3>1 DEF Dependencies
    <3>3. t \notin R
      BY <1>1, <1>5, <3>1, PlacedClosed DEF Parents
    <3>. QED BY <3>1, <3>2, <3>3 DEF Ready
  <2>. QED BY <1>6, <2>2, <2>3, <2>4
<1>14. CountsLeft'
  <2>1. Lowered(c) \in [Tables -> Nat]
    BY <1>12 DEF Lowered
  <2>. QED BY <1>6, <1>11, <1>12, <1>13, <2>1 DEF CountsLeft
<1>. QED BY <1>1, <1>6, <1>10, <1>14 DEF IInv

LEMMA AddRemainingIInv == IInv /\ AddRemaining => IInv'
<1> SUFFICES ASSUME IInv, AddRemaining PROVE IInv'
  OBVIOUS
<1> DEFINE R == ToSet(result)
           n == Len(result)
           m == Cardinality(Remaining)
           b == ByName(Remaining)
           r == result \o b
           N == Cardinality(Tables)
<1>1. /\ PoppedInOrder /\ CountsLeft /\ dependencies \in Dependencies
      /\ queue = {} /\ result' = r /\ pc' = "done" /\ dependencies' = dependencies
  BY DEF IInv, AddRemaining
<1>2. result \in Seq(Tables) /\ n \in Nat /\ DOMAIN result = 1 .. n
  BY <1>1, LenProperties DEF PoppedInOrder
<1>3. R = Before(result, n + 1) /\ R \subseteq Tables
  BY <1>2, PlacedIsBefore
<1>4. Ready(dependencies, R) = {}
  BY <1>1 DEF CountsLeft
<1>5. Remaining = Tables \ R /\ Remaining \in SUBSET Nat /\ IsFiniteSet(Remaining)
  BY TableGraphAssumption, FS_Subset DEF Remaining
<1>6. m \in Nat /\ b \in [1 .. m -> Remaining] /\ Increasing(b)
      /\ \A t \in Remaining : \E k \in 1 .. m : b[k] = t
  BY <1>5, ByNameSorts
<1>7. n + m = N /\ N \in Nat
  <2>1. Cardinality(R) = n
    BY <1>1, PlacedCounted
  <2>2. Cardinality(Tables \ R) = N - Cardinality(Tables \cap R)
    BY TableGraphAssumption, FS_Difference
  <2>3. Tables \cap R = R
    BY <1>3
  <2>4. N \in Nat
    BY TableGraphAssumption, FS_CardinalityType
  <2>5. m = N - n
    BY <1>5, <2>1, <2>2, <2>3
  <2> HIDE DEF m, N
  <2>. QED BY <1>2, <1>6, <2>4, <2>5
<1> HIDE DEF b, m, N
<1>8. /\ r \in Seq(Tables) /\ Len(r) = N
      /\ \A i \in 1 .. n : r[i] = result[i]
      /\ \A k \in 1 .. m : n + k \in 1 .. N /\ r[n + k] = b[k] /\ b[k] \in Remaining
  <2>1. b \in [1 .. m -> Tables]
    BY <1>5, <1>6
  <2>2. b \in Seq(Tables) /\ Len(b) = m
    BY <1>6, <2>1
  <2>3. /\ r \in Seq(Tables) /\ Len(r) = n + m
        /\ \A i \in 1 .. n + m : r[i] = IF i <= n THEN result[i] ELSE b[i - n]
    BY <1>2, <2>2, ConcatProperties
  <2> HIDE DEF r
  <2>4. \A i \in 1 .. n : i \in 1 .. n + m /\ i <= n
    BY <1>2, <1>6
  <2>5. \A k \in 1 .. m : n + k \in 1 .. n + m /\ ~ (n + k <= n) /\ (n + k) - n = k
    BY <1>2, <1>6
  <2>6. \A i \in 1 .. n : r[i] = result[i]
    BY <2>3, <2>4
  <2>7. \A k \in 1 .. m : r[n + k] = b[k]
    BY <2>3, <2>5
  <2>. QED BY <1>6, <1>7, <2>3, <2>5, <2>6, <2>7
<1>9. ASSUME NEW i \in 1 .. n + 1 PROVE Before(r, i) = Before(result, i)
  <2>1. \A j \in 1 .. i - 1 : j \in 1 .. n
    BY <1>2
  <2> HIDE DEF r
  <2>. QED BY <1>8, <2>1 DEF Before
<1> HIDE DEF r
<1>10. ASSUME NEW i \in 1 .. n
       PROVE  r[i] \in Candidates(dependencies, r, i) /\ r[i] = Min(Candidates(dependencies, r, i))
  <2>1. ASSUME NEW j \in 1 .. i PROVE Ready(dependencies, Before(r, j)) # {}
    <3>1. j \in 1 .. n /\ j \in 1 .. n + 1
      BY <1>2
    <3>. QED BY <1>1, <1>9, <3>1 DEF PoppedInOrder
  <2>2. i \in 1 .. n + 1
    BY <1>2
  <2>3. Candidates(dependencies, r, i) = Ready(dependencies, Before(result, i))
    BY <1>9, <2>1, <2>2 DEF Candidates
  <2>. QED BY <1>1, <1>8, <2>3 DEF PoppedInOrder
<1>11. ASSUME NEW k \in 1 .. m
       PROVE  /\ r[n + k] \in Candidates(dependencies, r, n + k)
              /\ r[n + k] = Min(Candidates(dependencies, r, n + k))
  <2> DEFINE C == Candidates(dependencies, r, n + k)
  <2>1. n + 1 \in 1 .. n + k /\ n + 1 \in 1 .. n + 1
    BY <1>2, <1>6
  <2>2. Ready(dependencies, Before(r, n + 1)) = {}
    BY <1>3, <1>4, <1>9, <2>1
  <2>3. C = Tables \ Before(r, n + k)
    BY <2>1, <2>2 DEF Candidates
  <2>4. \A t \in Before(r, n + k) : t \in R \/ \E l \in 1 .. k - 1 : t = b[l]
    <3>1. SUFFICES ASSUME NEW j \in 1 .. (n + k) - 1
                   PROVE  r[j] \in R \/ \E l \in 1 .. k - 1 : r[j] = b[l]
      BY DEF Before
    <3>2. CASE j \in 1 .. n
      BY <1>2, <1>8, <3>2 DEF ToSet
    <3>3. CASE j \notin 1 .. n
      <4>1. j - n \in 1 .. k - 1 /\ j - n \in 1 .. m /\ n + (j - n) = j
        BY <1>2, <1>6, <3>3
      <4>2. r[j] = b[j - n]
        BY <1>8, <4>1
      <4>. QED BY <4>1, <4>2
    <3>. QED BY <3>2, <3>3
  <2>5. R \subseteq Before(r, n + k)
    <3>1. R = Before(r, n + 1)
      BY <1>3, <1>9, <2>1
    <3>2. \A j \in 1 .. (n + 1) - 1 : j \in 1 .. (n + k) - 1
      BY <1>2, <1>6
    <3>. QED BY <3>1, <3>2 DEF Before
  <2>6. \A l \in 1 .. k - 1 : b[l] \in Before(r, n + k)
    <3>1. ASSUME NEW l \in 1 .. k - 1 PROVE n + l \in 1 .. (n + k) - 1 /\ l \in 1 .. m
      BY <1>2, <1>6
    <3>2. \A l \in 1 .. k - 1 : r[n + l] = b[l]
      BY <1>8, <3>1
    <3>. QED BY <3>1, <3>2 DEF Before
  <2>7. \A i, j \in 1 .. m : i < j => b[i] < b[j]
    BY <1>6 DEF Increasing
  <2>8. \A l \in 1 .. m : b[l] \in Nat /\ b[l] \in Remaining
    BY <1>5, <1>6
  <2>9. b[k] \in C
    <3>1. \A l \in 1 .. k - 1 : l \in 1 .. m /\ b[l] < b[k]
      BY <1>6, <2>7
    <3>2. \A l \in 1 .. k - 1 : b[l] # b[k]
      BY <2>8, <3>1
    <3>. QED BY <1>5, <2>3, <2>4, <2>8, <3>2
  <2>10. ASSUME NEW t \in C PROVE b[k] <= t
    <3>1. t \in Remaining
      BY <1>5, <2>3, <2>5
    <3>2. PICK l \in 1 .. m : b[l] = t
      BY <1>6, <3>1
    <3>3. l \notin 1 .. k - 1
      BY <2>3, <2>6, <3>2
    <3>4. k = l \/ k < l
      BY <1>6, <3>3
    <3>. QED BY <2>7, <2>8, <3>2, <3>4
  <2>11. C \in SUBSET Nat
    BY <2>3, TableGraphAssumption
  <2> HIDE DEF C
  <2>12. b[k] = Min(C)
    BY <2>9, <2>10, <2>11, LeastIsMin
  <2>. QED BY <1>8, <2>9, <2>12 DEF C
<1>12. ASSUME NEW i \in 1 .. N
       PROVE  r[i] \in Candidates(dependencies, r, i) /\ r[i] = Min(Candidates(dependencies, r, i))
  <2>1. CASE i \in 1 .. n
    BY <1>10, <2>1
  <2>2. CASE i \notin 1 .. n
    <3>1. i - n \in 1 .. m /\ n + (i - n) = i
      BY <1>2, <1>6, <1>7, <2>2
    <3>. QED BY <1>11, <3>1
  <2>. QED BY <2>1, <2>2
<1>13. r \in [1 .. N -> Tables]
  BY <1>8, LenProperties
<1>14. IsOrder(dependencies, r, N)
  BY <1>12, <1>13 DEF IsOrder
<1>. QED BY <1>1, <1>14 DEF IInv, N

LEMMA StutterIInv == IInv /\ UNCHANGED vars => IInv'
BY DEF IInv, vars, PoppedInOrder, CountsLeft

LEMMA NextIInv == IInv /\ [Next]_vars => IInv'
BY PopIInv, AddRemainingIInv, StutterIInv DEF Next, Terminated

\* The inductive invariant holds at each turn of the loop of topological_sort.
THEOREM Invariance == Spec => []IInv
<1>. QED BY InitIInv, NextIInv, PTL DEF Spec

-----------------------------------------------------------------------------

\* The loop of topological_sort computes the set-based order.
THEOREM SortAgreesTheorem == Spec => []SortAgrees
<1>1. IInv => SortAgrees
  BY OrderIsSort DEF IInv, SortAgrees
<1>. QED BY <1>1, Invariance, PTL

\* A table that is not behind a cycle comes after every table it references.
THEOREM ParentsFirstTheorem == Spec => []ParentsFirst
<1>1. IInv => ParentsFirst
  BY OrderIsSort, SortParentsFirst DEF IInv, ParentsFirst
<1>. QED BY <1>1, Invariance, PTL
=============================================================================
