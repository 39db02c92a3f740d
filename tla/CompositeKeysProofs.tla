------------------------ MODULE CompositeKeysProofs ------------------------
(***************************************************************************)
(* Proofs about CompositeKeys, for source tables and children of any size: *)
(* the keys of a generated parent are different and its foreign keys       *)
(* exist, in every layout; a child that is generated by its parent's shape *)
(* fits it, also after a run of its own; and the children of a parent with *)
(* every combination of its columns' values only take keys it has.         *)
(*                                                                         *)
(* Each layout is a way to number the rows: bands of equal frequencies, a  *)
(* turn and a proportion, the digits of a mixed-radix number, or groups    *)
(* and cycles.  The lemmas show that the numbering can be undone.          *)
(***************************************************************************)
EXTENDS CompositeKeys, FiniteSetTheorems, FunctionTheorems, TLAPS

-----------------------------------------------------------------------------
(* Division and remainder of naturals.                                       *)
LEMMA DivMod ==
  ASSUME NEW n \in Nat, NEW d \in Nat \ {0}
  PROVE  /\ n \div d \in Nat
         /\ n % d \in 0 .. d - 1
         /\ n = (n \div d) * d + (n % d)
OBVIOUS

\* A product grows with its factor.
LEMMA ProductMonotone ==
  ASSUME NEW a \in Nat, NEW b \in Nat, NEW d \in Nat, a <= b
  PROVE  a * d <= b * d
<1> DEFINE e == b - a
<1>1. e \in Nat /\ b = a + e
  OBVIOUS
<1>2. e * d \in Nat
  BY <1>1
<1>3. b * d = a * d + e * d
  BY <1>1
<1>. QED BY <1>2, <1>3

\* Two numbers with the same quotient are less than the divisor apart.
LEMMA SameQuotient ==
  ASSUME NEW a \in Nat, NEW b \in Nat, NEW d \in Nat \ {0},
         a < b, a \div d = b \div d
  PROVE  b - a < d
<1>1. a = (a \div d) * d + (a % d) /\ a % d \in 0 .. d - 1
  BY DivMod
<1>2. b = (a \div d) * d + (b % d) /\ b % d \in 0 .. d - 1
  BY DivMod
<1>3. (a \div d) * d \in Nat
  BY DivMod
<1>. QED BY <1>1, <1>2, <1>3

\* Two numbers with the same remainder are at least the divisor apart.
LEMMA SameRemainder ==
  ASSUME NEW a \in Nat, NEW b \in Nat, NEW d \in Nat \ {0},
         a < b, a % d = b % d
  PROVE  d <= b - a
<1> DEFINE p == a \div d
           q == b \div d
<1>1. p \in Nat /\ q \in Nat
  BY DivMod
<1>2. p * d \in Nat /\ q * d \in Nat
  BY <1>1
<1>3. a = p * d + (a % d) /\ b = q * d + (a % d) /\ a % d \in Nat
  BY DivMod
<1>4. q * d - p * d = b - a
  BY <1>2, <1>3
<1>5. p < q
  <2>1. SUFFICES ASSUME q <= p PROVE FALSE
    BY <1>1
  <2>2. q * d <= p * d
    BY <1>1, <2>1, ProductMonotone
  <2>. QED BY <1>2, <1>4, <2>2
<1>6. (p + 1) * d <= q * d
  BY <1>1, <1>5, ProductMonotone
<1>7. (p + 1) * d = p * d + d
  BY <1>1
<1>. QED BY <1>2, <1>4, <1>6, <1>7

\* CeilDiv(a, b) is the least number of groups of b that hold a.
LEMMA CeilDivBounds ==
  ASSUME NEW a \in Nat \ {0}, NEW b \in Nat \ {0}
  PROVE  /\ CeilDiv(a, b) \in Nat \ {0}
         /\ a <= CeilDiv(a, b) * b
         /\ \A n \in Nat : a <= n * b => CeilDiv(a, b) <= n
<1> DEFINE q == CeilDiv(a, b)
           m == a + b - 1
<1>1. m \in Nat /\ q = m \div b
  BY DEF CeilDiv
<1>2. q \in Nat /\ m = q * b + (m % b) /\ m % b \in 0 .. b - 1
  BY <1>1, DivMod
<1>3. q * b \in Nat
  BY <1>2
<1>4. a <= q * b
  BY <1>2, <1>3
<1>5. q # 0
  BY <1>4
<1>6. ASSUME NEW n \in Nat, a <= n * b PROVE q <= n
  <2>1. SUFFICES ASSUME n + 1 <= q PROVE FALSE
    BY <1>2
  <2>2. (n + 1) * b <= q * b
    BY <1>2, <2>1, ProductMonotone
  <2>3. (n + 1) * b = n * b + b /\ n * b \in Nat
    OBVIOUS
  <2>. QED BY <1>2, <1>3, <1>6, <2>2, <2>3
<1>. QED BY <1>2, <1>4, <1>5, <1>6

\* Every non-empty set of naturals has a least element.
LEMMA LeastElement ==
  ASSUME NEW S \in SUBSET Nat, S # {}
  PROVE  Min(S) \in S /\ \A y \in S : Min(S) <= y
<1> DEFINE R == OpToRel(<, Nat)
<1>1. IsWellFoundedOn(R, Nat)
  BY NatLessThanWellFounded
<1>2. \E x \in S : \A y \in S : ~ (<<y, x>> \in R)
  <2> HIDE DEF R
  <2>. QED BY <1>1, WFMin
<1>3. \A x, y \in Nat : y < x => <<y, x>> \in R
  BY DEF OpToRel
<1> HIDE DEF R
<1>4. PICK x \in S : \A y \in S : ~ (<<y, x>> \in R)
  BY <1>2
<1>5. \A y \in S : x <= y
  <2> TAKE y \in S
  <2>1. x \in Nat /\ y \in Nat
    OBVIOUS
  <2>2. ~ (y < x)
    BY <1>3, <1>4, <2>1
  <2>. QED BY <2>1, <2>2
<1>. QED BY <1>5 DEF Min

-----------------------------------------------------------------------------
(* The groups of a source table.                                             *)

LEMMA ValuesFinite ==
  ASSUME NEW T, IsFiniteSet(T), NEW c
  PROVE  /\ IsFiniteSet(Values(T, c)) /\ Distinct(T, c) \in Nat
         /\ Distinct(T, c) <= Cardinality(T)
         /\ T # {} => Values(T, c) # {} /\ Distinct(T, c) # 0
<1> DEFINE f == [t \in T |-> t[c]]
<1>1. f \in Surjection(T, Values(T, c))
  BY DEF Surjection, Values
<1>2. IsFiniteSet(Values(T, c)) /\ Cardinality(Values(T, c)) <= Cardinality(T)
  <2> HIDE DEF f
  <2>. QED BY <1>1, FS_Surjection
<1>3. Distinct(T, c) \in Nat
  BY <1>2, FS_CardinalityType DEF Distinct
<1>4. T # {} => Values(T, c) # {}
  BY DEF Values
<1>. QED BY <1>2, <1>3, <1>4, FS_EmptySet DEF Distinct

\* A part of a finite set is finite and no larger.
LEMMA SubsetCount ==
  ASSUME NEW S, IsFiniteSet(S), NEW T \in SUBSET S
  PROVE  /\ IsFiniteSet(T) /\ Cardinality(T) \in Nat /\ Cardinality(S) \in Nat
         /\ Cardinality(T) <= Cardinality(S)
         /\ T # {} => Cardinality(T) # 0
BY FS_Subset, FS_CardinalityType, FS_EmptySet

\* Two disjoint sets have as many elements as both together.
LEMMA DisjointUnion ==
  ASSUME NEW S, NEW T, IsFiniteSet(S), IsFiniteSet(T), S \cap T = {}
  PROVE  /\ IsFiniteSet(S \cup T)
         /\ Cardinality(S \cup T) = Cardinality(S) + Cardinality(T)
<1>1. Cardinality(S) \in Nat /\ Cardinality(T) \in Nat /\ Cardinality(S \cap T) = 0
  BY FS_CardinalityType, FS_EmptySet
<1>2. /\ IsFiniteSet(S \cup T)
      /\ Cardinality(S \cup T) = Cardinality(S) + Cardinality(T) - Cardinality(S \cap T)
  BY FS_Union
<1>. QED BY <1>1, <1>2

\* A value of the first column has a row, and no more than the table.
LEMMA FrequencyBounds ==
  ASSUME NEW T, IsFiniteSet(T), NEW v
  PROVE  /\ IsFiniteSet({t \in T : t[1] = v})
         /\ Frequency(T, v) \in Nat /\ Frequency(T, v) \in 0 .. Cardinality(T)
         /\ v \in Values(T, 1) => Frequency(T, v) # 0
<1>1. v \in Values(T, 1) => {t \in T : t[1] = v} # {}
  BY DEF Values
<1>. QED BY <1>1, SubsetCount DEF Frequency

\* The counts of values and rows up to a frequency grow with it.
LEMMA UpToBounds ==
  ASSUME NEW T, IsFiniteSet(T), NEW f \in Nat
  PROVE  /\ ValuesUpTo(T, f) \in 0 .. Distinct(T, 1)
         /\ RowsUpTo(T, f) \in 0 .. Cardinality(T)
         /\ \A g \in Nat : f <= g => /\ ValuesUpTo(T, f) <= ValuesUpTo(T, g)
                                     /\ RowsUpTo(T, f) <= RowsUpTo(T, g)
         /\ f >= Cardinality(T) => /\ ValuesUpTo(T, f) = Distinct(T, 1)
                                   /\ RowsUpTo(T, f) = Cardinality(T)
<1> DEFINE V(g) == {v \in Values(T, 1) : Frequency(T, v) <= g}
           R(g) == {t \in T : Frequency(T, t[1]) <= g}
<1>1. IsFiniteSet(Values(T, 1)) /\ Cardinality(T) \in Nat
  BY ValuesFinite, FS_CardinalityType
<1>2. \A v : Frequency(T, v) \in 0 .. Cardinality(T)
  BY FrequencyBounds
<1>3. \A g \in Nat : f <= g => V(f) \subseteq V(g) /\ R(f) \subseteq R(g)
  BY <1>1, <1>2
<1>4. \A g \in Nat : IsFiniteSet(V(g)) /\ IsFiniteSet(R(g))
  BY <1>1, SubsetCount
<1>5. f >= Cardinality(T) => V(f) = Values(T, 1) /\ R(f) = T
  BY <1>1, <1>2
<1>6. \A g \in Nat : f <= g => Cardinality(V(f)) <= Cardinality(V(g)) /\ Cardinality(R(f)) <= Cardinality(R(g))
  BY <1>3, <1>4, SubsetCount
<1>7. /\ Cardinality(V(f)) \in Nat /\ Cardinality(V(f)) <= Cardinality(Values(T, 1))
      /\ Cardinality(R(f)) \in Nat /\ Cardinality(R(f)) <= Cardinality(T)
      /\ Cardinality(Values(T, 1)) \in Nat
  BY <1>1, SubsetCount
<1>8. /\ \A g \in Nat : ValuesUpTo(T, g) = Cardinality(V(g)) /\ RowsUpTo(T, g) = Cardinality(R(g))
      /\ Distinct(T, 1) = Cardinality(Values(T, 1))
  BY DEF ValuesUpTo, RowsUpTo, Distinct
<1> HIDE DEF V, R
<1>9. /\ ValuesUpTo(T, f) \in 0 .. Distinct(T, 1)
      /\ RowsUpTo(T, f) \in 0 .. Cardinality(T)
  BY <1>1, <1>7, <1>8
<1>10. f >= Cardinality(T) => /\ ValuesUpTo(T, f) = Distinct(T, 1)
                              /\ RowsUpTo(T, f) = Cardinality(T)
  BY <1>5, <1>8
<1>11. \A g \in Nat : f <= g => /\ ValuesUpTo(T, f) <= ValuesUpTo(T, g)
                                 /\ RowsUpTo(T, f) <= RowsUpTo(T, g)
  BY <1>6, <1>8
<1>. QED BY <1>9, <1>10, <1>11

\* No value has no rows.
LEMMA NoneUpToZero ==
  ASSUME NEW T, IsFiniteSet(T)
  PROVE  ValuesUpTo(T, 0) = 0 /\ RowsUpTo(T, 0) = 0
<1>1. ASSUME NEW v \in Values(T, 1) PROVE ~ (Frequency(T, v) <= 0)
  <2>1. Frequency(T, v) \in Nat /\ Frequency(T, v) # 0
    BY FrequencyBounds
  <2>. QED BY <2>1
<1>2. \A t \in T : t[1] \in Values(T, 1)
  BY DEF Values
<1>3. {v \in Values(T, 1) : Frequency(T, v) <= 0} = {} /\ {t \in T : Frequency(T, t[1]) <= 0} = {}
  BY <1>1, <1>2
<1>. QED BY <1>3, FS_EmptySet DEF ValuesUpTo, RowsUpTo

\* Values of f rows each have f rows for each of them.
LEMMA RowsOfGroups ==
  ASSUME NEW T, IsFiniteSet(T), NEW f \in Nat,
         NEW V \in SUBSET Values(T, 1), \A v \in V : Frequency(T, v) = f
  PROVE  /\ IsFiniteSet({t \in T : t[1] \in V}) /\ IsFiniteSet(V) /\ Cardinality(V) \in Nat
         /\ Cardinality({t \in T : t[1] \in V}) = Cardinality(V) * f
<1> DEFINE G == {t \in T : t[1] \in V}
           Rows(v) == {t \in T : t[1] = v}
           Count(v) == CHOOSE g : g \in Bijection(1 .. f, Rows(v))
           h == [p \in V \X (1 .. f) |-> Count(p[1])[p[2]]]
<1>1. IsFiniteSet(V) /\ Cardinality(V) \in Nat /\ IsFiniteSet(G)
  BY ValuesFinite, SubsetCount
<1>2. ASSUME NEW v \in V PROVE Count(v) \in Bijection(1 .. f, Rows(v))
  <2>1. IsFiniteSet(Rows(v)) /\ Cardinality(Rows(v)) = f
    BY FrequencyBounds DEF Frequency
  <2>2. ExistsBijection(1 .. f, Rows(v))
    BY <2>1, FS_CardinalityType
  <2>. QED BY <2>2 DEF ExistsBijection
<1> HIDE DEF Count
<1>3. ASSUME NEW v \in V
      PROVE  /\ \A l \in 1 .. f : Count(v)[l] \in T /\ Count(v)[l][1] = v
             /\ \A k, l \in 1 .. f : Count(v)[k] = Count(v)[l] => k = l
             /\ \A t \in T : t[1] = v => \E l \in 1 .. f : Count(v)[l] = t
  BY <1>2 DEF Bijection, Injection, Surjection, IsInjective
<1>4. h \in [V \X (1 .. f) -> G]
  <2>1. \A p \in V \X (1 .. f) : h[p] \in G
    BY <1>3
  <2>. QED BY <2>1
<1>5. ASSUME NEW p \in V \X (1 .. f), NEW q \in V \X (1 .. f), h[p] = h[q] PROVE p = q
  <2>1. p[1] \in V /\ p[2] \in 1 .. f /\ q[1] \in V /\ q[2] \in 1 .. f
    OBVIOUS
  <2>2. Count(p[1])[p[2]] = Count(q[1])[q[2]]
    BY <1>5
  <2>3. p[1] = q[1]
    BY <1>3, <2>1, <2>2
  <2>4. p[2] = q[2]
    BY <1>3, <2>1, <2>2, <2>3
  <2>. QED BY <2>3, <2>4
<1>6. ASSUME NEW t \in G PROVE \E p \in V \X (1 .. f) : h[p] = t
  <2>1. PICK l \in 1 .. f : Count(t[1])[l] = t
    BY <1>3
  <2>2. <<t[1], l>> \in V \X (1 .. f) /\ h[<<t[1], l>>] = t
    BY <2>1
  <2>. QED BY <2>2
<1> HIDE DEF h
<1>7. h \in Bijection(V \X (1 .. f), G)
  BY <1>4, <1>5, <1>6, Fun_IsBij
<1>8. IsFiniteSet(1 .. f) /\ Cardinality(1 .. f) = f
  BY FS_Interval
<1>9. IsFiniteSet(V \X (1 .. f)) /\ Cardinality(V \X (1 .. f)) = Cardinality(V) * f
  BY <1>1, <1>8, FS_Product
<1>10. Cardinality(G) = Cardinality(V) * f
  BY <1>7, <1>9, FS_Bijection DEF ExistsBijection
<1>. QED BY <1>1, <1>10

\* The band of a frequency has that many rows for each of its values.
LEMMA BandRows ==
  ASSUME NEW T, IsFiniteSet(T), NEW f \in Nat \ {0}
  PROVE  RowsUpTo(T, f) - RowsUpTo(T, f - 1) = (ValuesUpTo(T, f) - ValuesUpTo(T, f - 1)) * f
<1> DEFINE V(g) == {v \in Values(T, 1) : Frequency(T, v) <= g}
           R(g) == {t \in T : Frequency(T, t[1]) <= g}
           B == {v \in Values(T, 1) : Frequency(T, v) = f}
           G == {t \in T : t[1] \in B}
<1>1. \A v : Frequency(T, v) \in Nat
  BY FrequencyBounds
<1>2. \A t \in T : t[1] \in Values(T, 1)
  BY DEF Values
<1>3. V(f) = V(f - 1) \cup B /\ V(f - 1) \cap B = {}
  BY <1>1
<1>4. R(f) = R(f - 1) \cup G /\ R(f - 1) \cap G = {}
  BY <1>1, <1>2
<1>5. IsFiniteSet(Values(T, 1))
  BY ValuesFinite
<1>6. /\ IsFiniteSet(V(f - 1)) /\ Cardinality(V(f - 1)) \in Nat
      /\ IsFiniteSet(R(f - 1)) /\ Cardinality(R(f - 1)) \in Nat
  BY <1>5, SubsetCount
<1>7. IsFiniteSet(B) /\ Cardinality(B) \in Nat /\ IsFiniteSet(G) /\ Cardinality(G) = Cardinality(B) * f
  BY RowsOfGroups
<1> HIDE DEF V, R, B, G
<1>8. Cardinality(V(f)) = Cardinality(V(f - 1)) + Cardinality(B)
  BY <1>3, <1>6, <1>7, DisjointUnion
<1>9. Cardinality(R(f)) = Cardinality(R(f - 1)) + Cardinality(G)
  <2>1. Cardinality(G) \in Nat
    BY <1>7, FS_CardinalityType
  <2>. QED BY <1>4, <1>6, <1>7, <2>1, DisjointUnion
<1>10. /\ ValuesUpTo(T, f) = Cardinality(V(f)) /\ ValuesUpTo(T, f - 1) = Cardinality(V(f - 1))
       /\ RowsUpTo(T, f) = Cardinality(R(f)) /\ RowsUpTo(T, f - 1) = Cardinality(R(f - 1))
  BY DEF ValuesUpTo, RowsUpTo, V, R
<1>11. Cardinality(B) * f \in Nat
  BY <1>7
<1>12. /\ Cardinality(V(f)) - Cardinality(V(f - 1)) = Cardinality(B)
       /\ Cardinality(R(f)) - Cardinality(R(f - 1)) = Cardinality(B) * f
  BY <1>6, <1>7, <1>8, <1>9, <1>11
<1>. QED BY <1>10, <1>12

-----------------------------------------------------------------------------
(* The bands of the frequencies.                                             *)

\* Where a count that grows with f reaches i first.
LEMMA FirstReaching ==
  ASSUME NEW N \in Nat, NEW F \in [Nat -> Nat], F[0] = 0,
         \A f, g \in Nat : f <= g => F[f] <= F[g],
         NEW i \in 1 .. F[N]
  PROVE  LET m == Min({f \in 1 .. N : i <= F[f]})
         IN  /\ m \in 1 .. N /\ F[m - 1] < i /\ i <= F[m]
             /\ \A g \in Nat : i <= F[g] <=> m <= g
<1> DEFINE S == {f \in 1 .. N : i <= F[f]}
           m == Min(S)
<1>1. S \in SUBSET Nat /\ S # {}
  <2>1. N \in S
    OBVIOUS
  <2>. QED BY <2>1
<1>2. m \in S /\ \A y \in S : m <= y
  <2> HIDE DEF S
  <2>. QED BY <1>1, LeastElement
<1> HIDE DEF m
<1>3. m \in 1 .. N /\ i <= F[m]
  BY <1>2
<1>4. F[m - 1] < i
  <2>1. CASE m = 1
    BY <2>1
  <2>2. CASE m # 1
    <3>1. m - 1 \in 1 .. N /\ ~ (m <= m - 1)
      BY <1>3, <2>2
    <3>2. m - 1 \notin S
      BY <1>2, <3>1
    <3>3. F[m - 1] \in Nat
      BY <3>1
    <3>. QED BY <3>1, <3>2, <3>3
  <2>. QED BY <2>1, <2>2
<1>5. ASSUME NEW g \in Nat PROVE i <= F[g] <=> m <= g
  <2>1. CASE m <= g
    <3>1. F[m] <= F[g] /\ F[m] \in Nat /\ F[g] \in Nat
      BY <1>3, <2>1
    <3>. QED BY <1>3, <2>1, <3>1
  <2>2. CASE ~ (m <= g)
    <3>1. m - 1 \in Nat /\ g <= m - 1
      BY <1>3, <2>2
    <3>2. F[g] <= F[m - 1] /\ F[m - 1] \in Nat /\ F[g] \in Nat
      BY <3>1
    <3>. QED BY <1>4, <2>2, <3>2
  <2>. QED BY <2>1, <2>2
<1>. QED BY <1>3, <1>4, <1>5 DEF m

\* The frequency of the i-th value is the first that i values reach.
LEMMA AscendingFacts ==
  ASSUME NEW T, IsFiniteSet(T)
  PROVE  /\ DOMAIN AscendingFrequencies(T) = 1 .. Distinct(T, 1)
         /\ Len(AscendingFrequencies(T)) = Distinct(T, 1)
         /\ AscendingFrequencies(T) \in Seq(Nat \ {0})
         /\ \A i \in 1 .. Distinct(T, 1) :
              /\ AscendingFrequencies(T)[i] \in 1 .. Cardinality(T)
              /\ ValuesUpTo(T, AscendingFrequencies(T)[i] - 1) < i
              /\ i <= ValuesUpTo(T, AscendingFrequencies(T)[i])
              /\ \A g \in Nat : i <= ValuesUpTo(T, g) <=> AscendingFrequencies(T)[i] <= g
<1> DEFINE N == Cardinality(T)
           D == Distinct(T, 1)
           F == [f \in Nat |-> ValuesUpTo(T, f)]
           A == AscendingFrequencies(T)
<1>1. N \in Nat /\ D \in Nat
  BY FS_CardinalityType, ValuesFinite
<1>2. F \in [Nat -> Nat] /\ F[0] = 0 /\ F[N] = D
  <2>1. \A f \in Nat : ValuesUpTo(T, f) \in Nat
    BY UpToBounds
  <2>2. ValuesUpTo(T, N) = D
    BY <1>1, UpToBounds
  <2>. QED BY <1>1, <2>1, <2>2, NoneUpToZero
<1>3. \A f, g \in Nat : f <= g => F[f] <= F[g]
  BY UpToBounds
<1>4. ASSUME NEW i \in 1 .. D
      PROVE  /\ A[i] \in 1 .. N /\ F[A[i] - 1] < i /\ i <= F[A[i]]
             /\ \A g \in Nat : i <= F[g] <=> A[i] <= g
  <2>1. A[i] = Min({f \in 1 .. N : i <= F[f]})
    <3>1. {f \in 1 .. N : i <= F[f]} = {f \in 1 .. N : i <= ValuesUpTo(T, f)}
      OBVIOUS
    <3>. QED BY <3>1 DEF AscendingFrequencies
  <2>2. i \in 1 .. F[N]
    BY <1>2
  <2> DEFINE m == A[i]
  <2> HIDE DEF m, F, N
  <2>3. m = Min({f \in 1 .. N : i <= F[f]})
    BY <2>1 DEF m
  <2>4. /\ m \in 1 .. N /\ F[m - 1] < i /\ i <= F[m]
        /\ \A g \in Nat : i <= F[g] <=> m <= g
    BY <1>1, <1>2, <1>3, <2>2, <2>3, FirstReaching
  <2>. QED BY <2>4 DEF m
<1>5. ASSUME NEW i \in 1 .. D PROVE A[i] - 1 \in Nat /\ A[i] \in Nat \ {0}
  <2>1. A[i] \in 1 .. N
    BY <1>4
  <2> HIDE DEF A, N
  <2>. QED BY <1>1, <2>1
<1>6. DOMAIN A = 1 .. D
  BY DEF AscendingFrequencies
<1>7. \A f \in Nat : F[f] = ValuesUpTo(T, f)
  OBVIOUS
<1>8. A \in [1 .. D -> Nat \ {0}]
  BY <1>5 DEF AscendingFrequencies
<1> HIDE DEF A, F, N, D
<1>9. A \in Seq(Nat \ {0}) /\ Len(A) = D
  BY <1>1, <1>8
<1>10. ASSUME NEW i \in 1 .. D
       PROVE  /\ A[i] \in 1 .. N /\ ValuesUpTo(T, A[i] - 1) < i /\ i <= ValuesUpTo(T, A[i])
              /\ \A g \in Nat : i <= ValuesUpTo(T, g) <=> A[i] <= g
  BY <1>4, <1>5, <1>7
<1>. QED BY <1>6, <1>9, <1>10 DEF A, N, D

\* The values of one frequency are a band.
LEMMA AscendingBand ==
  ASSUME NEW T, IsFiniteSet(T), NEW i \in 1 .. Distinct(T, 1), NEW f \in Nat \ {0},
         ValuesUpTo(T, f - 1) < i, i <= ValuesUpTo(T, f)
  PROVE  AscendingFrequencies(T)[i] = f
<1> DEFINE a == AscendingFrequencies(T)[i]
<1>1. /\ a \in Nat
      /\ \A g \in Nat : i <= ValuesUpTo(T, g) <=> a <= g
  BY AscendingFacts
<1> HIDE DEF a
<1>2. f - 1 \in Nat /\ ValuesUpTo(T, f - 1) \in Nat
  BY UpToBounds
<1>3. a <= f /\ ~ (a <= f - 1)
  BY <1>1, <1>2
<1>. QED BY <1>1, <1>3 DEF a

\* The band of a row is the first whose end is not before the row.
LEMMA BandOfFacts ==
  ASSUME NEW T, IsFiniteSet(T), NEW r \in 1 .. Cardinality(T)
  PROVE  /\ BandOf(T, r) \in 1 .. Cardinality(T)
         /\ RowsUpTo(T, BandOf(T, r) - 1) < r /\ r <= RowsUpTo(T, BandOf(T, r))
         /\ \A g \in Nat : r <= RowsUpTo(T, g) <=> BandOf(T, r) <= g
<1> DEFINE N == Cardinality(T)
           F == [f \in Nat |-> RowsUpTo(T, f)]
           b == BandOf(T, r)
<1>1. N \in Nat
  BY FS_CardinalityType
<1>2. F \in [Nat -> Nat] /\ F[0] = 0 /\ F[N] = N
  <2>1. \A f \in Nat : RowsUpTo(T, f) \in Nat
    BY UpToBounds
  <2>2. RowsUpTo(T, N) = N
    BY <1>1, UpToBounds
  <2>. QED BY <1>1, <2>1, <2>2, NoneUpToZero
<1>3. \A f, g \in Nat : f <= g => F[f] <= F[g]
  BY UpToBounds
<1>4. b = Min({f \in 1 .. N : r <= F[f]})
  <2>1. {f \in 1 .. N : r <= F[f]} = {f \in 1 .. N : r <= RowsUpTo(T, f)}
    OBVIOUS
  <2>. QED BY <2>1 DEF BandOf
<1>5. r \in 1 .. F[N]
  BY <1>2
<1>6. \A f \in Nat : F[f] = RowsUpTo(T, f)
  OBVIOUS
<1> HIDE DEF b, F
<1>7. /\ b \in 1 .. N /\ F[b - 1] < r /\ r <= F[b]
      /\ \A g \in Nat : r <= F[g] <=> b <= g
  <2> HIDE DEF N
  <2>. QED BY <1>1, <1>2, <1>3, <1>4, <1>5, FirstReaching
<1>8. b \in Nat /\ b - 1 \in Nat
  BY <1>1, <1>7
<1>. QED BY <1>6, <1>7, <1>8 DEF b

\* The row of the o-th of the rows of value i.
RowOf(T, i, o) ==
  LET f == AscendingFrequencies(T)[i]
  IN  RowsUpTo(T, f - 1) + (i - 1 - ValuesUpTo(T, f - 1)) * f + o

\* A number below n times the divisor has a quotient below n.
LEMMA QuotientBelow ==
  ASSUME NEW k \in Nat, NEW d \in Nat \ {0}, NEW n \in Nat, k < n * d
  PROVE  k \div d \in Nat /\ k \div d < n
<1> DEFINE q == k \div d
<1>1. q \in Nat /\ k = q * d + (k % d) /\ k % d \in 0 .. d - 1
  BY DivMod
<1> HIDE DEF q
<1>2. q * d \in Nat
  BY <1>1
<1>3. SUFFICES ASSUME n <= q PROVE FALSE
  BY <1>1 DEF q
<1>4. n * d <= q * d /\ n * d \in Nat
  BY <1>2, <1>1, <1>3, ProductMonotone
<1>. QED BY <1>2, <1>1, <1>4

(* Every row is one of those of a value, at its place among them: the row    *)
(* numbers are decoded into value and occurrence without a remainder.        *)
LEMMA BandedRowFacts ==
  ASSUME NEW T, IsFiniteSet(T), NEW r \in 1 .. Cardinality(T)
  PROVE  \E i \in 1 .. Distinct(T, 1) : \E o \in 1 .. AscendingFrequencies(T)[i] :
           /\ BandedRow(T, r) = <<i, o>>
           /\ r = RowOf(T, i, o)
<1> DEFINE f == BandOf(T, r)
           R0 == RowsUpTo(T, f - 1)
           V0 == ValuesUpTo(T, f - 1)
           V1 == ValuesUpTo(T, f)
           local == r - 1 - R0
           q == local \div f
           m == local % f
<1>1. f \in Nat \ {0} /\ R0 < r /\ r <= RowsUpTo(T, f)
  BY FS_CardinalityType, BandOfFacts
<1>2. R0 \in Nat /\ RowsUpTo(T, f) \in Nat /\ V0 \in Nat /\ V1 \in Nat /\ V0 <= V1 /\ V1 <= Distinct(T, 1)
  <2>1. f - 1 \in Nat /\ f \in Nat /\ f - 1 <= f /\ Distinct(T, 1) \in Nat /\ Cardinality(T) \in Nat
    BY <1>1, ValuesFinite, FS_CardinalityType
  <2>2. R0 \in Nat /\ V0 \in Nat /\ V0 <= V1
    BY <2>1, UpToBounds
  <2>3. RowsUpTo(T, f) \in Nat /\ V1 \in 0 .. Distinct(T, 1)
    BY <2>1, UpToBounds
  <2>. QED BY <2>1, <2>2, <2>3
<1>3. RowsUpTo(T, f) - R0 = (V1 - V0) * f
  BY <1>1, BandRows
<1>4. BandedRow(T, r) = <<1 + V0 + q, 1 + m>>
  BY DEF BandedRow
<1>5. RowOf(T, 1 + V0 + q, 1 + m) = r /\ 1 + V0 + q \in 1 .. Distinct(T, 1)
      /\ AscendingFrequencies(T)[1 + V0 + q] = f /\ 1 + m \in 1 .. f
  <2>1. r \in Nat
    OBVIOUS
  <2> HIDE DEF f, R0, V0, V1
  <2>2. local \in Nat /\ V1 - V0 \in Nat /\ local < (V1 - V0) * f
    BY <1>1, <1>2, <1>3, <2>1
  <2>3. q \in Nat /\ m \in 0 .. f - 1 /\ local = q * f + m
    <3> HIDE DEF local
    <3>. QED BY <1>1, <2>2, DivMod
  <2>4. q < V1 - V0
    <3> HIDE DEF local
    <3>. QED BY <1>1, <2>2, QuotientBelow
  <2> HIDE DEF q, m
  <2>5. 1 + V0 + q \in 1 .. Distinct(T, 1) /\ V0 < 1 + V0 + q /\ 1 + V0 + q <= V1
    BY <1>2, <2>3, <2>4, ValuesFinite
  <2>6. AscendingFrequencies(T)[1 + V0 + q] = f
    BY <1>1, <2>5, AscendingBand DEF V0, V1
  <2> DEFINE i == 1 + V0 + q
             o == 1 + m
  <2>7. i - 1 - V0 = q
    BY <1>2, <2>3
  <2>8. RowOf(T, i, o) = R0 + (i - 1 - V0) * f + o
    <3> HIDE DEF i, o
    <3>1. AscendingFrequencies(T)[i] = f
      BY <2>6 DEF i
    <3>. QED BY <3>1 DEF RowOf, R0, V0
  <2>9. q * f \in Nat
    BY <1>1, <2>3
  <2>10. r = R0 + q * f + o
    BY <1>1, <1>2, <2>1, <2>3, <2>9
  <2>11. RowOf(T, i, o) = r
    BY <2>7, <2>8, <2>10
  <2>12. o \in 1 .. f
    BY <1>1, <2>3
  <2>. QED BY <2>5, <2>6, <2>11, <2>12
<1> HIDE DEF q, m
<1>. QED BY <1>4, <1>5

\* Hence no two rows of the bands are equal.
LEMMA BandedKeysUnique ==
  ASSUME NEW T, IsFiniteSet(T)
  PROVE  /\ \A r, s \in 1 .. Cardinality(T) : BandedRow(T, r) = BandedRow(T, s) => r = s
         /\ Asked(Cardinality(T)) \in 1 .. Cardinality(T) => IsInjective(BandedKeys(T))
<1>1. ASSUME NEW r \in 1 .. Cardinality(T), NEW s \in 1 .. Cardinality(T),
             BandedRow(T, r) = BandedRow(T, s)
      PROVE  r = s
  <2>1. PICK i, o : BandedRow(T, r) = <<i, o>> /\ r = RowOf(T, i, o)
    BY BandedRowFacts
  <2>2. PICK j, u : BandedRow(T, s) = <<j, u>> /\ s = RowOf(T, j, u)
    BY BandedRowFacts
  <2>3. <<i, o>> = <<j, u>>
    BY <1>1, <2>1, <2>2
  <2>4. i = j /\ o = u
    BY <2>3
  <2>. QED BY <2>1, <2>2, <2>4
<1>2. ASSUME Asked(Cardinality(T)) \in 1 .. Cardinality(T) PROVE IsInjective(BandedKeys(T))
  <2> DEFINE n == Asked(Cardinality(T))
             keys == BandedKeys(T)
  <2>1. keys = [r \in 1 .. n |-> IF r <= Cardinality(T) THEN BandedRow(T, r) ELSE RowAfterBands(T)]
    BY DEF BandedKeys
  <2>2. \A r \in 1 .. n : r \in 1 .. Cardinality(T) /\ r <= Cardinality(T)
    <3>1. n \in 1 .. Cardinality(T) /\ Cardinality(T) \in Nat
      BY <1>2, FS_CardinalityType
    <3> HIDE DEF n
    <3>. QED BY <3>1
  <2> HIDE DEF n, keys
  <2>3. DOMAIN keys = 1 .. n /\ \A r \in 1 .. n : keys[r] = BandedRow(T, r)
    BY <2>1, <2>2
  <2>4. IsInjective(keys)
    BY <1>1, <2>2, <2>3 DEF IsInjective
  <2>. QED BY <2>4 DEF keys
<1>. QED BY <1>1, <1>2

\* Quotient and remainder are determined by their sum.
LEMMA QuotientIs ==
  ASSUME NEW n \in Nat, NEW d \in Nat \ {0}, NEW q \in Nat, NEW m \in 0 .. d - 1,
         n = q * d + m
  PROVE  n \div d = q /\ n % d = m
<1> DEFINE u == n \div d
           v == n % d
<1>1. u \in Nat /\ v \in 0 .. d - 1 /\ n = u * d + v
  BY DivMod
<1> HIDE DEF u, v
<1>2. u * d \in Nat /\ q * d \in Nat /\ (u + 1) * d = u * d + d /\ (q + 1) * d = q * d + d
  BY <1>1
<1>3. ~ (u + 1 <= q)
  <2>1. SUFFICES ASSUME u + 1 <= q PROVE FALSE
    OBVIOUS
  <2>2. (u + 1) * d <= q * d
    BY <1>1, <2>1, ProductMonotone
  <2>. QED BY <1>1, <1>2, <2>2
<1>4. ~ (q + 1 <= u)
  <2>1. SUFFICES ASSUME q + 1 <= u PROVE FALSE
    OBVIOUS
  <2>2. (q + 1) * d <= u * d
    BY <1>1, <2>1, ProductMonotone
  <2>. QED BY <1>1, <1>2, <2>2
<1>5. u = q
  BY <1>1, <1>3, <1>4
<1>6. v = m
  BY <1>1, <1>2, <1>5
<1>. QED BY <1>5, <1>6 DEF u, v

\* Each of the rows of a value is generated.
LEMMA BandedRowReached ==
  ASSUME NEW T, IsFiniteSet(T), NEW i \in 1 .. Distinct(T, 1),
         NEW o \in 1 .. AscendingFrequencies(T)[i]
  PROVE  \E r \in 1 .. Cardinality(T) : BandedRow(T, r) = <<i, o>>
<1> DEFINE f == AscendingFrequencies(T)[i]
           R0 == RowsUpTo(T, f - 1)
           R1 == RowsUpTo(T, f)
           V0 == ValuesUpTo(T, f - 1)
           V1 == ValuesUpTo(T, f)
           r == RowOf(T, i, o)
           k == i - 1 - V0
           m == o - 1
<1>1. f \in 1 .. Cardinality(T) /\ V0 < i /\ i <= V1 /\ Cardinality(T) \in Nat
  BY AscendingFacts, FS_CardinalityType
<1>2. f \in Nat \ {0} /\ f - 1 \in Nat
  <2> HIDE DEF f, V0, V1
  <2>. QED BY <1>1
<1>3. R0 \in Nat /\ R1 \in Nat /\ R1 <= Cardinality(T) /\ V0 \in Nat /\ V1 \in Nat /\ R1 - R0 = (V1 - V0) * f
  <2>1. R0 \in Nat /\ V0 \in Nat
    BY <1>2, UpToBounds
  <2>2. R1 \in 0 .. Cardinality(T) /\ V1 \in 0 .. Distinct(T, 1) /\ Distinct(T, 1) \in Nat
    BY <1>2, UpToBounds, ValuesFinite
  <2>3. R1 - R0 = (V1 - V0) * f
    BY <1>2, BandRows
  <2> HIDE DEF f, R0, R1, V0, V1
  <2>. QED BY <1>1, <2>1, <2>2, <2>3
<1>4. r = R0 + k * f + o
  BY DEF RowOf
<1>5. o \in 1 .. f /\ i \in Nat
  OBVIOUS
<1> HIDE DEF f, R0, R1, V0, V1, r
<1>6. k \in Nat /\ m \in 0 .. f - 1 /\ k + 1 <= V1 - V0 /\ V1 - V0 \in Nat
  BY <1>1, <1>2, <1>3, <1>5
<1> HIDE DEF k
<1>7. k * f \in Nat /\ (k + 1) * f = k * f + f /\ (k + 1) * f <= (V1 - V0) * f
  BY <1>2, <1>6, ProductMonotone
<1>8. R0 < r /\ r <= R1 /\ r \in 1 .. Cardinality(T)
  BY <1>1, <1>2, <1>3, <1>4, <1>5, <1>7
<1>9. BandOf(T, r) = f
  <2>1. /\ BandOf(T, r) \in 1 .. Cardinality(T)
        /\ \A g \in Nat : r <= RowsUpTo(T, g) <=> BandOf(T, r) <= g
    BY <1>8, BandOfFacts
  <2> DEFINE b == BandOf(T, r)
  <2> HIDE DEF b
  <2>2. b \in Nat /\ b <= f /\ ~ (b <= f - 1)
    BY <1>1, <1>2, <1>3, <1>8, <2>1 DEF R0, R1, b
  <2>. QED BY <1>2, <2>2 DEF b
<1> DEFINE local == r - 1 - R0
<1>10. local = k * f + m /\ local \in Nat
  BY <1>3, <1>4, <1>5, <1>6, <1>7, <1>8
<1>11. local \div f = k /\ local % f = m
  <2> HIDE DEF local, m
  <2>. QED BY <1>2, <1>6, <1>10, QuotientIs
<1>12. 1 + V0 + k = i /\ 1 + m = o
  BY <1>3, <1>5, <1>6 DEF k
<1>13. BandedRow(T, r) = <<1 + V0 + (local \div f), 1 + (local % f)>>
  BY <1>9 DEF BandedRow, R0, V0
<1> HIDE DEF local
<1>. QED BY <1>8, <1>11, <1>12, <1>13

-----------------------------------------------------------------------------
(* A source table of two key columns.                                        *)
PairTables == {p \in SUBSET [1 .. 2 -> Int] : p # {} /\ IsFiniteSet(p)}

\* A pair table has at most as many rows as there are combinations.
LEMMA PairTableCounts ==
  ASSUME NEW p \in PairTables
  PROVE  /\ IsFiniteSet(p) /\ Cardinality(p) \in Nat \ {0}
         /\ \A c \in 1 .. 2 : Distinct(p, c) \in Nat \ {0} /\ Distinct(p, c) <= Cardinality(p)
         /\ Cardinality(p) <= Distinct(p, 1) * Distinct(p, 2)
<1> DEFINE V == Values(p, 1) \X Values(p, 2)
           f == [t \in p |-> <<t[1], t[2]>>]
<1>1. IsFiniteSet(p) /\ p # {} /\ p \subseteq [1 .. 2 -> Int]
  BY DEF PairTables
<1>2. IsFiniteSet(Values(p, 1)) /\ IsFiniteSet(Values(p, 2))
  BY <1>1, ValuesFinite
<1>3. IsFiniteSet(V) /\ Cardinality(V) = Distinct(p, 1) * Distinct(p, 2)
  BY <1>2, FS_Product DEF Distinct
<1>4. f \in [p -> V]
  BY DEF Values
<1>5. ASSUME NEW t \in p, NEW u \in p, f[t] = f[u] PROVE t = u
  <2>1. <<t[1], t[2]>> = <<u[1], u[2]>>
    BY <1>5
  <2>2. t[1] = u[1] /\ t[2] = u[2]
    BY <2>1
  <2>3. t \in [1 .. 2 -> Int] /\ u \in [1 .. 2 -> Int]
    BY <1>1
  <2>. QED BY <2>2, <2>3
<1>6. f \in Injection(p, V)
  <2> HIDE DEF V, f
  <2>. QED BY <1>4, <1>5 DEF Injection, IsInjective
<1>7. Cardinality(p) <= Cardinality(V)
  <2> HIDE DEF V, f
  <2>. QED BY <1>3, <1>6, FS_Injection
<1>8. \A c \in 1 .. 2 : Distinct(p, c) \in Nat \ {0} /\ Distinct(p, c) <= Cardinality(p)
  BY <1>1, ValuesFinite
<1>9. Cardinality(p) \in Nat \ {0}
  BY <1>1, FS_CardinalityType, FS_EmptySet
<1>. QED BY <1>1, <1>3, <1>7, <1>8, <1>9

\* The rows of a value of the first column differ in the second.
LEMMA FrequencyBelow ==
  ASSUME NEW p \in PairTables, NEW i \in 1 .. Distinct(p, 1)
  PROVE  AscendingFrequencies(p)[i] <= Distinct(p, 2)
<1> DEFINE f == AscendingFrequencies(p)[i]
<1>1. IsFiniteSet(p) /\ Cardinality(p) \in Nat
  BY PairTableCounts
<1>2. f \in 1 .. Cardinality(p) /\ ValuesUpTo(p, f - 1) < i /\ i <= ValuesUpTo(p, f)
  BY <1>1, AscendingFacts
<1> HIDE DEF f
<1>3. f \in Nat /\ f - 1 \in Nat /\ i \in Nat
  BY <1>1, <1>2
<1>4. PICK v \in Values(p, 1) : Frequency(p, v) = f
  <2>1. SUFFICES ASSUME \A v \in Values(p, 1) : Frequency(p, v) # f PROVE FALSE
    OBVIOUS
  <2>2. \A v \in Values(p, 1) : Frequency(p, v) \in Nat
    BY <1>1, FrequencyBounds
  <2>3. {v \in Values(p, 1) : Frequency(p, v) <= f} = {v \in Values(p, 1) : Frequency(p, v) <= f - 1}
    BY <1>3, <2>1, <2>2
  <2>4. ValuesUpTo(p, f) = ValuesUpTo(p, f - 1)
    BY <2>3 DEF ValuesUpTo
  <2>5. ValuesUpTo(p, f) \in Nat
    BY <1>1, <1>3, UpToBounds
  <2>. QED BY <1>2, <1>3, <2>4, <2>5
<1> DEFINE G == {t \in p : t[1] = v}
           g == [t \in G |-> t[2]]
<1>5. IsFiniteSet(Values(p, 2)) /\ IsFiniteSet(G) /\ Cardinality(G) = f
  BY <1>1, <1>4, ValuesFinite, FrequencyBounds DEF Frequency
<1>6. g \in [G -> Values(p, 2)]
  BY DEF Values
<1>7. ASSUME NEW t \in G, NEW u \in G, g[t] = g[u] PROVE t = u
  <2>1. t[1] = u[1] /\ t[2] = u[2]
    BY <1>7
  <2>2. t \in [1 .. 2 -> Int] /\ u \in [1 .. 2 -> Int]
    BY DEF PairTables
  <2>. QED BY <2>1, <2>2
<1>8. Cardinality(G) <= Cardinality(Values(p, 2))
  <2> HIDE DEF G, g
  <2>1. g \in Injection(G, Values(p, 2))
    BY <1>6, <1>7 DEF Injection, IsInjective
  <2>. QED BY <1>5, <2>1, FS_Injection
<1>. QED BY <1>5, <1>8 DEF Distinct, f

-----------------------------------------------------------------------------
(* Without a shape: turns and proportions.                                   *)

\* More rows than the product of the distances are further apart.
LEMMA ProportionalRowsDiffer ==
  ASSUME NEW d \in Nat \ {0}, NEW e \in Nat \ {0}, NEW rows \in Nat \ {0}, rows <= d * e,
         NEW a \in Nat, NEW b \in Nat, a < b,
         a % d = b % d, (a * e) \div rows = (b * e) \div rows
  PROVE  FALSE
<1>1. d <= b - a
  BY SameRemainder
<1>2. b - a \in Nat
  OBVIOUS
<1>3. d * e <= (b - a) * e
  BY <1>2, <1>1, ProductMonotone
<1>4. a * e \in Nat /\ b * e \in Nat /\ d * e \in Nat /\ (b - a) * e = b * e - a * e
  OBVIOUS
<1>5. a * e < b * e
  BY <1>3, <1>4
<1>6. b * e - a * e < rows
  BY <1>4, <1>5, SameQuotient
<1>. QED BY <1>3, <1>4, <1>6

\* Every quotient below e is taken.
LEMMA ProportionalReached ==
  ASSUME NEW e \in Nat \ {0}, NEW rows \in Nat \ {0}, e <= rows, NEW k \in 0 .. e - 1
  PROVE  \E n \in 0 .. rows - 1 : (n * e) \div rows = k
<1>1. CASE k = 0
  <2>1. 0 * e = 0 * rows + 0
    OBVIOUS
  <2>2. (0 * e) \div rows = 0
    BY <2>1, QuotientIs
  <2>. QED BY <1>1, <2>2
<1>2. CASE k # 0
  <2> DEFINE a == k * rows
             n == CeilDiv(a, e)
             m == n * e - a
  <2>1. a \in Nat \ {0}
    BY <1>2
  <2>2. n \in Nat \ {0} /\ a <= n * e /\ \A j \in Nat : a <= j * e => n <= j
    <3> HIDE DEF a
    <3>. QED BY <2>1, CeilDivBounds
  <2> HIDE DEF n
  <2>3. n - 1 \in Nat /\ n * e \in Nat /\ (n - 1) * e = n * e - e
    BY <2>2
  <2>4. n * e < a + e
    <3> HIDE DEF a
    <3>1. ~ (a <= (n - 1) * e)
      BY <2>2, <2>3
    <3>. QED BY <2>1, <2>3, <3>1
  <2>5. a + rows = (k + 1) * rows /\ (k + 1) * rows <= e * rows /\ e * rows = rows * e /\ rows * e \in Nat
    BY ProductMonotone
  <2> HIDE DEF a
  <2>6. n * e < rows * e
    BY <2>1, <2>3, <2>4, <2>5
  <2>7. ~ (rows <= n)
    BY <2>2, <2>3, <2>5, <2>6, ProductMonotone
  <2>8. m \in 0 .. rows - 1 /\ n * e = a + m
    BY <2>1, <2>2, <2>3, <2>4
  <2>9. (n * e) \div rows = k
    <3> DEFINE ne == n * e
    <3>1. ne = k * rows + m /\ ne \in Nat
      BY <2>3, <2>8 DEF a
    <3> HIDE DEF ne, m
    <3>2. ne \div rows = k
      BY <2>8, <3>1, QuotientIs
    <3>. QED BY <3>2 DEF ne
  <2>. QED BY <2>2, <2>7, <2>9
<1>. QED BY <1>1, <1>2

(* One column turns, the other advances in proportion to the row: no two rows *)
(* are equal, as of a key in part of foreign keys, and each value of the     *)
(* second column is taken.                                                   *)
THEOREM ProportionalKeysCorrect ==
  ASSUME NEW p \in PairTables, Asked(Cardinality(p)) \in 1 .. Cardinality(p)
  PROVE  /\ DOMAIN ProportionalKeys(p) = 1 .. Asked(Cardinality(p))
         /\ IsInjective(ProportionalKeys(p))
         /\ \A r \in 1 .. Asked(Cardinality(p)) :
              \E x \in 1 .. Distinct(p, 1) : \E y \in 1 .. Distinct(p, 2) :
                ProportionalKeys(p)[r] = <<x, y>>
         /\ Asked(Cardinality(p)) = Cardinality(p) =>
              \A y \in 1 .. Distinct(p, 2) : \E r \in 1 .. Cardinality(p) :
                ProportionalKeys(p)[r][2] = y
<1> DEFINE d == Distinct(p, 1)
           e == Distinct(p, 2)
           rows == Cardinality(p)
           asked == Asked(rows)
           keys == ProportionalKeys(p)
           X(r) == (r - 1) % d
           Y(r) == ((r - 1) * e) \div rows
<1>1. d \in Nat \ {0} /\ e \in Nat \ {0} /\ rows \in Nat \ {0} /\ e <= rows /\ rows <= d * e
  BY PairTableCounts
<1>2. keys = [r \in 1 .. asked |-> <<1 + X(r), 1 + Y(r)>>]
  BY DEF ProportionalKeys
<1> HIDE DEF asked
<1>3. asked \in 1 .. rows
  BY DEF asked
<1> HIDE DEF d, e, rows, keys
<1>4. \A r \in 1 .. asked : r \in 1 .. rows
  BY <1>3, <1>1
<1>5. ASSUME NEW r \in 1 .. rows
      PROVE  X(r) \in 0 .. d - 1 /\ Y(r) \in 0 .. e - 1
  <2>1. r - 1 \in Nat /\ r - 1 < rows
    BY <1>1
  <2> DEFINE k == r - 1
             ke == k * e
  <2>2. ke \in Nat
    BY <1>1, <2>1
  <2>3. X(r) \in 0 .. d - 1
    BY <1>1, <2>1, DivMod
  <2>4. ke < e * rows
    <3>1. (k + 1) * e <= rows * e /\ (k + 1) * e = ke + e /\ rows * e = e * rows
      BY <1>1, <2>1, ProductMonotone
    <3>2. e * rows \in Nat
      BY <1>1
    <3> HIDE DEF ke, k
    <3>. QED BY <1>1, <2>2, <3>1, <3>2
  <2>5. ke \div rows \in Nat /\ ke \div rows < e
    <3> HIDE DEF ke
    <3>. QED BY <1>1, <2>2, <2>4, QuotientBelow
  <2>6. Y(r) = ke \div rows
    OBVIOUS
  <2> HIDE DEF ke
  <2>7. Y(r) \in 0 .. e - 1
    BY <1>1, <2>5, <2>6
  <2>. QED BY <2>3, <2>7
<1> HIDE DEF X, Y
<1>6. ASSUME NEW r \in 1 .. asked, NEW s \in 1 .. asked, keys[r] = keys[s] PROVE r = s
  <2>1. <<1 + X(r), 1 + Y(r)>> = <<1 + X(s), 1 + Y(s)>>
    BY <1>2, <1>6
  <2>2. X(r) = X(s) /\ Y(r) = Y(s)
    <3>1. 1 + X(r) = 1 + X(s) /\ 1 + Y(r) = 1 + Y(s)
      BY <2>1
    <3>2. X(r) \in Int /\ X(s) \in Int /\ Y(r) \in Int /\ Y(s) \in Int
      BY <1>5, <1>4
    <3>. QED BY <3>1, <3>2
  <2>3. ASSUME NEW u \in 1 .. rows, NEW v \in 1 .. rows, u < v, X(u) = X(v), Y(u) = Y(v)
        PROVE  FALSE
    <3> DEFINE a == u - 1
               b == v - 1
    <3>1. a \in Nat /\ b \in Nat /\ a < b
      BY <2>3
    <3>2. a % d = b % d /\ (a * e) \div rows = (b * e) \div rows
      BY <2>3 DEF X, Y
    <3> HIDE DEF a, b
    <3>. QED BY <1>1, <3>1, <3>2, ProportionalRowsDiffer
  <2>4. ~ (r < s) /\ ~ (s < r)
    BY <1>4, <2>2, <2>3
  <2>. QED BY <2>4
<1>7. ASSUME NEW r \in 1 .. asked
      PROVE  \E x \in 1 .. d : \E y \in 1 .. e : keys[r] = <<x, y>>
  <2>1. X(r) \in 0 .. d - 1 /\ Y(r) \in 0 .. e - 1
    BY <1>5, <1>4
  <2>2. 1 + X(r) \in 1 .. d /\ 1 + Y(r) \in 1 .. e
    BY <1>1, <2>1
  <2>. QED BY <1>2, <2>2
<1>8. ASSUME asked = rows, NEW y \in 1 .. e PROVE \E r \in 1 .. rows : keys[r][2] = y
  <2>1. y - 1 \in 0 .. e - 1
    BY <1>1
  <2>2. PICK n \in 0 .. rows - 1 : (n * e) \div rows = y - 1
    BY <1>1, <2>1, ProportionalReached
  <2>3. n + 1 \in 1 .. rows /\ (n + 1) - 1 = n
    BY <1>1
  <2>4. Y(n + 1) = y - 1
    BY <2>2, <2>3 DEF Y
  <2>5. keys[n + 1][2] = 1 + (y - 1)
    BY <1>2, <1>8, <2>3, <2>4
  <2>. QED BY <2>3, <2>5
<1>9. DOMAIN keys = 1 .. asked
  BY <1>2
<1>. QED BY <1>6, <1>7, <1>8, <1>9 DEF IsInjective, d, e, rows, asked, keys

-----------------------------------------------------------------------------
(* Keys without foreign keys: digits of a mixed-radix number.                *)

\* Induction over an interval of naturals.
LEMMA UpTheInterval ==
  ASSUME NEW n \in Nat, NEW S, 1 \in S, \A k \in 1 .. n - 1 : k \in S => k + 1 \in S
  PROVE  1 .. n \subseteq S
<1> DEFINE W == {k \in 1 .. n : k \notin S}
<1>1. SUFFICES ASSUME W # {} PROVE FALSE
  OBVIOUS
<1>2. W \in SUBSET Nat
  OBVIOUS
<1>3. Min(W) \in W /\ \A y \in W : Min(W) <= y
  <2> HIDE DEF W
  <2>. QED BY <1>1, <1>2, LeastElement
<1>4. PICK k \in W : \A y \in W : k <= y
  BY <1>3
<1>5. k - 1 \in 1 .. n - 1 /\ k - 1 \notin W
  BY <1>4
<1>6. k - 1 \in S
  BY <1>5
<1>. QED BY <1>4, <1>5, <1>6

\* A finite set of integers has a least one.
LEMMA LeastInteger ==
  ASSUME NEW S \in SUBSET Int, S # {}, IsFiniteSet(S)
  PROVE  Min(S) \in S /\ \A y \in S : Min(S) <= y
<1> DEFINE n == Cardinality(S)
<1>1. n \in Nat \ {0}
  BY FS_CardinalityType, FS_EmptySet
<1>2. PICK f : f \in Bijection(1 .. n, S)
  BY FS_CardinalityType DEF ExistsBijection
<1> DEFINE W == {k \in 1 .. n : \E m \in 1 .. k : \A i \in 1 .. k : f[m] <= f[i]}
<1>3. \A i \in 1 .. n : f[i] \in Int
  BY <1>2 DEF Bijection, Injection
<1> HIDE DEF n
<1>4. 1 \in W
  BY <1>1, <1>3
<1>5. ASSUME NEW k \in 1 .. n - 1, k \in W PROVE k + 1 \in W
  <2>1. PICK m \in 1 .. k : \A i \in 1 .. k : f[m] <= f[i]
    BY <1>5
  <2>2. /\ k + 1 \in 1 .. n /\ k \in 1 .. n /\ m \in 1 .. k + 1 /\ k + 1 \in 1 .. k + 1
        /\ \A i \in 1 .. k + 1 : i \in 1 .. k \/ i = k + 1
        /\ \A i \in 1 .. k : i \in 1 .. n
    BY <1>1
  <2>3. CASE f[m] <= f[k + 1]
    <3>1. \A i \in 1 .. k + 1 : f[m] <= f[i]
      BY <2>1, <2>2, <2>3
    <3>. QED BY <2>2, <3>1
  <2>4. CASE ~ (f[m] <= f[k + 1])
    <3>1. f[m] \in Int /\ f[k + 1] \in Int
      BY <1>3, <2>2
    <3>2. \A i \in 1 .. k + 1 : f[k + 1] <= f[i]
      BY <1>3, <2>1, <2>2, <2>4, <3>1
    <3>. QED BY <2>2, <3>2
  <2>. QED BY <2>3, <2>4
<1>6. n \in W
  <2>1. 1 .. n \subseteq W
    <3> HIDE DEF W
    <3>. QED BY <1>1, <1>4, <1>5, UpTheInterval
  <2>. QED BY <1>1, <2>1
<1>7. PICK m \in 1 .. n : \A i \in 1 .. n : f[m] <= f[i]
  BY <1>6
<1>8. \A y \in S : \E i \in 1 .. n : f[i] = y
  BY <1>2 DEF Bijection, Surjection, n
<1>9. f[m] \in S /\ \A y \in S : f[m] <= y
  BY <1>2, <1>7, <1>8 DEF Bijection, Injection, n
<1>. QED BY <1>9 DEF Min

\* The values that n steps reach from a first one on.
StepsOf(n, V, base, g) ==
  CHOOSE f : f \in [0 .. n -> V] /\ f[0] = base /\ \A j \in 1 .. n : f[j] = g[j][f[j - 1]]

\* Steps can be taken from any first value on.
LEMMA StepsTaken ==
  ASSUME NEW n \in Nat, NEW V, NEW base \in V, NEW g \in [1 .. n -> [V -> V]]
  PROVE  /\ StepsOf(n, V, base, g) \in [0 .. n -> V]
         /\ StepsOf(n, V, base, g)[0] = base
         /\ \A j \in 1 .. n : StepsOf(n, V, base, g)[j] = g[j][StepsOf(n, V, base, g)[j - 1]]
<1> DEFINE Taken(f, k) == f[0] = base /\ \A j \in 1 .. k : f[j] = g[j][f[j - 1]]
           S == {k \in 1 .. n + 1 : \E f \in [0 .. k - 1 -> V] : Taken(f, k - 1)}
<1>1. 1 \in S
  <2> DEFINE f == [j \in 0 .. 0 |-> base]
  <2>1. f \in [0 .. 1 - 1 -> V] /\ Taken(f, 1 - 1)
    OBVIOUS
  <2> HIDE DEF f
  <2>. QED BY <2>1
<1>2. ASSUME NEW k \in 1 .. (n + 1) - 1, k \in S PROVE k + 1 \in S
  <2>1. PICK f \in [0 .. k - 1 -> V] : Taken(f, k - 1)
    BY <1>2
  <2> DEFINE h == [j \in 0 .. k |-> IF j = k THEN g[k][f[k - 1]] ELSE f[j]]
  <2>2. k \in 1 .. n /\ k - 1 \in 0 .. k - 1 /\ k \in Nat
    OBVIOUS
  <2>3. g[k][f[k - 1]] \in V
    <3>1. g[k] \in [V -> V] /\ f[k - 1] \in V
      BY <2>2
    <3>. QED BY <3>1
  <2>4. h \in [0 .. k -> V]
    BY <2>2, <2>3
  <2>5. h[0] = base
    BY <2>1, <2>2
  <2>6. ASSUME NEW j \in 1 .. k PROVE h[j] = g[j][h[j - 1]]
    <3>1. CASE j = k
      <4>1. h[k - 1] = f[k - 1] /\ h[k] = g[k][f[k - 1]]
        BY <2>2
      <4>. QED BY <3>1, <4>1
    <3>2. CASE j # k
      <4>1. j \in 1 .. k - 1 /\ j - 1 \in 0 .. k /\ j - 1 # k
        BY <2>2, <3>2
      <4>2. h[j] = f[j] /\ h[j - 1] = f[j - 1]
        BY <2>2, <3>2, <4>1
      <4>. QED BY <2>1, <4>1, <4>2
    <3>. QED BY <3>1, <3>2
  <2> HIDE DEF h
  <2>7. (k + 1) - 1 = k /\ k + 1 \in 1 .. n + 1
    BY <2>2
  <2>8. Taken(h, k)
    BY <2>5, <2>6
  <2> HIDE DEF Taken
  <2>. QED BY <2>4, <2>7, <2>8
<1>3. n + 1 \in S
  <2>1. 1 .. n + 1 \subseteq S
    <3> HIDE DEF S
    <3>1. n + 1 \in Nat
      OBVIOUS
    <3>. QED BY <1>1, <1>2, <3>1, UpTheInterval
  <2>2. n + 1 \in 1 .. n + 1
    OBVIOUS
  <2> HIDE DEF S
  <2>. QED BY <2>1, <2>2
<1>4. (n + 1) - 1 = n
  OBVIOUS
<1>5. \E f : f \in [0 .. n -> V] /\ Taken(f, n)
  <2> HIDE DEF Taken
  <2>. QED BY <1>3, <1>4
<1>6. \E f : f \in [0 .. n -> V] /\ f[0] = base /\ \A j \in 1 .. n : f[j] = g[j][f[j - 1]]
  <2>1. PICK f : f \in [0 .. n -> V] /\ Taken(f, n)
    <3> HIDE DEF Taken
    <3>. QED BY <1>5
  <2>2. f \in [0 .. n -> V] /\ f[0] = base /\ \A j \in 1 .. n : f[j] = g[j][f[j - 1]]
    BY <2>1
  <2>. QED BY <2>2
<1>. QED BY <1>6 DEF StepsOf

\* A table with a key of two or more columns.
IsTable(T) ==
  /\ T # {} /\ IsFiniteSet(T)
  /\ Len(CHOOSE t \in T : TRUE) \in Nat \ {0, 1}
  /\ \A t \in T : t \in [Columns(T) -> Int]

\* A table has a value of each of its columns, and a least one.
LEMMA TableCounts ==
  ASSUME NEW T, IsTable(T)
  PROVE  /\ IsFiniteSet(T) /\ Cardinality(T) \in Nat \ {0}
         /\ 1 \in Columns(T) /\ 2 \in Columns(T)
         /\ \A c \in Columns(T) :
              /\ IsFiniteSet(Values(T, c)) /\ Values(T, c) # {} /\ Values(T, c) \subseteq Int
              /\ Distinct(T, c) \in Nat \ {0} /\ Distinct(T, c) <= Cardinality(T)
              /\ Lowest(T, c) \in Int
<1>1. IsFiniteSet(T) /\ T # {} /\ \A t \in T : t \in [Columns(T) -> Int]
  BY DEF IsTable
<1>2. Cardinality(T) \in Nat \ {0}
  BY <1>1, FS_CardinalityType, FS_EmptySet
<1>3. ASSUME NEW c \in Columns(T)
      PROVE  /\ IsFiniteSet(Values(T, c)) /\ Values(T, c) # {} /\ Values(T, c) \subseteq Int
             /\ Distinct(T, c) \in Nat \ {0} /\ Distinct(T, c) <= Cardinality(T)
             /\ Lowest(T, c) \in Int
  <2>1. /\ IsFiniteSet(Values(T, c)) /\ Values(T, c) # {}
        /\ Distinct(T, c) \in Nat \ {0} /\ Distinct(T, c) <= Cardinality(T)
    BY <1>1, ValuesFinite
  <2>2. \A t \in T : t[c] \in Int
    BY <1>1
  <2>3. Values(T, c) \subseteq Int
    BY <2>2 DEF Values
  <2>4. Lowest(T, c) \in Values(T, c)
    BY <2>1, <2>3, LeastInteger DEF Lowest
  <2>. QED BY <2>1, <2>3, <2>4
<1>4. 1 \in Columns(T) /\ 2 \in Columns(T)
  <2> DEFINE n == Len(CHOOSE t \in T : TRUE)
  <2>1. n \in Nat \ {0, 1} /\ Columns(T) = 1 .. n
    BY DEF IsTable, Columns
  <2> HIDE DEF n
  <2>. QED BY <2>1
<1>. QED BY <1>1, <1>2, <1>3, <1>4

\* The stride of a column is the product of the counts before it.
LEMMA StridesFacts ==
  ASSUME NEW T, IsTable(T)
  PROVE  /\ \A c \in Columns(T) : Strides(T)[c] \in Nat \ {0}
         /\ Strides(T)[2] = 1
         /\ \A c \in Columns(T) \ {1, 2} : Strides(T)[c] = Strides(T)[c - 1] * Distinct(T, c - 1)
<1> DEFINE n == Len(CHOOSE t \in T : TRUE)
           Step(f, c) == IF c <= 2 THEN 1 ELSE f[c - 1] * Distinct(T, c - 1)
           V == Nat \ {0}
           g == [j \in 1 .. n |-> [v \in V |-> IF j <= 2 THEN 1 ELSE v * Distinct(T, j - 1)]]
<1>1. Columns(T) = 1 .. n /\ n \in Nat \ {0, 1}
  BY DEF Columns, IsTable
<1>2. \A c \in 1 .. n : Distinct(T, c) \in Nat \ {0}
  BY <1>1, TableCounts
<1> HIDE DEF n
<1>3. g \in [1 .. n -> [V -> V]]
  <2>1. ASSUME NEW j \in 1 .. n, NEW v \in Nat \ {0}
        PROVE  (IF j <= 2 THEN 1 ELSE v * Distinct(T, j - 1)) \in Nat \ {0}
    <3>1. CASE j <= 2
      BY <3>1
    <3>2. CASE ~ (j <= 2)
      <4> DEFINE d == Distinct(T, j - 1)
      <4>1. d \in Nat \ {0}
        BY <1>1, <1>2, <3>2
      <4> HIDE DEF d
      <4>2. v * d \in Nat \ {0}
        BY <4>1
      <4>. QED BY <3>2, <4>2 DEF d
    <3>. QED BY <3>1, <3>2
  <2>. QED BY <2>1
<1> DEFINE f == StepsOf(n, V, 1, g)
<1>4. f \in [0 .. n -> V] /\ \A j \in 1 .. n : f[j] = g[j][f[j - 1]]
  <2> DEFINE one == 1
  <2>1. one \in V /\ n \in Nat
    BY <1>1
  <2> HIDE DEF g, V, one, Step
  <2>2. /\ StepsOf(n, V, one, g) \in [0 .. n -> V]
        /\ \A j \in 1 .. n : StepsOf(n, V, one, g)[j] = g[j][StepsOf(n, V, one, g)[j - 1]]
    BY <1>3, <2>1, StepsTaken
  <2>. QED BY <2>2 DEF one
<1> HIDE DEF f
<1> DEFINE h == [c \in 1 .. n |-> f[c]]
<1>5. h = [c \in Columns(T) |-> Step(h, c)]
  <2>1. ASSUME NEW c \in 1 .. n PROVE h[c] = Step(h, c)
    <3>1. f[c] = g[c][f[c - 1]] /\ f[c - 1] \in Nat \ {0}
      <4>1. c - 1 \in 0 .. n
        BY <1>1
      <4> HIDE DEF g, h, Step
      <4>. QED BY <1>4, <4>1
    <3>2. f[c] = IF c <= 2 THEN 1 ELSE f[c - 1] * Distinct(T, c - 1)
      BY <3>1
    <3>3. ~ (c <= 2) => h[c - 1] = f[c - 1]
      BY <1>1
    <3>. QED BY <3>2, <3>3
  <2> HIDE DEF Step
  <2>2. h = [c \in 1 .. n |-> Step(h, c)]
    <3> DEFINE e == [c \in 1 .. n |-> Step(h, c)]
    <3>1. \A c \in 1 .. n : h[c] = e[c]
      BY <2>1
    <3>2. h \in [1 .. n -> {h[c] : c \in 1 .. n}]
      OBVIOUS
    <3> HIDE DEF h
    <3>. QED BY <3>1, <3>2
  <2>. QED BY <1>1, <2>2
<1>6. Strides(T) = CHOOSE s : s = [c \in Columns(T) |-> Step(s, c)]
  BY DEF Strides
<1>7. Strides(T) = [c \in Columns(T) |-> Step(Strides(T), c)]
  <2> HIDE DEF h, Step
  <2>. QED BY <1>5, <1>6
<1> DEFINE s == Strides(T)
<1> HIDE DEF s, h, g
<1>8. \A c \in 1 .. n : s[c] = IF c <= 2 THEN 1 ELSE s[c - 1] * Distinct(T, c - 1)
  BY <1>1, <1>7 DEF s
<1> DEFINE W == {c \in 1 .. n : s[c] \in Nat \ {0}}
<1>9. 1 \in W
  BY <1>1, <1>8
<1>10. ASSUME NEW c \in 1 .. n - 1, c \in W PROVE c + 1 \in W
  <2>1. c + 1 \in 1 .. n /\ (c + 1) - 1 = c /\ c \in 1 .. n
    BY <1>1
  <2>2. s[c + 1] = IF c + 1 <= 2 THEN 1 ELSE s[c] * Distinct(T, c)
    BY <1>8, <2>1
  <2>3. s[c] * Distinct(T, c) \in Nat \ {0}
    <3> DEFINE d == Distinct(T, c)
    <3>1. d \in Nat \ {0} /\ s[c] \in Nat \ {0}
      BY <1>2, <1>10, <2>1
    <3> DEFINE e == s[c]
    <3> HIDE DEF d, e
    <3>2. d \in Nat \ {0} /\ e \in Nat \ {0}
      BY <3>1 DEF e
    <3>3. e * d \in Nat \ {0}
      BY <3>2
    <3>. QED BY <3>3 DEF d, e
  <2>4. s[c + 1] \in Nat \ {0}
    BY <2>2, <2>3
  <2>. QED BY <2>1, <2>4
<1>11. 1 .. n \subseteq W
  <2> HIDE DEF W
  <2>. QED BY <1>1, <1>9, <1>10, UpTheInterval
<1>12. s[2] = 1
  BY <1>1, <1>8
<1>13. \A c \in (1 .. n) \ {1, 2} : s[c] = s[c - 1] * Distinct(T, c - 1)
  BY <1>1, <1>8
<1>. QED BY <1>1, <1>11, <1>12, <1>13 DEF s

\* The combinations of the values of the columns 2 .. c.
Product(T, c) == IF c = 1 THEN 1 ELSE Strides(T)[c] * Distinct(T, c)

\* The first c columns of the keys of a table.
FirstColumns(T, c) == {[i \in 1 .. c |-> t[i]] : t \in T}

\* One more column multiplies the combinations by its count.
LEMMA ProductSteps ==
  ASSUME NEW T, IsTable(T), NEW c \in Columns(T)
  PROVE  /\ Product(T, c) \in Nat \ {0}
         /\ c + 1 \in Columns(T) => /\ Strides(T)[c + 1] = Product(T, c)
                                    /\ Product(T, c + 1) = Product(T, c) * Distinct(T, c + 1)
<1>1. Columns(T) = 1 .. Len(CHOOSE t \in T : TRUE) /\ Len(CHOOSE t \in T : TRUE) \in Nat
  BY DEF Columns, IsTable
<1> DEFINE s == Strides(T)
           d == [k \in Columns(T) |-> Distinct(T, k)]
<1>2. \A k \in Columns(T) : s[k] \in Nat \ {0} /\ d[k] \in Nat \ {0}
  BY StridesFacts, TableCounts
<1>3. s[2] = 1 /\ \A k \in Columns(T) \ {1, 2} : s[k] = s[k - 1] * d[k - 1]
  <2>1. \A k \in Columns(T) \ {1, 2} : k - 1 \in Columns(T)
    BY <1>1
  <2>. QED BY <2>1, StridesFacts
<1>4. \A k \in Columns(T) : Product(T, k) = IF k = 1 THEN 1 ELSE s[k] * d[k]
  BY DEF Product
<1> HIDE DEF s, d
<1>5. c \in Nat \ {0} /\ (c + 1) - 1 = c
  BY <1>1
<1>6. Product(T, c) \in Nat \ {0}
  <2>1. \A x, y \in Nat \ {0} : x * y \in Nat \ {0}
    OBVIOUS
  <2>2. s[c] * d[c] \in Nat \ {0}
    BY <1>2, <2>1
  <2>. QED BY <1>4, <2>2
<1>7. ASSUME c + 1 \in Columns(T) PROVE s[c + 1] = Product(T, c)
  <2>1. CASE c = 1
    BY <1>3, <1>4, <2>1
  <2>2. CASE c # 1
    <3>1. c + 1 \in Columns(T) \ {1, 2}
      BY <1>5, <1>7, <2>2
    <3>2. s[c + 1] = s[c] * d[c]
      BY <1>3, <1>5, <3>1
    <3>. QED BY <1>4, <2>2, <3>2
  <2>. QED BY <2>1, <2>2
<1>8. ASSUME c + 1 \in Columns(T) PROVE Product(T, c + 1) = Product(T, c) * d[c + 1]
  <2>1. c + 1 # 1
    BY <1>5
  <2>2. Product(T, c + 1) = s[c + 1] * d[c + 1]
    BY <1>4, <1>8, <2>1
  <2>. QED BY <1>7, <1>8, <2>2
<1>. QED BY <1>6, <1>7, <1>8 DEF s, d

\* And the prefixes by no more than that.
LEMMA PrefixStep ==
  ASSUME NEW T, NEW c \in Nat \ {0},
         IsFiniteSet(FirstColumns(T, c)), IsFiniteSet(Values(T, c + 1))
  PROVE  /\ IsFiniteSet(FirstColumns(T, c + 1))
         /\ Cardinality(FirstColumns(T, c + 1)) <= Cardinality(FirstColumns(T, c)) * Distinct(T, c + 1)
<1> DEFINE P == FirstColumns(T, c + 1)
           Q == FirstColumns(T, c) \X Values(T, c + 1)
           h == [p \in P |-> <<[i \in 1 .. c |-> p[i]], p[c + 1]>>]
<1>1. ASSUME NEW p \in P PROVE h[p] \in Q
  <2>1. PICK t \in T : p = [i \in 1 .. c + 1 |-> t[i]]
    BY DEF FirstColumns
  <2>2. c + 1 \in 1 .. c + 1 /\ \A i \in 1 .. c : i \in 1 .. c + 1
    OBVIOUS
  <2>3. [i \in 1 .. c |-> p[i]] = [i \in 1 .. c |-> t[i]] /\ p[c + 1] = t[c + 1]
    BY <2>1, <2>2
  <2>4. [i \in 1 .. c |-> p[i]] \in FirstColumns(T, c) /\ p[c + 1] \in Values(T, c + 1)
    BY <2>3 DEF FirstColumns, Values
  <2>. QED BY <2>4
<1>2. ASSUME NEW p \in P, NEW q \in P, h[p] = h[q] PROVE p = q
  <2>1. PICK t : p = [i \in 1 .. c + 1 |-> t[i]]
    BY DEF FirstColumns
  <2>2. PICK u : q = [i \in 1 .. c + 1 |-> u[i]]
    BY DEF FirstColumns
  <2>3. <<[i \in 1 .. c |-> p[i]], p[c + 1]>> = <<[i \in 1 .. c |-> q[i]], q[c + 1]>>
    BY <1>2
  <2> DEFINE f(r) == [i \in 1 .. c |-> r[i]]
  <2>4. f(p) = f(q) /\ p[c + 1] = q[c + 1]
    BY <2>3
  <2>5. ASSUME NEW i \in 1 .. c PROVE p[i] = q[i]
    <3>1. f(p)[i] = p[i] /\ f(q)[i] = q[i]
      OBVIOUS
    <3> HIDE DEF f
    <3>. QED BY <2>4, <3>1
  <2>6. \A i \in 1 .. c + 1 : i \in 1 .. c \/ i = c + 1
    OBVIOUS
  <2>7. \A i \in 1 .. c + 1 : p[i] = q[i]
    BY <2>4, <2>5, <2>6
  <2>8. p = [i \in 1 .. c + 1 |-> p[i]] /\ q = [i \in 1 .. c + 1 |-> q[i]]
    BY <2>1, <2>2
  <2>. QED BY <2>7, <2>8
<1>3. h \in [P -> Q]
  BY <1>1
<1>4. IsFiniteSet(Q) /\ Cardinality(Q) = Cardinality(FirstColumns(T, c)) * Distinct(T, c + 1)
  BY FS_Product DEF Distinct
<1> HIDE DEF h, P, Q
<1>5. h \in Injection(P, Q)
  BY <1>2, <1>3 DEF Injection, IsInjective
<1>6. IsFiniteSet(P) /\ Cardinality(P) <= Cardinality(Q)
  BY <1>4, <1>5, FS_Injection
<1>. QED BY <1>4, <1>6 DEF P

\* A table has no more rows than there are combinations of its columns' values.
LEMMA TableCount ==
  ASSUME NEW T, IsTable(T), NEW n, Columns(T) = 1 .. n, n \in Nat \ {0}
  PROVE  Cardinality(T) <= Distinct(T, 1) * Product(T, n)
<1> DEFINE W == {c \in 1 .. n : /\ IsFiniteSet(FirstColumns(T, c))
                                /\ Cardinality(FirstColumns(T, c)) <= Distinct(T, 1) * Product(T, c)}
<1>1. 1 \in W
  <2> DEFINE h == [p \in FirstColumns(T, 1) |-> p[1]]
  <2>1. ASSUME NEW p \in FirstColumns(T, 1) PROVE h[p] \in Values(T, 1) /\ p = [i \in 1 .. 1 |-> h[p]]
    <3>1. PICK t \in T : p = [i \in 1 .. 1 |-> t[i]]
      BY DEF FirstColumns
    <3>2. h[p] = t[1] /\ p = [i \in 1 .. 1 |-> t[1]]
      BY <3>1
    <3>. QED BY <3>2 DEF Values
  <2>2. h \in [FirstColumns(T, 1) -> Values(T, 1)]
    BY <2>1
  <2> HIDE DEF h
  <2>3. h \in Injection(FirstColumns(T, 1), Values(T, 1))
    BY <2>1, <2>2 DEF Injection, IsInjective
  <2>4. IsFiniteSet(Values(T, 1))
    BY TableCounts
  <2>5. IsFiniteSet(FirstColumns(T, 1)) /\ Cardinality(FirstColumns(T, 1)) <= Distinct(T, 1)
    BY <2>3, <2>4, FS_Injection DEF Distinct
  <2>6. Distinct(T, 1) * Product(T, 1) = Distinct(T, 1)
    <3>1. Distinct(T, 1) \in Nat /\ Product(T, 1) = 1
      BY TableCounts DEF Product
    <3>. QED BY <3>1
  <2>. QED BY <2>5, <2>6
<1>2. ASSUME NEW c \in 1 .. n - 1, c \in W PROVE c + 1 \in W
  <2>1. c \in 1 .. n /\ c + 1 \in 1 .. n /\ c \in Nat \ {0}
    OBVIOUS
  <2>2. IsFiniteSet(FirstColumns(T, c)) /\ Cardinality(FirstColumns(T, c)) <= Distinct(T, 1) * Product(T, c)
    BY <1>2
  <2>3. IsFiniteSet(Values(T, c + 1)) /\ Distinct(T, c + 1) \in Nat \ {0} /\ Distinct(T, 1) \in Nat
    BY <2>1, TableCounts
  <2>4. Product(T, c) \in Nat /\ Product(T, c + 1) = Product(T, c) * Distinct(T, c + 1)
    BY <2>1, ProductSteps
  <2>5. /\ IsFiniteSet(FirstColumns(T, c + 1))
        /\ Cardinality(FirstColumns(T, c + 1)) <= Cardinality(FirstColumns(T, c)) * Distinct(T, c + 1)
    BY <2>1, <2>2, <2>3, PrefixStep
  <2>6. Cardinality(FirstColumns(T, c)) \in Nat /\ Cardinality(FirstColumns(T, c + 1)) \in Nat
    BY <2>2, <2>5, FS_CardinalityType
  <2> DEFINE a == Cardinality(FirstColumns(T, c))
             b == Distinct(T, 1)
             p == Product(T, c)
             d == Distinct(T, c + 1)
             e == Cardinality(FirstColumns(T, c + 1))
  <2>7. /\ a \in Nat /\ b \in Nat /\ p \in Nat /\ d \in Nat /\ e \in Nat
        /\ a <= b * p /\ e <= a * d
    BY <2>2, <2>3, <2>4, <2>5, <2>6
  <2>8. e <= b * (p * d)
    <3> HIDE DEF a, b, p, d, e
    <3>1. b * p \in Nat
      BY <2>7
    <3>2. a * d <= (b * p) * d
      BY <2>7, <3>1, ProductMonotone
    <3>3. (b * p) * d = b * (p * d) /\ a * d \in Nat /\ (b * p) * d \in Nat
      BY <2>7
    <3>. QED BY <2>7, <3>2, <3>3
  <2>. QED BY <2>1, <2>4, <2>5, <2>8
<1>3. n \in W
  <2>1. 1 .. n \subseteq W
    <3> HIDE DEF W
    <3>. QED BY <1>1, <1>2, UpTheInterval
  <2>. QED BY <2>1
<1>4. FirstColumns(T, n) = T
  <2>1. \A t \in T : t \in [1 .. n -> Int]
    BY DEF IsTable
  <2>2. \A t \in T : [i \in 1 .. n |-> t[i]] = t
    BY <2>1
  <2>. QED BY <2>2 DEF FirstColumns
<1>. QED BY <1>3, <1>4

\* The digits of a mixed-radix number, one place at a time.
LEMMA DigitsOfProduct ==
  ASSUME NEW a \in Nat, NEW s \in Nat \ {0}, NEW n \in Nat \ {0}
  PROVE  a % (s * n) = ((a \div s) % n) * s + (a % s)
<1> DEFINE q == a \div s
           r == a % s
           u == q \div n
           v == q % n
           m == v * s + r
<1>1. q \in Nat /\ r \in 0 .. s - 1 /\ a = q * s + r
  BY DivMod
<1> HIDE DEF q, r
<1>2. u \in Nat /\ v \in 0 .. n - 1 /\ q = u * n + v
  BY <1>1, DivMod
<1> HIDE DEF u, v
<1>3. q * s = u * (s * n) + v * s
  BY <1>1, <1>2
<1>4. v * s \in Nat /\ (v + 1) * s = v * s + s /\ s * n \in Nat \ {0} /\ n * s = s * n
  BY <1>2
<1>5. (v + 1) * s <= n * s
  BY <1>2, ProductMonotone
<1>6. u * (s * n) \in Nat
  BY <1>2, <1>4
<1>7. m \in 0 .. s * n - 1 /\ a = u * (s * n) + m
  BY <1>1, <1>3, <1>4, <1>5, <1>6
<1>8. a % (s * n) = m
  <2> DEFINE d == s * n
  <2>1. d \in Nat \ {0} /\ m \in 0 .. d - 1 /\ a = u * d + m
    BY <1>4, <1>7
  <2> HIDE DEF d, m
  <2>2. a % d = m
    BY <1>2, <2>1, QuotientIs
  <2>. QED BY <2>2 DEF d
<1>. QED BY <1>8 DEF q, r, v

\* Digits that are turned as far stay different.
LEMMA DigitsTurned ==
  ASSUME NEW n \in Nat \ {0}, NEW a \in 0 .. n - 1, NEW b \in 0 .. n - 1, NEW k \in Nat,
         (a + k) % n = (b + k) % n
  PROVE  a = b
<1>1. ASSUME NEW x \in 0 .. n - 1, NEW y \in 0 .. n - 1, x < y, (x + k) % n = (y + k) % n
      PROVE  FALSE
  <2> DEFINE u == x + k
             v == y + k
  <2>1. u \in Nat /\ v \in Nat /\ u < v /\ v - u < n /\ u % n = v % n
    BY <1>1
  <2>2. v - u = y - x
    OBVIOUS
  <2> HIDE DEF u, v
  <2>3. n <= v - u
    BY <2>1, SameRemainder
  <2>. QED BY <2>1, <2>3
<1>2. ~ (a < b) /\ ~ (b < a)
  BY <1>1
<1>. QED BY <1>2

\* The rows of an anchor are numbered from zero or one on.
LEMMA AnchorFacts ==
  ASSUME NEW T, IsTable(T), NEW r \in 1 .. Cardinality(T)
  PROVE  /\ Anchor(T, r) \in 0 .. Distinct(T, 1) - 1
         /\ Local(T, r) \in Nat
         /\ Local(T, r) = (r - 1) - ((Anchor(T, r) * Cardinality(T)) \div Distinct(T, 1))
<1> DEFINE k == r - 1
           d == Distinct(T, 1)
           rows == Cardinality(T)
           kd == k * d
           a == kd \div rows
           ar == a * rows
<1>1. d \in Nat \ {0} /\ rows \in Nat \ {0}
  BY TableCounts
<1>2. k \in Nat /\ k < rows
  BY <1>1
<1>3. Anchor(T, r) = a
  BY DEF Anchor
<1> HIDE DEF k, d, rows
<1>4. kd \in Nat
  BY <1>1, <1>2
<1>5. kd < d * rows
  <2>1. (k + 1) * d <= rows * d /\ (k + 1) * d = kd + d /\ rows * d = d * rows
    BY <1>1, <1>2, ProductMonotone
  <2>2. d * rows \in Nat
    BY <1>1
  <2> HIDE DEF kd
  <2>. QED BY <1>1, <1>4, <2>1, <2>2
<1> HIDE DEF kd
<1>6. a \in Nat /\ a < d
  BY <1>1, <1>4, <1>5, QuotientBelow
<1>7. kd = a * rows + (kd % rows) /\ kd % rows \in 0 .. rows - 1
  BY <1>1, <1>4, DivMod
<1> HIDE DEF a
<1>8. ar \in Nat
  BY <1>1, <1>6
<1>9. ar < (k + 1) * d
  <2>1. (k + 1) * d = kd + d
    BY <1>1, <1>2 DEF kd
  <2> HIDE DEF ar
  <2>2. ar <= kd
    BY <1>1, <1>7, <1>8, <1>4 DEF ar
  <2>. QED BY <1>1, <1>4, <1>8, <2>1, <2>2
<1>10. ar \div d \in Nat /\ ar \div d < k + 1
  <2>1. k + 1 \in Nat
    BY <1>2
  <2> HIDE DEF ar
  <2>. QED BY <1>1, <1>8, <1>9, <2>1, QuotientBelow
<1>11. Local(T, r) = k - (ar \div d)
  BY <1>3 DEF Local, k, d, rows
<1> HIDE DEF ar
<1>12. k - (ar \div d) \in Nat
  BY <1>2, <1>10
<1>13. a \in 0 .. d - 1
  BY <1>1, <1>6
<1>. QED BY <1>3, <1>11, <1>12, <1>13 DEF ar, d, k, rows

\* The digit of a row in a column, before it is turned.
Digit(T, c, r) == (Local(T, r) \div Strides(T)[c]) % Distinct(T, c)

\* Each row of an anchor turns its digit as far as the others.
LEMMA TurnedFacts ==
  ASSUME NEW T, IsTable(T), NEW c \in Columns(T), NEW r \in 1 .. Cardinality(T)
  PROVE  /\ Digit(T, c, r) \in 0 .. Distinct(T, c) - 1
         /\ Turned(T, c, r) \in 0 .. Distinct(T, c) - 1
         /\ \E shift \in Nat : \A s \in 1 .. Cardinality(T) :
              Turned(T, c, s) = (Digit(T, c, s) + Anchor(T, s) * shift) % Distinct(T, c)
<1> DEFINE n == Distinct(T, c)
           most == CeilDiv(Cardinality(T), Distinct(T, 1))
           st == Strides(T)[c]
           g == CeilDiv(most, st)
           shift == AtLeast(1, AtMost(n, g))
<1>1. n \in Nat \ {0} /\ Distinct(T, 1) \in Nat \ {0} /\ Cardinality(T) \in Nat \ {0}
  BY TableCounts
<1>2. st \in Nat \ {0}
  BY StridesFacts
<1>3. \A s : Turned(T, c, s) = (Digit(T, c, s) + Anchor(T, s) * shift) % n
  BY DEF Turned, Digit
<1>4. most \in Nat \ {0}
  BY <1>1, CeilDivBounds
<1> HIDE DEF most, st
<1>5. g \in Nat \ {0}
  BY <1>2, <1>4, CeilDivBounds
<1> HIDE DEF n, g
<1>6. shift \in Nat
  BY <1>1, <1>5 DEF AtLeast, AtMost
<1>7. Digit(T, c, r) \in 0 .. n - 1
  <2> DEFINE q == Local(T, r) \div st
  <2>1. Local(T, r) \in Nat
    BY AnchorFacts
  <2>2. q \in Nat
    BY <1>2, <2>1, DivMod
  <2>3. Digit(T, c, r) = q % n
    BY DEF Digit, n, st
  <2> HIDE DEF q
  <2>. QED BY <1>1, <2>2, <2>3, DivMod
<1> HIDE DEF shift
<1>8. Turned(T, c, r) \in 0 .. n - 1
  <2> DEFINE a == Anchor(T, r)
             t == Digit(T, c, r) + a * shift
  <2>1. a \in Nat
    BY <1>1, AnchorFacts
  <2> HIDE DEF a
  <2>2. a * shift \in Nat
    BY <1>6, <2>1
  <2>3. t \in Nat
    BY <1>1, <1>7, <2>2
  <2>4. Turned(T, c, r) = t % n
    BY <1>3 DEF a
  <2> HIDE DEF t
  <2>. QED BY <1>1, <2>3, <2>4, DivMod
<1>. QED BY <1>3, <1>6, <1>7, <1>8 DEF n

\* Two rows of an anchor differ in a digit.
LEMMA AnchoredRowsDiffer ==
  ASSUME NEW T, IsTable(T),
         NEW r \in 1 .. Cardinality(T), NEW s \in 1 .. Cardinality(T), r < s,
         Anchor(T, r) = Anchor(T, s),
         \A c \in Columns(T) \ {1} : Turned(T, c, r) = Turned(T, c, s)
  PROVE  FALSE
<1> DEFINE n == Len(CHOOSE t \in T : TRUE)
           a == Local(T, r)
           b == Local(T, s)
           W == {c \in 1 .. n : a % Product(T, c) = b % Product(T, c)}
<1>1. Columns(T) = 1 .. n /\ n \in Nat \ {0, 1}
  BY DEF Columns, IsTable
<1> HIDE DEF n
<1>2. a \in Nat /\ b \in Nat /\ b - a = s - r
  <2> DEFINE back == (Anchor(T, s) * Cardinality(T)) \div Distinct(T, 1)
  <2>1. a \in Nat /\ b \in Nat /\ a = (r - 1) - back /\ b = (s - 1) - back
    BY AnchorFacts
  <2>2. back \in Int
    <3>1. Anchor(T, s) \in Int /\ Cardinality(T) \in Nat \ {0} /\ Distinct(T, 1) \in Nat \ {0}
      BY TableCounts, AnchorFacts
    <3>2. Anchor(T, s) * Cardinality(T) \in Int
      BY <3>1
    <3>. QED BY <3>1, <3>2
  <2> HIDE DEF a, b, back
  <2>. QED BY <2>1, <2>2
<1> HIDE DEF a, b
<1>3. \A c \in 2 .. n : Digit(T, c, r) = Digit(T, c, s)
  <2> TAKE c \in 2 .. n
  <2>1. c \in Columns(T) /\ c \in Columns(T) \ {1}
    BY <1>1
  <2>2. PICK shift \in Nat : \A u \in 1 .. Cardinality(T) :
          Turned(T, c, u) = (Digit(T, c, u) + Anchor(T, u) * shift) % Distinct(T, c)
    BY <2>1, TurnedFacts
  <2> DEFINE k == Anchor(T, r) * shift
             d == Distinct(T, c)
             x == Digit(T, c, r)
             y == Digit(T, c, s)
  <2>3. (x + k) % d = (y + k) % d
    BY <2>1, <2>2
  <2>4. x \in 0 .. d - 1 /\ y \in 0 .. d - 1 /\ d \in Nat \ {0}
    BY <2>1, TurnedFacts, TableCounts
  <2>5. k \in Nat
    <3> DEFINE an == Anchor(T, r)
    <3>1. an \in Nat
      BY AnchorFacts, TableCounts
    <3> HIDE DEF an
    <3>2. an * shift \in Nat
      BY <3>1
    <3>. QED BY <3>2 DEF an
  <2> HIDE DEF k, d, x, y
  <2>6. x = y
    BY <2>3, <2>4, <2>5, DigitsTurned
  <2>. QED BY <2>6 DEF x, y
<1>4. 1 \in W
  <2>1. Product(T, 1) = 1
    BY DEF Product
  <2>2. a % 1 = 0 /\ b % 1 = 0
    BY <1>2
  <2>. QED BY <1>1, <2>1, <2>2
<1>5. ASSUME NEW c \in 1 .. n - 1, c \in W PROVE c + 1 \in W
  <2> DEFINE p == Product(T, c)
             d == Distinct(T, c + 1)
  <2>1. c \in Columns(T) /\ c + 1 \in Columns(T) /\ c + 1 \in 2 .. n
    BY <1>1
  <2>2. Strides(T)[c + 1] = p /\ Product(T, c + 1) = p * d /\ p \in Nat \ {0} /\ d \in Nat \ {0}
    BY <2>1, ProductSteps, TableCounts
  <2>3. (a \div p) % d = (b \div p) % d
    <3>1. Digit(T, c + 1, r) = Digit(T, c + 1, s)
      BY <1>3, <2>1
    <3>. QED BY <2>2, <3>1 DEF Digit, a, b
  <2>4. a % p = b % p
    BY <1>5
  <2> HIDE DEF p, d
  <2>5. a % (p * d) = b % (p * d)
    <3>1. /\ a % (p * d) = ((a \div p) % d) * p + (a % p)
          /\ b % (p * d) = ((b \div p) % d) * p + (b % p)
      BY <1>2, <2>2, DigitsOfProduct
    <3>. QED BY <2>3, <2>4, <3>1
  <2>. QED BY <1>1, <2>1, <2>2, <2>5
<1>6. a % Product(T, n) = b % Product(T, n)
  <2>1. 1 .. n \subseteq W
    <3> HIDE DEF W
    <3>. QED BY <1>1, <1>4, <1>5, UpTheInterval
  <2>2. n \in W
    <3> HIDE DEF W
    <3>. QED BY <1>1, <2>1
  <2>. QED BY <2>2
<1> DEFINE p == Product(T, n)
           d == Distinct(T, 1)
           rows == Cardinality(T)
           u == r - 1
           v == s - 1
<1>7. p \in Nat \ {0} /\ d \in Nat \ {0} /\ rows \in Nat \ {0} /\ rows <= d * p
  <2>1. n \in Columns(T) /\ n \in Nat \ {0}
    BY <1>1
  <2>. QED BY <1>1, <2>1, ProductSteps, TableCounts, TableCount
<1>8. u \in Nat /\ v \in Nat /\ u < v /\ v - u = s - r
  OBVIOUS
<1>9. (u * d) \div rows = (v * d) \div rows
  BY DEF Anchor
<1> HIDE DEF p, d, rows, u, v
<1>10. p <= v - u
  <2>1. a < b
    BY <1>2
  <2>2. p <= b - a
    BY <1>2, <1>6, <1>7, <2>1, SameRemainder DEF p
  <2>. QED BY <1>2, <1>8, <2>2
<1>11. p * d <= (v - u) * d
  <2>1. v - u \in Nat
    BY <1>8
  <2>. QED BY <1>7, <1>10, <2>1, ProductMonotone
<1>12. (v - u) * d = v * d - u * d /\ p * d = d * p /\ u * d \in Nat /\ v * d \in Nat /\ d * p \in Nat \ {0}
  BY <1>7, <1>8
<1>13. u * d < v * d
  BY <1>11, <1>12
<1>14. v * d - u * d < rows
  BY <1>7, <1>9, <1>12, <1>13, SameQuotient
<1>. QED BY <1>7, <1>11, <1>12, <1>14

(* Keys without foreign keys: no two rows have the same anchor and the same  *)
(* turned digits, and the values of each column are consecutive from the     *)
(* lowest of the source on.                                                  *)
THEOREM AnchoredKeysCorrect ==
  ASSUME NEW T, IsTable(T), Asked(Cardinality(T)) \in 1 .. Cardinality(T)
  PROVE  /\ DOMAIN AnchoredKeys(T) = 1 .. Asked(Cardinality(T))
         /\ IsInjective(AnchoredKeys(T))
         /\ \A r \in 1 .. Asked(Cardinality(T)) :
              /\ AnchoredKeys(T)[r] \in [Columns(T) -> Int]
              /\ \A c \in Columns(T) :
                   AnchoredKeys(T)[r][c] \in Lowest(T, c) .. Lowest(T, c) + Distinct(T, c) - 1
<1> DEFINE rows == Cardinality(T)
           asked == Asked(Cardinality(T))
           keys == AnchoredKeys(T)
           X(r, c) == IF c = 1 THEN Anchor(T, r) ELSE Turned(T, c, r)
<1>1. keys = [r \in 1 .. asked |-> [c \in Columns(T) |-> Lowest(T, c) + X(r, c)]]
  BY DEF AnchoredKeys
<1>2. \A c \in Columns(T) : Lowest(T, c) \in Int /\ Distinct(T, c) \in Nat \ {0}
  BY TableCounts
<1>3. ASSUME NEW r \in 1 .. asked PROVE r \in 1 .. rows
  <2>1. asked \in 1 .. rows /\ rows \in Nat
    BY TableCounts
  <2> HIDE DEF asked, rows
  <2>. QED BY <2>1
<1> HIDE DEF asked
<1>4. \A r \in 1 .. asked : \A c \in Columns(T) : X(r, c) \in 0 .. Distinct(T, c) - 1
  BY <1>3, AnchorFacts, TurnedFacts
<1>5. 1 \in Columns(T)
  BY TableCounts
<1> HIDE DEF keys
<1>6. ASSUME NEW r \in 1 .. asked, NEW s \in 1 .. asked, keys[r] = keys[s] PROVE r = s
  <2> HIDE DEF X
  <2>1. ASSUME NEW c \in Columns(T) PROVE X(r, c) = X(s, c)
    <3>1. keys[r][c] = Lowest(T, c) + X(r, c) /\ keys[s][c] = Lowest(T, c) + X(s, c)
      BY <1>1
    <3>2. X(r, c) \in Int /\ X(s, c) \in Int /\ Lowest(T, c) \in Int
      BY <1>2, <1>4
    <3> DEFINE x == X(r, c)
               y == X(s, c)
               a == Lowest(T, c)
    <3>3. a + x = a + y /\ x \in Int /\ y \in Int /\ a \in Int
      BY <1>6, <3>1, <3>2
    <3> HIDE DEF x, y, a
    <3>4. x = y
      BY <3>3
    <3>. QED BY <3>4 DEF x, y
  <2>2. Anchor(T, r) = Anchor(T, s)
    BY <1>5, <2>1 DEF X
  <2>3. \A c \in Columns(T) \ {1} : Turned(T, c, r) = Turned(T, c, s)
    BY <2>1 DEF X
  <2>4. ~ (r < s) /\ ~ (s < r)
    BY <1>3, <2>2, <2>3, AnchoredRowsDiffer
  <2>. QED BY <2>4
<1>7. ASSUME NEW r \in 1 .. asked
      PROVE  /\ keys[r] \in [Columns(T) -> Int]
             /\ \A c \in Columns(T) : keys[r][c] \in Lowest(T, c) .. Lowest(T, c) + Distinct(T, c) - 1
  <2> HIDE DEF X
  <2>1. ASSUME NEW c \in Columns(T)
        PROVE  Lowest(T, c) + X(r, c) \in Lowest(T, c) .. Lowest(T, c) + Distinct(T, c) - 1
    <3>1. Lowest(T, c) \in Int /\ Distinct(T, c) \in Nat /\ X(r, c) \in 0 .. Distinct(T, c) - 1
      BY <1>2, <1>4
    <3>. QED BY <3>1
  <2>2. \A c \in Columns(T) : Lowest(T, c) + X(r, c) \in Int
    BY <1>2, <1>4
  <2>. QED BY <1>1, <2>1, <2>2
<1>8. DOMAIN keys = 1 .. asked
  BY <1>1
<1>. QED BY <1>6, <1>7, <1>8 DEF keys, asked, IsInjective

\* The numbers 1 .. n are n.
LEMMA IntervalSize ==
  ASSUME NEW n \in Nat
  PROVE  IsFiniteSet(1 .. n) /\ Cardinality(1 .. n) = n
<1>1. /\ IsFiniteSet(1 .. n)
      /\ Cardinality(1 .. n) = IF 1 > n THEN 0 ELSE n - 1 + 1
  BY FS_Interval
<1>. QED BY <1>1

\* The values of more than f rows are those that are not of up to f rows.
LEMMA ValuesOver ==
  ASSUME NEW T, IsFiniteSet(T), NEW f \in Nat
  PROVE  /\ IsFiniteSet(ValuesAbove(T, f)) /\ Cardinality(ValuesAbove(T, f)) \in Nat
         /\ ValuesUpTo(T, f) + Cardinality(ValuesAbove(T, f)) = Distinct(T, 1)
<1> DEFINE U == {v \in Values(T, 1) : Frequency(T, v) <= f}
<1>1. IsFiniteSet(Values(T, 1))
  BY ValuesFinite
<1>2. IsFiniteSet(U) /\ IsFiniteSet(ValuesAbove(T, f)) /\ Cardinality(ValuesAbove(T, f)) \in Nat /\ Cardinality(U) \in Nat
  BY <1>1, SubsetCount DEF ValuesAbove
<1>3. \A v : Frequency(T, v) \in Nat
  BY FrequencyBounds
<1>4. U \cap ValuesAbove(T, f) = {} /\ U \cup ValuesAbove(T, f) = Values(T, 1)
  BY <1>3 DEF ValuesAbove
<1>5. ValuesUpTo(T, f) = Cardinality(U)
  BY DEF ValuesUpTo
<1> HIDE DEF U
<1>6. Cardinality(U \cup ValuesAbove(T, f)) = Cardinality(U) + Cardinality(ValuesAbove(T, f))
  BY <1>2, <1>4, DisjointUnion
<1>. QED BY <1>2, <1>4, <1>5, <1>6 DEF Distinct

\* A part of a table has no more values above a frequency than the table.
LEMMA PartCoverable ==
  ASSUME NEW T, IsFiniteSet(T), NEW K \in SUBSET T
  PROVE  IsFiniteSet(K) /\ Coverable(K, T)
<1>1. IsFiniteSet(K)
  BY SubsetCount
<1>2. Values(K, 1) \subseteq Values(T, 1)
  BY DEF Values
<1>3. ASSUME NEW v PROVE Frequency(K, v) <= Frequency(T, v)
  <2>1. {t \in K : t[1] = v} \subseteq {t \in T : t[1] = v} /\ IsFiniteSet({t \in T : t[1] = v})
    BY FrequencyBounds
  <2>. QED BY <2>1, SubsetCount DEF Frequency
<1>4. \A v : Frequency(K, v) \in Nat /\ Frequency(T, v) \in Nat
  BY <1>1, FrequencyBounds
<1>5. ASSUME NEW f \in Nat PROVE Cardinality(ValuesAbove(K, f)) <= Cardinality(ValuesAbove(T, f))
  <2>1. ValuesAbove(K, f) \subseteq ValuesAbove(T, f)
    BY <1>2, <1>3, <1>4 DEF ValuesAbove
  <2>2. IsFiniteSet(ValuesAbove(T, f))
    BY ValuesOver
  <2>. QED BY <2>1, <2>2, SubsetCount
<1>6. \A f \in 0 .. Cardinality(K) : f \in Nat
  BY <1>1, FS_CardinalityType
<1>. QED BY <1>1, <1>5, <1>6 DEF Coverable

\* Coverable is about every frequency: above the rows of a table there is none.
LEMMA CoverableEverywhere ==
  ASSUME NEW T, IsFiniteSet(T), NEW K, IsFiniteSet(K), Coverable(K, T), NEW f \in Nat
  PROVE  Cardinality(ValuesAbove(K, f)) <= Cardinality(ValuesAbove(T, f))
<1>1. Cardinality(K) \in Nat
  BY FS_CardinalityType
<1>2. CASE f <= Cardinality(K)
  BY <1>1, <1>2 DEF Coverable
<1>3. CASE f >= Cardinality(K)
  <2>1. ValuesUpTo(K, f) = Distinct(K, 1) /\ Distinct(K, 1) \in Nat
    BY <1>3, UpToBounds, ValuesFinite
  <2>2. /\ ValuesUpTo(K, f) + Cardinality(ValuesAbove(K, f)) = Distinct(K, 1)
        /\ Cardinality(ValuesAbove(K, f)) \in Nat /\ Cardinality(ValuesAbove(T, f)) \in Nat
    BY ValuesOver
  <2>. QED BY <2>1, <2>2
<1>. QED BY <1>1, <1>2, <1>3

\* Then the j-th most frequent value of the one is no more frequent.
LEMMA CoverableOrder ==
  ASSUME NEW T, IsFiniteSet(T), NEW K, IsFiniteSet(K), Coverable(K, T)
  PROVE  /\ Distinct(K, 1) \in Nat /\ Distinct(T, 1) \in Nat
         /\ Distinct(K, 1) <= Distinct(T, 1)
         /\ \A j \in 1 .. Distinct(K, 1) :
              AscendingFrequencies(K)[j]
                <= AscendingFrequencies(T)[j + Distinct(T, 1) - Distinct(K, 1)]
<1> DEFINE n == Distinct(K, 1)
           m == Distinct(T, 1)
<1>1. n \in Nat /\ m \in Nat
  BY ValuesFinite
<1>2. ASSUME NEW g \in Nat
      PROVE  /\ ValuesUpTo(T, g) + Cardinality(ValuesAbove(T, g)) = m
             /\ ValuesUpTo(K, g) + Cardinality(ValuesAbove(K, g)) = n
             /\ Cardinality(ValuesAbove(K, g)) <= Cardinality(ValuesAbove(T, g))
             /\ Cardinality(ValuesAbove(K, g)) \in Nat /\ Cardinality(ValuesAbove(T, g)) \in Nat
             /\ ValuesUpTo(T, g) \in Nat /\ ValuesUpTo(K, g) \in Nat
  <2>1. ValuesUpTo(T, g) \in 0 .. m /\ ValuesUpTo(K, g) \in 0 .. n
    BY UpToBounds
  <2> HIDE DEF n, m
  <2>2. ValuesUpTo(T, g) \in Nat /\ ValuesUpTo(K, g) \in Nat
    BY <1>1, <2>1
  <2>. QED BY <2>2, ValuesOver, CoverableEverywhere DEF n, m
<1>3. n <= m
  <2>1. ValuesUpTo(T, 0) = 0 /\ ValuesUpTo(K, 0) = 0
    BY NoneUpToZero
  <2> HIDE DEF n, m
  <2>. QED BY <1>1, <1>2, <2>1
<1>4. ASSUME NEW j \in 1 .. n
      PROVE  AscendingFrequencies(K)[j] <= AscendingFrequencies(T)[j + m - n]
  <2> DEFINE i == j + m - n
             g == AscendingFrequencies(T)[i]
  <2>1. i \in 1 .. m
    BY <1>1, <1>3
  <2>2. g \in 1 .. Cardinality(T) /\ i <= ValuesUpTo(T, g) /\ Cardinality(T) \in Nat
    BY <2>1, AscendingFacts, FS_CardinalityType
  <2> HIDE DEF g
  <2>3. g \in Nat
    BY <2>2
  <2> HIDE DEF n, m
  <2>4. j <= ValuesUpTo(K, g)
    BY <1>1, <1>2, <2>1, <2>2, <2>3
  <2>5. AscendingFrequencies(K)[j] <= g
    BY <2>3, <2>4, AscendingFacts DEF n
  <2>. QED BY <2>5 DEF g
<1>. QED BY <1>1, <1>3, <1>4

-----------------------------------------------------------------------------
(* The greedy allocation of parent values.                                   *)
LEMMA AllocatedFacts ==
  ASSUME NEW needed \in Seq(Nat), NEW available \in Seq(Nat)
  PROVE  LET Enough(j, v) == {u \in v + 1 .. Len(available) : available[u] >= needed[j]}
             al == Allocated(needed, available)
         IN  /\ al \in [0 .. Len(needed) -> Nat] /\ al[0] = 0
             /\ \A j \in 1 .. Len(needed) :
                  al[j] = IF Enough(j, al[j - 1]) = {} THEN Len(available) + 1
                          ELSE Min(Enough(j, al[j - 1]))
<1> DEFINE n == Len(needed)
           Enough(j, v) == {u \in v + 1 .. Len(available) : available[u] >= needed[j]}
           Step(f, j) == IF j = 0 THEN 0
                         ELSE IF Enough(j, f[j - 1]) = {} THEN Len(available) + 1
                              ELSE Min(Enough(j, f[j - 1]))
           g == [j \in 1 .. n |-> [v \in Nat |->
                  IF Enough(j, v) = {} THEN Len(available) + 1 ELSE Min(Enough(j, v))]]
           V == Nat
           zero == 0
           f == StepsOf(n, V, zero, g)
<1>1. n \in Nat /\ Len(available) \in Nat /\ zero \in V
  OBVIOUS
<1>2. g \in [1 .. n -> [V -> V]]
  <2>1. ASSUME NEW j \in 1 .. n, NEW v \in Nat
        PROVE  (IF Enough(j, v) = {} THEN Len(available) + 1 ELSE Min(Enough(j, v))) \in Nat
    <3>1. Enough(j, v) \in SUBSET Nat
      BY <1>1
    <3> HIDE DEF Enough
    <3>2. Enough(j, v) # {} => Min(Enough(j, v)) \in Nat
      BY <3>1, LeastElement
    <3>. QED BY <1>1, <3>2
  <2> HIDE DEF Enough
  <2>. QED BY <2>1
<1>3. /\ f \in [0 .. n -> V] /\ f[0] = zero
      /\ \A j \in 1 .. n : f[j] = g[j][f[j - 1]]
  <2> HIDE DEF g, n, V, zero, Step, Enough
  <2>. QED BY <1>1, <1>2, StepsTaken
<1> HIDE DEF f
<1>4. \A j \in 1 .. n : f[j - 1] \in Nat
  <2> HIDE DEF g, Step, Enough, n
  <2>1. \A j \in 1 .. n : j - 1 \in 0 .. n
    BY <1>1
  <2>. QED BY <1>3, <2>1
<1>5. ASSUME NEW j \in 1 .. n
      PROVE  f[j] = IF Enough(j, f[j - 1]) = {} THEN Len(available) + 1
                    ELSE Min(Enough(j, f[j - 1]))
  <2> HIDE DEF Enough, n
  <2>. QED BY <1>3, <1>4
<1>6. \A j \in 0 .. n : f[j] = Step(f, j)
  <2>1. \A j \in 0 .. n : j = 0 \/ j \in 1 .. n
    BY <1>1
  <2> HIDE DEF Enough, n
  <2>. QED BY <1>3, <1>5, <2>1
<1>7. f = [j \in 0 .. n |-> Step(f, j)]
  <2> HIDE DEF Step, g, Enough, n
  <2>. QED BY <1>3, <1>6
<1>8. Allocated(needed, available) = CHOOSE a : a = [j \in 0 .. n |-> Step(a, j)]
  BY DEF Allocated
<1> DEFINE al == Allocated(needed, available)
<1>9. al = [j \in 0 .. n |-> Step(al, j)]
  <2> HIDE DEF Step, n
  <2>. QED BY <1>7, <1>8
<1>10. ASSUME NEW a, a = [j \in 0 .. n |-> Step(a, j)] PROVE a \in [0 .. n -> Nat]
  <2> DEFINE W == {k \in 1 .. n + 1 : a[k - 1] \in Nat}
  <2>1. \A j \in 0 .. n : a[j] = Step(a, j)
    <3> HIDE DEF Step
    <3>. QED BY <1>10
  <2>2. 1 \in W
    <3>1. 0 \in 0 .. n /\ 1 \in 1 .. n + 1 /\ 1 - 1 = 0
      BY <1>1
    <3>2. a[0] = 0
      BY <2>1, <3>1
    <3>. QED BY <3>1, <3>2
  <2>3. ASSUME NEW k \in 1 .. (n + 1) - 1, k \in W PROVE k + 1 \in W
    <3>1. k \in 0 .. n /\ k # 0 /\ (k + 1) - 1 = k /\ k + 1 \in 1 .. n + 1 /\ k \in 1 .. n
      BY <1>1
    <3>2. a[k] = IF Enough(k, a[k - 1]) = {} THEN Len(available) + 1 ELSE Min(Enough(k, a[k - 1]))
      BY <2>1, <3>1
    <3>3. a[k - 1] \in Nat
      BY <2>3
    <3>4. Enough(k, a[k - 1]) \in SUBSET Nat
      BY <1>1, <3>3
    <3> HIDE DEF Enough
    <3>5. Enough(k, a[k - 1]) # {} => Min(Enough(k, a[k - 1])) \in Nat
      BY <3>4, LeastElement
    <3>6. a[k] \in Nat
      BY <1>1, <3>2, <3>5
    <3>. QED BY <3>1, <3>6
  <2>4. 1 .. n + 1 \subseteq W
    <3>1. n + 1 \in Nat
      BY <1>1
    <3> HIDE DEF W, n
    <3>. QED BY <2>2, <2>3, <3>1, UpTheInterval
  <2>5. ASSUME NEW j \in 0 .. n PROVE a[j] \in Nat
    <3>1. j + 1 \in 1 .. n + 1 /\ (j + 1) - 1 = j
      BY <1>1
    <3>. QED BY <2>4, <3>1
  <2>6. a = [j \in 0 .. n |-> a[j]]
    <3> HIDE DEF Step
    <3>. QED BY <1>10
  <2>. QED BY <2>5, <2>6
<1>11. al \in [0 .. n -> Nat]
  <2> HIDE DEF Step, n
  <2>. QED BY <1>9, <1>10
<1> HIDE DEF al
<1>12. \A j \in 0 .. n : al[j] = Step(al, j)
  <2> HIDE DEF Step
  <2>. QED BY <1>9
<1>13. al[0] = 0 /\ \A j \in 1 .. n : al[j] = IF Enough(j, al[j - 1]) = {} THEN Len(available) + 1
                                               ELSE Min(Enough(j, al[j - 1]))
  <2>1. 0 \in 0 .. n /\ \A j \in 1 .. n : j \in 0 .. n /\ j # 0
    BY <1>1
  <2> HIDE DEF Enough
  <2>. QED BY <1>12, <2>1
<1>. QED BY <1>11, <1>13 DEF al

\* An allocation that fits gives each value of the child one of the parent of
\* its own, with at least as many rows.
LEMMA FittedAllocation ==
  ASSUME NEW needed \in Seq(Nat), NEW available \in Seq(Nat), AllocationFits(needed, available)
  PROVE  LET al == Allocated(needed, available)
         IN  /\ \A j \in 1 .. Len(needed) :
                  /\ al[j] \in 1 .. Len(available)
                  /\ needed[j] <= available[al[j]]
             /\ \A j, k \in 1 .. Len(needed) : al[j] = al[k] => j = k
<1> DEFINE n == Len(needed)
           m == Len(available)
           al == Allocated(needed, available)
           Enough(j) == {u \in al[j - 1] + 1 .. m : available[u] >= needed[j]}
<1>1. n \in Nat /\ m \in Nat
  OBVIOUS
<1>2. /\ al \in [0 .. n -> Nat] /\ al[0] = 0
      /\ \A j \in 1 .. n : al[j] = IF Enough(j) = {} THEN m + 1 ELSE Min(Enough(j))
  BY AllocatedFacts
<1>3. /\ \A j \in 1 .. n : needed[j] \in Nat
      /\ \A u \in 1 .. m : available[u] \in Nat
  OBVIOUS
<1>4. \A j \in 1 .. n : al[j] <= m
  BY DEF AllocationFits
<1> HIDE DEF n, m, al
<1>5. ASSUME NEW j \in 1 .. n
      PROVE  /\ al[j] \in 1 .. m /\ needed[j] <= available[al[j]]
             /\ al[j - 1] < al[j]
  <2>1. al[j - 1] \in Nat /\ al[j] <= m
    BY <1>1, <1>2, <1>4
  <2>2. Enough(j) # {} /\ al[j] = Min(Enough(j))
    <3>1. al[j] # m + 1
      BY <1>1, <2>1
    <3> HIDE DEF Enough
    <3>. QED BY <1>2, <3>1
  <2>3. Enough(j) \in SUBSET Nat
    BY <1>1, <2>1
  <2>4. al[j] \in Enough(j)
    <3> HIDE DEF Enough
    <3>. QED BY <2>2, <2>3, LeastElement
  <2>5. al[j] \in al[j - 1] + 1 .. m /\ available[al[j]] >= needed[j]
    BY <2>4
  <2>6. al[j] \in 1 .. m /\ al[j - 1] < al[j]
    BY <1>1, <2>1, <2>5
  <2>. QED BY <1>3, <2>5, <2>6
<1>6. ASSUME NEW j \in 1 .. n, NEW k \in 1 .. n, j < k PROVE al[j] < al[k]
  <2> DEFINE Z == {d \in 1 .. n - j : al[j] < al[j + d]}
  <2>1. n - j \in Nat \ {0} /\ j \in Nat
    BY <1>1, <1>6
  <2>2. \A i \in 1 .. n : al[i] \in Nat
    <3> HIDE DEF Enough, Z
    <3>1. \A i \in 1 .. n : i \in 0 .. n
      BY <1>1
    <3>. QED BY <1>2, <3>1
  <2>3. 1 \in Z
    <3>1. j + 1 \in 1 .. n /\ (j + 1) - 1 = j
      BY <1>1, <2>1
    <3>2. al[j] < al[j + 1]
      BY <1>5, <3>1
    <3>. QED BY <2>1, <3>2
  <2>4. ASSUME NEW d \in 1 .. (n - j) - 1, d \in Z PROVE d + 1 \in Z
    <3>1. /\ j + (d + 1) \in 1 .. n /\ (j + (d + 1)) - 1 = j + d /\ j + d \in 1 .. n
          /\ d + 1 \in 1 .. n - j
      BY <1>1, <2>1
    <3>2. al[j + d] < al[j + (d + 1)]
      BY <1>5, <3>1
    <3>3. al[j] < al[j + d]
      BY <2>4
    <3>4. al[j] < al[j + (d + 1)]
      BY <2>2, <3>1, <3>2, <3>3
    <3>. QED BY <3>1, <3>4
  <2>5. 1 .. n - j \subseteq Z
    <3> HIDE DEF Z
    <3>. QED BY <2>1, <2>3, <2>4, UpTheInterval
  <2>6. k - j \in 1 .. n - j /\ j + (k - j) = k
    BY <1>1, <1>6
  <2>. QED BY <2>5, <2>6
<1>7. ASSUME NEW j \in 1 .. n, NEW k \in 1 .. n, al[j] = al[k] PROVE j = k
  <2>1. al[j] \in Nat /\ al[k] \in Nat
    BY <1>2
  <2>2. ~ (j < k) /\ ~ (k < j)
    BY <1>6, <1>7, <2>1
  <2>. QED BY <2>2
<1>. QED BY <1>5, <1>7 DEF n, m, al

(* Where the j-th value from the end of the child is no more frequent than   *)
(* the j-th from the end of the parent, each value of the child gets a value *)
(* of the parent.                                                            *)
THEOREM AllocationCorrect ==
  ASSUME NEW needed \in Seq(Nat), NEW available \in Seq(Nat),
         Len(needed) <= Len(available),
         \A j \in 1 .. Len(needed) : needed[j] <= available[j + Len(available) - Len(needed)]
  PROVE  AllocationFits(needed, available)
<1> DEFINE n == Len(needed)
           m == Len(available)
           al == Allocated(needed, available)
           Enough(j) == {u \in al[j - 1] + 1 .. m : available[u] >= needed[j]}
           W == {k \in 1 .. n + 1 : al[k - 1] <= k - 1 + m - n}
<1>1. n \in Nat /\ m \in Nat /\ n <= m
  OBVIOUS
<1>2. /\ al \in [0 .. n -> Nat] /\ al[0] = 0
      /\ \A j \in 1 .. n : al[j] = IF Enough(j) = {} THEN m + 1 ELSE Min(Enough(j))
  BY AllocatedFacts
<1>3. /\ \A j \in 1 .. n : needed[j] \in Nat /\ needed[j] <= available[j + m - n]
      /\ \A u \in 1 .. m : available[u] \in Nat
  OBVIOUS
<1> HIDE DEF n, m, al
<1>4. ASSUME NEW j \in 1 .. n, al[j - 1] <= j - 1 + m - n
      PROVE  /\ al[j] \in 1 .. m /\ needed[j] <= available[al[j]]
             /\ al[j - 1] < al[j] /\ al[j] <= j + m - n
  <2> DEFINE u == j + m - n
  <2>1. al[j - 1] \in Nat /\ u \in 1 .. m
    BY <1>1, <1>2
  <2>2. u \in Enough(j)
    BY <1>1, <1>3, <1>4, <2>1
  <2>3. Enough(j) \in SUBSET Nat
    BY <1>1, <2>1
  <2>4. al[j] = Min(Enough(j))
    BY <1>2, <2>2
  <2>5. al[j] \in Enough(j) /\ al[j] <= u
    <3> HIDE DEF Enough, u
    <3>. QED BY <2>2, <2>3, <2>4, LeastElement
  <2>6. al[j] \in al[j - 1] + 1 .. m /\ available[al[j]] >= needed[j]
    BY <2>5
  <2>7. al[j] \in 1 .. m /\ al[j - 1] < al[j]
    BY <1>1, <2>1, <2>6
  <2>8. needed[j] <= available[al[j]]
    BY <1>3, <2>6, <2>7
  <2>. QED BY <2>5, <2>7, <2>8
<1>5. 1 \in W
  BY <1>1, <1>2
<1>6. ASSUME NEW k \in 1 .. (n + 1) - 1, k \in W PROVE k + 1 \in W
  <2>1. k \in 1 .. n /\ k + 1 \in 1 .. n + 1 /\ (k + 1) - 1 = k
    BY <1>1
  <2>2. al[k] <= k + m - n
    BY <1>4, <1>6, <2>1
  <2>. QED BY <2>1, <2>2
<1>7. 1 .. n + 1 \subseteq W
  <2>1. n + 1 \in Nat
    BY <1>1
  <2> HIDE DEF W
  <2>. QED BY <1>5, <1>6, <2>1, UpTheInterval
<1>8. ASSUME NEW j \in 1 .. n
      PROVE  /\ al[j] \in 1 .. m /\ needed[j] <= available[al[j]]
             /\ al[j - 1] < al[j]
  <2>1. j \in W
    BY <1>1, <1>7
  <2>2. al[j - 1] <= j - 1 + m - n
    BY <2>1
  <2>. QED BY <1>4, <2>2
<1>9. AllocationFits(needed, available)
  <2>1. DOMAIN needed = 1 .. n
    BY DEF n
  <2>2. \A j \in 1 .. n : al[j] <= m
    BY <1>1, <1>8
  <2>. QED BY <2>1, <2>2 DEF AllocationFits, al, m
<1>. QED BY <1>9

\* Above a frequency are as many entries of the ascending frequencies as values.
LEMMA EntriesAbove ==
  ASSUME NEW T, IsFiniteSet(T), NEW f \in Nat
  PROVE  LET I == {i \in 1 .. Distinct(T, 1) : AscendingFrequencies(T)[i] > f}
         IN  IsFiniteSet(I) /\ Cardinality(I) = Cardinality(ValuesAbove(T, f))
<1> DEFINE n == Distinct(T, 1)
           v == ValuesUpTo(T, f)
           A == AscendingFrequencies(T)
           I == {i \in 1 .. n : A[i] > f}
<1>1. n \in Nat /\ v \in 0 .. n
  BY ValuesFinite, UpToBounds
<1>2. ASSUME NEW i \in 1 .. n
      PROVE  A[i] \in Nat /\ (i <= v <=> A[i] <= f)
  <2>1. AscendingFrequencies(T)[i] \in 1 .. Cardinality(T) /\ Cardinality(T) \in Nat
    BY AscendingFacts, FS_CardinalityType
  <2>2. i <= v <=> AscendingFrequencies(T)[i] <= f
    BY AscendingFacts
  <2>. QED BY <2>1, <2>2
<1>3. v + Cardinality(ValuesAbove(T, f)) = n /\ Cardinality(ValuesAbove(T, f)) \in Nat
  BY ValuesOver
<1> HIDE DEF n, v, A
<1>4. I = (1 .. n) \ (1 .. v)
  <2>1. ASSUME NEW i \in 1 .. n PROVE A[i] > f <=> i \in (1 .. n) \ (1 .. v)
    BY <1>1, <1>2
  <2>. QED BY <2>1
<1> HIDE DEF I
<1>5. v \in Nat /\ 1 .. v \subseteq 1 .. n
  BY <1>1
<1>6. /\ IsFiniteSet(1 .. n) /\ Cardinality(1 .. n) = n
      /\ IsFiniteSet(1 .. v) /\ Cardinality(1 .. v) = v
  BY <1>1, <1>5, IntervalSize
<1>7. IsFiniteSet(I) /\ Cardinality(I) \in Nat
  BY <1>4, <1>6, FS_Subset, FS_CardinalityType
<1>8. I \cap (1 .. v) = {} /\ I \cup (1 .. v) = 1 .. n
  BY <1>4, <1>5
<1>9. Cardinality(I) + v = n
  BY <1>6, <1>7, <1>8, DisjointUnion
<1>10. Cardinality(I) = Cardinality(ValuesAbove(T, f))
  BY <1>1, <1>3, <1>5, <1>7, <1>9
<1>. QED BY <1>7, <1>10 DEF I, n, A

(* The greedy pass of the allocation gives up only where no allocation       *)
(* exists: where more values of the child than of the parent have more than  *)
(* so many rows.                                                             *)
THEOREM GreedyIsBest ==
  ASSUME NEW T, IsFiniteSet(T), NEW K, IsFiniteSet(K)
  PROVE  AllocationFits(AscendingFrequencies(K), AscendingFrequencies(T)) <=> Coverable(K, T)
<1> DEFINE needed == AscendingFrequencies(K)
           available == AscendingFrequencies(T)
           al == Allocated(needed, available)
           n == Distinct(K, 1)
           m == Distinct(T, 1)
<1>1. needed \in Seq(Nat) /\ Len(needed) = n /\ available \in Seq(Nat) /\ Len(available) = m
  <2>1. needed \in Seq(Nat \ {0}) /\ Len(needed) = n
    BY AscendingFacts
  <2>2. available \in Seq(Nat \ {0}) /\ Len(available) = m
    BY AscendingFacts
  <2> HIDE DEF needed, available
  <2>. QED BY <2>1, <2>2
<1>2. ASSUME Coverable(K, T) PROVE AllocationFits(needed, available)
  <2>1. n <= m /\ \A j \in 1 .. n : needed[j] <= available[j + m - n]
    BY <1>2, CoverableOrder
  <2> HIDE DEF needed, available, n, m
  <2>. QED BY <1>1, <2>1, AllocationCorrect
<1>3. ASSUME AllocationFits(needed, available), NEW f \in Nat
      PROVE  Cardinality(ValuesAbove(K, f)) <= Cardinality(ValuesAbove(T, f))
  <2> DEFINE I == {i \in 1 .. n : needed[i] > f}
             J == {i \in 1 .. m : available[i] > f}
             h == [i \in I |-> al[i]]
  <2>1. /\ IsFiniteSet(J)
        /\ Cardinality(I) = Cardinality(ValuesAbove(K, f))
        /\ Cardinality(J) = Cardinality(ValuesAbove(T, f))
    BY EntriesAbove
  <2> HIDE DEF needed, available, n, m
  <2>2. /\ \A j \in 1 .. n : al[j] \in 1 .. m /\ needed[j] <= available[al[j]]
        /\ \A j, k \in 1 .. n : al[j] = al[k] => j = k
    BY <1>1, <1>3, FittedAllocation
  <2> HIDE DEF al
  <2>3. \A i \in I : al[i] \in J
    <3>1. \A i \in 1 .. n : needed[i] \in Nat
      BY <1>1
    <3>2. \A i \in 1 .. m : available[i] \in Nat
      BY <1>1
    <3>. QED BY <2>2, <3>1, <3>2
  <2>4. h \in Injection(I, J)
    <3>1. h \in [I -> J]
      BY <2>3
    <3>2. \A a, b \in I : h[a] = h[b] => a = b
      BY <2>2
    <3> HIDE DEF h, I, J
    <3>. QED BY <3>1, <3>2 DEF Injection, IsInjective
  <2>5. Cardinality(I) <= Cardinality(J)
    <3> HIDE DEF h, I, J
    <3>. QED BY <2>1, <2>4, FS_Injection
  <2> HIDE DEF I, J
  <2>. QED BY <2>1, <2>5
<1>4. ASSUME AllocationFits(needed, available) PROVE Coverable(K, T)
  <2>1. \A f \in 0 .. Cardinality(K) : f \in Nat
    BY FS_CardinalityType
  <2>. QED BY <1>3, <1>4, <2>1 DEF Coverable
<1>. QED BY <1>2, <1>4

\* The rows before a value are finitely many.
LEMMA RowsBeforeNat ==
  ASSUME NEW available \in Seq(Nat), NEW v \in 1 .. Len(available)
  PROVE  RowsBefore(available, v) \in Nat
<1> DEFINE I == 1 .. v - 1
           B == {{u} \X (1 .. available[u]) : u \in I}
           h == [u \in I |-> {u} \X (1 .. available[u])]
<1>1. IsFiniteSet(I) /\ I \subseteq 1 .. Len(available)
  BY FS_Interval
<1>2. h \in Surjection(I, B)
  BY DEF Surjection
<1>3. IsFiniteSet(B)
  <2> HIDE DEF h, I, B
  <2>. QED BY <1>1, <1>2, FS_Surjection
<1>4. ASSUME NEW u \in I PROVE IsFiniteSet({u} \X (1 .. available[u]))
  <2>1. available[u] \in Nat
    BY <1>1
  <2> DEFINE a == available[u]
  <2> HIDE DEF a
  <2>2. IsFiniteSet(1 .. a)
    <3>1. a \in Int /\ 1 \in Int
      BY <2>1 DEF a
    <3>. QED BY <3>1, FS_Interval
  <2>3. IsFiniteSet({u})
    BY FS_Singleton
  <2>. QED BY <2>2, <2>3, FS_Product DEF a
<1>5. \A X \in B : IsFiniteSet(X)
  BY <1>4
<1>6. IsFiniteSet(UNION B)
  <2> HIDE DEF B
  <2>. QED BY <1>3, <1>5, FS_UNION
<1>. QED BY <1>6, FS_CardinalityType DEF RowsBefore

-----------------------------------------------------------------------------
(* A child by its parent's shape.                                            *)

\* Positions that are spread over at least as many rows are different.
LEMMA SpreadDiffer ==
  ASSUME NEW a \in Nat, NEW n \in Nat \ {0}, n <= a, NEW d \in Nat \ {0}, a <= d,
         NEW before \in Nat, NEW o \in 1 .. n, NEW u \in 1 .. n,
         (before + ((o - 1) * a) \div n) % d = (before + ((u - 1) * a) \div n) % d
  PROVE  o = u
<1> DEFINE P(x) == ((x - 1) * a) \div n
<1>1. ASSUME NEW x \in 1 .. n PROVE P(x) \in 0 .. d - 1
  <2> DEFINE k == x - 1
             ka == k * a
  <2>1. k \in Nat /\ k < n
    OBVIOUS
  <2>2. ka \in Nat /\ (k + 1) * a = ka + a
    BY <2>1
  <2>3. (k + 1) * a <= n * a /\ n * a = a * n /\ a * n \in Nat
    BY <2>1, ProductMonotone
  <2>4. a \in Nat \ {0}
    OBVIOUS
  <2> HIDE DEF ka
  <2>5. ka < a * n
    BY <2>2, <2>3, <2>4
  <2>6. ka \div n \in Nat /\ ka \div n < a
    BY <2>2, <2>5, QuotientBelow
  <2>7. P(x) = ka \div n
    BY DEF ka
  <2>. QED BY <2>6, <2>7
<1>2. ASSUME NEW x \in 1 .. n, NEW y \in 1 .. n, x < y, P(x) = P(y) PROVE FALSE
  <2> DEFINE i == x - 1
             j == y - 1
  <2>1. i \in Nat /\ j \in Nat /\ 1 <= j - i /\ j - i \in Nat
    BY <1>2
  <2>2. (i * a) \div n = (j * a) \div n
    BY <1>2
  <2> HIDE DEF i, j
  <2>3. 1 * a <= (j - i) * a
    BY <2>1, ProductMonotone
  <2>4. i * a \in Nat /\ j * a \in Nat /\ (j - i) * a = j * a - i * a /\ 1 * a = a
    BY <2>1
  <2>5. i * a < j * a
    BY <2>3, <2>4
  <2>6. j * a - i * a < n
    BY <2>2, <2>4, <2>5, SameQuotient
  <2>. QED BY <2>3, <2>4, <2>6
<1>3. (before + P(o)) % d = (before + P(u)) % d
  OBVIOUS
<1>4. P(o) \in 0 .. d - 1 /\ P(u) \in 0 .. d - 1
  BY <1>1
<1> HIDE DEF P
<1>5. (P(o) + before) % d = (P(u) + before) % d
  <2>1. before + P(o) = P(o) + before /\ before + P(u) = P(u) + before
    BY <1>4
  <2>. QED BY <1>3, <2>1
<1>6. P(o) = P(u)
  <2> DEFINE x == P(o)
             y == P(u)
  <2> HIDE DEF x, y
  <2>1. x = y
    BY <1>4, <1>5, DigitsTurned DEF x, y
  <2>. QED BY <2>1 DEF x, y
<1>7. ~ (o < u) /\ ~ (u < o)
  BY <1>2, <1>6
<1>. QED BY <1>7

(* A child whose allocation fits, with a shape of the parent whose partner   *)
(* column has as many values as a parent value has rows: no pair is given    *)
(* twice, and every one is within the counts of the parent.                  *)
THEOREM ShapedReplayCorrect ==
  ASSUME NEW T, IsFiniteSet(T), NEW K, IsFiniteSet(K), NEW d \in Nat \ {0},
         AllocationFits(AscendingFrequencies(K), AscendingFrequencies(T)),
         \A i \in 1 .. Distinct(T, 1) : AscendingFrequencies(T)[i] <= d,
         Asked(Cardinality(K)) \in 1 .. Cardinality(K)
  PROVE  LET shape == Shape(AscendingFrequencies(T), d)
             rows == ShapedReplay(K, shape)
         IN  /\ IsInjective(rows)
             /\ DOMAIN rows = 1 .. Asked(Cardinality(K))
             /\ \A r \in 1 .. Asked(Cardinality(K)) :
                  \E x \in 1 .. Distinct(T, 1) : \E y \in 1 .. d : rows[r] = <<x, y>>
<1> DEFINE needed == AscendingFrequencies(K)
           available == AscendingFrequencies(T)
           values == Allocated(needed, available)
           rows == ShapedReplay(K, Shape(available, d))
           asked == Asked(Cardinality(K))
           n == Distinct(K, 1)
           m == Distinct(T, 1)
           P(j, o) == RowsBefore(available, values[j]) + ((o - 1) * available[values[j]]) \div needed[j]
<1>1. n \in Nat /\ m \in Nat
  BY ValuesFinite
<1>2. needed \in Seq(Nat) /\ Len(needed) = n /\ available \in Seq(Nat) /\ Len(available) = m
  <2>1. needed \in Seq(Nat \ {0}) /\ Len(needed) = n
    BY AscendingFacts
  <2>2. available \in Seq(Nat \ {0}) /\ Len(available) = m
    BY AscendingFacts
  <2> HIDE DEF needed, available
  <2>. QED BY <2>1, <2>2
<1>3. \A j \in 1 .. n : needed[j] \in Nat \ {0}
  <2>1. needed \in Seq(Nat \ {0}) /\ Len(needed) = n
    BY AscendingFacts
  <2> HIDE DEF needed
  <2>. QED BY <2>1
<1>4. \A i \in 1 .. m : available[i] \in Nat /\ available[i] <= d
  <2> HIDE DEF available
  <2>. QED BY <1>2 DEF available
<1>5. \A r \in 1 .. asked : r \in 1 .. Cardinality(K) /\ r <= Cardinality(K)
  <2>1. asked \in 1 .. Cardinality(K) /\ Cardinality(K) \in Nat
    BY FS_CardinalityType
  <2> HIDE DEF asked
  <2>. QED BY <2>1
<1>6. /\ \A j \in 1 .. n : values[j] \in 1 .. m /\ needed[j] <= available[values[j]]
      /\ \A j, k \in 1 .. n : values[j] = values[k] => j = k
  <2>1. AllocationFits(needed, available)
    OBVIOUS
  <2> HIDE DEF needed, available, n, m
  <2>. QED BY <1>2, <2>1, FittedAllocation
<1>7. /\ DOMAIN rows = 1 .. asked
      /\ \A r \in 1 .. asked :
           rows[r] = <<values[BandedRow(K, r)[1]], 1 + (P(BandedRow(K, r)[1], BandedRow(K, r)[2]) % d)>>
  <2>1. rows = [r \in 1 .. asked |-> ShapedRow(K, Shape(available, d), r)]
    BY DEF ShapedReplay
  <2>2. ASSUME NEW r \in 1 .. asked
        PROVE  ShapedRow(K, Shape(available, d), r)
                 = <<values[BandedRow(K, r)[1]], 1 + (P(BandedRow(K, r)[1], BandedRow(K, r)[2]) % d)>>
    BY <1>5 DEF ShapedRow, Shape
  <2> HIDE DEF rows, P, values, asked
  <2>. QED BY <2>1, <2>2
<1> HIDE DEF values, asked
<1>8. ASSUME NEW j \in 1 .. n PROVE RowsBefore(available, values[j]) \in Nat
  <2> HIDE DEF available, n, m
  <2>. QED BY <1>2, <1>6, RowsBeforeNat
<1>9. ASSUME NEW j \in 1 .. n, NEW o \in 1 .. needed[j], NEW u \in 1 .. needed[j], P(j, o) % d = P(j, u) % d
      PROVE  o = u
  <2> DEFINE a == available[values[j]]
             q == needed[j]
             before == RowsBefore(available, values[j])
  <2>1. a \in Nat /\ q \in Nat \ {0} /\ q <= a /\ a <= d /\ before \in Nat
    <3> HIDE DEF available, needed, n, m
    <3>. QED BY <1>3, <1>4, <1>6, <1>8
  <2>2. (before + ((o - 1) * a) \div q) % d = (before + ((u - 1) * a) \div q) % d
    BY <1>9
  <2> HIDE DEF a, before, q, n
  <2>3. o \in 1 .. q /\ u \in 1 .. q
    BY DEF q
  <2>. QED BY <2>1, <2>2, <2>3, SpreadDiffer
<1>10. ASSUME NEW j \in 1 .. n, NEW o \in 1 .. needed[j] PROVE P(j, o) % d \in 0 .. d - 1
  <2> DEFINE a == available[values[j]]
             q == needed[j]
             before == RowsBefore(available, values[j])
             p == P(j, o)
             oa == (o - 1) * a
  <2>1. a \in Nat /\ q \in Nat \ {0} /\ before \in Nat
    <3> HIDE DEF available, needed, n, m
    <3>. QED BY <1>3, <1>4, <1>6, <1>8
  <2>2. oa \in Nat
    <3>1. o - 1 \in Nat
      BY <2>1
    <3> HIDE DEF a
    <3>. QED BY <2>1, <3>1
  <2>3. p = before + oa \div q
    OBVIOUS
  <2> HIDE DEF p, oa, q, before
  <2>4. oa \div q \in Nat
    BY <2>1, <2>2, DivMod
  <2>5. p \in Nat
    BY <2>1, <2>3, <2>4
  <2>6. p % d \in 0 .. d - 1
    BY <2>5, DivMod
  <2>. QED BY <2>6 DEF p
<1> HIDE DEF P, rows
<1>11. ASSUME NEW r \in 1 .. asked
       PROVE  \E j \in 1 .. n : \E o \in 1 .. needed[j] : BandedRow(K, r) = <<j, o>>
  BY <1>5, BandedRowFacts
<1> HIDE DEF n, m, needed, available
<1>12. ASSUME NEW r \in 1 .. asked, NEW s \in 1 .. asked, rows[r] = rows[s]
       PROVE  r = s
  <2>1. PICK j \in 1 .. n : \E o \in 1 .. needed[j] : BandedRow(K, r) = <<j, o>>
    BY <1>11
  <2>2. PICK o \in 1 .. needed[j] : BandedRow(K, r) = <<j, o>>
    BY <2>1
  <2>3. PICK k \in 1 .. n : \E u \in 1 .. needed[k] : BandedRow(K, s) = <<k, u>>
    BY <1>11
  <2>4. PICK u \in 1 .. needed[k] : BandedRow(K, s) = <<k, u>>
    BY <2>3
  <2>5. rows[r] = <<values[j], 1 + (P(j, o) % d)>> /\ rows[s] = <<values[k], 1 + (P(k, u) % d)>>
    BY <1>7, <2>2, <2>4
  <2>6. values[j] = values[k] /\ 1 + (P(j, o) % d) = 1 + (P(k, u) % d)
    <3>1. <<values[j], 1 + (P(j, o) % d)>> = <<values[k], 1 + (P(k, u) % d)>>
      BY <1>12, <2>5
    <3>. QED BY <3>1
  <2>7. j = k
    BY <1>6, <2>6
  <2>8. P(j, o) % d = P(j, u) % d
    <3> DEFINE x == P(j, o) % d
               y == P(k, u) % d
    <3>1. x \in 0 .. d - 1 /\ y \in 0 .. d - 1
      BY <1>10
    <3> HIDE DEF x, y
    <3>2. x = y
      BY <2>6, <3>1 DEF x, y
    <3>. QED BY <2>7, <3>2 DEF x, y
  <2>9. u \in 1 .. needed[j]
    BY <2>7
  <2>10. o = u
    BY <1>9, <2>8, <2>9
  <2>11. BandedRow(K, r) = BandedRow(K, s)
    BY <2>2, <2>4, <2>7, <2>10
  <2>. QED BY <1>5, <2>11, BandedKeysUnique
<1>13. ASSUME NEW r \in 1 .. asked
       PROVE  \E x \in 1 .. m : \E y \in 1 .. d : rows[r] = <<x, y>>
  <2>1. PICK j \in 1 .. n : \E o \in 1 .. needed[j] : BandedRow(K, r) = <<j, o>>
    BY <1>11
  <2>2. PICK o \in 1 .. needed[j] : BandedRow(K, r) = <<j, o>>
    BY <2>1
  <2>3. rows[r] = <<values[j], 1 + (P(j, o) % d)>>
    BY <1>7, <2>2
  <2>4. P(j, o) % d \in 0 .. d - 1 /\ values[j] \in 1 .. m
    BY <1>6, <1>10
  <2>5. 1 + (P(j, o) % d) \in 1 .. d
    BY <2>4
  <2>. QED BY <2>3, <2>4, <2>5
<1>. QED BY <1>7, <1>12, <1>13 DEF IsInjective, rows, asked, m, needed, available

-----------------------------------------------------------------------------
(* Rows of two columns within a grid.                                        *)
Lows == [1 .. 2 -> Int]

\* Each column within its number of values from its lowest on.
InGrid(row, low, T) ==
  row \in [1 .. 2 -> Int] /\ \A c \in 1 .. 2 : row[c] \in low[c] .. low[c] + Distinct(T, c) - 1

\* A source with every combination of its columns' values.
Full(T) == Cardinality(T) = Distinct(T, 1) * Distinct(T, 2)

\* As many different rows as combinations: each of them is there.
LEMMA FullGridRows ==
  ASSUME NEW T \in PairTables, Full(T), NEW low \in Lows, NEW keys,
         DOMAIN keys = 1 .. Cardinality(T), IsInjective(keys),
         \A r \in 1 .. Cardinality(T) : InGrid(keys[r], low, T),
         NEW row, InGrid(row, low, T)
  PROVE  row \in Range(keys)
<1> DEFINE a == Distinct(T, 1)
           b == Distinct(T, 2)
           rows == Cardinality(T)
           G == (1 .. a) \X (1 .. b)
           x == low[1]
           y == low[2]
           f == [r \in 1 .. rows |-> <<keys[r][1] - x + 1, keys[r][2] - y + 1>>]
<1>1. a \in Nat /\ b \in Nat /\ rows \in Nat /\ rows = a * b
  BY PairTableCounts DEF Full
<1>2. x \in Int /\ y \in Int
  BY DEF Lows
<1>3. \A t : InGrid(t, low, T) => /\ t \in [1 .. 2 -> Int]
                                  /\ t[1] \in x .. x + a - 1 /\ t[2] \in y .. y + b - 1
  BY DEF InGrid
<1>4. DOMAIN keys = 1 .. rows /\ \A r \in 1 .. rows : InGrid(keys[r], low, T)
  OBVIOUS
<1> HIDE DEF a, b, rows, x, y
<1>5. \A t : InGrid(t, low, T) => t[1] - x + 1 \in 1 .. a /\ t[2] - y + 1 \in 1 .. b
  <2> TAKE t
  <2> HAVE InGrid(t, low, T)
  <2>1. t[1] \in x .. x + a - 1 /\ t[2] \in y .. y + b - 1
    BY <1>3
  <2> DEFINE u == t[1]
             v == t[2]
  <2> HIDE DEF u, v
  <2>2. u - x + 1 \in 1 .. a /\ v - y + 1 \in 1 .. b
    BY <1>1, <1>2, <2>1 DEF u, v
  <2>. QED BY <2>2 DEF u, v
<1>6. f \in [1 .. rows -> G]
  BY <1>4, <1>5
<1>7. ASSUME NEW t, NEW u, InGrid(t, low, T), InGrid(u, low, T),
             <<t[1] - x + 1, t[2] - y + 1>> = <<u[1] - x + 1, u[2] - y + 1>>
      PROVE  t = u
  <2>1. t[1] - x + 1 = u[1] - x + 1 /\ t[2] - y + 1 = u[2] - y + 1
    BY <1>7
  <2>2. /\ t \in [1 .. 2 -> Int] /\ u \in [1 .. 2 -> Int]
    BY <1>3, <1>7
  <2>3. t[1] \in Int /\ t[2] \in Int /\ u[1] \in Int /\ u[2] \in Int
    BY <2>2
  <2>4. t[1] = u[1] /\ t[2] = u[2]
    BY <1>2, <2>1, <2>3
  <2>. QED BY <2>2, <2>4
<1>8. ASSUME NEW r \in 1 .. rows, NEW s \in 1 .. rows, f[r] = f[s] PROVE r = s
  <2>1. <<keys[r][1] - x + 1, keys[r][2] - y + 1>> = <<keys[s][1] - x + 1, keys[s][2] - y + 1>>
    BY <1>8
  <2>2. keys[r] = keys[s]
    BY <1>4, <1>7, <2>1
  <2>. QED BY <1>4, <2>2 DEF IsInjective
<1>9. /\ IsFiniteSet(G) /\ Cardinality(G) = rows
      /\ IsFiniteSet(1 .. rows) /\ Cardinality(1 .. rows) = rows
  <2>1. /\ IsFiniteSet(1 .. a) /\ Cardinality(1 .. a) = a
        /\ IsFiniteSet(1 .. b) /\ Cardinality(1 .. b) = b
        /\ IsFiniteSet(1 .. rows) /\ Cardinality(1 .. rows) = rows
    BY <1>1, IntervalSize
  <2>2. /\ IsFiniteSet((1 .. a) \X (1 .. b))
        /\ Cardinality((1 .. a) \X (1 .. b)) = Cardinality(1 .. a) * Cardinality(1 .. b)
    BY <2>1, FS_Product
  <2>. QED BY <1>1, <2>1, <2>2
<1>10. f \in Surjection(1 .. rows, G)
  <2>1. f \in Injection(1 .. rows, G)
    <3> HIDE DEF f, G
    <3>. QED BY <1>6, <1>8 DEF Injection, IsInjective
  <2> HIDE DEF f, G
  <2>. QED BY <1>9, <2>1, FS_Injection
<1>11. <<row[1] - x + 1, row[2] - y + 1>> \in G
  BY <1>5
<1>12. PICK r \in 1 .. rows : f[r] = <<row[1] - x + 1, row[2] - y + 1>>
  <2> DEFINE g == <<row[1] - x + 1, row[2] - y + 1>>
  <2> HIDE DEF f, G, g
  <2>1. \E r \in 1 .. rows : f[r] = g
    BY <1>10, <1>11 DEF Surjection, g
  <2>. QED BY <2>1 DEF g
<1>13. f[r] = <<keys[r][1] - x + 1, keys[r][2] - y + 1>>
  OBVIOUS
<1>14. keys[r] = row
  BY <1>4, <1>7, <1>12, <1>13
<1>. QED BY <1>4, <1>14 DEF Range

\* The child counts and orders the keys of the parent as the parent's source.
LEMMA FullGridCounts ==
  ASSUME NEW T \in PairTables, Full(T), NEW low \in Lows, NEW keys,
         DOMAIN keys = 1 .. Cardinality(T), IsInjective(keys),
         \A r \in 1 .. Cardinality(T) : InGrid(keys[r], low, T)
  PROVE  \A c \in 1 .. 2 : /\ Distinct(Range(keys), c) = Distinct(T, c)
                           /\ Lowest(Range(keys), c) = low[c]
<1>1. ASSUME NEW row, InGrid(row, low, T) PROVE row \in Range(keys)
  BY <1>1, FullGridRows
<1> TAKE c \in 1 .. 2
<1> DEFINE d == Distinct(T, c)
           a == low[c]
           rows == Cardinality(T)
<1>2. d \in Nat \ {0} /\ a \in Int
  BY PairTableCounts DEF Lows
<1>3. ASSUME NEW v \in a .. a + d - 1 PROVE \E r \in 1 .. rows : keys[r][c] = v
  <2> DEFINE row == [k \in 1 .. 2 |-> IF k = c THEN v ELSE low[k]]
  <2>1. \A k \in 1 .. 2 : low[k] \in Int /\ Distinct(T, k) \in Nat \ {0}
    BY PairTableCounts DEF Lows
  <2>2. ASSUME NEW k \in 1 .. 2
        PROVE  row[k] \in low[k] .. low[k] + Distinct(T, k) - 1 /\ row[k] \in Int
    <3>1. CASE k = c
      BY <1>2, <3>1
    <3>2. CASE k # c
      <4>1. row[k] = low[k] /\ low[k] \in Int /\ Distinct(T, k) \in Nat \ {0}
        BY <2>1, <3>2
      <4> HIDE DEF row
      <4>. QED BY <4>1
    <3>. QED BY <3>1, <3>2
  <2>3. InGrid(row, low, T)
    <3>1. row = [k \in 1 .. 2 |-> row[k]]
      OBVIOUS
    <3> HIDE DEF row
    <3>. QED BY <2>2, <3>1 DEF InGrid
  <2>4. row[c] = v
    OBVIOUS
  <2> HIDE DEF row
  <2>5. PICK r \in 1 .. rows : keys[r] = row
    BY <1>1, <2>3 DEF Range
  <2>. QED BY <2>4, <2>5
<1>4. \A r \in 1 .. rows : keys[r][c] \in a .. a + d - 1
  BY DEF InGrid
<1>5. DOMAIN keys = 1 .. rows
  OBVIOUS
<1> HIDE DEF d, a, rows
<1>6. Values(Range(keys), c) = a .. a + d - 1
  BY <1>3, <1>4, <1>5 DEF Values, Range
<1>7. Cardinality(a .. a + d - 1) = d
  <2> DEFINE e == a + d - 1
  <2>1. e \in Int /\ a <= e /\ e - a + 1 = d
    BY <1>2
  <2> HIDE DEF e
  <2>2. Cardinality(a .. e) = IF a > e THEN 0 ELSE e - a + 1
    BY <1>2, <2>1, FS_Interval
  <2>. QED BY <1>2, <2>1, <2>2 DEF e
<1>8. Min(a .. a + d - 1) = a
  <2>1. a \in a .. a + d - 1 /\ \A y \in a .. a + d - 1 : a <= y
    BY <1>2
  <2>2. \A x \in a .. a + d - 1 : (\A y \in a .. a + d - 1 : x <= y) => x = a
    BY <1>2, <2>1
  <2>. QED BY <2>1, <2>2 DEF Min
<1>. QED BY <1>6, <1>7, <1>8 DEF Distinct, Lowest, d, a

-----------------------------------------------------------------------------
(* N-cycling over a key of two columns.                                      *)
LEMMA LargestOfTwo ==
  ASSUME NEW counts \in [1 .. 2 -> Nat]
  PROVE  Largest(counts, 1 .. 2) \in 1 .. 2
<1>1. counts[1] \in Nat /\ counts[2] \in Nat
  OBVIOUS
<1>2. \E i \in 1 .. 2 : \A j \in 1 .. 2 : counts[i] > counts[j] \/ (counts[i] = counts[j] /\ i <= j)
  <2>1. CASE counts[1] >= counts[2]
    <3>1. \A j \in 1 .. 2 : counts[1] > counts[j] \/ (counts[1] = counts[j] /\ 1 <= j)
      BY <1>1, <2>1
    <3>. QED BY <3>1
  <2>2. CASE counts[1] < counts[2]
    <3>1. \A j \in 1 .. 2 : counts[2] > counts[j] \/ (counts[2] = counts[j] /\ 2 <= j)
      BY <1>1, <2>2
    <3>. QED BY <3>1
  <2>. QED BY <1>1, <2>1, <2>2
<1>. QED BY <1>2 DEF Largest

\* Of a column of n values, each gets the least number of rows that suffices.
LEMMA RowsPerLargestBounds ==
  ASSUME NEW rows \in Nat \ {0}, NEW n \in Nat \ {0}
  PROVE  /\ RowsPerLargest(rows, n) \in Nat \ {0}
         /\ rows <= RowsPerLargest(rows, n) * n
         /\ \A m \in Nat : rows <= m * n => RowsPerLargest(rows, n) <= m
<1>1. CeilDiv(rows, n) \in Nat \ {0}
  BY CeilDivBounds
<1>2. RowsPerLargest(rows, n) = CeilDiv(rows, n)
  BY <1>1 DEF RowsPerLargest, AtLeast
<1>. QED BY <1>2, CeilDivBounds

(* One column of n >= 1 values is divided into groups of rows, so that there *)
(* are at most as many rows in a group as the other column has values, and   *)
(* the other column cycles: two rows of a group differ in it.                *)
LEMMA GroupsCycle ==
  ASSUME NEW n \in Nat \ {0}, NEW m \in Nat \ {0}, NEW rows \in Nat \ {0},
         rows <= n * m,
         NEW r \in 1 .. rows, NEW s \in 1 .. rows,
         (r - 1) \div RowsPerLargest(rows, n) = (s - 1) \div RowsPerLargest(rows, n),
         (r - 1) % m = (s - 1) % m
  PROVE  r = s
<1> DEFINE per == RowsPerLargest(rows, n)
<1>1. per \in Nat \ {0}
  BY RowsPerLargestBounds
<1>2. per <= m
  <2>1. n * m = m * n
    OBVIOUS
  <2>2. rows <= m * n
    BY <2>1
  <2>. QED BY <2>2, RowsPerLargestBounds
<1>3. ASSUME NEW x \in 1 .. rows, NEW y \in 1 .. rows, x < y,
             (x - 1) \div per = (y - 1) \div per, (x - 1) % m = (y - 1) % m
      PROVE  FALSE
  <2>1. x - 1 \in Nat /\ y - 1 \in Nat /\ x - 1 < y - 1
    BY <1>3
  <2>2. (y - 1) - (x - 1) < per
    BY <1>1, <1>3, <2>1, SameQuotient
  <2>3. m <= (y - 1) - (x - 1)
    BY <1>3, <2>1, SameRemainder
  <2>. QED BY <1>1, <1>2, <2>1, <2>2, <2>3
<1>4. (r - 1) \div per = (s - 1) \div per /\ (r - 1) % m = (s - 1) % m
  OBVIOUS
<1>5. ~ (r < s) /\ ~ (s < r)
  BY <1>3, <1>4
<1>. QED BY <1>5

\* The groups of the divided column are numbered below its number of values.
LEMMA GroupsBelow ==
  ASSUME NEW n \in Nat \ {0}, NEW rows \in Nat \ {0}, NEW r \in 1 .. rows
  PROVE  (r - 1) \div RowsPerLargest(rows, n) \in 0 .. n - 1
<1> DEFINE per == RowsPerLargest(rows, n)
           k == r - 1
           q == k \div per
<1>1. per \in Nat \ {0} /\ rows <= per * n
  BY RowsPerLargestBounds
<1>2. k \in Nat /\ k < rows
  OBVIOUS
<1> HIDE DEF per, k
<1>3. q \in Nat /\ k = q * per + (k % per) /\ k % per \in 0 .. per - 1
  BY <1>1, <1>2, DivMod
<1>4. q < n
  <2>1. SUFFICES ASSUME n <= q PROVE FALSE
    BY <1>3
  <2>2. n * per <= q * per
    BY <1>1, <1>3, <2>1, ProductMonotone
  <2>3. n * per = per * n /\ n * per \in Nat /\ q * per \in Nat
    BY <1>1, <1>3
  <2>. QED BY <1>1, <1>2, <1>3, <2>2, <2>3
<1>. QED BY <1>3, <1>4 DEF k, per

\* One column is divided into groups, the other cycles.
LEMMA CyclingRowOfTwo ==
  ASSUME NEW counts \in [1 .. 2 -> Nat \ {0}], NEW low \in Lows, NEW rows \in Nat \ {0}
  PROVE  \E l \in 1 .. 2 : \A r \in 1 .. rows :
           /\ CyclingRow(counts, low, rows, r) \in [1 .. 2 -> Int]
           /\ CyclingRow(counts, low, rows, r)[l]
                = low[l] + ((r - 1) \div RowsPerLargest(rows, counts[l]))
           /\ CyclingRow(counts, low, rows, r)[3 - l] = low[3 - l] + ((r - 1) % counts[3 - l])
<1> DEFINE l == Largest(counts, DOMAIN counts)
           X(r, c) == IF c = l THEN (r - 1) \div RowsPerLargest(rows, counts[l])
                      ELSE (r - 1) % counts[c]
<1>1. DOMAIN counts = 1 .. 2 /\ \A c \in 1 .. 2 : counts[c] \in Nat \ {0}
  OBVIOUS
<1>2. l \in 1 .. 2
  <2>1. counts \in [1 .. 2 -> Nat]
    OBVIOUS
  <2>. QED BY <1>1, <2>1, LargestOfTwo
<1>3. \A r : CyclingRow(counts, low, rows, r) = [c \in 1 .. 2 |-> low[c] + X(r, c)]
  BY <1>1 DEF CyclingRow
<1>4. \A c \in 1 .. 2 : low[c] \in Int
  BY DEF Lows
<1> HIDE DEF l
<1>5. ASSUME NEW r \in 1 .. rows, NEW c \in 1 .. 2 PROVE X(r, c) \in Int
  <2>1. r - 1 \in Nat
    OBVIOUS
  <2>2. (r - 1) \div RowsPerLargest(rows, counts[l]) \in Int
    BY <1>1, <1>2, GroupsBelow
  <2>3. (r - 1) % counts[c] \in Int
    <3> DEFINE d == counts[c]
    <3>1. d \in Nat \ {0}
      BY <1>1
    <3> HIDE DEF d
    <3>2. (r - 1) % d \in 0 .. d - 1
      BY <2>1, <3>1, DivMod
    <3>. QED BY <3>1, <3>2 DEF d
  <2>. QED BY <2>2, <2>3
<1>6. 3 - l \in 1 .. 2 /\ 3 - l # l
  BY <1>2
<1>7. ASSUME NEW r \in 1 .. rows
      PROVE  /\ CyclingRow(counts, low, rows, r) \in [1 .. 2 -> Int]
             /\ CyclingRow(counts, low, rows, r)[l] = low[l] + X(r, l)
             /\ CyclingRow(counts, low, rows, r)[3 - l] = low[3 - l] + X(r, 3 - l)
  <2> HIDE DEF X
  <2>1. \A c \in 1 .. 2 : low[c] + X(r, c) \in Int
    BY <1>4, <1>5
  <2>. QED BY <1>2, <1>3, <1>6, <2>1
<1>8. \A r : /\ X(r, l) = (r - 1) \div RowsPerLargest(rows, counts[l])
             /\ X(r, 3 - l) = (r - 1) % counts[3 - l]
  BY <1>6
<1> HIDE DEF X
<1>. QED BY <1>2, <1>7, <1>8

(* Two rows of N-cycling over two columns of as many combinations as rows    *)
(* differ, whichever column is the larger and whether or not its number of   *)
(* values divides that of the rows (the formulas of build_fk_appendages).    *)
THEOREM CyclingRowsDiffer ==
  ASSUME NEW counts \in [1 .. 2 -> Nat \ {0}], NEW low \in Lows, NEW rows \in Nat \ {0},
         rows <= counts[1] * counts[2],
         NEW r \in 1 .. rows, NEW s \in 1 .. rows,
         CyclingRow(counts, low, rows, r) = CyclingRow(counts, low, rows, s)
  PROVE  r = s
<1>1. PICK l \in 1 .. 2 : \A k \in 1 .. rows :
        /\ CyclingRow(counts, low, rows, k)[l]
             = low[l] + ((k - 1) \div RowsPerLargest(rows, counts[l]))
        /\ CyclingRow(counts, low, rows, k)[3 - l] = low[3 - l] + ((k - 1) % counts[3 - l])
  BY CyclingRowOfTwo
<1> DEFINE n == counts[l]
           m == counts[3 - l]
           a == low[l]
           b == low[3 - l]
           Q(k) == (k - 1) \div RowsPerLargest(rows, n)
           R(k) == (k - 1) % m
<1>2. 3 - l \in 1 .. 2
  OBVIOUS
<1>3. n \in Nat \ {0} /\ m \in Nat \ {0} /\ a \in Int /\ b \in Int
  BY <1>2 DEF Lows
<1>4. rows <= n * m
  <2>1. counts[1] * counts[2] = counts[2] * counts[1]
    <3>1. counts[1] \in Nat /\ counts[2] \in Nat
      OBVIOUS
    <3>. QED BY <3>1
  <2>2. CASE l = 1
    BY <2>2
  <2>3. CASE l = 2
    BY <2>1, <2>3
  <2>. QED BY <2>2, <2>3
<1> HIDE DEF n, m, a, b
<1>5. ASSUME NEW k \in 1 .. rows PROVE Q(k) \in Nat /\ R(k) \in Nat
  <2>1. k - 1 \in Nat
    OBVIOUS
  <2>2. Q(k) \in 0 .. n - 1
    BY <1>3, GroupsBelow
  <2>3. R(k) \in 0 .. m - 1
    BY <1>3, <2>1, DivMod
  <2> HIDE DEF Q, R
  <2>. QED BY <1>3, <2>2, <2>3
<1>6. a + Q(r) = a + Q(s) /\ b + R(r) = b + R(s)
  BY <1>1 DEF n, m, a, b
<1>7. Q(r) = Q(s) /\ R(r) = R(s)
  <2>1. Q(r) \in Nat /\ Q(s) \in Nat /\ R(r) \in Nat /\ R(s) \in Nat
    BY <1>5
  <2> HIDE DEF Q, R
  <2> DEFINE x == Q(r)
             y == Q(s)
             u == R(r)
             v == R(s)
  <2> HIDE DEF x, y, u, v
  <2>2. x = y /\ u = v
    BY <1>3, <1>6, <2>1 DEF x, y, u, v
  <2>. QED BY <2>2 DEF x, y, u, v
<1>. QED BY <1>3, <1>4, <1>7, GroupsCycle

\* A cycling row keeps within the values of its columns.
LEMMA CyclingRowInGrid ==
  ASSUME NEW T, NEW counts \in [1 .. 2 -> Nat \ {0}], NEW low \in Lows, NEW rows \in Nat \ {0},
         \A c \in 1 .. 2 : counts[c] = Distinct(T, c), NEW r \in 1 .. rows
  PROVE  InGrid(CyclingRow(counts, low, rows, r), low, T)
<1> DEFINE row == CyclingRow(counts, low, rows, r)
<1>1. PICK l \in 1 .. 2 :
        /\ row \in [1 .. 2 -> Int]
        /\ row[l] = low[l] + ((r - 1) \div RowsPerLargest(rows, counts[l]))
        /\ row[3 - l] = low[3 - l] + ((r - 1) % counts[3 - l])
  BY CyclingRowOfTwo
<1> HIDE DEF row
<1>2. \A c \in 1 .. 2 : counts[c] \in Nat \ {0} /\ low[c] \in Int
  BY DEF Lows
<1>3. row[l] \in low[l] .. low[l] + counts[l] - 1
  <2> DEFINE q == (r - 1) \div RowsPerLargest(rows, counts[l])
             n == counts[l]
             a == low[l]
  <2>1. q \in 0 .. n - 1 /\ n \in Nat /\ a \in Int /\ row[l] = a + q
    BY <1>1, <1>2, GroupsBelow
  <2> HIDE DEF q, n, a
  <2>2. row[l] \in a .. a + n - 1
    BY <2>1
  <2>. QED BY <2>2 DEF a, n
<1>4. row[3 - l] \in low[3 - l] .. low[3 - l] + counts[3 - l] - 1
  <2> DEFINE q == (r - 1) % counts[3 - l]
             n == counts[3 - l]
             a == low[3 - l]
  <2>1. r - 1 \in Nat /\ 3 - l \in 1 .. 2
    OBVIOUS
  <2>2. n \in Nat \ {0} /\ a \in Int /\ row[3 - l] = a + q
    BY <1>1, <1>2, <2>1
  <2>3. q \in 0 .. n - 1
    <3> HIDE DEF n
    <3>1. (r - 1) % n \in 0 .. n - 1
      BY <2>1, <2>2, DivMod
    <3>. QED BY <3>1 DEF n
  <2> HIDE DEF q, n, a
  <2>4. row[3 - l] \in a .. a + n - 1
    BY <2>2, <2>3
  <2>. QED BY <2>4 DEF a, n
<1>5. \A c \in 1 .. 2 : c = l \/ c = 3 - l
  OBVIOUS
<1>6. \A c \in 1 .. 2 : row[c] \in low[c] .. low[c] + counts[c] - 1
  BY <1>3, <1>4, <1>5
<1>. QED BY <1>1, <1>6 DEF InGrid, row

-----------------------------------------------------------------------------
(* The keys of the parent, in each layout.                                   *)
LEMMA SourceTable ==
  ASSUME NEW l \in Layouts, NEW T \in Parents(l)
  PROVE  /\ IsTable(T)
         /\ Columns(T) = 1 .. 2 => T \in PairTables
         /\ l # "plain" => Columns(T) = 1 .. 2 /\ Distinct(T, 1) \in 1 .. Size
         /\ l = "fks" => Distinct(T, 2) \in 1 .. Size
<1>1. IsTable(T)
  BY TablesAssumption DEF IsTable
<1>2. Columns(T) = 1 .. 2 => T \in PairTables
  BY <1>1 DEF IsTable, PairTables
<1>3. Size \in Nat \ {0}
  BY KeysAssumption
<1>4. ASSUME NEW c \in Columns(T), Values(T, c) \subseteq 1 .. Size PROVE Distinct(T, c) \in 1 .. Size
  <2>1. IsFiniteSet(1 .. Size) /\ Cardinality(1 .. Size) = Size
    BY <1>3, IntervalSize
  <2>2. Distinct(T, c) <= Size
    BY <1>4, <2>1, FS_Subset DEF Distinct
  <2>3. Distinct(T, c) \in Nat \ {0}
    BY <1>1, TableCounts
  <2>. QED BY <1>3, <2>2, <2>3
<1>5. 1 \in Columns(T) /\ 2 \in Columns(T)
  BY <1>1, TableCounts
<1>6. /\ l # "plain" => Columns(T) = 1 .. 2 /\ Values(T, 1) \subseteq 1 .. Size
      /\ l = "fks" => Values(T, 2) \subseteq 1 .. Size
  BY TablesAssumption
<1>. QED BY <1>1, <1>2, <1>4, <1>5, <1>6

\* A column that takes 1 .. k has at least k values.
LEMMA ReachedValues ==
  ASSUME NEW keys, NEW n \in Nat, DOMAIN keys = 1 .. n, NEW c, NEW k \in Nat,
         \A v \in 1 .. k : \E r \in 1 .. n : keys[r][c] = v
  PROVE  Distinct(Range(keys), c) \in Nat /\ k <= Distinct(Range(keys), c)
<1> DEFINE f == [r \in 1 .. n |-> keys[r]]
           S == Values(Range(keys), c)
<1>1. IsFiniteSet(1 .. n) /\ IsFiniteSet(1 .. k) /\ Cardinality(1 .. k) = k
  BY IntervalSize
<1>2. f \in Surjection(1 .. n, Range(keys))
  BY DEF Surjection, Range
<1>3. IsFiniteSet(Range(keys))
  <2> HIDE DEF f
  <2>. QED BY <1>1, <1>2, FS_Surjection
<1>4. IsFiniteSet(S) /\ Distinct(Range(keys), c) \in Nat
  BY <1>3, ValuesFinite
<1>5. 1 .. k \subseteq S
  BY DEF Values, Range
<1>6. Cardinality(1 .. k) <= Cardinality(S)
  <2> HIDE DEF S
  <2>. QED BY <1>4, <1>5, FS_Subset
<1>. QED BY <1>1, <1>4, <1>6 DEF Distinct

\* The lowest value of a column that is a foreign key.
Ones == [c \in 1 .. 2 |-> 1]

\* Which is a lowest value.
LEMMA OneLow == Ones \in Lows
BY DEF Ones, Lows

\* A pair of numbers of values is a row of the grid.
LEMMA PairInGrid ==
  ASSUME NEW T, NEW x \in 1 .. Distinct(T, 1), NEW y \in 1 .. Distinct(T, 2),
         Distinct(T, 1) \in Nat, Distinct(T, 2) \in Nat
  PROVE  InGrid(<<x, y>>, Ones, T)
<1> DEFINE row == <<x, y>>
<1>1. row \in [1 .. 2 -> Int]
  OBVIOUS
<1>2. row[1] = x /\ row[2] = y
  OBVIOUS
<1> HIDE DEF row
<1>3. \A c \in 1 .. 2 : row[c] \in Ones[c] .. Ones[c] + Distinct(T, c) - 1
  <2> TAKE c \in 1 .. 2
  <2>1. Ones[c] = 1
    BY DEF Ones
  <2>2. row[c] \in 1 .. Distinct(T, c) /\ Distinct(T, c) \in Nat
    <3>1. CASE c = 1
      BY <1>2, <3>1
    <3>2. CASE c = 2
      BY <1>2, <3>2
    <3>. QED BY <3>1, <3>2
  <2> DEFINE d == Distinct(T, c)
  <2> HIDE DEF d
  <2>3. row[c] \in 1 .. 1 + d - 1
    BY <2>2 DEF d
  <2>. QED BY <2>1, <2>3 DEF d
<1>4. InGrid(row, Ones, T)
  BY <1>1, <1>3 DEF InGrid
<1>. QED BY <1>4 DEF row

\* Of no more rows than the source has, each is a row the formulas are for.
LEMMA RowsAsked ==
  ASSUME NEW n \in Nat, NEW asked \in 1 .. n, NEW r \in 1 .. asked
  PROVE  r \in 1 .. n /\ r <= n
OBVIOUS

\* A key of two foreign keys: different rows, within the counts.
LEMMA CyclingKeysCorrect ==
  ASSUME NEW T \in PairTables, Columns(T) = 1 .. 2, Asked(Cardinality(T)) \in 1 .. Cardinality(T)
  PROVE  /\ DOMAIN CyclingKeys(T) = 1 .. Asked(Cardinality(T))
         /\ IsInjective(CyclingKeys(T))
         /\ \A r \in 1 .. Asked(Cardinality(T)) : InGrid(CyclingKeys(T)[r], Ones, T)
<1> DEFINE counts == [c \in 1 .. 2 |-> Distinct(T, c)]
           rows == Cardinality(T)
           asked == Asked(rows)
<1>1. counts \in [1 .. 2 -> Nat \ {0}] /\ rows \in Nat \ {0} /\ rows <= counts[1] * counts[2]
  BY PairTableCounts
<1>2. [c \in DOMAIN counts |-> 1] = Ones
  BY DEF Ones
<1>3. CyclingKeys(T) = [r \in 1 .. asked |-> CyclingRow(counts, Ones, rows, r)]
  BY <1>2 DEF CyclingKeys
<1>4. \A c \in 1 .. 2 : counts[c] = Distinct(T, c)
  OBVIOUS
<1>5. \A r \in 1 .. asked : r \in 1 .. rows
  <2>1. asked \in 1 .. rows
    OBVIOUS
  <2> HIDE DEF asked, rows
  <2>. QED BY <1>1, <2>1, RowsAsked
<1> HIDE DEF counts, rows, asked
<1>6. ASSUME NEW r \in 1 .. rows PROVE InGrid(CyclingRow(counts, Ones, rows, r), Ones, T)
  BY <1>1, <1>4, OneLow, CyclingRowInGrid
<1>7. ASSUME NEW r \in 1 .. rows, NEW s \in 1 .. rows,
             CyclingRow(counts, Ones, rows, r) = CyclingRow(counts, Ones, rows, s)
      PROVE  r = s
  BY <1>1, <1>7, OneLow, CyclingRowsDiffer
<1>. QED BY <1>3, <1>6, <1>7, <1>5 DEF IsInjective, rows, asked

(* A key of a foreign key and a column of its own, by the frequencies of the *)
(* source: the rows differ, keep within the counts, and give each value of   *)
(* the first column as many partners as it has rows in the source.           *)
THEOREM BandedKeysCorrect ==
  ASSUME NEW T \in PairTables, Asked(Cardinality(T)) \in 1 .. Cardinality(T)
  PROVE  /\ DOMAIN BandedKeys(T) = 1 .. Asked(Cardinality(T))
         /\ IsInjective(BandedKeys(T))
         /\ \A r \in 1 .. Asked(Cardinality(T)) : InGrid(BandedKeys(T)[r], Ones, T)
         /\ Asked(Cardinality(T)) = Cardinality(T) =>
              /\ Distinct(T, 1) <= Distinct(Range(BandedKeys(T)), 1)
              /\ Distinct(Range(BandedKeys(T)), 2) \in Nat
              /\ \A i \in 1 .. Distinct(T, 1) :
                   AscendingFrequencies(T)[i] <= Distinct(Range(BandedKeys(T)), 2)
<1> DEFINE keys == BandedKeys(T)
           rows == Cardinality(T)
           asked == Asked(rows)
           A == AscendingFrequencies(T)
           m == Distinct(T, 1)
<1>1. /\ IsFiniteSet(T) /\ rows \in Nat /\ m \in Nat \ {0} /\ Distinct(T, 2) \in Nat
  BY PairTableCounts
<1>2. \A r \in 1 .. asked : r \in 1 .. rows /\ r <= rows
  <2>1. asked \in 1 .. rows
    OBVIOUS
  <2> HIDE DEF asked, rows
  <2>. QED BY <1>1, <2>1, RowsAsked
<1>3. DOMAIN keys = 1 .. asked /\ \A r \in 1 .. asked : keys[r] = BandedRow(T, r)
  <2>1. keys = [r \in 1 .. asked |-> IF r <= rows THEN BandedRow(T, r) ELSE RowAfterBands(T)]
    BY DEF BandedKeys
  <2> HIDE DEF keys, asked, rows
  <2>. QED BY <1>2, <2>1
<1>4. IsInjective(keys)
  BY <1>1, BandedKeysUnique
<1>5. \A i \in 1 .. m : A[i] \in Nat \ {0} /\ A[i] <= Distinct(T, 2)
  <2> TAKE i \in 1 .. m
  <2>1. A[i] \in 1 .. rows
    BY <1>1, AscendingFacts
  <2>2. A[i] <= Distinct(T, 2)
    BY FrequencyBelow
  <2> HIDE DEF A, rows
  <2>. QED BY <1>1, <2>1, <2>2
<1>6. ASSUME NEW r \in 1 .. asked PROVE InGrid(keys[r], Ones, T)
  <2>1. PICK i \in 1 .. m : \E o \in 1 .. A[i] : BandedRow(T, r) = <<i, o>>
    BY <1>2, <1>1, BandedRowFacts
  <2>2. PICK o \in 1 .. A[i] : BandedRow(T, r) = <<i, o>>
    BY <2>1
  <2> HIDE DEF A
  <2>3. o \in 1 .. Distinct(T, 2)
    BY <1>1, <1>5
  <2>4. keys[r] = <<i, o>>
    BY <1>3, <2>2
  <2>. QED BY <1>1, <2>3, <2>4, PairInGrid
<1>7. asked = rows => \A i \in 1 .. m : \A o \in 1 .. A[i] : \E r \in 1 .. rows : keys[r] = <<i, o>>
  BY <1>1, <1>3, BandedRowReached
<1>8. DOMAIN keys = 1 .. asked
  BY <1>3
<1> HIDE DEF keys, rows, asked, A, m
<1>9. asked = rows => m <= Distinct(Range(keys), 1)
  <2> SUFFICES ASSUME asked = rows PROVE m <= Distinct(Range(keys), 1)
    OBVIOUS
  <2>1. ASSUME NEW v \in 1 .. m PROVE \E r \in 1 .. rows : keys[r][1] = v
    <3>1. 1 \in 1 .. A[v]
      BY <1>5
    <3>2. PICK r \in 1 .. rows : keys[r] = <<v, 1>>
      BY <1>7, <3>1
    <3>. QED BY <3>2
  <2>. QED BY <1>1, <1>8, <2>1, ReachedValues
<1>10. ASSUME asked = rows, NEW i \in 1 .. m
      PROVE  A[i] <= Distinct(Range(keys), 2) /\ Distinct(Range(keys), 2) \in Nat
  <2>1. ASSUME NEW v \in 1 .. A[i] PROVE \E r \in 1 .. rows : keys[r][2] = v
    <3>1. PICK r \in 1 .. rows : keys[r] = <<i, v>>
      BY <1>7, <1>10
    <3>. QED BY <3>1
  <2>2. A[i] \in Nat
    BY <1>5
  <2> DEFINE k == A[i]
  <2> HIDE DEF k
  <2>3. k \in Nat /\ \A v \in 1 .. k : \E r \in 1 .. rows : keys[r][2] = v
    BY <2>1, <2>2 DEF k
  <2>4. k <= Distinct(Range(keys), 2) /\ Distinct(Range(keys), 2) \in Nat
    BY <1>1, <1>8, <1>10, <2>3, ReachedValues
  <2>. QED BY <2>4 DEF k
<1>11. 1 \in 1 .. m
  BY <1>1
<1>12. asked = rows => Distinct(Range(keys), 2) \in Nat
  BY <1>10, <1>11
<1>. QED BY <1>4, <1>6, <1>8, <1>9, <1>10, <1>12 DEF keys, rows, asked, m, A

\* So do the keys without a shape have enough partners.
LEMMA ProportionalKeysWide ==
  ASSUME NEW T \in PairTables, Asked(Cardinality(T)) \in 1 .. Cardinality(T)
  PROVE  /\ \A r \in 1 .. Asked(Cardinality(T)) : InGrid(ProportionalKeys(T)[r], Ones, T)
         /\ Asked(Cardinality(T)) = Cardinality(T) =>
              /\ Distinct(Range(ProportionalKeys(T)), 2) \in Nat
              /\ \A i \in 1 .. Distinct(T, 1) :
                   AscendingFrequencies(T)[i] <= Distinct(Range(ProportionalKeys(T)), 2)
<1> DEFINE keys == ProportionalKeys(T)
           rows == Cardinality(T)
           asked == Asked(rows)
           m == Distinct(T, 1)
           e == Distinct(T, 2)
<1>1. IsFiniteSet(T) /\ rows \in Nat /\ m \in Nat \ {0} /\ e \in Nat
  BY PairTableCounts
<1>2. /\ DOMAIN keys = 1 .. asked
      /\ \A r \in 1 .. asked : \E x \in 1 .. m : \E y \in 1 .. e : keys[r] = <<x, y>>
      /\ asked = rows => \A y \in 1 .. e : \E r \in 1 .. rows : keys[r][2] = y
  BY ProportionalKeysCorrect
<1> HIDE DEF keys, rows, asked
<1>3. ASSUME NEW r \in 1 .. asked PROVE InGrid(keys[r], Ones, T)
  <2>1. PICK x \in 1 .. m, y \in 1 .. e : keys[r] = <<x, y>>
    BY <1>2
  <2>2. Distinct(T, 1) \in Nat /\ Distinct(T, 2) \in Nat
    BY <1>1
  <2>. QED BY <2>1, <2>2, PairInGrid
<1>4. ASSUME asked = rows
      PROVE  e <= Distinct(Range(keys), 2) /\ Distinct(Range(keys), 2) \in Nat
  <2> HIDE DEF e
  <2>. QED BY <1>1, <1>2, <1>4, ReachedValues
<1>5. ASSUME asked = rows, NEW i \in 1 .. m PROVE AscendingFrequencies(T)[i] <= Distinct(Range(keys), 2)
  <2> DEFINE a == AscendingFrequencies(T)[i]
  <2>1. a <= e
    BY FrequencyBelow
  <2>2. a \in 1 .. rows
    BY <1>1, AscendingFacts DEF rows
  <2> HIDE DEF a, e
  <2>3. a <= Distinct(Range(keys), 2)
    BY <1>1, <1>4, <1>5, <2>1, <2>2
  <2>. QED BY <2>3 DEF a
<1>. QED BY <1>3, <1>4, <1>5 DEF keys, rows, asked

\* The least value of each column, in the generated rows.
LowsOf(l, T) == [c \in 1 .. 2 |-> IF l = "plain" THEN Lowest(T, c) ELSE 1]

\* The generated parent, in every layout.
LEMMA ParentKeysCorrect ==
  ASSUME layout \in Layouts, source \in Parents(layout),
         Asked(Cardinality(source)) \in 1 .. Cardinality(source)
  PROVE  /\ Cardinality(source) \in Nat \ {0}
         /\ DOMAIN ParentKeys = 1 .. Asked(Cardinality(source))
         /\ IsInjective(ParentKeys)
         /\ Columns(source) = 1 .. 2 =>
              /\ LowsOf(layout, source) \in Lows
              /\ \A r \in 1 .. Asked(Cardinality(source)) : InGrid(ParentKeys[r], LowsOf(layout, source), source)
<1>1. IsTable(source) /\ Cardinality(source) \in Nat \ {0}
  BY SourceTable, TableCounts
<1>2. layout # "plain" => Columns(source) = 1 .. 2 /\ source \in PairTables /\ LowsOf(layout, source) = Ones
  BY SourceTable DEF LowsOf, Ones
<1>3. layout \in {"fks", "sequence", "partner", "plain"}
  BY KeysAssumption
<1>4. CASE layout = "fks"
  <2>1. ParentKeys = CyclingKeys(source)
    BY <1>4 DEF ParentKeys
  <2>. QED BY <1>1, <1>2, <1>4, <2>1, CyclingKeysCorrect, OneLow
<1>5. CASE layout \in {"sequence", "partner"}
  <2>1. ParentKeys = BandedKeys(source) \/ ParentKeys = ProportionalKeys(source)
    BY <1>5 DEF ParentKeys, PartialKeys
  <2>2. CASE ParentKeys = BandedKeys(source)
    BY <1>1, <1>2, <1>5, <2>2, BandedKeysCorrect, OneLow
  <2>3. CASE ParentKeys = ProportionalKeys(source)
    BY <1>1, <1>2, <1>5, <2>3, ProportionalKeysCorrect, ProportionalKeysWide, OneLow
  <2>. QED BY <2>1, <2>2, <2>3
<1>6. CASE layout = "plain"
  <2>1. ParentKeys = AnchoredKeys(source)
    BY <1>6 DEF ParentKeys
  <2>2. /\ DOMAIN ParentKeys = 1 .. Asked(Cardinality(source))
        /\ IsInjective(ParentKeys)
        /\ \A r \in 1 .. Asked(Cardinality(source)) :
             /\ ParentKeys[r] \in [Columns(source) -> Int]
             /\ \A c \in Columns(source) :
                  ParentKeys[r][c] \in Lowest(source, c) .. Lowest(source, c) + Distinct(source, c) - 1
    BY <1>1, <2>1, AnchoredKeysCorrect
  <2>3. ASSUME Columns(source) = 1 .. 2
        PROVE  /\ LowsOf(layout, source) \in Lows
               /\ \A r \in 1 .. Asked(Cardinality(source)) :
                    InGrid(ParentKeys[r], LowsOf(layout, source), source)
    <3>1. \A c \in 1 .. 2 : Lowest(source, c) \in Int
      BY <1>1, <2>3, TableCounts
    <3>2. \A c \in 1 .. 2 : LowsOf(layout, source)[c] = Lowest(source, c)
      BY <1>6 DEF LowsOf
    <3>3. LowsOf(layout, source) \in Lows
      BY <1>6, <3>1 DEF LowsOf, Lows
    <3>. QED BY <2>2, <2>3, <3>2, <3>3 DEF InGrid
  <2>. QED BY <1>1, <2>2, <2>3
<1>. QED BY <1>3, <1>4, <1>5, <1>6

-----------------------------------------------------------------------------
(* The inductive invariant.  The parent is what the formulas of its layout   *)
(* make of the source; the registry holds, if anything, the frequencies of   *)
(* the source; and what a run has generated for the child by a shape is by   *)
(* the registered one.  Of a parent with as many rows as its source the      *)
(* registry holds only what a run of the child alone would rebuild, and the  *)
(* child's rows are determined by the parent, up to the number of values of  *)
(* the second column.                                                        *)
Complete == Len(parent) = Cardinality(source)

\* The partners that a shape can have been given.
Partners == {Distinct(source, 2)} \cup {d \in {Distinct(Range(parent), 2)} : Complete}

\* The shape of the source with a number of partners.
ShapeOf(partnerDistinct) == Shape(AscendingFrequencies(source), partnerDistinct)

\* Whether the child is generated by the shape of a complete parent.
Shaped ==
  /\ Reconstructible
  /\ Len(AscendingFrequencies(child.keys)) <= MaxDistinct
  /\ Cardinality(Range(AscendingFrequencies(child.keys))) <= MaxGroups
  /\ AllocationFits(AscendingFrequencies(child.keys), AscendingFrequencies(source))

\* What a run can have generated for the child.
Generated(rows) ==
  /\ parent # <<>> /\ child.rows > 0
  /\ ~child.inKey => rows = CyclingReplay
  /\ child.inKey /\ Shaped =>
       \E d \in Partners : rows = ShapedReplay(child.keys, ShapeOf(d))
  /\ child.inKey /\ Complete /\ ~Shaped => rows = PositionedReplay

\* What the registry can hold.
Registered ==
  /\ parent # <<>> /\ layout \in {"sequence", "partner"}
  /\ Complete => Reconstructible
  /\ \E d \in Partners : registry = ShapeOf(d)

\* What the rows of a child in the parent's key have been generated by.
Followed ==
  replay # <<>> /\ child.inKey =>
    IF ShapeUsable(registry) THEN replay = ShapedReplay(child.keys, registry)
    ELSE replay = PositionedReplay

\* The inductive invariant.
IInv ==
  /\ layout \in Layouts /\ source \in Parents(layout) /\ child \in Children(source)
  /\ override \in Overrides
  /\ parent # <<>> => parent = ParentKeys
  /\ registry # None => Registered
  /\ replay # <<>> => Generated(replay)
  /\ earlier # <<>> => Generated(earlier)
  /\ Followed

\* A table is asked for rows.
LEMMA RowsAskedFor ==
  ASSUME override \in Overrides, NEW n \in Nat \ {0}
  PROVE  Asked(n) \in Nat \ {0}
BY KeysAssumption DEF Asked

\* The parent is as long as it is asked to be.
LEMMA ParentLength ==
  ASSUME layout \in Layouts, source \in Parents(layout), override \in Overrides
  PROVE  /\ Cardinality(source) \in Nat \ {0} /\ Asked(Cardinality(source)) \in Nat \ {0}
         /\ ParentKeys # <<>> /\ Len(ParentKeys) = Asked(Cardinality(source))
         /\ Len(ParentKeys) <= Cardinality(source)
              => Asked(Cardinality(source)) \in 1 .. Cardinality(source)
<1>1. Cardinality(source) \in Nat \ {0}
  BY SourceTable, TableCounts
<1> DEFINE c == Cardinality(source)
           n == Asked(c)
           keys == ParentKeys
<1>2. n \in Nat \ {0}
  BY <1>1, RowsAskedFor
<1>3. DOMAIN keys = 1 .. n
  <2>1. layout \in {"fks", "sequence", "partner", "plain"}
    BY KeysAssumption
  <2>2. CASE layout = "fks"
    BY <2>2 DEF ParentKeys, CyclingKeys
  <2>3. CASE layout \in {"sequence", "partner"}
    <3>1. ParentKeys = BandedKeys(source) \/ ParentKeys = ProportionalKeys(source)
      BY <2>3 DEF ParentKeys, PartialKeys
    <3>2. DOMAIN BandedKeys(source) = 1 .. n
      BY DEF BandedKeys
    <3>3. DOMAIN ProportionalKeys(source) = 1 .. n
      BY DEF ProportionalKeys
    <3>. QED BY <3>1, <3>2, <3>3
  <2>4. CASE layout = "plain"
    BY <2>4 DEF ParentKeys, AnchoredKeys
  <2>. QED BY <2>1, <2>2, <2>3, <2>4
<1>4. c \in Nat \ {0}
  BY <1>1
<1> HIDE DEF c, n, keys
<1>5. Len(keys) = n
  BY <1>2, <1>3
<1>6. 1 \in DOMAIN keys /\ DOMAIN <<>> = {}
  BY <1>2, <1>3
<1>7. keys # <<>>
  BY <1>6
<1>8. Len(keys) <= c => n \in 1 .. c
  BY <1>2, <1>4, <1>5
<1>. QED BY <1>2, <1>4, <1>5, <1>7, <1>8 DEF n, c, keys

\* The second column has as many values as a value of the first has rows.
LEMMA PartnersWide ==
  ASSUME layout \in Layouts \cap {"sequence", "partner"}, source \in Parents(layout),
         override \in Overrides, parent = ParentKeys
  PROVE  /\ source \in PairTables /\ IsFiniteSet(source)
         /\ \A d \in Partners : /\ d \in Nat \ {0}
                                /\ \A i \in 1 .. Distinct(source, 1) : AscendingFrequencies(source)[i] <= d
<1>1. source \in PairTables
  BY SourceTable
<1>2. /\ IsFiniteSet(source) /\ Distinct(source, 1) \in Nat \ {0} /\ Distinct(source, 2) \in Nat \ {0}
      /\ Cardinality(source) \in Nat
  BY <1>1, PairTableCounts
<1>3. parent = BandedKeys(source) \/ parent = ProportionalKeys(source)
  BY DEF ParentKeys, PartialKeys
<1>4. Complete => /\ Asked(Cardinality(source)) = Cardinality(source)
                   /\ Asked(Cardinality(source)) \in 1 .. Cardinality(source)
  BY ParentLength DEF Complete
<1>5. Complete =>
      /\ Distinct(Range(parent), 2) \in Nat
      /\ \A i \in 1 .. Distinct(source, 1) :
           AscendingFrequencies(source)[i] <= Distinct(Range(parent), 2)
  BY <1>1, <1>3, <1>4, BandedKeysCorrect, ProportionalKeysWide
<1>6. \A i \in 1 .. Distinct(source, 1) : AscendingFrequencies(source)[i] <= Distinct(source, 2)
  BY <1>1, FrequencyBelow
<1>7. AscendingFrequencies(source)[1] \in 1 .. Cardinality(source) /\ 1 \in 1 .. Distinct(source, 1)
  <2>1. 1 \in 1 .. Distinct(source, 1)
    BY <1>2
  <2>. QED BY <1>2, <2>1, AscendingFacts
<1> DEFINE a == AscendingFrequencies(source)[1]
           e == Distinct(Range(parent), 2)
<1>8. Complete => e \in Nat \ {0}
  <2> SUFFICES ASSUME Complete PROVE e \in Nat \ {0}
    OBVIOUS
  <2>1. a <= e /\ e \in Nat /\ a \in 1 .. Cardinality(source)
    BY <1>5, <1>7
  <2> HIDE DEF a, e
  <2>. QED BY <1>2, <2>1
<1>. QED BY <1>1, <1>2, <1>5, <1>6, <1>8 DEF Partners

\* A shape is never taken for a missing one.
LEMMA ShapesAreShapes ==
  ASSUME layout \in Layouts \cap {"sequence", "partner"}, source \in Parents(layout),
         override \in Overrides, parent = ParentKeys, NEW d \in Partners
  PROVE  ShapeOf(d) # None
<1>1. d \in Nat /\ IsFiniteSet(source)
  BY PartnersWide
<1>2. AscendingFrequencies(source) \in Seq(Nat \ {0})
  BY <1>1, AscendingFacts
<1> DEFINE A == AscendingFrequencies(source)
<1> HIDE DEF A
<1>3. A \in Seq(Nat)
  BY <1>2 DEF A
<1>4. [frequencies |-> A, partnerDistinct |-> d] \in [frequencies : Seq(Nat), partnerDistinct : Nat]
  BY <1>1, <1>3
<1>. QED BY <1>4, KeysAssumption DEF ShapeOf, Shape, A

\* It holds before anything is generated,
LEMMA IInvInit == Init => IInv
BY DEF Init, IInv, Followed

-----------------------------------------------------------------------------
(* The steps of a run.                                                       *)

\* The assumptions on the child.
LEMMA ChildTable ==
  ASSUME IInv
  PROVE  /\ child.inKey \in BOOLEAN /\ child.rows \in Nat
         /\ child.inKey => /\ IsFiniteSet(child.keys) /\ child.rows = Cardinality(child.keys)
                           /\ \A t \in child.keys : <<t[1], t[2]>> \in source
         /\ child.rows > 0 => Columns(source) = 1 .. 2
BY TablesAssumption DEF IInv

\* A child in the parent's key uses every shape that its parent can have, if
\* its allocation fits.
LEMMA ShapesUsable ==
  ASSUME IInv, parent # <<>>, child.inKey, layout \in {"sequence", "partner"}, NEW d \in Partners
  PROVE  /\ ShapeOf(d) # None
         /\ Reconstructible => (ShapeUsable(ShapeOf(d)) <=> Shaped)
         /\ ShapeUsable(ShapeOf(d)) /\ Asked(child.rows) \in 1 .. child.rows =>
            LET rows == ShapedReplay(child.keys, ShapeOf(d))
            IN  /\ IsInjective(rows)
                /\ DOMAIN rows = 1 .. Asked(child.rows)
                /\ \A r \in 1 .. Asked(child.rows) :
                     \E x \in 1 .. Distinct(source, 1) : \E y \in 1 .. d : rows[r] = <<x, y>>
<1>1. /\ layout \in Layouts \cap {"sequence", "partner"} /\ source \in Parents(layout)
      /\ override \in Overrides /\ parent = ParentKeys
  BY DEF IInv
<1>2. ShapeOf(d) # None
  BY <1>1, ShapesAreShapes
<1>3. /\ IsFiniteSet(source) /\ d \in Nat \ {0}
      /\ \A i \in 1 .. Distinct(source, 1) : AscendingFrequencies(source)[i] <= d
  BY <1>1, PartnersWide
<1>4. IsFiniteSet(child.keys) /\ child.rows = Cardinality(child.keys)
  BY ChildTable
<1>5. ShapeOf(d).frequencies = AscendingFrequencies(source)
  BY DEF ShapeOf, Shape
<1>6. Reconstructible => (ShapeUsable(ShapeOf(d)) <=> Shaped)
  BY <1>2, <1>5 DEF ShapeUsable, Shaped
<1> DEFINE rows == ShapedReplay(child.keys, ShapeOf(d))
<1>7. ASSUME ShapeUsable(ShapeOf(d)), Asked(child.rows) \in 1 .. child.rows
      PROVE  /\ IsInjective(rows)
             /\ DOMAIN rows = 1 .. Asked(child.rows)
             /\ \A r \in 1 .. Asked(child.rows) :
                  \E x \in 1 .. Distinct(source, 1) : \E y \in 1 .. d : rows[r] = <<x, y>>
  <2> DEFINE K == child.keys
  <2>1. AllocationFits(AscendingFrequencies(K), AscendingFrequencies(source))
    BY <1>5, <1>7 DEF ShapeUsable
  <2>2. IsFiniteSet(K) /\ Asked(Cardinality(K)) \in 1 .. Cardinality(K)
    BY <1>4, <1>7
  <2> HIDE DEF K
  <2>3. LET k == ShapedReplay(K, ShapeOf(d))
        IN  /\ IsInjective(k)
            /\ DOMAIN k = 1 .. Asked(Cardinality(K))
            /\ \A r \in 1 .. Asked(Cardinality(K)) :
                 \E x \in 1 .. Distinct(source, 1) : \E y \in 1 .. d : k[r] = <<x, y>>
    BY <1>3, <2>1, <2>2, ShapedReplayCorrect DEF ShapeOf
  <2>. QED BY <1>4, <2>3 DEF K
<1>. QED BY <1>2, <1>6, <1>7

\* What is computed of the input and the parent stays as it is.
LEMMA InputFixed ==
  ASSUME UNCHANGED <<layout, source, child, override, parent>>
  PROVE  /\ CyclingReplay' = CyclingReplay
         /\ PositionedReplay' = PositionedReplay
         /\ Reconstructible' <=> Reconstructible
         /\ Shaped' <=> Shaped
         /\ Partners' = Partners /\ (Complete' <=> Complete) /\ ParentKeys' = ParentKeys
         /\ \A d : ShapeOf(d)' = ShapeOf(d)
         /\ \A shape : ShapedReplay(child.keys, shape)' = ShapedReplay(child.keys, shape)
         /\ \A shape : ShapeUsable(shape)' <=> ShapeUsable(shape)
<1>1. CyclingReplay' = CyclingReplay
  BY DEF CyclingReplay, Asked
<1>2. PositionedReplay' = PositionedReplay
  BY DEF PositionedReplay, Asked
<1>3. Reconstructible' <=> Reconstructible
  BY DEF Reconstructible
<1>4. Shaped' <=> Shaped
  BY <1>3 DEF Shaped
<1>5. Complete' <=> Complete
  BY DEF Complete
<1>6. Partners' = Partners
  BY <1>5 DEF Partners
<1>7. ParentKeys' = ParentKeys
  BY DEF ParentKeys, PartialKeys, GroupedSequenceApplies, CyclingKeys, BandedKeys, ProportionalKeys,
         AnchoredKeys, Asked
<1>8. \A shape : ShapedReplay(child.keys, shape)' = ShapedReplay(child.keys, shape)
  BY DEF ShapedReplay, Asked
<1>9. \A shape : ShapeUsable(shape)' <=> ShapeUsable(shape)
  BY DEF ShapeUsable
<1>. QED BY <1>1, <1>2, <1>3, <1>4, <1>5, <1>6, <1>7, <1>8, <1>9 DEF ShapeOf

\* What has been generated stays what it was.
LEMMA GeneratedFixed ==
  ASSUME UNCHANGED <<layout, source, child, override, parent>>
  PROVE  /\ Registered /\ registry' = registry => Registered'
         /\ Generated(replay) /\ replay' = replay => Generated(replay)'
         /\ Generated(replay) /\ earlier' = replay => Generated(earlier)'
         /\ Generated(earlier) /\ earlier' = earlier => Generated(earlier)'
<1>1. Registered /\ registry' = registry => Registered'
  BY InputFixed DEF Registered
<1>2. Generated(replay) /\ replay' = replay => Generated(replay)'
  BY InputFixed DEF Generated
<1>3. Generated(replay) /\ earlier' = replay => Generated(earlier)'
  BY InputFixed DEF Generated
<1>4. Generated(earlier) /\ earlier' = earlier => Generated(earlier)'
  BY InputFixed DEF Generated
<1>. QED BY <1>1, <1>2, <1>3, <1>4

\* after the parent is,
LEMMA GenerateParentKeepsIInv == IInv /\ GenerateParent => IInv'
<1> SUFFICES ASSUME IInv, GenerateParent PROVE IInv'
  OBVIOUS
<1>1. /\ parent = <<>> /\ parent' = ParentKeys
      /\ UNCHANGED <<layout, source, child, override, replay, earlier>>
      /\ registry' = IF layout \in {"sequence", "partner"} /\ FrequencyShapeApplies(source)
                     THEN Shape(AscendingFrequencies(source), Distinct(source, 2))
                     ELSE registry
  BY DEF GenerateParent
<1>2. registry = None /\ replay = <<>> /\ earlier = <<>>
  BY <1>1 DEF IInv, Registered, Generated
<1>3. /\ layout \in Layouts /\ source \in Parents(layout) /\ child \in Children(source)
      /\ override \in Overrides
  BY DEF IInv
<1>4. ParentKeys' = ParentKeys
  BY <1>1 DEF ParentKeys, PartialKeys, GroupedSequenceApplies, CyclingKeys, BandedKeys, ProportionalKeys,
              AnchoredKeys, Asked
<1>5. /\ ParentKeys # <<>> /\ Len(ParentKeys) = Asked(Cardinality(source))
      /\ Cardinality(source) \in Nat \ {0}
  BY <1>3, ParentLength
<1>6. ASSUME registry' # None PROVE Registered'
  <2>1. /\ layout \in {"sequence", "partner"} /\ FrequencyShapeApplies(source)
        /\ registry' = Shape(AscendingFrequencies(source), Distinct(source, 2))
    BY <1>1, <1>2, <1>6
  <2>2. parent' = BandedKeys(source)
    BY <1>1, <2>1 DEF ParentKeys, PartialKeys
  <2>3. source \in PairTables
    BY <1>3, <2>1, SourceTable
  <2>4. ASSUME Complete' PROVE Reconstructible'
    <3>1. Len(parent') = Cardinality(source)
      BY <1>1, <2>4 DEF Complete
    <3>2. /\ Asked(Cardinality(source)) = Cardinality(source)
          /\ Asked(Cardinality(source)) \in 1 .. Cardinality(source)
      BY <1>1, <1>5, <3>1
    <3>3. Distinct(source, 1) <= Distinct(Range(parent'), 1)
      BY <2>2, <2>3, <3>2, BandedKeysCorrect
    <3>4. Len(AscendingFrequencies(source)) = Distinct(source, 1)
      BY <2>3, PairTableCounts, AscendingFacts
    <3>. QED BY <1>1, <2>1, <3>1, <3>3, <3>4 DEF Reconstructible, FrequencyShapeApplies
  <2>5. registry' = ShapeOf(Distinct(source, 2))'
    BY <1>1, <2>1 DEF ShapeOf
  <2>6. Distinct(source, 2)' \in Partners'
    BY DEF Partners
  <2>7. parent' # <<>> /\ layout' \in {"sequence", "partner"}
    BY <1>1, <1>5, <2>1
  <2>8. \E d \in Partners' : registry' = ShapeOf(d)'
    BY <2>5, <2>6, <1>1
  <2>. QED BY <2>4, <2>7, <2>8 DEF Registered
<1>7. /\ layout' \in Layouts /\ source' \in Parents(layout') /\ child' \in Children(source')
      /\ override' \in Overrides
  BY <1>1, <1>3
<1>. QED BY <1>1, <1>2, <1>4, <1>6, <1>7 DEF IInv, Followed

\* after the child is, by the registered shape or by the rebuilt one,
LEMMA GenerateChildKeepsIInv == IInv /\ GenerateChild => IInv'
<1> SUFFICES ASSUME IInv, GenerateChild PROVE IInv'
  OBVIOUS
<1>1. /\ parent # <<>> /\ child.rows > 0
      /\ UNCHANGED <<layout, source, child, override, parent, earlier>>
      /\ registry' = IF child.inKey THEN ShapeOfParent ELSE registry
      /\ replay' = IF ~child.inKey THEN CyclingReplay
                   ELSE IF ShapeUsable(registry')
                        THEN ShapedReplay(child.keys, registry')
                        ELSE PositionedReplay
  BY DEF GenerateChild
<1>2. /\ layout \in Layouts /\ source \in Parents(layout) /\ child \in Children(source)
      /\ override \in Overrides
      /\ parent = ParentKeys
      /\ registry # None => Registered
      /\ earlier # <<>> => Generated(earlier)
  BY <1>1 DEF IInv
<1>3. registry' # None =>
        /\ layout \in {"sequence", "partner"} /\ (Complete => Reconstructible)
        /\ \E d \in Partners : registry' = ShapeOf(d)
  <2>1. CASE registry' = registry
    BY <1>2, <2>1 DEF Registered
  <2>2. CASE registry' # registry
    <3>1. registry = None /\ registry' = ShapeOfParent
      BY <1>1, <2>2 DEF ShapeOfParent
    <3>2. registry' # None =>
            Reconstructible /\ registry' = ShapeOf(Distinct(Range(parent), 2))
      BY <3>1 DEF ShapeOfParent, ShapeOf
    <3>. QED BY <3>2 DEF Partners, Complete, Reconstructible
  <2>. QED BY <2>1, <2>2
<1>4. child.inKey /\ Reconstructible => registry' # None
  <2> SUFFICES ASSUME child.inKey, Reconstructible PROVE registry' # None
    OBVIOUS
  <2>1. registry # None => registry' # None
    BY <1>1 DEF ShapeOfParent
  <2>2. registry = None => registry' = ShapeOf(Distinct(Range(parent), 2))
    BY <1>1 DEF ShapeOfParent, ShapeOf
  <2>3. Distinct(Range(parent), 2) \in Partners /\ layout \in {"sequence", "partner"}
    BY DEF Partners, Complete, Reconstructible
  <2>4. ShapeOf(Distinct(Range(parent), 2)) # None
    BY <1>1, <2>3, ShapesUsable
  <2>. QED BY <2>1, <2>2, <2>4
<1>5. registry' # None => Registered'
  <2> SUFFICES ASSUME registry' # None PROVE Registered'
    OBVIOUS
  <2>1. layout' \in {"sequence", "partner"} /\ (Complete' => Reconstructible')
    BY <1>1, <1>3, InputFixed
  <2>2. PICK d \in Partners : registry' = ShapeOf(d)
    BY <1>3
  <2>3. d \in Partners' /\ ShapeOf(d)' = ShapeOf(d)
    BY <1>1, InputFixed
  <2>. QED BY <1>1, <2>1, <2>2, <2>3 DEF Registered
<1>6. child.inKey /\ Complete => (ShapeUsable(registry') <=> Shaped)
  <2> SUFFICES ASSUME child.inKey, Complete PROVE ShapeUsable(registry') <=> Shaped
    OBVIOUS
  <2>1. CASE registry' # None
    <3>1. PICK d \in Partners : registry' = ShapeOf(d)
      BY <1>3, <2>1
    <3>2. ShapeUsable(ShapeOf(d)) <=> Shaped
      BY <1>1, <1>3, <2>1, ShapesUsable
    <3>. QED BY <3>1, <3>2
  <2>2. CASE registry' = None
    <3>1. ~Reconstructible
      BY <1>4, <2>2
    <3>. QED BY <2>2, <3>1 DEF ShapeUsable, Shaped
  <2>. QED BY <2>1, <2>2
<1>7. /\ ~child.inKey => replay' = CyclingReplay
      /\ child.inKey /\ Shaped =>
           \E d \in Partners : replay' = ShapedReplay(child.keys, ShapeOf(d))
      /\ child.inKey /\ Complete /\ ~Shaped => replay' = PositionedReplay
  <2>1. ~child.inKey => replay' = CyclingReplay
    BY <1>1
  <2>2. ASSUME child.inKey, Shaped
        PROVE  \E d \in Partners : replay' = ShapedReplay(child.keys, ShapeOf(d))
    <3>1. ShapeUsable(registry') /\ Reconstructible
      BY <1>6, <2>2 DEF Shaped, Reconstructible, Complete
    <3>2. replay' = ShapedReplay(child.keys, registry')
      BY <1>1, <2>2, <3>1
    <3>3. PICK d \in Partners : registry' = ShapeOf(d)
      BY <1>3, <1>4, <2>2, <3>1
    <3>. QED BY <3>2, <3>3
  <2>3. child.inKey /\ Complete /\ ~Shaped => replay' = PositionedReplay
    BY <1>1, <1>6
  <2>. QED BY <2>1, <2>2, <2>3
<1>8. Generated(replay)'
  <2>1. child' = child /\ parent' # <<>>
    BY <1>1
  <2>2. /\ CyclingReplay' = CyclingReplay /\ PositionedReplay' = PositionedReplay
        /\ (Shaped' <=> Shaped) /\ (Complete' <=> Complete)
    BY <1>1, InputFixed
  <2>3. ASSUME child.inKey, Shaped
        PROVE  \E d \in Partners' : replay' = ShapedReplay(child.keys, ShapeOf(d))'
    <3>1. PICK d \in Partners : replay' = ShapedReplay(child.keys, ShapeOf(d))
      BY <1>7, <2>3
    <3>2. d \in Partners'
      BY <1>1, InputFixed
    <3>3. ShapedReplay(child.keys, ShapeOf(d))' = ShapedReplay(child.keys, ShapeOf(d))
      BY <1>1 DEF ShapedReplay, ShapeOf, Asked
    <3>. QED BY <3>1, <3>2, <3>3
  <2>. QED BY <1>1, <1>7, <2>1, <2>2, <2>3 DEF Generated
<1>9. earlier' # <<>> => Generated(earlier)'
  BY <1>1, <1>2, GeneratedFixed
<1>10. Followed'
  <2>1. child.inKey => replay' = IF ShapeUsable(registry') THEN ShapedReplay(child.keys, registry')
                                 ELSE PositionedReplay
    BY <1>1
  <2>2. PositionedReplay' = PositionedReplay
    BY <1>1, InputFixed
  <2>3. ShapedReplay(child.keys, registry)' = ShapedReplay(child.keys, registry')
    BY <1>1 DEF ShapedReplay, Asked
  <2>4. ShapeUsable(registry)' <=> ShapeUsable(registry')
    BY <1>1 DEF ShapeUsable
  <2>. QED BY <1>1, <2>1, <2>2, <2>3, <2>4 DEF Followed
<1>11. parent' = ParentKeys'
  BY <1>1, <1>2, InputFixed
<1>. QED BY <1>1, <1>2, <1>5, <1>8, <1>9, <1>10, <1>11 DEF IInv

\* and after every step.
LEMMA IInvNext == IInv /\ [Next]_vars => IInv'
<1> SUFFICES ASSUME IInv, [Next]_vars PROVE IInv'
  OBVIOUS
<1>1. CASE GenerateParent
  BY <1>1, GenerateParentKeepsIInv
<1>2. CASE GenerateChild
  BY <1>2, GenerateChildKeepsIInv
<1>3. ASSUME RerunChild \/ UNCHANGED vars PROVE IInv'
  <2>1. UNCHANGED <<layout, source, child, override, parent>>
    BY <1>3 DEF RerunChild, vars
  <2>2. /\ layout' \in Layouts /\ source' \in Parents(layout') /\ child' \in Children(source')
        /\ override' \in Overrides
        /\ parent' # <<>> => parent' = ParentKeys'
    <3>1. ParentKeys' = ParentKeys
      BY <2>1, InputFixed
    <3>. QED BY <2>1, <3>1 DEF IInv
  <2>3. CASE RerunChild
    <3>1. registry' = None /\ replay' = <<>> /\ earlier' = replay /\ replay # <<>>
      BY <2>3 DEF RerunChild
    <3>2. Generated(earlier)'
      BY <2>1, <3>1, GeneratedFixed DEF IInv
    <3>. QED BY <2>2, <3>1, <3>2 DEF IInv, Followed
  <2>4. CASE UNCHANGED vars
    <3>1. registry' = registry /\ replay' = replay /\ earlier' = earlier
      BY <2>4 DEF vars
    <3>2. /\ registry' # None => Registered'
          /\ replay' # <<>> => Generated(replay)'
          /\ earlier' # <<>> => Generated(earlier)'
      BY <2>1, <3>1, GeneratedFixed DEF IInv
    <3>3. Followed'
      <4>1. /\ PositionedReplay' = PositionedReplay
            /\ ShapedReplay(child.keys, registry)' = ShapedReplay(child.keys, registry)
            /\ ShapeUsable(registry)' <=> ShapeUsable(registry)
        BY <2>4 DEF vars, PositionedReplay, ShapedReplay, ShapeUsable, Asked
      <4>. QED BY <2>1, <3>1, <4>1 DEF IInv, Followed
    <3>. QED BY <2>2, <3>2, <3>3 DEF IInv
  <2>. QED BY <1>3, <2>3, <2>4
<1>. QED BY <1>1, <1>2, <1>3 DEF Next

(* The parent is always what the formulas of its layout make of the source,  *)
(* the registry only what a later run would rebuild, and the child what the  *)
(* parent and its shape determine: the inductive invariant of what follows.  *)
THEOREM KeysInvariance == Spec => []IInv
BY IInvInit, IInvNext, PTL DEF Spec

-----------------------------------------------------------------------------
(* What the runs check, for every source and every child.                    *)

(* No two rows of a generated parent have the same primary key, whatever the *)
(* source and whichever of the layouts build_fk_appendages or the fallback of *)
(* GenerateDbgen takes.                                                      *)
THEOREM ParentKeysUnique == Spec => []KeysUnique
<1>1. IInv => KeysUnique
  <2>1. IsInjective(<<>>)
    BY DEF IsInjective
  <2>2. ASSUME IInv, parent # <<>>, Len(parent) <= Cardinality(source) PROVE IsInjective(parent)
    BY <2>2, ParentLength, ParentKeysCorrect DEF IInv
  <2>. QED BY <2>1, <2>2 DEF KeysUnique
<1>. QED BY <1>1, KeysInvariance, PTL

(* Every key column that is a foreign key takes keys that the table it       *)
(* references has: the counts of div and mod are never more than its keys.   *)
THEOREM ParentReferencesExist == Spec => []ReferencesExist
<1>1. ASSUME IInv PROVE ReferencesExist
  <2> SUFFICES ASSUME Len(parent) <= Cardinality(source), NEW r \in DOMAIN parent, NEW c \in DOMAIN parent[r],
                      layout = "fks" \/ (layout # "plain" /\ c = 1)
               PROVE  parent[r][c] \in 1 .. Size
    BY DEF ReferencesExist
  <2>1. /\ layout \in Layouts /\ source \in Parents(layout)
        /\ override \in Overrides /\ parent = ParentKeys
    BY <1>1 DEF IInv
  <2>8. Asked(Cardinality(source)) \in 1 .. Cardinality(source)
    BY <2>1, ParentLength
  <2>2. /\ Columns(source) = 1 .. 2 /\ Distinct(source, 1) \in 1 .. Size
        /\ layout = "fks" => Distinct(source, 2) \in 1 .. Size
    BY <2>1, SourceTable
  <2>3. InGrid(parent[r], LowsOf(layout, source), source)
    BY <2>1, <2>2, <2>8, ParentKeysCorrect
  <2>4. c \in 1 .. 2 /\ LowsOf(layout, source)[c] = 1
    BY <2>3 DEF InGrid, LowsOf
  <2>5. parent[r][c] \in 1 .. 1 + Distinct(source, c) - 1
    BY <2>3, <2>4 DEF InGrid
  <2>6. Distinct(source, c) \in 1 .. Size
    BY <2>2, <2>4
  <2> DEFINE d == Distinct(source, c)
  <2> HIDE DEF d
  <2>7. 1 .. 1 + d - 1 \subseteq 1 .. Size
    BY <2>6, KeysAssumption DEF d
  <2>. QED BY <2>5, <2>7 DEF d
<1>. QED BY <1>1, KeysInvariance, PTL

\* A child of no more rows than its source is asked for no more.
LEMMA ReplayAsked ==
  ASSUME override \in Overrides, child.rows \in Nat \ {0}, NEW rows,
         \/ rows = PositionedReplay
         \/ child.rows = Cardinality(child.keys) /\ \E shape : rows = ShapedReplay(child.keys, shape)
  PROVE  /\ DOMAIN rows = 1 .. Asked(child.rows)
         /\ Len(rows) <= child.rows => Asked(child.rows) \in 1 .. child.rows
<1> DEFINE n == Asked(child.rows)
<1>1. n \in Nat \ {0}
  BY RowsAskedFor
<1>2. DOMAIN rows = 1 .. n
  <2>1. DOMAIN PositionedReplay = 1 .. n
    BY DEF PositionedReplay
  <2>2. ASSUME child.rows = Cardinality(child.keys), NEW shape
        PROVE  DOMAIN ShapedReplay(child.keys, shape) = 1 .. n
    BY <2>2 DEF ShapedReplay
  <2>. QED BY <2>1, <2>2
<1> HIDE DEF n
<1>3. Len(rows) = n
  BY <1>1, <1>2
<1>. QED BY <1>1, <1>2, <1>3 DEF n

(* The greedy allocation of a registered shape finds parent values for a     *)
(* child whenever there are any, so always for one whose key is the          *)
(* reference, and the pairs it gives the child are different.                *)
THEOREM ShapedChildrenFit == Spec => []ShapedChildFits
<1>1. ASSUME IInv, child.inKey, registry # None
      PROVE  /\ AllocationFits(AscendingFrequencies(child.keys), registry.frequencies)
                  <=> Coverable(child.keys, source)
             /\ child.keys \subseteq source => Coverable(child.keys, source)
             /\ ShapeUsable(registry) /\ Len(replay) <= child.rows => IsInjective(replay)
  <2>1. /\ parent # <<>> /\ layout \in {"sequence", "partner"}
        /\ \E d \in Partners : registry = ShapeOf(d)
    BY <1>1 DEF IInv, Registered
  <2>2. PICK d \in Partners : registry = ShapeOf(d)
    BY <2>1
  <2>3. registry.frequencies = AscendingFrequencies(source)
    BY <2>2 DEF ShapeOf, Shape
  <2>4. IsFiniteSet(source) /\ IsFiniteSet(child.keys) /\ child.rows = Cardinality(child.keys)
    BY <1>1, ChildTable, TablesAssumption DEF IInv
  <2>5. AllocationFits(AscendingFrequencies(child.keys), AscendingFrequencies(source))
          <=> Coverable(child.keys, source)
    BY <2>4, GreedyIsBest
  <2>6. ASSUME child.keys \subseteq source PROVE Coverable(child.keys, source)
    BY <2>4, <2>6, PartCoverable
  <2>7. ASSUME ShapeUsable(registry), Len(replay) <= child.rows PROVE IsInjective(replay)
    <3>1. CASE replay = <<>>
      BY <3>1 DEF IsInjective
    <3>2. CASE replay # <<>>
      <4>1. replay = ShapedReplay(child.keys, ShapeOf(d))
        BY <1>1, <2>2, <2>7, <3>2 DEF IInv, Followed
      <4>2. child.rows \in Nat \ {0} /\ override \in Overrides
        BY <1>1, <3>2, ChildTable DEF IInv, Generated
      <4>3. Asked(child.rows) \in 1 .. child.rows
        BY <2>4, <2>7, <4>1, <4>2, ReplayAsked
      <4>. QED BY <1>1, <2>1, <2>2, <2>7, <4>1, <4>3, ShapesUsable
    <3>. QED BY <3>1, <3>2
  <2>. QED BY <2>3, <2>5, <2>6, <2>7
<1>2. IInv => ShapedChildFits
  BY <1>1 DEF ShapedChildFits
<1>. QED BY <1>2, KeysInvariance, PTL

(* A run of the child alone gives its rows the same references to the first  *)
(* column of the parent as the run before it: the shape that is rebuilt from *)
(* the two schemas differs from the registered one in the partners at most.  *)
THEOREM RerunsAgree == Spec => []RerunAgrees
<1>1. ASSUME IInv, Complete, NEW r \in DOMAIN earlier, replay # <<>>
      PROVE  replay[r][1] = earlier[r][1]
  <2>1. earlier # <<>>
    OBVIOUS
  <2>2. Generated(replay) /\ Generated(earlier)
    BY <1>1, <2>1 DEF IInv
  <2>3. CASE ~(child.inKey /\ Shaped)
    BY <1>1, <2>2, <2>3 DEF Generated
  <2>4. CASE child.inKey /\ Shaped
    <3>1. PICK d \in Partners : replay = ShapedReplay(child.keys, ShapeOf(d))
      BY <2>2, <2>4 DEF Generated
    <3>2. PICK e \in Partners : earlier = ShapedReplay(child.keys, ShapeOf(e))
      BY <2>2, <2>4 DEF Generated
    <3>3. r \in 1 .. Asked(Cardinality(child.keys))
      BY <3>2 DEF ShapedReplay
    <3> DEFINE needed == AscendingFrequencies(child.keys)
               values == Allocated(needed, AscendingFrequencies(source))
    <3>4. \A x : ShapedReplay(child.keys, ShapeOf(x))[r][1]
                   = IF r <= Cardinality(child.keys) THEN values[BandedRow(child.keys, r)[1]]
                     ELSE values[Len(needed)]
      <4>1. \A x : ShapedReplay(child.keys, ShapeOf(x))[r] = ShapedRow(child.keys, ShapeOf(x), r)
        BY <3>3 DEF ShapedReplay
      <4>2. \A x : ShapedRow(child.keys, ShapeOf(x), r)[1]
                     = IF r <= Cardinality(child.keys) THEN values[BandedRow(child.keys, r)[1]]
                       ELSE values[Len(needed)]
        BY DEF ShapedRow, ShapeOf, Shape
      <4>. QED BY <4>1, <4>2
    <3>. QED BY <3>1, <3>2, <3>4
  <2>. QED BY <2>3, <2>4
<1>2. IInv => RerunAgrees
  BY <1>1 DEF RerunAgrees, Complete
<1>. QED BY <1>2, KeysInvariance, PTL

-----------------------------------------------------------------------------
(* The references of a child of a full parent.                               *)

\* Positions in a parent of n rows, of which every other column's turn is cut.
LEMMA PositionCapped ==
  ASSUME NEW n \in Nat, NEW raw \in 0 .. n - 1, NEW there \in Nat \ {0}, NEW cap \in Nat,
         NEW position,
         position = IF 0 < cap /\ cap < there /\ raw % there >= cap
                    THEN raw - ((raw % there) - ((raw % there) % cap))
                    ELSE raw
  PROVE  position \in 0 .. n - 1
<1> DEFINE t == raw % there
           q == (raw \div there) * there
<1>1. t \in Nat /\ q \in Nat /\ raw = q + t
  BY DivMod
<1> HIDE DEF t, q
<1>2. CASE 0 < cap /\ cap < there /\ t >= cap
  <2> DEFINE u == t % cap
             v == (t \div cap) * cap
  <2>1. cap \in Nat \ {0}
    BY <1>2
  <2>2. u \in Nat /\ t \div cap \in Nat /\ t = v + u
    BY <1>1, <2>1, DivMod
  <2>3. v \in Nat
    <3> DEFINE w == t \div cap
    <3> HIDE DEF w
    <3>1. w * cap \in Nat
      BY <2>1, <2>2 DEF w
    <3>. QED BY <3>1 DEF w
  <2>4. position = raw - (t - u)
    BY <1>2 DEF t
  <2> HIDE DEF u, v
  <2>. QED BY <1>1, <2>2, <2>3, <2>4
<1>3. CASE ~(0 < cap /\ cap < there /\ t >= cap)
  BY <1>3 DEF t
<1>. QED BY <1>2, <1>3

\* The span of the rows that the wanted values of a column have.
LEMMA SpanFits ==
  ASSUME NEW a \in Nat \ {0}, NEW b \in Nat \ {0}, NEW w \in Nat \ {0}, w <= a
  PROVE  AtLeast(1, CeilDiv(w * (a * b), a)) \in 1 .. a * b
<1> DEFINE n == a * b
           m == w * n
<1>1. n \in Nat \ {0} /\ n * a \in Nat
  OBVIOUS
<1>2. m \in Nat \ {0} /\ m <= a * n
  <2> HIDE DEF n
  <2>1. w * n \in Nat \ {0}
    BY <1>1
  <2>. QED BY <1>1, <2>1, ProductMonotone
<1>3. a * n = n * a
  BY <1>1
<1> HIDE DEF n, m
<1>4. CeilDiv(m, a) \in Nat \ {0} /\ CeilDiv(m, a) <= n
  BY <1>1, <1>2, <1>3, CeilDivBounds
<1> DEFINE c == CeilDiv(m, a)
<1> HIDE DEF c
<1>5. AtLeast(1, c) \in 1 .. n
  BY <1>1, <1>4 DEF AtLeast, c
<1>. QED BY <1>5 DEF c, n, m

\* Positions that are evenly apart stay within their span.
LEMMA EvenlyApart ==
  ASSUME NEW rows \in Nat \ {0}, NEW r \in 1 .. rows, NEW n \in Nat, NEW span \in 1 .. n
  PROVE  ((r - 1) * span) \div rows \in 0 .. n - 1
<1> DEFINE k == r - 1
           ks == k * span
<1>1. k \in Nat /\ k + 1 <= rows /\ span \in Nat \ {0}
  OBVIOUS
<1>2. ks \in Nat /\ (k + 1) * span = ks + span /\ rows * span = span * rows /\ span * rows \in Nat
  <2> HIDE DEF k
  <2>. QED BY <1>1
<1>3. (k + 1) * span <= rows * span
  <2> HIDE DEF k
  <2>. QED BY <1>1, ProductMonotone
<1> HIDE DEF k, ks
<1>4. ks < span * rows
  BY <1>1, <1>2, <1>3
<1>5. ks \div rows \in Nat /\ ks \div rows < span
  BY <1>1, <1>2, <1>4, QuotientBelow
<1>6. ks \div rows \in 0 .. n - 1
  <2> DEFINE x == ks \div rows
  <2> HIDE DEF x
  <2>1. x \in Nat /\ x < span
    BY <1>5 DEF x
  <2>2. x \in 0 .. n - 1
    BY <1>1, <2>1
  <2>. QED BY <2>2 DEF x
<1>. QED BY <1>6 DEF ks, k

\* What a child of a full parent reads of it.
LEMMA FullParent ==
  ASSUME IInv, Full(source), Complete, parent # <<>>, child.rows > 0
  PROVE  LET low == LowsOf(layout, source) IN
         /\ source \in PairTables /\ parent = ParentKeys
         /\ Len(parent) = Distinct(source, 1) * Distinct(source, 2)
         /\ Len(parent) \in Nat \ {0}
         /\ low \in Lows
         /\ \A c \in 1 .. 2 : /\ Distinct(Range(parent), c) = Distinct(source, c)
                              /\ Distinct(source, c) \in Nat \ {0}
                              /\ Lowest(Range(parent), c) = low[c]
         /\ \A row : InGrid(row, low, source) => row \in Range(parent)
<1> DEFINE low == LowsOf(layout, source)
<1>1. /\ layout \in Layouts /\ source \in Parents(layout) /\ parent = ParentKeys
      /\ override \in Overrides
  BY DEF IInv
<1>2. Columns(source) = 1 .. 2
  BY ChildTable
<1>3. source \in PairTables
  BY <1>1, <1>2, SourceTable
<1>4. /\ Asked(Cardinality(source)) = Cardinality(source)
      /\ Asked(Cardinality(source)) \in 1 .. Cardinality(source)
      /\ Cardinality(source) \in Nat \ {0} /\ Len(parent) = Cardinality(source)
  BY <1>1, ParentLength DEF Complete
<1>5. /\ DOMAIN parent = 1 .. Cardinality(source) /\ IsInjective(parent)
      /\ low \in Lows
      /\ \A r \in 1 .. Cardinality(source) : InGrid(parent[r], low, source)
  BY <1>1, <1>2, <1>4, ParentKeysCorrect
<1>6. Len(parent) = Distinct(source, 1) * Distinct(source, 2) /\ Len(parent) \in Nat \ {0}
  BY <1>4 DEF Full
<1> HIDE DEF low
<1>7. \A c \in 1 .. 2 : Distinct(Range(parent), c) = Distinct(source, c) /\ Lowest(Range(parent), c) = low[c]
  BY <1>3, <1>5, FullGridCounts
<1>8. \A row : InGrid(row, low, source) => row \in Range(parent)
  BY <1>3, <1>5, FullGridRows
<1>. QED BY <1>1, <1>3, <1>5, <1>6, <1>7, <1>8, PairTableCounts DEF low

\* A reference outside the key of the child,
LEMMA CyclingInParent ==
  ASSUME IInv, Full(source), Complete, parent # <<>>, child.rows > 0, NEW row \in Range(CyclingReplay)
  PROVE  row \in Range(parent)
<1> DEFINE there == [c \in 1 .. 2 |-> Distinct(Range(parent), c)]
           low == [c \in 1 .. 2 |-> Lowest(Range(parent), c)]
           lows == LowsOf(layout, source)
           n == Len(parent)
<1>1. /\ n \in Nat \ {0} /\ lows \in Lows
      /\ \A c \in 1 .. 2 : /\ Distinct(Range(parent), c) = Distinct(source, c)
                           /\ Distinct(source, c) \in Nat \ {0}
                           /\ Lowest(Range(parent), c) = lows[c]
      /\ \A t : InGrid(t, lows, source) => t \in Range(parent)
  BY FullParent
<1> HIDE DEF lows
<1>2. there \in [1 .. 2 -> Nat \ {0}] /\ \A c \in 1 .. 2 : there[c] = Distinct(source, c)
  BY <1>1
<1>3. low = lows
  BY <1>1 DEF Lows
<1>4. Asked(child.rows) \in Nat
  BY ChildTable, RowsAskedFor DEF IInv
<1>5. PICK r \in 1 .. Asked(child.rows) : row = CyclingRow(there, low, n, 1 + ((r - 1) % n))
  BY DEF CyclingReplay, Range
<1> HIDE DEF there, low, n
<1>6. 1 + ((r - 1) % n) \in 1 .. n
  <2>1. r - 1 \in Nat
    BY <1>4
  <2>2. (r - 1) % n \in 0 .. n - 1
    BY <1>1, <2>1, DivMod
  <2>. QED BY <1>1, <2>2
<1>7. InGrid(CyclingRow(there, lows, n, 1 + ((r - 1) % n)), lows, source)
  BY <1>1, <1>2, <1>6, CyclingRowInGrid
<1>. QED BY <1>1, <1>3, <1>5, <1>7

\* one that is allocated by the parent's shape,
LEMMA ShapedInParent ==
  ASSUME IInv, Full(source), Complete, parent # <<>>, child.rows > 0, child.inKey, Shaped,
         Asked(child.rows) \in 1 .. child.rows, NEW d \in Partners,
         NEW row \in Range(ShapedReplay(child.keys, ShapeOf(d)))
  PROVE  row \in Range(parent)
<1>1. /\ Distinct(Range(parent), 2) = Distinct(source, 2)
      /\ Distinct(source, 1) \in Nat /\ Distinct(source, 2) \in Nat
      /\ \A t : InGrid(t, LowsOf(layout, source), source) => t \in Range(parent)
  BY FullParent
<1>2. d = Distinct(source, 2)
  BY <1>1 DEF Partners
<1>3. LowsOf(layout, source) = Ones
  BY DEF LowsOf, Ones, Shaped, Reconstructible
<1> DEFINE rows == ShapedReplay(child.keys, ShapeOf(d))
<1>4. /\ DOMAIN rows = 1 .. Asked(child.rows)
      /\ \A r \in 1 .. Asked(child.rows) :
           \E x \in 1 .. Distinct(source, 1) : \E y \in 1 .. d : rows[r] = <<x, y>>
  BY ShapesUsable DEF Shaped, Reconstructible
<1>5. PICK r \in 1 .. Asked(child.rows) : row = rows[r]
  BY <1>4 DEF Range
<1>6. PICK x \in 1 .. Distinct(source, 1) : \E y \in 1 .. d : rows[r] = <<x, y>>
  BY <1>4
<1>7. PICK y \in 1 .. d : rows[r] = <<x, y>>
  BY <1>6
<1>8. InGrid(<<x, y>>, Ones, source)
  BY <1>1, <1>2, PairInGrid
<1>. QED BY <1>1, <1>3, <1>5, <1>7, <1>8

\* and one by positions: each is a row of a full parent.
LEMMA PositionedInParent ==
  ASSUME IInv, Full(source), Complete, parent # <<>>, child.rows > 0, child.inKey,
         Asked(child.rows) \in 1 .. child.rows,
         NEW row \in Range(PositionedReplay)
  PROVE  row \in Range(parent)
<1> DEFINE rows    == child.rows
           wanted  == [c \in 1 .. 2 |-> Distinct(child.keys, c)]
           there   == [c \in 1 .. 2 |-> Distinct(Range(parent), c)]
           l       == Largest(wanted, 1 .. 2)
           o       == 3 - l
           n       == Len(parent)
           span    == AtLeast(1, CeilDiv(wanted[l] * n, there[l]))
           cap     == AtMost(there[o], AtLeast(wanted[o], (wanted[o] * 100) \div 95))
           Raw(r)  == ((r - 1) * span) \div rows
           Turn(r) == Raw(r) % there[o]
           Position(r) ==
             IF 0 < cap /\ cap < there[o] /\ Turn(r) >= cap
             THEN Raw(r) - (Turn(r) - (Turn(r) % cap))
             ELSE Raw(r)
           Taken(r) ==
             [c \in 1 .. 2 |->
                Lowest(Range(parent), c)
                  + (IF c = l THEN (Position(r) * there[c]) \div n ELSE Position(r) % there[c])]
           lows == LowsOf(layout, source)
<1>1. /\ n \in Nat \ {0} /\ lows \in Lows /\ n = Distinct(source, 1) * Distinct(source, 2)
      /\ source \in PairTables
      /\ \A c \in 1 .. 2 : /\ Distinct(Range(parent), c) = Distinct(source, c)
                           /\ Distinct(source, c) \in Nat \ {0}
                           /\ Lowest(Range(parent), c) = lows[c]
      /\ \A t : InGrid(t, lows, source) => t \in Range(parent)
  BY FullParent
<1>2. /\ rows \in Nat \ {0} /\ IsFiniteSet(child.keys) /\ rows = Cardinality(child.keys)
      /\ \A t \in child.keys : <<t[1], t[2]>> \in source
  BY ChildTable
<1>3. PICK r \in 1 .. rows : row = Taken(r)
  <2>1. PICK r \in 1 .. Asked(rows) : row = Taken(r)
    BY DEF PositionedReplay, Range
  <2>2. Asked(rows) \in 1 .. rows
    OBVIOUS
  <2> DEFINE asked == Asked(rows)
  <2>3. r \in 1 .. asked /\ asked \in 1 .. rows /\ rows \in Nat
    BY <1>2, <2>2
  <2> HIDE DEF asked, rows
  <2>4. r \in 1 .. rows
    BY <2>3
  <2>. QED BY <2>1, <2>4
<1>4. /\ there \in [1 .. 2 -> Nat \ {0}]
      /\ \A c \in 1 .. 2 : there[c] = Distinct(source, c)
      /\ n = there[1] * there[2]
  BY <1>1
<1>5. ASSUME NEW c \in 1 .. 2 PROVE wanted[c] \in Nat \ {0} /\ wanted[c] <= there[c]
  <2> DEFINE K == child.keys
  <2>1. IsFiniteSet(source) /\ \A t \in K : <<t[1], t[2]>> \in source
    BY <1>1, <1>2, PairTableCounts
  <2>2. IsFiniteSet(K) /\ K # {}
    <3>1. Cardinality({}) = 0
      BY FS_EmptySet
    <3>. QED BY <1>2, <3>1
  <2> HIDE DEF K
  <2>3. Distinct(K, c) \in Nat \ {0}
    BY <2>2, ValuesFinite
  <2>4. Values(K, c) \subseteq Values(source, c) /\ IsFiniteSet(Values(source, c))
    <3>1. \A t \in K : t[c] \in Values(source, c)
      <4> TAKE t \in K
      <4>1. <<t[1], t[2]>>[c] = t[c]
        OBVIOUS
      <4>2. <<t[1], t[2]>>[c] \in Values(source, c)
        BY <2>1 DEF Values
      <4>. QED BY <4>1, <4>2
    <3>. QED BY <2>1, <3>1, ValuesFinite DEF Values
  <2>5. Distinct(K, c) <= Distinct(source, c)
    BY <2>4, SubsetCount DEF Distinct
  <2>6. wanted[c] = Distinct(K, c) /\ there[c] = Distinct(source, c)
    BY <1>4 DEF K
  <2>. QED BY <2>3, <2>5, <2>6
<1>6. l \in 1 .. 2
  <2>1. wanted \in [1 .. 2 -> Nat]
    BY <1>5
  <2> HIDE DEF wanted
  <2>. QED BY <2>1, LargestOfTwo
<1> HIDE DEF wanted, there, n, lows, l, Taken
<1>7. o \in 1 .. 2 /\ o # l /\ \A c \in 1 .. 2 : c = l \/ c = o
  BY <1>6
<1>8. n = there[l] * there[o]
  BY <1>4, <1>6
<1> HIDE DEF o
<1>9. span \in 1 .. n
  <2> DEFINE a == there[l]
             b == there[o]
             w == wanted[l]
  <2>1. a \in Nat \ {0} /\ b \in Nat \ {0} /\ w \in Nat \ {0} /\ w <= a
    BY <1>4, <1>5, <1>6, <1>7
  <2>2. n = a * b
    BY <1>8
  <2>3. span = AtLeast(1, CeilDiv(w * n, a))
    OBVIOUS
  <2> HIDE DEF a, b, w, span
  <2>. QED BY <2>1, <2>2, <2>3, SpanFits
<1> HIDE DEF span
<1>10. Raw(r) \in 0 .. n - 1
  BY <1>1, <1>2, <1>9, EvenlyApart
<1>11. cap \in Nat
  <2> DEFINE a == there[o]
             w == wanted[o]
             v == w * 100
  <2>1. a \in Nat /\ w \in Nat
    BY <1>4, <1>5, <1>7
  <2>2. v \in Nat /\ v \div 95 \in Nat
    <3> HIDE DEF w
    <3>1. v \in Nat
      BY <2>1
    <3> HIDE DEF v
    <3>. QED BY <3>1, DivMod
  <2>3. cap = AtMost(a, AtLeast(w, v \div 95))
    OBVIOUS
  <2> HIDE DEF a, w, v, cap
  <2> DEFINE q == v \div 95
  <2> HIDE DEF q
  <2>4. AtMost(a, AtLeast(w, q)) \in Nat
    BY <2>1, <2>2 DEF AtMost, AtLeast, q
  <2>. QED BY <2>3, <2>4 DEF q
<1> HIDE DEF cap
<1>12. Position(r) \in 0 .. n - 1
  <2> DEFINE raw == Raw(r)
             p == Position(r)
             a == there[o]
  <2>1. raw \in 0 .. n - 1 /\ a \in Nat \ {0} /\ n \in Nat
    BY <1>1, <1>4, <1>7, <1>10
  <2>2. p = IF 0 < cap /\ cap < a /\ raw % a >= cap
            THEN raw - ((raw % a) - ((raw % a) % cap))
            ELSE raw
    OBVIOUS
  <2> HIDE DEF raw, p, a
  <2>3. p \in 0 .. n - 1
    BY <1>11, <2>1, <2>2, PositionCapped
  <2>. QED BY <2>3 DEF p
<1> DEFINE p == Position(r)
<1>13. Taken(r) = [c \in 1 .. 2 |->
                     Lowest(Range(parent), c)
                       + (IF c = l THEN (p * there[c]) \div n ELSE p % there[c])]
  BY DEF Taken
<1>14. p \in 0 .. n - 1
  BY <1>12
<1> HIDE DEF p, Raw, Turn, Position
<1>15. (p * there[l]) \div n \in 0 .. there[l] - 1
  <2> DEFINE a == there[l]
             pa == p * a
  <2>1. a \in Nat \ {0}
    BY <1>4, <1>6
  <2>2. p \in Nat /\ p + 1 <= n
    BY <1>1, <1>14
  <2>3. pa \in Nat /\ (p + 1) * a = pa + a /\ n * a = a * n /\ a * n \in Nat
    <3> HIDE DEF a
    <3>. QED BY <1>1, <2>1, <2>2
  <2>4. (p + 1) * a <= n * a
    BY <1>1, <2>1, <2>2, ProductMonotone
  <2> HIDE DEF a, pa
  <2>5. pa < a * n
    BY <2>1, <2>3, <2>4
  <2>6. pa \div n \in Nat /\ pa \div n < a
    BY <1>1, <2>1, <2>3, <2>5, QuotientBelow
  <2> DEFINE x == pa \div n
  <2> HIDE DEF x
  <2>7. x \in 0 .. a - 1
    BY <2>1, <2>6 DEF x
  <2>. QED BY <2>7 DEF x, a, pa
<1>16. p % there[o] \in 0 .. there[o] - 1
  <2> DEFINE a == there[o]
  <2>1. a \in Nat \ {0}
    BY <1>4, <1>7
  <2>2. p \in Nat
    BY <1>1, <1>14
  <2> HIDE DEF a
  <2>3. p % a \in 0 .. a - 1
    BY <2>1, <2>2, DivMod
  <2>. QED BY <2>3 DEF a
<1>17. ASSUME NEW c \in 1 .. 2
       PROVE  /\ row[c] \in lows[c] .. lows[c] + Distinct(source, c) - 1
              /\ row[c] \in Int
  <2> DEFINE x == IF c = l THEN (p * there[c]) \div n ELSE p % there[c]
             d == Distinct(source, c)
  <2>1. x \in 0 .. d - 1
    <3>1. there[c] = d
      BY <1>4
    <3>. QED BY <1>7, <1>15, <1>16, <3>1
  <2>2. lows[c] \in Int /\ d \in Nat /\ Lowest(Range(parent), c) = lows[c]
    BY <1>1 DEF Lows
  <2>3. row[c] = lows[c] + x
    BY <1>3, <1>13, <2>2
  <2> HIDE DEF x, d
  <2>4. row[c] \in lows[c] .. lows[c] + d - 1 /\ row[c] \in Int
    BY <2>1, <2>2, <2>3
  <2>. QED BY <2>4 DEF d
<1>18. row = [c \in 1 .. 2 |-> row[c]]
  BY <1>3, <1>13
<1>19. InGrid(row, lows, source)
  BY <1>17, <1>18 DEF InGrid
<1>. QED BY <1>1, <1>19

(* A child never references a pair of columns that its parent does not have, *)
(* when the source of the parent has every combination of their values, by   *)
(* any of the three ways the code has to generate such a reference.          *)
THEOREM FullGridTuplesExist == Spec => []GridTuplesExist
<1>1. ASSUME IInv, Full(source), Complete, child.inKey => Len(replay) <= child.rows,
             NEW row \in Range(replay)
      PROVE  row \in Range(parent)
  <2>1. replay # <<>>
    BY DEF Range
  <2>2. Generated(replay)
    BY <1>1, <2>1 DEF IInv
  <2>3. parent # <<>> /\ child.rows > 0
    BY <2>2 DEF Generated
  <2>4. CASE ~child.inKey
    <3>1. row \in Range(CyclingReplay)
      BY <2>2, <2>4 DEF Generated
    <3>. QED BY <1>1, <2>3, <3>1, CyclingInParent
  <2>7. child.rows \in Nat \ {0} /\ override \in Overrides
        /\ (child.inKey => child.rows = Cardinality(child.keys))
    BY <1>1, <2>3, ChildTable DEF IInv
  <2>5. CASE child.inKey /\ Shaped
    <3>1. PICK d \in Partners : replay = ShapedReplay(child.keys, ShapeOf(d))
      BY <2>2, <2>5 DEF Generated
    <3>2. row \in Range(ShapedReplay(child.keys, ShapeOf(d)))
      BY <3>1
    <3>3. Asked(child.rows) \in 1 .. child.rows
      BY <1>1, <2>5, <2>7, <3>1, ReplayAsked
    <3>. QED BY <1>1, <2>3, <2>5, <3>2, <3>3, ShapedInParent
  <2>6. CASE child.inKey /\ ~Shaped
    <3>1. replay = PositionedReplay
      BY <1>1, <2>2, <2>6 DEF Generated
    <3>2. row \in Range(PositionedReplay)
      BY <3>1
    <3>3. Asked(child.rows) \in 1 .. child.rows
      BY <1>1, <2>6, <2>7, <3>1, ReplayAsked
    <3>. QED BY <1>1, <2>3, <2>6, <3>2, <3>3, PositionedInParent
  <2>. QED BY <2>4, <2>5, <2>6
<1>2. IInv => GridTuplesExist
  BY <1>1 DEF GridTuplesExist, ChildTuplesExist, Full, Complete
<1>. QED BY <1>2, KeysInvariance, PTL
=============================================================================
