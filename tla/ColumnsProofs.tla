------------------------------ MODULE ColumnsProofs ------------------------------
(***************************************************************************)
(* Proofs about Columns, for source columns of any size and any histogram: *)
(* a foreign key column takes keys of the referenced table on every path   *)
(* of build_single_fk_expression, the buckets of an equi-height histogram  *)
(* share out exactly the distinct values of the source, a formula over     *)
(* rownum gives a column no more values than the source has, and none but  *)
(* the frequencies of the source on the paths that are to keep them; the   *)
(* merge of frequency groups finds the difference of the histograms, and a *)
(* rewritten literal selects as many rows as it did.                       *)
(*                                                                         *)
(* Each path is a sequence of bands; the lemmas say where the values of a  *)
(* band come from, and what rows they have.  The corrections of the bucket *)
(* counts and the merge are sequences of steps: each step is shown to      *)
(* lessen what is left, and the bound on the steps to be large enough.     *)
(***************************************************************************)
EXTENDS Columns, FiniteSetTheorems, SequenceTheorems, WellFoundedInduction, TLAPS

-----------------------------------------------------------------------------
(* Numbers, sets and recursive functions.                                    *)
LEMMA DivMod ==
  ASSUME NEW n \in Nat, NEW d \in Nat \ {0}
  PROVE  /\ n \div d \in Nat
         /\ n % d \in 0 .. d - 1
         /\ n = (n \div d) * d + (n % d)
OBVIOUS

\* A product grows with its factor.
LEMMA ProductMonotone ==
  ASSUME NEW a \in Nat, NEW b \in Nat, NEW d \in Nat, a <= b
  PROVE  a * d <= b * d
<1> DEFINE e == b - a
<1>1. e \in Nat /\ b = a + e
  OBVIOUS
<1>2. e * d \in Nat
  BY <1>1
<1>3. b * d = a * d + e * d
  BY <1>1
<1>. QED BY <1>2, <1>3

\* A number below n times the divisor has a quotient below n.
LEMMA QuotientBelow ==
  ASSUME NEW k \in Nat, NEW d \in Nat \ {0}, NEW n \in Nat, k < n * d
  PROVE  k \div d \in Nat /\ k \div d < n
<1> DEFINE q == k \div d
<1>1. q \in Nat /\ k = q * d + (k % d) /\ k % d \in 0 .. d - 1
  BY DivMod
<1> HIDE DEF q
<1>2. q * d \in Nat
  BY <1>1
<1>3. SUFFICES ASSUME n <= q PROVE FALSE
  BY <1>1 DEF q
<1>4. n * d <= q * d /\ n * d \in Nat
  BY <1>2, <1>1, <1>3, ProductMonotone
<1>. QED BY <1>2, <1>1, <1>4

\* Every non-empty set of naturals has a least element.
LEMMA LeastElement ==
  ASSUME NEW S \in SUBSET Nat, S # {}
  PROVE  Min(S) \in S /\ \A y \in S : Min(S) <= y
<1> DEFINE R == OpToRel(<, Nat)
<1>1. IsWellFoundedOn(R, Nat)
  BY NatLessThanWellFounded
<1>2. \E x \in S : \A y \in S : ~ (<<y, x>> \in R)
  <2> HIDE DEF R
  <2>. QED BY <1>1, WFMin
<1>3. \A x, y \in Nat : y < x => <<y, x>> \in R
  BY DEF OpToRel
<1> HIDE DEF R
<1>4. PICK x \in S : \A y \in S : ~ (<<y, x>> \in R)
  BY <1>2
<1>5. \A y \in S : x <= y
  <2> TAKE y \in S
  <2>1. x \in Nat /\ y \in Nat
    OBVIOUS
  <2>2. ~ (y < x)
    BY <1>3, <1>4, <2>1
  <2>. QED BY <2>1, <2>2
<1>. QED BY <1>5 DEF Min

\* Induction over an interval of naturals.
LEMMA UpTheInterval ==
  ASSUME NEW n \in Nat, NEW S, 1 \in S, \A k \in 1 .. n - 1 : k \in S => k + 1 \in S
  PROVE  1 .. n \subseteq S
<1> DEFINE W == {k \in 1 .. n : k \notin S}
<1>1. SUFFICES ASSUME W # {} PROVE FALSE
  OBVIOUS
<1>2. W \in SUBSET Nat
  OBVIOUS
<1>3. Min(W) \in W /\ \A y \in W : Min(W) <= y
  <2> HIDE DEF W
  <2>. QED BY <1>1, <1>2, LeastElement
<1>4. PICK k \in W : \A y \in W : k <= y
  BY <1>3
<1>5. k - 1 \in 1 .. n - 1 /\ k - 1 \notin W
  BY <1>4
<1>6. k - 1 \in S
  BY <1>5
<1>. QED BY <1>4, <1>5, <1>6

\* A finite set of integers has a least one.
LEMMA LeastInteger ==
  ASSUME NEW S \in SUBSET Int, S # {}, IsFiniteSet(S)
  PROVE  Min(S) \in S /\ \A y \in S : Min(S) <= y
<1> DEFINE n == Cardinality(S)
<1>1. n \in Nat \ {0}
  BY FS_CardinalityType, FS_EmptySet
<1>2. PICK f : f \in Bijection(1 .. n, S)
  BY FS_CardinalityType DEF ExistsBijection
<1> DEFINE W == {k \in 1 .. n : \E m \in 1 .. k : \A i \in 1 .. k : f[m] <= f[i]}
<1>3. \A i \in 1 .. n : f[i] \in Int
  BY <1>2 DEF Bijection, Injection
<1> HIDE DEF n
<1>4. 1 \in W
  BY <1>1, <1>3
<1>5. ASSUME NEW k \in 1 .. n - 1, k \in W PROVE k + 1 \in W
  <2>1. PICK m \in 1 .. k : \A i \in 1 .. k : f[m] <= f[i]
    BY <1>5
  <2>2. /\ k + 1 \in 1 .. n /\ k \in 1 .. n /\ m \in 1 .. k + 1 /\ k + 1 \in 1 .. k + 1
        /\ \A i \in 1 .. k + 1 : i \in 1 .. k \/ i = k + 1
        /\ \A i \in 1 .. k : i \in 1 .. n
    BY <1>1
  <2>3. CASE f[m] <= f[k + 1]
    <3>1. \A i \in 1 .. k + 1 : f[m] <= f[i]
      BY <2>1, <2>2, <2>3
    <3>. QED BY <2>2, <3>1
  <2>4. CASE ~ (f[m] <= f[k + 1])
    <3>1. f[m] \in Int /\ f[k + 1] \in Int
      BY <1>3, <2>2
    <3>2. \A i \in 1 .. k + 1 : f[k + 1] <= f[i]
      BY <1>3, <2>1, <2>2, <2>4, <3>1
    <3>. QED BY <2>2, <3>2
  <2>. QED BY <2>3, <2>4
<1>6. n \in W
  <2>1. 1 .. n \subseteq W
    <3> HIDE DEF W
    <3>. QED BY <1>1, <1>4, <1>5, UpTheInterval
  <2>. QED BY <1>1, <2>1
<1>7. PICK m \in 1 .. n : \A i \in 1 .. n : f[m] <= f[i]
  BY <1>6
<1>8. \A y \in S : \E i \in 1 .. n : f[i] = y
  BY <1>2 DEF Bijection, Surjection, n
<1>9. f[m] \in S /\ \A y \in S : f[m] <= y
  BY <1>2, <1>7, <1>8 DEF Bijection, Injection, n
<1>. QED BY <1>9 DEF Min

\* The values that n steps reach from a first one on.
StepsOf(n, V, base, g) ==
  CHOOSE f : f \in [0 .. n -> V] /\ f[0] = base /\ \A j \in 1 .. n : f[j] = g[j][f[j - 1]]

\* Steps can be taken from any first value on.
LEMMA StepsTaken ==
  ASSUME NEW n \in Nat, NEW V, NEW base \in V, NEW g \in [1 .. n -> [V -> V]]
  PROVE  /\ StepsOf(n, V, base, g) \in [0 .. n -> V]
         /\ StepsOf(n, V, base, g)[0] = base
         /\ \A j \in 1 .. n : StepsOf(n, V, base, g)[j] = g[j][StepsOf(n, V, base, g)[j - 1]]
<1> DEFINE Taken(f, k) == f[0] = base /\ \A j \in 1 .. k : f[j] = g[j][f[j - 1]]
           S == {k \in 1 .. n + 1 : \E f \in [0 .. k - 1 -> V] : Taken(f, k - 1)}
<1>1. 1 \in S
  <2> DEFINE f == [j \in 0 .. 0 |-> base]
  <2>1. f \in [0 .. 1 - 1 -> V] /\ Taken(f, 1 - 1)
    OBVIOUS
  <2> HIDE DEF f
  <2>. QED BY <2>1
<1>2. ASSUME NEW k \in 1 .. (n + 1) - 1, k \in S PROVE k + 1 \in S
  <2>1. PICK f \in [0 .. k - 1 -> V] : Taken(f, k - 1)
    BY <1>2
  <2> DEFINE h == [j \in 0 .. k |-> IF j = k THEN g[k][f[k - 1]] ELSE f[j]]
  <2>2. k \in 1 .. n /\ k - 1 \in 0 .. k - 1 /\ k \in Nat
    OBVIOUS
  <2>3. g[k][f[k - 1]] \in V
    <3>1. g[k] \in [V -> V] /\ f[k - 1] \in V
      BY <2>2
    <3>. QED BY <3>1
  <2>4. h \in [0 .. k -> V]
    BY <2>2, <2>3
  <2>5. h[0] = base
    BY <2>1, <2>2
  <2>6. ASSUME NEW j \in 1 .. k PROVE h[j] = g[j][h[j - 1]]
    <3>1. CASE j = k
      <4>1. h[k - 1] = f[k - 1] /\ h[k] = g[k][f[k - 1]]
        BY <2>2
      <4>. QED BY <3>1, <4>1
    <3>2. CASE j # k
      <4>1. j \in 1 .. k - 1 /\ j - 1 \in 0 .. k /\ j - 1 # k
        BY <2>2, <3>2
      <4>2. h[j] = f[j] /\ h[j - 1] = f[j - 1]
        BY <2>2, <3>2, <4>1
      <4>. QED BY <2>1, <4>1, <4>2
    <3>. QED BY <3>1, <3>2
  <2> HIDE DEF h
  <2>7. (k + 1) - 1 = k /\ k + 1 \in 1 .. n + 1
    BY <2>2
  <2>8. Taken(h, k)
    BY <2>5, <2>6
  <2> HIDE DEF Taken
  <2>. QED BY <2>4, <2>7, <2>8
<1>3. n + 1 \in S
  <2>1. 1 .. n + 1 \subseteq S
    <3> HIDE DEF S
    <3>1. n + 1 \in Nat
      OBVIOUS
    <3>. QED BY <1>1, <1>2, <3>1, UpTheInterval
  <2>2. n + 1 \in 1 .. n + 1
    OBVIOUS
  <2> HIDE DEF S
  <2>. QED BY <2>1, <2>2
<1>4. (n + 1) - 1 = n
  OBVIOUS
<1>5. \E f : f \in [0 .. n -> V] /\ Taken(f, n)
  <2> HIDE DEF Taken
  <2>. QED BY <1>3, <1>4
<1>6. \E f : f \in [0 .. n -> V] /\ f[0] = base /\ \A j \in 1 .. n : f[j] = g[j][f[j - 1]]
  <2>1. PICK f : f \in [0 .. n -> V] /\ Taken(f, n)
    <3> HIDE DEF Taken
    <3>. QED BY <1>5
  <2>2. f \in [0 .. n -> V] /\ f[0] = base /\ \A j \in 1 .. n : f[j] = g[j][f[j - 1]]
    BY <2>1
  <2>. QED BY <2>2
<1>. QED BY <1>6 DEF StepsOf

\* The same, in one word.
AreSteps(f, n, V, base, g) ==
  f \in [0 .. n -> V] /\ f[0] = base /\ \A j \in 1 .. n : f[j] = g[j][f[j - 1]]

\* So there are the steps of any recursion over numbers.
LEMMA StepsAre ==
  ASSUME NEW n \in Nat, NEW V, NEW base \in V, NEW g \in [1 .. n -> [V -> V]]
  PROVE  AreSteps(StepsOf(n, V, base, g), n, V, base, g)
BY StepsTaken DEF AreSteps

\* Induction over the naturals up to n, with zero.
LEMMA UpFromZero ==
  ASSUME NEW n \in Nat, NEW S, 0 \in S, \A k \in 1 .. n : k - 1 \in S => k \in S
  PROVE  0 .. n \subseteq S
<1> DEFINE W == {k \in 0 .. n : k \notin S}
<1>1. SUFFICES ASSUME W # {} PROVE FALSE
  OBVIOUS
<1>2. W \in SUBSET Nat
  OBVIOUS
<1>3. PICK k \in W : \A y \in W : k <= y
  <2> HIDE DEF W
  <2>. QED BY <1>1, <1>2, LeastElement
<1>4. k # 0
  BY <1>3
<1>5. k \in 1 .. n /\ k - 1 \in 0 .. n /\ k - 1 \notin W
  BY <1>3, <1>4
<1>. QED BY <1>3, <1>5

-----------------------------------------------------------------------------
(* The sums of a sequence.                                                   *)
LEMMA SumsOfInt ==
  ASSUME NEW s \in Seq(Int)
  PROVE  /\ SumsOf(s) \in [0 .. Len(s) -> Int]
         /\ SumsOf(s)[0] = 0
         /\ \A i \in 1 .. Len(s) : SumsOf(s)[i] = SumsOf(s)[i - 1] + s[i]
         /\ SumOf(s) \in Int
<1> DEFINE n == Len(s)
           Body(f, i) == IF i = 0 THEN 0 ELSE f[i - 1] + s[i]
           zero == 0
           g == [j \in 1 .. n |-> [v \in Int |-> v + s[j]]]
<1>1. n \in Nat /\ \A i \in 1 .. n : s[i] \in Int
  OBVIOUS
<1>2. g \in [1 .. n -> [Int -> Int]]
  BY <1>1
<1>3. PICK f \in [0 .. n -> Int] : f[0] = zero /\ \A j \in 1 .. n : f[j] = g[j][f[j - 1]]
  <2> DEFINE V == Int
  <2>1. zero \in V /\ g \in [1 .. n -> [V -> V]]
    BY <1>2
  <2> HIDE DEF n, g, zero, V
  <2> DEFINE f == StepsOf(n, V, zero, g)
  <2>2. n \in Nat
    BY <1>1
  <2>3. AreSteps(f, n, V, zero, g)
    BY <2>1, <2>2, StepsAre
  <2> HIDE DEF f
  <2>. QED BY <2>3 DEF V, AreSteps
<1>4. f = [i \in 0 .. n |-> Body(f, i)]
  <2>1. ASSUME NEW i \in 0 .. n PROVE f[i] = Body(f, i)
    <3>1. CASE i = 0
      BY <1>3, <3>1
    <3>2. CASE i # 0
      <4>1. i \in 1 .. n /\ i - 1 \in 0 .. n
        BY <1>1, <3>2
      <4>2. f[i - 1] \in Int
        BY <1>3, <4>1
      <4>. QED BY <1>3, <3>2, <4>1, <4>2
    <3>. QED BY <3>1, <3>2
  <2> HIDE DEF Body
  <2>. QED BY <2>1, <1>3
<1>5. SumsOf(s) = CHOOSE h : h = [i \in 0 .. n |-> Body(h, i)]
  BY DEF SumsOf
<1>6. SumsOf(s) = [i \in 0 .. n |-> Body(SumsOf(s), i)]
  <2> HIDE DEF Body, n
  <2>. QED BY <1>4, <1>5
<1> DEFINE h == SumsOf(s)
<1> HIDE DEF h
<1>7. /\ h[0] = 0
      /\ \A i \in 1 .. n : h[i] = h[i - 1] + s[i]
      /\ h = [i \in 0 .. n |-> h[i]]
  <2>1. \A i \in 0 .. n : h[i] = Body(h, i)
    BY <1>6 DEF h
  <2>2. 0 \in 0 .. n /\ \A i \in 1 .. n : i \in 0 .. n /\ i # 0
    BY <1>1
  <2>3. h[0] = 0 /\ \A i \in 1 .. n : h[i] = h[i - 1] + s[i]
    BY <2>1, <2>2
  <2>4. h = [i \in 0 .. n |-> h[i]]
    <3> HIDE DEF Body
    <3>. QED BY <1>6 DEF h
  <2>. QED BY <2>3, <2>4
<1>8. 0 .. n \subseteq {i \in 0 .. n : h[i] \in Int}
  <2> DEFINE S == {i \in 0 .. n : h[i] \in Int}
  <2>1. 0 \in S
    BY <1>1, <1>7
  <2>2. ASSUME NEW k \in 1 .. n, k - 1 \in S PROVE k \in S
    <3>1. h[k - 1] \in Int /\ s[k] \in Int /\ h[k] = h[k - 1] + s[k]
      BY <1>1, <1>7, <2>2
    <3>. QED BY <1>1, <3>1
  <2> HIDE DEF S
  <2>3. 0 .. n \subseteq S
    BY <1>1, <2>1, <2>2, UpFromZero
  <2>. QED BY <2>3 DEF S
<1>9. h \in [0 .. n -> Int]
  BY <1>7, <1>8
<1>10. SumOf(s) \in Int
  <2>1. n \in 0 .. n
    BY <1>1
  <2>. QED BY <1>9, <2>1 DEF SumOf, h
<1>. QED BY <1>7, <1>9, <1>10 DEF h

\* The sums of naturals are naturals that grow.
LEMMA SumsOfNat ==
  ASSUME NEW s \in Seq(Nat)
  PROVE  /\ SumsOf(s) \in [0 .. Len(s) -> Nat]
         /\ SumOf(s) \in Nat
         /\ \A i, j \in 0 .. Len(s) : i <= j => SumsOf(s)[i] <= SumsOf(s)[j]
<1> DEFINE n == Len(s)
           h == SumsOf(s)
<1>1. n \in Nat /\ \A i \in 1 .. n : s[i] \in Nat
  OBVIOUS
<1>2. /\ h \in [0 .. n -> Int] /\ h[0] = 0
      /\ \A i \in 1 .. n : h[i] = h[i - 1] + s[i]
  <2>1. s \in Seq(Int)
    OBVIOUS
  <2>. QED BY <2>1, SumsOfInt
<1> HIDE DEF n, h
<1>3. \A j \in 0 .. n : h[j] \in Nat /\ \A i \in 0 .. j : h[i] <= h[j]
  <2> DEFINE S == {j \in 0 .. n : h[j] \in Nat /\ \A i \in 0 .. j : h[i] <= h[j]}
  <2>1. 0 \in S
    <3>1. \A i \in 0 .. 0 : i = 0
      OBVIOUS
    <3>. QED BY <1>1, <1>2, <3>1
  <2>2. ASSUME NEW k \in 1 .. n, k - 1 \in S PROVE k \in S
    <3>1. h[k - 1] \in Nat /\ \A i \in 0 .. k - 1 : h[i] <= h[k - 1]
      BY <2>2
    <3>2. h[k] = h[k - 1] + s[k] /\ s[k] \in Nat
      BY <1>1, <1>2
    <3>3. h[k] \in Nat /\ h[k - 1] <= h[k]
      BY <3>1, <3>2
    <3>4. ASSUME NEW i \in 0 .. k PROVE h[i] <= h[k]
      <4>1. CASE i = k
        BY <3>3, <4>1
      <4>2. CASE i # k
        <5>1. i \in 0 .. k - 1 /\ i \in 0 .. n
          BY <1>1, <4>2
        <5>2. h[i] \in Int /\ h[i] <= h[k - 1]
          BY <1>2, <3>1, <5>1
        <5>. QED BY <3>1, <3>3, <5>2
      <4>. QED BY <4>1, <4>2
    <3>5. k \in 0 .. n
      BY <1>1
    <3>. QED BY <3>3, <3>4, <3>5
  <2>3. 0 .. n \subseteq S
    <3> HIDE DEF S
    <3>. QED BY <1>1, <2>1, <2>2, UpFromZero
  <2>. QED BY <2>3
<1>4. SumOf(s) \in Nat
  <2>1. n \in 0 .. n
    BY <1>1
  <2>. QED BY <1>3, <2>1 DEF SumOf, h, n
<1>5. h \in [0 .. n -> Nat]
  BY <1>2, <1>3
<1>6. \A i, j \in 0 .. n : i <= j => h[i] <= h[j]
  <2> TAKE i, j \in 0 .. n
  <2>1. i <= j => i \in 0 .. j
    BY <1>1
  <2>. QED BY <1>3, <2>1
<1>. QED BY <1>4, <1>5, <1>6 DEF h, n

\* A sequence that is nowhere larger has no larger sum.
LEMMA SumsCompare ==
  ASSUME NEW s \in Seq(Int), NEW t \in Seq(Int), Len(s) = Len(t),
         \A i \in 1 .. Len(s) : s[i] <= t[i]
  PROVE  SumOf(s) <= SumOf(t)
<1> DEFINE n == Len(s)
           f == SumsOf(s)
           g == SumsOf(t)
           S == {i \in 0 .. n : f[i] <= g[i]}
<1>1. n \in Nat /\ \A i \in 1 .. n : s[i] \in Int /\ t[i] \in Int /\ s[i] <= t[i]
  OBVIOUS
<1>2. /\ f \in [0 .. n -> Int] /\ f[0] = 0 /\ \A i \in 1 .. n : f[i] = f[i - 1] + s[i]
      /\ g \in [0 .. n -> Int] /\ g[0] = 0 /\ \A i \in 1 .. n : g[i] = g[i - 1] + t[i]
  BY SumsOfInt
<1> HIDE DEF n, f, g
<1>3. 0 \in S
  BY <1>1, <1>2
<1>4. ASSUME NEW k \in 1 .. n, k - 1 \in S PROVE k \in S
  <2>1. k \in 0 .. n /\ k - 1 \in 0 .. n
    BY <1>1
  <2>2. f[k - 1] \in Int /\ g[k - 1] \in Int /\ f[k - 1] <= g[k - 1]
    BY <1>2, <1>4, <2>1
  <2>3. f[k] = f[k - 1] + s[k] /\ g[k] = g[k - 1] + t[k]
    BY <1>2
  <2>4. f[k] <= g[k]
    BY <1>1, <2>2, <2>3
  <2>. QED BY <2>1, <2>4
<1>5. 0 .. n \subseteq S
  <2> HIDE DEF S
  <2>. QED BY <1>1, <1>3, <1>4, UpFromZero
<1>6. n \in 0 .. n
  BY <1>1
<1>. QED BY <1>5, <1>6 DEF SumOf, n, f, g

\* Where two sequences differ in one element, so do their sums.
LEMMA SumsChanged ==
  ASSUME NEW s \in Seq(Int), NEW t \in Seq(Int), Len(s) = Len(t), NEW b \in 1 .. Len(s),
         \A i \in 1 .. Len(s) : i # b => t[i] = s[i]
  PROVE  SumOf(t) = SumOf(s) + t[b] - s[b]
<1> DEFINE n == Len(s)
           f == SumsOf(s)
           g == SumsOf(t)
           S == {i \in 0 .. n : g[i] = f[i] + (IF i < b THEN 0 ELSE t[b] - s[b])}
<1>1. /\ n \in Nat /\ b \in 1 .. n /\ \A i \in 1 .. n : s[i] \in Int /\ t[i] \in Int
      /\ \A i \in 1 .. n : i # b => t[i] = s[i]
  OBVIOUS
<1>2. /\ f \in [0 .. n -> Int] /\ f[0] = 0 /\ \A i \in 1 .. n : f[i] = f[i - 1] + s[i]
      /\ g \in [0 .. n -> Int] /\ g[0] = 0 /\ \A i \in 1 .. n : g[i] = g[i - 1] + t[i]
  BY SumsOfInt
<1> HIDE DEF n, f, g
<1>3. 0 \in S
  BY <1>1, <1>2
<1>4. ASSUME NEW k \in 1 .. n, k - 1 \in S PROVE k \in S
  <2>1. k \in 0 .. n /\ k - 1 \in 0 .. n
    BY <1>1
  <2>2. /\ f[k - 1] \in Int /\ g[k - 1] \in Int
        /\ g[k - 1] = f[k - 1] + (IF k - 1 < b THEN 0 ELSE t[b] - s[b])
    BY <1>2, <1>4, <2>1
  <2>3. /\ f[k] = f[k - 1] + s[k] /\ g[k] = g[k - 1] + t[k]
        /\ s[k] \in Int /\ t[k] \in Int /\ s[b] \in Int /\ t[b] \in Int
    BY <1>1, <1>2
  <2>4. CASE k = b
    <3>1. k - 1 < b /\ ~ (k < b)
      BY <1>1, <2>4
    <3>2. g[k] = f[k] + (t[b] - s[b])
      BY <2>2, <2>3, <2>4, <3>1
    <3>. QED BY <2>1, <3>1, <3>2
  <2>5. CASE k # b
    <3>1. k - 1 < b <=> k < b
      BY <1>1, <2>5
    <3>2. t[k] = s[k]
      BY <1>1, <2>5
    <3>3. g[k] = f[k] + (IF k < b THEN 0 ELSE t[b] - s[b])
      <4> DEFINE d == IF k - 1 < b THEN 0 ELSE t[b] - s[b]
      <4>1. d = IF k < b THEN 0 ELSE t[b] - s[b]
        BY <3>1
      <4>2. d \in Int
        BY <2>3
      <4>3. g[k - 1] = f[k - 1] + d /\ f[k - 1] \in Int
        BY <2>2
      <4>4. f[k] = f[k - 1] + s[k] /\ g[k] = g[k - 1] + s[k] /\ s[k] \in Int
        BY <2>3, <3>2
      <4> HIDE DEF d
      <4>5. g[k] = f[k] + d
        BY <4>2, <4>3, <4>4
      <4>. QED BY <4>1, <4>5
    <3>. QED BY <2>1, <3>3
  <2>. QED BY <2>4, <2>5
<1>5. 0 .. n \subseteq S
  <2> HIDE DEF S
  <2>. QED BY <1>1, <1>3, <1>4, UpFromZero
<1>6. n \in 0 .. n /\ ~ (n < b)
  BY <1>1
<1>7. /\ g[n] = f[n] + (t[b] - s[b])
      /\ f[n] \in Int /\ t[b] \in Int /\ s[b] \in Int
  BY <1>1, <1>2, <1>5, <1>6
<1>8. g[n] = f[n] + t[b] - s[b]
  BY <1>7
<1>. QED BY <1>8 DEF SumOf, n, f, g

\* Ones add up to their number.
LEMMA SumOfOnes ==
  ASSUME NEW s \in Seq(Int), \A i \in 1 .. Len(s) : s[i] = 1
  PROVE  SumOf(s) = Len(s)
<1> DEFINE n == Len(s)
           f == SumsOf(s)
           S == {i \in 0 .. n : f[i] = i}
<1>1. n \in Nat /\ \A i \in 1 .. n : s[i] = 1
  OBVIOUS
<1>2. f \in [0 .. n -> Int] /\ f[0] = 0 /\ \A i \in 1 .. n : f[i] = f[i - 1] + s[i]
  BY SumsOfInt
<1> HIDE DEF n, f
<1>3. 0 \in S
  BY <1>1, <1>2
<1>4. ASSUME NEW k \in 1 .. n, k - 1 \in S PROVE k \in S
  <2>1. k \in 0 .. n /\ k - 1 \in 0 .. n /\ k \in Int
    BY <1>1
  <2>2. f[k - 1] = k - 1
    BY <1>4
  <2>3. f[k] = f[k - 1] + s[k] /\ s[k] = 1
    BY <1>1, <1>2
  <2>4. f[k] = k
    BY <2>1, <2>2, <2>3
  <2>. QED BY <2>1, <2>4
<1>5. 0 .. n \subseteq S
  <2> HIDE DEF S
  <2>. QED BY <1>1, <1>3, <1>4, UpFromZero
<1>6. n \in 0 .. n
  BY <1>1
<1>. QED BY <1>5, <1>6 DEF SumOf, n, f

\* Positive numbers add up to at least their number.
LEMMA SumOfPositive ==
  ASSUME NEW s \in Seq(Nat \ {0})
  PROVE  SumOf(s) \in Nat /\ Len(s) <= SumOf(s)
<1> DEFINE ones == [i \in 1 .. Len(s) |-> 1]
<1>1. /\ s \in Seq(Nat) /\ s \in Seq(Int) /\ Len(s) \in Nat
      /\ \A i \in 1 .. Len(s) : s[i] \in Nat \ {0}
  OBVIOUS
<1>2. ones \in Seq(Int) /\ Len(ones) = Len(s) /\ \A i \in 1 .. Len(ones) : ones[i] = 1
  BY <1>1
<1>3. \A i \in 1 .. Len(ones) : ones[i] <= s[i]
  BY <1>1, <1>2
<1> HIDE DEF ones
<1>4. SumOf(ones) = Len(s) /\ SumOf(ones) <= SumOf(s)
  BY <1>1, <1>2, <1>3, SumOfOnes, SumsCompare
<1>. QED BY <1>1, <1>4, SumsOfNat

-----------------------------------------------------------------------------
(* The bands of a CASE.                                                      *)
LEMMA ConcatIn ==
  ASSUME NEW K, NEW a \in Seq(K), NEW b \in Seq(K)
  PROVE  a \o b \in Seq(K) /\ Len(a \o b) = Len(a) + Len(b)
OBVIOUS

\* The steps by which bands are put one after the other.
FlattenedBy(f, bands) ==
  /\ FlattenSeq(bands) = f[Len(bands)] /\ f[1] = bands[1]
  /\ \A i \in 2 .. Len(bands) : f[i] = f[i - 1] \o bands[i]

\* There are such steps.
LEMMA FlattenSteps ==
  ASSUME NEW K, NEW bands \in Seq(Seq(K)), Len(bands) # 0
  PROVE  \E f : FlattenedBy(f, bands)
<1> DEFINE n == Len(bands)
           V == Seq(K)
           Body(f, i) == IF i = 1 THEN bands[i] ELSE f[i - 1] \o bands[i]
           empty == <<>>
           g == [j \in 1 .. n |-> [v \in V |-> IF j = 1 THEN bands[j] ELSE v \o bands[j]]]
<1>1. n \in Nat /\ \A i \in 1 .. n : bands[i] \in V
  OBVIOUS
<1>2. g \in [1 .. n -> [V -> V]]
  <2>1. ASSUME NEW j \in 1 .. n, NEW v \in V
        PROVE  (IF j = 1 THEN bands[j] ELSE v \o bands[j]) \in V
    <3>1. bands[j] \in V
      BY <1>1
    <3>2. v \o bands[j] \in V
      BY <3>1, ConcatIn
    <3>. QED BY <3>1, <3>2
  <2> HIDE DEF V
  <2>. QED BY <2>1
<1>3. empty \in V
  OBVIOUS
<1>4. PICK e : e \in [0 .. n -> V] /\ e[0] = empty /\ \A j \in 1 .. n : e[j] = g[j][e[j - 1]]
  <2> HIDE DEF n, V, g, empty
  <2>1. /\ StepsOf(n, V, empty, g) \in [0 .. n -> V]
        /\ StepsOf(n, V, empty, g)[0] = empty
        /\ \A j \in 1 .. n :
             StepsOf(n, V, empty, g)[j] = g[j][StepsOf(n, V, empty, g)[j - 1]]
    BY <1>1, <1>2, <1>3, StepsTaken
  <2>. QED BY <2>1
<1> DEFINE f == [i \in 1 .. n |-> e[i]]
<1>5. f = [i \in 1 .. n |-> Body(f, i)]
  <2>1. ASSUME NEW i \in 1 .. n PROVE f[i] = Body(f, i)
    <3>1. i - 1 \in 0 .. n /\ (i # 1 => i - 1 \in 1 .. n)
      BY <1>1
    <3>2. e[i - 1] \in V
      <4> HIDE DEF V, g
      <4>. QED BY <1>4, <3>1
    <3>3. e[i] = IF i = 1 THEN bands[i] ELSE e[i - 1] \o bands[i]
      <4>1. e[i] = g[i][e[i - 1]]
        <5> HIDE DEF g, V, n
        <5>. QED BY <1>4
      <4> HIDE DEF V, n
      <4>. QED BY <3>2, <4>1
    <3>. QED BY <3>1, <3>3
  <2> DEFINE h == [i \in 1 .. n |-> Body(f, i)]
  <2>2. \A i \in 1 .. n : f[i] = h[i]
    BY <2>1
  <2>3. DOMAIN f = 1 .. n /\ DOMAIN h = 1 .. n
    OBVIOUS
  <2>4. f = h
    <3>1. f = [i \in 1 .. n |-> f[i]] /\ h = [i \in 1 .. n |-> h[i]]
      OBVIOUS
    <3> HIDE DEF f, h
    <3>. QED BY <2>2, <3>1
  <2>. QED BY <2>4
<1> DEFINE flatten == CHOOSE h : h = [i \in 1 .. n |-> Body(h, i)]
<1>6. FlattenSeq(bands) = flatten[n]
  BY DEF FlattenSeq
<1>7. flatten = [i \in 1 .. n |-> Body(flatten, i)]
  <2> HIDE DEF Body, n, f
  <2>. QED BY <1>5
<1> HIDE DEF flatten
<1>8. /\ flatten[1] = bands[1]
      /\ \A i \in 2 .. n : flatten[i] = flatten[i - 1] \o bands[i]
  <2>1. \A i \in 1 .. n : flatten[i] = Body(flatten, i)
    BY <1>7
  <2>2. 1 \in 1 .. n /\ \A i \in 2 .. n : i \in 1 .. n /\ i # 1
    BY <1>1
  <2>. QED BY <2>1, <2>2
<1>. QED BY <1>1, <1>6, <1>8 DEF FlattenedBy

\* Bands of values of K are, one after the other, values of K.
LEMMA FlattenIn ==
  ASSUME NEW K, NEW bands \in Seq(Seq(K))
  PROVE  FlattenSeq(bands) \in Seq(K)
<1> DEFINE n == Len(bands)
           V == Seq(K)
<1>1. n \in Nat /\ \A i \in 1 .. n : bands[i] \in V
  OBVIOUS
<1>2. CASE n = 0
  <2>1. FlattenSeq(bands) = bands /\ bands = <<>>
    BY <1>2 DEF FlattenSeq
  <2>. QED BY <2>1
<1>3. CASE n # 0
  <2>1. PICK flatten : FlattenedBy(flatten, bands)
    BY <1>3, FlattenSteps
  <2> DEFINE S == {i \in 1 .. n : flatten[i] \in V}
  <2>2. 1 \in S
    <3>1. 1 \in 1 .. n
      BY <1>1, <1>3
    <3> HIDE DEF V, n
    <3>. QED BY <1>1, <2>1, <3>1 DEF FlattenedBy
  <2>3. ASSUME NEW k \in 1 .. n - 1, k \in S PROVE k + 1 \in S
    <3>1. k + 1 \in 2 .. n /\ k + 1 \in 1 .. n /\ (k + 1) - 1 = k
      BY <1>1
    <3>2. flatten[k + 1] = flatten[k] \o bands[k + 1]
      BY <2>1, <3>1 DEF FlattenedBy
    <3>3. flatten[k] \in V /\ bands[k + 1] \in V
      BY <1>1, <2>3, <3>1
    <3>4. flatten[k + 1] \in V
      BY <3>2, <3>3, ConcatIn
    <3>. QED BY <3>1, <3>4
  <2>4. 1 .. n \subseteq S
    <3> HIDE DEF S
    <3>. QED BY <1>1, <2>2, <2>3, UpTheInterval
  <2>5. n \in 1 .. n
    BY <1>1, <1>3
  <2>. QED BY <2>1, <2>4, <2>5 DEF FlattenedBy
<1>. QED BY <1>2, <1>3

-----------------------------------------------------------------------------
(* Rounding, bands, and sequences in descending order.                       *)
LEMMA BoundsOfTwo ==
  ASSUME NEW a \in Int, NEW b \in Int
  PROVE  /\ AtLeast(a, b) \in Int /\ AtLeast(a, b) >= a /\ AtLeast(a, b) >= b
         /\ AtMost(a, b) \in Int /\ AtMost(a, b) <= a /\ AtMost(a, b) <= b
         /\ AtLeast(a, b) \in {a, b} /\ AtMost(a, b) \in {a, b}
BY DEF AtLeast, AtMost

\* A rounded quotient of naturals is a natural.
LEMMA RoundDivNat ==
  ASSUME NEW a \in Nat, NEW b \in Nat \ {0}
  PROVE  RoundDiv(a, b) \in Nat
<1>1. a \div b \in Nat
  BY DivMod
<1> DEFINE q == a \div b
<1>2. RoundDiv(a, b) \in {q, q + 1}
  BY DEF RoundDiv
<1> HIDE DEF q
<1>3. q \in Nat
  BY <1>1 DEF q
<1>. QED BY <1>2, <1>3

\* A band of one value; it is empty where its count is none.
LEMMA ConstantIn ==
  ASSUME NEW K, NEW count \in Int, NEW v, count > 0 => v \in K
  PROVE  Constant(count, v) \in Seq(K)
<1>1. CASE count > 0
  <2>1. Constant(count, v) \in [1 .. count -> K] /\ count \in Nat
    BY <1>1 DEF Constant
  <2>. QED BY <2>1
<1>2. CASE ~ (count > 0)
  <2>1. 1 .. count = {} /\ 1 .. 0 = {}
    BY <1>2
  <2>2. Constant(count, v) = <<>>
    <3>1. Constant(count, v) = [l \in {} |-> v]
      BY <2>1 DEF Constant
    <3>2. DOMAIN Constant(count, v) = {}
      BY <3>1
    <3>3. Constant(count, v) \in [1 .. 0 -> K]
      BY <2>1, <3>1
    <3>4. Constant(count, v) \in Seq(K) /\ Len(Constant(count, v)) = 0
      BY <3>3
    <3>. QED BY <3>4
  <2>. QED BY <2>2
<1>. QED BY <1>1, <1>2

\* A band that cycles stays in its cycle.
LEMMA CycledIn ==
  ASSUME NEW K, NEW count \in Int, NEW low \in Int, NEW cycle \in Nat \ {0},
         count > 0 => low .. low + cycle - 1 \subseteq K
  PROVE  Cycled(count, low, cycle) \in Seq(K)
<1>1. CASE count > 0
  <2>1. ASSUME NEW l \in 1 .. count PROVE low + ((l - 1) % cycle) \in K
    <3>1. l - 1 \in Nat
      OBVIOUS
    <3>2. (l - 1) % cycle \in 0 .. cycle - 1
      BY <3>1, DivMod
    <3> DEFINE m == (l - 1) % cycle
    <3> HIDE DEF m
    <3>3. m \in 0 .. cycle - 1
      BY <3>2 DEF m
    <3>4. low + m \in low .. low + cycle - 1
      BY <3>3
    <3>. QED BY <1>1, <3>4 DEF m
  <2>2. Cycled(count, low, cycle) \in [1 .. count -> K] /\ count \in Nat
    BY <1>1, <2>1 DEF Cycled
  <2>. QED BY <2>2
<1>2. CASE ~ (count > 0)
  <2>1. 1 .. count = 1 .. 0
    BY <1>2
  <2>2. Cycled(count, low, cycle) \in [1 .. 0 -> K]
    BY <2>1 DEF Cycled
  <2>. QED BY <2>2
<1>. QED BY <1>1, <1>2

\* There is a largest count, and a first one of those.
LEMMA LargestIs ==
  ASSUME NEW n \in Nat, NEW counts, \A i \in 1 .. n : counts[i] \in Int,
         NEW S \in SUBSET (1 .. n), S # {}
  PROVE  /\ Largest(counts, S) \in S
         /\ \A j \in S : counts[j] <= counts[Largest(counts, S)]
<1> DEFINE f == [i \in S |-> - counts[i]]
           R == {f[i] : i \in S}
<1>1. f \in Surjection(S, R)
  BY DEF Surjection
<1>2. IsFiniteSet(S)
  <2>1. IsFiniteSet(1 .. n)
    BY FS_Interval
  <2>. QED BY <2>1, FS_Subset
<1>3. R \in SUBSET Int /\ R # {}
  <2>1. \A i \in S : - counts[i] \in Int
    <3> TAKE i \in S
    <3>1. counts[i] \in Int
      OBVIOUS
    <3>. QED BY <3>1
  <2>2. R = {- counts[i] : i \in S}
    OBVIOUS
  <2> HIDE DEF R
  <2>3. R # {}
    BY <2>2
  <2>4. \A y \in R : y \in Int
    BY <2>1, <2>2
  <2>. QED BY <2>3, <2>4
<1>4. IsFiniteSet(R)
  <2> HIDE DEF f, R
  <2>. QED BY <1>1, <1>2, FS_Surjection
<1>5. PICK m \in R : \A y \in R : m <= y
  <2> HIDE DEF R
  <2>. QED BY <1>3, <1>4, LeastInteger
<1> DEFINE F == {i \in S : f[i] = m}
<1>6. F \in SUBSET Nat /\ F # {}
  <2>1. \A i \in S : i \in Nat
    OBVIOUS
  <2>2. m \in {f[i] : i \in S}
    BY <1>5
  <2> HIDE DEF f, R
  <2>3. F # {}
    BY <2>2
  <2>. QED BY <2>1, <2>3
<1>7. PICK i \in F : \A j \in F : i <= j
  <2> HIDE DEF F
  <2>. QED BY <1>6, LeastElement
<1>8. ASSUME NEW j \in S PROVE counts[i] > counts[j] \/ (counts[i] = counts[j] /\ i <= j)
  <2>1. f[i] = m /\ i \in S /\ m <= f[j]
    BY <1>5, <1>7
  <2>2. f[i] = - counts[i] /\ f[j] = - counts[j] /\ counts[i] \in Int /\ counts[j] \in Int
    BY <2>1
  <2>3. CASE f[j] = m
    <3>1. i <= j
      BY <1>7, <2>3
    <3>2. counts[i] = counts[j]
      <4> HIDE DEF f
      <4>. QED BY <2>1, <2>2, <2>3
    <3>. QED BY <3>1, <3>2
  <2>4. CASE f[j] # m
    <3> HIDE DEF f
    <3>. QED BY <2>1, <2>2, <2>4
  <2>. QED BY <2>3, <2>4
<1>9. i \in S
  BY <1>7
<1> HIDE DEF F, R, f
<1>10. /\ Largest(counts, S) \in S
       /\ \A j \in S : \/ counts[Largest(counts, S)] > counts[j]
                       \/ counts[Largest(counts, S)] = counts[j] /\ Largest(counts, S) <= j
  BY <1>8, <1>9 DEF Largest
<1> DEFINE b == Largest(counts, S)
<1> HIDE DEF b
<1>11. b \in S /\ \A j \in S : counts[b] > counts[j] \/ counts[b] = counts[j]
  BY <1>10 DEF b
<1>12. ASSUME NEW j \in S PROVE counts[j] <= counts[b]
  <2>1. counts[j] \in Int /\ counts[b] \in Int
    BY <1>11
  <2>. QED BY <1>11, <2>1
<1>. QED BY <1>11, <1>12 DEF b

\* Descending has an element of the sequence at each place.
LEMMA DescendingIn ==
  ASSUME NEW s \in Seq(Nat)
  PROVE  /\ DOMAIN Descending(s) = 1 .. Len(s)
         /\ \A i \in 1 .. Len(s) : Descending(s)[i] \in Nat
<1>1. DOMAIN s = 1 .. Len(s) /\ Len(s) \in Nat /\ \A i \in 1 .. Len(s) : s[i] \in Nat
  OBVIOUS
<1>2. ASSUME NEW i \in 1 .. Len(s) PROVE Descending(s)[i] \in Nat
  <2> DEFINE L == {x \in Range(s) : Cardinality({j \in DOMAIN s : s[j] > x}) < i}
             D == 1 .. Len(s)
             b == Largest(s, D)
  <2>1. b \in D /\ \A j \in D : s[j] <= s[b]
    <3>1. D \in SUBSET (1 .. Len(s)) /\ D # {} /\ \A j \in 1 .. Len(s) : s[j] \in Int
      BY <1>1
    <3> HIDE DEF D
    <3>. QED BY <1>1, <3>1, LargestIs
  <2> HIDE DEF b
  <2>2. {j \in DOMAIN s : s[j] > s[b]} = {}
    <3>1. ASSUME NEW j \in DOMAIN s PROVE ~ (s[j] > s[b])
      <4>1. s[j] <= s[b] /\ s[j] \in Nat /\ s[b] \in Nat
        BY <1>1, <2>1
      <4>. QED BY <4>1
    <3>. QED BY <3>1, Zenon
  <2>3. Cardinality({j \in DOMAIN s : s[j] > s[b]}) < i
    <3>1. Cardinality({}) = 0 /\ 0 < i
      BY FS_EmptySet
    <3>. QED BY <2>2, <3>1, Zenon
  <2>4. s[b] \in Range(s)
    BY <1>1, <2>1 DEF Range
  <2>5. s[b] \in L
    BY <2>3, <2>4
  <2>6. L \in SUBSET Nat
    BY <1>1 DEF Range
  <2>7. Min(L) \in Nat
    <3> HIDE DEF L
    <3>. QED BY <2>5, <2>6, LeastElement
  <2>8. Descending(s)[i] = Min(L)
    BY <1>1 DEF Descending
  <2>. QED BY <2>7, <2>8
<1>. QED BY <1>1, <1>2 DEF Descending

\* Rounded counts, the last with what is left, are integers.
LEMMA LastTakesRestInt ==
  ASSUME NEW counts \in Seq(Int), NEW rows \in Int
  PROVE  /\ LastTakesRest(counts, rows) \in Seq(Int)
         /\ Len(LastTakesRest(counts, rows)) = Len(counts)
<1>1. SumOf(counts) \in Int
  BY SumsOfInt
<1>2. /\ DOMAIN counts = 1 .. Len(counts) /\ Len(counts) \in Nat
      /\ \A i \in 1 .. Len(counts) : counts[i] \in Int
  OBVIOUS
<1> DEFINE d == rows - SumOf(counts)
           t == [i \in 1 .. Len(counts) |-> counts[i] + (IF i = Len(counts) THEN d ELSE 0)]
<1>3. d \in Int
  BY <1>1
<1>4. LastTakesRest(counts, rows) = t
  BY <1>2 DEF LastTakesRest
<1> HIDE DEF d
<1>5. t \in [1 .. Len(counts) -> Int]
  BY <1>2, <1>3
<1> HIDE DEF t
<1>6. t \in Seq(Int) /\ Len(t) = Len(counts)
  BY <1>2, <1>5
<1>. QED BY <1>4, <1>6

\* The counts by weights are integers: the last may be less than zero.
LEMMA WeightedCountsInt ==
  ASSUME NEW weights \in Seq(Nat), NEW units \in Nat \ {0}, NEW rows \in Nat
  PROVE  /\ WeightedCounts(weights, units, rows) \in Seq(Int)
         /\ Len(WeightedCounts(weights, units, rows)) = Len(weights)
<1> DEFINE t == [i \in DOMAIN weights |-> RoundDiv(weights[i] * rows, units)]
<1>1. ASSUME NEW i \in 1 .. Len(weights) PROVE RoundDiv(weights[i] * rows, units) \in Int
  <2>1. weights[i] \in Nat
    OBVIOUS
  <2> DEFINE a == weights[i]
  <2> HIDE DEF a
  <2>2. a * rows \in Nat
    BY <2>1 DEF a
  <2>3. RoundDiv(a * rows, units) \in Nat
    BY <2>2, RoundDivNat
  <2>. QED BY <2>3 DEF a
<1>2. t \in [1 .. Len(weights) -> Int] /\ Len(weights) \in Nat
  BY <1>1
<1>3. t \in Seq(Int) /\ Len(t) = Len(weights)
  BY <1>2
<1>4. WeightedCounts(weights, units, rows) = LastTakesRest(t, rows)
  BY DEF WeightedCounts
<1> HIDE DEF t
<1>. QED BY <1>3, <1>4, LastTakesRestInt

-----------------------------------------------------------------------------
(* The histograms of a source column.                                        *)
IsKey(c)     == c.kind = "key"
IsKeyPart(c) == c.kind = "key part"
IsYear(c)    == c.kind = "year"
IsTemporal(c) == c.kind \in {"date", "time"}

\* What is known of a source column.
LEMMA ColumnFields ==
  ASSUME NEW c \in SourceColumns
  PROVE  /\ c.freq \in Seq(Nat \ {0}) /\ c.null \in Nat /\ c.zero \in Nat /\ c.low \in Int
         /\ c.size \in Nat /\ c.estimate \in Nat \cup {None} /\ c.span \in Nat \cup {None}
         /\ c.length \in Nat /\ c.rows \in Nat
         /\ c.zero > 0 => c.kind = "fk"
         /\ IsKey(c) \/ IsKeyPart(c) => c.zero = 0 /\ c.null = 0
<1>1. c.zero \in Nat /\ (c.zero > 0 => c.kind = "fk")
  BY DEF SourceColumns
<1>2. IsKey(c) \/ IsKeyPart(c) => c.kind # "fk" /\ c.null = 0
  BY DEF SourceColumns, IsKey, IsKeyPart
<1>3. IsKey(c) \/ IsKeyPart(c) => c.zero = 0 /\ c.null = 0
  BY <1>1, <1>2
<1>. QED BY <1>3 DEF SourceColumns

\* Its counts: no value is without rows, and 0 is one value more.
LEMMA CountsOf ==
  ASSUME NEW c \in SourceColumns
  PROVE  /\ Distinct(c) \in Nat
         /\ SumOf(c.freq) \in Nat /\ Distinct(c) <= SumOf(c.freq)
         /\ Total(c) \in Nat /\ SumOf(c.freq) <= Total(c)
         /\ AllValues(c) \in Seq(Nat \ {0})
         /\ Len(AllValues(c)) = Distinct(c) + (IF c.zero > 0 THEN 1 ELSE 0)
<1>1. c.freq \in Seq(Nat \ {0}) /\ c.null \in Nat /\ c.zero \in Nat
  BY ColumnFields
<1>2. Distinct(c) = Len(c.freq) /\ Len(c.freq) \in Nat
  BY <1>1 DEF Distinct
<1>3. SumOf(c.freq) \in Nat /\ Len(c.freq) <= SumOf(c.freq)
  BY <1>1, SumOfPositive
<1>4. Total(c) \in Nat /\ SumOf(c.freq) <= Total(c)
  BY <1>1, <1>3 DEF Total
<1> DEFINE zeroes == IF c.zero > 0 THEN 1 ELSE 0
<1>5. AllValues(c) \in Seq(Nat \ {0}) /\ Len(AllValues(c)) = zeroes + Len(c.freq)
  <2> DEFINE first == IF c.zero > 0 THEN <<c.zero>> ELSE <<>>
  <2>1. AllValues(c) = first \o c.freq
    BY DEF AllValues
  <2>2. first \in Seq(Nat \ {0}) /\ Len(first) = zeroes
    <3>1. CASE c.zero > 0
      <4>1. first = <<c.zero>> /\ zeroes = 1 /\ c.zero \in Nat \ {0}
        BY <1>1, <3>1
      <4> HIDE DEF first, zeroes
      <4>. QED BY <4>1
    <3>2. CASE ~ (c.zero > 0)
      <4>1. first = <<>> /\ zeroes = 0
        BY <3>2
      <4> HIDE DEF first, zeroes
      <4>. QED BY <4>1
    <3>. QED BY <3>1, <3>2
  <2> DEFINE K == Nat \ {0}
  <2>3. first \in Seq(K) /\ c.freq \in Seq(K)
    BY <1>1, <2>2
  <2> HIDE DEF first, zeroes, K
  <2>4. first \o c.freq \in Seq(K) /\ Len(first \o c.freq) = Len(first) + Len(c.freq)
    BY <2>3, ConcatIn
  <2>. QED BY <2>1, <2>2, <2>4 DEF K
<1>6. zeroes \in Nat
  OBVIOUS
<1> DEFINE d == Len(c.freq)
<1> HIDE DEF zeroes, d
<1>7. Len(AllValues(c)) = Distinct(c) + zeroes
  <2>1. d \in Nat /\ Distinct(c) = d /\ Len(AllValues(c)) = zeroes + d
    BY <1>2, <1>5 DEF d
  <2>. QED BY <1>6, <2>1
<1>8. Distinct(c) \in Nat /\ Distinct(c) <= SumOf(c.freq)
  BY <1>2, <1>3
<1>9. Distinct(c) \in Nat
  BY <1>2
<1>. QED BY <1>3, <1>4, <1>5, <1>7, <1>8, <1>9 DEF zeroes

\* What there is to know of the buckets: none is empty, and the server does not
\* guess where a bucket has one value.
AreBuckets(B) ==
  /\ Len(B) \in Nat \ {0} /\ B \in Seq({B[b] : b \in 1 .. Len(B)})
  /\ \A b \in 1 .. Len(B) :
       /\ B[b].rows \in Nat \ {0} /\ B[b].distinct \in Nat \ {0}
       /\ B[b].values = 1 => B[b].distinct = 1

\* A sample has no more values than the column.
LEMMA SingletonBuckets ==
  ASSUME NEW c \in SourceColumns, NEW h \in SingletonHistograms(c)
  PROVE  /\ h.type = "singleton" /\ AreBuckets(h.buckets)
         /\ Len(h.buckets) <= Len(AllValues(c))
<1> DEFINE A == AllValues(c)
           At(S, b) == Min({v \in S : Cardinality({u \in S : u <= v}) >= b})
<1>1. PICK S \in SUBSET DOMAIN A :
        /\ Cardinality(S) \in 1 .. Buckets
        /\ h = [type |-> "singleton",
                buckets |-> [b \in 1 .. Cardinality(S) |->
                               Bucket(At(S, b), A[At(S, b)], 1, 1)]]
  BY DEF SingletonHistograms
<1>2. A \in Seq(Nat \ {0})
  BY CountsOf
<1> HIDE DEF A
<1> DEFINE n == Cardinality(S)
           B == [b \in 1 .. n |-> Bucket(At(S, b), A[At(S, b)], 1, 1)]
<1>3. /\ n \in Nat \ {0} /\ S \in SUBSET (1 .. Len(A)) /\ Len(A) \in Nat
      /\ DOMAIN A = 1 .. Len(A) /\ IsFiniteSet(S) /\ n <= Len(A) /\ S # {}
  <2>1. DOMAIN A = 1 .. Len(A) /\ Len(A) \in Nat
    BY <1>2
  <2>2. Buckets \in Nat \ {0}
    BY ColumnAssumption
  <2>3. n \in Nat \ {0}
    BY <1>1, <2>2
  <2>4. IsFiniteSet(1 .. Len(A)) /\ Cardinality(1 .. Len(A)) = Len(A)
    BY <2>1, FS_Interval
  <2>5. IsFiniteSet(S) /\ n <= Len(A)
    BY <2>1, <2>4, FS_Subset
  <2>6. S # {}
    BY <2>3, FS_EmptySet
  <2>. QED BY <2>1, <2>3, <2>5, <2>6
<1>4. ASSUME NEW b \in 1 .. n PROVE At(S, b) \in S
  <2> DEFINE T == {v \in S : Cardinality({u \in S : u <= v}) >= b}
             counts == [i \in 1 .. Len(A) |-> i]
             m == Largest(counts, S)
  <2>1. m \in S /\ \A j \in S : j <= m
    <3>1. \A i \in 1 .. Len(A) : counts[i] \in Int
      OBVIOUS
    <3>2. \A i \in S : counts[i] = i
      BY <1>3
    <3> HIDE DEF counts
    <3>3. m \in S /\ \A j \in S : counts[j] <= counts[m]
      BY <1>3, <3>1, LargestIs
    <3>. QED BY <3>2, <3>3
  <2> HIDE DEF m
  <2>2. {u \in S : u <= m} = S
    BY <2>1
  <2>3. m \in T
    <3>1. Cardinality({u \in S : u <= m}) = n
      BY <2>2, Zenon
    <3>2. n >= b
      BY <1>3
    <3>. QED BY <2>1, <3>1, <3>2
  <2>4. T \in SUBSET Nat
    BY <1>3
  <2>5. Min(T) \in T
    <3> HIDE DEF T
    <3>. QED BY <2>3, <2>4, LeastElement
  <2>. QED BY <2>5
<1>5. h.type = "singleton" /\ h.buckets = B
  BY <1>1
<1>6. ASSUME NEW b \in 1 .. n
      PROVE  B[b].rows \in Nat \ {0} /\ B[b].values = 1 /\ B[b].distinct = 1
  <2> DEFINE v == At(S, b)
  <2>1. B[b] = Bucket(v, A[v], 1, 1)
    OBVIOUS
  <2>2. v \in 1 .. Len(A)
    BY <1>3, <1>4
  <2> HIDE DEF v, B
  <2>3. A[v] \in Nat \ {0}
    BY <1>2, <2>2
  <2>. QED BY <2>1, <2>3 DEF Bucket
<1>7. B \in [1 .. n -> {B[b] : b \in 1 .. n}]
  OBVIOUS
<1> HIDE DEF B
<1>8. Len(B) = n /\ B \in Seq({B[b] : b \in 1 .. n})
  BY <1>3, <1>7
<1>9. AreBuckets(B)
  BY <1>3, <1>6, <1>8 DEF AreBuckets
<1>. QED BY <1>3, <1>5, <1>8, <1>9 DEF A

\* Every bucket has a value, and its rows.
LEMMA EquiHeightBuckets ==
  ASSUME NEW c \in SourceColumns, NEW h \in EquiHeightHistograms(c)
  PROVE  /\ h.type = "equi-height" /\ AreBuckets(h.buckets)
         /\ Len(h.buckets) = Buckets
<1> DEFINE A == AllValues(c)
           n == Len(A)
           First(last, b) == IF b = 1 THEN 1 ELSE last[b - 1] + 1
           Body(last, guess, b) ==
             Bucket(First(last, b), SumOf(SubSeq(A, First(last, b), last[b])),
                    last[b] - First(last, b) + 1,
                    IF First(last, b) = last[b] THEN 1 ELSE guess[b])
<1>1. PICK last \in [1 .. Buckets -> 1 .. n], guess \in [1 .. Buckets -> 1 .. n] :
        /\ \A b \in 1 .. Buckets - 1 : last[b] < last[b + 1]
        /\ h = [type |-> "equi-height",
                buckets |-> [b \in 1 .. Buckets |-> Body(last, guess, b)]]
  BY DEF EquiHeightHistograms
<1>2. A \in Seq(Nat \ {0}) /\ n \in Nat /\ Buckets \in Nat \ {0}
  BY CountsOf, ColumnAssumption
<1> HIDE DEF A, n
<1> DEFINE B == [b \in 1 .. Buckets |-> Body(last, guess, b)]
<1>3. h.type = "equi-height" /\ h.buckets = B
  BY <1>1
<1>4. ASSUME NEW b \in 1 .. Buckets
      PROVE  /\ B[b].rows \in Nat \ {0} /\ B[b].distinct \in Nat \ {0}
             /\ B[b].values = 1 => B[b].distinct = 1
  <2> DEFINE m == First(last, b)
             k == last[b]
             s == SubSeq(A, m, k)
  <2>1. k \in 1 .. n /\ guess[b] \in 1 .. n
    BY <1>1
  <2>2. m \in 1 .. k
    <3>1. CASE b = 1
      BY <1>2, <2>1, <3>1
    <3>2. CASE b # 1
      <4>1. b - 1 \in 1 .. Buckets - 1 /\ (b - 1) + 1 = b /\ b - 1 \in 1 .. Buckets
        BY <1>2, <3>2
      <4>2. last[b - 1] < last[b] /\ last[b - 1] \in 1 .. n
        BY <1>1, <4>1
      <4>3. m = last[b - 1] + 1
        BY <3>2
      <4> DEFINE l == last[b - 1]
      <4> HIDE DEF m, k, l
      <4>4. l < k /\ l \in 1 .. n /\ m = l + 1
        BY <4>2, <4>3 DEF k, l
      <4>. QED BY <1>2, <2>1, <4>4
    <3>. QED BY <3>1, <3>2
  <2>3. B[b] = Bucket(m, SumOf(s), k - m + 1, IF m = k THEN 1 ELSE guess[b])
    OBVIOUS
  <2> HIDE DEF m, k, B
  <2>4. \A i \in m .. k : A[i] \in Nat \ {0}
    <3>1. \A i \in m .. k : i \in 1 .. Len(A)
      BY <1>2, <2>1, <2>2 DEF n
    <3>. QED BY <1>2, <3>1
  <2>5. m \in Int /\ k \in Int /\ m <= k /\ k - m + 1 \in Nat \ {0}
    BY <1>2, <2>1, <2>2
  <2>6. s \in Seq(Nat \ {0}) /\ Len(s) = k - m + 1
    BY <2>4, <2>5, SubSeqProperties
  <2>7. SumOf(s) \in Nat \ {0}
    <3> HIDE DEF s
    <3>1. SumOf(s) \in Nat /\ Len(s) <= SumOf(s)
      BY <2>6, SumOfPositive
    <3>. QED BY <2>5, <2>6, <3>1
  <2>8. k - m + 1 = 1 => m = k
    BY <2>5
  <2>9. guess[b] \in Nat \ {0}
    BY <1>2, <2>1
  <2> HIDE DEF s
  <2>. QED BY <2>3, <2>7, <2>8, <2>9 DEF Bucket
<1> DEFINE X == {B[b] : b \in 1 .. Buckets}
<1>5. B \in [1 .. Buckets -> X]
  OBVIOUS
<1> HIDE DEF B, X
<1>6. Len(B) = Buckets /\ B \in Seq(X)
  BY <1>2, <1>5
<1>7. AreBuckets(B)
  BY <1>2, <1>4, <1>6 DEF AreBuckets, X
<1>. QED BY <1>3, <1>6, <1>7

\* The buckets of a histogram, whatever its type.
LEMMA HistogramBuckets ==
  ASSUME NEW c \in SourceColumns, NEW h \in Histograms(c)
  PROVE  /\ IsSingleton(h) => AreBuckets(h.buckets) /\ Len(h.buckets) <= Len(AllValues(c))
         /\ IsEquiHeight(h) => /\ AreBuckets(h.buckets)
                               /\ Len(h.buckets) < Len(AllValues(c))
<1>1. CASE h = None
  BY <1>1 DEF IsSingleton, IsEquiHeight
<1>2. CASE h \in SingletonHistograms(c)
  BY <1>2, SingletonBuckets DEF IsSingleton, IsEquiHeight
<1>3. CASE Len(AllValues(c)) > Buckets /\ h \in EquiHeightHistograms(c)
  <2>1. h.type = "equi-height" /\ AreBuckets(h.buckets) /\ Len(h.buckets) = Buckets
    BY <1>3, EquiHeightBuckets
  <2>2. Buckets \in Nat /\ Len(AllValues(c)) \in Nat
    BY ColumnAssumption, CountsOf
  <2>3. Len(h.buckets) < Len(AllValues(c))
    BY <1>3, <2>1, <2>2
  <2>. QED BY <2>1, <2>3 DEF IsSingleton, IsEquiHeight
<1>. QED BY <1>1, <1>2, <1>3 DEF Histograms

-----------------------------------------------------------------------------
(* Foreign keys, path by path: where their values come from.                 *)

\* The rows of a CASE with the default d.
CaseOf(bands, d, rows) ==
  [r \in 1 .. rows |->
     {IF r <= Len(FlattenSeq(bands)) THEN FlattenSeq(bands)[r] ELSE d}]

\* A CASE over bands of K, with a default of K, gives values of K.
LEMMA CaseOfIn ==
  ASSUME NEW K, NEW bands \in Seq(Seq(K)), NEW d \in K, NEW rows \in Nat
  PROVE  CaseOf(bands, d, rows) \in [1 .. rows -> SUBSET K]
<1> DEFINE all == FlattenSeq(bands)
<1>1. all \in Seq(K)
  BY FlattenIn
<1> HIDE DEF all
<1>2. ASSUME NEW r \in 1 .. rows PROVE (IF r <= Len(all) THEN all[r] ELSE d) \in K
  <2>1. CASE r <= Len(all)
    <3>1. r \in 1 .. Len(all)
      BY <1>1, <2>1
    <3>. QED BY <1>1, <2>1, <3>1
  <2>2. CASE ~ (r <= Len(all))
    BY <2>2
  <2>. QED BY <2>1, <2>2
<1>3. CaseOf(bands, d, rows) = [r \in 1 .. rows |-> {IF r <= Len(all) THEN all[r] ELSE d}]
  BY DEF CaseOf, all
<1>. QED BY <1>2, <1>3

\* NULL and 0, if the source has rows with them.
Unknowns(c) ==
  (IF c.null > 0 THEN {None} ELSE {}) \cup (IF c.zero > 0 THEN {0} ELSE {})
FirstKeys(c, n) == c.low .. c.low + n - 1

\* The bands of 0 and NULL.
LEMMA UnknownBandsIn ==
  ASSUME NEW c \in SourceColumns, NEW K, Unknowns(c) \subseteq K
  PROVE  UnknownBands(c) \in Seq(Seq(K)) /\ UnknownBands(c)[1] \in Seq(K)
         /\ UnknownBands(c)[2] \in Seq(K) /\ Len(UnknownBands(c)) = 2
<1>1. c.null \in Int /\ c.zero \in Int
  <2>1. c.null \in Nat /\ c.zero \in Nat
    BY ColumnFields
  <2>. QED BY <2>1
<1>2. (c.zero > 0 => 0 \in K) /\ (c.null > 0 => None \in K)
  BY DEF Unknowns
<1>3. Constant(c.zero, 0) \in Seq(K) /\ Constant(c.null, None) \in Seq(K)
  BY <1>1, <1>2, ConstantIn
<1>. QED BY <1>3 DEF UnknownBands

\* Frequency groups and exact counts give the first keys.
LEMMA RankedColumnIn ==
  ASSUME NEW c \in SourceColumns, Distinct(c) # 0
  PROVE  RankedColumn(c) \in
           [1 .. c.rows -> SUBSET (FirstKeys(c, Distinct(c)) \cup Unknowns(c))]
<1> DEFINE K == FirstKeys(c, Distinct(c)) \cup Unknowns(c)
           ranked == Descending(c.freq)
           n == Len(c.freq)
           of == [i \in 1 .. n |-> Constant(ranked[i], c.low + i - 1)]
<1>1. /\ n \in Nat \ {0} /\ n = Distinct(c)
      /\ c.low \in Int /\ c.rows \in Nat /\ c.freq \in Seq(Nat)
  <2>1. c.freq \in Seq(Nat \ {0}) /\ c.low \in Int /\ c.rows \in Nat
    BY ColumnFields
  <2>2. n \in Nat /\ c.freq \in Seq(Nat)
    BY <2>1
  <2>. QED BY <2>1, <2>2 DEF Distinct
<1>2. DOMAIN ranked = 1 .. n /\ \A i \in 1 .. n : ranked[i] \in Nat
  BY <1>1, DescendingIn
<1> HIDE DEF n, ranked
<1>3. \A i \in 1 .. n : c.low + i - 1 \in K
  BY <1>1 DEF FirstKeys
<1>4. UnknownBands(c) \in Seq(Seq(K))
  BY UnknownBandsIn
<1> HIDE DEF K
<1>5. ASSUME NEW i \in 1 .. n PROVE Constant(ranked[i], c.low + i - 1) \in Seq(K)
  BY <1>2, <1>3, ConstantIn
<1>6. of \in Seq(Seq(K))
  BY <1>1, <1>5
<1> HIDE DEF of
<1> DEFINE V == Seq(K)
           bands == UnknownBands(c) \o of
<1>7. bands \in Seq(V)
  <2> HIDE DEF V, bands
  <2>1. UnknownBands(c) \o of \in Seq(V)
    BY <1>4, <1>6, ConcatIn DEF V
  <2>. QED BY <2>1 DEF bands
<1>8. LastKey(c) \in K
  <2>1. LastKey(c) = c.low + n - 1 /\ n \in 1 .. n
    BY <1>1 DEF LastKey
  <2>. QED BY <1>3, <2>1
<1>9. CaseOf(bands, LastKey(c), c.rows) \in [1 .. c.rows -> SUBSET K]
  <2> HIDE DEF bands
  <2>. QED BY <1>1, <1>7, <1>8, CaseOfIn
<1>10. RankedColumn(c) = CaseOf(bands, LastKey(c), c.rows)
  <2>1. RankedColumn(c) =
          Sure(Case(UnknownBands(c) \o
                      [i \in DOMAIN ranked |-> Constant(ranked[i], c.low + i - 1)],
                    LAMBDA r : LastKey(c), c.rows))
    BY DEF RankedColumn, ranked
  <2>2. [i \in DOMAIN ranked |-> Constant(ranked[i], c.low + i - 1)] = of
    BY <1>2 DEF of
  <2>3. RankedColumn(c) = Sure(Case(bands, LAMBDA r : LastKey(c), c.rows))
    BY <2>1, <2>2
  <2> HIDE DEF bands
  <2>. QED BY <2>3 DEF Sure, Case, CaseOf
<1>. QED BY <1>9, <1>10 DEF K

\* One turn of the cycle.
LEMMA TurningIn ==
  ASSUME NEW c \in SourceColumns, NEW cycle \in Nat, NEW r \in Nat \ {0}
  PROVE  Turning(c, cycle, r) \subseteq FirstKeys(c, cycle)
<1>1. CASE cycle = 0
  BY <1>1 DEF Turning
<1>2. CASE cycle # 0
  <2> DEFINE m == (r - 1) % cycle
  <2>1. m \in 0 .. cycle - 1 /\ c.low \in Int
    <3>1. r - 1 \in Nat /\ cycle \in Nat \ {0}
      BY <1>2
    <3>. QED BY <3>1, DivMod, ColumnFields
  <2>2. Turning(c, cycle, r) = {c.low + m}
    BY <1>2 DEF Turning
  <2> HIDE DEF m
  <2>. QED BY <2>1, <2>2 DEF FirstKeys
<1>. QED BY <1>1, <1>2

\* The cycle runs through the first keys.
LEMMA TurnedIn ==
  ASSUME NEW c \in SourceColumns, NEW cycle \in Nat
  PROVE  Turned(c, cycle) \in [1 .. c.rows -> SUBSET FirstKeys(c, cycle)]
<1>1. c.rows \in Nat
  BY ColumnFields
<1>2. \A r \in 1 .. c.rows : Turning(c, cycle, r) \subseteq FirstKeys(c, cycle)
  BY <1>1, TurningIn
<1>. QED BY <1>2 DEF Turned

\* A band as the sets of values its rows may take.
LEMMA SureIn ==
  ASSUME NEW K, NEW s \in Seq(K)
  PROVE  Sure(s) \in Seq(SUBSET K)
<1>1. Len(s) \in Nat /\ DOMAIN s = 1 .. Len(s) /\ \A i \in 1 .. Len(s) : {s[i]} \in SUBSET K
  OBVIOUS
<1>2. Sure(s) \in [1 .. Len(s) -> SUBSET K]
  BY <1>1 DEF Sure
<1>. QED BY <1>1, <1>2

\* So does the cycle after the bands of NULL and 0.
LEMMA WrappedCyclingColumnIn ==
  ASSUME NEW c \in SourceColumns
  PROVE  WrappedCyclingColumn(c) \in
           [1 .. c.rows -> SUBSET (FirstKeys(c, Distinct(c)) \cup Unknowns(c))]
<1> DEFINE K == FirstKeys(c, Distinct(c)) \cup Unknowns(c)
           V == SUBSET K
           bands == [b \in 1 .. 2 |-> Sure(UnknownBands(c)[b])]
           all == FlattenSeq(bands)
<1>1. Distinct(c) \in Nat /\ c.rows \in Nat
  BY CountsOf, ColumnFields
<1>2. FirstKeys(c, Distinct(c)) \subseteq K
  OBVIOUS
<1>3. CASE UnknownSeen(c)
  <2>1. bands \in Seq(Seq(V))
    <3>1. UnknownBands(c)[1] \in Seq(K) /\ UnknownBands(c)[2] \in Seq(K)
      BY UnknownBandsIn
    <3> HIDE DEF K
    <3>2. \A b \in 1 .. 2 : UnknownBands(c)[b] \in Seq(K)
      <4>1. \A b \in 1 .. 2 : b = 1 \/ b = 2
        OBVIOUS
      <4>. QED BY <3>1, <4>1
    <3>3. \A b \in 1 .. 2 : Sure(UnknownBands(c)[b]) \in Seq(V)
      BY <3>2, SureIn
    <3> HIDE DEF V
    <3>4. bands \in [1 .. 2 -> Seq(V)]
      BY <3>3
    <3>. QED BY <3>4
  <2>2. all \in Seq(V)
    <3> HIDE DEF bands, V
    <3>. QED BY <2>1, FlattenIn
  <2>3. WrappedCyclingColumn(c) =
          [r \in 1 .. c.rows |->
             IF r <= Len(all) THEN all[r] ELSE Turning(c, Distinct(c), r)]
    BY <1>3 DEF WrappedCyclingColumn, Case
  <2>4. ASSUME NEW r \in 1 .. c.rows
        PROVE  (IF r <= Len(all) THEN all[r] ELSE Turning(c, Distinct(c), r)) \in V
    <3>1. CASE r <= Len(all)
      <4> HIDE DEF all, V
      <4>1. r \in 1 .. Len(all)
        BY <1>1, <2>2, <3>1
      <4>. QED BY <2>2, <3>1, <4>1
    <3>2. CASE ~ (r <= Len(all))
      <4>1. Turning(c, Distinct(c), r) \subseteq FirstKeys(c, Distinct(c))
        BY <1>1, TurningIn
      <4>. QED BY <1>2, <3>2, <4>1
    <3>. QED BY <3>1, <3>2
  <2> HIDE DEF all, V
  <2>5. WrappedCyclingColumn(c) \in [1 .. c.rows -> V]
    BY <2>3, <2>4
  <2>. QED BY <2>5 DEF V
<1>4. CASE ~ UnknownSeen(c)
  <2>1. WrappedCyclingColumn(c) = Turned(c, Distinct(c))
    BY <1>4 DEF WrappedCyclingColumn, CyclingColumn
  <2>2. Turned(c, Distinct(c)) \in [1 .. c.rows -> SUBSET FirstKeys(c, Distinct(c))]
    BY <1>1, TurnedIn
  <2>. QED BY <1>2, <2>1, <2>2
<1>. QED BY <1>3, <1>4

\* The weights of a histogram's buckets.
LEMMA BucketRows ==
  ASSUME NEW h, AreBuckets(h.buckets)
  PROVE  /\ RowsOf(h) \in Seq(Nat \ {0}) /\ Len(RowsOf(h)) = Len(h.buckets)
         /\ DistinctsOf(h) \in Seq(Nat \ {0}) /\ Len(DistinctsOf(h)) = Len(h.buckets)
         /\ DOMAIN h.buckets = 1 .. Len(h.buckets) /\ Len(h.buckets) \in Nat \ {0}
         /\ SumOf(RowsOf(h)) \in Nat \ {0} /\ SumOf(DistinctsOf(h)) \in Nat \ {0}
<1> DEFINE B == h.buckets
           n == Len(B)
           P == Nat \ {0}
<1>1. /\ n \in P /\ DOMAIN B = 1 .. n
      /\ \A b \in 1 .. n : B[b].rows \in P /\ B[b].distinct \in P
  <2>1. B \in Seq({B[b] : b \in 1 .. n}) /\ n \in P
    BY DEF AreBuckets
  <2>2. DOMAIN B = 1 .. n
    BY <2>1
  <2>. QED BY <2>1, <2>2 DEF AreBuckets
<1>2. /\ RowsOf(h) = [b \in DOMAIN B |-> B[b].rows]
      /\ DistinctsOf(h) = [b \in DOMAIN B |-> B[b].distinct]
  BY DEF RowsOf, DistinctsOf
<1> HIDE DEF B, n
<1>3. RowsOf(h) \in [1 .. n -> P] /\ DistinctsOf(h) \in [1 .. n -> P]
  BY <1>1, <1>2
<1>4. /\ RowsOf(h) \in Seq(P) /\ Len(RowsOf(h)) = n
      /\ DistinctsOf(h) \in Seq(P) /\ Len(DistinctsOf(h)) = n
  BY <1>1, <1>3
<1>5. ASSUME NEW s \in Seq(P), Len(s) = n PROVE SumOf(s) \in P
  <2>1. SumOf(s) \in Nat /\ Len(s) <= SumOf(s)
    BY SumOfPositive
  <2>. QED BY <1>1, <1>5, <2>1
<1>6. SumOf(RowsOf(h)) \in P /\ SumOf(DistinctsOf(h)) \in P
  BY <1>4, <1>5
<1>. QED BY <1>1, <1>4, <1>6 DEF B, n

\* The weights of the buckets.
LEMMA WeightsNat ==
  ASSUME NEW c \in SourceColumns, NEW h, AreBuckets(h.buckets)
  PROVE  Weights(c, h) \in Seq(Nat) /\ Len(Weights(c, h)) = Len(h.buckets)
<1> DEFINE n == Len(h.buckets)
           d == c.null + SumOf(RowsOf(h))
<1>1. d \in Nat \ {0} /\ Units \in Nat
  <2>1. c.null \in Nat
    BY ColumnFields
  <2>2. SumOf(RowsOf(h)) \in Nat \ {0}
    BY BucketRows
  <2>. QED BY <2>1, <2>2, ColumnAssumption
<1>2. DOMAIN h.buckets = 1 .. n /\ n \in Nat
  BY BucketRows
<1> HIDE DEF d
<1>3. ASSUME NEW b \in 1 .. n PROVE RoundDiv(h.buckets[b].rows * Units, d) \in Nat
  <2> DEFINE a == h.buckets[b].rows
  <2>1. a \in Nat
    BY <1>3 DEF AreBuckets
  <2> HIDE DEF a
  <2>2. a * Units \in Nat
    BY <1>1, <2>1
  <2>3. RoundDiv(a * Units, d) \in Nat
    BY <1>1, <2>2, RoundDivNat
  <2>. QED BY <2>3 DEF a
<1>4. Weights(c, h) = [b \in 1 .. n |-> RoundDiv(h.buckets[b].rows * Units, d)]
  BY <1>2 DEF Weights, d
<1> HIDE DEF n
<1>5. Weights(c, h) \in [1 .. n -> Nat]
  BY <1>3, <1>4
<1>6. Weights(c, h) \in Seq(Nat) /\ Len(Weights(c, h)) = n
  BY <1>2, <1>5
<1>. QED BY <1>6 DEF n

\* The keys that are sampled of the referenced table: one for each bucket.
SampledKeys(c, h) ==
  {c.low + (((i - 1) * c.size) \div Len(h.buckets)) : i \in 1 .. Len(h.buckets)}

\* The sampled keys are keys of the referenced table.
LEMMA SampledKeysExist ==
  ASSUME NEW c \in SourceColumns, NEW h, AreBuckets(h.buckets), c.size # 0
  PROVE  SampledKeys(c, h) \subseteq Referenced(c)
<1> DEFINE n == Len(h.buckets)
<1>1. n \in Nat \ {0} /\ c.size \in Nat \ {0} /\ c.low \in Int
  BY ColumnFields DEF AreBuckets
<1> DEFINE z == c.size
<1> HIDE DEF n, z
<1>2. ASSUME NEW i \in 1 .. n PROVE ((i - 1) * z) \div n \in 0 .. z - 1
  <2>1. i - 1 \in Nat /\ i - 1 < n /\ z \in Nat \ {0}
    BY <1>1 DEF z
  <2>2. (i - 1) * z \in Nat /\ (i - 1) * z < z * n
    <3> DEFINE e == i - 1
               k == n - e
    <3>1. e \in Nat /\ k \in Nat \ {0} /\ n = e + k
      BY <1>1, <2>1
    <3> HIDE DEF e, k
    <3>2. z * n = e * z + k * z
      BY <2>1, <3>1
    <3>3. e * z \in Nat /\ k * z \in Nat \ {0}
      BY <2>1, <3>1
    <3>4. e * z < z * n
      BY <3>2, <3>3
    <3>. QED BY <3>3, <3>4 DEF e
  <2> DEFINE p == (i - 1) * z
  <2> HIDE DEF p
  <2>3. p \in Nat /\ p < z * n
    BY <2>2 DEF p
  <2>4. p \div n \in Nat /\ p \div n < z
    BY <1>1, <2>1, <2>3, QuotientBelow
  <2>5. p \div n \in 0 .. z - 1
    BY <2>1, <2>4
  <2>. QED BY <2>5 DEF p
<1>3. SampledKeys(c, h) = {c.low + (((i - 1) * z) \div n) : i \in 1 .. n}
  BY DEF SampledKeys, n, z
<1>4. ASSUME NEW i \in 1 .. n PROVE c.low + (((i - 1) * z) \div n) \in c.low .. c.low + z - 1
  <2> DEFINE q == ((i - 1) * z) \div n
  <2>1. q \in 0 .. z - 1
    BY <1>2
  <2> HIDE DEF q
  <2>2. c.low + q \in c.low .. c.low + z - 1
    BY <1>1, <2>1 DEF z
  <2>. QED BY <2>2 DEF q
<1>. QED BY <1>3, <1>4 DEF Referenced, z

\* The bands by the weights of the buckets are of sampled keys.
LEMMA SingletonColumnIn ==
  ASSUME NEW c \in SourceColumns, NEW h, AreBuckets(h.buckets)
  PROVE  SingletonColumn(c, h) \in [1 .. c.rows -> SUBSET SampledKeys(c, h)]
<1> DEFINE n == Len(h.buckets)
           counts == WeightedCounts(Weights(c, h), Units, Valid(c))
           Sampled(i) == c.low + (((i - 1) * c.size) \div n)
           K == SampledKeys(c, h)
           bands == [i \in 1 .. n |-> Constant(counts[i], Sampled(i))]
<1>1. n \in Nat \ {0} /\ c.rows \in Nat
  BY ColumnFields DEF AreBuckets
<1>2. \A i \in 1 .. n : Sampled(i) \in K
  BY DEF SampledKeys
<1>3. \A i \in 1 .. n : counts[i] \in Int
  <2>1. Units \in Nat \ {0}
    BY ColumnAssumption
  <2>2. Valid(c) \in Nat
    <3>1. SumOf(c.freq) \in Int
      <4>1. SumOf(c.freq) \in Nat
        BY CountsOf
      <4>. QED BY <4>1
    <3>2. Valid(c) \in Int /\ Valid(c) >= 1
      BY <3>1, BoundsOfTwo DEF Valid
    <3>. QED BY <3>2
  <2>3. Weights(c, h) \in Seq(Nat) /\ Len(Weights(c, h)) = n
    BY WeightsNat
  <2>4. counts \in Seq(Int) /\ Len(counts) = n
    <3> HIDE DEF n
    <3>. QED BY <2>1, <2>2, <2>3, WeightedCountsInt
  <2> HIDE DEF counts, n
  <2>. QED BY <2>4
<1> HIDE DEF n, counts, K, Sampled
<1>4. \A i \in 1 .. n : Constant(counts[i], Sampled(i)) \in Seq(K)
  BY <1>2, <1>3, ConstantIn
<1>5. bands \in Seq(Seq(K))
  <2>1. bands \in [1 .. n -> Seq(K)]
    BY <1>4
  <2> HIDE DEF bands
  <2>. QED BY <1>1, <2>1
<1>6. Sampled(n) \in K
  BY <1>1, <1>2
<1>7. CaseOf(bands, Sampled(n), c.rows) \in [1 .. c.rows -> SUBSET K]
  <2> HIDE DEF bands
  <2>. QED BY <1>1, <1>5, <1>6, CaseOfIn
<1>8. SingletonColumn(c, h) = CaseOf(bands, Sampled(n), c.rows)
  BY DEF SingletonColumn, Sure, Case, CaseOf, n, counts, Sampled
<1>. QED BY <1>7, <1>8 DEF K

\* The ranges of keys that weighted choices are made of end with the table.
LEMMA EquiHeightColumnIn ==
  ASSUME NEW c \in SourceColumns, NEW h, AreBuckets(h.buckets), c.size # 0
  PROVE  EquiHeightColumn(c, h) \in [1 .. c.rows -> SUBSET Referenced(c)]
<1> DEFINE n == Len(h.buckets)
           per == AtLeast(1, AtLeast(Len(AllValues(c)), n) \div n)
           last == c.low + c.size - 1
           Keys(i) == AtMost(c.low + (i - 1) * per, last) .. AtMost(c.low + i * per - 1, last)
<1>1. n \in Nat \ {0} /\ c.low \in Int /\ c.size \in Nat \ {0} /\ last \in Int /\ c.low <= last
  <2>1. n \in Nat \ {0} /\ c.low \in Int /\ c.size \in Nat \ {0}
    BY ColumnFields DEF AreBuckets
  <2>. QED BY <2>1
<1>2. per \in Nat
  <2>1. Len(AllValues(c)) \in Nat
    BY CountsOf
  <2> DEFINE a == AtLeast(Len(AllValues(c)), n)
  <2>2. a \in Int /\ a >= n
    <3> HIDE DEF n
    <3>1. Len(AllValues(c)) \in Int /\ n \in Int
      BY <1>1, <2>1
    <3>. QED BY <3>1, BoundsOfTwo
  <2>3. a \in Nat
    BY <1>1, <2>2
  <2> DEFINE q == a \div n
  <2>4. q \in Nat
    <3> HIDE DEF a, n
    <3>. QED BY <1>1, <2>3, DivMod
  <2>5. per = AtLeast(1, q)
    OBVIOUS
  <2> HIDE DEF q, per
  <2>6. q \in Int /\ 1 \in Int
    BY <2>4
  <2>7. per \in Int /\ per >= 1
    BY <2>5, <2>6, BoundsOfTwo
  <2>. QED BY <2>7
<1> HIDE DEF n, per, last
<1>3. ASSUME NEW i \in 1 .. n PROVE Keys(i) \subseteq Referenced(c)
  <2> DEFINE a == c.low + (i - 1) * per
             z == c.low + i * per - 1
  <2>1. a \in Int /\ c.low <= a /\ z \in Int
    <3>1. i - 1 \in Nat /\ i \in Nat
      BY <1>1
    <3>2. (i - 1) * per \in Nat /\ i * per \in Nat
      BY <1>2, <3>1
    <3> DEFINE d == (i - 1) * per
               e == i * per
    <3> HIDE DEF d, e
    <3>3. d \in Nat /\ e \in Nat
      BY <3>2 DEF d, e
    <3>4. c.low + d \in Int /\ c.low <= c.low + d /\ c.low + e - 1 \in Int
      BY <1>1, <3>3
    <3>. QED BY <3>4 DEF d, e
  <2> HIDE DEF a, z
  <2>2. /\ AtMost(a, last) \in {a, last} /\ AtMost(a, last) \in Int
        /\ AtMost(z, last) \in Int /\ AtMost(z, last) <= last
    BY <1>1, <2>1, BoundsOfTwo
  <2>3. c.low <= AtMost(a, last)
    BY <1>1, <2>1, <2>2
  <2> DEFINE x == AtMost(a, last)
             y == AtMost(z, last)
  <2> HIDE DEF x, y
  <2>4. x \in Int /\ y \in Int /\ c.low <= x /\ y <= last
    BY <2>2, <2>3 DEF x, y
  <2>5. x .. y \subseteq c.low .. last
    BY <1>1, <2>4
  <2>. QED BY <2>5 DEF x, y, a, z, Referenced, last
<1>4. EquiHeightColumn(c, h) = AnyOf(UNION {Keys(i) : i \in 1 .. n}, c.rows)
  BY DEF EquiHeightColumn, n, per, last
<1> HIDE DEF Keys
<1>5. UNION {Keys(i) : i \in 1 .. n} \subseteq Referenced(c)
  BY <1>3
<1>. QED BY <1>4, <1>5 DEF AnyOf

\* On every path, if the target has at least as many keys as the source uses.
LEMMA FkColumnIn ==
  ASSUME NEW c \in SourceColumns, NEW h \in Histograms(c), Distinct(c) \in 1 .. c.size
  PROVE  FkColumn(c, h) \in [1 .. c.rows -> SUBSET (Referenced(c) \cup Unknowns(c))]
<1> DEFINE K == Referenced(c) \cup Unknowns(c)
           Goal(f) == f \in [1 .. c.rows -> SUBSET K]
<1>1. /\ c.size \in Nat \ {0} /\ c.low \in Int /\ Distinct(c) \in Nat \ {0}
      /\ Distinct(c) <= c.size /\ c.estimate \in Nat \cup {None} /\ RefSize(c) = c.size
  <2>1. c.size \in Nat /\ c.low \in Int /\ c.estimate \in Nat \cup {None}
    BY ColumnFields
  <2>2. c.size \in Nat \ {0} /\ Distinct(c) \in Nat \ {0} /\ Distinct(c) <= c.size
    BY <2>1
  <2>. QED BY <2>1, <2>2 DEF RefSize, AtLeast
<1>2. ASSUME NEW n \in Nat, n <= c.size PROVE FirstKeys(c, n) \subseteq Referenced(c)
  BY <1>1, <1>2 DEF FirstKeys, Referenced
<1>3. ASSUME NEW n \in Nat, n <= c.size PROVE Goal(Turned(c, n))
  <2>1. Turned(c, n) \in [1 .. c.rows -> SUBSET FirstKeys(c, n)]
    BY TurnedIn
  <2>2. FirstKeys(c, n) \subseteq K
    BY <1>2, <1>3
  <2>. QED BY <2>1, <2>2
<1>4. FirstKeys(c, Distinct(c)) \cup Unknowns(c) \subseteq K
  BY <1>1, <1>2
<1>5. CASE Estimated(c)
  <2>1. c.estimate \in Nat
    BY <1>1, <1>5 DEF Estimated
  <2> DEFINE cycle == AtLeast(1, AtMost(c.estimate, RefSize(c)))
  <2>2. cycle \in Nat /\ cycle <= c.size
    BY <1>1, <2>1 DEF AtLeast, AtMost
  <2>3. FkColumn(c, h) = Turned(c, cycle)
    BY <1>5 DEF FkColumn, EstimatedColumn
  <2> HIDE DEF Goal, cycle
  <2>. QED BY <1>3, <2>2, <2>3 DEF Goal, K
<1>6. CASE ~ Estimated(c) /\ (ExactApplies(c) \/ FrequencyShapeApplies(c))
  <2>1. FkColumn(c, h) = RankedColumn(c)
    BY <1>6 DEF FkColumn
  <2>2. RankedColumn(c) \in
          [1 .. c.rows -> SUBSET (FirstKeys(c, Distinct(c)) \cup Unknowns(c))]
    BY <1>1, RankedColumnIn
  <2> HIDE DEF K
  <2>3. Goal(RankedColumn(c))
    BY <1>4, <2>2
  <2>. QED BY <2>1, <2>3 DEF K
<1>7. CASE ~ Estimated(c) /\ ~ (ExactApplies(c) \/ FrequencyShapeApplies(c))
  <2>1. FkColumn(c, h) =
          IF NearlyUnique(c) THEN CyclingColumn(c)
          ELSE IF SingletonApplies(c, h) THEN SingletonColumn(c, h)
          ELSE IF CoverageBelow(c, 20) /\ EquiHeightApplies(c, h) THEN EquiHeightColumn(c, h)
          ELSE IF CoverageBelow(c, 80) \/ Distinct(c) <= RefSize(c)
               THEN WrappedCyclingColumn(c)
          ELSE DenseColumn(c)
    BY <1>7 DEF FkColumn
  <2>2. Goal(CyclingColumn(c))
    <3> HIDE DEF Goal
    <3>1. Distinct(c) \in Nat
      BY <1>1
    <3>. QED BY <1>1, <1>3, <3>1 DEF CyclingColumn
  <2>3. SingletonApplies(c, h) => Goal(SingletonColumn(c, h))
    <3>1. SUFFICES ASSUME SingletonApplies(c, h) PROVE Goal(SingletonColumn(c, h))
      OBVIOUS
    <3>2. AreBuckets(h.buckets)
      BY <3>1, HistogramBuckets DEF SingletonApplies
    <3>3. SampledKeys(c, h) \subseteq K
      BY <1>1, <3>2, SampledKeysExist
    <3>4. SingletonColumn(c, h) \in [1 .. c.rows -> SUBSET SampledKeys(c, h)]
      BY <3>2, SingletonColumnIn
    <3> HIDE DEF K
    <3>. QED BY <3>3, <3>4
  <2>4. EquiHeightApplies(c, h) => Goal(EquiHeightColumn(c, h))
    <3>1. SUFFICES ASSUME EquiHeightApplies(c, h) PROVE Goal(EquiHeightColumn(c, h))
      OBVIOUS
    <3>2. AreBuckets(h.buckets)
      BY <3>1, HistogramBuckets DEF EquiHeightApplies
    <3>3. EquiHeightColumn(c, h) \in [1 .. c.rows -> SUBSET Referenced(c)]
      BY <1>1, <3>2, EquiHeightColumnIn
    <3>. QED BY <3>3
  <2>5. Goal(WrappedCyclingColumn(c))
    <3>1. WrappedCyclingColumn(c) \in
            [1 .. c.rows -> SUBSET (FirstKeys(c, Distinct(c)) \cup Unknowns(c))]
      BY WrappedCyclingColumnIn
    <3> HIDE DEF K
    <3>. QED BY <1>4, <3>1
  <2>6. Goal(DenseColumn(c))
    <3>1. DenseColumn(c) = AnyOf(Referenced(c), c.rows)
      BY <1>1 DEF DenseColumn
    <3>. QED BY <3>1 DEF AnyOf
  <2> HIDE DEF Goal
  <2>7. Goal(FkColumn(c, h))
    BY <2>1, <2>2, <2>3, <2>4, <2>5, <2>6
  <2>. QED BY <2>7 DEF Goal
<1>. QED BY <1>5, <1>6, <1>7

-----------------------------------------------------------------------------
(* A column on its way through the generation.                               *)

\* The values are those of the formula, for the histogram the column has.
ColumnsIInv ==
  /\ column \in Inputs /\ histogram \in Histograms(column)
  /\ pc \in {"analyze", "annotate", "generated"}
  /\ pc # "generated" => values = None
  /\ pc = "generated" => values = Formula(column, histogram)

\* ColumnsIInv is inductive: the initial states, and every action.
LEMMA ColumnsInit == Init => ColumnsIInv
BY DEF Init, ColumnsIInv, Histograms

\* ANALYZE TABLE gives the column one of its histograms, or none.
LEMMA AnalyzeKeeps == ColumnsIInv /\ Analyze => ColumnsIInv'
<1> SUFFICES ASSUME ColumnsIInv, Analyze PROVE ColumnsIInv'
  OBVIOUS
<1>1. column' = column /\ values' = values /\ pc = "analyze" /\ pc' = "annotate"
  BY DEF Analyze
<1>2. histogram' \in Histograms(column)
  BY DEF Analyze, Histograms
<1>3. histogram' \in Histograms(column')
  BY <1>1, <1>2
<1>. QED BY <1>1, <1>3 DEF ColumnsIInv

\* The engine evaluates the formula.
LEMMA GenerateKeeps == ColumnsIInv /\ Generate => ColumnsIInv'
<1> SUFFICES ASSUME ColumnsIInv, Generate PROVE ColumnsIInv'
  OBVIOUS
<1>1. /\ column' = column /\ histogram' = histogram /\ pc' = "generated"
      /\ values' = Formula(column, histogram)
  BY DEF Generate
<1>2. values' = Formula(column', histogram') /\ histogram' \in Histograms(column')
  BY <1>1 DEF ColumnsIInv
<1>. QED BY <1>1, <1>2 DEF ColumnsIInv

\* The validation and the queries change neither.
LEMMA OthersKeep ==
  ColumnsIInv /\ (Validate \/ RewriteQuery \/ UNCHANGED vars) => ColumnsIInv'
<1> SUFFICES ASSUME ColumnsIInv, Validate \/ RewriteQuery \/ UNCHANGED vars
             PROVE  ColumnsIInv'
  OBVIOUS
<1>1. column' = column /\ histogram' = histogram /\ values' = values /\ pc' = pc
  BY DEF Validate, RewriteQuery, vars
<1>2. /\ histogram' \in Histograms(column')
      /\ pc' = "generated" => values' = Formula(column', histogram')
  BY <1>1 DEF ColumnsIInv
<1>. QED BY <1>1, <1>2 DEF ColumnsIInv

\* In every state the values of a column are what its formula gives.
THEOREM ColumnsInvariance == Spec => []ColumnsIInv
<1>1. ColumnsIInv /\ [Next]_vars => ColumnsIInv'
  BY AnalyzeKeeps, GenerateKeeps, OthersKeep DEF Next
<1>. QED BY <1>1, ColumnsInit, PTL DEF Spec

\* On whichever path build_single_fk_expression goes, and for any number of
\* rows, a key it gives a row is one of the referenced table.
THEOREM FkValuesAlwaysExist == Spec => []FkValuesExist
<1>1. ColumnsIInv => FkValuesExist
  <2> SUFFICES ASSUME ColumnsIInv, column.kind = "fk", values # None,
                      Distinct(column) \in 1 .. column.size
               PROVE  UNION Range(values) \subseteq Referenced(column) \cup Unknowns(column)
    BY DEF FkValuesExist, Unknowns
  <2> DEFINE K == Referenced(column) \cup Unknowns(column)
  <2>1. /\ column \in SourceColumns /\ histogram \in Histograms(column)
        /\ values = Formula(column, histogram)
    BY InputsAssumption DEF ColumnsIInv
  <2>2. values = FkColumn(column, histogram)
    BY <2>1 DEF Formula
  <2>3. values \in [1 .. column.rows -> SUBSET K]
    BY <2>1, <2>2, FkColumnIn
  <2> HIDE DEF K
  <2>4. UNION Range(values) \subseteq K
    BY <2>3 DEF Range
  <2>. QED BY <2>4 DEF K
<1>. QED BY <1>1, ColumnsInvariance, PTL

-----------------------------------------------------------------------------
(* The distinct values of the buckets of an equi-height histogram.  Their    *)
(* counts are corrected step by step; the bound on the steps is never met    *)
(* with something left to correct.                                           *)

\* A sequence of n positive counts.
LEMMA CountsSequence ==
  ASSUME NEW n \in Nat, NEW s \in [1 .. n -> Nat \ {0}]
  PROVE  /\ s \in Seq(Nat \ {0}) /\ s \in Seq(Int) /\ Len(s) = n
         /\ SumOf(s) \in Nat /\ n <= SumOf(s)
<1> DEFINE P == Nat \ {0}
<1>1. s \in Seq(P) /\ Len(s) = n
  OBVIOUS
<1>2. s \in [1 .. n -> Int]
  OBVIOUS
<1>3. s \in Seq(Int)
  BY <1>2
<1>4. SumOf(s) \in Nat /\ Len(s) <= SumOf(s)
  BY <1>1, SumOfPositive
<1>. QED BY <1>1, <1>3, <1>4

\* One count more or less changes the sum by as much.
LEMMA CountChanged ==
  ASSUME NEW n \in Nat, NEW s \in [1 .. n -> Nat \ {0}], NEW t \in [1 .. n -> Nat \ {0}],
         NEW b \in 1 .. n, \A i \in 1 .. n : i # b => t[i] = s[i]
  PROVE  SumOf(t) = SumOf(s) + t[b] - s[b]
<1>1. s \in Seq(Int) /\ t \in Seq(Int) /\ Len(s) = n /\ Len(t) = n
  BY CountsSequence
<1>2. Len(s) = Len(t) /\ b \in 1 .. Len(s) /\ \A i \in 1 .. Len(s) : i # b => t[i] = s[i]
  BY <1>1
<1>. QED BY <1>1, <1>2, SumsChanged

\* What is to be corrected: a number or string column with an equi-height
\* histogram has more values than buckets.
ToCorrect(c, h) ==
  /\ c \in SourceColumns /\ c.kind # "fk"
  /\ AreBuckets(h.buckets) /\ Len(h.buckets) < Len(AllValues(c))

\* The exact count is above the number of buckets.
LEMMA ToCorrectFacts ==
  ASSUME NEW c, NEW h, ToCorrect(c, h)
  PROVE  /\ Distinct(c) \in Nat /\ Len(h.buckets) \in Nat \ {0}
         /\ Len(h.buckets) < Distinct(c) /\ Len(AllValues(c)) = Distinct(c)
<1>1. c \in SourceColumns /\ ~ (c.zero > 0)
  BY ColumnFields DEF ToCorrect
<1>2. Distinct(c) \in Nat /\ Len(AllValues(c)) = Distinct(c) + (IF c.zero > 0 THEN 1 ELSE 0)
  BY <1>1, CountsOf
<1>3. Len(AllValues(c)) = Distinct(c)
  BY <1>1, <1>2
<1>. QED BY <1>2, <1>3 DEF ToCorrect, AreBuckets

\* Counts of which only the open ones may be more than one.
NumberCounts(n, open) ==
  {s \in [1 .. n -> Nat \ {0}] : \A b \in (1 .. n) \ open : s[b] = 1}

\* One step: what is missing is added at once, what is too much goes one by one.
LEMMA NumberStepFacts ==
  ASSUME NEW c \in SourceColumns, NEW n \in Nat \ {0}, n < Distinct(c),
         NEW open \in SUBSET (1 .. n), open # {}, NEW s \in NumberCounts(n, open)
  PROVE  /\ NumberStep(c, open, s) \in NumberCounts(n, open)
         /\ SumOf(s) <= Distinct(c) => SumOf(NumberStep(c, open, s)) = Distinct(c)
         /\ SumOf(s) > Distinct(c) => SumOf(NumberStep(c, open, s)) = SumOf(s) - 1
<1> DEFINE b == Largest(s, open)
           D == Distinct(c)
           diff == D - SumOf(s)
<1>1. s \in [1 .. n -> Nat \ {0}] /\ \A i \in (1 .. n) \ open : s[i] = 1
  BY DEF NumberCounts
<1>2. b \in open /\ \A j \in open : s[j] <= s[b]
  <2>1. \A i \in 1 .. n : s[i] \in Int
    BY <1>1
  <2>. QED BY <2>1, LargestIs
<1>3. D \in Nat /\ SumOf(s) \in Nat /\ n <= SumOf(s) /\ diff \in Int
  <2>1. D \in Nat
    BY CountsOf
  <2>2. SumOf(s) \in Nat /\ n <= SumOf(s)
    BY <1>1, CountsSequence
  <2>. QED BY <2>1, <2>2
<1>4. NumberStep(c, open, s) =
        IF diff > 0 THEN [s EXCEPT ![b] = @ + diff]
        ELSE IF diff = 0 \/ s[b] = 1 THEN s
        ELSE [s EXCEPT ![b] = @ - 1]
  BY DEF NumberStep
<1>5. s[b] \in Nat \ {0} /\ b \in 1 .. n
  BY <1>1, <1>2
<1> HIDE DEF b, diff, D
<1>6. ASSUME NEW t \in [1 .. n -> Nat \ {0}], \A i \in 1 .. n : i # b => t[i] = s[i]
      PROVE  t \in NumberCounts(n, open)
  <2>1. \A i \in (1 .. n) \ open : t[i] = 1
    BY <1>1, <1>2, <1>6
  <2>. QED BY <2>1 DEF NumberCounts
<1>7. CASE diff > 0
  <2> DEFINE t == [s EXCEPT ![b] = @ + diff]
  <2>1. NumberStep(c, open, s) = t
    BY <1>4, <1>7
  <2>2. s[b] + diff \in Nat \ {0}
    BY <1>3, <1>5, <1>7
  <2>3. t \in [1 .. n -> Nat \ {0}] /\ t[b] = s[b] + diff
    BY <1>1, <1>5, <2>2
  <2>4. \A i \in 1 .. n : i # b => t[i] = s[i]
    BY <1>1
  <2> HIDE DEF t
  <2>7. SumOf(t) = SumOf(s) + diff
    <3>1. n \in Nat /\ s \in [1 .. n -> Nat \ {0}] /\ b \in 1 .. n /\ diff \in Int
      BY <1>1, <1>3, <1>5
    <3>2. t \in [1 .. n -> Nat \ {0}] /\ t[b] = s[b] + diff
      BY <2>3
    <3>3. SumOf(t) = SumOf(s) + t[b] - s[b]
      BY <2>4, <3>1, <3>2, CountChanged
    <3>. QED BY <1>3, <1>5, <3>2, <3>3
  <2>5. t \in NumberCounts(n, open)
    BY <1>6, <2>3, <2>4
  <2>6. SumOf(t) = D /\ ~ (SumOf(s) > D)
    BY <1>3, <1>7, <2>7 DEF diff
  <2>. QED BY <2>1, <2>5, <2>6 DEF D
<1>8. CASE diff = 0
  <2>1. NumberStep(c, open, s) = s
    BY <1>4, <1>8
  <2>2. SumOf(s) = D
    BY <1>3, <1>8 DEF diff
  <2>. QED BY <1>3, <2>1, <2>2 DEF D
<1>9. CASE diff < 0
  <2>1. SumOf(s) > D
    BY <1>3, <1>9 DEF diff
  <2>2. s[b] # 1
    <3> SUFFICES ASSUME s[b] = 1 PROVE FALSE
      OBVIOUS
    <3>1. ASSUME NEW i \in 1 .. n PROVE s[i] = 1
      <4>1. s[i] \in Nat \ {0}
        BY <1>1
      <4>2. i \in open => s[i] <= 1
        BY <1>2
      <4>. QED BY <1>1, <4>1, <4>2
    <3>2. s \in Seq(Int) /\ Len(s) = n
      BY <1>1, CountsSequence
    <3>3. SumOf(s) = n
      BY <3>1, <3>2, SumOfOnes
    <3>. QED BY <1>3, <2>1, <3>3 DEF D
  <2> DEFINE t == [s EXCEPT ![b] = @ - 1]
  <2>3. NumberStep(c, open, s) = t
    BY <1>3, <1>4, <1>9, <2>2
  <2>4. t \in [1 .. n -> Nat \ {0}] /\ t[b] = s[b] + (-1) /\ -1 \in Int
    <3>1. s[b] - 1 \in Nat \ {0} /\ s[b] - 1 = s[b] + (-1)
      BY <1>5, <2>2
    <3>2. t \in [1 .. n -> Nat \ {0}] /\ t[b] = s[b] - 1
      BY <1>1, <1>5, <3>1
    <3>. QED BY <3>1, <3>2
  <2>5. \A i \in 1 .. n : i # b => t[i] = s[i]
    BY <1>1
  <2> HIDE DEF t
  <2>6. SumOf(t) = SumOf(s) + (-1)
    <3> DEFINE d == -1
    <3>1. n \in Nat /\ s \in [1 .. n -> Nat \ {0}] /\ b \in 1 .. n
      BY <1>1, <1>5
    <3>2. t \in [1 .. n -> Nat \ {0}] /\ t[b] = s[b] + d /\ d \in Int
      BY <2>4
    <3> HIDE DEF d
    <3>3. SumOf(t) = SumOf(s) + t[b] - s[b]
      BY <2>5, <3>1, <3>2, CountChanged
    <3>4. SumOf(t) = SumOf(s) + d
      BY <1>3, <1>5, <3>2, <3>3
    <3>. QED BY <3>4 DEF d
  <2>7. t \in NumberCounts(n, open)
    BY <1>6, <2>4, <2>5
  <2>8. SumOf(t) = SumOf(s) - 1 /\ ~ (SumOf(s) <= D)
    BY <1>3, <2>1, <2>6
  <2>. QED BY <2>3, <2>7, <2>8 DEF D
<1>10. diff > 0 \/ diff = 0 \/ diff < 0
  BY <1>3
<1>. QED BY <1>7, <1>8, <1>9, <1>10

\* The scaled counts, from which the correction starts.
LEMMA ScaledNumbersFacts ==
  ASSUME NEW c, NEW h, ToCorrect(c, h)
  PROVE  /\ ScaledNumbers(c, h) \in NumberCounts(Len(h.buckets), OpenBuckets(h))
         /\ OpenBuckets(h) \in SUBSET (1 .. Len(h.buckets)) /\ OpenBuckets(h) # {}
<1> DEFINE n == Len(h.buckets)
           raw == DistinctsOf(h)
           single == SingleBuckets(h)
           wanted == AtLeast(0, Distinct(c) - Cardinality(single))
           total == SumOf(raw) - Cardinality(single)
           open == OpenBuckets(h)
           Scaled(b) == IF b \in single THEN raw[b]
                        ELSE AtLeast(1, RoundDiv(raw[b] * wanted, total))
<1>1. AreBuckets(h.buckets)
  BY DEF ToCorrect
<1>2. /\ n \in Nat \ {0} /\ DOMAIN h.buckets = 1 .. n /\ Distinct(c) \in Nat
      /\ raw \in Seq(Nat \ {0}) /\ Len(raw) = n /\ SumOf(raw) \in Nat /\ n <= SumOf(raw)
  <2>1. /\ n \in Nat \ {0} /\ DOMAIN h.buckets = 1 .. n
        /\ raw \in Seq(Nat \ {0}) /\ Len(raw) = n
    BY <1>1, BucketRows
  <2>2. SumOf(raw) \in Nat /\ n <= SumOf(raw)
    <3> HIDE DEF raw
    <3>. QED BY <2>1, SumOfPositive
  <2>. QED BY <2>1, <2>2, ToCorrectFacts
<1>3. single \in SUBSET (1 .. n)
  BY <1>2 DEF SingleBuckets
<1>4. open \in SUBSET (1 .. n) /\ open # {} /\ \A b \in (1 .. n) \ open : b \in single
  <2>1. open = IF (1 .. n) \ single = {} THEN 1 .. n ELSE (1 .. n) \ single
    BY <1>2 DEF OpenBuckets
  <2>2. 1 \in 1 .. n
    BY <1>2
  <2> HIDE DEF single, open
  <2>. QED BY <2>1, <2>2
<1>5. \A b \in single : raw[b] = 1
  <2> TAKE b \in single
  <2>1. b \in 1 .. n /\ h.buckets[b].values = 1
    BY <1>2 DEF SingleBuckets
  <2>2. raw[b] = h.buckets[b].distinct
    BY <1>2, <2>1 DEF DistinctsOf
  <2>3. h.buckets[b].distinct = 1
    BY <1>1, <2>1 DEF AreBuckets
  <2>. QED BY <2>2, <2>3
<1>6. IsFiniteSet(1 .. n) /\ Cardinality(1 .. n) = n
  <2> HIDE DEF n
  <2>1. n \in Int /\ 1 \in Int /\ ~ (1 > n) /\ n - 1 + 1 = n
    BY <1>2
  <2>. QED BY <2>1, FS_Interval
<1>7. IsFiniteSet(single) /\ Cardinality(single) \in Nat
  BY <1>3, <1>6, FS_Subset, FS_CardinalityType
<1>8. ASSUME NEW b \in 1 .. n PROVE Scaled(b) \in Nat \ {0}
  <2>1. raw[b] \in Nat \ {0}
    <3> HIDE DEF raw
    <3>. QED BY <1>2
  <2>2. CASE b \in single
    BY <2>1, <2>2
  <2>3. CASE b \notin single
    <3>1. Cardinality(single) < n
      <4>1. single # 1 .. n
        BY <2>3
      <4>2. Cardinality(single) <= n /\ (Cardinality(single) = n => single = 1 .. n)
        <5> HIDE DEF single
        <5>. QED BY <1>3, <1>6, FS_Subset
      <4>. QED BY <1>2, <1>7, <4>1, <4>2
    <3>2. total \in Nat \ {0}
      <4> DEFINE x == Cardinality(single)
                 y == SumOf(raw)
      <4> HIDE DEF x, y, n
      <4>1. x \in Nat /\ y \in Nat /\ n \in Nat /\ n <= y /\ x < n
        BY <1>2, <1>7, <3>1 DEF x, y
      <4>2. y - x \in Nat \ {0}
        BY <4>1
      <4>. QED BY <4>2 DEF x, y
    <3>3. wanted \in Nat
      <4> DEFINE x == Distinct(c) - Cardinality(single)
      <4>1. x \in Int /\ 0 \in Int
        BY <1>2, <1>7
      <4> HIDE DEF x
      <4>2. AtLeast(0, x) \in Int /\ AtLeast(0, x) >= 0
        BY <4>1, BoundsOfTwo
      <4>3. AtLeast(0, x) \in Nat
        BY <4>2
      <4>. QED BY <4>3 DEF x
    <3>4. Scaled(b) = AtLeast(1, RoundDiv(raw[b] * wanted, total))
      BY <2>3
    <3> DEFINE a == raw[b]
    <3> HIDE DEF wanted, total, a, Scaled
    <3>5. a * wanted \in Nat
      BY <2>1, <3>3 DEF a
    <3>6. RoundDiv(a * wanted, total) \in Nat
      BY <3>2, <3>5, RoundDivNat
    <3> DEFINE q == RoundDiv(a * wanted, total)
    <3>7. Scaled(b) = AtLeast(1, q)
      BY <3>4 DEF a
    <3> HIDE DEF q
    <3>8. q \in Int /\ 1 \in Int
      BY <3>6 DEF q
    <3>9. AtLeast(1, q) \in Int /\ AtLeast(1, q) >= 1
      BY <3>8, BoundsOfTwo
    <3>. QED BY <3>7, <3>9
  <2>. QED BY <2>2, <2>3
<1>9. ScaledNumbers(c, h) = [b \in 1 .. n |-> Scaled(b)]
  <2>1. DOMAIN raw = 1 .. n
    <3> HIDE DEF raw
    <3>. QED BY <1>2
  <2>. QED BY <2>1 DEF ScaledNumbers
<1>10. \A b \in (1 .. n) \ open : Scaled(b) = 1
  BY <1>4, <1>5
<1> HIDE DEF Scaled, open, n
<1>11. ScaledNumbers(c, h) \in NumberCounts(n, open)
  <2>1. ScaledNumbers(c, h) \in [1 .. n -> Nat \ {0}]
    BY <1>8, <1>9
  <2>2. \A b \in (1 .. n) \ open : ScaledNumbers(c, h)[b] = 1
    BY <1>9, <1>10
  <2>. QED BY <2>1, <2>2 DEF NumberCounts
<1>. QED BY <1>4, <1>11 DEF n, open

\* The correction ends with the number of values of the source.
LEMMA NumberDistinctsShared ==
  ASSUME NEW c, NEW h, ToCorrect(c, h)
  PROVE  /\ NumberDistincts(c, h) \in [1 .. Len(h.buckets) -> Nat \ {0}]
         /\ SumOf(NumberDistincts(c, h)) = Distinct(c)
<1> DEFINE n == Len(h.buckets)
           D == Distinct(c)
           open == OpenBuckets(h)
           V == NumberCounts(n, open)
           scaled == ScaledNumbers(c, h)
           N == SumOf(scaled)
           Body(f, k) == IF k = 0 THEN scaled ELSE NumberStep(c, open, f[k - 1])
           g == [j \in 1 .. N |-> [s \in V |-> NumberStep(c, open, s)]]
<1>1. /\ c \in SourceColumns /\ n \in Nat \ {0} /\ D \in Nat /\ n < D
      /\ scaled \in V /\ open \in SUBSET (1 .. n) /\ open # {}
  BY ToCorrectFacts, ScaledNumbersFacts DEF ToCorrect
<1>2. \A s \in V : s \in [1 .. n -> Nat \ {0}] /\ SumOf(s) \in Nat /\ n <= SumOf(s)
  <2> TAKE s \in V
  <2>1. s \in [1 .. n -> Nat \ {0}] /\ n \in Nat
    BY <1>1 DEF NumberCounts
  <2> HIDE DEF n
  <2>. QED BY <2>1, CountsSequence
<1>3. N \in Nat \ {0}
  <2>1. N \in Nat /\ n <= N
    BY <1>1, <1>2
  <2> HIDE DEF N, n
  <2>. QED BY <1>1, <2>1
<1>4. ASSUME NEW s \in V
      PROVE  /\ NumberStep(c, open, s) \in V
             /\ SumOf(s) <= D => SumOf(NumberStep(c, open, s)) = D
             /\ SumOf(s) > D => SumOf(NumberStep(c, open, s)) = SumOf(s) - 1
  BY <1>1, NumberStepFacts
<1>5. NumberDistincts(c, h) = (CHOOSE f : f = [k \in 0 .. N |-> Body(f, k)])[N]
  BY DEF NumberDistincts
<1> HIDE DEF n, D, open, V, scaled, N
<1>6. g \in [1 .. N -> [V -> V]]
  BY <1>4
<1>7. PICK e : e \in [0 .. N -> V] /\ e[0] = scaled /\ \A j \in 1 .. N : e[j] = g[j][e[j - 1]]
  <2> HIDE DEF g
  <2>0. N \in Nat
    BY <1>3
  <2>1. /\ StepsOf(N, V, scaled, g) \in [0 .. N -> V]
        /\ StepsOf(N, V, scaled, g)[0] = scaled
        /\ \A j \in 1 .. N : StepsOf(N, V, scaled, g)[j] =
                              g[j][StepsOf(N, V, scaled, g)[j - 1]]
    BY <1>1, <1>6, <2>0, StepsTaken
  <2>. QED BY <2>1
<1>8. \A j \in 1 .. N : j \in 0 .. N /\ j - 1 \in 0 .. N /\ j # 0
  BY <1>3
<1>9. \A j \in 1 .. N : e[j] = NumberStep(c, open, e[j - 1])
  <2> TAKE j \in 1 .. N
  <2>1. e[j - 1] \in V
    BY <1>7, <1>8
  <2>2. e[j] = g[j][e[j - 1]]
    BY <1>7
  <2>. QED BY <2>1, <2>2
<1> HIDE DEF g
<1>10. e = [k \in 0 .. N |-> Body(e, k)]
  <2>1. ASSUME NEW k \in 0 .. N PROVE e[k] = Body(e, k)
    <3>1. CASE k = 0
      BY <1>7, <3>1
    <3>2. CASE k # 0
      <4>1. k \in 1 .. N
        BY <1>3, <3>2
      <4>. QED BY <1>9, <3>2, <4>1
    <3>. QED BY <3>1, <3>2
  <2> HIDE DEF Body
  <2>. QED BY <1>7, <2>1
<1> DEFINE a == CHOOSE f : f = [k \in 0 .. N |-> Body(f, k)]
<1>11. a = [k \in 0 .. N |-> Body(a, k)]
  <2> HIDE DEF Body
  <2>. QED BY <1>10
<1> HIDE DEF a
<1>12. a[0] = scaled /\ \A k \in 1 .. N : a[k] = NumberStep(c, open, a[k - 1])
  <2>1. \A k \in 0 .. N : a[k] = Body(a, k)
    <3> HIDE DEF Body
    <3>. QED BY <1>11
  <2>2. 0 \in 0 .. N
    BY <1>3
  <2>. QED BY <1>8, <2>1, <2>2
<1> DEFINE Q(k) == /\ a[k] \in V
                   /\ k # 0 => SumOf(a[k]) >= D
                   /\ SumOf(a[k]) > D => SumOf(a[k]) <= N - k
           S == {k \in 0 .. N : Q(k)}
<1>13. 0 \in S
  <2>1. a[0] \in V /\ SumOf(a[0]) <= N - 0 /\ 0 \in 0 .. N
    <3>1. SumOf(a[0]) = N
      BY <1>12 DEF N
    <3>. QED BY <1>1, <1>3, <1>12, <3>1
  <2>. QED BY <2>1
<1>14. ASSUME NEW k \in 1 .. N, k - 1 \in S PROVE k \in S
  <2> DEFINE s == a[k - 1]
             t == a[k]
  <2>1. s \in V /\ (SumOf(s) > D => SumOf(s) <= N - (k - 1))
    <3>1. Q(k - 1)
      <4> HIDE DEF Q
      <4>. QED BY <1>14
    <3>. QED BY <3>1
  <2>2. t = NumberStep(c, open, s)
    BY <1>12
  <2> HIDE DEF s, t
  <2>3. /\ t \in V
        /\ SumOf(s) <= D => SumOf(t) = D
        /\ SumOf(s) > D => SumOf(t) = SumOf(s) - 1
    BY <1>4, <2>1, <2>2
  <2>4. SumOf(s) \in Nat /\ SumOf(t) \in Nat
    BY <1>2, <2>1, <2>3
  <2>5. SumOf(t) >= D /\ (SumOf(t) > D => SumOf(t) <= N - k)
    <3>1. CASE SumOf(s) <= D
      BY <1>1, <2>3, <2>4, <3>1
    <3>2. CASE ~ (SumOf(s) <= D)
      BY <1>1, <1>3, <2>1, <2>3, <2>4, <3>2
    <3>. QED BY <3>1, <3>2
  <2>6. k \in 0 .. N
    BY <1>8
  <2>. QED BY <2>3, <2>5, <2>6 DEF t
<1>15. 0 .. N \subseteq S
  <2>1. N \in Nat
    BY <1>3
  <2> HIDE DEF S
  <2>. QED BY <1>13, <1>14, <2>1, UpFromZero
<1>16. a[N] \in V /\ SumOf(a[N]) >= D /\ (SumOf(a[N]) > D => SumOf(a[N]) <= N - N)
  <2>1. N \in 0 .. N /\ N # 0
    BY <1>3
  <2>2. Q(N)
    <3> HIDE DEF Q
    <3>. QED BY <1>15, <2>1
  <2>. QED BY <2>1, <2>2
<1>17. SumOf(a[N]) = D /\ a[N] \in [1 .. n -> Nat \ {0}]
  <2>1. SumOf(a[N]) \in Nat /\ n <= SumOf(a[N]) /\ a[N] \in [1 .. n -> Nat \ {0}]
    BY <1>2, <1>16
  <2>2. ~ (SumOf(a[N]) > D)
    BY <1>1, <1>3, <1>16, <2>1
  <2>. QED BY <1>1, <1>16, <2>1, <2>2
<1>18. NumberDistincts(c, h) = a[N]
  <2> HIDE DEF Body
  <2>. QED BY <1>5 DEF a
<1>. QED BY <1>17, <1>18 DEF n, D

\* Where the correction of a string column stands.
StringStates(n) == [counts : [1 .. n -> Nat \ {0}], diff : Int, at : 1 .. n]
Before(n, at) == IF at = 1 THEN n ELSE at - 1

\* The j buckets that came last, going back from the one whose turn it is.
Visited(n, at, j) == {p \in 1 .. n : (at < p /\ p <= at + j) \/ p <= at + j - n}

\* The round: after n steps every bucket has had its turn.
LEMMA VisitedNext ==
  ASSUME NEW n \in Nat \ {0}, NEW at \in 1 .. n, NEW j \in 0 .. n - 1
  PROVE  /\ Before(n, at) \in 1 .. n
         /\ Visited(n, at, 0) = {} /\ Visited(n, at, n) = 1 .. n
         /\ Visited(n, Before(n, at), j + 1) = Visited(n, at, j) \cup {at}
<1> DEFINE x == Before(n, at)
<1>1. x \in 1 .. n /\ (x = IF at = 1 THEN n ELSE at - 1)
  BY DEF Before
<1>2. Visited(n, at, 0) = {} /\ Visited(n, at, n) = 1 .. n
  BY DEF Visited
<1> HIDE DEF x
<1>3. ASSUME NEW p \in 1 .. n
      PROVE  ((x < p /\ p <= x + (j + 1)) \/ p <= x + (j + 1) - n)
               <=> ((at < p /\ p <= at + j) \/ p <= at + j - n \/ p = at)
  <2>1. CASE at = 1
    BY <1>1, <2>1
  <2>2. CASE at # 1
    <3>1. x = at - 1
      BY <1>1, <2>2
    <3>. QED BY <3>1
  <2>. QED BY <2>1, <2>2
<1>4. Visited(n, x, j + 1) = Visited(n, at, j) \cup {at}
  BY <1>3 DEF Visited
<1>. QED BY <1>1, <1>2, <1>4 DEF x

\* One step changes the bucket whose turn it is by one, or not at all.
LEMMA StringStepIs ==
  ASSUME NEW n \in Nat \ {0}, NEW s \in StringStates(n), s.diff # 0
  PROVE  \E change \in {1, -1, 0} :
           /\ StringStep(s) \in StringStates(n)
           /\ StringStep(s).at = Before(n, s.at)
           /\ StringStep(s).diff = s.diff - change
           /\ SumOf(StringStep(s).counts) = SumOf(s.counts) + change
           /\ \A p \in 1 .. n : p # s.at => StringStep(s).counts[p] = s.counts[p]
           /\ StringStep(s).counts[s.at] = s.counts[s.at] + change
           /\ s.diff > 0 => change = 1
           /\ s.diff < 0 => change = IF s.counts[s.at] > 1 THEN -1 ELSE 0
<1> DEFINE change == IF s.diff > 0 THEN 1 ELSE IF s.counts[s.at] > 1 THEN -1 ELSE 0
           counts == s.counts
           at == s.at
           t == [counts EXCEPT ![at] = @ + change]
<1>1. counts \in [1 .. n -> Nat \ {0}] /\ s.diff \in Int /\ at \in 1 .. n
  BY DEF StringStates
<1>2. Len(counts) = n
  <2> HIDE DEF counts
  <2>1. n \in Nat
    OBVIOUS
  <2>. QED BY <1>1, <2>1, CountsSequence
<1>3. StringStep(s) = [counts |-> t, diff |-> s.diff - change, at |-> Before(n, at)]
  BY <1>2 DEF StringStep, Before
<1>4. /\ change \in {1, -1, 0}
      /\ s.diff > 0 => change = 1
      /\ s.diff < 0 => change = IF s.counts[s.at] > 1 THEN -1 ELSE 0
  BY <1>1
<1>5. counts[at] + change \in Nat \ {0}
  <2>1. counts[at] \in Nat \ {0}
    <3> HIDE DEF counts, at
    <3>. QED BY <1>1
  <2>2. change = -1 => counts[at] > 1
    OBVIOUS
  <2> HIDE DEF counts, at, change
  <2>3. CASE change = -1
    BY <2>1, <2>2, <2>3
  <2>4. CASE change = 0 \/ change = 1
    BY <2>1, <2>4
  <2>. QED BY <1>4, <2>3, <2>4
<1>6. Before(n, at) \in 1 .. n
  BY <1>1 DEF Before
<1> HIDE DEF change, counts, at
<1>7. /\ t \in [1 .. n -> Nat \ {0}] /\ t[at] = counts[at] + change
      /\ \A p \in 1 .. n : p # at => t[p] = counts[p]
  BY <1>1, <1>5
<1> HIDE DEF t
<1>8. SumOf(t) = SumOf(counts) + change
  <2>1. n \in Nat
    OBVIOUS
  <2>2. SumOf(t) = SumOf(counts) + t[at] - counts[at]
    BY <1>1, <1>7, <2>1, CountChanged
  <2>3. SumOf(counts) \in Nat
    BY <1>1, <2>1, CountsSequence
  <2>4. counts[at] \in Nat
    BY <1>1
  <2>5. change \in Int
    BY <1>4
  <2>. QED BY <1>7, <2>2, <2>3, <2>4, <2>5
<1>9. s.diff - change \in Int
  BY <1>1, <1>4
<1>10. StringStep(s) \in StringStates(n)
  BY <1>3, <1>6, <1>7, <1>9 DEF StringStates
<1>. QED BY <1>3, <1>4, <1>7, <1>8, <1>10 DEF counts, at

\* A round in which no bucket gives up a value is not completed: its buckets
\* would have one value each, which are fewer than those of the source.
Corrected(n, D, most, s, k) ==
  /\ s \in StringStates(n) /\ s.diff = D - SumOf(s.counts)
  /\ s.diff > 0 => k <= SumOf(s.counts)
  /\ s.diff < 0 => \E j \in 0 .. n - 1 :
                     /\ k <= n * (most - SumOf(s.counts)) + j
                     /\ \A p \in Visited(n, s.at, j) : s.counts[p] = 1

\* One step keeps what is known of the correction.
LEMMA StringStepCorrects ==
  ASSUME NEW n \in Nat \ {0}, NEW D \in Nat, n < D, NEW most \in Nat, NEW k \in Nat,
         NEW s, Corrected(n, D, most, s, k)
  PROVE  Corrected(n, D, most, StringStep(s), k + 1)
<1> DEFINE t == StringStep(s)
           x == SumOf(s.counts)
           y == SumOf(t.counts)
<1>1. s \in StringStates(n) /\ s.diff = D - x
  BY DEF Corrected
<1>2. /\ s.counts \in [1 .. n -> Nat \ {0}] /\ s.at \in 1 .. n /\ s.diff \in Int
      /\ x \in Nat /\ n <= x
  <2>1. s.counts \in [1 .. n -> Nat \ {0}] /\ s.at \in 1 .. n /\ s.diff \in Int /\ n \in Nat
    BY <1>1 DEF StringStates
  <2>. QED BY <2>1, CountsSequence
<1>A. ASSUME NEW z \in StringStates(n), z.diff = D - SumOf(z.counts),
             z.diff > 0 => k + 1 <= SumOf(z.counts),
             z.diff < 0 => \E j \in 0 .. n - 1 :
                             /\ k + 1 <= n * (most - SumOf(z.counts)) + j
                             /\ \A p \in Visited(n, z.at, j) : z.counts[p] = 1
      PROVE  Corrected(n, D, most, z, k + 1)
  <2>1. z \in StringStates(n)
    OBVIOUS
  <2>. QED BY <1>A, <2>1 DEF Corrected
<1>3. CASE s.diff = 0
  <2>1. t = s
    BY <1>3 DEF StringStep
  <2>. QED BY <1>1, <1>3, <2>1 DEF Corrected
<1>4. CASE s.diff # 0
  <2>1. PICK change \in {1, -1, 0} :
           /\ t \in StringStates(n)
           /\ t.at = Before(n, s.at)
           /\ t.diff = s.diff - change
           /\ y = x + change
           /\ \A p \in 1 .. n : p # s.at => t.counts[p] = s.counts[p]
           /\ t.counts[s.at] = s.counts[s.at] + change
           /\ s.diff > 0 => change = 1
           /\ s.diff < 0 => change = IF s.counts[s.at] > 1 THEN -1 ELSE 0
    BY <1>1, <1>4, StringStepIs
  <2> HIDE DEF t, x, y
  <2>2. t \in StringStates(n) /\ t.diff = D - y /\ y \in Int
    BY <1>1, <1>2, <2>1
  <2>3. CASE s.diff > 0
    <3>1. k <= x
      BY <2>3 DEF Corrected, x
    <3>2. k + 1 <= y /\ ~ (t.diff < 0)
      BY <1>1, <1>2, <2>1, <2>3, <3>1
    <3>. QED BY <1>A, <2>2, <3>2 DEF t, y
  <2>4. CASE s.diff < 0
    <3>1. PICK j \in 0 .. n - 1 : /\ k <= n * (most - x) + j
                                  /\ \A p \in Visited(n, s.at, j) : s.counts[p] = 1
      BY <2>4 DEF Corrected, x
    <3>2. ~ (t.diff > 0)
      BY <1>1, <1>2, <2>1, <2>4
    <3>3. CASE s.counts[s.at] > 1
      <4>1. change = -1
        BY <2>1, <2>4, <3>3
      <4>2. y = x - 1
        BY <1>2, <2>1, <4>1
      <4>3. n * (most - y) = n * (most - x) + n /\ n * (most - x) \in Int
        <5> DEFINE e == most - x
        <5>1. e \in Int /\ most - y = e + 1
          BY <1>2, <4>2
        <5> HIDE DEF e
        <5>2. n * (e + 1) = n * e + n /\ n * e \in Int
          BY <5>1
        <5>. QED BY <5>1, <5>2 DEF e
      <4>4. k + 1 <= n * (most - y) + 0
        <5> DEFINE a == n * (most - x)
                   b == n * (most - y)
        <5> HIDE DEF a, b
        <5>1. a \in Int /\ b = a + n /\ k <= a + j
          BY <3>1, <4>3 DEF a, b
        <5>2. k + 1 <= b + 0
          BY <5>1
        <5>. QED BY <5>2 DEF b
      <4>5. t.at \in 1 .. n
        BY <2>2 DEF StringStates
      <4>6. 0 \in 0 .. n - 1
        OBVIOUS
      <4>7. Visited(n, t.at, 0) = {}
        BY <4>5, <4>6, VisitedNext
      <4>8. /\ k + 1 <= n * (most - y) + 0
            /\ \A p \in Visited(n, t.at, 0) : t.counts[p] = 1
        BY <4>4, <4>7
      <4>9. \E i \in 0 .. n - 1 : /\ k + 1 <= n * (most - y) + i
                                  /\ \A p \in Visited(n, t.at, i) : t.counts[p] = 1
        BY <4>6, <4>8
      <4>. QED BY <1>A, <2>2, <3>2, <4>9 DEF t, y
    <3>4. CASE ~ (s.counts[s.at] > 1)
      <4>1. change = 0
        BY <2>1, <2>4, <3>4
      <4>2. y = x
        BY <1>2, <2>1, <4>1
      <4>3. s.counts[s.at] = 1 /\ t.counts[s.at] = 1
        <5>1. s.counts[s.at] \in Nat \ {0}
          BY <1>2
        <5>2. s.counts[s.at] = 1
          BY <3>4, <5>1
        <5>. QED BY <2>1, <4>1, <5>2
      <4>4. Visited(n, t.at, j + 1) = Visited(n, s.at, j) \cup {s.at}
        <5>1. s.at \in 1 .. n /\ j \in 0 .. n - 1
          BY <1>2
        <5>2. Visited(n, Before(n, s.at), j + 1) = Visited(n, s.at, j) \cup {s.at}
          BY <5>1, VisitedNext
        <5>. QED BY <2>1, <5>2
      <4>5. \A p \in Visited(n, t.at, j + 1) : t.counts[p] = 1
        <5> TAKE p \in Visited(n, t.at, j + 1)
        <5>1. p \in 1 .. n
          BY DEF Visited
        <5>2. CASE p = s.at
          BY <4>3, <5>2
        <5>3. CASE p # s.at
          <6>1. p \in Visited(n, s.at, j)
            BY <4>4, <5>3
          <6>. QED BY <2>1, <3>1, <5>1, <5>3, <6>1
        <5>. QED BY <5>2, <5>3
      <4>6. j # n - 1
        <5> SUFFICES ASSUME j = n - 1 PROVE FALSE
          OBVIOUS
        <5>1. t.at \in 1 .. n /\ t.counts \in [1 .. n -> Nat \ {0}] /\ n \in Nat
          BY <2>2 DEF StringStates
        <5>2. j + 1 = n
          OBVIOUS
        <5>3. Visited(n, t.at, n) = 1 .. n
          <6>1. 0 \in 0 .. n - 1
            OBVIOUS
          <6>. QED BY <5>1, <6>1, VisitedNext
        <5>4. \A p \in 1 .. n : t.counts[p] = 1
          BY <4>5, <5>2, <5>3
        <5>5. t.counts \in Seq(Int) /\ Len(t.counts) = n
          BY <5>1, CountsSequence
        <5>6. y = n
          BY <5>4, <5>5, SumOfOnes DEF y
        <5>. QED BY <1>1, <1>2, <2>4, <4>2, <5>6
      <4>7. j + 1 \in 0 .. n - 1 /\ k + 1 <= n * (most - y) + (j + 1)
        <5> DEFINE a == n * (most - x)
        <5>1. a \in Int
          <6>1. most - x \in Int
            BY <1>2
          <6>. QED BY <6>1
        <5> HIDE DEF a
        <5>2. k <= a + j /\ j \in 0 .. n - 1
          BY <3>1 DEF a
        <5>3. k + 1 <= a + (j + 1)
          BY <5>1, <5>2
        <5>4. j + 1 \in 0 .. n - 1
          BY <4>6
        <5>. QED BY <4>2, <5>3, <5>4 DEF a
      <4>8. \E i \in 0 .. n - 1 : /\ k + 1 <= n * (most - y) + i
                                  /\ \A p \in Visited(n, t.at, i) : t.counts[p] = 1
        BY <4>5, <4>7
      <4>. QED BY <1>A, <2>2, <3>2, <4>8 DEF t, y
    <3>. QED BY <3>3, <3>4
  <2>. QED BY <1>2, <1>4, <2>3, <2>4
<1>. QED BY <1>3, <1>4

\* At the start no bucket has had its turn.
LEMMA CorrectionStarts ==
  ASSUME NEW n \in Nat \ {0}, NEW D \in Nat, NEW counts \in [1 .. n -> Nat \ {0}]
  PROVE  Corrected(n, D, SumOf(counts),
                   [counts |-> counts, diff |-> D - SumOf(counts), at |-> n], 0)
<1> DEFINE s == [counts |-> counts, diff |-> D - SumOf(counts), at |-> n]
           x == SumOf(counts)
<1>1. x \in Nat /\ n \in Nat
  BY CountsSequence
<1>2. n \in 1 .. n /\ 0 \in 0 .. n - 1
  OBVIOUS
<1>3. s \in StringStates(n) /\ s.diff = D - x /\ s.counts = counts /\ s.at = n
  <2>1. D - x \in Int
    BY <1>1
  <2>. QED BY <1>2, <2>1 DEF StringStates
<1>4. Visited(n, n, 0) = {}
  BY <1>2, VisitedNext
<1>5. n * (x - x) + 0 = 0
  <2>1. x - x = 0
    BY <1>1
  <2> HIDE DEF x
  <2>. QED BY <2>1
<1> HIDE DEF s
<1>6. \E j \in 0 .. n - 1 : /\ 0 <= n * (x - SumOf(s.counts)) + j
                            /\ \A p \in Visited(n, s.at, j) : s.counts[p] = 1
  <2>1. /\ 0 <= n * (x - SumOf(s.counts)) + 0
        /\ \A p \in Visited(n, s.at, 0) : s.counts[p] = 1
    BY <1>3, <1>4, <1>5
  <2>. QED BY <1>2, <2>1
<1>7. s.diff > 0 => 0 <= SumOf(s.counts)
  BY <1>1, <1>3
<1>8. Corrected(n, D, x, s, 0)
  BY <1>3, <1>6, <1>7 DEF Corrected
<1>. QED BY <1>8 DEF s

\* After StringSteps steps nothing is left to correct.
LEMMA CorrectionEnds ==
  ASSUME NEW n \in Nat \ {0}, NEW D \in Nat, n < D, NEW most \in Nat,
         NEW s, Corrected(n, D, most, s, n * (D + most))
  PROVE  s.counts \in [1 .. n -> Nat \ {0}] /\ SumOf(s.counts) = D
<1> DEFINE x == SumOf(s.counts)
           N == n * (D + most)
<1>1. s.counts \in [1 .. n -> Nat \ {0}] /\ s.diff = D - x
  BY DEF Corrected, StringStates
<1>2. x \in Nat
  <2>1. n \in Nat
    OBVIOUS
  <2>. QED BY <1>1, <2>1, CountsSequence
<1>3. ~ (s.diff > 0)
  <2> SUFFICES ASSUME s.diff > 0 PROVE FALSE
    OBVIOUS
  <2>1. N <= x
    BY DEF Corrected
  <2>2. N >= D + most
    <3> DEFINE e == D + most
    <3>1. e \in Nat /\ 1 \in Nat /\ n \in Nat /\ 1 <= n
      OBVIOUS
    <3> HIDE DEF e
    <3>2. 1 * e <= n * e
      BY <3>1, ProductMonotone
    <3>3. 1 * e = e
      BY <3>1
    <3>4. n * e >= e
      <4>1. n * e \in Nat
        BY <3>1
      <4>. QED BY <3>1, <3>2, <3>3, <4>1
    <3>. QED BY <3>4 DEF e
  <2>3. N \in Nat
    OBVIOUS
  <2> HIDE DEF N, x
  <2>. QED BY <1>1, <1>2, <2>1, <2>2, <2>3
<1>4. ~ (s.diff < 0)
  <2> SUFFICES ASSUME s.diff < 0 PROVE FALSE
    OBVIOUS
  <2>1. PICK j \in 0 .. n - 1 : N <= n * (most - x) + j
    BY DEF Corrected
  <2> DEFINE e == D + x
             a == most - x
  <2>2. e \in Nat /\ 1 <= e /\ a \in Int /\ D + most = a + e
    BY <1>2
  <2> HIDE DEF e, a, x
  <2>3. n * (a + e) = n * a + n * e /\ n * a \in Int /\ n * e \in Nat
    BY <2>2
  <2>4. n <= n * e
    <3>1. n \in Nat /\ 1 \in Nat
      OBVIOUS
    <3>2. 1 * n <= e * n
      BY <2>2, <3>1, ProductMonotone
    <3>3. 1 * n = n /\ e * n = n * e
      BY <2>2, <3>1
    <3>. QED BY <3>2, <3>3
  <2>5. n * a + n * e <= n * a + j
    BY <2>1, <2>2, <2>3 DEF a
  <2> DEFINE y == n * a
             z == n * e
  <2>6. y \in Int /\ z \in Nat /\ n <= z /\ y + z <= y + j
    BY <2>3, <2>4, <2>5
  <2> HIDE DEF y, z
  <2>. QED BY <2>6
<1>. QED BY <1>1, <1>2, <1>3, <1>4

\* The scaled counts, from which the correction of strings starts.
LEMMA ScaledStringsFacts ==
  ASSUME NEW c, NEW h, ToCorrect(c, h)
  PROVE  ScaledStrings(c, h) \in [1 .. Len(h.buckets) -> Nat \ {0}]
<1> DEFINE n == Len(h.buckets)
           raw == DistinctsOf(h)
           D == Distinct(c)
           Scaled(b) == AtLeast(1, RoundDiv(raw[b] * D, SumOf(raw)))
<1>1. AreBuckets(h.buckets)
  BY DEF ToCorrect
<1>2. /\ n \in Nat \ {0} /\ raw \in Seq(Nat \ {0}) /\ Len(raw) = n
  BY <1>1, BucketRows
<1>3. D \in Nat
  BY ToCorrectFacts
<1>4. ScaledStrings(c, h) = [b \in DOMAIN raw |-> Scaled(b)]
  BY DEF ScaledStrings
<1> HIDE DEF raw, D, n
<1>5. SumOf(raw) \in Nat \ {0}
  <2>1. SumOf(raw) \in Nat /\ n <= SumOf(raw)
    BY <1>2, SumOfPositive
  <2>. QED BY <1>2, <2>1
<1>6. ASSUME NEW b \in 1 .. n PROVE Scaled(b) \in Nat \ {0}
  <2> DEFINE a == raw[b]
             total == SumOf(raw)
             q == RoundDiv(a * D, total)
  <2>1. Scaled(b) = AtLeast(1, q)
    OBVIOUS
  <2>2. a \in Nat
    BY <1>2
  <2>3. total \in Nat \ {0}
    BY <1>5
  <2> HIDE DEF a, total, Scaled
  <2>4. a * D \in Nat
    BY <1>3, <2>2
  <2>5. q \in Nat
    BY <2>3, <2>4, RoundDivNat
  <2> HIDE DEF q
  <2>6. q \in Int /\ 1 \in Int
    BY <2>5
  <2>7. AtLeast(1, q) \in Int /\ AtLeast(1, q) >= 1
    BY <2>6, BoundsOfTwo
  <2>. QED BY <2>1, <2>7
<1>7. DOMAIN raw = 1 .. n
  BY <1>2
<1> HIDE DEF Scaled
<1>8. ScaledStrings(c, h) \in [1 .. n -> Nat \ {0}]
  BY <1>4, <1>6, <1>7
<1>. QED BY <1>8 DEF n

\* The correction of a string column ends with the values of the source, too.
LEMMA StringDistinctsShared ==
  ASSUME NEW c, NEW h, ToCorrect(c, h)
  PROVE  /\ StringDistincts(c, h) \in [1 .. Len(h.buckets) -> Nat \ {0}]
         /\ SumOf(StringDistincts(c, h)) = Distinct(c)
<1> DEFINE n == Len(h.buckets)
           D == Distinct(c)
           V == StringStates(n)
           scaled == ScaledStrings(c, h)
           most == SumOf(scaled)
           start == [counts |-> scaled, diff |-> D - most, at |-> Len(scaled)]
           N == StringSteps(c, scaled)
           Body(f, k) == IF k = 0 THEN start ELSE StringStep(f[k - 1])
           g == [j \in 1 .. N |-> [s \in V |-> StringStep(s)]]
<1>1. n \in Nat \ {0} /\ D \in Nat /\ n < D /\ scaled \in [1 .. n -> Nat \ {0}]
  BY ToCorrectFacts, ScaledStringsFacts
<1>2. most \in Nat /\ Len(scaled) = n
  <2> HIDE DEF scaled, n
  <2>1. n \in Nat
    BY <1>1
  <2>. QED BY <1>1, <2>1, CountsSequence
<1>3. N = n * (D + most)
  BY <1>2 DEF StringSteps
<1>4. StringDistincts(c, h) = (CHOOSE f : f = [k \in 0 .. N |-> Body(f, k)])[N].counts
  <2>1. ~ (D <= n)
    <3> HIDE DEF D, n
    <3>. QED BY <1>1
  <2>2. ~ (Distinct(c) <= Len(ScaledStrings(c, h)))
    BY <1>2, <2>1
  <2>. QED BY <2>2 DEF StringDistincts
<1> HIDE DEF n, D
<1>5. Corrected(n, D, most, start, 0)
  BY <1>1, <1>2, CorrectionStarts
<1>6. start \in V
  BY <1>5 DEF Corrected
<1> HIDE DEF most, scaled, V, start, N
<1>7. N \in Nat
  BY <1>1, <1>2, <1>3
<1>8. ASSUME NEW s \in V PROVE StringStep(s) \in V
  <2>1. CASE s.diff = 0
    BY <2>1 DEF StringStep
  <2>2. CASE s.diff # 0
    <3>1. s \in StringStates(n)
      BY DEF V
    <3>2. StringStep(s) \in StringStates(n)
      BY <1>1, <2>2, <3>1, StringStepIs
    <3>. QED BY <3>2 DEF V
  <2>. QED BY <2>1, <2>2
<1>9. g \in [1 .. N -> [V -> V]]
  BY <1>8
<1>10. PICK e : e \in [0 .. N -> V] /\ e[0] = start /\ \A j \in 1 .. N : e[j] = g[j][e[j - 1]]
  <2> HIDE DEF g
  <2>1. /\ StepsOf(N, V, start, g) \in [0 .. N -> V]
        /\ StepsOf(N, V, start, g)[0] = start
        /\ \A j \in 1 .. N : StepsOf(N, V, start, g)[j] = g[j][StepsOf(N, V, start, g)[j - 1]]
    BY <1>6, <1>7, <1>9, StepsTaken
  <2>. QED BY <2>1
<1>11. \A j \in 1 .. N : j \in 0 .. N /\ j - 1 \in 0 .. N /\ j # 0
  BY <1>7
<1>12. \A j \in 1 .. N : e[j] = StringStep(e[j - 1])
  <2> TAKE j \in 1 .. N
  <2>1. e[j - 1] \in V
    BY <1>10, <1>11
  <2>2. e[j] = g[j][e[j - 1]]
    BY <1>10
  <2>. QED BY <2>1, <2>2
<1> HIDE DEF g
<1>13. e = [k \in 0 .. N |-> Body(e, k)]
  <2>1. ASSUME NEW k \in 0 .. N PROVE e[k] = Body(e, k)
    <3>1. CASE k = 0
      BY <1>10, <3>1
    <3>2. CASE k # 0
      <4>1. k \in 1 .. N
        BY <1>7, <3>2
      <4>. QED BY <1>12, <3>2, <4>1
    <3>. QED BY <3>1, <3>2
  <2> HIDE DEF Body
  <2>. QED BY <1>10, <2>1
<1> DEFINE a == CHOOSE f : f = [k \in 0 .. N |-> Body(f, k)]
<1>14. a = [k \in 0 .. N |-> Body(a, k)]
  <2> HIDE DEF Body
  <2>. QED BY <1>13
<1> HIDE DEF a
<1>15. a[0] = start /\ \A k \in 1 .. N : a[k] = StringStep(a[k - 1])
  <2>1. \A k \in 0 .. N : a[k] = Body(a, k)
    <3> HIDE DEF Body
    <3>. QED BY <1>14
  <2>2. 0 \in 0 .. N
    BY <1>7
  <2>. QED BY <1>11, <2>1, <2>2
<1> DEFINE Q(k) == Corrected(n, D, most, a[k], k)
           S == {k \in 0 .. N : Q(k)}
<1>16. 0 \in S
  BY <1>5, <1>7, <1>15
<1>17. ASSUME NEW k \in 1 .. N, k - 1 \in S PROVE k \in S
  <2>1. Q(k - 1)
    <3> HIDE DEF Q
    <3>. QED BY <1>17
  <2> DEFINE s == a[k - 1]
             i == k - 1
  <2>2. Corrected(n, D, most, s, i)
    BY <2>1
  <2>3. a[k] = StringStep(s)
    BY <1>15
  <2>4. i \in Nat /\ i + 1 = k
    OBVIOUS
  <2> HIDE DEF s, i
  <2>5. Corrected(n, D, most, StringStep(s), i + 1)
    BY <1>1, <1>2, <2>2, <2>4, StringStepCorrects
  <2>6. Q(k)
    BY <2>3, <2>4, <2>5
  <2>7. k \in 0 .. N
    BY <1>11
  <2> HIDE DEF Q
  <2>. QED BY <2>6, <2>7
<1>18. 0 .. N \subseteq S
  <2> HIDE DEF S
  <2>. QED BY <1>7, <1>16, <1>17, UpFromZero
<1>19. Corrected(n, D, most, a[N], n * (D + most))
  <2>1. Q(N)
    <3>1. N \in 0 .. N
      BY <1>7
    <3> HIDE DEF Q
    <3>. QED BY <1>18, <3>1
  <2>. QED BY <1>3, <2>1
<1>20. a[N].counts \in [1 .. n -> Nat \ {0}] /\ SumOf(a[N].counts) = D
  BY <1>1, <1>2, <1>19, CorrectionEnds
<1>21. StringDistincts(c, h) = a[N].counts
  <2> HIDE DEF Body
  <2>. QED BY <1>4 DEF a
<1>. QED BY <1>20, <1>21 DEF n, D

\* An equi-height histogram has fewer buckets than the source has values, so
\* the corrections of NumberDistincts and StringDistincts end with the exact
\* count: the steps always suffice, no bucket falls below one.
THEOREM BucketsAlwaysShare == Spec => []BucketsShareValues
<1>1. ColumnsIInv => BucketsShareValues
  <2> SUFFICES ASSUME ColumnsIInv, IsEquiHeight(histogram),
                      column.kind \in {"number", "string"}
               PROVE  LET counts == IF column.kind = "number"
                                    THEN NumberDistincts(column, histogram)
                                    ELSE StringDistincts(column, histogram)
                      IN  /\ SumOf(counts) = Distinct(column)
                          /\ \A b \in DOMAIN counts : counts[b] > 0
    BY DEF BucketsShareValues
  <2>1. column \in SourceColumns /\ histogram \in Histograms(column)
    BY InputsAssumption DEF ColumnsIInv
  <2>2. ToCorrect(column, histogram)
    BY <2>1, HistogramBuckets DEF ToCorrect
  <2> DEFINE n == Len(histogram.buckets)
             counts == IF column.kind = "number" THEN NumberDistincts(column, histogram)
                       ELSE StringDistincts(column, histogram)
  <2>3. counts \in [1 .. n -> Nat \ {0}] /\ SumOf(counts) = Distinct(column)
    BY <2>2, NumberDistinctsShared, StringDistinctsShared
  <2> HIDE DEF counts, n
  <2>4. \A b \in DOMAIN counts : counts[b] > 0
    <3> TAKE b \in DOMAIN counts
    <3>1. counts[b] \in Nat \ {0}
      BY <2>3
    <3>. QED BY <3>1
  <2>. QED BY <2>3, <2>4 DEF counts
<1>. QED BY <1>1, ColumnsInvariance, PTL

-----------------------------------------------------------------------------
(* How many values a column gets: a set of the values its rows may take that *)
(* is not larger than the set of the source's.                               *)
FewValues(c, vs) ==
  \E W : /\ IsFiniteSet(W) /\ Cardinality(W) <= AtLeast(1, Len(AllValues(c)))
         /\ \A r \in DOMAIN vs : vs[r] \subseteq W \cup {None}

\* The generated values are finitely many.
LEMMA FewFinite ==
  ASSUME NEW c, NEW vs, FewValues(c, vs)
  PROVE  IsFiniteSet(Generated(vs))
<1>1. PICK W : IsFiniteSet(W) /\ \A r \in DOMAIN vs : vs[r] \subseteq W \cup {None}
  BY DEF FewValues
<1>2. Generated(vs) \in SUBSET W
  <2> SUFFICES ASSUME NEW x \in Generated(vs) PROVE x \in W
    OBVIOUS
  <2>1. x # None /\ \E s \in Range(vs) : x \in s
    BY DEF Generated
  <2>2. PICK r \in DOMAIN vs : x \in vs[r]
    BY <2>1 DEF Range
  <2>. QED BY <1>1, <2>1, <2>2
<1>. QED BY <1>1, <1>2, FS_Subset

\* The generated values are then not more either.
LEMMA FewGenerated ==
  ASSUME NEW c \in SourceColumns, NEW vs, FewValues(c, vs)
  PROVE  Cardinality(Generated(vs)) <= AtLeast(1, Len(AllValues(c)))
<1>1. PICK W : /\ IsFiniteSet(W) /\ Cardinality(W) <= AtLeast(1, Len(AllValues(c)))
               /\ \A r \in DOMAIN vs : vs[r] \subseteq W \cup {None}
  BY DEF FewValues
<1>2. Generated(vs) \in SUBSET W
  <2> SUFFICES ASSUME NEW x \in Generated(vs) PROVE x \in W
    OBVIOUS
  <2>1. x # None /\ \E s \in Range(vs) : x \in s
    BY DEF Generated
  <2>2. PICK r \in DOMAIN vs : x \in vs[r]
    BY <2>1 DEF Range
  <2>. QED BY <1>1, <2>1, <2>2
<1> DEFINE G == Generated(vs)
           most == AtLeast(1, Len(AllValues(c)))
<1>3. most \in Int
  <2>1. Len(AllValues(c)) \in Int /\ 1 \in Int
    <3>1. Len(AllValues(c)) \in Nat
      BY CountsOf
    <3>. QED BY <3>1
  <2>. QED BY <2>1, BoundsOfTwo
<1> HIDE DEF G, most
<1>4. IsFiniteSet(G) /\ Cardinality(G) <= Cardinality(W)
  BY <1>1, <1>2, FS_Subset DEF G
<1>5. Cardinality(G) \in Nat /\ Cardinality(W) \in Nat
  BY <1>1, <1>4, FS_CardinalityType
<1>6. Cardinality(G) <= most
  <2>1. Cardinality(W) <= most
    BY <1>1 DEF most
  <2>. QED BY <1>3, <1>4, <1>5, <2>1
<1>. QED BY <1>6 DEF G, most

\* A column whose values are all of a set of that size.
LEMMA FewOf ==
  ASSUME NEW c \in SourceColumns, NEW W, IsFiniteSet(W), NEW n \in Nat,
         Cardinality(W) <= n, n <= AtLeast(1, Len(AllValues(c))),
         NEW S, NEW vs \in [S -> SUBSET (W \cup {None})]
  PROVE  FewValues(c, vs)
<1> DEFINE most == AtLeast(1, Len(AllValues(c)))
<1>1. most \in Int
  <2>1. Len(AllValues(c)) \in Int /\ 1 \in Int
    <3>1. Len(AllValues(c)) \in Nat
      BY CountsOf
    <3>. QED BY <3>1
  <2>. QED BY <2>1, BoundsOfTwo
<1> HIDE DEF most
<1>2. Cardinality(W) <= most
  <2>1. Cardinality(W) \in Nat /\ n <= most
    BY FS_CardinalityType DEF most
  <2>. QED BY <1>1, <2>1
<1>3. \A r \in DOMAIN vs : vs[r] \subseteq W \cup {None}
  OBVIOUS
<1>. QED BY <1>2, <1>3 DEF FewValues, most

\* The bound of the property.
LEMMA MostValues ==
  ASSUME NEW c \in SourceColumns, NEW n \in Nat, n <= Len(AllValues(c)) \/ n <= 1
  PROVE  n <= AtLeast(1, Len(AllValues(c)))
<1> DEFINE d == Len(AllValues(c))
<1>1. d \in Nat
  BY CountsOf
<1> HIDE DEF d
<1>2. n <= AtLeast(1, d)
  BY <1>1 DEF AtLeast, d
<1>. QED BY <1>2 DEF d

\* n consecutive values are n values.
LEMMA Consecutive ==
  ASSUME NEW low \in Int, NEW n \in Nat
  PROVE  IsFiniteSet(low .. low + n - 1) /\ Cardinality(low .. low + n - 1) = n
<1> DEFINE high == low + n - 1
<1>1. high \in Int /\ high - low + 1 = n /\ (low > high <=> n = 0)
  OBVIOUS
<1> HIDE DEF high
<1>2. IsFiniteSet(low .. high) /\ Cardinality(low .. high) = n
  BY <1>1, FS_Interval
<1>. QED BY <1>2 DEF high

\* An interval is finite.
LEMMA FiniteInterval ==
  ASSUME NEW a \in Int, NEW b \in Int
  PROVE  IsFiniteSet(a .. b)
BY FS_Interval

\* n values with a number each are n values at most.
LEMMA Numbered ==
  ASSUME NEW n \in Nat, NEW f, f = [i \in 1 .. n |-> f[i]]
  PROVE  /\ IsFiniteSet({f[i] : i \in 1 .. n})
         /\ Cardinality({f[i] : i \in 1 .. n}) <= n
<1> DEFINE T == {f[i] : i \in 1 .. n}
           S == 1 .. n
<1>1. IsFiniteSet(S) /\ Cardinality(S) = n
  <2>1. 1 \in Int /\ 1 + n - 1 = n
    OBVIOUS
  <2>. QED BY <2>1, Consecutive
<1>2. f \in Surjection(S, T)
  BY DEF Surjection
<1> HIDE DEF S, T
<1>3. IsFiniteSet(T) /\ Cardinality(T) <= Cardinality(S)
  BY <1>1, <1>2, FS_Surjection
<1>. QED BY <1>1, <1>3 DEF T

\* Where every row has one value although it may have any of some, there is
\* only one.
LEMMA FewAnyOf ==
  ASSUME NEW c \in SourceColumns, NEW S, IsFiniteSet(S), NEW rows \in Nat,
         Determined(AnyOf(S, rows))
  PROVE  FewValues(c, AnyOf(S, rows))
<1>1. AnyOf(S, rows) = [r \in 1 .. rows |-> S]
  BY DEF AnyOf
<1>2. CASE rows = 0
  <2>1. AnyOf(S, rows) \in [1 .. rows -> SUBSET ({} \cup {None})]
    BY <1>1, <1>2
  <2>2. 0 \in Nat /\ 0 <= AtLeast(1, Len(AllValues(c)))
    BY MostValues
  <2>. QED BY <2>1, <2>2, FewOf, FS_EmptySet
<1>3. CASE rows # 0
  <2>1. 1 \in 1 .. rows
    BY <1>3
  <2>2. Cardinality(S) = 1
    BY <1>1, <2>1 DEF Determined
  <2>3. AnyOf(S, rows) \in [1 .. rows -> SUBSET (S \cup {None})]
    BY <1>1
  <2>4. 1 \in Nat /\ 1 <= AtLeast(1, Len(AllValues(c))) /\ Cardinality(S) <= 1
    BY <2>2, MostValues
  <2>. QED BY <2>3, <2>4, FewOf
<1>. QED BY <1>2, <1>3

\* Consecutive values, as many as the source has, and the NULL and 0 it has too.
LEMMA FewConsecutive ==
  ASSUME NEW c \in SourceColumns, NEW low \in Int, NEW n \in Nat, n <= Len(AllValues(c)),
         NEW S, NEW vs \in [S -> SUBSET (low .. low + n - 1)]
  PROVE  FewValues(c, vs)
<1> DEFINE W == low .. low + n - 1
<1>1. IsFiniteSet(W) /\ Cardinality(W) = n
  BY Consecutive
<1> HIDE DEF W
<1>2. vs \in [S -> SUBSET (W \cup {None})]
  BY DEF W
<1>3. n <= AtLeast(1, Len(AllValues(c))) /\ Cardinality(W) <= n
  BY <1>1, MostValues
<1>. QED BY <1>1, <1>2, <1>3, FewOf

\* The first keys, with the NULL and 0 the source has too.
LEMMA FewFirstKeys ==
  ASSUME NEW c \in SourceColumns, NEW S,
         NEW vs \in [S -> SUBSET (FirstKeys(c, Distinct(c)) \cup Unknowns(c))]
  PROVE  FewValues(c, vs)
<1> DEFINE F == FirstKeys(c, Distinct(c))
           W == IF c.zero > 0 THEN F \cup {0} ELSE F
           n == Len(AllValues(c))
           d == Distinct(c)
<1>1. n \in Nat /\ d \in Nat /\ n = d + (IF c.zero > 0 THEN 1 ELSE 0) /\ c.low \in Int
  <2>1. d \in Nat /\ Len(AllValues(c)) = d + (IF c.zero > 0 THEN 1 ELSE 0)
    BY CountsOf
  <2>2. c.low \in Int
    BY ColumnFields
  <2> HIDE DEF d
  <2>. QED BY <2>1, <2>2
<1>2. IsFiniteSet(F) /\ Cardinality(F) = d
  BY <1>1, Consecutive DEF FirstKeys
<1> HIDE DEF F, d
<1>3. IsFiniteSet(W) /\ Cardinality(W) <= n
  <2>1. CASE c.zero > 0
    <3>1. W = F \cup {0} /\ n = d + 1
      BY <1>1, <2>1
    <3>2. IsFiniteSet(F \cup {0}) /\ Cardinality(F \cup {0}) \in {d, d + 1}
      BY <1>2, FS_AddElement
    <3>. QED BY <1>1, <3>1, <3>2
  <2>2. CASE ~ (c.zero > 0)
    BY <1>1, <1>2, <2>2
  <2>. QED BY <2>1, <2>2
<1>4. F \cup Unknowns(c) \subseteq W \cup {None}
  BY DEF Unknowns
<1> HIDE DEF W, n
<1>5. vs \in [S -> SUBSET (W \cup {None})]
  BY <1>4 DEF F, d
<1>6. n <= AtLeast(1, Len(AllValues(c)))
  BY <1>1, MostValues DEF n
<1>. QED BY <1>1, <1>3, <1>5, <1>6, FewOf

\* A CASE with a band for each of n values.
ConstantBands(n, counts, v) == [i \in 1 .. n |-> Constant(counts[i], v[i])]

\* All its values, the default included.
LEMMA ConstantBandsIn ==
  ASSUME NEW K, NEW n \in Nat, NEW counts, \A i \in 1 .. n : counts[i] \in Int,
         NEW v, \A i \in 1 .. n : v[i] \in K, NEW d \in K, NEW rows \in Nat
  PROVE  CaseOf(ConstantBands(n, counts, v), d, rows) \in [1 .. rows -> SUBSET K]
<1>1. \A i \in 1 .. n : Constant(counts[i], v[i]) \in Seq(K)
  BY ConstantIn
<1> DEFINE bands == ConstantBands(n, counts, v)
<1>2. bands \in Seq(Seq(K))
  <2>1. bands \in [1 .. n -> Seq(K)]
    BY <1>1 DEF ConstantBands
  <2> HIDE DEF bands
  <2>. QED BY <2>1
<1> HIDE DEF bands
<1>3. CaseOf(bands, d, rows) \in [1 .. rows -> SUBSET K]
  BY <1>2, CaseOfIn
<1>. QED BY <1>3 DEF bands

\* A cycle over consecutive values.
LEMMA FewCycled ==
  ASSUME NEW c \in SourceColumns, NEW low \in Int, NEW n \in Nat \ {0},
         n <= Len(AllValues(c))
  PROVE  FewValues(c, Sure(Cycled(c.rows, low, n)))
<1> DEFINE K == low .. low + n - 1
           s == Cycled(c.rows, low, n)
<1>1. c.rows \in Int
  <2>1. c.rows \in Nat
    BY ColumnFields
  <2>. QED BY <2>1
<1>2. s \in Seq(K)
  BY <1>1, CycledIn
<1> HIDE DEF K, s
<1>3. Sure(s) \in Seq(SUBSET K)
  BY <1>2, SureIn
<1> DEFINE V == SUBSET K
<1>4. Sure(s) \in [1 .. Len(Sure(s)) -> V]
  <2>1. Sure(s) \in Seq(V)
    BY <1>3
  <2> HIDE DEF V
  <2>. QED BY <2>1
<1>. QED BY <1>4, FewConsecutive DEF K, s

\* Foreign keys: the first keys, a key for each bucket, or one key in all rows.
LEMMA FkColumnFew ==
  ASSUME NEW c \in SourceColumns, NEW h \in Histograms(c), ~ Estimated(c),
         Determined(FkColumn(c, h))
  PROVE  FewValues(c, FkColumn(c, h))
<1> DEFINE F == FirstKeys(c, Distinct(c)) \cup Unknowns(c)
           Goal(f) == Determined(f) => FewValues(c, f)
<1>1. /\ c.rows \in Nat /\ c.low \in Int /\ c.size \in Nat
      /\ Distinct(c) \in Nat /\ Len(AllValues(c)) \in Nat
  BY ColumnFields, CountsOf
<1>2. ASSUME ExactApplies(c) \/ FrequencyShapeApplies(c) PROVE Goal(RankedColumn(c))
  <2>1. Distinct(c) # 0
    BY <1>1, <1>2 DEF ExactApplies, FrequencyShapeApplies
  <2>2. RankedColumn(c) \in [1 .. c.rows -> SUBSET F]
    BY <2>1, RankedColumnIn
  <2>. QED BY <2>2, FewFirstKeys
<1>3. Goal(CyclingColumn(c))
  <2>1. CyclingColumn(c) \in [1 .. c.rows -> SUBSET FirstKeys(c, Distinct(c))]
    BY <1>1, TurnedIn DEF CyclingColumn
  <2>2. CyclingColumn(c) \in [1 .. c.rows -> SUBSET F]
    BY <2>1
  <2>. QED BY <2>2, FewFirstKeys
<1>4. ASSUME SingletonApplies(c, h) PROVE Goal(SingletonColumn(c, h))
  <2> DEFINE n == Len(h.buckets)
             f == [i \in 1 .. n |-> c.low + (((i - 1) * c.size) \div n)]
             W == {f[i] : i \in 1 .. n}
  <2>1. AreBuckets(h.buckets) /\ n <= Len(AllValues(c))
    BY <1>4, HistogramBuckets DEF SingletonApplies
  <2>2. n \in Nat
    BY <2>1 DEF AreBuckets
  <2>3. IsFiniteSet(W) /\ Cardinality(W) <= n
    <3>1. f = [i \in 1 .. n |-> f[i]]
      OBVIOUS
    <3> HIDE DEF f, n
    <3>. QED BY <2>2, <3>1, Numbered
  <2>4. SampledKeys(c, h) = W
    BY DEF SampledKeys
  <2>5. SingletonColumn(c, h) \in [1 .. c.rows -> SUBSET SampledKeys(c, h)]
    BY <2>1, SingletonColumnIn
  <2> HIDE DEF n, W
  <2>6. SingletonColumn(c, h) \in [1 .. c.rows -> SUBSET (W \cup {None})]
    BY <2>4, <2>5
  <2>7. n <= AtLeast(1, Len(AllValues(c)))
    BY <2>1, <2>2, MostValues
  <2>. QED BY <2>2, <2>3, <2>6, <2>7, FewOf
<1>5. ASSUME EquiHeightApplies(c, h) PROVE Goal(EquiHeightColumn(c, h))
  <2> DEFINE n == Len(h.buckets)
             per == AtLeast(1, AtLeast(Len(AllValues(c)), n) \div n)
             S == UNION {AtMost(c.low + (i - 1) * per, c.low + c.size - 1) ..
                         AtMost(c.low + i * per - 1, c.low + c.size - 1) : i \in 1 .. n}
  <2>1. EquiHeightColumn(c, h) = AnyOf(S, c.rows)
    BY DEF EquiHeightColumn
  <2>2. AreBuckets(h.buckets) /\ c.size # 0
    <3>1. 5 * Len(AllValues(c)) < c.size
      BY <1>5 DEF EquiHeightApplies
    <3>. QED BY <1>1, <1>5, <3>1, HistogramBuckets DEF EquiHeightApplies
  <2>3. EquiHeightColumn(c, h) \in [1 .. c.rows -> SUBSET Referenced(c)]
    BY <2>2, EquiHeightColumnIn
  <2> HIDE DEF S
  <2>4. CASE c.rows = 0
    <3>1. AnyOf(S, c.rows) = AnyOf({}, c.rows)
      BY <2>4 DEF AnyOf
    <3>2. Determined(AnyOf({}, c.rows)) => FewValues(c, AnyOf({}, c.rows))
      BY <1>1, FewAnyOf, FS_EmptySet
    <3>. QED BY <2>1, <3>1, <3>2
  <2>5. CASE c.rows # 0
    <3>1. 1 \in 1 .. c.rows
      BY <1>1, <2>5
    <3>2. S \in SUBSET Referenced(c)
      <4>1. AnyOf(S, c.rows)[1] = S
        BY <3>1 DEF AnyOf
      <4>. QED BY <2>1, <2>3, <3>1, <4>1
    <3>3. IsFiniteSet(Referenced(c))
      BY <1>1, Consecutive DEF Referenced
    <3>4. IsFiniteSet(S)
      BY <3>2, <3>3, FS_Subset
    <3>. QED BY <1>1, <2>1, <3>4, FewAnyOf
  <2>. QED BY <2>4, <2>5
<1>6. Goal(WrappedCyclingColumn(c))
  <2>1. WrappedCyclingColumn(c) \in [1 .. c.rows -> SUBSET F]
    BY WrappedCyclingColumnIn
  <2>. QED BY <2>1, FewFirstKeys
<1>7. Goal(DenseColumn(c))
  <2> DEFINE S == IF c.size = 0 THEN {0} ELSE Referenced(c)
  <2>1. DenseColumn(c) = AnyOf(S, c.rows)
    BY DEF DenseColumn
  <2>2. IsFiniteSet(S)
    <3>1. IsFiniteSet({0}) /\ IsFiniteSet(Referenced(c))
      BY <1>1, Consecutive, FS_Singleton DEF Referenced
    <3>. QED BY <3>1
  <2> HIDE DEF S
  <2>. QED BY <1>1, <2>1, <2>2, FewAnyOf
<1> HIDE DEF Goal
<1>8. Goal(FkColumn(c, h))
  BY <1>2, <1>3, <1>4, <1>5, <1>6, <1>7 DEF FkColumn
<1>. QED BY <1>8 DEF Goal

\* A key, which has no value twice, has as many values as rows.
LEMMA KeyColumnFew ==
  ASSUME NEW c \in SourceColumns, IsKey(c), c.rows <= Total(c)
  PROVE  FewValues(c, KeyColumn(c))
<1> DEFINE K == c.low .. c.low + c.rows - 1
<1>1. /\ c.freq \in Seq(Nat \ {0}) /\ c.rows \in Nat /\ c.low \in Int
      /\ c.zero = 0 /\ c.null = 0
  BY ColumnFields
<1>2. SumOf(c.freq) = Len(c.freq)
  <2>1. Range(c.freq) \subseteq {1}
    BY DEF SourceColumns, IsKey
  <2> DEFINE f == c.freq
  <2>2. f \in Seq(Nat \ {0}) /\ \A i \in DOMAIN f : f[i] = 1
    BY <1>1, <2>1 DEF Range
  <2> HIDE DEF f
  <2>3. f \in Seq(Int) /\ \A i \in 1 .. Len(f) : f[i] = 1
    BY <2>2
  <2>4. SumOf(f) = Len(f)
    BY <2>3, SumOfOnes
  <2>. QED BY <2>4 DEF f
<1>3. c.rows <= Len(AllValues(c))
  <2>1. /\ Distinct(c) \in Nat /\ ~ (c.zero > 0)
        /\ Len(AllValues(c)) = Distinct(c) + (IF c.zero > 0 THEN 1 ELSE 0)
    BY <1>1, CountsOf
  <2>2. Total(c) = Distinct(c) /\ Len(AllValues(c)) = Distinct(c)
    BY <1>1, <1>2, <2>1 DEF Total, Distinct
  <2>. QED BY <2>2
<1>4. KeyColumn(c) = [r \in 1 .. c.rows |-> {c.low + r - 1}]
  BY DEF KeyColumn, Sure
<1>5. \A r \in 1 .. c.rows : {c.low + r - 1} \in SUBSET K
  BY <1>1
<1>6. KeyColumn(c) \in [1 .. c.rows -> SUBSET K]
  <2> HIDE DEF K
  <2>. QED BY <1>4, <1>5
<1>. QED BY <1>1, <1>3, <1>6, FewConsecutive

\* The part of a composite key that is no foreign key.
LEMMA KeyPartColumnFew ==
  ASSUME NEW c \in SourceColumns, IsKeyPart(c), c.rows <= Total(c)
  PROVE  FewValues(c, KeyPartColumn(c))
<1> DEFINE d == Distinct(c)
           per == Total(c) \div d
<1>1. /\ c.rows \in Nat /\ c.low \in Int /\ d \in Nat /\ Len(AllValues(c)) = d
      /\ Total(c) \in Nat
  <2>1. c.zero = 0
    BY ColumnFields
  <2>2. d \in Nat /\ Len(AllValues(c)) = d + 0
    BY <2>1, CountsOf
  <2>3. Len(AllValues(c)) = d
    BY <2>2
  <2>. QED BY <2>2, <2>3, ColumnFields, CountsOf
<1>2. CASE d = 0
  <2>1. Total(c) = 0
    <3>1. c.null = 0 /\ c.zero = 0
      BY ColumnFields
    <3>2. SumOf(c.freq) = 0
      <4>1. c.freq \in Seq(Int)
        <5>1. c.freq \in Seq(Nat \ {0})
          BY ColumnFields
        <5>. QED BY <5>1
      <4>2. SumsOf(c.freq)[0] = 0
        BY <4>1, SumsOfInt
      <4>. QED BY <1>2, <4>2 DEF SumOf, Distinct
    <3>. QED BY <3>1, <3>2 DEF Total
  <2>2. c.rows = 0
    BY <1>1, <2>1
  <2>3. KeyPartColumn(c) = Sure([r \in 1 .. c.rows |-> r])
    BY <1>2 DEF KeyPartColumn
  <2>4. KeyPartColumn(c) \in [1 .. c.rows -> SUBSET (c.low .. c.low + d - 1)]
    BY <2>2, <2>3 DEF Sure
  <2>5. d <= Len(AllValues(c))
    BY <1>1
  <2> HIDE DEF d
  <2>. QED BY <1>1, <2>4, <2>5, FewConsecutive
<1>3. CASE d # 0
  <2> DEFINE K == c.low .. c.low + d - 1
  <2>1. KeyPartColumn(c) = Sure([r \in 1 .. c.rows |-> c.low + PartOfRow(c, per, r)])
    BY <1>3 DEF KeyPartColumn
  <2>2. ASSUME NEW r \in 1 .. c.rows PROVE c.low + PartOfRow(c, per, r) \in K
    <3> HIDE DEF d, per
    <3>1. d \in Nat \ {0} /\ r - 1 \in Nat
      BY <1>1, <1>3
    <3>2. (r - 1) % d \in 0 .. d - 1
      BY <3>1, DivMod
    <3>3. per >= 2 => ((r - 1) \div per) % d \in 0 .. d - 1
      <4> SUFFICES ASSUME per >= 2 PROVE ((r - 1) \div per) % d \in 0 .. d - 1
        OBVIOUS
      <4>1. per \in Nat \ {0}
        <5>1. per \in Nat
          BY <1>1, <3>1, DivMod DEF per
        <5>. QED BY <5>1
      <4>2. (r - 1) \div per \in Nat
        BY <3>1, <4>1, DivMod
      <4>. QED BY <3>1, <4>2, DivMod
    <3> DEFINE part == PartOfRow(c, per, r)
    <3>4. part \in 0 .. d - 1
      BY <3>2, <3>3 DEF PartOfRow, d
    <3> HIDE DEF part
    <3>5. c.low + part \in c.low .. c.low + d - 1
      BY <1>1, <3>1, <3>4
    <3>. QED BY <3>5 DEF part
  <2>3. KeyPartColumn(c) \in [1 .. c.rows -> SUBSET K]
    <3> HIDE DEF K
    <3>. QED BY <2>1, <2>2 DEF Sure
  <2>4. d <= Len(AllValues(c))
    BY <1>1
  <2> HIDE DEF d
  <2>. QED BY <1>1, <2>3, <2>4, FewConsecutive
<1>. QED BY <1>2, <1>3

-----------------------------------------------------------------------------
(* Numbers.                                                                  *)
LEMMA ValuesOfOther ==
  ASSUME NEW c \in SourceColumns, c.kind # "fk"
  PROVE  /\ Len(AllValues(c)) = Distinct(c) /\ Distinct(c) \in Nat
         /\ Total(c) \in Nat /\ c.rows \in Nat
<1>1. ~ (c.zero > 0) /\ c.rows \in Nat
  BY ColumnFields
<1>2. /\ Distinct(c) \in Nat /\ Total(c) \in Nat
      /\ Len(AllValues(c)) = Distinct(c) + (IF c.zero > 0 THEN 1 ELSE 0)
  BY CountsOf
<1>3. Len(AllValues(c)) = Distinct(c)
  BY <1>1, <1>2
<1>. QED BY <1>1, <1>2, <1>3

\* A CASE with a band for each of the values low .. low + n - 1.
LEMMA FewBands ==
  ASSUME NEW c \in SourceColumns, NEW low \in Int, NEW n \in Nat \ {0},
         n <= Len(AllValues(c)), NEW counts, \A i \in 1 .. n : counts[i] \in Int,
         NEW v, \A i \in 1 .. n : v[i] = low + i - 1, NEW d, d = v[n]
  PROVE  FewValues(c, CaseOf(ConstantBands(n, counts, v), d, c.rows))
<1> DEFINE K == low .. low + n - 1
           vs == CaseOf(ConstantBands(n, counts, v), d, c.rows)
<1>1. \A i \in 1 .. n : v[i] \in K
  OBVIOUS
<1>2. d \in K /\ c.rows \in Nat /\ n \in Nat
  <2>1. n \in 1 .. n
    OBVIOUS
  <2> HIDE DEF K
  <2>. QED BY <1>1, <2>1, ColumnFields
<1> HIDE DEF K
<1>3. vs \in [1 .. c.rows -> SUBSET K]
  BY <1>1, <1>2, ConstantBandsIn
<1> HIDE DEF vs
<1>4. FewValues(c, vs)
  BY <1>3, FewConsecutive DEF K
<1>. QED BY <1>4 DEF vs

\* Exact counts: the values are numbered by their frequency.
LEMMA ExactColumnFew ==
  ASSUME NEW c \in SourceColumns, c.kind # "fk", ExactCountsApply(c)
  PROVE  FewValues(c, ExactColumn(c))
<1> DEFINE n == Distinct(c)
           ranked == Descending(c.freq)
           v == [i \in 1 .. n |-> i - 1]
           bands == ConstantBands(n, ranked, v)
<1>1. n \in Nat \ {0} /\ n <= Len(AllValues(c)) /\ c.freq \in Seq(Nat)
  <2>1. n \in Nat /\ Len(AllValues(c)) = n
    BY ValuesOfOther
  <2>2. n \in 1 .. ExactValues
    BY DEF ExactCountsApply
  <2>3. c.freq \in Seq(Nat \ {0})
    BY ColumnFields
  <2>4. ExactValues \in Nat
    BY HistogramColumnAssumption
  <2> HIDE DEF n
  <2>. QED BY <2>1, <2>2, <2>3, <2>4
<1>2. DOMAIN ranked = 1 .. n /\ \A i \in 1 .. n : ranked[i] \in Int
  <2>1. DOMAIN ranked = 1 .. n /\ \A i \in 1 .. n : ranked[i] \in Nat
    BY <1>1, DescendingIn DEF Distinct
  <2> HIDE DEF ranked, n
  <2>. QED BY <2>1
<1>3. ExactColumn(c) = CaseOf(bands, v[n], c.rows)
  <2>1. ExactColumn(c) =
          CaseOf([i \in DOMAIN ranked |-> Constant(ranked[i], i - 1)], n - 1, c.rows)
    BY DEF ExactColumn, Sure, Case, CaseOf
  <2>2. v[n] = n - 1 /\ [i \in DOMAIN ranked |-> Constant(ranked[i], i - 1)] =
                          bands
    <3> HIDE DEF n, ranked
    <3>1. n \in 1 .. n
      BY <1>1
    <3>. QED BY <1>2, <3>1 DEF ConstantBands
  <2>. QED BY <2>1, <2>2
<1> HIDE DEF n, ranked
<1>4. \A i \in 1 .. n : v[i] = 0 + i - 1
  BY <1>1
<1>5. 0 \in Int
  OBVIOUS
<1> DEFINE last == v[n]
<1> HIDE DEF v
<1>6. FewValues(c, CaseOf(bands, last, c.rows))
  <2>1. last = v[n]
    OBVIOUS
  <2> HIDE DEF last
  <2>. QED BY <1>1, <1>2, <1>4, <1>5, <2>1, FewBands
<1>. QED BY <1>3, <1>6

\* Numbers with a singleton histogram: a cycle, a random number, or bands.
LEMMA SingletonNumbersFew ==
  ASSUME NEW c \in SourceColumns, c.kind # "fk", NEW h \in Histograms(c), IsSingleton(h),
         Determined(SingletonNumbers(c, h))
  PROVE  FewValues(c, SingletonNumbers(c, h))
<1> DEFINE n == Distinct(c)
           weighted == WeightedCounts(Weights(c, h), Units, Total(c))
           even == LastTakesRest(Constant(n, RoundDiv(Total(c), n)), Total(c))
           counts == IF n = Len(h.buckets) THEN weighted ELSE even
           v == [i \in 1 .. n |-> i]
           bands == ConstantBands(n, counts, v)
<1>1. AreBuckets(h.buckets) /\ Len(h.buckets) <= Len(AllValues(c))
  BY HistogramBuckets
<1>2. n \in Nat \ {0} /\ n <= Len(AllValues(c)) /\ Total(c) \in Nat /\ c.rows \in Nat
  <2>1. n \in Nat /\ Len(AllValues(c)) = n /\ Total(c) \in Nat /\ c.rows \in Nat
    BY ValuesOfOther
  <2>2. Len(h.buckets) \in Nat \ {0}
    BY <1>1 DEF AreBuckets
  <2> HIDE DEF n
  <2>. QED BY <1>1, <2>1, <2>2
<1>3. \A i \in 1 .. n : counts[i] \in Int
  <2>1. CASE n = Len(h.buckets)
    <3>1. Units \in Nat \ {0}
      BY ColumnAssumption
    <3>2. Weights(c, h) \in Seq(Nat) /\ Len(Weights(c, h)) = n
      BY <1>1, <2>1, WeightsNat
    <3> HIDE DEF n
    <3>3. weighted \in Seq(Int) /\ Len(weighted) = n
      BY <1>2, <3>1, <3>2, WeightedCountsInt
    <3> HIDE DEF weighted
    <3>. QED BY <2>1, <3>3
  <2>2. CASE n # Len(h.buckets)
    <3> DEFINE x == RoundDiv(Total(c), n)
               s == Constant(n, x)
    <3> HIDE DEF n
    <3>1. x \in Int
      <4>1. x \in Nat
        BY <1>2, RoundDivNat
      <4>. QED BY <4>1
    <3> HIDE DEF x
    <3>2. s \in Seq(Int) /\ Len(s) = n /\ Total(c) \in Int
      <4>1. s = [l \in 1 .. n |-> x]
        BY DEF Constant
      <4>. QED BY <1>2, <3>1, <4>1
    <3> HIDE DEF s
    <3>3. LastTakesRest(s, Total(c)) \in Seq(Int) /\ Len(LastTakesRest(s, Total(c))) = n
      BY <3>2, LastTakesRestInt
    <3> DEFINE e == LastTakesRest(s, Total(c))
    <3>4. even = e
      BY DEF s, x
    <3> HIDE DEF e, even
    <3>5. \A i \in 1 .. n : even[i] \in Int
      BY <3>3, <3>4 DEF e
    <3>. QED BY <2>2, <3>5
  <2>. QED BY <2>1, <2>2
<1> HIDE DEF counts
<1>4. FewValues(c, Sure(Cycled(c.rows, 1, n)))
  <2>1. 1 \in Int
    OBVIOUS
  <2> HIDE DEF n
  <2>. QED BY <1>2, <2>1, FewCycled
<1>5. Determined(AnyOf(1 .. n, c.rows)) => FewValues(c, AnyOf(1 .. n, c.rows))
  <2>1. 1 \in Int /\ n \in Nat /\ 1 + n - 1 = n
    BY <1>2
  <2>2. IsFiniteSet(1 .. n)
    <3> HIDE DEF n
    <3>. QED BY <2>1, Consecutive
  <2>. QED BY <1>2, <2>2, FewAnyOf
<1>6. FewValues(c, CaseOf(bands, n, c.rows))
  <2>1. \A i \in 1 .. n : v[i] = 1 + i - 1
    BY <1>2
  <2>2. v[n] = n /\ 1 \in Int
    BY <1>2
  <2> HIDE DEF n, v
  <2>. QED BY <1>2, <1>3, <2>1, <2>2, FewBands
<1>7. SingletonNumbers(c, h) =
        IF DistinctRatioFrom(c, 80) THEN Sure(Cycled(c.rows, 1, n))
        ELSE IF n > ExactValues THEN AnyOf(1 .. n, c.rows)
        ELSE CaseOf(bands, n, c.rows)
  <2>1. [i \in 1 .. n |-> Constant(counts[i], i)] = bands
    BY DEF ConstantBands
  <2>2. SingletonNumbers(c, h) =
          IF DistinctRatioFrom(c, 80) THEN Sure(Cycled(c.rows, 1, n))
          ELSE IF n > ExactValues THEN AnyOf(1 .. n, c.rows)
          ELSE Sure(Case([i \in 1 .. n |-> Constant(counts[i], i)], LAMBDA r : n, c.rows))
    BY DEF SingletonNumbers, counts
  <2>3. Sure(Case([i \in 1 .. n |-> Constant(counts[i], i)], LAMBDA r : n, c.rows))
          = CaseOf([i \in 1 .. n |-> Constant(counts[i], i)], n, c.rows)
    BY DEF Sure, Case, CaseOf
  <2>. QED BY <2>1, <2>2, <2>3
<1>. QED BY <1>4, <1>5, <1>6, <1>7

\* The cycles of the buckets are next to each other and end with the last value.
LEMMA EquiHeightNumbersFew ==
  ASSUME NEW c \in SourceColumns, NEW h, ToCorrect(c, h)
  PROVE  FewValues(c, EquiHeightNumbers(c, h))
<1> DEFINE n == Len(h.buckets)
           d == Distinct(c)
           distincts == NumberDistincts(c, h)
           sums == SumsOf(distincts)
           rows == NumberRows(c, h)
           K == 0 .. 0 + d - 1
           bands == [b \in 1 .. n |-> Cycled(rows[b], sums[b - 1], distincts[b])]
<1>1. /\ n \in Nat \ {0} /\ d \in Nat \ {0} /\ d <= Len(AllValues(c))
      /\ distincts \in [1 .. n -> Nat \ {0}] /\ SumOf(distincts) = d
      /\ c.rows \in Nat
  <2>1. /\ d \in Nat /\ n \in Nat \ {0} /\ n < d /\ Len(AllValues(c)) = d
        /\ c \in SourceColumns
    BY ToCorrectFacts DEF ToCorrect
  <2>2. c.rows \in Nat
    BY <2>1, ColumnFields
  <2>3. d \in Nat \ {0} /\ d <= Len(AllValues(c))
    <3> HIDE DEF d, n
    <3>. QED BY <2>1
  <2>. QED BY <2>1, <2>2, <2>3, NumberDistinctsShared
<1>2. DOMAIN rows = 1 .. n /\ \A b \in 1 .. n : rows[b] \in Int
  <2> DEFINE share == [b \in DOMAIN h.buckets |-> Weights(c, h)[b] * Total(c)]
             floor == [b \in DOMAIN share |-> share[b] \div Units]
             order == RankedPositions([b \in DOMAIN share |-> share[b] % Units])
             up    == {order[i] : i \in 1 .. AtMost(Len(order), Total(c) - SumOf(floor))}
  <2>1. rows = [b \in DOMAIN share |-> floor[b] + (IF b \in up THEN 1 ELSE 0)]
    BY DEF NumberRows
  <2>2. DOMAIN share = 1 .. n /\ AreBuckets(h.buckets)
    BY BucketRows DEF ToCorrect
  <2> HIDE DEF up
  <2>3. ASSUME NEW b \in 1 .. n PROVE floor[b] \in Nat
    <3>1. Weights(c, h) \in Seq(Nat) /\ Len(Weights(c, h)) = n
      BY <2>2, WeightsNat
    <3>2. Weights(c, h)[b] \in Nat /\ Total(c) \in Nat
      BY <3>1, CountsOf
    <3> DEFINE w == Weights(c, h)[b]
               t == Total(c)
    <3>3. w * t \in Nat
      <4> HIDE DEF w, t
      <4>1. w \in Nat /\ t \in Nat
        BY <3>2 DEF w, t
      <4>. QED BY <4>1
    <3>4. Units \in Nat \ {0}
      BY ColumnAssumption
    <3>5. floor[b] = (w * t) \div Units
      BY <2>2
    <3> DEFINE x == w * t
    <3> HIDE DEF x
    <3>6. x \div Units \in Nat
      BY <3>3, <3>4, DivMod DEF x
    <3>. QED BY <3>5, <3>6 DEF x
  <2> HIDE DEF share, floor
  <2>4. ASSUME NEW b \in 1 .. n PROVE floor[b] + (IF b \in up THEN 1 ELSE 0) \in Int
    <3>1. floor[b] \in Nat
      BY <2>3
    <3>2. CASE b \in up
      BY <3>1, <3>2
    <3>3. CASE b \notin up
      BY <3>1, <3>3
    <3>. QED BY <3>2, <3>3
  <2> HIDE DEF rows, n
  <2>. QED BY <2>1, <2>2, <2>4
<1> HIDE DEF n, d, distincts, rows
<1>3. distincts \in Seq(Nat) /\ distincts \in Seq(Int) /\ Len(distincts) = n
  BY <1>1
<1>4. /\ sums \in [0 .. n -> Nat] /\ sums[0] = 0 /\ sums[n] = d
      /\ \A i \in 1 .. n : sums[i] = sums[i - 1] + distincts[i]
      /\ \A i, j \in 0 .. n : i <= j => sums[i] <= sums[j]
  BY <1>1, <1>3, SumsOfNat, SumsOfInt DEF SumOf
<1> HIDE DEF sums
<1>5. ASSUME NEW b \in 1 .. n PROVE Cycled(rows[b], sums[b - 1], distincts[b]) \in Seq(K)
  <2> DEFINE low == sums[b - 1]
             cycle == distincts[b]
  <2>1. b - 1 \in 0 .. n /\ b \in 0 .. n /\ n \in 0 .. n /\ b <= n
    BY <1>1
  <2>2. low \in Nat /\ cycle \in Nat \ {0} /\ low + cycle <= d
    <3>1. sums[b] = low + cycle /\ sums[b] <= sums[n]
      BY <1>4, <2>1
    <3>2. low \in Nat /\ cycle \in Nat \ {0}
      BY <1>1, <1>4, <2>1
    <3>. QED BY <1>4, <3>1, <3>2
  <2> HIDE DEF low, cycle
  <2>3. low .. low + cycle - 1 \subseteq K
    BY <1>1, <2>2
  <2>4. low \in Int /\ rows[b] \in Int
    BY <1>2, <2>2
  <2> HIDE DEF K
  <2>5. Cycled(rows[b], low, cycle) \in Seq(K)
    BY <2>2, <2>3, <2>4, CycledIn
  <2>. QED BY <2>5 DEF low, cycle
<1>6. d - 1 \in K
  BY <1>1
<1> HIDE DEF K
<1>7. bands \in Seq(Seq(K))
  <2>1. bands \in [1 .. n -> Seq(K)]
    BY <1>5
  <2> HIDE DEF bands
  <2>. QED BY <1>1, <2>1
<1>8. EquiHeightNumbers(c, h) = CaseOf(bands, d - 1, c.rows)
  <2>1. EquiHeightNumbers(c, h) =
          CaseOf([b \in DOMAIN rows |-> Cycled(rows[b], sums[b - 1], distincts[b])],
                 SumOf(distincts) - 1, c.rows)
    BY DEF EquiHeightNumbers, Sure, Case, CaseOf, rows, sums, distincts
  <2>2. [b \in DOMAIN rows |-> Cycled(rows[b], sums[b - 1], distincts[b])] = bands
    BY <1>2
  <2>. QED BY <1>1, <2>1, <2>2
<1> DEFINE last == d - 1
<1> HIDE DEF bands
<1>9. EquiHeightNumbers(c, h) \in [1 .. c.rows -> SUBSET K]
  <2>1. last \in K /\ EquiHeightNumbers(c, h) = CaseOf(bands, last, c.rows)
    BY <1>6, <1>8
  <2> HIDE DEF last
  <2>2. CaseOf(bands, last, c.rows) \in [1 .. c.rows -> SUBSET K]
    BY <1>1, <1>7, <2>1, CaseOfIn
  <2>. QED BY <2>1, <2>2
<1>10. c \in SourceColumns /\ 0 \in Int /\ d \in Nat
  BY <1>1 DEF ToCorrect
<1>. QED BY <1>1, <1>9, <1>10, FewConsecutive DEF K

\* A histogram is of one of the two types.
LEMMA KindOfHistogram ==
  ASSUME NEW c \in SourceColumns, NEW h \in Histograms(c)
  PROVE  h = None \/ IsSingleton(h) \/ IsEquiHeight(h)
<1>1. CASE h = None
  BY <1>1
<1>2. CASE h # None /\ h \in SingletonHistograms(c)
  BY <1>2, SingletonBuckets DEF IsSingleton
<1>3. CASE h # None /\ h \in EquiHeightHistograms(c)
  BY <1>3, EquiHeightBuckets DEF IsEquiHeight
<1>. QED BY <1>1, <1>2, <1>3 DEF Histograms

-----------------------------------------------------------------------------
(* Strings.                                                                  *)

\* The positions that are ranked before one.
AheadOf(counts, b) ==
  {a \in DOMAIN counts : counts[a] > counts[b] \/ (counts[a] = counts[b] /\ a < b)}

\* There is a position of every rank: no two have the same number before them.
LEMMA RankedPositionsIn ==
  ASSUME NEW n \in Nat, NEW counts \in [1 .. n -> Int]
  PROVE  /\ RankedPositions(counts) \in [1 .. n -> 1 .. n]
         /\ \A i \in 1 .. n :
              Cardinality(AheadOf(counts, RankedPositions(counts)[i])) = i - 1
<1> DEFINE S == 1 .. n
           Ahead(b) == {a \in S : counts[a] > counts[b] \/ (counts[a] = counts[b] /\ a < b)}
           f == [b \in S |-> Cardinality(Ahead(b))]
<1>1. IsFiniteSet(S) /\ Cardinality(S) = n
  <2>1. 1 \in Int /\ 1 + n - 1 = n
    OBVIOUS
  <2>. QED BY <2>1, Consecutive
<1>2. \A b \in S : Ahead(b) \in SUBSET S /\ b \notin Ahead(b)
  OBVIOUS
<1>3. ASSUME NEW b \in S
      PROVE  /\ IsFiniteSet(Ahead(b)) /\ Cardinality(Ahead(b)) \in Nat
             /\ Cardinality(Ahead(b)) <= n
  <2> HIDE DEF S, Ahead
  <2>1. Ahead(b) \in SUBSET S
    BY <1>2
  <2>2. IsFiniteSet(Ahead(b)) /\ Cardinality(Ahead(b)) <= n
    BY <1>1, <2>1, FS_Subset
  <2>. QED BY <2>2, FS_CardinalityType
<1>4. ASSUME NEW a \in S, NEW b \in S, a \in Ahead(b)
      PROVE  f[a] # f[b]
  <2>1. Ahead(a) \in SUBSET Ahead(b)
    <3> SUFFICES ASSUME NEW x \in S,
                        counts[x] > counts[a] \/ (counts[x] = counts[a] /\ x < a)
                 PROVE  counts[x] > counts[b] \/ (counts[x] = counts[b] /\ x < b)
      OBVIOUS
    <3>1. counts[a] > counts[b] \/ (counts[a] = counts[b] /\ a < b)
      BY <1>4
    <3>2. /\ counts[x] \in Int /\ counts[a] \in Int /\ counts[b] \in Int
          /\ x \in Nat /\ a \in Nat /\ b \in Nat
      OBVIOUS
    <3>. QED BY <3>1, <3>2
  <2>2. Ahead(a) # Ahead(b)
    BY <1>2, <1>4
  <2> HIDE DEF S, Ahead
  <2>3. Cardinality(Ahead(b)) # Cardinality(Ahead(a))
    BY <1>3, <2>1, <2>2, FS_Subset
  <2>. QED BY <2>3
<1>5. \A a, b \in S : a # b => a \in Ahead(b) \/ b \in Ahead(a)
  <2> TAKE a, b \in S
  <2>1. counts[a] \in Int /\ counts[b] \in Int /\ a \in Nat /\ b \in Nat
    OBVIOUS
  <2>. QED BY <2>1
<1>6. ASSUME NEW k \in 0 .. n - 1 PROVE \E b \in S : f[b] = k
  <2> SUFFICES ASSUME \A b \in S : f[b] # k PROVE FALSE
    OBVIOUS
  <2> DEFINE T == (0 .. n - 1) \ {k}
  <2>1. IsFiniteSet(T) /\ Cardinality(T) < Cardinality(S)
    <3>1. 0 \in Int /\ 0 + n - 1 = n - 1
      OBVIOUS
    <3>2. IsFiniteSet(0 .. n - 1) /\ Cardinality(0 .. n - 1) = n
      BY <3>1, Consecutive
    <3> DEFINE U == 0 .. n - 1
    <3> HIDE DEF U, S
    <3>3. IsFiniteSet(U) /\ Cardinality(U) = n /\ k \in U
      BY <3>2 DEF U
    <3>4. IsFiniteSet(U \ {k}) /\ Cardinality(U \ {k}) = Cardinality(U) - 1
      BY <3>3, FS_RemoveElement
    <3>. QED BY <1>1, <3>3, <3>4 DEF U
  <2>2. ASSUME NEW b \in S PROVE f[b] \in T
    <3>1. Cardinality(Ahead(b)) # n
      <4> SUFFICES ASSUME Cardinality(Ahead(b)) = n PROVE FALSE
        OBVIOUS
      <4> HIDE DEF S, Ahead
      <4>1. Ahead(b) = S
        BY <1>1, <1>2, FS_Subset
      <4>. QED BY <1>2, <4>1
    <3>2. f[b] = Cardinality(Ahead(b))
      OBVIOUS
    <3> DEFINE x == f[b]
    <3>3. x \in Nat /\ x <= n /\ x # n /\ x # k
      BY <1>3, <3>1, <3>2
    <3> HIDE DEF x
    <3>4. x \in T
      BY <3>3
    <3>. QED BY <3>4 DEF x
  <2>3. f \in [S -> T]
    <3> HIDE DEF T, S, Ahead
    <3>1. f = [b \in S |-> f[b]]
      OBVIOUS
    <3> HIDE DEF f
    <3>. QED BY <2>2, <3>1
  <2> HIDE DEF f, S, T
  <2>4. \E a, b \in S : a # b /\ f[a] = f[b]
    BY <1>1, <2>1, <2>3, FS_PigeonHole
  <2>5. \A a, b \in S : a # b => f[a] # f[b]
    BY <1>4, <1>5
  <2>. QED BY <2>4, <2>5
<1> DEFINE Place(i) == CHOOSE b \in S : Cardinality(Ahead(b)) = i - 1
<1>7. ASSUME NEW i \in S PROVE Place(i) \in S /\ Cardinality(Ahead(Place(i))) = i - 1
  <2>1. i - 1 \in 0 .. n - 1
    OBVIOUS
  <2> DEFINE k == i - 1
  <2>2. \E b \in S : f[b] = k
    <3> HIDE DEF f, S
    <3>. QED BY <1>6, <2>1
  <2>3. \E b \in S : Cardinality(Ahead(b)) = k
    <3> HIDE DEF Ahead, S, k
    <3>. QED BY <2>2
  <2> HIDE DEF Ahead, S
  <2>. QED BY <2>3
<1>8. RankedPositions(counts) = [i \in S |-> Place(i)]
  <2>1. DOMAIN counts = S
    OBVIOUS
  <2>. QED BY <2>1 DEF RankedPositions
<1>9. \A b : Ahead(b) = AheadOf(counts, b)
  BY DEF AheadOf
<1> HIDE DEF Place, S, Ahead
<1>10. RankedPositions(counts) \in [S -> S]
  BY <1>7, <1>8
<1>11. \A i \in S : Cardinality(AheadOf(counts, RankedPositions(counts)[i])) = i - 1
  BY <1>7, <1>8, <1>9
<1>. QED BY <1>10, <1>11 DEF S

\* The pseudo counts of the buckets.
LEMMA PseudoCountsNat ==
  ASSUME NEW c \in SourceColumns, NEW h, AreBuckets(h.buckets)
  PROVE  PseudoCounts(c, h) \in [1 .. Len(h.buckets) -> Nat]
<1> DEFINE n == Len(h.buckets)
           whole == c.null + SumOf(RowsOf(h))
<1>1. DOMAIN h.buckets = 1 .. n
  BY BucketRows
<1>2. whole \in Nat \ {0} /\ Units \in Nat
  <2>1. c.null \in Nat
    BY ColumnFields
  <2>2. SumOf(RowsOf(h)) \in Nat \ {0}
    BY BucketRows
  <2>. QED BY <2>1, <2>2, ColumnAssumption
<1>3. ASSUME NEW b \in 1 .. n PROVE Rate(h.buckets[b].rows, whole, Units) \in Nat
  <2> DEFINE x == h.buckets[b].rows
  <2>1. x \in Nat
    BY DEF AreBuckets
  <2> HIDE DEF x, whole
  <2>2. x * Units \in Nat
    BY <1>2, <2>1
  <2> DEFINE y == x * Units
  <2> HIDE DEF y
  <2>3. y \div whole \in Nat
    BY <1>2, <2>2, DivMod DEF y
  <2>. QED BY <2>3 DEF Rate, x, y
<1>4. PseudoCounts(c, h) = [b \in 1 .. n |-> Rate(h.buckets[b].rows, whole, Units)]
  BY <1>1 DEF PseudoCounts
<1> HIDE DEF n, whole
<1>5. PseudoCounts(c, h) \in [1 .. n -> Nat]
  BY <1>3, <1>4
<1>. QED BY <1>5 DEF n

\* Strings with a singleton histogram: one string for each bucket.
LEMMA SingletonStringsFew ==
  ASSUME NEW c \in SourceColumns, NEW h \in Histograms(c), IsSingleton(h),
         SingletonStrings(c, h) # None
  PROVE  FewValues(c, SingletonStrings(c, h))
<1> DEFINE order   == RankedBuckets(c, h)
           pseudo  == [i \in DOMAIN order |-> PseudoCounts(c, h)[order[i]]]
           weights == [i \in DOMAIN order |-> RoundDiv(pseudo[i] * Units, SumOf(pseudo))]
           counts  == WeightedCounts(weights, Units, Total(c))
           n == Len(h.buckets)
           v == [i \in 1 .. n |-> Synthetic(i, c.length)]
           W == {v[i] : i \in 1 .. n}
           bands == ConstantBands(n, counts, v)
<1>1. AreBuckets(h.buckets) /\ n <= Len(AllValues(c))
  BY HistogramBuckets
<1>2. n \in Nat \ {0} /\ c.rows \in Nat /\ Total(c) \in Nat /\ Units \in Nat \ {0}
  <2>1. n \in Nat \ {0}
    BY <1>1 DEF AreBuckets
  <2>. QED BY <2>1, ColumnFields, CountsOf, ColumnAssumption
<1>3. PseudoCounts(c, h) \in [1 .. n -> Nat]
  BY <1>1, PseudoCountsNat
<1> HIDE DEF n
<1>4. order \in [1 .. n -> 1 .. n]
  <2> DEFINE s == PseudoCounts(c, h)
  <2>1. s \in [1 .. n -> Int] /\ n \in Nat
    BY <1>2, <1>3
  <2> HIDE DEF s
  <2>2. RankedPositions(s) \in [1 .. n -> 1 .. n]
    BY <2>1, RankedPositionsIn
  <2>. QED BY <2>2 DEF RankedBuckets, s
<1> HIDE DEF order
<1>5. DOMAIN order = 1 .. n /\ Len(order) = n
  BY <1>2, <1>4
<1>6. pseudo \in [1 .. n -> Nat]
  BY <1>3, <1>4, <1>5
<1> HIDE DEF pseudo
<1>7. SumOf(pseudo) \in Nat
  <2>1. pseudo \in Seq(Nat)
    BY <1>2, <1>6
  <2>. QED BY <2>1, SumsOfNat
<1>8. SingletonStrings(c, h) =
        IF SumOf(pseudo) = 0 THEN None ELSE CaseOf(bands, v[n], c.rows)
  <2>1. SingletonStrings(c, h) =
          IF SumOf(pseudo) = 0 THEN None
          ELSE CaseOf([i \in 1 .. n |-> Constant(counts[i], Synthetic(i, c.length))],
                      Synthetic(n, c.length), c.rows)
    BY <1>5 DEF SingletonStrings, Sure, Case, CaseOf, order, pseudo
  <2>2. n \in 1 .. n
    BY <1>2
  <2> HIDE DEF counts
  <2>3. [i \in 1 .. n |-> Constant(counts[i], Synthetic(i, c.length))] = bands
    BY DEF ConstantBands
  <2>4. Synthetic(n, c.length) = v[n]
    BY <2>2
  <2> HIDE DEF bands, v
  <2>. QED BY <2>1, <2>3, <2>4
<1>9. SumOf(pseudo) \in Nat \ {0}
  BY <1>7, <1>8
<1>10. \A i \in 1 .. n : counts[i] \in Int
  <2> DEFINE total == SumOf(pseudo)
  <2>1. ASSUME NEW i \in 1 .. n PROVE RoundDiv(pseudo[i] * Units, total) \in Nat
    <3> DEFINE x == pseudo[i] * Units
    <3>1. x \in Nat
      <4>1. pseudo[i] \in Nat
        BY <1>6
      <4>. QED BY <1>2, <4>1
    <3> HIDE DEF x, total
    <3>2. RoundDiv(x, total) \in Nat
      BY <1>9, <3>1, RoundDivNat DEF total
    <3>. QED BY <3>2 DEF x
  <2> HIDE DEF total
  <2>2. weights = [i \in 1 .. n |-> RoundDiv(pseudo[i] * Units, total)]
    BY <1>5 DEF total
  <2> HIDE DEF weights
  <2>3. weights \in Seq(Nat) /\ Len(weights) = n
    BY <1>2, <2>1, <2>2
  <2>4. counts \in Seq(Int) /\ Len(counts) = n
    BY <1>2, <2>3, WeightedCountsInt
  <2> HIDE DEF counts
  <2>. QED BY <2>4
<1> HIDE DEF counts
<1>11. IsFiniteSet(W) /\ Cardinality(W) <= n
  <2>1. v = [i \in 1 .. n |-> v[i]] /\ n \in Nat
    BY <1>2
  <2> HIDE DEF v
  <2>. QED BY <2>1, Numbered
<1>12. CaseOf(bands, v[n], c.rows) \in [1 .. c.rows -> SUBSET W]
  <2> HIDE DEF v
  <2>1. \A i \in 1 .. n : v[i] \in W
    OBVIOUS
  <2>2. v[n] \in W /\ n \in Nat
    <3>1. n \in 1 .. n
      BY <1>2
    <3> HIDE DEF W
    <3>. QED BY <2>1, <3>1
  <2> DEFINE last == v[n]
  <2>3. last \in W
    BY <2>2
  <2> HIDE DEF W, last
  <2>4. CaseOf(bands, last, c.rows) \in [1 .. c.rows -> SUBSET W]
    BY <1>2, <1>10, <2>1, <2>2, <2>3, ConstantBandsIn
  <2>. QED BY <2>4 DEF last
<1> HIDE DEF W, bands, v
<1>13. SingletonStrings(c, h) \in [1 .. c.rows -> SUBSET (W \cup {None})]
  BY <1>8, <1>9, <1>12
<1>14. n \in Nat /\ n <= AtLeast(1, Len(AllValues(c)))
  <2>1. n \in Nat /\ n <= Len(AllValues(c))
    BY <1>1, <1>2 DEF n
  <2>. QED BY <2>1, MostValues
<1>. QED BY <1>11, <1>13, <1>14, FewOf

\* The ordinals of the buckets follow each other up to the number of values.
LEMMA EquiHeightStringsFew ==
  ASSUME NEW c, NEW h, ToCorrect(c, h)
  PROVE  FewValues(c, EquiHeightStrings(c, h))
<1> DEFINE n == Len(h.buckets)
           d == Distinct(c)
           rows == LastTakesRest(RowsOf(h), Total(c))
           distincts == StringDistincts(c, h)
           room == [b \in DOMAIN rows |->
                      IF rows[b] <= 0 THEN 0 ELSE AtMost(StringDistincts(c, h)[b], rows[b])]
           sums == SumsOf(room)
           K == 1 .. d
           Band(b) == IF room[b] = 0 THEN <<>> ELSE Cycled(rows[b], sums[b - 1] + 1, room[b])
           bands == [b \in 1 .. n |-> Band(b)]
           last == AtLeast(SumOf(room), 1)
           numbers == Case(bands, LAMBDA r : last, c.rows)
           v == [i \in 1 .. d |-> SyntheticExpression(i)]
           W == {v[i] : i \in 1 .. d}
<1>1. /\ n \in Nat \ {0} /\ d \in Nat \ {0} /\ d <= Len(AllValues(c))
      /\ c.rows \in Nat /\ c \in SourceColumns
  <2>1. /\ d \in Nat /\ n \in Nat \ {0} /\ n < d /\ Len(AllValues(c)) = d
        /\ c \in SourceColumns
    BY ToCorrectFacts DEF ToCorrect
  <2>2. c.rows \in Nat
    BY <2>1, ColumnFields
  <2>3. d \in Nat \ {0} /\ d <= Len(AllValues(c))
    <3> HIDE DEF d, n
    <3>. QED BY <2>1
  <2>. QED BY <2>1, <2>2, <2>3
<1>2. distincts \in [1 .. n -> Nat \ {0}] /\ SumOf(distincts) = d
  BY StringDistinctsShared
<1>3. rows \in Seq(Int) /\ Len(rows) = n
  <2>1. RowsOf(h) \in Seq(Nat \ {0}) /\ Len(RowsOf(h)) = n
    BY BucketRows DEF ToCorrect
  <2> DEFINE s == RowsOf(h)
             t == Total(c)
  <2>2. t \in Int
    <3>1. t \in Nat
      BY <1>1, CountsOf
    <3>. QED BY <3>1
  <2> HIDE DEF s, t, n
  <2>3. s \in Seq(Int) /\ Len(s) = n
    BY <2>1 DEF s
  <2>4. LastTakesRest(s, t) \in Seq(Int) /\ Len(LastTakesRest(s, t)) = Len(s)
    BY <2>2, <2>3, LastTakesRestInt
  <2>. QED BY <2>3, <2>4 DEF s, t
<1> HIDE DEF n, d, rows
<1>4. /\ DOMAIN rows = 1 .. n /\ \A b \in 1 .. n : rows[b] \in Int
  BY <1>1, <1>3
<1>5. room = [b \in 1 .. n |-> IF rows[b] <= 0 THEN 0 ELSE AtMost(distincts[b], rows[b])]
  BY <1>4
<1> HIDE DEF distincts, room
<1>6. ASSUME NEW b \in 1 .. n PROVE room[b] \in Nat /\ room[b] <= distincts[b]
  <2>1. distincts[b] \in Nat \ {0} /\ rows[b] \in Int
    BY <1>2, <1>4
  <2>2. CASE rows[b] <= 0
    BY <1>5, <2>1, <2>2
  <2>3. CASE ~ (rows[b] <= 0)
    <3>1. room[b] = AtMost(distincts[b], rows[b])
      BY <1>5, <2>3
    <3>. QED BY <2>1, <2>3, <3>1 DEF AtMost
  <2>. QED BY <2>2, <2>3
<1>7. room \in Seq(Nat) /\ room \in Seq(Int) /\ Len(room) = n
  <2>1. room \in [1 .. n -> Nat]
    BY <1>5, <1>6
  <2>. QED BY <1>1, <2>1
<1>8. SumOf(room) \in Nat /\ SumOf(room) <= d
  <2>1. distincts \in Seq(Int) /\ Len(distincts) = n
    BY <1>1, <1>2
  <2>2. SumOf(room) <= SumOf(distincts)
    BY <1>6, <1>7, <2>1, SumsCompare
  <2>. QED BY <1>2, <1>7, <2>2, SumsOfNat
<1>9. /\ sums \in [0 .. n -> Nat] /\ sums[n] = SumOf(room)
      /\ \A i \in 1 .. n : sums[i] = sums[i - 1] + room[i]
      /\ \A i, j \in 0 .. n : i <= j => sums[i] <= sums[j]
  BY <1>7, SumsOfNat, SumsOfInt DEF SumOf
<1> HIDE DEF sums
<1>10. ASSUME NEW b \in 1 .. n PROVE Band(b) \in Seq(K)
  <2>1. CASE room[b] = 0
    <3> HIDE DEF K
    <3>. QED BY <2>1
  <2>2. CASE room[b] # 0
    <3> DEFINE low == sums[b - 1] + 1
               cycle == room[b]
    <3>1. b - 1 \in 0 .. n /\ b \in 0 .. n /\ n \in 0 .. n /\ b <= n
      BY <1>1
    <3>2. low \in Nat /\ low >= 1 /\ cycle \in Nat \ {0} /\ low + cycle - 1 <= d
      <4>1. sums[b] = sums[b - 1] + room[b] /\ sums[b] <= sums[n]
        BY <1>9, <3>1
      <4>2. sums[b - 1] \in Nat /\ room[b] \in Nat \ {0}
        BY <1>6, <1>9, <2>2, <3>1
      <4>3. sums[n] \in Nat /\ sums[n] <= d /\ sums[b] \in Nat
        BY <1>8, <1>9, <3>1
      <4> DEFINE x == sums[b - 1]
                 y == sums[b]
                 z == sums[n]
      <4>4. y = x + cycle /\ y <= z /\ z <= d /\ d \in Nat
        BY <1>1, <4>1, <4>3
      <4>5. x \in Nat /\ y \in Nat /\ z \in Nat /\ cycle \in Nat \ {0}
        BY <4>2, <4>3
      <4>6. low = x + 1
        OBVIOUS
      <4> HIDE DEF x, y, z, low, cycle
      <4>. QED BY <4>4, <4>5, <4>6
    <3> HIDE DEF low, cycle
    <3>3. low .. low + cycle - 1 \subseteq K
      BY <1>1, <3>2
    <3>4. low \in Int /\ rows[b] \in Int
      BY <1>4, <3>2
    <3> HIDE DEF K
    <3>5. Cycled(rows[b], low, cycle) \in Seq(K)
      BY <3>2, <3>3, <3>4, CycledIn
    <3>. QED BY <2>2, <3>5 DEF low, cycle
  <2> HIDE DEF Band
  <2>. QED BY <2>1, <2>2
<1>11. last \in K
  <2>1. SumOf(room) \in Int /\ 1 \in Int
    BY <1>8
  <2>2. last \in Int /\ last >= 1 /\ last \in {SumOf(room), 1}
    <3> HIDE DEF last
    <3>1. last = AtLeast(SumOf(room), 1)
      BY DEF last
    <3> DEFINE x == SumOf(room)
    <3>2. x \in Int /\ 1 \in Int /\ last = AtLeast(x, 1)
      BY <2>1, <3>1
    <3> HIDE DEF x
    <3>3. AtLeast(x, 1) \in Int /\ AtLeast(x, 1) >= 1 /\ AtLeast(x, 1) \in {x, 1}
      BY <3>2, BoundsOfTwo
    <3>. QED BY <3>2, <3>3 DEF x
  <2> HIDE DEF last
  <2>. QED BY <1>1, <1>8, <2>2
<1> HIDE DEF Band, last, K
<1>12. bands \in Seq(Seq(K))
  <2>1. bands \in [1 .. n -> Seq(K)]
    BY <1>10
  <2> HIDE DEF bands
  <2>. QED BY <1>1, <2>1
<1> DEFINE all == FlattenSeq(bands)
<1>13. all \in Seq(K)
  <2> HIDE DEF bands
  <2>. QED BY <1>12, FlattenIn
<1>14. EquiHeightStrings(c, h) =
         [r \in 1 .. c.rows |->
            {SyntheticExpression(IF r <= Len(all) THEN all[r] ELSE last)}]
  <2> DEFINE Given == [b \in DOMAIN rows |-> IF room[b] = 0 THEN <<>>
                        ELSE Cycled(rows[b], sums[b - 1] + 1, room[b])]
             items == [r \in 1 .. c.rows |->
                         IF r <= Len(FlattenSeq(Given)) THEN FlattenSeq(Given)[r]
                         ELSE AtLeast(SumOf(room), 1)]
  <2>1. EquiHeightStrings(c, h) =
          Sure([r \in DOMAIN items |-> SyntheticExpression(items[r])])
    BY DEF EquiHeightStrings, Case, rows, room, sums, distincts
  <2>2. Given = bands
    BY <1>4 DEF Band
  <2> HIDE DEF Given, bands
  <2>3. items = [r \in 1 .. c.rows |-> IF r <= Len(all) THEN all[r] ELSE last]
    BY <2>2 DEF last
  <2> HIDE DEF items, all
  <2>4. DOMAIN items = 1 .. c.rows
    BY <2>3
  <2>. QED BY <2>1, <2>3, <2>4 DEF Sure
<1> HIDE DEF all, bands
<1>15. ASSUME NEW r \in 1 .. c.rows
       PROVE  SyntheticExpression(IF r <= Len(all) THEN all[r] ELSE last) \in W
  <2> DEFINE x == IF r <= Len(all) THEN all[r] ELSE last
  <2>1. x \in K
    <3>1. CASE r <= Len(all)
      <4>1. r \in 1 .. Len(all)
        BY <1>1, <1>13, <3>1
      <4>. QED BY <1>13, <3>1, <4>1
    <3>2. CASE ~ (r <= Len(all))
      BY <1>11, <3>2
    <3>. QED BY <3>1, <3>2
  <2> HIDE DEF x
  <2>2. SyntheticExpression(x) \in W
    BY <2>1 DEF K
  <2>. QED BY <2>2 DEF x
<1>16. IsFiniteSet(W) /\ Cardinality(W) <= d
  <2>1. v = [i \in 1 .. d |-> v[i]] /\ d \in Nat
    BY <1>1
  <2> HIDE DEF v
  <2>. QED BY <2>1, Numbered
<1> HIDE DEF W
<1>17. EquiHeightStrings(c, h) \in [1 .. c.rows -> SUBSET (W \cup {None})]
  BY <1>14, <1>15
<1>18. d \in Nat /\ d <= AtLeast(1, Len(AllValues(c)))
  <2>1. d \in Nat
    BY <1>1
  <2>. QED BY <1>1, <2>1, MostValues
<1>. QED BY <1>1, <1>16, <1>17, <1>18, FewOf

-----------------------------------------------------------------------------
\* The columns that are neither foreign keys nor parts of a key.
LEMMA NumberColumnFew ==
  ASSUME NEW c \in SourceColumns, c.kind = "number", NEW h \in Histograms(c),
         NumberColumn(c, h) # None, Determined(NumberColumn(c, h))
  PROVE  FewValues(c, NumberColumn(c, h))
<1>1. c.kind # "fk" /\ c.rows \in Nat
  BY ColumnFields
<1>2. CASE ExactCountsApply(c)
  <2>1. NumberColumn(c, h) = ExactColumn(c)
    BY <1>2 DEF NumberColumn
  <2>. QED BY <1>1, <1>2, <2>1, ExactColumnFew
<1>3. CASE ~ ExactCountsApply(c) /\ IsSingleton(h)
  <2>1. ~ IsEquiHeight(h) /\ h # None
    BY <1>3 DEF IsSingleton, IsEquiHeight
  <2>2. NumberColumn(c, h) = SingletonNumbers(c, h)
    BY <1>3, <2>1 DEF NumberColumn
  <2>. QED BY <1>1, <1>3, <2>2, SingletonNumbersFew
<1>4. CASE ~ ExactCountsApply(c) /\ IsEquiHeight(h)
  <2>1. ~ IsSingleton(h) /\ h # None
    BY <1>4 DEF IsSingleton, IsEquiHeight
  <2>2. NumberColumn(c, h) = EquiHeightNumbers(c, h)
    BY <1>4, <2>1 DEF NumberColumn
  <2>3. ToCorrect(c, h)
    BY <1>1, <1>4, HistogramBuckets DEF ToCorrect
  <2>. QED BY <2>2, <2>3, EquiHeightNumbersFew
<1>5. CASE ~ ExactCountsApply(c) /\ h = None
  <2>1. ~ IsSingleton(h) /\ ~ IsEquiHeight(h)
    BY <1>5 DEF IsSingleton, IsEquiHeight
  <2>2. NumberColumn(c, h) = IF Distinct(c) = 0 THEN None ELSE AnyOf(0 .. 4, c.rows)
    BY <1>5, <2>1 DEF NumberColumn
  <2>3. NumberColumn(c, h) = AnyOf(0 .. 4, c.rows)
    BY <2>2
  <2>4. IsFiniteSet(0 .. 4)
    <3> DEFINE low == 0
               high == 4
    <3>1. low \in Int /\ high \in Int
      OBVIOUS
    <3> HIDE DEF low, high
    <3>2. IsFiniteSet(low .. high)
      BY <3>1, FS_Interval
    <3>. QED BY <3>2 DEF low, high
  <2>. QED BY <1>1, <2>3, <2>4, FewAnyOf
<1>6. h = None \/ IsSingleton(h) \/ IsEquiHeight(h)
  BY KindOfHistogram
<1>. QED BY <1>2, <1>3, <1>4, <1>5, <1>6

\* Strings: their histogram decides.
LEMMA StringColumnFew ==
  ASSUME NEW c \in SourceColumns, c.kind = "string", NEW h \in Histograms(c),
         StringColumn(c, h) # None, Determined(StringColumn(c, h))
  PROVE  FewValues(c, StringColumn(c, h))
<1>1. c.kind # "fk" /\ c.rows \in Nat
  BY ColumnFields
<1>2. CASE IsSingleton(h)
  <2>1. ~ IsEquiHeight(h) /\ h # None
    BY <1>2 DEF IsSingleton, IsEquiHeight
  <2>2. StringColumn(c, h) = SingletonStrings(c, h)
    BY <1>2, <2>1 DEF StringColumn
  <2>. QED BY <1>2, <2>2, SingletonStringsFew
<1>3. CASE IsEquiHeight(h)
  <2>1. ~ IsSingleton(h) /\ h # None
    BY <1>3 DEF IsSingleton, IsEquiHeight
  <2>2. StringColumn(c, h) = EquiHeightStrings(c, h)
    BY <1>3, <2>1 DEF StringColumn
  <2>3. ToCorrect(c, h)
    BY <1>1, <1>3, HistogramBuckets DEF ToCorrect
  <2>. QED BY <2>2, <2>3, EquiHeightStringsFew
<1>4. CASE h = None
  <2>1. ~ IsSingleton(h) /\ ~ IsEquiHeight(h)
    BY <1>4 DEF IsSingleton, IsEquiHeight
  <2>2. StringColumn(c, h) = AnyOf({Random}, c.rows)
    BY <1>4, <2>1 DEF StringColumn
  <2> DEFINE S == {Random}
  <2>3. IsFiniteSet(S)
    BY FS_Singleton
  <2> HIDE DEF S
  <2>4. StringColumn(c, h) = AnyOf(S, c.rows)
    BY <2>2 DEF S
  <2>. QED BY <1>1, <2>3, <2>4, FewAnyOf
<1>5. h = None \/ IsSingleton(h) \/ IsEquiHeight(h)
  BY KindOfHistogram
<1>. QED BY <1>2, <1>3, <1>4, <1>5

\* Of a set with any value the formula has to be random.
LEMMA FewRandom ==
  ASSUME NEW c \in SourceColumns, Determined(AnyOf({Random}, c.rows))
  PROVE  FewValues(c, AnyOf({Random}, c.rows))
<1> DEFINE S == {Random}
<1>1. IsFiniteSet(S) /\ c.rows \in Nat
  BY FS_Singleton, ColumnFields
<1> HIDE DEF S
<1>2. Determined(AnyOf(S, c.rows)) => FewValues(c, AnyOf(S, c.rows))
  BY <1>1, FewAnyOf
<1>. QED BY <1>2 DEF S

\* ... or of one value, if it is one of some consecutive ones.
LEMMA FewInterval ==
  ASSUME NEW c \in SourceColumns, NEW a \in Int, NEW b \in Int,
         Determined(AnyOf(a .. b, c.rows))
  PROVE  FewValues(c, AnyOf(a .. b, c.rows))
<1> DEFINE S == a .. b
<1>1. IsFiniteSet(S) /\ c.rows \in Nat
  BY FiniteInterval, ColumnFields
<1> HIDE DEF S
<1>2. Determined(AnyOf(S, c.rows)) => FewValues(c, AnyOf(S, c.rows))
  BY <1>1, FewAnyOf
<1>. QED BY <1>2 DEF S

\* Years.
LEMMA YearColumnFew ==
  ASSUME NEW c \in SourceColumns, IsYear(c), YearColumn(c) # None,
         Determined(YearColumn(c))
  PROVE  FewValues(c, YearColumn(c))
<1>1. c.span \in Nat /\ Distinct(c) \in Nat /\ FewYears \in Nat
  BY CountsOf, HistogramColumnAssumption DEF SourceColumns, IsYear
<1> DEFINE d == Distinct(c) - 1
<1>2. 0 \in Int /\ d \in Int /\ c.span \in Int
  BY <1>1
<1>3. CASE Distinct(c) = 0
  <2>1. YearColumn(c) = AnyOf({Random}, c.rows)
    BY <1>1, <1>3 DEF YearColumn
  <2>. QED BY <2>1, FewRandom
<1>4. CASE Distinct(c) \in 1 .. FewYears
  <2>1. YearColumn(c) = AnyOf(0 .. d, c.rows)
    BY <1>1, <1>4 DEF YearColumn
  <2> HIDE DEF d
  <2>. QED BY <1>2, <2>1, FewInterval
<1>5. CASE Distinct(c) > FewYears
  <2>1. YearColumn(c) = AnyOf(0 .. c.span, c.rows)
    BY <1>1, <1>5 DEF YearColumn
  <2>. QED BY <1>2, <2>1, FewInterval
<1>. QED BY <1>1, <1>3, <1>4, <1>5

\* The members of an enumeration.
LEMMA EnumColumnFew ==
  ASSUME NEW c \in SourceColumns, Determined(EnumColumn(c))
  PROVE  FewValues(c, EnumColumn(c))
<1> DEFINE P(i) == RoundDiv(c.freq[i] * Units, SumOf(c.freq)) > 0
           S == IF Distinct(c) = 0 THEN 1 .. c.size ELSE {i \in DOMAIN c.freq : P(i)}
<1>1. EnumColumn(c) = AnyOf(S, c.rows)
  BY DEF EnumColumn
<1>2. /\ c.size \in Int /\ Len(c.freq) \in Int /\ 1 \in Int /\ c.rows \in Nat
      /\ DOMAIN c.freq = 1 .. Len(c.freq)
  <2>1. c.freq \in Seq(Nat \ {0}) /\ c.size \in Nat /\ c.rows \in Nat
    BY ColumnFields
  <2>. QED BY <2>1
<1>3. IsFiniteSet(1 .. c.size) /\ IsFiniteSet(1 .. Len(c.freq))
  BY <1>2, FiniteInterval
<1> HIDE DEF P
<1>4. IsFiniteSet(S)
  <2> DEFINE D == DOMAIN c.freq
  <2>1. IsFiniteSet(D)
    BY <1>2, <1>3
  <2> HIDE DEF D
  <2>2. {i \in D : P(i)} \in SUBSET D
    OBVIOUS
  <2>3. IsFiniteSet({i \in D : P(i)})
    BY <2>1, <2>2, FS_Subset
  <2>. QED BY <1>3, <2>3 DEF D
<1> HIDE DEF S
<1>. QED BY <1>1, <1>2, <1>4, FewAnyOf

\* Dates with a bucket each: a cycle, bands, or random values.
LEMMA SparseDatesFew ==
  ASSUME NEW c \in SourceColumns, NEW h \in Histograms(c), IsSingleton(h),
         Determined(SparseDates(c, h))
  PROVE  FewValues(c, SparseDates(c, h))
<1> DEFINE n == Len(h.buckets)
           counts == [i \in 1 .. n |-> AtLeast(1, RoundDiv(Weights(c, h)[i] * Total(c), Units))]
           excess == SumOf(counts) - Total(c)
           most == Largest(counts, 1 .. n)
           fitted == IF excess > 0
                     THEN [counts EXCEPT ![most] = AtLeast(1, @ - excess)] ELSE counts
           v == [i \in 1 .. n |-> i - 1]
           bands == ConstantBands(n, fitted, v)
<1>1. AreBuckets(h.buckets) /\ n <= Len(AllValues(c))
  BY HistogramBuckets
<1>2. n \in Nat \ {0} /\ Total(c) \in Nat /\ c.rows \in Nat /\ Units \in Nat \ {0}
  BY <1>1, CountsOf, ColumnFields, ColumnAssumption DEF AreBuckets
<1>3. ASSUME NEW i \in 1 .. n PROVE counts[i] \in Int
  <2>1. Weights(c, h) \in Seq(Nat) /\ Len(Weights(c, h)) = n
    BY <1>1, WeightsNat
  <2> DEFINE w == Weights(c, h)[i] * Total(c)
  <2>2. w \in Nat
    <3>1. Weights(c, h)[i] \in Nat
      BY <2>1
    <3>. QED BY <1>2, <3>1
  <2> HIDE DEF w
  <2>3. RoundDiv(w, Units) \in Int /\ 1 \in Int
    <3>1. RoundDiv(w, Units) \in Nat
      BY <1>2, <2>2, RoundDivNat
    <3>. QED BY <3>1
  <2>4. AtLeast(1, RoundDiv(w, Units)) \in Int
    BY <2>3, BoundsOfTwo
  <2>. QED BY <2>4 DEF w
<1>4. counts = [i \in 1 .. n |-> counts[i]]
  OBVIOUS
<1> HIDE DEF counts
<1>5. counts \in Seq(Int) /\ DOMAIN counts = 1 .. n
  <2> HIDE DEF n
  <2>. QED BY <1>2, <1>3, <1>4
<1>6. excess \in Int
  <2>1. SumOf(counts) \in Int
    BY <1>5, SumsOfInt
  <2>. QED BY <1>2, <2>1
<1> HIDE DEF excess, most
<1>7. \A i \in 1 .. n : fitted[i] \in Int
  <2> TAKE i \in 1 .. n
  <2>1. fitted[i] = IF excess > 0 /\ i = most THEN AtLeast(1, counts[i] - excess) ELSE counts[i]
    BY <1>5
  <2>2. counts[i] \in Int /\ counts[i] - excess \in Int /\ 1 \in Int
    BY <1>3, <1>6
  <2>3. AtLeast(1, counts[i] - excess) \in Int
    BY <2>2, BoundsOfTwo
  <2> HIDE DEF fitted
  <2>. QED BY <2>1, <2>2, <2>3
<1> HIDE DEF fitted
<1>8. FewValues(c, Sure(Cycled(c.rows, 0, n)))
  <2>1. 0 \in Int
    OBVIOUS
  <2> HIDE DEF n
  <2>. QED BY <1>1, <1>2, <2>1, FewCycled
<1>9. FewValues(c, CaseOf(bands, n - 1, c.rows))
  <2>1. 0 \in Int /\ n \in 1 .. n /\ \A i \in 1 .. n : v[i] = 0 + i - 1
    BY <1>2
  <2>2. n - 1 = v[n]
    BY <2>1
  <2> HIDE DEF n, v
  <2>. QED BY <1>1, <1>2, <1>7, <2>1, <2>2, FewBands
<1>10. Determined(AnyOf(0 .. n - 1, c.rows)) => FewValues(c, AnyOf(0 .. n - 1, c.rows))
  <2> DEFINE d == n - 1
  <2>1. 0 \in Int /\ d \in Int
    BY <1>2
  <2> HIDE DEF d
  <2>2. Determined(AnyOf(0 .. d, c.rows)) => FewValues(c, AnyOf(0 .. d, c.rows))
    BY <2>1, FewInterval
  <2>. QED BY <2>2 DEF d
<1>11. SparseDates(c, h) =
         IF DistinctRatioFrom(c, 80) THEN Sure(Cycled(c.rows, 0, n))
         ELSE IF Total(c) <= n * RowsPerValue THEN CaseOf(bands, n - 1, c.rows)
         ELSE AnyOf(0 .. n - 1, c.rows)
  <2>1. [i \in 1 .. n |-> Constant(fitted[i], i - 1)] = bands
    BY DEF ConstantBands
  <2>2. SparseDates(c, h) =
          IF DistinctRatioFrom(c, 80) THEN Sure(Cycled(c.rows, 0, n))
          ELSE IF Total(c) <= n * RowsPerValue
          THEN CaseOf([i \in 1 .. n |-> Constant(fitted[i], i - 1)], n - 1, c.rows)
          ELSE AnyOf(0 .. n - 1, c.rows)
    BY DEF SparseDates, Sure, Case, CaseOf, fitted, most, excess, counts
  <2>. QED BY <2>1, <2>2
<1>. QED BY <1>8, <1>9, <1>10, <1>11

\* Dates and times, unless they are taken from the range of the source.
LEMMA DateColumnFew ==
  ASSUME NEW c \in SourceColumns, IsTemporal(c), NEW h \in Histograms(c),
         ~ OverRange(c, h), Determined(DateColumn(c, h))
  PROVE  FewValues(c, DateColumn(c, h))
<1>1. c.kind # "fk"
  BY DEF IsTemporal
<1>2. CASE ExactCountsApply(c)
  <2>1. DateColumn(c, h) = ExactColumn(c)
    BY <1>2 DEF DateColumn
  <2>. QED BY <1>1, <1>2, <2>1, ExactColumnFew
<1>3. CASE ~ ExactCountsApply(c) /\ h = None
  <2>1. DateColumn(c, h) = AnyOf({Random}, c.rows)
    BY <1>3 DEF DateColumn
  <2>. QED BY <2>1, FewRandom
<1>4. CASE ~ ExactCountsApply(c) /\ h # None
  <2>1. DateColumn(c, h) = SparseDates(c, h)
    BY <1>4 DEF DateColumn
  <2>2. IsSingleton(h)
    BY <1>4 DEF OverRange, IsTemporal
  <2>. QED BY <2>1, <2>2, SparseDatesFew
<1>. QED BY <1>2, <1>3, <1>4

\* Dates and times of the range: one more for each row at most, if there are
\* nearly as many values as rows.
LEMMA DenseDatesFew ==
  ASSUME NEW c \in SourceColumns, IsTemporal(c), c.rows <= Total(c),
         Determined(DenseDates(c))
  PROVE  9 * Cardinality(Generated(DenseDates(c)))
           <= 10 * AtLeast(1, Len(AllValues(c)))
<1> DEFINE G == Generated(DenseDates(c))
           known == AtLeast(1, Len(AllValues(c)))
<1>1. /\ c.rows \in Nat /\ c.span \in Nat \cup {None} /\ Total(c) \in Nat
      /\ Distinct(c) \in Nat /\ Len(AllValues(c)) = Distinct(c)
  BY ColumnFields, ValuesOfOther DEF IsTemporal
<1>2. known \in Int /\ known >= Distinct(c)
  <2>1. Len(AllValues(c)) \in Int /\ 1 \in Int
    BY <1>1
  <2>. QED BY <1>1, <2>1, BoundsOfTwo
<1>3. known \in Nat
  BY <1>1, <1>2
<1>4. ASSUME FewValues(c, DenseDates(c)), Cardinality(G) \in Nat
      PROVE  9 * Cardinality(G) <= 10 * known
  <2>1. Cardinality(G) <= known
    BY <1>4, FewGenerated
  <2> DEFINE g == Cardinality(G)
  <2> HIDE DEF g, known
  <2>2. 9 * g <= 10 * known
    BY <1>3, <1>4, <2>1 DEF g
  <2>. QED BY <2>2 DEF g
<1>5. CASE c.span # None /\ 10 * Distinct(c) > 9 * Total(c)
  <2> DEFINE s == Cycled(c.rows, 0, c.span + 1)
             T == {s[i] : i \in 1 .. c.rows}
  <2>1. DenseDates(c) = Sure(s) /\ DOMAIN s = 1 .. c.rows /\ s = [i \in 1 .. c.rows |-> s[i]]
    BY <1>5 DEF DenseDates, Cycled
  <2> HIDE DEF s
  <2>2. IsFiniteSet(T) /\ Cardinality(T) <= c.rows
    BY <1>1, <2>1, Numbered
  <2>3. G \in SUBSET T
    <3> SUFFICES ASSUME NEW x \in G PROVE x \in T
      OBVIOUS
    <3>1. PICK r \in DOMAIN Sure(s) : x \in Sure(s)[r]
      BY <2>1 DEF Generated, Range
    <3>. QED BY <2>1, <3>1 DEF Sure
  <2> HIDE DEF T, G, known
  <2>4. IsFiniteSet(G) /\ Cardinality(G) <= Cardinality(T)
    BY <2>2, <2>3, FS_Subset
  <2>5. Cardinality(G) \in Nat /\ Cardinality(T) \in Nat
    BY <2>2, <2>4, FS_CardinalityType
  <2> DEFINE g == Cardinality(G)
             t == Cardinality(T)
             total == Total(c)
             d == Distinct(c)
  <2>6. g \in Nat /\ t \in Nat /\ g <= t /\ t <= c.rows /\ c.rows <= total
        /\ total \in Nat /\ d \in Nat /\ 10 * d > 9 * total /\ known >= d
    BY <1>1, <1>2, <1>5, <2>2, <2>4, <2>5
  <2> HIDE DEF g, t, total, d
  <2>7. 9 * g <= 10 * known
    BY <1>1, <1>3, <2>6
  <2>. QED BY <2>7 DEF g, G, known
<1>6. CASE ~ (c.span # None /\ 10 * Distinct(c) > 9 * Total(c))
  <2>1. FewValues(c, DenseDates(c))
    <3>1. CASE c.span = None
      <4>1. DenseDates(c) = AnyOf({Random}, c.rows)
        BY <3>1 DEF DenseDates
      <4>. QED BY <4>1, FewRandom
    <3>2. CASE c.span # None
      <4>1. DenseDates(c) = AnyOf(0 .. c.span, c.rows) /\ 0 \in Int /\ c.span \in Int
        BY <1>1, <1>6, <3>2 DEF DenseDates, Offsets
      <4>. QED BY <4>1, FewInterval
    <3>. QED BY <3>1, <3>2
  <2>2. Cardinality(G) \in Nat
    <3> HIDE DEF G
    <3>1. IsFiniteSet(G)
      BY <2>1, FewFinite DEF G
    <3>. QED BY <3>1, FS_CardinalityType
  <2>. QED BY <1>4, <2>1, <2>2
<1>. QED BY <1>5, <1>6

\* No formula without random values gives a column more values than the source
\* has: the counts of the buckets may be rounded, guessed and scaled, but the
\* values come from a set that is not larger.  Dates and times of nearly as many
\* values as rows have the rows counted over their range: they get a ninth more
\* values than the source at most.
THEOREM NeverNewDistinct == Spec => []NoNewDistinct
<1>1. ColumnsIInv => NoNewDistinct
  <2> SUFFICES ASSUME ColumnsIInv, values # None, Determined(values),
                      column.rows <= Total(column), ~ Estimated(column)
               PROVE  LET given == Cardinality(Generated(values))
                          known == AtLeast(1, Len(AllValues(column)))
                      IN  IF OverRange(column, histogram) THEN 9 * given <= 10 * known
                                                          ELSE given <= known
    BY DEF NoNewDistinct
  <2>1. /\ column \in SourceColumns /\ histogram \in Histograms(column)
        /\ values = Formula(column, histogram)
    BY InputsAssumption DEF ColumnsIInv
  <2>2. CASE OverRange(column, histogram)
    <3>1. IsTemporal(column) /\ ~ ExactCountsApply(column) /\ histogram # None
      BY <2>2 DEF OverRange, IsTemporal
    <3>2. values = DateColumn(column, histogram)
      BY <2>1, <3>1 DEF Formula, IsTemporal
    <3>3. values = DenseDates(column)
      BY <2>2, <3>1, <3>2 DEF DateColumn
    <3>. QED BY <2>1, <2>2, <3>1, <3>3, DenseDatesFew
  <2>3. CASE ~ OverRange(column, histogram)
    <3>1. FewValues(column, values)
      <4>1. CASE column.kind = "fk"
        <5>1. values = FkColumn(column, histogram)
          BY <2>1, <4>1 DEF Formula
        <5>. QED BY <2>1, <5>1, FkColumnFew
      <4>2. CASE IsKey(column)
        <5>1. values = KeyColumn(column)
          BY <2>1, <4>2 DEF Formula, IsKey
        <5>. QED BY <2>1, <4>2, <5>1, KeyColumnFew
      <4>3. CASE IsKeyPart(column)
        <5>1. values = KeyPartColumn(column)
          BY <2>1, <4>3 DEF Formula, IsKeyPart
        <5>. QED BY <2>1, <4>3, <5>1, KeyPartColumnFew
      <4>4. CASE column.kind = "number"
        <5>1. values = NumberColumn(column, histogram)
          BY <2>1, <4>4 DEF Formula
        <5>. QED BY <2>1, <4>4, <5>1, NumberColumnFew
      <4>5. CASE column.kind = "string"
        <5>1. values = StringColumn(column, histogram)
          BY <2>1, <4>5 DEF Formula
        <5>. QED BY <2>1, <4>5, <5>1, StringColumnFew
      <4>6. CASE IsTemporal(column)
        <5>1. values = DateColumn(column, histogram)
          BY <2>1, <4>6 DEF Formula, IsTemporal
        <5>. QED BY <2>1, <2>3, <4>6, <5>1, DateColumnFew
      <4>7. CASE IsYear(column)
        <5>1. values = YearColumn(column)
          BY <2>1, <4>7 DEF Formula, IsYear
        <5>. QED BY <2>1, <4>7, <5>1, YearColumnFew
      <4>8. CASE column.kind = "enum"
        <5>1. values = EnumColumn(column)
          BY <2>1, <4>8 DEF Formula
        <5>. QED BY <2>1, <5>1, EnumColumnFew
      <4>9. CASE column.kind = "text"
        <5>1. values = AnyOf({Random}, column.rows)
          BY <2>1, <4>9 DEF Formula
        <5>. QED BY <2>1, <5>1, FewRandom
      <4>10. column.kind # "other"
        BY <2>1 DEF Formula
      <4>11. column.kind \in {"fk", "key", "key part", "string", "text", "date", "time",
                              "year", "enum", "number", "other"}
        BY <2>1 DEF SourceColumns
      <4>. QED BY <4>1, <4>2, <4>3, <4>4, <4>5, <4>6, <4>7, <4>8, <4>9, <4>10, <4>11
                  DEF IsKey, IsKeyPart, IsTemporal, IsYear
    <3>. QED BY <2>1, <2>3, <3>1, FewGenerated
  <2>. QED BY <2>2, <2>3
<1>. QED BY <1>1, ColumnsInvariance, PTL

-----------------------------------------------------------------------------
(* Rearrangements: the frequencies in another order.                         *)
Rearranged(s, t) ==
  \E f \in Bijection(DOMAIN s, DOMAIN t) : \A i \in DOMAIN s : s[i] = t[f[i]]

\* Some of the numbers up to n.
LEMMA SomePlaces ==
  ASSUME NEW n \in Nat, NEW T \in SUBSET (1 .. n)
  PROVE  IsFiniteSet(T) /\ Cardinality(T) \in Nat /\ Cardinality(T) <= n
<1>1. 1 \in Int /\ 1 + n - 1 = n
  OBVIOUS
<1> DEFINE S == 1 .. n
<1>2. IsFiniteSet(S) /\ Cardinality(S) = n
  BY <1>1, Consecutive
<1> HIDE DEF S
<1>3. T \in SUBSET S
  BY DEF S
<1>. QED BY <1>2, <1>3, FS_Subset, FS_CardinalityType

\* A bijection can be reversed.
LEMMA RearrangedBack ==
  ASSUME NEW s, NEW t, Rearranged(s, t)
  PROVE  Rearranged(t, s)
<1> DEFINE S == DOMAIN s
           T == DOMAIN t
<1>1. PICK f \in Bijection(S, T) : \A i \in S : s[i] = t[f[i]]
  BY DEF Rearranged
<1>2. /\ f \in [S -> T] /\ \A y \in T : \E x \in S : f[x] = y
      /\ \A x, y \in S : f[x] = f[y] => x = y
  BY <1>1 DEF Bijection, Injection, Surjection, IsInjective
<1> DEFINE g == [y \in T |-> CHOOSE x \in S : f[x] = y]
<1>3. ASSUME NEW y \in T PROVE g[y] \in S /\ f[g[y]] = y
  <2>1. \E x \in S : f[x] = y
    BY <1>2
  <2> HIDE DEF S
  <2>. QED BY <2>1
<1>4. g \in [T -> S]
  <2>1. g = [y \in T |-> g[y]]
    OBVIOUS
  <2> HIDE DEF g, S, T
  <2>. QED BY <1>3, <2>1
<1> HIDE DEF g, S, T
<1>5. \A x, y \in T : g[x] = g[y] => x = y
  BY <1>3
<1>6. \A x \in S : \E y \in T : g[y] = x
  BY <1>2, <1>3
<1>7. g \in Bijection(T, S)
  BY <1>4, <1>5, <1>6 DEF Bijection, Injection, Surjection, IsInjective
<1>8. \A y \in T : t[y] = s[g[y]]
  BY <1>1, <1>3
<1>. QED BY <1>7, <1>8 DEF Rearranged, S, T

\* One after the other.
LEMMA RearrangedTwice ==
  ASSUME NEW s, NEW t, NEW u, Rearranged(s, t), Rearranged(t, u)
  PROVE  Rearranged(s, u)
<1> DEFINE S == DOMAIN s
           T == DOMAIN t
           U == DOMAIN u
<1>1. PICK f \in Bijection(S, T) : \A i \in S : s[i] = t[f[i]]
  BY DEF Rearranged
<1>2. PICK g \in Bijection(T, U) : \A i \in T : t[i] = u[g[i]]
  BY DEF Rearranged
<1>3. /\ f \in [S -> T] /\ \A y \in T : \E x \in S : f[x] = y
      /\ \A x, y \in S : f[x] = f[y] => x = y
  BY <1>1 DEF Bijection, Injection, Surjection, IsInjective
<1>4. /\ g \in [T -> U] /\ \A y \in U : \E x \in T : g[x] = y
      /\ \A x, y \in T : g[x] = g[y] => x = y
  BY <1>2 DEF Bijection, Injection, Surjection, IsInjective
<1> DEFINE h == [i \in S |-> g[f[i]]]
<1> HIDE DEF S, T, U
<1>5. h \in [S -> U]
  BY <1>3, <1>4
<1>6. \A x, y \in S : h[x] = h[y] => x = y
  BY <1>3, <1>4
<1>7. \A y \in U : \E x \in S : h[x] = y
  BY <1>3, <1>4
<1>8. \A i \in S : s[i] = u[h[i]]
  BY <1>1, <1>2, <1>3
<1> HIDE DEF h
<1>9. h \in Bijection(S, U)
  BY <1>5, <1>6, <1>7 DEF Bijection, Injection, Surjection, IsInjective
<1>. QED BY <1>8, <1>9 DEF Rearranged, S, T, U

\* The values of the places that are in V are at as many places.
PlacesOf(s, V) == {i \in DOMAIN s : s[i] \in V}

\* As many places of the one have a value of V as of the other.
LEMMA RearrangedPlaces ==
  ASSUME NEW n \in Nat, NEW s, DOMAIN s = 1 .. n, NEW t, Rearranged(s, t), NEW V
  PROVE  Cardinality(PlacesOf(t, V)) = Cardinality(PlacesOf(s, V))
<1> DEFINE S == DOMAIN s
           T == DOMAIN t
           P == PlacesOf(s, V)
           Q == PlacesOf(t, V)
<1>1. PICK f \in Bijection(S, T) : \A i \in S : s[i] = t[f[i]]
  BY DEF Rearranged
<1>2. /\ f \in [S -> T] /\ \A y \in T : \E x \in S : f[x] = y
      /\ \A x, y \in S : f[x] = f[y] => x = y
  BY <1>1 DEF Bijection, Injection, Surjection, IsInjective
<1>3. P \subseteq S /\ Q \subseteq T /\ (\A i \in S : i \in P <=> s[i] \in V)
      /\ (\A i \in T : i \in Q <=> t[i] \in V)
  BY DEF PlacesOf
<1>4. IsFiniteSet(P)
  <2>1. P \in SUBSET (1 .. n)
    BY <1>3
  <2> HIDE DEF P
  <2>. QED BY <2>1, SomePlaces
<1> DEFINE g == [i \in P |-> f[i]]
<1> HIDE DEF S, T, P, Q
<1>5. g \in [P -> Q]
  BY <1>1, <1>2, <1>3
<1>6. \A x, y \in P : g[x] = g[y] => x = y
  BY <1>2, <1>3
<1>7. \A y \in Q : \E x \in P : g[x] = y
  <2> SUFFICES ASSUME NEW y \in Q PROVE \E x \in P : g[x] = y
    OBVIOUS
  <2>1. PICK x \in S : f[x] = y
    BY <1>2, <1>3
  <2>2. x \in P
    BY <1>1, <1>3, <2>1
  <2>. QED BY <2>1, <2>2
<1> HIDE DEF g
<1>8. g \in Bijection(P, Q)
  BY <1>5, <1>6, <1>7 DEF Bijection, Injection, Surjection, IsInjective
<1>9. Cardinality(Q) = Cardinality(P)
  BY <1>4, <1>8, FS_Bijection DEF ExistsBijection
<1>. QED BY <1>9 DEF P, Q

\* They are as many and the same.
LEMMA RearrangedSame ==
  ASSUME NEW n \in Nat, NEW s, DOMAIN s = 1 .. n, NEW m \in Nat, NEW t, DOMAIN t = 1 .. m,
         Rearranged(s, t)
  PROVE  m = n /\ Range(t) = Range(s)
<1>1. PICK f \in Bijection(1 .. n, 1 .. m) : \A i \in 1 .. n : s[i] = t[f[i]]
  BY DEF Rearranged
<1>2. /\ f \in [1 .. n -> 1 .. m] /\ \A y \in 1 .. m : \E x \in 1 .. n : f[x] = y
  BY <1>1 DEF Bijection, Injection, Surjection, IsInjective
<1>3. m = n
  <2>1. /\ IsFiniteSet(1 .. n) /\ Cardinality(1 .. n) = n
        /\ IsFiniteSet(1 .. m) /\ Cardinality(1 .. m) = m
    BY FS_Interval
  <2>2. ExistsBijection(1 .. n, 1 .. m)
    BY <1>1 DEF ExistsBijection
  <2>3. Cardinality(1 .. m) = Cardinality(1 .. n)
    BY <2>1, <2>2, FS_Bijection, Zenon
  <2>. QED BY <2>1, <2>3
<1>4. Range(t) \subseteq Range(s)
  BY <1>1, <1>2 DEF Range
<1>5. Range(s) \subseteq Range(t)
  BY <1>1, <1>2 DEF Range
<1>. QED BY <1>3, <1>4, <1>5

\* The rows behind the first k counts of a sequence, one by one.
CellsOf(s, k) == {e \in (1 .. k) \X Nat : e[2] \in 1 .. s[e[1]]}

\* The sum of a sequence is the number of its cells.
LEMMA SumIsCells ==
  ASSUME NEW s \in Seq(Nat)
  PROVE  IsFiniteSet(CellsOf(s, Len(s))) /\ Cardinality(CellsOf(s, Len(s))) = SumOf(s)
<1> DEFINE n == Len(s)
           sum == SumsOf(s)
           S == {k \in 0 .. n : IsFiniteSet(CellsOf(s, k)) /\ Cardinality(CellsOf(s, k)) = sum[k]}
<1>1. n \in Nat /\ s \in Seq(Int) /\ \A k \in 1 .. n : s[k] \in Nat
  OBVIOUS
<1>2. sum \in [0 .. n -> Nat] /\ sum[0] = 0 /\ \A k \in 1 .. n : sum[k] = sum[k - 1] + s[k]
  BY <1>1, SumsOfInt, SumsOfNat
<1>3. 0 \in S
  <2>1. CellsOf(s, 0) = {}
    BY DEF CellsOf
  <2>2. 0 \in 0 .. n
    BY <1>1
  <2> HIDE DEF n, sum
  <2>. QED BY <1>2, <2>1, <2>2, FS_EmptySet
<1>4. ASSUME NEW k \in 1 .. n, k - 1 \in S PROVE k \in S
  <2> DEFINE A == CellsOf(s, k - 1)
             B == {k} \X (1 .. s[k])
             g == [v \in 1 .. s[k] |-> <<k, v>>]
             C == CellsOf(s, k)
  <2>1. IsFiniteSet(A) /\ Cardinality(A) = sum[k - 1]
    BY <1>4
  <2>2. C = A \cup B
    <3>1. s[k] \in Nat
      BY <1>1
    <3>2. C \subseteq A \cup B
      <4> SUFFICES ASSUME NEW e \in C, e \notin A PROVE e \in B
        OBVIOUS
      <4>1. e = <<e[1], e[2]>> /\ e[1] \in 1 .. k /\ e[2] \in 1 .. s[e[1]] /\ e[2] \in Nat
        BY DEF CellsOf
      <4>2. e[1] \notin 1 .. k - 1
        BY <4>1 DEF CellsOf
      <4>3. e[1] = k
        BY <4>1, <4>2
      <4>. QED BY <4>1, <4>3
    <3>3. A \subseteq C
      BY DEF CellsOf
    <3>4. B \subseteq C
      <4> SUFFICES ASSUME NEW v \in 1 .. s[k] PROVE <<k, v>> \in C
        OBVIOUS
      <4>1. k \in 1 .. k /\ v \in Nat
        BY <1>1, <3>1
      <4>. QED BY <4>1 DEF CellsOf
    <3>. QED BY <3>2, <3>3, <3>4
  <2>3. A \cap B = {}
    <3> SUFFICES ASSUME NEW e \in A, e \in B PROVE FALSE
      OBVIOUS
    <3>1. e[1] = k
      OBVIOUS
    <3>2. e[1] \in 1 .. k - 1
      BY DEF CellsOf
    <3>. QED BY <3>1, <3>2
  <2>4. IsFiniteSet(B) /\ Cardinality(B) = s[k]
    <3>1. s[k] \in Nat
      BY <1>1
    <3>2. IsFiniteSet(1 .. s[k]) /\ Cardinality(1 .. s[k]) = s[k]
      <4>1. s[k] \in Int /\ 1 \in Int /\ (IF 1 > s[k] THEN 0 ELSE s[k] - 1 + 1) = s[k]
        BY <3>1
      <4>. QED BY <4>1, FS_Interval, Zenon
    <3>3. g \in Bijection(1 .. s[k], B)
      <4>1. g \in [1 .. s[k] -> B]
        OBVIOUS
      <4>2. \A x, y \in 1 .. s[k] : g[x] = g[y] => x = y
        <5> SUFFICES ASSUME NEW x \in 1 .. s[k], NEW y \in 1 .. s[k], <<k, x>> = <<k, y>>
                     PROVE  x = y
          OBVIOUS
        <5>. QED OBVIOUS
      <4>3. \A e \in B : \E x \in 1 .. s[k] : g[x] = e
        <5> SUFFICES ASSUME NEW e \in B PROVE \E x \in 1 .. s[k] : g[x] = e
          OBVIOUS
        <5>1. e[2] \in 1 .. s[k] /\ e = <<k, e[2]>>
          OBVIOUS
        <5>. QED BY <5>1
      <4> HIDE DEF g, B
      <4>. QED BY <4>1, <4>2, <4>3 DEF Bijection, Injection, Surjection, IsInjective
    <3> HIDE DEF g, B
    <3>4. ExistsBijection(1 .. s[k], B)
      BY <3>3 DEF ExistsBijection
    <3> DEFINE I == 1 .. s[k]
    <3> HIDE DEF I
    <3>. QED BY <3>2, <3>4, FS_Bijection DEF I
  <2> HIDE DEF A, B, g, C
  <2>5. IsFiniteSet(C) /\ Cardinality(C) = sum[k - 1] + s[k]
    <3>1. IsFiniteSet(C) /\ Cardinality(C) = Cardinality(A) + Cardinality(B) - Cardinality(A \cap B)
      BY <2>1, <2>2, <2>4, FS_Union
    <3>2. Cardinality(A \cap B) = 0
      BY <2>3, FS_EmptySet
    <3>3. sum[k - 1] \in Nat /\ s[k] \in Nat
      <4>1. k - 1 \in 0 .. n
        OBVIOUS
      <4> HIDE DEF sum, n
      <4>. QED BY <1>1, <1>2, <4>1
    <3>. QED BY <2>1, <2>4, <3>1, <3>2, <3>3
  <2>6. k \in 0 .. n /\ sum[k] = sum[k - 1] + s[k]
    BY <1>2
  <2>. QED BY <2>5, <2>6 DEF C
<1>5. 0 .. n \subseteq S
  <2> HIDE DEF S
  <2>. QED BY <1>1, <1>3, <1>4, UpFromZero
<1>6. n \in 0 .. n
  BY <1>1
<1>. QED BY <1>5, <1>6 DEF SumOf

\* Rearranged counts have the same sum.
LEMMA RearrangedSum ==
  ASSUME NEW s \in Seq(Nat), NEW t \in Seq(Nat), Rearranged(s, t)
  PROVE  SumOf(s) = SumOf(t)
<1> DEFINE S == DOMAIN s
           T == DOMAIN t
           P == CellsOf(s, Len(s))
           Q == CellsOf(t, Len(t))
<1>1. PICK f \in Bijection(S, T) : \A i \in S : s[i] = t[f[i]]
  BY DEF Rearranged
<1>2. /\ f \in [S -> T] /\ \A y \in T : \E x \in S : f[x] = y
      /\ \A x, y \in S : f[x] = f[y] => x = y
  BY <1>1 DEF Bijection, Injection, Surjection, IsInjective
<1>3. S = 1 .. Len(s) /\ T = 1 .. Len(t)
  OBVIOUS
<1>4. \A e : e \in P <=> e \in S \X Nat /\ e[2] \in 1 .. s[e[1]]
  BY <1>3 DEF CellsOf
<1>5. \A e : e \in Q <=> e \in T \X Nat /\ e[2] \in 1 .. t[e[1]]
  BY <1>3 DEF CellsOf
<1>6. IsFiniteSet(P) /\ Cardinality(P) = SumOf(s) /\ Cardinality(Q) = SumOf(t)
  BY SumIsCells
<1> DEFINE g == [e \in P |-> <<f[e[1]], e[2]>>]
<1> HIDE DEF S, T, P, Q
<1>7. ASSUME NEW e \in P PROVE g[e] \in Q
  <2>1. e \in S \X Nat /\ e[2] \in 1 .. s[e[1]]
    BY <1>4
  <2>2. e[1] \in S /\ e[2] \in Nat
    BY <2>1
  <2>3. f[e[1]] \in T /\ s[e[1]] = t[f[e[1]]]
    BY <1>1, <1>2, <2>2
  <2>4. <<f[e[1]], e[2]>> \in T \X Nat
    BY <2>2, <2>3
  <2>5. <<f[e[1]], e[2]>>[2] \in 1 .. t[<<f[e[1]], e[2]>>[1]]
    BY <2>1, <2>3
  <2>. QED BY <1>5, <2>4, <2>5
<1>8. g \in [P -> Q]
  <2>1. g = [e \in P |-> g[e]]
    OBVIOUS
  <2> HIDE DEF g
  <2>. QED BY <1>7, <2>1
<1>9. \A x, y \in P : g[x] = g[y] => x = y
  <2> SUFFICES ASSUME NEW x \in P, NEW y \in P, g[x] = g[y] PROVE x = y
    OBVIOUS
  <2>1. x \in S \X Nat /\ y \in S \X Nat
    BY <1>4
  <2>2. f[x[1]] = f[y[1]] /\ x[2] = y[2]
    OBVIOUS
  <2>3. x[1] \in S /\ y[1] \in S /\ x = <<x[1], x[2]>> /\ y = <<y[1], y[2]>>
    BY <2>1
  <2>4. x[1] = y[1]
    BY <1>2, <2>2, <2>3
  <2>. QED BY <2>2, <2>3, <2>4
<1>10. \A y \in Q : \E x \in P : g[x] = y
  <2> SUFFICES ASSUME NEW y \in Q PROVE \E x \in P : g[x] = y
    OBVIOUS
  <2>1. y \in T \X Nat /\ y[2] \in 1 .. t[y[1]]
    BY <1>5
  <2>2. y[1] \in T /\ y[2] \in Nat /\ y = <<y[1], y[2]>>
    BY <2>1
  <2>3. PICK i \in S : f[i] = y[1]
    BY <1>2, <2>2
  <2>4. <<i, y[2]>> \in S \X Nat /\ <<i, y[2]>>[2] \in 1 .. s[<<i, y[2]>>[1]]
    BY <1>1, <2>1, <2>2, <2>3
  <2>5. <<i, y[2]>> \in P
    BY <1>4, <2>4
  <2>6. g[<<i, y[2]>>] = <<f[i], y[2]>>
    BY <2>5
  <2>. QED BY <2>2, <2>3, <2>5, <2>6
<1> HIDE DEF g
<1>11. g \in Bijection(P, Q)
  BY <1>8, <1>9, <1>10 DEF Bijection, Injection, Surjection, IsInjective
<1>12. Cardinality(Q) = Cardinality(P)
  BY <1>6, <1>11, FS_Bijection DEF ExistsBijection
<1>. QED BY <1>6, <1>12


\* Descending is a rearrangement: its i-th is the least value with less than i
\* places above it.
PlacesAbove(s, x) == {j \in DOMAIN s : s[j] > x}

\* What is sorted is what there was, from the largest.
LEMMA DescendingIs ==
  ASSUME NEW s \in Seq(Nat)
  PROVE  /\ Rearranged(Descending(s), s)
         /\ Descending(s) \in Seq(Nat) /\ Len(Descending(s)) = Len(s)
         /\ \A i \in 1 .. Len(s) :
              /\ Descending(s)[i] \in Range(s)
              /\ Cardinality(PlacesAbove(s, Descending(s)[i])) < i
              /\ \A x \in Range(s) : Cardinality(PlacesAbove(s, x)) < i => Descending(s)[i] <= x
<1> DEFINE n == Len(s)
           D == 1 .. n
           o == RankedPositions(s)
           d == Descending(s)
<1>1. n \in Nat /\ s \in [1 .. n -> Int] /\ DOMAIN s = D /\ \A i \in D : s[i] \in Nat
  OBVIOUS
<1>2. o \in [D -> D] /\ \A i \in D : Cardinality(AheadOf(s, o[i])) = i - 1
  <2> HIDE DEF n
  <2>. QED BY <1>1, RankedPositionsIn
<1>3. DOMAIN d = D /\ \A i \in D : d[i] \in Nat
  BY DescendingIn
<1>4. \A x, y \in D : o[x] = o[y] => x = y
  <2> SUFFICES ASSUME NEW x \in D, NEW y \in D, o[x] = o[y] PROVE x = y
    OBVIOUS
  <2>1. x - 1 = y - 1
    <3> HIDE DEF o
    <3>. QED BY <1>2
  <2>. QED BY <2>1
<1> HIDE DEF o
<1>5. o \in Bijection(D, D)
  <2>1. o \in Injection(D, D)
    BY <1>2, <1>4 DEF Injection, IsInjective
  <2>2. IsFiniteSet(D)
    <3>1. n \in Int /\ 1 \in Int
      BY <1>1
    <3> HIDE DEF n
    <3>. QED BY <3>1, FS_Interval
  <2> HIDE DEF D
  <2>3. o \in Surjection(D, D)
    BY <2>1, <2>2, FS_Injection
  <2>. QED BY <2>1, <2>3 DEF Bijection
<1>6. ASSUME NEW i \in D
      PROVE  /\ d[i] = s[o[i]]
             /\ d[i] \in {x \in Range(s) : Cardinality({j \in DOMAIN s : s[j] > x}) < i}
             /\ \A x \in {x \in Range(s) : Cardinality({j \in DOMAIN s : s[j] > x}) < i} : d[i] <= x
  <2> DEFINE P(x) == {j \in DOMAIN s : s[j] > x}
             L == {x \in Range(s) : Cardinality(P(x)) < i}
             b == o[i]
             A == AheadOf(s, b)
  <2>1. b \in D /\ s[b] \in Nat /\ s[b] \in Range(s)
    BY <1>1, <1>2 DEF Range
  <2>2. A \in SUBSET (1 .. n) /\ b \notin A /\ Cardinality(A) = i - 1
    <3>1. ~ (s[b] > s[b]) /\ ~ (b < b)
      BY <2>1
    <3>. QED BY <1>1, <1>2, <3>1 DEF AheadOf
  <2>3. ASSUME NEW x PROVE P(x) \in SUBSET (1 .. n)
    BY <1>1
  <2>4. P(s[b]) \subseteq A
    BY DEF AheadOf
  <2> HIDE DEF b, A
  <2>5. IsFiniteSet(A) /\ Cardinality(P(s[b])) <= i - 1
    <3> DEFINE B == P(s[b])
    <3> HIDE DEF B
    <3>1. B \in SUBSET A
      BY <2>4 DEF B
    <3>2. IsFiniteSet(A) /\ Cardinality(B) <= Cardinality(A)
      <4> HIDE DEF n
      <4>. QED BY <1>1, <2>2, <3>1, SomePlaces, FS_Subset
    <3>. QED BY <2>2, <3>2 DEF B
  <2>6. s[b] \in L
    <3> DEFINE B == P(s[b])
    <3> HIDE DEF B
    <3>1. Cardinality(B) \in Nat
      <4>1. B \in SUBSET (1 .. n)
        BY <2>3 DEF B
      <4> HIDE DEF n
      <4>. QED BY <1>1, <4>1, SomePlaces
    <3>2. Cardinality(B) < i
      BY <2>5, <3>1 DEF B
    <3>. QED BY <2>1, <3>2 DEF B
  <2>7. ASSUME NEW x \in L PROVE s[b] <= x
    <3>1. x \in Nat /\ Cardinality(P(x)) < i
      BY <1>1 DEF Range
    <3>2. SUFFICES ASSUME x < s[b] PROVE FALSE
      BY <2>1, <3>1
    <3> DEFINE B == P(x)
    <3>3. A \cup {b} \subseteq B
      <4>1. b \in B
        BY <1>1, <2>1, <3>2
      <4>2. ASSUME NEW a \in A PROVE a \in B
        <5>1. a \in D /\ (s[a] > s[b] \/ s[a] = s[b])
          BY <1>1, <4>2 DEF A, AheadOf
        <5>2. s[a] \in Nat
          BY <1>1, <5>1
        <5>3. s[a] > x
          BY <2>1, <3>1, <3>2, <5>1, <5>2
        <5>. QED BY <1>1, <5>1, <5>3
      <4>. QED BY <4>1, <4>2
    <3>4. B \in SUBSET (1 .. n)
      BY <2>3
    <3>5. Cardinality(B) < i
      BY <3>1
    <3> HIDE DEF B, P, L
    <3>6. IsFiniteSet(B) /\ Cardinality(B) \in Nat
      <4> HIDE DEF n
      <4>. QED BY <1>1, <3>4, SomePlaces
    <3>7. Cardinality(A \cup {b}) = (i - 1) + 1
      BY <2>2, <2>5, FS_AddElement
    <3>8. Cardinality(A \cup {b}) <= Cardinality(B)
      BY <3>3, <3>6, FS_Subset
    <3>9. i \in Nat
      BY <1>1
    <3>. QED BY <3>5, <3>6, <3>7, <3>8, <3>9
  <2>8. d[i] = Min(L)
    BY <1>1 DEF Descending
  <2>9. L \subseteq Nat
    BY <1>1 DEF Range
  <2> HIDE DEF L
  <2>10. Min(L) \in L /\ \A y \in L : Min(L) <= y
    BY <2>6, <2>9, LeastElement
  <2>11. Min(L) = s[b]
    <3>1. Min(L) \in Nat /\ s[b] \in Nat
      BY <2>9, <2>10, <2>1
    <3>2. Min(L) <= s[b] /\ s[b] <= Min(L)
      BY <2>6, <2>7, <2>10
    <3>. QED BY <3>1, <3>2
  <2>. QED BY <2>8, <2>10, <2>11 DEF b, L
<1>7. d \in Seq(Nat) /\ Len(d) = n
  <2>1. d = [i \in D |-> d[i]]
    BY DEF Descending
  <2> HIDE DEF d
  <2>2. d \in [1 .. n -> Nat]
    BY <1>3, <2>1
  <2>. QED BY <1>1, <2>2
<1>8. Rearranged(d, s)
  BY <1>1, <1>3, <1>5, <1>6 DEF Rearranged
<1>9. ASSUME NEW i \in D
      PROVE  /\ d[i] \in Range(s) /\ Cardinality(PlacesAbove(s, d[i])) < i
             /\ \A x \in Range(s) : Cardinality(PlacesAbove(s, x)) < i => d[i] <= x
  <2> HIDE DEF d, D
  <2>. QED BY <1>6 DEF PlacesAbove
<1>. QED BY <1>7, <1>8, <1>9

-----------------------------------------------------------------------------
(* The groups of values of one frequency, and their merge, which is the      *)
(* difference of the histograms.                                             *)

\* The elements of a finite set, each once.
LEMMA SetToSeqIs ==
  ASSUME NEW S, IsFiniteSet(S)
  PROVE  /\ Cardinality(S) \in Nat
         /\ SetToSeq(S) \in [1 .. Cardinality(S) -> S]
         /\ \A i, j \in 1 .. Cardinality(S) : SetToSeq(S)[i] = SetToSeq(S)[j] => i = j
         /\ \A x \in S : \E i \in 1 .. Cardinality(S) : SetToSeq(S)[i] = x
<1> DEFINE n == Cardinality(S)
<1>1. n \in Nat /\ ExistsBijection(1 .. n, S)
  BY FS_CardinalityType
<1>2. PICK f : f \in Bijection(1 .. n, S)
  BY <1>1 DEF ExistsBijection
<1>3. f \in [1 .. n -> S] /\ IsInjective(f)
  BY <1>2 DEF Bijection, Injection
<1> DEFINE g == SetToSeq(S)
<1>4. g = CHOOSE h \in [1 .. n -> S] : IsInjective(h)
  BY DEF SetToSeq
<1> HIDE DEF g
<1>5. g \in [1 .. n -> S] /\ IsInjective(g)
  <2> HIDE DEF n
  <2>. QED BY <1>3, <1>4
<1>6. g \in Injection(1 .. n, S)
  BY <1>5 DEF Injection
<1>7. Cardinality(1 .. n) = n
  <2>1. 1 \in Int /\ n \in Int /\ (IF 1 > n THEN 0 ELSE n - 1 + 1) = n
    BY <1>1
  <2> HIDE DEF n
  <2>. QED BY <2>1, FS_Interval
<1>8. g \in Surjection(1 .. n, S)
  <2> DEFINE I == 1 .. n
  <2>1. Cardinality(I) = Cardinality(S) /\ g \in Injection(I, S)
    BY <1>6, <1>7
  <2> HIDE DEF I, n
  <2>2. g \in Surjection(I, S)
    BY <2>1, FS_Injection
  <2>. QED BY <2>2 DEF I
<1> HIDE DEF n
<1>. QED BY <1>1, <1>5, <1>8 DEF IsInjective, Surjection, g, n

\* Descending is in descending order.
LEMMA DescendingOrder ==
  ASSUME NEW s \in Seq(Nat), NEW i \in 1 .. Len(s), NEW j \in 1 .. Len(s), i <= j
  PROVE  Descending(s)[j] <= Descending(s)[i]
<1> DEFINE x == Descending(s)[i]
           a == Cardinality(PlacesAbove(s, x))
<1>1. x \in Range(s) /\ a < i /\ (a < j => Descending(s)[j] <= x)
  BY DescendingIs
<1>2. a \in Nat
  <2>1. PlacesAbove(s, x) \in SUBSET (1 .. Len(s)) /\ Len(s) \in Nat
    BY DEF PlacesAbove
  <2> HIDE DEF x
  <2>. QED BY <2>1, SomePlaces
<1> HIDE DEF a, x
<1>3. a < j
  BY <1>1, <1>2
<1>. QED BY <1>1, <1>3 DEF x

\* The groups of a sequence of counts, by falling frequency.
AreGroups(s, p) ==
  /\ Len(p) \in Nat
  /\ \A g \in 1 .. Len(p) :
       /\ p[g].frequency \in Nat \ {0} /\ p[g].frequency \in Range(s)
       /\ p[g].values = Cardinality(PlacesOf(s, {p[g].frequency}))
       /\ p[g].values \in Nat \ {0}
  /\ \A g, h \in 1 .. Len(p) : g < h => p[g].frequency > p[h].frequency
  /\ \A x \in Range(s) : \E g \in 1 .. Len(p) : p[g].frequency = x

\* The groups that the query returns are such groups.
LEMMA GroupsAre ==
  ASSUME NEW s \in Seq(Nat \ {0})
  PROVE  AreGroups(s, FrequencyGroups(s))
<1> DEFINE R == Range(s)
           m == Cardinality(R)
           u == SetToSeq(R)
           d == Descending(u)
           p == FrequencyGroups(s)
<1>1. DOMAIN s = 1 .. Len(s) /\ Len(s) \in Nat /\ R = {s[i] : i \in 1 .. Len(s)}
      /\ R \subseteq Nat \ {0}
  BY DEF Range
<1>2. IsFiniteSet(R)
  <2>1. s = [i \in 1 .. Len(s) |-> s[i]]
    OBVIOUS
  <2>2. IsFiniteSet({s[i] : i \in 1 .. Len(s)})
    BY <1>1, <2>1, Numbered
  <2>. QED BY <1>1, <2>2
<1> HIDE DEF R
<1>3. /\ m \in Nat /\ u \in [1 .. m -> R]
      /\ \A i, j \in 1 .. m : u[i] = u[j] => i = j
      /\ \A x \in R : \E i \in 1 .. m : u[i] = x
  BY <1>2, SetToSeqIs
<1> HIDE DEF u, m
<1>4. u \in Seq(Nat) /\ Len(u) = m /\ DOMAIN u = 1 .. m
  <2>1. u \in [1 .. m -> Nat]
    BY <1>1, <1>3
  <2>. QED BY <1>3, <2>1
<1>5. Rearranged(d, u) /\ d \in Seq(Nat) /\ Len(d) = m /\ DOMAIN d = 1 .. m
  BY <1>3, <1>4, DescendingIs
<1>6. \A i, j \in 1 .. m : i <= j => d[j] <= d[i]
  BY <1>4, DescendingOrder
<1> HIDE DEF d
<1>7. PICK f \in Bijection(1 .. m, 1 .. m) : \A i \in 1 .. m : d[i] = u[f[i]]
  BY <1>4, <1>5 DEF Rearranged
<1>8. /\ f \in [1 .. m -> 1 .. m] /\ \A y \in 1 .. m : \E x \in 1 .. m : f[x] = y
      /\ \A x, y \in 1 .. m : f[x] = f[y] => x = y
  BY <1>7 DEF Bijection, Injection, Surjection, IsInjective
<1>9. \A i \in 1 .. m : d[i] \in R /\ d[i] \in Nat \ {0}
  BY <1>1, <1>3, <1>7, <1>8
<1>10. \A i, j \in 1 .. m : i # j => d[i] # d[j]
  BY <1>3, <1>7, <1>8
<1>11. \A x \in R : \E i \in 1 .. m : d[i] = x
  <2> SUFFICES ASSUME NEW x \in R PROVE \E i \in 1 .. m : d[i] = x
    OBVIOUS
  <2>1. PICK j \in 1 .. m : u[j] = x
    BY <1>3
  <2>2. PICK i \in 1 .. m : f[i] = j
    BY <1>8
  <2>3. d[i] = u[f[i]]
    BY <1>7
  <2>. QED BY <2>1, <2>2, <2>3
<1>12. p = [g \in 1 .. m |-> [frequency |-> d[g],
                              values |-> Cardinality({v \in DOMAIN s : s[v] = d[g]})]]
  BY <1>5 DEF FrequencyGroups, d, u, R
<1> HIDE DEF p
<1>13. DOMAIN p = 1 .. m /\ Len(p) = m
  BY <1>3, <1>12
<1>14. ASSUME NEW g \in 1 .. m
       PROVE  /\ p[g].frequency = d[g]
              /\ p[g].values = Cardinality(PlacesOf(s, {p[g].frequency}))
              /\ p[g].values \in Nat \ {0}
  <2>1. p[g].frequency = d[g] /\ p[g].values = Cardinality({v \in DOMAIN s : s[v] = d[g]})
    BY <1>12
  <2> DEFINE P == {v \in DOMAIN s : s[v] = d[g]}
  <2>2. P = PlacesOf(s, {d[g]})
    BY DEF PlacesOf
  <2>3. P \in SUBSET (1 .. Len(s)) /\ P # {}
    <3>1. d[g] \in R
      BY <1>9
    <3>. QED BY <1>1, <3>1
  <2> HIDE DEF P
  <2>4. IsFiniteSet(P) /\ Cardinality(P) \in Nat
    BY <1>1, <2>3, SomePlaces
  <2>5. Cardinality(P) # 0
    BY <2>3, <2>4, FS_EmptySet
  <2>. QED BY <2>1, <2>2, <2>4, <2>5 DEF P
<1>15. \A g, h \in 1 .. m : g < h => d[g] > d[h]
  BY <1>6, <1>9, <1>10
<1>16. Len(p) \in Nat
  BY <1>3, <1>13
<1>17. \A g \in 1 .. Len(p) :
         /\ p[g].frequency \in Nat \ {0} /\ p[g].frequency \in R
         /\ p[g].values = Cardinality(PlacesOf(s, {p[g].frequency}))
         /\ p[g].values \in Nat \ {0}
  BY <1>9, <1>13, <1>14
<1>18. \A g, h \in 1 .. Len(p) : g < h => p[g].frequency > p[h].frequency
  BY <1>13, <1>14, <1>15
<1>19. \A x \in R : \E g \in 1 .. Len(p) : p[g].frequency = x
  <2> SUFFICES ASSUME NEW x \in R PROVE \E g \in 1 .. Len(p) : p[g].frequency = x
    OBVIOUS
  <2>1. PICK g \in 1 .. m : d[g] = x
    BY <1>11
  <2>2. p[g].frequency = d[g] /\ g \in 1 .. Len(p)
    BY <1>13, <1>14
  <2>. QED BY <2>1, <2>2
<1>20. AreGroups(s, p)
  BY <1>16, <1>17, <1>18, <1>19, Zenon DEF AreGroups, R
<1>. QED BY <1>20 DEF p

\* The places of the groups before the i-th.
PlacesBefore(s, p, i) == PlacesOf(s, {p[g].frequency : g \in 1 .. i - 1})

\* Each group adds its values to the places before it, from none to all.
LEMMA PlacesBeforeNext ==
  ASSUME NEW s \in Seq(Nat \ {0}), NEW p, AreGroups(s, p)
  PROVE  /\ Cardinality(PlacesBefore(s, p, 1)) = 0
         /\ Cardinality(PlacesBefore(s, p, Len(p) + 1)) = Len(s)
         /\ \A i \in 1 .. Len(p) + 1 : /\ Cardinality(PlacesBefore(s, p, i)) \in Nat
                                       /\ Cardinality(PlacesBefore(s, p, i)) <= Len(s)
         /\ \A i \in 1 .. Len(p) :
              Cardinality(PlacesBefore(s, p, i + 1))
                = Cardinality(PlacesBefore(s, p, i)) + p[i].values
<1> DEFINE B(i) == PlacesBefore(s, p, i)
<1>1. DOMAIN s = 1 .. Len(s) /\ Len(s) \in Nat
  OBVIOUS
<1>2. \A i : B(i) \in SUBSET (1 .. Len(s))
  BY <1>1 DEF PlacesBefore, PlacesOf
<1>3. \A i : IsFiniteSet(B(i)) /\ Cardinality(B(i)) \in Nat /\ Cardinality(B(i)) <= Len(s)
  <2> TAKE i
  <2> HIDE DEF B
  <2>. QED BY <1>1, <1>2, SomePlaces
<1>4. Cardinality(B(1)) = 0
  <2>1. B(1) = {}
    BY DEF PlacesBefore, PlacesOf
  <2>. QED BY <2>1, FS_EmptySet
<1>5. Cardinality(B(Len(p) + 1)) = Len(s)
  <2>1. B(Len(p) + 1) = 1 .. Len(s)
    <3> SUFFICES ASSUME NEW v \in 1 .. Len(s) PROVE v \in B(Len(p) + 1)
      BY <1>2
    <3>1. s[v] \in Range(s)
      BY <1>1 DEF Range
    <3>2. PICK g \in 1 .. Len(p) : p[g].frequency = s[v]
      BY <3>1 DEF AreGroups
    <3>3. (Len(p) + 1) - 1 = Len(p)
      BY DEF AreGroups
    <3>. QED BY <1>1, <3>2, <3>3 DEF PlacesBefore, PlacesOf
  <2>2. Cardinality(1 .. Len(s)) = Len(s)
    <3>1. 1 \in Int /\ Len(s) \in Int /\ (IF 1 > Len(s) THEN 0 ELSE Len(s) - 1 + 1) = Len(s)
      BY <1>1
    <3>. QED BY <3>1, FS_Interval
  <2>. QED BY <2>1, <2>2
<1>6. ASSUME NEW i \in 1 .. Len(p)
      PROVE  Cardinality(B(i + 1)) = Cardinality(B(i)) + p[i].values
  <2> DEFINE P == PlacesOf(s, {p[i].frequency})
  <2>1. Len(p) \in Nat /\ (i + 1) - 1 = i /\ 1 .. i = (1 .. i - 1) \cup {i}
    BY DEF AreGroups
  <2>2. B(i + 1) = B(i) \cup P
    BY <2>1 DEF PlacesBefore, PlacesOf
  <2>3. B(i) \cap P = {}
    <3> SUFFICES ASSUME NEW v \in B(i), v \in P PROVE FALSE
      OBVIOUS
    <3>1. PICK g \in 1 .. i - 1 : s[v] = p[g].frequency
      BY DEF PlacesBefore, PlacesOf
    <3>2. s[v] = p[i].frequency
      BY DEF PlacesOf
    <3>3. g \in 1 .. Len(p) /\ g < i
      BY <2>1
    <3>4. p[g].frequency > p[i].frequency /\ p[i].frequency \in Nat
      BY <3>3 DEF AreGroups
    <3>. QED BY <3>1, <3>2, <3>4
  <2>4. P \in SUBSET (1 .. Len(s))
    BY <1>1 DEF PlacesOf
  <2>5. Cardinality(P) = p[i].values
    BY DEF AreGroups
  <2> HIDE DEF P, B
  <2>6. IsFiniteSet(P) /\ Cardinality(P) \in Nat
    BY <1>1, <2>4, SomePlaces
  <2>7. Cardinality(B(i + 1)) = Cardinality(B(i)) + Cardinality(P) - Cardinality(B(i) \cap P)
    BY <1>3, <2>2, <2>6, FS_Union
  <2>8. Cardinality(B(i) \cap P) = 0
    BY <2>3, FS_EmptySet
  <2>. QED BY <1>3, <2>5, <2>6, <2>7, <2>8
<1>. QED BY <1>3, <1>4, <1>5, <1>6

\* At the places of a group Descending has its frequency.
LEMMA DescendingInGroup ==
  ASSUME NEW s \in Seq(Nat \ {0}), NEW p, AreGroups(s, p), NEW i \in 1 .. Len(p),
         NEW t \in 1 .. Len(s), Cardinality(PlacesBefore(s, p, i)) < t,
         t <= Cardinality(PlacesBefore(s, p, i + 1))
  PROVE  Descending(s)[t] = p[i].frequency
<1> DEFINE x == p[i].frequency
           d == Descending(s)[t]
<1>1. DOMAIN s = 1 .. Len(s) /\ Len(s) \in Nat /\ Len(p) \in Nat
      /\ \A v \in 1 .. Len(s) : s[v] \in Nat /\ s[v] \in Range(s)
  BY DEF AreGroups, Range
<1>2. x \in Range(s) /\ x \in Nat
  BY DEF AreGroups
<1>3. /\ d \in Range(s) /\ Cardinality(PlacesAbove(s, d)) < t
      /\ \A y \in Range(s) : Cardinality(PlacesAbove(s, y)) < t => d <= y
  BY DescendingIs
<1>4. \A g, h \in 1 .. Len(p) : p[g].frequency > p[h].frequency <=> g < h
  <2> TAKE g, h \in 1 .. Len(p)
  <2>1. /\ p[g].frequency \in Nat /\ p[h].frequency \in Nat
        /\ g < h => p[g].frequency > p[h].frequency
        /\ h < g => p[h].frequency > p[g].frequency
    BY DEF AreGroups
  <2>2. g < h \/ g = h \/ h < g
    BY <1>1
  <2> DEFINE a == p[g].frequency
             b == p[h].frequency
  <2>3. a \in Nat /\ b \in Nat /\ (g < h => a > b) /\ (h < g => b > a) /\ (g = h => a = b)
    BY <2>1
  <2> HIDE DEF a, b
  <2>4. a > b <=> g < h
    BY <1>1, <2>2, <2>3
  <2>. QED BY <2>4 DEF a, b
<1>5. PlacesAbove(s, x) = PlacesBefore(s, p, i)
  <2>1. ASSUME NEW v \in 1 .. Len(s), s[v] > x PROVE v \in PlacesBefore(s, p, i)
    <3>1. PICK g \in 1 .. Len(p) : p[g].frequency = s[v]
      BY <1>1 DEF AreGroups
    <3>2. g < i
      <4>1. p[g].frequency > p[i].frequency
        BY <2>1, <3>1
      <4>. QED BY <1>4, <4>1
    <3>3. g \in 1 .. i - 1
      BY <1>1, <3>2
    <3>. QED BY <1>1, <3>1, <3>3 DEF PlacesBefore, PlacesOf
  <2>2. ASSUME NEW v \in PlacesBefore(s, p, i) PROVE v \in 1 .. Len(s) /\ s[v] > x
    <3>1. PICK g \in 1 .. i - 1 : s[v] = p[g].frequency
      BY DEF PlacesBefore, PlacesOf
    <3>2. g \in 1 .. Len(p) /\ g < i
      BY <1>1
    <3>. QED BY <1>1, <1>4, <3>1, <3>2 DEF PlacesBefore, PlacesOf
  <2>. QED BY <1>1, <2>1, <2>2 DEF PlacesAbove
<1>6. d <= x
  BY <1>2, <1>3, <1>5
<1>7. SUFFICES ASSUME d # x PROVE FALSE
  OBVIOUS
<1>8. PICK g \in 1 .. Len(p) : p[g].frequency = d
  BY <1>3 DEF AreGroups
<1>9. i < g /\ d \in Nat
  <2>1. d \in Nat
    BY <1>8 DEF AreGroups
  <2>2. x > d
    BY <1>2, <1>6, <1>7, <2>1
  <2>. QED BY <1>4, <1>8, <2>1, <2>2
<1>10. PlacesBefore(s, p, i + 1) \subseteq PlacesAbove(s, d)
  <2> SUFFICES ASSUME NEW v \in PlacesBefore(s, p, i + 1) PROVE v \in PlacesAbove(s, d)
    OBVIOUS
  <2>1. (i + 1) - 1 = i
    OBVIOUS
  <2>2. v \in DOMAIN s /\ \E h \in 1 .. i : s[v] = p[h].frequency
    BY <2>1 DEF PlacesBefore, PlacesOf
  <2>3. PICK h \in 1 .. i : s[v] = p[h].frequency
    BY <2>2
  <2>4. h \in 1 .. Len(p) /\ h < g
    BY <1>1, <1>9
  <2>5. s[v] > d
    BY <1>4, <1>8, <2>3, <2>4
  <2>. QED BY <2>2, <2>5 DEF PlacesAbove
<1> DEFINE A == PlacesAbove(s, d)
           B == PlacesBefore(s, p, i + 1)
<1>11. A \in SUBSET (1 .. Len(s)) /\ B \in SUBSET (1 .. Len(s))
  BY <1>1 DEF PlacesAbove, PlacesBefore, PlacesOf
<1>12. B \subseteq A /\ Cardinality(A) < t /\ t <= Cardinality(B)
  BY <1>3, <1>10
<1> HIDE DEF A, B
<1>13. IsFiniteSet(A) /\ Cardinality(A) \in Nat /\ Cardinality(B) \in Nat
  BY <1>1, <1>11, SomePlaces
<1>14. Cardinality(B) <= Cardinality(A)
  BY <1>12, <1>13, FS_Subset
<1>. QED BY <1>12, <1>13, <1>14

\* The t-th largest frequency, 0 after the last.
RankedAt(s, t) == IF t <= Len(s) THEN Descending(s)[t] ELSE 0

\* After t ranks the merge is at group i, with x of its values left.
AtPlace(s, p, i, x, t) ==
  /\ i \in 1 .. Len(p) + 1
  /\ i <= Len(p) => x \in 1 .. p[i].values /\ t + x = Cardinality(PlacesBefore(s, p, i + 1))
  /\ i > Len(p)  => x = 0 /\ t >= Len(s)

\* One side of a turn of the merge.
LEMMA SideAdvances ==
  ASSUME NEW s \in Seq(Nat \ {0}), NEW p, AreGroups(s, p), NEW i, NEW x, NEW t \in Nat,
         AtPlace(s, p, i, x, t), NEW take \in Nat, i <= Len(p) => take <= x
  PROVE  /\ \A u \in t + 1 .. t + take : RankedAt(s, u) = FrequencyAt(p, i)
         /\ AtPlace(s, p, IF i <= Len(p) /\ x = take THEN i + 1 ELSE i,
                    IF i <= Len(p) /\ x = take THEN ValuesAt(p, i + 1)
                    ELSE IF i <= Len(p) THEN x - take ELSE 0, t + take)
         /\ i <= Len(p) => t + take <= Len(s)
<1> DEFINE C(g) == Cardinality(PlacesBefore(s, p, g))
<1>1. Len(p) \in Nat /\ Len(s) \in Nat /\ i \in 1 .. Len(p) + 1
  BY DEF AreGroups, AtPlace
<1>2. /\ C(Len(p) + 1) = Len(s)
      /\ \A g \in 1 .. Len(p) + 1 : C(g) \in Nat /\ C(g) <= Len(s)
      /\ \A g \in 1 .. Len(p) : C(g + 1) = C(g) + p[g].values /\ p[g].values \in Nat \ {0}
  <2>1. \A g \in 1 .. Len(p) : p[g].values \in Nat \ {0}
    BY DEF AreGroups
  <2>. QED BY <2>1, PlacesBeforeNext
<1>3. CASE i <= Len(p)
  <2>1. i \in 1 .. Len(p) /\ i + 1 \in 1 .. Len(p) + 1
    BY <1>1, <1>3
  <2>2. x \in 1 .. p[i].values /\ t + x = C(i + 1) /\ take <= x
    BY <1>3 DEF AtPlace
  <2> DEFINE c == C(i)
             d == C(i + 1)
             v == p[i].values
  <2>3. c \in Nat /\ d \in Nat /\ d = c + v /\ v \in Nat \ {0} /\ d <= Len(s)
    BY <1>1, <1>2, <2>1
  <2>4. x \in 1 .. v /\ t + x = d /\ take <= x
    BY <2>2
  <2>5. ASSUME NEW u \in t + 1 .. t + take PROVE RankedAt(s, u) = FrequencyAt(p, i)
    <3>1. u \in 1 .. Len(s) /\ c < u /\ u <= d
      <4> HIDE DEF c, d, v
      <4>. QED BY <1>1, <2>3, <2>4
    <3>2. Descending(s)[u] = p[i].frequency
      BY <2>1, <3>1, DescendingInGroup
    <3>. QED BY <1>1, <1>3, <3>1, <3>2 DEF RankedAt, FrequencyAt
  <2>6. t + take <= Len(s)
    <3> HIDE DEF c, d, v
    <3>. QED BY <1>1, <2>3, <2>4
  <2>7. CASE x = take
    <3>1. t + take = C(i + 1)
      BY <2>4, <2>7
    <3>2. CASE i + 1 <= Len(p)
      <4>1. i + 1 \in 1 .. Len(p)
        BY <1>1, <2>1, <3>2
      <4>2. ValuesAt(p, i + 1) = p[i + 1].values
        BY <3>2 DEF ValuesAt
      <4> DEFINE w == p[i + 1].values
                 e == C((i + 1) + 1)
      <4>3. e = C(i + 1) + w /\ w \in Nat \ {0}
        BY <1>2, <4>1
      <4>4. w \in 1 .. w /\ (t + take) + w = e
        BY <3>1, <4>3
      <4>5. ~ (i + 1 > Len(p))
        BY <1>1, <3>2
      <4>6. AtPlace(s, p, i + 1, ValuesAt(p, i + 1), t + take)
        BY <2>1, <4>2, <4>4, <4>5 DEF AtPlace
      <4>. QED BY <1>3, <2>5, <2>6, <2>7, <4>6
    <3>3. CASE ~ (i + 1 <= Len(p))
      <4>1. i + 1 = Len(p) + 1
        BY <1>1, <1>3, <3>3
      <4>2. ValuesAt(p, i + 1) = 0
        BY <3>3 DEF ValuesAt
      <4>3. t + take >= Len(s)
        BY <1>1, <1>2, <3>1, <4>1
      <4>4. AtPlace(s, p, i + 1, ValuesAt(p, i + 1), t + take)
        BY <2>1, <3>3, <4>2, <4>3 DEF AtPlace
      <4>. QED BY <1>3, <2>5, <2>6, <2>7, <4>4
    <3>. QED BY <3>2, <3>3
  <2>8. CASE x # take
    <3>1. x - take \in 1 .. v /\ (t + take) + (x - take) = d
      <4> HIDE DEF c, d, v
      <4>. QED BY <2>3, <2>4, <2>8
    <3>2. ~ (i > Len(p))
      BY <1>1, <1>3
    <3>3. AtPlace(s, p, i, x - take, t + take)
      BY <1>1, <3>1, <3>2 DEF AtPlace
    <3>. QED BY <1>3, <2>5, <2>6, <2>8, <3>3
  <2>. QED BY <2>7, <2>8
<1>4. CASE ~ (i <= Len(p))
  <2>1. x = 0 /\ t >= Len(s)
    BY <1>1, <1>4 DEF AtPlace
  <2>2. ASSUME NEW u \in t + 1 .. t + take PROVE RankedAt(s, u) = FrequencyAt(p, i)
    <3>1. ~ (u <= Len(s))
      BY <1>1, <2>1
    <3>. QED BY <1>4, <3>1 DEF RankedAt, FrequencyAt
  <2>3. AtPlace(s, p, i, 0, t + take)
    BY <1>1, <1>4, <2>1 DEF AtPlace
  <2>. QED BY <1>4, <2>2, <2>3
<1>. QED BY <1>3, <1>4

\* Where a sequence is constant its sums grow by a multiple.
LEMMA SumsOfEqual ==
  ASSUME NEW a \in Seq(Int), NEW t \in Nat, NEW take \in Nat, t + take <= Len(a),
         NEW v \in Int, \A u \in t + 1 .. t + take : a[u] = v
  PROVE  SumsOf(a)[t + take] = SumsOf(a)[t] + take * v
<1> DEFINE h == SumsOf(a)
           n == Len(a)
           S == {k \in 0 .. take : h[t + k] = h[t] + k * v}
<1>1. /\ n \in Nat /\ h \in [0 .. n -> Int]
      /\ \A i \in 1 .. n : h[i] = h[i - 1] + a[i]
  BY SumsOfInt
<1>2. t + take <= n
  OBVIOUS
<1> HIDE DEF h, n
<1>3. 0 \in S
  <2>1. h[t] \in Int
    BY <1>1, <1>2
  <2>2. t + 0 = t /\ 0 * v = 0 /\ h[t] + 0 = h[t]
    BY <2>1
  <2>. QED BY <2>2
<1>4. ASSUME NEW k \in 1 .. take, k - 1 \in S PROVE k \in S
  <2>1. t + (k - 1) = (t + k) - 1 /\ t + k \in 1 .. n /\ t + k \in t + 1 .. t + take
        /\ t \in 0 .. n
    BY <1>1, <1>2
  <2>2. h[t + k] = h[(t + k) - 1] + a[t + k] /\ a[t + k] = v
    BY <1>1, <2>1
  <2>3. h[(t + k) - 1] = h[t] + (k - 1) * v
    BY <1>4, <2>1
  <2>4. (k - 1) * v + v = k * v /\ (k - 1) * v \in Int /\ k * v \in Int
    OBVIOUS
  <2>5. h[t] \in Int
    BY <1>1, <2>1
  <2> DEFINE m == (k - 1) * v
             l == k * v
  <2> HIDE DEF m, l
  <2>6. h[t + k] = h[t] + l
    <3>1. m + v = l /\ m \in Int /\ h[t + k] = (h[t] + m) + v
      BY <2>2, <2>3, <2>4 DEF m, l
    <3>. QED BY <2>5, <3>1
  <2>. QED BY <2>6 DEF l
<1>5. 0 .. take \subseteq S
  <2> HIDE DEF S
  <2>. QED BY <1>3, <1>4, UpFromZero
<1>. QED BY <1>5 DEF h

\* The states of the merge.
MergeStates == [i : Nat \ {0}, j : Nat \ {0}, x : Int, y : Int, apart : Int]

\* What a side of the merge has at a group, or after the last one.
LEMMA GroupFields ==
  ASSUME NEW s, NEW p, AreGroups(s, p), NEW g \in Nat \ {0}
  PROVE  FrequencyAt(p, g) \in Nat /\ ValuesAt(p, g) \in Nat
<1>1. CASE g <= Len(p)
  <2>1. g \in 1 .. Len(p)
    BY <1>1 DEF AreGroups
  <2>2. p[g].frequency \in Nat /\ p[g].values \in Nat
    BY <2>1 DEF AreGroups
  <2>. QED BY <1>1, <2>2 DEF FrequencyAt, ValuesAt
<1>2. CASE ~ (g <= Len(p))
  BY <1>2 DEF FrequencyAt, ValuesAt
<1>. QED BY <1>1, <1>2

\* A turn of the merge leads from a state of the merge to another.
LEMMA MergeStepIn ==
  ASSUME NEW s \in Seq(Nat \ {0}), NEW t \in Seq(Nat \ {0}),
         NEW p, AreGroups(s, p), NEW q, AreGroups(t, q),
         NEW pRows \in Nat, NEW qRows \in Nat, NEW st \in MergeStates
  PROVE  MergeStep(p, q, pRows, qRows, st) \in MergeStates
<1>1. /\ st.i \in Nat \ {0} /\ st.j \in Nat \ {0} /\ st.x \in Int /\ st.y \in Int
      /\ st.apart \in Int
  BY DEF MergeStates
<1>2. /\ \A g \in Nat \ {0} : FrequencyAt(p, g) \in Nat /\ ValuesAt(p, g) \in Nat
      /\ \A g \in Nat \ {0} : FrequencyAt(q, g) \in Nat /\ ValuesAt(q, g) \in Nat
  BY GroupFields
<1> DEFINE take == IF st.i > Len(p) THEN st.y
                   ELSE IF st.j > Len(q) THEN st.x ELSE AtMost(st.x, st.y)
           a    == FrequencyAt(p, st.i) * qRows
           b    == FrequencyAt(q, st.j) * pRows
           far  == AtLeast(a - b, b - a)
           endP == st.i <= Len(p) /\ st.x = take
           endQ == st.j <= Len(q) /\ st.y = take
           i2 == IF endP THEN st.i + 1 ELSE st.i
           j2 == IF endQ THEN st.j + 1 ELSE st.j
           x2 == IF endP THEN ValuesAt(p, st.i + 1) ELSE IF st.i <= Len(p) THEN st.x - take ELSE 0
           y2 == IF endQ THEN ValuesAt(q, st.j + 1) ELSE IF st.j <= Len(q) THEN st.y - take ELSE 0
           z2 == st.apart + take * far
<1>3. MergeStep(p, q, pRows, qRows, st) = [i |-> i2, j |-> j2, x |-> x2, y |-> y2, apart |-> z2]
  BY DEF MergeStep
<1>4. take \in Int
  BY <1>1 DEF AtMost
<1>5. far \in Int
  <2>1. a \in Nat /\ b \in Nat
    <3> DEFINE u == FrequencyAt(p, st.i)
               v == FrequencyAt(q, st.j)
    <3>1. u \in Nat /\ v \in Nat
      BY <1>1, <1>2
    <3> HIDE DEF u, v
    <3>2. u * qRows \in Nat /\ v * pRows \in Nat
      BY <3>1
    <3>. QED BY <3>2 DEF u, v
  <2> HIDE DEF a, b
  <2>. QED BY <2>1 DEF AtLeast
<1> HIDE DEF take, far, a, b
<1>6. i2 \in Nat \ {0} /\ j2 \in Nat \ {0}
  BY <1>1
<1>7. x2 \in Int /\ y2 \in Int
  <2>1. ValuesAt(p, st.i + 1) \in Nat /\ ValuesAt(q, st.j + 1) \in Nat
    <3> DEFINE u == st.i + 1
               v == st.j + 1
    <3>1. u \in Nat \ {0} /\ v \in Nat \ {0}
      BY <1>1
    <3> HIDE DEF u, v
    <3>2. ValuesAt(p, u) \in Nat /\ ValuesAt(q, v) \in Nat
      BY <1>2, <3>1
    <3>. QED BY <3>2 DEF u, v
  <2>2. st.x - take \in Int /\ st.y - take \in Int
    BY <1>1, <1>4
  <2> HIDE DEF endP, endQ
  <2>3. x2 \in Int
    BY <2>1, <2>2
  <2>4. y2 \in Int
    BY <2>1, <2>2
  <2>. QED BY <2>3, <2>4
<1>8. z2 \in Int
  BY <1>1, <1>4, <1>5
<1> HIDE DEF i2, j2, x2, y2, z2
<1>. QED BY <1>3, <1>6, <1>7, <1>8 DEF MergeStates

\* The differences of the sorted masses.
RankedApart(s, t) ==
  [u \in 1 .. AtLeast(Len(s), Len(t)) |->
     AtLeast(RankedAt(s, u) * SumOf(t) - RankedAt(t, u) * SumOf(s),
             RankedAt(t, u) * SumOf(s) - RankedAt(s, u) * SumOf(t))]

\* The distances by rank are numbers, one for each rank.
LEMMA RankedApartIn ==
  ASSUME NEW s \in Seq(Nat \ {0}), NEW t \in Seq(Nat \ {0})
  PROVE  /\ AtLeast(Len(s), Len(t)) \in Nat
         /\ RankedApart(s, t) \in Seq(Int) /\ Len(RankedApart(s, t)) = AtLeast(Len(s), Len(t))
         /\ SumOf(s) \in Nat /\ SumOf(t) \in Nat
<1> DEFINE n == AtLeast(Len(s), Len(t))
<1>1. s \in Seq(Nat) /\ t \in Seq(Nat) /\ n \in Nat
  BY DEF AtLeast
<1>2. SumOf(s) \in Nat /\ SumOf(t) \in Nat
  BY <1>1, SumsOfNat
<1>3. ASSUME NEW u \in 1 .. n PROVE RankedAt(s, u) \in Nat /\ RankedAt(t, u) \in Nat
  <2>1. u \in Nat \ {0}
    BY <1>1
  <2>2. u <= Len(s) => Descending(s)[u] \in Nat
    BY <1>1, <2>1, DescendingIs
  <2>3. u <= Len(t) => Descending(t)[u] \in Nat
    BY <1>1, <2>1, DescendingIs
  <2>. QED BY <2>2, <2>3 DEF RankedAt
<1>4. ASSUME NEW u \in 1 .. n PROVE RankedApart(s, t)[u] \in Int
  <2> DEFINE a == RankedAt(s, u) * SumOf(t)
             b == RankedAt(t, u) * SumOf(s)
  <2>1. RankedApart(s, t)[u] = AtLeast(a - b, b - a)
    BY DEF RankedApart
  <2>2. a \in Int /\ b \in Int
    BY <1>2, <1>3
  <2> HIDE DEF a, b
  <2>3. AtLeast(a - b, b - a) \in Int
    BY <2>2 DEF AtLeast
  <2>. QED BY <2>1, <2>3
<1>5. RankedApart(s, t) = [u \in 1 .. n |-> RankedApart(s, t)[u]]
  BY DEF RankedApart
<1> DEFINE a == RankedApart(s, t)
<1> HIDE DEF n, a
<1>6. a \in [1 .. n -> Int]
  BY <1>4, <1>5 DEF a
<1>7. a \in Seq(Int) /\ Len(a) = n
  BY <1>1, <1>6
<1>. QED BY <1>1, <1>2, <1>7 DEF n, a

\* After k turns: both lists are at the same rank, the sum is that of the ranks
\* before it, and each turn has ended a group.
Merged(s, t, p, q, st, k) ==
  \E r \in 0 .. AtLeast(Len(s), Len(t)) :
     /\ AtPlace(s, p, st.i, st.x, r) /\ AtPlace(t, q, st.j, st.y, r)
     /\ st.apart = SumsOf(RankedApart(s, t))[r]
     /\ k + 2 <= st.i + st.j \/ (st.i > Len(p) /\ st.j > Len(q))

\* A turn of the merge adds what the ranks that it passes are apart.
LEMMA MergeStepKeeps ==
  ASSUME NEW s \in Seq(Nat \ {0}), NEW t \in Seq(Nat \ {0}),
         NEW p, AreGroups(s, p), NEW q, AreGroups(t, q),
         NEW st \in MergeStates, NEW k \in Nat, Merged(s, t, p, q, st, k)
  PROVE  Merged(s, t, p, q, MergeStep(p, q, SumOf(s), SumOf(t), st), k + 1)
<1> DEFINE n == AtLeast(Len(s), Len(t))
           ranked == RankedApart(s, t)
           i == st.i
           j == st.j
           x == st.x
           y == st.y
           take == IF i > Len(p) THEN y ELSE IF j > Len(q) THEN x ELSE AtMost(x, y)
           a    == FrequencyAt(p, i) * SumOf(t)
           b    == FrequencyAt(q, j) * SumOf(s)
           far  == AtLeast(a - b, b - a)
           endP == i <= Len(p) /\ x = take
           endQ == j <= Len(q) /\ y = take
           i2 == IF endP THEN i + 1 ELSE i
           j2 == IF endQ THEN j + 1 ELSE j
           x2 == IF endP THEN ValuesAt(p, i + 1) ELSE IF i <= Len(p) THEN x - take ELSE 0
           y2 == IF endQ THEN ValuesAt(q, j + 1) ELSE IF j <= Len(q) THEN y - take ELSE 0
           z2 == st.apart + take * far
           st2 == MergeStep(p, q, SumOf(s), SumOf(t), st)
<1>1. st2 = [i |-> i2, j |-> j2, x |-> x2, y |-> y2, apart |-> z2]
  BY DEF MergeStep
<1>2. /\ i \in Nat \ {0} /\ j \in Nat \ {0} /\ x \in Int /\ y \in Int /\ st.apart \in Int
  BY DEF MergeStates
<1>3. /\ n \in Nat /\ ranked \in Seq(Int) /\ Len(ranked) = n
      /\ SumOf(s) \in Nat /\ SumOf(t) \in Nat
  BY RankedApartIn
<1>4. PICK r \in 0 .. n :
        /\ AtPlace(s, p, i, x, r) /\ AtPlace(t, q, j, y, r)
        /\ st.apart = SumsOf(ranked)[r]
        /\ k + 2 <= i + j \/ (i > Len(p) /\ j > Len(q))
  BY DEF Merged
<1>5. Len(p) \in Nat /\ Len(q) \in Nat /\ Len(s) \in Nat /\ Len(t) \in Nat
      /\ Len(s) <= n /\ Len(t) <= n /\ n \in {Len(s), Len(t)}
  BY DEF AreGroups, AtLeast
<1>6. /\ i <= Len(p) => x \in Nat \ {0}
      /\ j <= Len(q) => y \in Nat \ {0}
      /\ i > Len(p) => x = 0
      /\ j > Len(q) => y = 0
  <2>1. /\ i <= Len(p) => i \in 1 .. Len(p) /\ x \in 1 .. p[i].values
        /\ j <= Len(q) => j \in 1 .. Len(q) /\ y \in 1 .. q[j].values
    <3>1. /\ i <= Len(p) => i \in 1 .. Len(p)
          /\ j <= Len(q) => j \in 1 .. Len(q)
      BY <1>2, <1>5
    <3>2. /\ i <= Len(p) => x \in 1 .. p[i].values
          /\ j <= Len(q) => y \in 1 .. q[j].values
      BY <1>4 DEF AtPlace
    <3>. QED BY <3>1, <3>2
  <2>2. \A g \in 1 .. Len(p) : p[g].values \in Nat
    BY DEF AreGroups
  <2>3. \A g \in 1 .. Len(q) : q[g].values \in Nat
    BY DEF AreGroups
  <2>4. i > Len(p) => x = 0
    BY <1>4 DEF AtPlace
  <2>5. j > Len(q) => y = 0
    BY <1>4 DEF AtPlace
  <2>6. i <= Len(p) => x \in Nat \ {0}
    BY <2>1, <2>2
  <2>7. j <= Len(q) => y \in Nat \ {0}
    BY <2>1, <2>3
  <2> HIDE DEF i, j, x, y
  <2>. QED BY <2>4, <2>5, <2>6, <2>7
<1> HIDE DEF n, ranked, i, j, x, y, st2
<1>7. /\ take \in Nat
      /\ i <= Len(p) => take <= x
      /\ j <= Len(q) => take <= y
      /\ i > Len(p) /\ j > Len(q) => take = 0
      /\ endP \/ endQ \/ (i > Len(p) /\ j > Len(q))
  BY <1>2, <1>5, <1>6 DEF AtMost
<1> HIDE DEF take, a, b
<1>8. /\ \A u \in r + 1 .. r + take : RankedAt(s, u) = FrequencyAt(p, i)
      /\ AtPlace(s, p, i2, x2, r + take)
      /\ i <= Len(p) => r + take <= Len(s)
  <2>1. r \in Nat
    BY <1>3
  <2>. QED BY <1>4, <1>7, <2>1, SideAdvances
<1>9. /\ \A u \in r + 1 .. r + take : RankedAt(t, u) = FrequencyAt(q, j)
      /\ AtPlace(t, q, j2, y2, r + take)
      /\ j <= Len(q) => r + take <= Len(t)
  <2>1. r \in Nat
    BY <1>3
  <2>. QED BY <1>4, <1>7, <2>1, SideAdvances
<1>10. r + take \in 0 .. n
  BY <1>2, <1>3, <1>5, <1>7, <1>8, <1>9
<1>11. far \in Int
  <2>1. FrequencyAt(p, i) \in Nat /\ FrequencyAt(q, j) \in Nat
    BY <1>2, GroupFields
  <2>2. a \in Int /\ b \in Int
    BY <1>3, <2>1 DEF a, b
  <2>. QED BY <2>2 DEF AtLeast
<1>12. \A u \in r + 1 .. r + take : ranked[u] = far
  <2> TAKE u \in r + 1 .. r + take
  <2>1. u \in 1 .. n
    BY <1>3, <1>7, <1>10
  <2>2. ranked[u] = AtLeast(RankedAt(s, u) * SumOf(t) - RankedAt(t, u) * SumOf(s),
                            RankedAt(t, u) * SumOf(s) - RankedAt(s, u) * SumOf(t))
    BY <2>1 DEF RankedApart, ranked, n
  <2>. QED BY <1>8, <1>9, <2>2 DEF a, b
<1> HIDE DEF far
<1>13. SumsOf(ranked)[r + take] = SumsOf(ranked)[r] + take * far
  <2>1. r \in Nat /\ r + take <= Len(ranked)
    BY <1>3, <1>10
  <2>2. ranked \in Seq(Int) /\ take \in Nat
    BY <1>3, <1>7
  <2>. QED BY <1>11, <1>12, <2>1, <2>2, SumsOfEqual
<1>14. (k + 1) + 2 <= i2 + j2 \/ (i2 > Len(p) /\ j2 > Len(q))
  <2>1. CASE k + 2 <= i + j
    BY <1>2, <1>5, <1>7, <2>1
  <2>2. CASE i > Len(p) /\ j > Len(q)
    BY <1>2, <1>5, <2>2
  <2>. QED BY <1>4, <2>1, <2>2
<1> HIDE DEF i2, j2, x2, y2
<1>15. st2.i = i2 /\ st2.j = j2 /\ st2.x = x2 /\ st2.y = y2 /\ st2.apart = z2
  BY <1>1
<1>16. z2 = SumsOf(ranked)[r + take]
  BY <1>4, <1>13
<1> HIDE DEF z2
<1>. QED BY <1>8, <1>9, <1>10, <1>14, <1>15, <1>16 DEF Merged, n, ranked, st2

\* The merge of the two lists ends with the sum over all ranks.
LEMMA MergeEnds ==
  ASSUME NEW s \in Seq(Nat \ {0}), NEW t \in Seq(Nat \ {0}), s # <<>>, t # <<>>
  PROVE  FrequencyShapeDifference(s, t) = SumOf(RankedApart(s, t))
<1> DEFINE p == FrequencyGroups(s)
           q == FrequencyGroups(t)
           V == MergeStates
           first == [i |-> 1, j |-> 1, x |-> ValuesAt(p, 1), y |-> ValuesAt(q, 1), apart |-> 0]
           N == Len(p) + Len(q)
           Turn(st) == MergeStep(p, q, SumOf(s), SumOf(t), st)
           Body(f, k) == IF k = 0 THEN first ELSE Turn(f[k - 1])
           g == [k \in 1 .. N |-> [st \in V |-> Turn(st)]]
           n == AtLeast(Len(s), Len(t))
<1>1. AreGroups(s, p) /\ AreGroups(t, q)
  BY GroupsAre
<1>2. FrequencyShapeDifference(s, t) = (CHOOSE f : f = [k \in 0 .. N |-> Body(f, k)])[N].apart
  BY DEF FrequencyShapeDifference
<1> HIDE DEF p, q
<1>3. /\ n \in Nat /\ RankedApart(s, t) \in Seq(Int) /\ Len(RankedApart(s, t)) = n
      /\ SumOf(s) \in Nat /\ SumOf(t) \in Nat
  BY RankedApartIn
<1>4. Len(p) \in Nat /\ Len(q) \in Nat /\ N \in Nat
  BY <1>1 DEF AreGroups
<1>5. first \in V
  <2>1. ValuesAt(p, 1) \in Nat /\ ValuesAt(q, 1) \in Nat
    BY <1>1, GroupFields
  <2>. QED BY <2>1 DEF MergeStates
<1>6. Merged(s, t, p, q, first, 0)
  <2>1. AtPlace(s, p, 1, ValuesAt(p, 1), 0)
    <3> DEFINE c == Cardinality(PlacesBefore(s, p, 1))
               d == Cardinality(PlacesBefore(s, p, 1 + 1))
    <3>1. c = 0 /\ (1 \in 1 .. Len(p) => d = c + p[1].values /\ p[1].values \in Nat \ {0})
          /\ (Len(p) = 0 => Len(s) = 0)
      <4>1. 1 \in 1 .. Len(p) => p[1].values \in Nat \ {0}
        BY <1>1 DEF AreGroups
      <4>2. c = 0 /\ (1 \in 1 .. Len(p) => d = c + p[1].values)
            /\ Cardinality(PlacesBefore(s, p, Len(p) + 1)) = Len(s)
        BY <1>1, PlacesBeforeNext
      <4>3. Len(p) = 0 => Len(s) = 0
        BY <4>2
      <4>. QED BY <4>1, <4>2, <4>3
    <3> HIDE DEF c, d
    <3>2. 1 \in 1 .. Len(p) + 1 /\ (1 <= Len(p) <=> 1 \in 1 .. Len(p))
          /\ (1 > Len(p) <=> Len(p) = 0)
      BY <1>4
    <3>3. 1 <= Len(p) => ValuesAt(p, 1) \in 1 .. p[1].values /\ 0 + ValuesAt(p, 1) = d
      <4> SUFFICES ASSUME 1 <= Len(p)
                   PROVE  ValuesAt(p, 1) \in 1 .. p[1].values /\ 0 + ValuesAt(p, 1) = d
        OBVIOUS
      <4> DEFINE w == p[1].values
      <4>1. ValuesAt(p, 1) = w
        BY DEF ValuesAt
      <4>2. w \in Nat \ {0} /\ d = w
        BY <3>1, <3>2
      <4> HIDE DEF w
      <4>3. w \in 1 .. w /\ 0 + w = d
        BY <4>2
      <4>. QED BY <4>1, <4>3 DEF w
    <3>4. 1 > Len(p) => ValuesAt(p, 1) = 0 /\ 0 >= Len(s)
      BY <1>4, <3>1 DEF ValuesAt
    <3>. QED BY <3>2, <3>3, <3>4 DEF AtPlace, d
  <2>2. AtPlace(t, q, 1, ValuesAt(q, 1), 0)
    <3> DEFINE c == Cardinality(PlacesBefore(t, q, 1))
               d == Cardinality(PlacesBefore(t, q, 1 + 1))
    <3>1. c = 0 /\ (1 \in 1 .. Len(q) => d = c + q[1].values /\ q[1].values \in Nat \ {0})
          /\ (Len(q) = 0 => Len(t) = 0)
      <4>1. 1 \in 1 .. Len(q) => q[1].values \in Nat \ {0}
        BY <1>1 DEF AreGroups
      <4>2. c = 0 /\ (1 \in 1 .. Len(q) => d = c + q[1].values)
            /\ Cardinality(PlacesBefore(t, q, Len(q) + 1)) = Len(t)
        BY <1>1, PlacesBeforeNext
      <4>3. Len(q) = 0 => Len(t) = 0
        BY <4>2
      <4>. QED BY <4>1, <4>2, <4>3
    <3> HIDE DEF c, d
    <3>2. 1 \in 1 .. Len(q) + 1 /\ (1 <= Len(q) <=> 1 \in 1 .. Len(q))
          /\ (1 > Len(q) <=> Len(q) = 0)
      BY <1>4
    <3>3. 1 <= Len(q) => ValuesAt(q, 1) \in 1 .. q[1].values /\ 0 + ValuesAt(q, 1) = d
      <4> SUFFICES ASSUME 1 <= Len(q)
                   PROVE  ValuesAt(q, 1) \in 1 .. q[1].values /\ 0 + ValuesAt(q, 1) = d
        OBVIOUS
      <4> DEFINE w == q[1].values
      <4>1. ValuesAt(q, 1) = w
        BY DEF ValuesAt
      <4>2. w \in Nat \ {0} /\ d = w
        BY <3>1, <3>2
      <4> HIDE DEF w
      <4>3. w \in 1 .. w /\ 0 + w = d
        BY <4>2
      <4>. QED BY <4>1, <4>3 DEF w
    <3>4. 1 > Len(q) => ValuesAt(q, 1) = 0 /\ 0 >= Len(t)
      BY <1>4, <3>1 DEF ValuesAt
    <3>. QED BY <3>2, <3>3, <3>4 DEF AtPlace, d
  <2>3. 0 \in 0 .. n /\ SumsOf(RankedApart(s, t))[0] = 0
    BY <1>3, SumsOfInt
  <2>4. first.i = 1 /\ first.j = 1 /\ first.x = ValuesAt(p, 1) /\ first.y = ValuesAt(q, 1)
        /\ first.apart = 0
    OBVIOUS
  <2> HIDE DEF first, n
  <2>. QED BY <2>1, <2>2, <2>3, <2>4 DEF Merged, n
<1> HIDE DEF V, first, N, n
<1>7. ASSUME NEW st \in V PROVE Turn(st) \in V
  BY <1>1, <1>3, MergeStepIn DEF V
<1>8. g \in [1 .. N -> [V -> V]]
  BY <1>7
<1>9. PICK e : e \in [0 .. N -> V] /\ e[0] = first /\ \A k \in 1 .. N : e[k] = g[k][e[k - 1]]
  <2> HIDE DEF g
  <2>1. /\ StepsOf(N, V, first, g) \in [0 .. N -> V]
        /\ StepsOf(N, V, first, g)[0] = first
        /\ \A k \in 1 .. N : StepsOf(N, V, first, g)[k] = g[k][StepsOf(N, V, first, g)[k - 1]]
    BY <1>4, <1>5, <1>8, StepsTaken
  <2>. QED BY <2>1
<1>10. \A k \in 1 .. N : k \in 0 .. N /\ k - 1 \in 0 .. N /\ k # 0
  BY <1>4
<1>11. \A k \in 1 .. N : e[k] = Turn(e[k - 1])
  <2> TAKE k \in 1 .. N
  <2>1. e[k - 1] \in V
    BY <1>9, <1>10
  <2>2. e[k] = g[k][e[k - 1]]
    BY <1>9
  <2> HIDE DEF Turn
  <2>. QED BY <2>1, <2>2
<1> HIDE DEF g, Turn
<1>12. e = [k \in 0 .. N |-> Body(e, k)]
  <2>1. ASSUME NEW k \in 0 .. N PROVE e[k] = Body(e, k)
    <3>1. CASE k = 0
      BY <1>9, <3>1
    <3>2. CASE k # 0
      <4>1. k \in 1 .. N
        BY <1>4, <3>2
      <4>. QED BY <1>11, <3>2, <4>1
    <3>. QED BY <3>1, <3>2
  <2> HIDE DEF Body
  <2>. QED BY <1>9, <2>1
<1> DEFINE a == CHOOSE f : f = [k \in 0 .. N |-> Body(f, k)]
<1>13. a = [k \in 0 .. N |-> Body(a, k)]
  <2> HIDE DEF Body
  <2>. QED BY <1>12
<1>14. FrequencyShapeDifference(s, t) = a[N].apart
  <2> HIDE DEF Body
  <2>. QED BY <1>2
<1> HIDE DEF a
<1>15. a[0] = first /\ \A k \in 1 .. N : a[k] = Turn(a[k - 1])
  <2>1. \A k \in 0 .. N : a[k] = Body(a, k)
    <3> HIDE DEF Body
    <3>. QED BY <1>13
  <2>2. 0 \in 0 .. N
    BY <1>4
  <2>. QED BY <1>10, <2>1, <2>2
<1> DEFINE Q(k) == a[k] \in V /\ Merged(s, t, p, q, a[k], k)
           S == {k \in 0 .. N : Q(k)}
<1>16. 0 \in S
  BY <1>4, <1>5, <1>6, <1>15
<1>17. ASSUME NEW k \in 1 .. N, k - 1 \in S PROVE k \in S
  <2>1. Q(k - 1)
    <3> HIDE DEF Q
    <3>. QED BY <1>17
  <2> DEFINE st == a[k - 1]
             m == k - 1
  <2>2. st \in V /\ Merged(s, t, p, q, st, m)
    BY <2>1
  <2>3. a[k] = Turn(st)
    BY <1>15
  <2>4. m \in Nat /\ m + 1 = k
    OBVIOUS
  <2> HIDE DEF st, m
  <2>5. Merged(s, t, p, q, Turn(st), m + 1)
    BY <1>1, <2>2, <2>4, MergeStepKeeps DEF V, Turn
  <2>6. Q(k)
    BY <1>7, <2>2, <2>3, <2>4, <2>5
  <2>7. k \in 0 .. N
    BY <1>10
  <2> HIDE DEF Q
  <2>. QED BY <2>6, <2>7
<1>18. 0 .. N \subseteq S
  <2> HIDE DEF S
  <2>. QED BY <1>4, <1>16, <1>17, UpFromZero
<1>19. Q(N)
  <2>1. N \in 0 .. N
    BY <1>4
  <2> HIDE DEF Q
  <2>. QED BY <1>18, <2>1
<1> DEFINE st == a[N]
<1>20. st \in MergeStates /\ Merged(s, t, p, q, st, N)
  BY <1>19 DEF V
<1> HIDE DEF st, a
<1>21. PICK r \in 0 .. n :
         /\ AtPlace(s, p, st.i, st.x, r) /\ AtPlace(t, q, st.j, st.y, r)
         /\ st.apart = SumsOf(RankedApart(s, t))[r]
         /\ N + 2 <= st.i + st.j \/ (st.i > Len(p) /\ st.j > Len(q))
  BY <1>20 DEF Merged, n
<1>22. /\ st.i \in 1 .. Len(p) + 1 /\ (st.i > Len(p) => r >= Len(s))
       /\ st.j \in 1 .. Len(q) + 1 /\ (st.j > Len(q) => r >= Len(t))
  BY <1>21 DEF AtPlace
<1>23. st.i > Len(p) /\ st.j > Len(q)
  <2>1. N = Len(p) + Len(q)
    BY DEF N
  <2> DEFINE i == st.i
             j == st.j
             lp == Len(p)
             lq == Len(q)
  <2>2. /\ i \in 1 .. lp + 1 /\ j \in 1 .. lq + 1
        /\ N + 2 <= i + j \/ (i > lp /\ j > lq)
    BY <1>21, <1>22
  <2>3. lp \in Nat /\ lq \in Nat /\ N = lp + lq
    BY <1>4, <2>1
  <2> HIDE DEF i, j, lp, lq, N
  <2>4. i > lp /\ j > lq
    BY <2>2, <2>3
  <2>. QED BY <2>4 DEF i, j, lp, lq
<1>24. r = n
  <2>1. n \in {Len(s), Len(t)}
    BY DEF n, AtLeast
  <2>2. r >= Len(s) /\ r >= Len(t)
    BY <1>22, <1>23
  <2>. QED BY <1>3, <2>1, <2>2
<1>25. st.apart = SumOf(RankedApart(s, t))
  BY <1>3, <1>21, <1>24 DEF SumOf
<1>. QED BY <1>14, <1>25 DEF st

\* Descending has the same sum.
LEMMA DescendingSum ==
  ASSUME NEW s \in Seq(Nat)
  PROVE  SumOf(Descending(s)) = SumOf(s) /\ Len(Descending(s)) = Len(s)
<1>1. Descending(s) \in Seq(Nat) /\ Len(Descending(s)) = Len(s) /\ Rearranged(Descending(s), s)
  BY DescendingIs
<1>. QED BY <1>1, RearrangedSum

\* The merge of the groups finds the distance of the sorted masses.
THEOREM MergeIsHistogramDifference ==
  ASSUME NEW s \in Seq(Nat \ {0}), NEW t \in Seq(Nat \ {0})
  PROVE  FrequencyShapeDifference(s, t) = HistogramDifference(s, t)
<1> DEFINE p == Descending(s)
           q == Descending(t)
           n == AtLeast(Len(p), Len(q))
           Mass(u, i, rows) == (IF i <= Len(u) THEN u[i] ELSE 0) * rows
           Apart(x, y) == AtLeast(x - y, y - x)
<1>1. /\ SumOf(p) = SumOf(s) /\ SumOf(q) = SumOf(t)
      /\ Len(p) = Len(s) /\ Len(q) = Len(t)
  <2>1. s \in Seq(Nat) /\ t \in Seq(Nat)
    OBVIOUS
  <2>. QED BY <2>1, DescendingSum
<1>2. (p = <<>> <=> s = <<>>) /\ (q = <<>> <=> t = <<>>)
  <2>1. p \in Seq(Nat) /\ q \in Seq(Nat)
    <3>1. s \in Seq(Nat) /\ t \in Seq(Nat)
      OBVIOUS
    <3>. QED BY <3>1, DescendingIs
  <2> HIDE DEF p, q
  <2>. QED BY <1>1, <2>1
<1>3. CASE s = <<>> \/ t = <<>>
  BY <1>1, <1>2, <1>3 DEF FrequencyShapeDifference, HistogramDifference
<1>4. CASE ~ (s = <<>> \/ t = <<>>)
  <2> DEFINE a == [i \in 1 .. n |-> Apart(Mass(p, i, SumOf(q)), Mass(q, i, SumOf(p)))]
  <2>1. HistogramDifference(s, t) = SumOf(a)
    BY <1>2, <1>4 DEF HistogramDifference
  <2>2. a = RankedApart(s, t)
    BY <1>1 DEF RankedApart, RankedAt
  <2>. QED BY <1>4, <2>1, <2>2, MergeEnds
<1>. QED BY <1>3, <1>4

\* Sequences of the same frequencies are not apart.
LEMMA DescendingSame ==
  ASSUME NEW s \in Seq(Nat), NEW t \in Seq(Nat), Rearranged(s, t)
  PROVE  Descending(s) = Descending(t) /\ Len(s) = Len(t) /\ SumOf(s) = SumOf(t)
<1> DEFINE n == Len(s)
           P(u, x) == {j \in DOMAIN u : u[j] > x}
           L(u, i) == {x \in Range(u) : Cardinality(P(u, x)) < i}
<1>1. n \in Nat /\ DOMAIN s = 1 .. n /\ DOMAIN t = 1 .. Len(t) /\ Len(t) \in Nat
  OBVIOUS
<1>2. Len(t) = n /\ Range(t) = Range(s)
  <2> DEFINE m == Len(t)
  <2> HIDE DEF n, m
  <2>1. n \in Nat /\ DOMAIN s = 1 .. n /\ m \in Nat /\ DOMAIN t = 1 .. m
    BY <1>1 DEF m
  <2>2. m = n /\ Range(t) = Range(s)
    BY <2>1, RearrangedSame
  <2>. QED BY <2>2 DEF m
<1>3. ASSUME NEW x PROVE Cardinality(P(t, x)) = Cardinality(P(s, x))
  <2> DEFINE V == {y \in Nat : y > x}
  <2>1. P(t, x) = PlacesOf(t, V) /\ P(s, x) = PlacesOf(s, V)
    BY <1>1 DEF PlacesOf
  <2> HIDE DEF n, P, V
  <2>. QED BY <1>1, <2>1, RearrangedPlaces
<1>4. ASSUME NEW i PROVE L(t, i) = L(s, i)
  <2> HIDE DEF P
  <2>. QED BY <1>2, <1>3
<1>5. Descending(s) = [i \in 1 .. n |-> Min(L(s, i))]
  BY <1>1 DEF Descending
<1>6. Descending(t) = [i \in 1 .. n |-> Min(L(t, i))]
  BY <1>1, <1>2 DEF Descending
<1>7. Descending(s) = Descending(t)
  <2> HIDE DEF L, n
  <2>. QED BY <1>4, <1>5, <1>6
<1>. QED BY <1>2, <1>7, RearrangedSum

\* Columns of the same frequencies are not apart, if they have any.
LEMMA RearrangedDifference ==
  ASSUME NEW s \in Seq(Nat), NEW t \in Seq(Nat), Rearranged(s, t), s # <<>>
  PROVE  HistogramDifference(s, t) = 0
<1> DEFINE p == Descending(s)
           q == Descending(t)
           n == AtLeast(Len(p), Len(q))
           Mass(u, i, rows) == (IF i <= Len(u) THEN u[i] ELSE 0) * rows
           Apart(x, y) == AtLeast(x - y, y - x)
           a == [i \in 1 .. n |-> Apart(Mass(p, i, SumOf(q)), Mass(q, i, SumOf(p)))]
<1>1. p = q /\ p \in Seq(Nat) /\ SumOf(p) \in Nat
  BY DescendingSame, DescendingIs, SumsOfNat
<1>2. ~ (p = <<>> \/ q = <<>>)
  <2>1. p \in Seq(Nat) /\ Len(p) = Len(s) /\ p = q
    BY <1>1, DescendingSum
  <2> HIDE DEF p, q
  <2>. QED BY <2>1
<1>3. HistogramDifference(s, t) = SumOf(a)
  BY <1>2 DEF HistogramDifference
<1>4. n \in Nat
  BY <1>1 DEF AtLeast
<1>5. ASSUME NEW i \in 1 .. n PROVE a[i] = 0
  <2> DEFINE x == Mass(p, i, SumOf(p))
  <2>1. a[i] = Apart(x, x)
    BY <1>1
  <2>2. x \in Int
    <3> DEFINE y == IF i <= Len(p) THEN p[i] ELSE 0
    <3>1. y \in Nat
      BY <1>1, <1>4
    <3>2. x = y * SumOf(p)
      OBVIOUS
    <3> HIDE DEF y
    <3>. QED BY <1>1, <3>1, <3>2
  <2> HIDE DEF x
  <2>3. Apart(x, x) = 0
    BY <2>2 DEF AtLeast
  <2>. QED BY <2>1, <2>3
<1>6. a = [i \in 1 .. n |-> a[i]]
  OBVIOUS
<1> HIDE DEF a, n
<1>7. a \in Seq(Int) /\ Len(a) = n
  <2>1. a \in [1 .. n -> Int]
    BY <1>5, <1>6
  <2>. QED BY <1>4, <2>1
<1>8. SumsOf(a)[0 + n] = SumsOf(a)[0] + n * 0
  <2>1. 0 \in Nat /\ 0 \in Int /\ 0 + n <= Len(a) /\ \A k \in 0 + 1 .. 0 + n : a[k] = 0
    BY <1>4, <1>5, <1>7
  <2> HIDE DEF p, q
  <2>. QED BY <1>4, <1>7, <2>1, SumsOfEqual
<1>9. SumsOf(a)[n] = 0
  <2>1. SumsOf(a)[0] = 0 /\ 0 + n = n /\ n * 0 = 0
    BY <1>4, <1>7, SumsOfInt
  <2>. QED BY <1>8, <2>1
<1>. QED BY <1>3, <1>7, <1>9 DEF SumOf

-----------------------------------------------------------------------------
(* The rows of the bands of a CASE.                                          *)

\* The elements of a concatenation.
LEMMA ConcatAt ==
  ASSUME NEW K, NEW a \in Seq(K), NEW b \in Seq(K)
  PROVE  /\ \A m \in 1 .. Len(a) : (a \o b)[m] = a[m]
         /\ \A l \in 1 .. Len(b) : (a \o b)[Len(a) + l] = b[l]
<1>1. ASSUME NEW l \in 1 .. Len(b) PROVE (a \o b)[Len(a) + l] = b[l]
  <2>1. Len(a) + l \in 1 .. Len(a) + Len(b) /\ ~ (Len(a) + l <= Len(a))
        /\ (Len(a) + l) - Len(a) = l
    OBVIOUS
  <2>2. \A i \in 1 .. Len(a) + Len(b) : (a \o b)[i] = IF i <= Len(a) THEN a[i] ELSE b[i - Len(a)]
    BY ConcatProperties
  <2> DEFINE m == Len(a) + l
  <2> HIDE DEF m
  <2>3. m \in 1 .. Len(a) + Len(b) /\ ~ (m <= Len(a)) /\ m - Len(a) = l
    BY <2>1 DEF m
  <2>4. (a \o b)[m] = b[m - Len(a)]
    BY <2>2, <2>3
  <2>. QED BY <2>3, <2>4 DEF m
<1>2. ASSUME NEW m \in 1 .. Len(a) PROVE (a \o b)[m] = a[m]
  OBVIOUS
<1>. QED BY <1>1, <1>2

\* A CASE over bands has the elements of the bands, one band after the other.
LEMMA FlattenAt ==
  ASSUME NEW K, NEW bands \in Seq(Seq(K)), NEW lens \in Seq(Nat),
         Len(lens) = Len(bands), \A b \in 1 .. Len(bands) : lens[b] = Len(bands[b])
  PROVE  /\ Len(FlattenSeq(bands)) = SumOf(lens)
         /\ \A b \in 1 .. Len(bands) : \A l \in 1 .. lens[b] :
              FlattenSeq(bands)[SumsOf(lens)[b - 1] + l] = bands[b][l]
<1> DEFINE n == Len(bands)
           V == Seq(K)
           sums == SumsOf(lens)
<1>1. n \in Nat /\ \A i \in 1 .. n : bands[i] \in V /\ lens[i] = Len(bands[i]) /\ lens[i] \in Nat
  OBVIOUS
<1>2. lens \in Seq(Nat) /\ lens \in Seq(Int) /\ Len(lens) = n
  OBVIOUS
<1>3. /\ sums \in [0 .. n -> Nat] /\ sums[0] = 0
      /\ \A k \in 1 .. n : sums[k] = sums[k - 1] + lens[k]
      /\ \A i, j \in 0 .. n : i <= j => sums[i] <= sums[j]
  BY <1>2, SumsOfInt, SumsOfNat
<1> HIDE DEF sums
<1>4. CASE n = 0
  <2>1. FlattenSeq(bands) = bands /\ bands = <<>>
    BY <1>4 DEF FlattenSeq
  <2>2. SumOf(lens) = 0
    BY <1>2, <1>3, <1>4 DEF SumOf, sums
  <2>3. Len(FlattenSeq(bands)) = 0
    BY <2>1
  <2>. QED BY <1>2, <1>4, <2>2, <2>3
<1>5. CASE n # 0
  <2>1. PICK f : FlattenedBy(f, bands)
    BY <1>5, FlattenSteps
  <2> DEFINE Q(k) == /\ f[k] \in V /\ Len(f[k]) = sums[k]
                     /\ \A b \in 1 .. k : \A l \in 1 .. lens[b] :
                          f[k][sums[b - 1] + l] = bands[b][l]
             S == {i \in 1 .. n : Q(i)}
  <2>2. 1 \in S
    <3>1. 1 \in 1 .. n /\ 1 - 1 = 0 /\ \A b \in 1 .. 1 : b = 1
      BY <1>1, <1>5
    <3>2. f[1] = bands[1]
      BY <2>1 DEF FlattenedBy
    <3>3. sums[1] = lens[1] /\ \A l \in 1 .. lens[1] : sums[0] + l = l
      <4>1. sums[1] = 0 + lens[1] /\ lens[1] \in Nat
        BY <1>1, <1>3, <3>1
      <4>. QED BY <1>3, <4>1
    <3>4. Q(1)
      <4> HIDE DEF V, n
      <4>. QED BY <1>1, <3>1, <3>2, <3>3
    <3> HIDE DEF Q
    <3>. QED BY <3>1, <3>4
  <2>3. ASSUME NEW k \in 1 .. n - 1, k \in S PROVE k + 1 \in S
    <3> DEFINE u == f[k]
               v == bands[k + 1]
    <3>0. k + 1 \in 2 .. n /\ k + 1 \in 1 .. n /\ (k + 1) - 1 = k /\ k \in 0 .. n /\ k \in 1 .. n
      BY <1>1
    <3>1. f[k + 1] = u \o v
      BY <2>1, <3>0 DEF FlattenedBy
    <3>2. u \in V /\ v \in V /\ Len(u) = sums[k] /\ Len(v) = lens[k + 1]
      BY <1>1, <2>3, <3>0
    <3>3. \A b \in 1 .. k : \A l \in 1 .. lens[b] : u[sums[b - 1] + l] = bands[b][l]
      BY <2>3
    <3> HIDE DEF u, v
    <3>4. u \o v \in V /\ Len(u \o v) = Len(u) + Len(v)
      BY <3>2, ConcatIn
    <3>5. /\ \A m \in 1 .. Len(u) : (u \o v)[m] = u[m]
          /\ \A l \in 1 .. Len(v) : (u \o v)[Len(u) + l] = v[l]
      <4>1. u \in Seq(K) /\ v \in Seq(K)
        BY <3>2
      <4> HIDE DEF V, n
      <4>. QED BY <4>1, ConcatAt
    <3>6. \A l \in 1 .. Len(v) : (u \o v)[Len(u) + l] = v[l]
      BY <3>5
    <3>7. Len(u \o v) = sums[k + 1]
      BY <1>3, <3>0, <3>2, <3>4
    <3> DEFINE w == u \o v
    <3> HIDE DEF w
    <3>8. ASSUME NEW b \in 1 .. k + 1, NEW l \in 1 .. lens[b]
          PROVE  w[sums[b - 1] + l] = bands[b][l]
      <4>1. CASE b = k + 1
        BY <3>0, <3>2, <3>6, <4>1 DEF v, w
      <4>2. CASE b # k + 1
        <5>1. b \in 1 .. k /\ b \in 1 .. n /\ b - 1 \in 0 .. n /\ b \in 0 .. n /\ b <= k
          BY <3>0, <4>2
        <5>2. sums[b - 1] + l \in 1 .. Len(u)
          <6>1. sums[b] = sums[b - 1] + lens[b] /\ sums[b] <= sums[k]
                /\ sums[b - 1] \in Nat /\ sums[b] \in Nat /\ sums[k] \in Nat /\ lens[b] \in Nat
            BY <1>1, <1>3, <3>0, <5>1
          <6> DEFINE x == sums[b - 1]
                     y == lens[b]
                     z == sums[k]
          <6>2. x \in Nat /\ y \in Nat /\ z \in Nat /\ x + y <= z /\ l \in 1 .. y /\ z = Len(u)
            BY <3>2, <6>1
          <6> HIDE DEF x, y, z
          <6>3. x + l \in 1 .. Len(u)
            BY <6>2
          <6>. QED BY <6>3 DEF x
        <5>. QED BY <3>3, <3>5, <5>1, <5>2 DEF w
      <4>. QED BY <4>1, <4>2
    <3>9. Q(k + 1)
      BY <3>1, <3>4, <3>7, <3>8 DEF w, v
    <3> HIDE DEF Q
    <3>. QED BY <3>0, <3>9
  <2>4. 1 .. n \subseteq S
    <3> HIDE DEF S
    <3>. QED BY <1>1, <2>2, <2>3, UpTheInterval
  <2>5. Q(n)
    <3>1. n \in 1 .. n
      BY <1>1, <1>5
    <3> HIDE DEF Q
    <3>. QED BY <2>4, <3>1
  <2>6. FlattenSeq(bands) = f[n]
    BY <2>1 DEF FlattenedBy
  <2>. QED BY <1>2, <2>5, <2>6 DEF SumOf, sums
<1>. QED BY <1>4, <1>5

\* The rows of band b.
BandRows(counts, b) == SumsOf(counts)[b - 1] + 1 .. SumsOf(counts)[b]

\* All rows are in one of the bands, each of which has one value.
Banded(vs, n, counts, v) ==
  /\ n \in Nat /\ counts \in [1 .. n -> Nat] /\ DOMAIN vs = 1 .. SumOf(counts)
  /\ \A b \in 1 .. n : \A r \in BandRows(counts, b) : vs[r] = {v[b]}

\* The bands share out the rows, each has as many as it counts.
LEMMA BandRowsAre ==
  ASSUME NEW n \in Nat, NEW counts \in [1 .. n -> Nat]
  PROVE  /\ SumOf(counts) \in Nat
         /\ \A b \in 1 .. n : /\ BandRows(counts, b) \in SUBSET (1 .. SumOf(counts))
                              /\ IsFiniteSet(BandRows(counts, b))
                              /\ Cardinality(BandRows(counts, b)) = counts[b]
         /\ \A r \in 1 .. SumOf(counts) : \E b \in 1 .. n : r \in BandRows(counts, b)
<1> DEFINE h == SumsOf(counts)
<1>1. counts \in Seq(Nat) /\ counts \in Seq(Int) /\ Len(counts) = n
  OBVIOUS
<1>2. /\ h \in [0 .. n -> Nat] /\ h[0] = 0 /\ SumOf(counts) = h[n]
      /\ \A i \in 1 .. n : h[i] = h[i - 1] + counts[i]
      /\ \A i, j \in 0 .. n : i <= j => h[i] <= h[j]
      /\ SumOf(counts) \in Nat
  BY <1>1, SumsOfInt, SumsOfNat DEF SumOf
<1> HIDE DEF h
<1>3. ASSUME NEW b \in 1 .. n
      PROVE  /\ BandRows(counts, b) \in SUBSET (1 .. SumOf(counts))
             /\ IsFiniteSet(BandRows(counts, b))
             /\ Cardinality(BandRows(counts, b)) = counts[b]
  <2> DEFINE x == h[b - 1]
             y == h[b]
             c == counts[b]
             z == SumOf(counts)
  <2>1. x \in Nat /\ y \in Nat /\ c \in Nat /\ y = x + c /\ y <= z /\ z \in Nat
    BY <1>2
  <2>2. BandRows(counts, b) = x + 1 .. y
    BY DEF BandRows, h
  <2> HIDE DEF x, y, c, z
  <2>3. y = (x + 1) + c - 1 /\ x + 1 \in Int
    BY <2>1
  <2>4. IsFiniteSet(x + 1 .. y) /\ Cardinality(x + 1 .. y) = c
    BY <2>1, <2>3, Consecutive
  <2>5. x + 1 .. y \in SUBSET (1 .. z)
    BY <2>1
  <2>. QED BY <2>2, <2>4, <2>5 DEF c, z
<1>4. ASSUME NEW r \in 1 .. SumOf(counts) PROVE \E b \in 1 .. n : r \in BandRows(counts, b)
  <2> DEFINE W == {b \in 1 .. n : r <= h[b]}
  <2>1. W \in SUBSET Nat /\ W # {}
    <3>1. n # 0
      <4>1. n = 0 => SumOf(counts) = 0
        BY <1>2
      <4>. QED BY <1>2, <4>1
    <3>2. n \in W
      BY <1>2, <3>1
    <3>. QED BY <3>2
  <2>2. PICK b \in W : \A a \in W : b <= a
    <3> HIDE DEF W
    <3>. QED BY <2>1, LeastElement
  <2>3. h[b - 1] < r
    <3>1. CASE b = 1
      BY <1>2, <3>1
    <3>2. CASE b # 1
      <4>1. b - 1 \in 1 .. n /\ b - 1 \notin W
        BY <2>2, <3>2
      <4>2. h[b - 1] \in Nat /\ ~ (r <= h[b - 1])
        BY <1>2, <4>1
      <4>. QED BY <1>2, <4>2
    <3>. QED BY <3>1, <3>2
  <2>4. r \in h[b - 1] + 1 .. h[b]
    <3>1. h[b - 1] \in Nat /\ h[b] \in Nat /\ r <= h[b] /\ r \in Nat
      BY <1>2, <2>2
    <3>. QED BY <2>3, <3>1
  <2>. QED BY <2>4 DEF BandRows, h
<1>. QED BY <1>2, <1>3, <1>4

\* If no two of the bands have the same value, the rows of a value are those of
\* its band.
LEMMA BandedRows ==
  ASSUME NEW n, NEW counts, NEW v, NEW vs, Banded(vs, n, counts, v),
         \A a, b \in 1 .. n : counts[a] > 0 /\ counts[b] > 0 /\ v[a] = v[b] => a = b
  PROVE  /\ \A b \in 1 .. n : counts[b] > 0 => RowsWith(vs, v[b]) = counts[b]
         /\ \A x : x \in Generated(vs) <=> x # None /\ \E b \in 1 .. n : counts[b] > 0 /\ x = v[b]
<1>1. n \in Nat /\ counts \in [1 .. n -> Nat] /\ DOMAIN vs = 1 .. SumOf(counts)
      /\ \A b \in 1 .. n : \A r \in BandRows(counts, b) : vs[r] = {v[b]}
  BY DEF Banded
<1>2. /\ SumOf(counts) \in Nat
      /\ \A b \in 1 .. n : /\ BandRows(counts, b) \in SUBSET (1 .. SumOf(counts))
                           /\ IsFiniteSet(BandRows(counts, b))
                           /\ Cardinality(BandRows(counts, b)) = counts[b]
      /\ \A r \in 1 .. SumOf(counts) : \E b \in 1 .. n : r \in BandRows(counts, b)
  <2>1. n \in Nat /\ counts \in [1 .. n -> Nat]
    BY DEF Banded
  <2>. QED BY <2>1, BandRowsAre
<1>3. ASSUME NEW b \in 1 .. n, NEW r \in BandRows(counts, b) PROVE counts[b] > 0
  <2>1. Cardinality(BandRows(counts, b)) # 0
    BY <1>2, FS_EmptySet
  <2>. QED BY <1>1, <1>2, <2>1
<1>4. ASSUME NEW b \in 1 .. n, counts[b] > 0 PROVE RowsWith(vs, v[b]) = counts[b]
  <2> DEFINE A == {r \in DOMAIN vs : vs[r] = {v[b]}}
  <2>1. A \subseteq BandRows(counts, b)
    <3> SUFFICES ASSUME NEW r \in 1 .. SumOf(counts), vs[r] = {v[b]} PROVE r \in BandRows(counts, b)
      BY <1>1
    <3>1. PICK a \in 1 .. n : r \in BandRows(counts, a)
      BY <1>2
    <3>2. vs[r] = {v[a]} /\ counts[a] > 0
      BY <1>1, <1>3, <3>1
    <3>3. v[a] = v[b]
      BY <3>2
    <3>4. a = b
      BY <1>4, <3>2, <3>3
    <3>. QED BY <3>1, <3>4
  <2>2. BandRows(counts, b) \subseteq A
    BY <1>1, <1>2
  <2>3. A = BandRows(counts, b)
    BY <2>1, <2>2
  <2>. QED BY <1>2, <2>3 DEF RowsWith
<1>5. ASSUME NEW x PROVE x \in UNION Range(vs) <=> \E b \in 1 .. n : counts[b] > 0 /\ x = v[b]
  <2>1. ASSUME NEW b \in 1 .. n, counts[b] > 0, x = v[b] PROVE x \in UNION Range(vs)
    <3>1. BandRows(counts, b) # {}
      <4>1. Cardinality(BandRows(counts, b)) # 0
        BY <1>1, <1>2, <2>1
      <4>. QED BY <4>1, FS_EmptySet
    <3>2. PICK r : r \in BandRows(counts, b)
      BY <3>1
    <3>3. r \in DOMAIN vs /\ vs[r] = {x}
      BY <1>1, <1>2, <2>1, <3>2
    <3>. QED BY <3>3 DEF Range
  <2>2. ASSUME x \in UNION Range(vs) PROVE \E b \in 1 .. n : counts[b] > 0 /\ x = v[b]
    <3>1. PICK r \in DOMAIN vs : x \in vs[r]
      BY <2>2 DEF Range
    <3>2. PICK b \in 1 .. n : r \in BandRows(counts, b)
      BY <1>1, <1>2, <3>1
    <3>3. vs[r] = {v[b]} /\ counts[b] > 0
      BY <1>1, <1>3, <3>2
    <3>. QED BY <3>1, <3>3
  <2>. QED BY <2>1, <2>2
<1>6. \A x : x \in Generated(vs) <=> x # None /\ \E b \in 1 .. n : counts[b] > 0 /\ x = v[b]
  BY <1>5 DEF Generated
<1>. QED BY <1>4, <1>6

\* So they are if every band has rows.
LEMMA FullBandsRows ==
  ASSUME NEW n, NEW counts, NEW v, NEW vs, Banded(vs, n, counts, v),
         \A b \in 1 .. n : counts[b] \in Nat \ {0},
         \A a, b \in 1 .. n : v[a] = v[b] => a = b
  PROVE  /\ \A b \in 1 .. n : RowsWith(vs, v[b]) = counts[b]
         /\ \A x : x \in Generated(vs) <=> x # None /\ \E b \in 1 .. n : x = v[b]
<1>1. \A b \in 1 .. n : counts[b] > 0
  OBVIOUS
<1>2. \A a, b \in 1 .. n : counts[a] > 0 /\ counts[b] > 0 /\ v[a] = v[b] => a = b
  OBVIOUS
<1>3. /\ \A b \in 1 .. n : counts[b] > 0 => RowsWith(vs, v[b]) = counts[b]
      /\ \A x : x \in Generated(vs) <=> x # None /\ \E b \in 1 .. n : counts[b] > 0 /\ x = v[b]
  BY <1>2, BandedRows
<1>. QED BY <1>1, <1>3

\* A CASE whose bands are as many rows as there are has the rows of its bands.
LEMMA CaseBanded ==
  ASSUME NEW n \in Nat, NEW counts \in [1 .. n -> Nat], NEW v, NEW d, NEW rows,
         rows = SumOf(counts)
  PROVE  Banded(CaseOf(ConstantBands(n, counts, v), d, rows), n, counts, v)
<1> DEFINE K == {v[i] : i \in 1 .. n}
           bands == ConstantBands(n, counts, v)
           all == FlattenSeq(bands)
           h == SumsOf(counts)
           vs == CaseOf(bands, d, rows)
<1>1. \A i \in 1 .. n : counts[i] \in Nat /\ counts[i] \in Int /\ v[i] \in K
  OBVIOUS
<1> HIDE DEF K
<1>2. ASSUME NEW i \in 1 .. n
      PROVE  /\ Constant(counts[i], v[i]) \in Seq(K) /\ Len(Constant(counts[i], v[i])) = counts[i]
             /\ \A l \in 1 .. counts[i] : Constant(counts[i], v[i])[l] = v[i]
  <2>1. Constant(counts[i], v[i]) \in Seq(K)
    BY <1>1, ConstantIn
  <2>2. Constant(counts[i], v[i]) = [l \in 1 .. counts[i] |-> v[i]]
    BY DEF Constant
  <2> DEFINE s == Constant(counts[i], v[i])
             c == counts[i]
             w == v[i]
  <2>3. c \in Nat /\ s = [l \in 1 .. c |-> w] /\ s \in Seq(K)
    BY <1>1, <2>1, <2>2
  <2> HIDE DEF s, c, w
  <2>4. s \in Seq(K) /\ Len(s) = c /\ \A l \in 1 .. c : s[l] = w
    BY <2>3
  <2>. QED BY <2>4 DEF s, c, w
<1>3. bands \in Seq(Seq(K)) /\ Len(bands) = n /\ \A i \in 1 .. n : bands[i] = Constant(counts[i], v[i])
  <2>1. bands = [i \in 1 .. n |-> Constant(counts[i], v[i])]
    BY DEF ConstantBands
  <2> DEFINE V == Seq(K)
  <2>2. bands \in [1 .. n -> V]
    BY <1>2, <2>1
  <2> HIDE DEF V
  <2>3. bands \in Seq(V) /\ Len(bands) = n
    BY <2>2
  <2>. QED BY <2>1, <2>3 DEF V
<1> HIDE DEF bands
<1>4. /\ Len(all) = SumOf(counts)
      /\ \A b \in 1 .. n : \A l \in 1 .. counts[b] : all[h[b - 1] + l] = bands[b][l]
  <2>1. counts \in Seq(Nat) /\ Len(counts) = Len(bands)
        /\ \A b \in 1 .. Len(bands) : counts[b] = Len(bands[b])
    <3>1. counts \in Seq(Nat) /\ Len(counts) = n
      OBVIOUS
    <3>. QED BY <1>2, <1>3, <3>1
  <2>2. /\ Len(all) = SumOf(counts)
        /\ \A b \in 1 .. Len(bands) : \A l \in 1 .. counts[b] : all[h[b - 1] + l] = bands[b][l]
    BY <1>3, <2>1, FlattenAt
  <2>. QED BY <1>3, <2>2
<1>5. SumOf(counts) \in Nat /\ \A b \in 1 .. n : BandRows(counts, b) \in SUBSET (1 .. SumOf(counts))
  BY BandRowsAre
<1>6. /\ h \in [0 .. n -> Nat] /\ \A i \in 1 .. n : h[i] = h[i - 1] + counts[i]
  <2>1. counts \in Seq(Nat) /\ counts \in Seq(Int) /\ Len(counts) = n
    OBVIOUS
  <2>. QED BY <2>1, SumsOfInt, SumsOfNat
<1>7. vs = [r \in 1 .. rows |-> {IF r <= Len(all) THEN all[r] ELSE d}]
  BY DEF CaseOf
<1> HIDE DEF vs, all, h
<1>8. DOMAIN vs = 1 .. SumOf(counts)
  BY <1>7
<1>9. ASSUME NEW b \in 1 .. n, NEW r \in BandRows(counts, b) PROVE vs[r] = {v[b]}
  <2>1. r \in 1 .. SumOf(counts)
    BY <1>5
  <2> DEFINE x == h[b - 1]
             l == r - x
  <2>2. x \in Nat /\ h[b] = x + counts[b] /\ counts[b] \in Nat /\ r \in x + 1 .. h[b]
    <3>1. b - 1 \in 0 .. n /\ h[b - 1] \in Nat /\ h[b] = h[b - 1] + counts[b]
      BY <1>6
    <3>2. r \in h[b - 1] + 1 .. h[b]
      BY DEF BandRows, h
    <3>. QED BY <1>1, <3>1, <3>2
  <2> DEFINE y == h[b]
             z == counts[b]
  <2> HIDE DEF x, y, z
  <2>3. l \in 1 .. counts[b] /\ x + l = r
    <3>1. x \in Nat /\ y = x + z /\ z \in Nat /\ r \in x + 1 .. y
      BY <2>2 DEF y, z
    <3>2. l \in 1 .. z /\ x + l = r
      BY <3>1
    <3>. QED BY <3>2 DEF z
  <2> HIDE DEF l
  <2>4. all[r] = v[b]
    <3>1. all[x + l] = bands[b][l]
      BY <1>4, <2>3 DEF x
    <3>2. bands[b][l] = v[b]
      BY <1>2, <1>3, <2>3
    <3>. QED BY <2>3, <3>1, <3>2
  <2>5. vs[r] = {all[r]}
    BY <1>4, <1>7, <2>1
  <2>. QED BY <2>4, <2>5
<1>10. \A b \in 1 .. n : \A r \in BandRows(counts, b) : vs[r] = {v[b]}
  BY <1>9
<1>11. Banded(vs, n, counts, v)
  BY <1>8, <1>10 DEF Banded
<1>. QED BY <1>11 DEF vs, bands

-----------------------------------------------------------------------------
(* The columns whose frequencies are kept.                                   *)

\* The generated values are w[1] .. w[n], with s[i] rows each.
Numbers(w, n, s, vs) ==
  /\ \A i, j \in 1 .. n : w[i] = w[j] => i = j
  /\ \A x : x \in Generated(vs) <=> \E i \in 1 .. n : w[i] = x
  /\ \A i \in 1 .. n : RowsWith(vs, w[i]) = s[i]

\* What the validation counts are the rows of u[1] .. u[m], which are the same values.
Counted(vs, m, u) ==
  /\ m \in Nat /\ u \in [1 .. m -> Generated(vs)]
  /\ \A i, j \in 1 .. m : u[i] = u[j] => i = j
  /\ \A x \in Generated(vs) : \E i \in 1 .. m : u[i] = x
  /\ Frequencies(vs) = [j \in 1 .. m |-> RowsWith(vs, u[j])]
IsCounted(vs) == \E m, u : Counted(vs, m, u)

\* Where each frequency of the source is that of one of the generated values.
LEMMA KeptFrequencies ==
  ASSUME NEW a \in Seq(Nat \ {0}), a # <<>>, NEW vs, IsCounted(vs), NEW n \in Nat,
         NEW s \in [1 .. n -> Nat \ {0}], Rearranged(s, a), NEW w, Numbers(w, n, s, vs)
  PROVE  HistogramDifference(a, Frequencies(vs)) = 0
<1> DEFINE F == Frequencies(vs)
<1>1. /\ \A i, j \in 1 .. n : w[i] = w[j] => i = j
      /\ \A x : x \in Generated(vs) <=> \E i \in 1 .. n : w[i] = x
      /\ \A i \in 1 .. n : RowsWith(vs, w[i]) = s[i]
  BY DEF Numbers
<1>2. PICK m, u : Counted(vs, m, u)
  BY DEF IsCounted
<1> DEFINE W(j) == RowsWith(vs, u[j])
<1>3. /\ m \in Nat /\ u \in [1 .. m -> Generated(vs)]
      /\ \A i, j \in 1 .. m : u[i] = u[j] => i = j
      /\ \A x \in Generated(vs) : \E i \in 1 .. m : u[i] = x
      /\ F = [j \in 1 .. m |-> W(j)]
  BY <1>2 DEF Counted
<1>4. ASSUME NEW j \in 1 .. m PROVE \E i \in 1 .. n : w[i] = u[j] /\ W(j) = s[i]
  <2>1. PICK i \in 1 .. n : w[i] = u[j]
    BY <1>1, <1>3
  <2>. QED BY <1>1, <2>1
<1> HIDE DEF W
<1>5. \A j \in 1 .. m : W(j) \in Nat \ {0}
  BY <1>4
<1> HIDE DEF F
<1>6. F \in Seq(Nat \ {0}) /\ DOMAIN F = 1 .. m
  <2>1. F \in [1 .. m -> Nat \ {0}]
    BY <1>3, <1>5
  <2>. QED BY <1>3, <2>1
<1> DEFINE f == [i \in 1 .. n |-> CHOOSE j \in 1 .. m : u[j] = w[i]]
<1>7. ASSUME NEW i \in 1 .. n PROVE f[i] \in 1 .. m /\ u[f[i]] = w[i]
  <2>1. \E j \in 1 .. m : u[j] = w[i]
    BY <1>1, <1>3
  <2>2. f[i] = CHOOSE j \in 1 .. m : u[j] = w[i]
    OBVIOUS
  <2> HIDE DEF f
  <2>. QED BY <2>1, <2>2
<1>8. f = [i \in 1 .. n |-> f[i]]
  OBVIOUS
<1> HIDE DEF f
<1>9. f \in [1 .. n -> 1 .. m]
  BY <1>7, <1>8
<1>10. \A i, j \in 1 .. n : f[i] = f[j] => i = j
  BY <1>1, <1>7
<1>11. \A j \in 1 .. m : \E i \in 1 .. n : f[i] = j
  <2> SUFFICES ASSUME NEW j \in 1 .. m PROVE \E i \in 1 .. n : f[i] = j
    OBVIOUS
  <2>1. PICK i \in 1 .. n : w[i] = u[j]
    BY <1>4
  <2>2. f[i] = j
    BY <1>3, <1>7, <2>1
  <2>. QED BY <2>2
<1>12. f \in Bijection(1 .. n, 1 .. m)
  BY <1>9, <1>10, <1>11 DEF Bijection, Injection, Surjection, IsInjective
<1>13. \A i \in 1 .. n : s[i] = F[f[i]]
  <2> TAKE i \in 1 .. n
  <2>1. f[i] \in 1 .. m /\ u[f[i]] = w[i]
    BY <1>7
  <2>2. F[f[i]] = W(f[i])
    BY <1>3, <2>1
  <2>3. W(f[i]) = RowsWith(vs, w[i])
    BY <2>1 DEF W
  <2>. QED BY <1>1, <2>2, <2>3
<1>14. Rearranged(s, F)
  BY <1>6, <1>12, <1>13 DEF Rearranged
<1>15. Rearranged(a, F)
  <2>1. Rearranged(a, s)
    BY RearrangedBack
  <2>. QED BY <1>14, <2>1, RearrangedTwice
<1>16. a \in Seq(Nat) /\ F \in Seq(Nat)
  BY <1>6
<1>17. HistogramDifference(a, F) = 0
  BY <1>15, <1>16, RearrangedDifference
<1>. QED BY <1>17 DEF F

\* Bands of the frequencies of the source, each for a value of its own: NULL aside,
\* these are what is generated.
LEMMA KeptByBands ==
  ASSUME NEW a \in Seq(Nat \ {0}), a # <<>>, NEW vs, IsCounted(vs), NEW n, NEW s, NEW v,
         Rearranged(s, a), Banded(vs, n, s, v), \A i \in 1 .. n : s[i] \in Nat \ {0},
         \A i, j \in 1 .. n : v[i] = v[j] => i = j, \A i \in 1 .. n : v[i] # None
  PROVE  HistogramDifference(a, Frequencies(vs)) = 0
<1>1. /\ \A b \in 1 .. n : RowsWith(vs, v[b]) = s[b]
      /\ \A x : x \in Generated(vs) <=> x # None /\ \E b \in 1 .. n : x = v[b]
  BY FullBandsRows
<1>2. \A x : x \in Generated(vs) <=> \E i \in 1 .. n : v[i] = x
  BY <1>1
<1>3. Numbers(v, n, s, vs)
  BY <1>1, <1>2 DEF Numbers
<1>4. n \in Nat /\ s \in [1 .. n -> Nat \ {0}]
  BY DEF Banded
<1>. QED BY <1>3, <1>4, KeptFrequencies

\* Without rows of 0 the values are those that have been counted one by one.
LEMMA NoZeroes ==
  ASSUME NEW c \in SourceColumns, c.zero = 0
  PROVE  AllValues(c) = c.freq
<1> DEFINE K == Nat \ {0}
<1>1. c.freq \in Seq(K)
  BY ColumnFields
<1> HIDE DEF K
<1>2. <<>> \o c.freq = c.freq
  BY <1>1, ConcatEmptySeq
<1>. QED BY <1>2 DEF AllValues

\* Exact counts of numbers, dates and times.
LEMMA ExactColumnKept ==
  ASSUME NEW c \in SourceColumns, c.kind # "fk", c.rows = Total(c), ExactCountsApply(c),
         IsCounted(ExactColumn(c))
  PROVE  HistogramDifference(AllValues(c), Frequencies(ExactColumn(c))) = 0
<1> DEFINE n == Len(c.freq)
           s == Descending(c.freq)
           v == [i \in 1 .. n |-> i - 1]
           vs == ExactColumn(c)
<1>1. c.freq \in Seq(Nat \ {0}) /\ c.freq \in Seq(Nat) /\ n \in Nat
  <2>1. c.freq \in Seq(Nat \ {0})
    BY ColumnFields
  <2>. QED BY <2>1
<1>2. s \in [1 .. n -> Nat \ {0}] /\ Rearranged(s, c.freq) /\ SumOf(s) = SumOf(c.freq)
  <2>1. s \in Seq(Nat) /\ Len(s) = n /\ Rearranged(s, c.freq) /\ SumOf(s) = SumOf(c.freq)
        /\ \A i \in 1 .. n : s[i] \in Range(c.freq)
    BY <1>1, DescendingIs, DescendingSum
  <2>2. Range(c.freq) \subseteq Nat \ {0}
    BY <1>1 DEF Range
  <2> HIDE DEF s, n
  <2>3. s \in [1 .. n -> Nat \ {0}]
    BY <1>1, <2>1, <2>2
  <2>. QED BY <2>1, <2>3
<1>3. ~ (c.zero > 0) /\ c.zero \in Nat /\ c.null = 0
  BY ColumnFields DEF ExactCountsApply
<1>4. c.rows = SumOf(s) /\ Distinct(c) = n
  <2>1. SumOf(c.freq) \in Nat
    BY <1>1, SumsOfNat
  <2>. QED BY <1>2, <1>3, <2>1 DEF Total, Distinct
<1>5. vs = CaseOf([i \in DOMAIN s |-> Constant(s[i], i - 1)], n - 1, c.rows)
  BY <1>4 DEF ExactColumn, Sure, Case, CaseOf
<1> HIDE DEF n, s
<1>6. [i \in DOMAIN s |-> Constant(s[i], i - 1)] = ConstantBands(n, s, v)
  BY <1>2 DEF ConstantBands
<1>7. Banded(vs, n, s, v)
  <2>1. s \in [1 .. n -> Nat]
    BY <1>2
  <2> HIDE DEF v, vs
  <2> DEFINE d == n - 1
  <2>2. vs = CaseOf(ConstantBands(n, s, v), d, c.rows)
    BY <1>5, <1>6
  <2> HIDE DEF d
  <2>. QED BY <1>1, <1>4, <2>1, <2>2, CaseBanded
<1>8. \A i, j \in 1 .. n : v[i] = v[j] => i = j
  BY <1>1
<1>9. \A i \in 1 .. n : v[i] # None
  <2>1. \A i \in 1 .. n : v[i] \in Int
    BY <1>1
  <2>2. None \notin Int
    BY ValuesAssumption
  <2>. QED BY <2>1, <2>2
<1>10. n # 0
  BY <1>4 DEF ExactCountsApply
<1>11. AllValues(c) = c.freq
  <2>1. c.zero = 0
    BY <1>3
  <2>. QED BY <2>1, NoZeroes
<1> HIDE DEF v, vs
<1>12. c.freq # <<>>
  BY <1>10 DEF n
<1>13. HistogramDifference(c.freq, Frequencies(vs)) = 0
  <2>1. c.freq \in Seq(Nat \ {0}) /\ IsCounted(vs)
    BY ColumnFields DEF vs
  <2>2. \A i \in 1 .. n : s[i] \in Nat \ {0}
    BY <1>2
  <2>. QED BY <1>2, <1>7, <1>8, <1>9, <1>12, <2>1, <2>2, KeptByBands
<1>. QED BY <1>11, <1>13 DEF vs

\* Two counts more, before the others.
LEMMA SumAfterTwo ==
  ASSUME NEW n \in Nat, NEW s \in [1 .. n -> Nat], NEW t \in [1 .. n + 2 -> Nat],
         \A i \in 1 .. n : t[i + 2] = s[i]
  PROVE  SumOf(t) = t[1] + t[2] + SumOf(s)
<1> DEFINE f == SumsOf(s)
           g == SumsOf(t)
           x == t[1] + t[2]
           S == {k \in 0 .. n : g[k + 2] = x + f[k]}
<1>1. s \in Seq(Int) /\ s \in Seq(Nat) /\ Len(s) = n
  OBVIOUS
<1>2. t \in Seq(Int) /\ t \in Seq(Nat) /\ Len(t) = n + 2
  OBVIOUS
<1>3. /\ f \in [0 .. n -> Nat] /\ f[0] = 0 /\ SumOf(s) = f[n]
      /\ \A i \in 1 .. n : f[i] = f[i - 1] + s[i]
  BY <1>1, SumsOfInt, SumsOfNat DEF SumOf
<1>4. /\ g \in [0 .. n + 2 -> Nat] /\ g[0] = 0 /\ SumOf(t) = g[n + 2]
      /\ \A i \in 1 .. n + 2 : g[i] = g[i - 1] + t[i]
  BY <1>2, SumsOfInt, SumsOfNat DEF SumOf
<1> HIDE DEF f, g
<1>5. t[1] \in Nat /\ t[2] \in Nat
  OBVIOUS
<1>6. 0 \in S
  <2>1. 1 \in 1 .. n + 2 /\ 2 \in 1 .. n + 2 /\ 1 - 1 = 0 /\ 2 - 1 = 1
    OBVIOUS
  <2>2. g[1] = g[0] + t[1] /\ g[2] = g[1] + t[2]
    BY <1>4, <2>1
  <2>3. 0 + 2 = 2 /\ 0 \in 0 .. n
    OBVIOUS
  <2>4. g[2] = x + f[0]
    BY <1>3, <1>4, <1>5, <2>2
  <2> HIDE DEF x
  <2>. QED BY <2>3, <2>4
<1>7. ASSUME NEW k \in 1 .. n, k - 1 \in S PROVE k \in S
  <2>1. k + 2 \in 1 .. n + 2 /\ (k + 2) - 1 = (k - 1) + 2 /\ k \in 0 .. n /\ k - 1 \in 0 .. n
        /\ k + 1 \in 0 .. n + 2 /\ (k - 1) + 2 = k + 1
    OBVIOUS
  <2>2. g[k + 2] = g[k + 1] + t[k + 2] /\ t[k + 2] = s[k]
    BY <1>4, <2>1
  <2>3. g[k + 1] = x + f[k - 1]
    BY <1>7, <2>1
  <2>4. f[k] = f[k - 1] + s[k]
    BY <1>3
  <2>5. x \in Nat /\ f[k - 1] \in Nat /\ s[k] \in Nat
    BY <1>3, <1>5, <2>1
  <2> HIDE DEF x
  <2>6. g[k + 2] = x + f[k]
    BY <2>2, <2>3, <2>4, <2>5
  <2>. QED BY <2>1, <2>6
<1>8. 0 .. n \subseteq S
  <2> HIDE DEF S
  <2>. QED BY <1>6, <1>7, UpFromZero
<1>9. n \in 0 .. n
  OBVIOUS
<1>. QED BY <1>3, <1>4, <1>8, <1>9

\* The rows of a column of exact foreign keys: 0, NULL, and the keys by rank.
RankedCounts(c) ==
  [i \in 1 .. Len(c.freq) + 2 |->
     IF i = 1 THEN c.zero ELSE IF i = 2 THEN c.null ELSE Descending(c.freq)[i - 2]]
RankedValues(c) ==
  [i \in 1 .. Len(c.freq) + 2 |-> IF i = 1 THEN 0 ELSE IF i = 2 THEN None ELSE c.low + i - 3]

\* A sequence of constant bands.
AreBands(a, n, V, t, v) ==
  a \in [1 .. n -> V] /\ \A i \in 1 .. n : a[i] = Constant(t[i], v[i])

\* It is the one by the definition.
LEMMA SameBands ==
  ASSUME NEW a, NEW n, NEW V, NEW t, NEW v, AreBands(a, n, V, t, v)
  PROVE  a = ConstantBands(n, t, v)
<1>1. a \in [1 .. n -> V] /\ \A i \in 1 .. n : a[i] = Constant(t[i], v[i])
  BY DEF AreBands
<1>2. a = [i \in 1 .. n |-> a[i]]
  BY <1>1
<1>3. a = [i \in 1 .. n |-> Constant(t[i], v[i])]
  BY <1>1, <1>2, Zenon
<1>. QED BY <1>3 DEF ConstantBands

\* The frequencies of a column in descending order.
LEMMA DescendingPositive ==
  ASSUME NEW c \in SourceColumns
  PROVE  /\ Len(c.freq) \in Nat /\ c.freq \in Seq(Nat)
         /\ Descending(c.freq) \in [1 .. Len(c.freq) -> Nat \ {0}]
         /\ Rearranged(Descending(c.freq), c.freq)
         /\ SumOf(Descending(c.freq)) = SumOf(c.freq) /\ SumOf(c.freq) \in Nat
<1> DEFINE s == Descending(c.freq)
           n == Len(c.freq)
<1>1. c.freq \in Seq(Nat \ {0}) /\ c.freq \in Seq(Nat) /\ n \in Nat
  <2>1. c.freq \in Seq(Nat \ {0})
    BY ColumnFields
  <2>. QED BY <2>1
<1>2. s \in Seq(Nat) /\ Len(s) = n /\ Rearranged(s, c.freq) /\ SumOf(s) = SumOf(c.freq)
      /\ \A i \in 1 .. n : s[i] \in Range(c.freq)
  BY <1>1, DescendingIs, DescendingSum
<1>3. Range(c.freq) \subseteq Nat \ {0}
  BY <1>1 DEF Range
<1> HIDE DEF s, n
<1>4. s \in [1 .. n -> Nat \ {0}]
  BY <1>1, <1>2, <1>3
<1>. QED BY <1>1, <1>2, <1>4, SumsOfNat DEF s, n

\* A column by rank has a band of 0, one of NULL and one for each key.
LEMMA RankedBanded ==
  ASSUME NEW c \in SourceColumns, c.rows = Total(c)
  PROVE  Banded(RankedColumn(c), Len(c.freq) + 2, RankedCounts(c), RankedValues(c))
<1> DEFINE n == Len(c.freq)
           N == n + 2
           s == Descending(c.freq)
           t == RankedCounts(c)
           v == RankedValues(c)
           of == [i \in DOMAIN s |-> Constant(s[i], c.low + i - 1)]
           all == UnknownBands(c) \o of
           vs == RankedColumn(c)
<1>1. /\ n \in Nat /\ s \in [1 .. n -> Nat \ {0}] /\ SumOf(s) = SumOf(c.freq)
      /\ SumOf(s) \in Nat
  BY DescendingPositive
<1>2. c.zero \in Nat /\ c.null \in Nat /\ c.low \in Int
  BY ColumnFields
<1>3. t = [i \in 1 .. N |-> IF i = 1 THEN c.zero ELSE IF i = 2 THEN c.null ELSE s[i - 2]]
  BY DEF RankedCounts
<1>4. v = [i \in 1 .. N |-> IF i = 1 THEN 0 ELSE IF i = 2 THEN None ELSE c.low + i - 3]
  BY DEF RankedValues
<1>5. vs = CaseOf(all, LastKey(c), c.rows)
  BY DEF RankedColumn, Sure, Case, CaseOf
<1> HIDE DEF n, s, t, v, vs
<1>6. N \in Nat /\ t \in [1 .. N -> Nat]
  <2>1. ASSUME NEW i \in 1 .. N
        PROVE  (IF i = 1 THEN c.zero ELSE IF i = 2 THEN c.null ELSE s[i - 2]) \in Nat
    <3>1. i # 1 /\ i # 2 => i - 2 \in 1 .. n
      BY <1>1
    <3>2. \A k \in 1 .. n : s[k] \in Nat
      BY <1>1
    <3>. QED BY <1>2, <3>1, <3>2
  <2>. QED BY <1>1, <1>3, <2>1
<1>7. SumOf(t) = c.rows
  <2>1. s \in [1 .. n -> Nat]
    BY <1>1
  <2>2. \A i \in 1 .. n : t[i + 2] = s[i]
    BY <1>1, <1>3
  <2>3. t[1] = c.zero /\ t[2] = c.null
    BY <1>1, <1>3
  <2>4. SumOf(t) = t[1] + t[2] + SumOf(s)
    BY <1>1, <1>6, <2>1, <2>2, SumAfterTwo
  <2>. QED BY <1>1, <1>2, <2>3, <2>4 DEF Total
<1>8. all = ConstantBands(N, t, v)
  <2> DEFINE K == Int \cup {None}
             V == Seq(K)
             b == UnknownBands(c)
  <2>1. b = <<Constant(c.zero, 0), Constant(c.null, None)>>
    BY DEF UnknownBands
  <2>2. Constant(c.zero, 0) \in V /\ Constant(c.null, None) \in V
    BY <1>2, ConstantIn
  <2>3. ASSUME NEW i \in 1 .. n PROVE Constant(s[i], c.low + i - 1) \in V
    <3>1. s[i] \in Int /\ c.low + i - 1 \in K
      BY <1>1, <1>2
    <3>. QED BY <3>1, ConstantIn
  <2> HIDE DEF V
  <2>4. of \in Seq(V) /\ Len(of) = n /\ \A i \in 1 .. n : of[i] = Constant(s[i], c.low + i - 1)
    <3>1. of \in [1 .. n -> V]
      BY <1>1, <2>3
    <3>2. \A i \in 1 .. n : of[i] = Constant(s[i], c.low + i - 1)
      BY <1>1
    <3> HIDE DEF of
    <3>. QED BY <1>1, <3>1, <3>2
  <2>5. b \in Seq(V) /\ Len(b) = 2 /\ b[1] = Constant(c.zero, 0) /\ b[2] = Constant(c.null, None)
    BY <2>1, <2>2
  <2> HIDE DEF b, of
  <2>6. /\ b \o of \in Seq(V) /\ Len(b \o of) = 2 + n
        /\ \A i \in 1 .. 2 + n : (b \o of)[i] = IF i <= 2 THEN b[i] ELSE of[i - 2]
    <3>1. b \in Seq(V) /\ of \in Seq(V) /\ Len(b) = 2 /\ Len(of) = n
      BY <2>4, <2>5
    <3> HIDE DEF V
    <3>2. /\ b \o of \in Seq(V) /\ Len(b \o of) = Len(b) + Len(of)
          /\ \A i \in 1 .. Len(b) + Len(of) :
               (b \o of)[i] = IF i <= Len(b) THEN b[i] ELSE of[i - Len(b)]
      BY <3>1, ConcatProperties
    <3>. QED BY <3>1, <3>2
  <2> DEFINE a == b \o of
  <2> HIDE DEF a, V
  <2>8. a \in [1 .. N -> V]
    <3>1. a \in Seq(V) /\ Len(a) = N
      BY <1>1, <2>6 DEF a
    <3>. QED BY <3>1
  <2>9. ASSUME NEW i \in 1 .. N PROVE a[i] = Constant(t[i], v[i])
    <3>1. a[i] = IF i <= 2 THEN b[i] ELSE of[i - 2]
      BY <1>1, <2>6 DEF a
    <3>2. CASE i = 1
      BY <1>3, <1>4, <2>5, <3>1, <3>2
    <3>3. CASE i = 2
      BY <1>3, <1>4, <2>5, <3>1, <3>3
    <3>4. CASE i # 1 /\ i # 2
      <4>1. i - 2 \in 1 .. n /\ ~ (i <= 2) /\ c.low + (i - 2) - 1 = c.low + i - 3
        BY <1>1, <1>2, <3>4
      <4>2. t[i] = s[i - 2] /\ v[i] = c.low + i - 3
        BY <1>3, <1>4, <3>4
      <4>. QED BY <2>4, <3>1, <4>1, <4>2
    <3>. QED BY <3>2, <3>3, <3>4
  <2>10. a = ConstantBands(N, t, v)
    <3> HIDE DEF N
    <3>1. AreBands(a, N, V, t, v)
      BY <2>8, <2>9 DEF AreBands
    <3>. QED BY <3>1, SameBands
  <2>. QED BY <2>10 DEF a, b
<1> HIDE DEF all, N
<1>9. Banded(vs, N, t, v)
  <2> DEFINE d == LastKey(c)
  <2>1. vs = CaseOf(ConstantBands(N, t, v), d, c.rows)
    BY <1>5, <1>8
  <2> HIDE DEF d
  <2>. QED BY <1>6, <1>7, <2>1, CaseBanded
<1>. QED BY <1>9 DEF n, N, t, v, vs

\* A count before them all leaves the others a rearrangement.
LEMMA RearrangedBehind ==
  ASSUME NEW K, NEW n \in Nat, NEW s \in [1 .. n -> K], NEW t \in Seq(K), Len(t) = n,
         Rearranged(s, t), NEW z \in K
  PROVE  Rearranged([i \in 1 .. n + 1 |-> IF i = 1 THEN z ELSE s[i - 1]], <<z>> \o t)
<1> DEFINE a == [i \in 1 .. n + 1 |-> IF i = 1 THEN z ELSE s[i - 1]]
           b == <<z>> \o t
<1>1. PICK f \in Bijection(1 .. n, 1 .. n) : \A i \in 1 .. n : s[i] = t[f[i]]
  BY DEF Rearranged
<1>2. /\ f \in [1 .. n -> 1 .. n] /\ (\A y \in 1 .. n : \E x \in 1 .. n : f[x] = y)
      /\ \A x, y \in 1 .. n : f[x] = f[y] => x = y
  BY <1>1 DEF Bijection, Injection, Surjection, IsInjective
<1>3. /\ DOMAIN b = 1 .. n + 1 /\ b[1] = z /\ \A i \in 1 .. n : b[i + 1] = t[i]
  <2> DEFINE first == <<z>>
  <2>1. first \in Seq(K) /\ Len(first) = 1 /\ first[1] = z
    OBVIOUS
  <2> HIDE DEF first
  <2>2. /\ first \o t \in Seq(K) /\ Len(first \o t) = 1 + n
        /\ \A i \in 1 .. 1 + n : (first \o t)[i] = IF i <= 1 THEN first[i] ELSE t[i - 1]
    <3>1. /\ first \o t \in Seq(K) /\ Len(first \o t) = Len(first) + Len(t)
          /\ \A i \in 1 .. Len(first) + Len(t) :
               (first \o t)[i] = IF i <= Len(first) THEN first[i] ELSE t[i - Len(first)]
      BY <2>1, ConcatProperties, Zenon
    <3>. QED BY <2>1, <3>1
  <2>3. b = first \o t
    BY DEF first
  <2> HIDE DEF b
  <2>4. b \in Seq(K) /\ Len(b) = n + 1 /\ b[1] = z
    BY <2>1, <2>2, <2>3
  <2>5. ASSUME NEW i \in 1 .. n PROVE b[i + 1] = t[i]
    <3> DEFINE j == i + 1
    <3>1. j \in 1 .. 1 + n /\ ~ (j <= 1) /\ j - 1 = i
      OBVIOUS
    <3> HIDE DEF j
    <3>2. b[j] = t[j - 1]
      BY <2>2, <2>3, <3>1
    <3>. QED BY <3>1, <3>2 DEF j
  <2>. QED BY <2>4, <2>5
<1> DEFINE g == [i \in 1 .. n + 1 |-> IF i = 1 THEN 1 ELSE f[i - 1] + 1]
<1>4. /\ g[1] = 1 /\ DOMAIN a = 1 .. n + 1 /\ a[1] = z
      /\ \A i \in 1 .. n : g[i + 1] = f[i] + 1 /\ a[i + 1] = s[i]
      /\ \A i \in 1 .. n + 1 : i = 1 \/ (i - 1 \in 1 .. n /\ g[i] = f[i - 1] + 1 /\ a[i] = s[i - 1])
  OBVIOUS
<1>5. g \in [1 .. n + 1 -> 1 .. n + 1]
  <2>1. g = [i \in 1 .. n + 1 |-> g[i]]
    OBVIOUS
  <2>2. ASSUME NEW i \in 1 .. n + 1 PROVE g[i] \in 1 .. n + 1
    <3>1. CASE i = 1
      BY <1>4, <3>1
    <3>2. CASE i # 1
      <4>1. i - 1 \in 1 .. n /\ g[i] = f[i - 1] + 1
        BY <1>4, <3>2
      <4>2. f[i - 1] \in 1 .. n
        BY <1>2, <4>1
      <4>. QED BY <4>1, <4>2
    <3>. QED BY <3>1, <3>2
  <2> HIDE DEF g
  <2>. QED BY <2>1, <2>2
<1> HIDE DEF a, b, g
<1>6. \A x, y \in 1 .. n + 1 : g[x] = g[y] => x = y
  <2> SUFFICES ASSUME NEW x \in 1 .. n + 1, NEW y \in 1 .. n + 1, g[x] = g[y] PROVE x = y
    OBVIOUS
  <2>1. \A i \in 1 .. n : f[i] + 1 # 1
    BY <1>2
  <2>2. CASE x = 1 \/ y = 1
    BY <1>4, <2>1, <2>2
  <2>3. CASE x # 1 /\ y # 1
    <3>1. x - 1 \in 1 .. n /\ y - 1 \in 1 .. n /\ f[x - 1] + 1 = f[y - 1] + 1
      BY <1>4, <2>3
    <3>2. f[x - 1] = f[y - 1]
      <4>1. f[x - 1] \in Int /\ f[y - 1] \in Int
        BY <1>2, <3>1
      <4>. QED BY <3>1, <4>1
    <3>3. x - 1 = y - 1
      BY <1>2, <3>1, <3>2
    <3>. QED BY <3>3
  <2>. QED BY <2>2, <2>3
<1>7. \A y \in 1 .. n + 1 : \E x \in 1 .. n + 1 : g[x] = y
  <2> SUFFICES ASSUME NEW y \in 1 .. n + 1 PROVE \E x \in 1 .. n + 1 : g[x] = y
    OBVIOUS
  <2>1. CASE y = 1
    BY <1>4, <2>1
  <2>2. CASE y # 1
    <3>1. y - 1 \in 1 .. n
      BY <2>2
    <3>2. PICK i \in 1 .. n : f[i] = y - 1
      BY <1>2, <3>1
    <3>3. g[i + 1] = y /\ i + 1 \in 1 .. n + 1
      BY <1>4, <3>2
    <3>. QED BY <3>3
  <2>. QED BY <2>1, <2>2
<1>8. g \in Bijection(1 .. n + 1, 1 .. n + 1)
  BY <1>5, <1>6, <1>7 DEF Bijection, Injection, Surjection, IsInjective
<1>9. \A i \in 1 .. n + 1 : a[i] = b[g[i]]
  <2> SUFFICES ASSUME NEW i \in 1 .. n + 1 PROVE a[i] = b[g[i]]
    OBVIOUS
  <2>1. CASE i = 1
    BY <1>3, <1>4, <2>1
  <2>2. CASE i # 1
    <3>1. i - 1 \in 1 .. n /\ g[i] = f[i - 1] + 1 /\ a[i] = s[i - 1]
      BY <1>4, <2>2
    <3>2. f[i - 1] \in 1 .. n /\ s[i - 1] = t[f[i - 1]]
      BY <1>1, <1>2, <3>1
    <3>. QED BY <1>3, <3>1, <3>2
  <2>. QED BY <2>1, <2>2
<1>10. Rearranged(a, b)
  BY <1>3, <1>4, <1>8, <1>9 DEF Rearranged
<1>. QED BY <1>10 DEF a, b

\* Frequency groups and exact counts keep the frequencies; of 0 too.
LEMMA RankedColumnKept ==
  ASSUME NEW c \in SourceColumns, c.rows = Total(c), c.size >= Distinct(c), Distinct(c) # 0,
         IsCounted(RankedColumn(c))
  PROVE  HistogramDifference(AllValues(c), Frequencies(RankedColumn(c))) = 0
<1> DEFINE n == Len(c.freq)
           N == n + 2
           s == Descending(c.freq)
           t == RankedCounts(c)
           v == RankedValues(c)
           w == [i \in 1 .. n |-> c.low + i - 1]
           vs == RankedColumn(c)
<1>1. n \in Nat /\ s \in [1 .. n -> Nat \ {0}] /\ Rearranged(s, c.freq)
  BY DescendingPositive
<1>2. c.zero \in Nat /\ c.null \in Nat /\ c.low \in Int /\ c.size \in Nat /\ c.size >= n
  BY ColumnFields DEF Distinct
<1>3. t = [i \in 1 .. N |-> IF i = 1 THEN c.zero ELSE IF i = 2 THEN c.null ELSE s[i - 2]]
  BY DEF RankedCounts
<1>4. v = [i \in 1 .. N |-> IF i = 1 THEN 0 ELSE IF i = 2 THEN None ELSE c.low + i - 3]
  BY DEF RankedValues
<1>5. Banded(vs, N, t, v)
  BY RankedBanded
<1>6. c.zero > 0 => 0 \notin Referenced(c)
  BY DEF SourceColumns
<1> HIDE DEF n, s, t, v, vs
<1>7. \A i \in 1 .. n : w[i] \in Int /\ w[i] \in Referenced(c)
  BY <1>1, <1>2 DEF Referenced
<1>8. None \notin Int
  BY ValuesAssumption
<1>9. ASSUME NEW i \in 1 .. N
      PROVE  \/ i = 1 /\ t[i] = c.zero /\ v[i] = 0
             \/ i = 2 /\ t[i] = c.null /\ v[i] = None
             \/ i - 2 \in 1 .. n /\ t[i] = s[i - 2] /\ v[i] = w[i - 2]
  <2>1. CASE i = 1
    BY <1>3, <1>4, <2>1
  <2>2. CASE i = 2
    BY <1>3, <1>4, <2>2
  <2>3. CASE i # 1 /\ i # 2
    <3>1. i - 2 \in 1 .. n /\ c.low + (i - 2) - 1 = c.low + i - 3
      BY <1>1, <1>2, <2>3
    <3>2. t[i] = s[i - 2] /\ v[i] = c.low + i - 3
      BY <1>3, <1>4, <2>3
    <3>. QED BY <3>1, <3>2
  <2>. QED BY <2>1, <2>2, <2>3
<1>10. \A i \in 1 .. n : /\ i + 2 \in 1 .. N /\ t[i + 2] = s[i] /\ v[i + 2] = w[i]
                         /\ s[i] \in Nat /\ s[i] > 0
  <2> TAKE i \in 1 .. n
  <2>1. i + 2 \in 1 .. N /\ i + 2 # 1 /\ i + 2 # 2 /\ (i + 2) - 2 = i
    BY <1>1
  <2>2. s[i] \in Nat \ {0}
    BY <1>1
  <2> DEFINE j == i + 2
  <2>3. j \in 1 .. N /\ j # 1 /\ j # 2 /\ j - 2 = i
    BY <2>1
  <2> HIDE DEF j
  <2>4. t[j] = s[j - 2] /\ v[j] = w[j - 2]
    BY <1>9, <2>3
  <2>5. j \in 1 .. N /\ t[j] = s[i] /\ v[j] = w[i] /\ s[i] \in Nat /\ s[i] > 0
    BY <2>2, <2>3, <2>4
  <2>. QED BY <2>5 DEF j
<1>11. \A i, j \in 1 .. n : w[i] = w[j] => i = j
  BY <1>1, <1>2
<1> HIDE DEF w
<1>12. ASSUME NEW a \in 1 .. N, NEW b \in 1 .. N, t[a] > 0, t[b] > 0, v[a] = v[b]
       PROVE  a = b
  <2>1. c.zero > 0 => \A i \in 1 .. n : w[i] # 0
    BY <1>6, <1>7
  <2>2. \A i \in 1 .. n : w[i] # None
    BY <1>7, <1>8
  <2>3. 0 # None
    BY <1>8
  <2>4. a \in Int /\ b \in Int
    OBVIOUS
  <2>5. CASE a = 1
    BY <1>9, <1>12, <2>1, <2>3, <2>5
  <2>6. CASE a = 2
    BY <1>9, <1>12, <2>2, <2>3, <2>6
  <2>7. CASE a - 2 \in 1 .. n /\ t[a] = s[a - 2] /\ v[a] = w[a - 2]
    <3>1. b - 2 \in 1 .. n /\ v[b] = w[b - 2]
      BY <1>9, <1>12, <2>1, <2>2, <2>7
    <3>2. a - 2 = b - 2
      BY <1>11, <1>12, <2>7, <3>1
    <3>. QED BY <2>4, <3>2
  <2>. QED BY <1>9, <2>5, <2>6, <2>7
<1>13. /\ \A b \in 1 .. N : t[b] > 0 => RowsWith(vs, v[b]) = t[b]
       /\ \A x : x \in Generated(vs) <=> x # None /\ \E b \in 1 .. N : t[b] > 0 /\ x = v[b]
  BY <1>5, <1>12, BandedRows
<1>14. \A i \in 1 .. n : RowsWith(vs, w[i]) = s[i]
  <2> TAKE i \in 1 .. n
  <2> DEFINE j == i + 2
  <2>1. j \in 1 .. N /\ t[j] = s[i] /\ v[j] = w[i] /\ s[i] > 0
    BY <1>10
  <2> HIDE DEF j
  <2>. QED BY <1>13, <2>1
<1>15. ASSUME NEW x
       PROVE  x \in Generated(vs) <=> (c.zero > 0 /\ x = 0) \/ \E i \in 1 .. n : w[i] = x
  <2>1. ASSUME x \in Generated(vs) PROVE (c.zero > 0 /\ x = 0) \/ \E i \in 1 .. n : w[i] = x
    <3>1. x # None
      BY <1>13, <2>1
    <3>2. PICK b \in 1 .. N : t[b] > 0 /\ x = v[b]
      BY <1>13, <2>1
    <3>. QED BY <1>2, <1>9, <3>1, <3>2
  <2>2. ASSUME NEW i \in 1 .. n, w[i] = x PROVE x \in Generated(vs)
    <3> DEFINE j == i + 2
    <3>1. j \in 1 .. N /\ t[j] > 0 /\ v[j] = x
      BY <1>10, <2>2
    <3> HIDE DEF j
    <3>2. x # None
      BY <1>7, <1>8, <2>2
    <3>. QED BY <1>13, <3>1, <3>2
  <2>3. ASSUME c.zero > 0, x = 0 PROVE x \in Generated(vs)
    <3>1. 1 \in 1 .. N /\ t[1] > 0 /\ v[1] = x
      BY <1>1, <1>3, <1>4, <2>3
    <3>2. x # None
      BY <1>8, <2>3
    <3>. QED BY <1>13, <3>1, <3>2
  <2>. QED BY <2>1, <2>2, <2>3
<1>16. AllValues(c) \in Seq(Nat \ {0}) /\ AllValues(c) # <<>> /\ IsCounted(vs)
       /\ c.freq \in Seq(Nat \ {0}) /\ Len(c.freq) = n
  <2>1. AllValues(c) \in Seq(Nat \ {0}) /\ n # 0 /\ n = Distinct(c)
        /\ Len(AllValues(c)) = Distinct(c) + (IF c.zero > 0 THEN 1 ELSE 0)
    BY CountsOf DEF Distinct, n
  <2>2. Len(AllValues(c)) # 0
    BY <1>1, <2>1
  <2>. QED BY <1>1, <2>1, <2>2, ColumnFields DEF n, vs
<1>17. CASE ~ (c.zero > 0)
  <2>1. AllValues(c) = c.freq
    <3>1. c.zero = 0
      BY <1>2, <1>17
    <3>. QED BY <3>1, NoZeroes
  <2>2. Numbers(w, n, s, vs)
    BY <1>11, <1>14, <1>15, <1>17 DEF Numbers
  <2>3. HistogramDifference(c.freq, Frequencies(vs)) = 0
    BY <1>1, <1>16, <2>1, <2>2, KeptFrequencies
  <2>. QED BY <2>1, <2>3 DEF vs
<1>18. CASE c.zero > 0
  <2> DEFINE m == n + 1
             ss == [i \in 1 .. m |-> IF i = 1 THEN c.zero ELSE s[i - 1]]
             ww == [i \in 1 .. m |-> IF i = 1 THEN 0 ELSE w[i - 1]]
  <2>1. m \in Nat /\ \A i \in 1 .. m : i = 1 \/ i - 1 \in 1 .. n
    BY <1>1
  <2>2. ss \in [1 .. m -> Nat \ {0}]
    BY <1>1, <1>2, <1>18, <2>1
  <2>3. Rearranged(ss, AllValues(c))
    <3>1. AllValues(c) = <<c.zero>> \o c.freq
      BY <1>18 DEF AllValues
    <3>2. Rearranged(ss, <<c.zero>> \o c.freq)
      <4> DEFINE K == Nat \ {0}
                 a == c.freq
                 z == c.zero
                 b == [i \in 1 .. n + 1 |-> IF i = 1 THEN z ELSE s[i - 1]]
      <4>1. s \in [1 .. n -> K] /\ a \in Seq(K) /\ Len(a) = n /\ Rearranged(s, a) /\ z \in K
        BY <1>1, <1>2, <1>16, <1>18
      <4>2. ss = b
        OBVIOUS
      <4> HIDE DEF K, a, z, ss
      <4>3. Rearranged(b, <<z>> \o a)
        BY <1>1, <4>1, RearrangedBehind
      <4>. QED BY <4>2, <4>3 DEF a, z
    <3>. QED BY <3>1, <3>2
  <2>4. /\ ww[1] = 0 /\ ss[1] = c.zero /\ 1 \in 1 .. m
        /\ \A i \in 1 .. n : i + 1 \in 1 .. m /\ ww[i + 1] = w[i] /\ ss[i + 1] = s[i]
        /\ \A i \in 1 .. m : i # 1 => ww[i] = w[i - 1] /\ ss[i] = s[i - 1]
    BY <1>1
  <2> HIDE DEF m, ss, ww
  <2>5. \A i \in 1 .. n : w[i] # 0
    BY <1>6, <1>7, <1>18
  <2>6. \A i, j \in 1 .. m : ww[i] = ww[j] => i = j
    <3> SUFFICES ASSUME NEW i \in 1 .. m, NEW j \in 1 .. m, ww[i] = ww[j] PROVE i = j
      OBVIOUS
    <3>1. CASE i = 1 \/ j = 1
      BY <2>1, <2>4, <2>5, <3>1
    <3>2. CASE i # 1 /\ j # 1
      <4>1. i - 1 \in 1 .. n /\ j - 1 \in 1 .. n /\ w[i - 1] = w[j - 1]
        BY <2>1, <2>4, <3>2
      <4>2. i - 1 = j - 1
        BY <1>11, <4>1
      <4>. QED BY <2>1, <4>2
    <3>. QED BY <3>1, <3>2
  <2>7. \A x : x \in Generated(vs) <=> \E i \in 1 .. m : ww[i] = x
    <3> SUFFICES ASSUME NEW x PROVE x \in Generated(vs) <=> \E i \in 1 .. m : ww[i] = x
      OBVIOUS
    <3>1. x \in Generated(vs) <=> x = 0 \/ \E i \in 1 .. n : w[i] = x
      BY <1>15, <1>18
    <3>2. (x = 0 \/ \E i \in 1 .. n : w[i] = x) => \E i \in 1 .. m : ww[i] = x
      BY <2>4
    <3>3. (\E i \in 1 .. m : ww[i] = x) => x = 0 \/ \E i \in 1 .. n : w[i] = x
      BY <2>1, <2>4
    <3>. QED BY <3>1, <3>2, <3>3
  <2>8. RowsWith(vs, 0) = c.zero
    <3>1. 1 \in 1 .. N /\ t[1] = c.zero /\ v[1] = 0
      BY <1>1, <1>3, <1>4
    <3>. QED BY <1>13, <1>18, <3>1
  <2>9. \A i \in 1 .. m : RowsWith(vs, ww[i]) = ss[i]
    BY <1>14, <2>1, <2>4, <2>8
  <2>10. Numbers(ww, m, ss, vs)
    BY <2>6, <2>7, <2>9 DEF Numbers
  <2>11. HistogramDifference(AllValues(c), Frequencies(vs)) = 0
    BY <1>16, <2>1, <2>2, <2>3, <2>10, KeptFrequencies
  <2>. QED BY <2>11 DEF vs
<1>. QED BY <1>17, <1>18

-----------------------------------------------------------------------------
(* What each formula gives the rows.                                         *)

\* The rows of a column, each with finitely many values it may get.
Rows(c, vs) == DOMAIN vs = 1 .. c.rows /\ \A r \in 1 .. c.rows : IsFiniteSet(vs[r])

\* They are those of a formula without random numbers, ...
LEMMA SureRows ==
  ASSUME NEW c, NEW v, DOMAIN v = 1 .. c.rows
  PROVE  Rows(c, Sure(v))
<1>1. Sure(v) = [r \in 1 .. c.rows |-> {v[r]}]
  BY DEF Sure
<1>2. DOMAIN Sure(v) = 1 .. c.rows /\ \A r \in 1 .. c.rows : Sure(v)[r] = {v[r]}
  BY <1>1
<1>. QED BY <1>2, FS_Singleton DEF Rows

\* ... of a choice from a finite set, ...
LEMMA AnyOfRows ==
  ASSUME NEW c, NEW S, IsFiniteSet(S)
  PROVE  Rows(c, AnyOf(S, c.rows))
BY DEF AnyOf, Rows

\* ... and of any formula with values from a finite set.
LEMMA FiniteRows ==
  ASSUME NEW c, NEW K, IsFiniteSet(K), NEW vs \in [1 .. c.rows -> SUBSET K]
  PROVE  Rows(c, vs)
<1>1. \A r \in 1 .. c.rows : vs[r] \in SUBSET K
  OBVIOUS
<1>. QED BY <1>1, FS_Subset DEF Rows

\* Bands are followed by the default.
LEMMA CaseRows ==
  ASSUME NEW c, NEW bands, NEW d
  PROVE  Rows(c, CaseOf(bands, d, c.rows))
<1> DEFINE all == FlattenSeq(bands)
<1> HIDE DEF all
<1>1. CaseOf(bands, d, c.rows) =
        [r \in 1 .. c.rows |-> {IF r <= Len(all) THEN all[r] ELSE d}]
  BY DEF CaseOf, all
<1>2. /\ DOMAIN CaseOf(bands, d, c.rows) = 1 .. c.rows
      /\ \A r \in 1 .. c.rows : CaseOf(bands, d, c.rows)[r] = {IF r <= Len(all) THEN all[r] ELSE d}
  BY <1>1
<1>. QED BY <1>2, FS_Singleton DEF Rows

\* The keys, NULL and 0.
LEMMA FiniteKeys ==
  ASSUME NEW c \in SourceColumns, NEW n \in Nat
  PROVE  /\ IsFiniteSet(FirstKeys(c, n)) /\ Cardinality(FirstKeys(c, n)) = n
         /\ IsFiniteSet(FirstKeys(c, n) \cup Unknowns(c))
         /\ IsFiniteSet(Referenced(c))
<1>1. c.low \in Int /\ c.size \in Nat
  BY ColumnFields
<1>2. IsFiniteSet(FirstKeys(c, n)) /\ Cardinality(FirstKeys(c, n)) = n
  BY <1>1, Consecutive DEF FirstKeys
<1>3. IsFiniteSet(Referenced(c))
  BY <1>1, Consecutive DEF Referenced
<1>4. IsFiniteSet({None, 0})
  <2>1. IsFiniteSet({None}) /\ {None, 0} = {None} \cup {0}
    BY FS_Singleton
  <2>. QED BY <2>1, FS_AddElement
<1>5. Unknowns(c) \in SUBSET {None, 0}
  BY DEF Unknowns
<1>6. IsFiniteSet(Unknowns(c))
  <2> DEFINE S == {None, 0}
  <2>1. IsFiniteSet(S) /\ Unknowns(c) \in SUBSET S
    BY <1>4, <1>5
  <2> HIDE DEF S
  <2>. QED BY <2>1, FS_Subset
<1>. QED BY <1>2, <1>3, <1>6, FS_Union

\* Foreign keys.
LEMMA FkColumnRows ==
  ASSUME NEW c \in SourceColumns, NEW h \in Histograms(c)
  PROVE  Rows(c, FkColumn(c, h))
<1>1. /\ c.rows \in Nat /\ c.low \in Int /\ c.size \in Nat /\ Distinct(c) \in Nat
      /\ c.estimate \in Nat \cup {None} /\ Len(AllValues(c)) \in Nat
  BY ColumnFields, CountsOf
<1>2. ASSUME NEW n \in Nat PROVE Rows(c, Turned(c, n))
  <2>1. Turned(c, n) \in [1 .. c.rows -> SUBSET FirstKeys(c, n)]
    BY TurnedIn
  <2>2. IsFiniteSet(FirstKeys(c, n))
    BY FiniteKeys
  <2>. QED BY <2>1, <2>2, FiniteRows
<1>3. CASE Estimated(c)
  <2>1. c.estimate \in Nat
    BY <1>1, <1>3 DEF Estimated
  <2> DEFINE cycle == AtLeast(1, AtMost(c.estimate, RefSize(c)))
  <2>2. cycle \in Nat
    <3>1. RefSize(c) \in Nat
      BY <1>1 DEF RefSize, AtLeast
    <3>. QED BY <2>1, <3>1 DEF AtLeast, AtMost
  <2>3. FkColumn(c, h) = Turned(c, cycle)
    BY <1>3 DEF FkColumn, EstimatedColumn
  <2> HIDE DEF cycle
  <2>. QED BY <1>2, <2>2, <2>3
<1>4. CASE ~ Estimated(c) /\ (ExactApplies(c) \/ FrequencyShapeApplies(c))
  <2>1. FkColumn(c, h) = RankedColumn(c)
    BY <1>4 DEF FkColumn
  <2>2. Distinct(c) # 0
    BY <1>1, <1>4 DEF ExactApplies, FrequencyShapeApplies
  <2>3. RankedColumn(c) \in
          [1 .. c.rows -> SUBSET (FirstKeys(c, Distinct(c)) \cup Unknowns(c))]
    BY <2>2, RankedColumnIn
  <2>4. IsFiniteSet(FirstKeys(c, Distinct(c)) \cup Unknowns(c))
    BY <1>1, FiniteKeys
  <2>. QED BY <2>1, <2>3, <2>4, FiniteRows
<1>5. CASE ~ Estimated(c) /\ ~ (ExactApplies(c) \/ FrequencyShapeApplies(c))
  <2>1. FkColumn(c, h) =
          IF NearlyUnique(c) THEN CyclingColumn(c)
          ELSE IF SingletonApplies(c, h) THEN SingletonColumn(c, h)
          ELSE IF CoverageBelow(c, 20) /\ EquiHeightApplies(c, h) THEN EquiHeightColumn(c, h)
          ELSE IF CoverageBelow(c, 80) \/ Distinct(c) <= RefSize(c)
               THEN WrappedCyclingColumn(c)
          ELSE DenseColumn(c)
    BY <1>5 DEF FkColumn
  <2>2. Rows(c, CyclingColumn(c))
    BY <1>1, <1>2 DEF CyclingColumn
  <2>3. Rows(c, SingletonColumn(c, h))
    <3> DEFINE n == Len(h.buckets)
               counts == WeightedCounts(Weights(c, h), Units, Valid(c))
               Sampled(i) == c.low + (((i - 1) * c.size) \div n)
               bands == [i \in 1 .. n |-> Constant(counts[i], Sampled(i))]
               d == Sampled(n)
    <3>1. SingletonColumn(c, h) = CaseOf(bands, d, c.rows)
      BY DEF SingletonColumn, Sure, Case, CaseOf
    <3> HIDE DEF bands, d
    <3>. QED BY <3>1, CaseRows
  <2>4. EquiHeightApplies(c, h) => Rows(c, EquiHeightColumn(c, h))
    <3>1. SUFFICES ASSUME EquiHeightApplies(c, h) PROVE Rows(c, EquiHeightColumn(c, h))
      OBVIOUS
    <3>2. AreBuckets(h.buckets)
      BY <3>1, HistogramBuckets DEF EquiHeightApplies
    <3>3. c.size # 0
      <4>1. 5 * Len(AllValues(c)) < c.size
        BY <3>1 DEF EquiHeightApplies
      <4>. QED BY <1>1, <4>1
    <3>4. EquiHeightColumn(c, h) \in [1 .. c.rows -> SUBSET Referenced(c)]
      BY <3>2, <3>3, EquiHeightColumnIn
    <3>5. IsFiniteSet(Referenced(c))
      BY <1>1, FiniteKeys
    <3>. QED BY <3>4, <3>5, FiniteRows
  <2>5. Rows(c, WrappedCyclingColumn(c))
    <3>1. IsFiniteSet(FirstKeys(c, Distinct(c)) \cup Unknowns(c))
      BY <1>1, FiniteKeys
    <3>. QED BY <3>1, WrappedCyclingColumnIn, FiniteRows
  <2>6. Rows(c, DenseColumn(c))
    <3> DEFINE S == IF c.size = 0 THEN {0} ELSE Referenced(c)
    <3>1. IsFiniteSet({0}) /\ IsFiniteSet(Referenced(c))
      BY <1>1, FS_Singleton, FiniteKeys
    <3>2. IsFiniteSet(S)
      BY <3>1
    <3>3. DenseColumn(c) = AnyOf(S, c.rows)
      BY DEF DenseColumn
    <3> HIDE DEF S
    <3>. QED BY <3>2, <3>3, AnyOfRows
  <2>. QED BY <2>1, <2>2, <2>3, <2>4, <2>5, <2>6
<1>. QED BY <1>3, <1>4, <1>5

\* Exact counts.
LEMMA ExactColumnRows ==
  ASSUME NEW c
  PROVE  Rows(c, ExactColumn(c))
<1> DEFINE ranked == Descending(c.freq)
           bands == [i \in DOMAIN ranked |-> Constant(ranked[i], i - 1)]
           d == Distinct(c) - 1
<1>1. ExactColumn(c) = CaseOf(bands, d, c.rows)
  BY DEF ExactColumn, Sure, Case, CaseOf
<1> HIDE DEF bands, d
<1>. QED BY <1>1, CaseRows

\* Numbers.
LEMMA NumberColumnRows ==
  ASSUME NEW c \in SourceColumns, NEW h \in Histograms(c), NumberColumn(c, h) # None
  PROVE  Rows(c, NumberColumn(c, h))
<1>1. c.rows \in Nat /\ Distinct(c) \in Nat
  BY ColumnFields, CountsOf
<1>2. CASE ExactCountsApply(c)
  <2>1. NumberColumn(c, h) = ExactColumn(c)
    BY <1>2 DEF NumberColumn
  <2>. QED BY <2>1, ExactColumnRows
<1>3. CASE ~ ExactCountsApply(c) /\ IsSingleton(h)
  <2>1. ~ IsEquiHeight(h) /\ h # None
    BY <1>3 DEF IsSingleton, IsEquiHeight
  <2>2. NumberColumn(c, h) = SingletonNumbers(c, h)
    BY <1>3, <2>1 DEF NumberColumn
  <2> DEFINE n == Distinct(c)
             counts == IF n = Len(h.buckets)
                       THEN WeightedCounts(Weights(c, h), Units, Total(c))
                       ELSE LastTakesRest(Constant(n, RoundDiv(Total(c), n)), Total(c))
             bands == [i \in 1 .. n |-> Constant(counts[i], i)]
  <2>3. SingletonNumbers(c, h) =
          IF DistinctRatioFrom(c, 80) THEN Sure(Cycled(c.rows, 1, n))
          ELSE IF n > ExactValues THEN AnyOf(1 .. n, c.rows)
          ELSE CaseOf(bands, n, c.rows)
    BY DEF SingletonNumbers, Sure, Case, CaseOf
  <2>4. Rows(c, Sure(Cycled(c.rows, 1, n)))
    <3>1. DOMAIN Cycled(c.rows, 1, n) = 1 .. c.rows
      BY DEF Cycled
    <3>. QED BY <3>1, SureRows
  <2>5. Rows(c, AnyOf(1 .. n, c.rows))
    <3>1. 1 \in Int /\ n \in Int
      BY <1>1
    <3>2. IsFiniteSet(1 .. n)
      BY <3>1, FiniteInterval
    <3>. QED BY <3>2, AnyOfRows
  <2> HIDE DEF bands, n
  <2>6. Rows(c, CaseOf(bands, n, c.rows))
    BY CaseRows
  <2>. QED BY <2>2, <2>3, <2>4, <2>5, <2>6
<1>4. CASE ~ ExactCountsApply(c) /\ IsEquiHeight(h)
  <2>1. ~ IsSingleton(h) /\ h # None
    BY <1>4 DEF IsSingleton, IsEquiHeight
  <2>2. NumberColumn(c, h) = EquiHeightNumbers(c, h)
    BY <1>4, <2>1 DEF NumberColumn
  <2> DEFINE distincts == NumberDistincts(c, h)
             rows == NumberRows(c, h)
             Band(b) == Cycled(rows[b], SumsOf(distincts)[b - 1], distincts[b])
             bands == [b \in DOMAIN rows |-> Band(b)]
             d == SumOf(distincts) - 1
  <2>3. EquiHeightNumbers(c, h) = CaseOf(bands, d, c.rows)
    BY DEF EquiHeightNumbers, Sure, Case, CaseOf
  <2> HIDE DEF bands, d
  <2>. QED BY <2>2, <2>3, CaseRows
<1>5. CASE ~ ExactCountsApply(c) /\ h = None
  <2>1. ~ IsSingleton(h) /\ ~ IsEquiHeight(h)
    BY <1>5 DEF IsSingleton, IsEquiHeight
  <2>2. NumberColumn(c, h) = IF Distinct(c) = 0 THEN None ELSE AnyOf(0 .. 4, c.rows)
    BY <1>5, <2>1 DEF NumberColumn
  <2>3. NumberColumn(c, h) = AnyOf(0 .. 4, c.rows)
    BY <2>2
  <2>4. 0 \in Int /\ 4 \in Int
    OBVIOUS
  <2>5. IsFiniteSet(0 .. 4)
    BY <2>4, FiniteInterval
  <2>. QED BY <2>3, <2>5, AnyOfRows
<1>6. h = None \/ IsSingleton(h) \/ IsEquiHeight(h)
  BY KindOfHistogram
<1>. QED BY <1>2, <1>3, <1>4, <1>5, <1>6

\* Strings.
LEMMA StringColumnRows ==
  ASSUME NEW c \in SourceColumns, NEW h \in Histograms(c), StringColumn(c, h) # None
  PROVE  Rows(c, StringColumn(c, h))
<1>1. CASE IsSingleton(h)
  <2>1. ~ IsEquiHeight(h) /\ h # None
    BY <1>1 DEF IsSingleton, IsEquiHeight
  <2>2. StringColumn(c, h) = SingletonStrings(c, h)
    BY <1>1, <2>1 DEF StringColumn
  <2> DEFINE order == RankedBuckets(c, h)
             pseudo == [i \in DOMAIN order |-> PseudoCounts(c, h)[order[i]]]
             weights == [i \in DOMAIN order |-> RoundDiv(pseudo[i] * Units, SumOf(pseudo))]
             counts == WeightedCounts(weights, Units, Total(c))
             n == Len(order)
             bands == [i \in 1 .. n |-> Constant(counts[i], Synthetic(i, c.length))]
             d == Synthetic(n, c.length)
  <2>3. SingletonStrings(c, h) =
          IF SumOf(pseudo) = 0 THEN None ELSE CaseOf(bands, d, c.rows)
    BY DEF SingletonStrings, Sure, Case, CaseOf
  <2> HIDE DEF bands, d, pseudo
  <2>4. Rows(c, CaseOf(bands, d, c.rows))
    BY CaseRows
  <2>. QED BY <2>2, <2>3, <2>4
<1>2. CASE IsEquiHeight(h)
  <2>1. ~ IsSingleton(h) /\ h # None
    BY <1>2 DEF IsSingleton, IsEquiHeight
  <2>2. StringColumn(c, h) = EquiHeightStrings(c, h)
    BY <1>2, <2>1 DEF StringColumn
  <2> DEFINE rows == LastTakesRest(RowsOf(h), Total(c))
             room == [b \in DOMAIN rows |->
                        IF rows[b] <= 0 THEN 0 ELSE AtMost(StringDistincts(c, h)[b], rows[b])]
             Band(b) == IF room[b] = 0 THEN <<>>
                        ELSE Cycled(rows[b], SumsOf(room)[b - 1] + 1, room[b])
             all == FlattenSeq([b \in DOMAIN rows |-> Band(b)])
             d == AtLeast(SumOf(room), 1)
             numbers == [r \in 1 .. c.rows |-> IF r <= Len(all) THEN all[r] ELSE d]
             strings == [r \in DOMAIN numbers |-> SyntheticExpression(numbers[r])]
  <2>3. EquiHeightStrings(c, h) = Sure(strings)
    BY DEF EquiHeightStrings, Case
  <2>4. DOMAIN strings = 1 .. c.rows
    <3> HIDE DEF all, d
    <3>. QED OBVIOUS
  <2> HIDE DEF strings
  <2>. QED BY <2>2, <2>3, <2>4, SureRows
<1>3. CASE h = None
  <2>1. StringColumn(c, h) = AnyOf({Random}, c.rows)
    BY <1>3 DEF StringColumn, IsSingleton, IsEquiHeight
  <2> DEFINE S == {Random}
  <2>2. IsFiniteSet(S)
    BY FS_Singleton
  <2> HIDE DEF S
  <2>3. StringColumn(c, h) = AnyOf(S, c.rows)
    BY <2>1 DEF S
  <2>. QED BY <2>2, <2>3, AnyOfRows
<1>4. h = None \/ IsSingleton(h) \/ IsEquiHeight(h)
  BY KindOfHistogram
<1>. QED BY <1>1, <1>2, <1>3, <1>4

\* Dates and times.
LEMMA DateColumnRows ==
  ASSUME NEW c \in SourceColumns, IsTemporal(c), NEW h \in Histograms(c)
  PROVE  Rows(c, DateColumn(c, h))
<1>1. c.rows \in Nat /\ Distinct(c) \in Nat /\ c.span \in Nat \cup {None}
  BY ColumnFields, CountsOf
<1>2. IsFiniteSet({Random})
  BY FS_Singleton
<1>3. Rows(c, AnyOf({Random}, c.rows))
  <2> DEFINE S == {Random}
  <2>1. IsFiniteSet(S)
    BY <1>2
  <2> HIDE DEF S
  <2>2. Rows(c, AnyOf(S, c.rows))
    BY <2>1, AnyOfRows
  <2>. QED BY <2>2 DEF S
<1>4. ASSUME NEW low, NEW n PROVE Rows(c, Sure(Cycled(c.rows, low, n)))
  <2>1. DOMAIN Cycled(c.rows, low, n) = 1 .. c.rows
    BY DEF Cycled
  <2>. QED BY <2>1, SureRows
<1>5. Rows(c, DenseDates(c))
  <2>1. CASE c.span = None
    BY <1>3, <2>1 DEF DenseDates
  <2>2. CASE c.span # None
    <3>1. 0 \in Int /\ c.span \in Int
      BY <1>1, <2>2
    <3>2. IsFiniteSet(Offsets(c))
      BY <3>1, FiniteInterval DEF Offsets
    <3>3. Rows(c, AnyOf(Offsets(c), c.rows))
      BY <3>2, AnyOfRows
    <3>. QED BY <1>4, <2>2, <3>3 DEF DenseDates
  <2>. QED BY <2>1, <2>2
<1>6. ASSUME IsSingleton(h) PROVE Rows(c, SparseDates(c, h))
  <2> DEFINE n == Len(h.buckets)
             counts == [i \in 1 .. n |-> AtLeast(1, RoundDiv(Weights(c, h)[i] * Total(c), Units))]
             excess == SumOf(counts) - Total(c)
             most == Largest(counts, 1 .. n)
             fitted == IF excess > 0
                       THEN [counts EXCEPT ![most] = AtLeast(1, @ - excess)] ELSE counts
             bands == [i \in 1 .. n |-> Constant(fitted[i], i - 1)]
             d == n - 1
  <2>1. SparseDates(c, h) =
          IF DistinctRatioFrom(c, 80) THEN Sure(Cycled(c.rows, 0, n))
          ELSE IF Total(c) <= n * RowsPerValue THEN CaseOf(bands, d, c.rows)
          ELSE AnyOf(0 .. d, c.rows)
    BY DEF SparseDates, Sure, Case, CaseOf
  <2>2. AreBuckets(h.buckets)
    BY <1>6, HistogramBuckets
  <2>3. 0 \in Int /\ d \in Int
    BY <2>2 DEF AreBuckets
  <2> HIDE DEF bands, d
  <2>4. Rows(c, CaseOf(bands, d, c.rows))
    BY CaseRows
  <2>5. IsFiniteSet(0 .. d)
    BY <2>3, FiniteInterval
  <2>6. Rows(c, AnyOf(0 .. d, c.rows))
    BY <2>5, AnyOfRows
  <2>7. Rows(c, Sure(Cycled(c.rows, 0, n)))
    BY <1>4
  <2>. QED BY <2>1, <2>4, <2>6, <2>7
<1>7. Rows(c, ExactColumn(c))
  BY ExactColumnRows
<1>8. CASE ExactCountsApply(c) \/ h = None
  BY <1>3, <1>7, <1>8 DEF DateColumn
<1>9. CASE ~ (ExactCountsApply(c) \/ h = None) /\ OverRange(c, h)
  <2>1. DateColumn(c, h) = DenseDates(c)
    BY <1>9 DEF DateColumn
  <2>. QED BY <1>5, <2>1
<1>10. CASE ~ (ExactCountsApply(c) \/ h = None) /\ ~ OverRange(c, h)
  <2>1. DateColumn(c, h) = SparseDates(c, h)
    BY <1>10 DEF DateColumn
  <2>2. IsSingleton(h)
    BY <1>10 DEF OverRange, IsTemporal
  <2>. QED BY <1>6, <2>1, <2>2
<1>. QED BY <1>8, <1>9, <1>10

\* Years, and the members of an enumeration.
LEMMA ChosenRows ==
  ASSUME NEW c \in SourceColumns
  PROVE  /\ IsYear(c) /\ YearColumn(c) # None => Rows(c, YearColumn(c))
         /\ Rows(c, EnumColumn(c)) /\ Rows(c, AnyOf({Random}, c.rows))
<1>1. c.size \in Int /\ Distinct(c) \in Nat /\ Len(c.freq) \in Nat /\ 0 \in Int /\ 1 \in Int
      /\ DOMAIN c.freq = 1 .. Len(c.freq)
  <2>1. c.freq \in Seq(Nat \ {0}) /\ c.size \in Nat
    BY ColumnFields
  <2>. QED BY <2>1, CountsOf
<1>2. Rows(c, AnyOf({Random}, c.rows))
  <2> DEFINE S == {Random}
  <2>1. IsFiniteSet(S)
    BY FS_Singleton
  <2> HIDE DEF S
  <2>2. Rows(c, AnyOf(S, c.rows))
    BY <2>1, AnyOfRows
  <2>. QED BY <2>2 DEF S
<1>3. ASSUME IsYear(c) PROVE Rows(c, YearColumn(c))
  <2>1. c.span \in Nat
    BY <1>3 DEF SourceColumns, IsYear
  <2>2. FewYears \in Nat
    BY HistogramColumnAssumption
  <2> DEFINE d == Distinct(c) - 1
  <2>3. IsFiniteSet(0 .. d) /\ IsFiniteSet(0 .. c.span)
    <3>1. d \in Int /\ c.span \in Int
      BY <1>1, <2>1
    <3> HIDE DEF d
    <3>. QED BY <1>1, <3>1, FiniteInterval
  <2>4. Rows(c, AnyOf(0 .. d, c.rows)) /\ Rows(c, AnyOf(0 .. c.span, c.rows))
    <3> HIDE DEF d
    <3>. QED BY <2>3, AnyOfRows
  <2>5. CASE Distinct(c) = 0
    <3>1. YearColumn(c) = AnyOf({Random}, c.rows)
      BY <2>2, <2>5 DEF YearColumn
    <3>. QED BY <1>2, <3>1
  <2>6. CASE Distinct(c) \in 1 .. FewYears
    <3>1. YearColumn(c) = AnyOf(0 .. d, c.rows)
      BY <2>2, <2>6 DEF YearColumn
    <3>. QED BY <2>4, <3>1
  <2>7. CASE Distinct(c) > FewYears
    <3>1. YearColumn(c) = AnyOf(0 .. c.span, c.rows)
      BY <2>2, <2>7 DEF YearColumn
    <3>. QED BY <2>4, <3>1
  <2>. QED BY <1>1, <2>2, <2>5, <2>6, <2>7
<1>4. Rows(c, EnumColumn(c))
  <2> DEFINE P(i) == RoundDiv(c.freq[i] * Units, SumOf(c.freq)) > 0
             S == IF Distinct(c) = 0 THEN 1 .. c.size ELSE {i \in DOMAIN c.freq : P(i)}
  <2>1. EnumColumn(c) = AnyOf(S, c.rows)
    BY DEF EnumColumn
  <2>2. IsFiniteSet(1 .. c.size)
    BY <1>1, FiniteInterval
  <2>3. IsFiniteSet({i \in DOMAIN c.freq : P(i)})
    <3> DEFINE T == {i \in DOMAIN c.freq : P(i)}
    <3>1. T \in SUBSET (1 .. Len(c.freq))
      BY <1>1
    <3> HIDE DEF T
    <3>2. IsFiniteSet(T)
      BY <1>1, <3>1, SomePlaces
    <3>. QED BY <3>2 DEF T
  <2>4. IsFiniteSet(S)
    <3> HIDE DEF P
    <3>. QED BY <2>2, <2>3
  <2> HIDE DEF S
  <2>. QED BY <2>1, <2>4, AnyOfRows
<1>. QED BY <1>2, <1>3, <1>4

\* Every formula has finitely many values for each row.
LEMMA FormulaRows ==
  ASSUME NEW c \in SourceColumns, NEW h \in Histograms(c), Formula(c, h) # None
  PROVE  Rows(c, Formula(c, h))
<1>1. CASE c.kind = "fk"
  <2>1. Formula(c, h) = FkColumn(c, h)
    BY <1>1 DEF Formula
  <2>. QED BY <2>1, FkColumnRows
<1>2. CASE IsKey(c)
  <2> DEFINE v == [r \in 1 .. c.rows |-> c.low + r - 1]
  <2>1. Formula(c, h) = Sure(v)
    BY <1>2 DEF Formula, IsKey, KeyColumn
  <2>2. DOMAIN v = 1 .. c.rows
    OBVIOUS
  <2> HIDE DEF v
  <2>. QED BY <2>1, <2>2, SureRows
<1>3. CASE IsKeyPart(c)
  <2> DEFINE per == Total(c) \div Distinct(c)
             v == [r \in 1 .. c.rows |-> r]
             w == [r \in 1 .. c.rows |-> c.low + PartOfRow(c, per, r)]
  <2>1. Formula(c, h) = IF Distinct(c) = 0 THEN Sure(v) ELSE Sure(w)
    BY <1>3 DEF Formula, IsKeyPart, KeyPartColumn
  <2>2. DOMAIN v = 1 .. c.rows /\ DOMAIN w = 1 .. c.rows
    OBVIOUS
  <2> HIDE DEF v, w
  <2>. QED BY <2>1, <2>2, SureRows
<1>4. CASE c.kind = "string"
  <2>1. Formula(c, h) = StringColumn(c, h)
    BY <1>4 DEF Formula
  <2>. QED BY <2>1, StringColumnRows
<1>5. CASE c.kind = "text"
  <2>1. Formula(c, h) = AnyOf({Random}, c.rows)
    BY <1>5 DEF Formula
  <2>. QED BY <2>1, ChosenRows
<1>6. CASE IsTemporal(c)
  <2>1. Formula(c, h) = DateColumn(c, h)
    BY <1>6 DEF Formula, IsTemporal
  <2>. QED BY <1>6, <2>1, DateColumnRows
<1>7. CASE IsYear(c)
  <2>1. Formula(c, h) = YearColumn(c)
    BY <1>7 DEF Formula, IsYear
  <2>. QED BY <1>7, <2>1, ChosenRows
<1>8. CASE c.kind = "enum"
  <2>1. Formula(c, h) = EnumColumn(c)
    BY <1>8 DEF Formula
  <2>. QED BY <2>1, ChosenRows
<1>9. CASE c.kind = "number"
  <2>1. Formula(c, h) = NumberColumn(c, h)
    BY <1>9 DEF Formula
  <2>. QED BY <2>1, NumberColumnRows
<1>10. CASE c.kind = "other"
  BY <1>10 DEF Formula
<1>11. \/ c.kind = "fk" \/ IsKey(c) \/ IsKeyPart(c) \/ c.kind = "string" \/ c.kind = "text"
       \/ IsTemporal(c) \/ IsYear(c) \/ c.kind = "enum" \/ c.kind = "number"
       \/ c.kind = "other"
  <2>1. c.kind \in {"fk", "key", "key part", "string", "text", "date", "time", "year",
                    "enum", "number", "other"}
    BY DEF SourceColumns
  <2>. QED BY <2>1 DEF IsKey, IsKeyPart, IsTemporal, IsYear
<1>. QED BY <1>1, <1>2, <1>3, <1>4, <1>5, <1>6, <1>7, <1>8, <1>9, <1>10, <1>11

\* What a determined column gives its rows: x[r] to row r.
LEMMA DeterminedRows ==
  ASSUME NEW c \in SourceColumns, NEW vs, Rows(c, vs), Determined(vs)
  PROVE  \E T : \E x \in Surjection(1 .. c.rows, T) :
           /\ \A r \in 1 .. c.rows : vs[r] = {x[r]}
           /\ Generated(vs) = T \ {None}
<1> DEFINE R == 1 .. c.rows
           x == [r \in R |-> CHOOSE v : vs[r] = {v}]
           T == {x[r] : r \in R}
<1>1. ASSUME NEW r \in R PROVE vs[r] = {x[r]}
  <2>1. IsFiniteSet(vs[r]) /\ Cardinality(vs[r]) = 1
    BY DEF Rows, Determined
  <2>2. \E v : vs[r] = {v}
    BY <2>1, FS_Singleton
  <2>3. x[r] = CHOOSE v : vs[r] = {v}
    OBVIOUS
  <2> HIDE DEF x
  <2>. QED BY <2>2, <2>3
<1>2. x = [r \in R |-> x[r]]
  OBVIOUS
<1> HIDE DEF x
<1>3. x \in [R -> T] /\ \A y \in T : \E r \in R : x[r] = y
  BY <1>2
<1>4. x \in Surjection(R, T)
  BY <1>3 DEF Surjection
<1>5. \A y : y \in T <=> \E r \in R : y = x[r]
  OBVIOUS
<1>6. \A y : y \in UNION Range(vs) <=> \E r \in R : y = x[r]
  <2>1. Range(vs) = {vs[r] : r \in R}
    BY DEF Range, Rows
  <2>2. \A y : y \in UNION Range(vs) <=> \E r \in R : y \in vs[r]
    BY <2>1
  <2>. QED BY <1>1, <2>2
<1> HIDE DEF T
<1>7. Generated(vs) = T \ {None}
  <2>1. UNION Range(vs) = T
    BY <1>5, <1>6
  <2>. QED BY <2>1 DEF Generated
<1>. QED BY <1>1, <1>4, <1>7

\* The rows of a value.
Given(c, vs, x)  == DOMAIN vs = 1 .. c.rows /\ \A r \in 1 .. c.rows : vs[r] = {x[r]}
OnlyRow(c, x, r) == \A q \in 1 .. c.rows : x[q] = x[r] => q = r

\* A value has the rows that are given it: one, if no other row is given it.
LEMMA RowsOfValue ==
  ASSUME NEW c \in SourceColumns, NEW vs, NEW x, Given(c, vs, x), NEW r \in 1 .. c.rows
  PROVE  /\ RowsWith(vs, x[r]) \in Nat \ {0}
         /\ OnlyRow(c, x, r) => RowsWith(vs, x[r]) = 1
<1>1. DOMAIN vs = 1 .. c.rows /\ \A q \in 1 .. c.rows : vs[q] = {x[q]}
  BY DEF Given
<1> DEFINE S == {q \in DOMAIN vs : vs[q] = {x[r]}}
<1>2. c.rows \in Nat
  BY ColumnFields
<1>3. S \in SUBSET (1 .. c.rows) /\ r \in S
  BY <1>1
<1>4. OnlyRow(c, x, r) => S = {r}
  BY <1>1 DEF OnlyRow
<1>5. RowsWith(vs, x[r]) = Cardinality(S)
  BY DEF RowsWith
<1> HIDE DEF S
<1>6. IsFiniteSet(S) /\ Cardinality(S) \in Nat
  BY <1>2, <1>3, SomePlaces
<1>7. Cardinality(S) # 0
  BY <1>3, <1>6, FS_EmptySet
<1>8. S = {r} => Cardinality(S) = 1
  BY FS_Singleton
<1>. QED BY <1>4, <1>5, <1>6, <1>7, <1>8

\* The elements of a finite set of numbers, from the least.
LEMMA NumberedInOrder ==
  ASSUME NEW S \in SUBSET Nat, IsFiniteSet(S)
  PROVE  /\ Cardinality(S) \in Nat
         /\ \E g \in Bijection(1 .. Cardinality(S), S) : \A k \in 1 .. Cardinality(S) :
              g[k] = CHOOSE r \in S : Cardinality({q \in S : q <= r}) = k
<1> DEFINE m == Cardinality(S)
           I == 1 .. m
           U(r) == {q \in S : q <= r}
           f == [r \in S |-> Cardinality(U(r))]
           g == [k \in I |-> CHOOSE r \in S : Cardinality(U(r)) = k]
<1>1. m \in Nat
  BY FS_CardinalityType
<1>2. IsFiniteSet(I) /\ Cardinality(I) = m
  <2> HIDE DEF m
  <2>1. 1 \in Int /\ 1 + m - 1 = m
    BY <1>1
  <2>. QED BY <1>1, <2>1, Consecutive
<1>3. ASSUME NEW r \in S PROVE U(r) \in SUBSET S /\ r \in U(r)
  OBVIOUS
<1>4. ASSUME NEW a \in S, NEW b \in S, a < b
      PROVE  U(a) \in SUBSET U(b) /\ U(a) # U(b)
  <2>0. a \in Nat /\ b \in Nat /\ \A q \in S : q \in Nat
    OBVIOUS
  <2>1. b \in U(b) /\ b \notin U(a)
    BY <1>4, <2>0
  <2>2. \A q \in S : q <= a => q <= b
    BY <1>4, <2>0
  <2>. QED BY <2>1, <2>2
<1> HIDE DEF U
<1>5. ASSUME NEW r \in S
      PROVE  IsFiniteSet(U(r)) /\ Cardinality(U(r)) \in I
  <2>1. IsFiniteSet(U(r)) /\ Cardinality(U(r)) <= m
    BY <1>3, FS_Subset
  <2>2. Cardinality(U(r)) \in Nat /\ Cardinality(U(r)) # 0
    BY <1>3, <2>1, FS_CardinalityType, FS_EmptySet
  <2> HIDE DEF m
  <2>. QED BY <1>1, <2>1, <2>2
<1>6. ASSUME NEW a \in S, NEW b \in S, a < b PROVE Cardinality(U(a)) # Cardinality(U(b))
  <2>1. U(a) \in SUBSET U(b) /\ U(a) # U(b) /\ IsFiniteSet(U(b))
    BY <1>4, <1>5, <1>6
  <2>. QED BY <2>1, FS_Subset
<1>7. \A r \in S : f[r] = Cardinality(U(r))
  OBVIOUS
<1>8. f \in [S -> I]
  <2> HIDE DEF I
  <2>. QED BY <1>5
<1> HIDE DEF f, m
<1>9. \A a, b \in S : f[a] = f[b] => a = b
  <2> SUFFICES ASSUME NEW a \in S, NEW b \in S, f[a] = f[b] PROVE a = b
    OBVIOUS
  <2>1. a \in Nat /\ b \in Nat
    OBVIOUS
  <2>2. ~ (a < b) /\ ~ (b < a)
    BY <1>6, <1>7
  <2>. QED BY <2>1, <2>2
<1>10. f \in Injection(S, I)
  BY <1>8, <1>9 DEF Injection, IsInjective
<1> HIDE DEF I
<1>11. f \in Surjection(S, I)
  BY <1>2, <1>10, FS_Injection DEF m
<1>12. ASSUME NEW k \in I PROVE g[k] \in S /\ f[g[k]] = k
  <2>1. \E r \in S : Cardinality(U(r)) = k
    BY <1>7, <1>11 DEF Surjection
  <2>2. g[k] = CHOOSE r \in S : Cardinality(U(r)) = k
    OBVIOUS
  <2> HIDE DEF g
  <2>3. g[k] \in S /\ Cardinality(U(g[k])) = k
    BY <2>1, <2>2
  <2>. QED BY <1>7, <2>3
<1>13. /\ g = [k \in I |-> g[k]]
       /\ \A k \in I : g[k] = CHOOSE r \in S : Cardinality({q \in S : q <= r}) = k
  BY DEF U
<1> HIDE DEF g
<1>14. g \in [I -> S] /\ \A a, b \in I : g[a] = g[b] => a = b
  BY <1>12, <1>13
<1>15. \A r \in S : \E k \in I : g[k] = r
  BY <1>8, <1>9, <1>12
<1>16. g \in Bijection(I, S)
  BY <1>14, <1>15 DEF Bijection, Injection, Surjection, IsInjective
<1>17. \E h \in Bijection(I, S) :
         \A k \in I : h[k] = CHOOSE r \in S : Cardinality({q \in S : q <= r}) = k
  BY <1>13, <1>16
<1>. QED BY <1>1, <1>17 DEF I, m

\* What the validation counts are the rows of the generated values: each of these
\* has a first row.
LEMMA RowsCounted ==
  ASSUME NEW c \in SourceColumns, NEW vs, Rows(c, vs), Determined(vs)
  PROVE  IsCounted(vs)
<1> DEFINE R == 1 .. c.rows
           F == FirstRows(vs)
           m == Cardinality(F)
           Nth(k) == CHOOSE r \in F : Cardinality({q \in F : q <= r}) = k
<1>1. c.rows \in Nat /\ DOMAIN vs = R
  BY ColumnFields DEF Rows
<1>2. PICK T : \E x \in Surjection(R, T) :
           /\ \A r \in R : vs[r] = {x[r]}
           /\ Generated(vs) = T \ {None}
  BY DeterminedRows
<1>3. PICK x \in Surjection(R, T) : (\A r \in R : vs[r] = {x[r]}) /\ Generated(vs) = T \ {None}
  BY <1>2
<1>4. x \in [R -> T] /\ \A y \in T : \E r \in R : x[r] = y
  BY DEF Surjection
<1>5. F \in SUBSET R /\ \A r \in R : r \in F <=> x[r] # None /\ \A q \in 1 .. r - 1 : x[q] # x[r]
  <2>1. F = {r \in R : vs[r] # {None} /\ \A q \in 1 .. r - 1 : vs[q] # vs[r]}
    BY <1>1 DEF FirstRows
  <2>2. ASSUME NEW r \in R PROVE \A q \in 1 .. r - 1 : q \in R
    BY <1>1
  <2>3. ASSUME NEW r \in R
        PROVE  /\ vs[r] # {None} <=> x[r] # None
               /\ \A q \in 1 .. r - 1 : vs[q] # vs[r] <=> x[q] # x[r]
    BY <1>3, <2>2
  <2> HIDE DEF F, R
  <2>. QED BY <2>1, <2>3
<1>6. IsFiniteSet(F) /\ F \in SUBSET Nat
  <2>1. F \in SUBSET (1 .. c.rows)
    BY <1>5
  <2> HIDE DEF F
  <2>. QED BY <1>1, <2>1, SomePlaces
<1>7. Frequencies(vs) =
        [k \in 1 .. m |-> Cardinality({q \in DOMAIN vs : vs[q] = vs[Nth(k)]})]
  BY DEF Frequencies
<1> HIDE DEF F
<1>8. m \in Nat /\ \E g \in Bijection(1 .. m, F) : \A k \in 1 .. m : g[k] = Nth(k)
  BY <1>6, NumberedInOrder
<1>9. PICK g \in Bijection(1 .. m, F) : \A k \in 1 .. m : g[k] = Nth(k)
  BY <1>8
<1> HIDE DEF Nth, R, m
<1>10. /\ g \in [1 .. m -> F] /\ (\A r \in F : \E k \in 1 .. m : g[k] = r)
       /\ \A a, b \in 1 .. m : g[a] = g[b] => a = b
  BY <1>9 DEF Bijection, Injection, Surjection, IsInjective
<1> DEFINE u == [k \in 1 .. m |-> x[g[k]]]
<1>11. \A k \in 1 .. m : u[k] = x[g[k]] /\ g[k] \in F /\ g[k] \in R
  BY <1>5, <1>10
<1>12. \A k \in 1 .. m : x[g[k]] \in Generated(vs)
  BY <1>3, <1>4, <1>5, <1>11
<1>13. u \in [1 .. m -> Generated(vs)]
  BY <1>12
<1> HIDE DEF u
<1>14. \A i, j \in 1 .. m : u[i] = u[j] => i = j
  <2> SUFFICES ASSUME NEW i \in 1 .. m, NEW j \in 1 .. m, u[i] = u[j] PROVE i = j
    OBVIOUS
  <2> DEFINE a == g[i]
             b == g[j]
  <2>1. a \in F /\ b \in F /\ a \in R /\ b \in R /\ x[a] = x[b]
    BY <1>11
  <2>2. a = b => i = j
    BY <1>10
  <2> HIDE DEF a, b
  <2>3. a \in Nat /\ b \in Nat /\ a >= 1 /\ b >= 1
    BY <1>1, <2>1 DEF R
  <2>4. ASSUME a < b PROVE FALSE
    <3>1. a \in 1 .. b - 1
      BY <2>3, <2>4
    <3>. QED BY <1>5, <2>1, <3>1
  <2>5. ASSUME b < a PROVE FALSE
    <3>1. b \in 1 .. a - 1
      BY <2>3, <2>5
    <3>. QED BY <1>5, <2>1, <3>1
  <2>. QED BY <2>2, <2>3, <2>4, <2>5
<1>15. \A y \in Generated(vs) : \E i \in 1 .. m : u[i] = y
  <2> SUFFICES ASSUME NEW y \in Generated(vs) PROVE \E i \in 1 .. m : u[i] = y
    OBVIOUS
  <2> DEFINE W == {r \in R : x[r] = y}
             l == Min(W)
  <2>1. y # None /\ W # {}
    BY <1>3, <1>4
  <2>2. W \in SUBSET Nat
    BY DEF R
  <2>3. l \in W /\ \A r \in W : l <= r
    <3> HIDE DEF W
    <3>. QED BY <2>1, <2>2, LeastElement
  <2>4. l \in R /\ x[l] = y
    BY <2>3
  <2>5. ASSUME NEW q \in 1 .. l - 1 PROVE x[q] # x[l]
    <3>1. l \in 1 .. c.rows
      BY <2>4 DEF R
    <3> HIDE DEF l
    <3>2. q \in R /\ ~ (l <= q)
      BY <1>1, <3>1 DEF R
    <3>. QED BY <2>3, <2>4, <3>2
  <2> HIDE DEF l, W
  <2>6. l \in F
    BY <1>5, <2>1, <2>4, <2>5
  <2>7. PICK k \in 1 .. m : g[k] = l
    BY <1>10, <2>6
  <2>. QED BY <1>11, <2>4, <2>7
<1>16. \A k \in 1 .. m : Cardinality({q \in DOMAIN vs : vs[q] = vs[Nth(k)]}) = RowsWith(vs, u[k])
  <2> TAKE k \in 1 .. m
  <2>1. vs[Nth(k)] = {u[k]}
    BY <1>3, <1>9, <1>11
  <2>. QED BY <2>1 DEF RowsWith
<1>17. Frequencies(vs) = [k \in 1 .. m |-> RowsWith(vs, u[k])]
  BY <1>7, <1>16
<1>18. Counted(vs, m, u)
  BY <1>8, <1>13, <1>14, <1>15, <1>17 DEF Counted
<1>. QED BY <1>18 DEF IsCounted

\* The frequencies that the validation counts.
LEMMA FrequenciesCounted ==
  ASSUME NEW c \in SourceColumns, NEW vs, Rows(c, vs), Determined(vs)
  PROVE  /\ IsCounted(vs) /\ Frequencies(vs) \in Seq(Nat \ {0})
         /\ IsFiniteSet(Generated(vs)) /\ Cardinality(Generated(vs)) <= c.rows
<1>1. c.rows \in Nat /\ DOMAIN vs = 1 .. c.rows
  BY ColumnFields DEF Rows
<1> DEFINE R == 1 .. c.rows
<1>2. PICK T : \E x \in Surjection(R, T) :
           /\ \A r \in R : vs[r] = {x[r]}
           /\ Generated(vs) = T \ {None}
  BY DeterminedRows
<1>3. PICK x \in Surjection(R, T) : (\A r \in R : vs[r] = {x[r]}) /\ Generated(vs) = T \ {None}
  BY <1>2
<1>4. x \in [R -> T] /\ \A y \in T : \E r \in R : x[r] = y
  BY DEF Surjection
<1>5. IsFiniteSet(R) /\ Cardinality(R) = c.rows
  <2>1. 1 \in Int /\ 1 + c.rows - 1 = c.rows
    BY <1>1
  <2>. QED BY <1>1, <2>1, Consecutive
<1> HIDE DEF R
<1>6. IsFiniteSet(T) /\ Cardinality(T) <= c.rows
  BY <1>5, FS_Surjection
<1>7. IsFiniteSet(Generated(vs)) /\ Cardinality(Generated(vs)) <= c.rows
  <2>1. Generated(vs) \in SUBSET T
    BY <1>3
  <2>2. IsFiniteSet(Generated(vs)) /\ Cardinality(Generated(vs)) <= Cardinality(T)
    BY <1>6, <2>1, FS_Subset
  <2>3. Cardinality(T) \in Nat /\ Cardinality(Generated(vs)) \in Nat
    BY <1>6, <2>2, FS_CardinalityType
  <2>. QED BY <1>1, <1>6, <2>2, <2>3
<1>8. IsCounted(vs)
  BY RowsCounted
<1>9. PICK m, u : Counted(vs, m, u)
  BY <1>8 DEF IsCounted
<1> DEFINE W(j) == RowsWith(vs, u[j])
<1>10. /\ m \in Nat /\ u \in [1 .. m -> Generated(vs)]
       /\ Frequencies(vs) = [j \in 1 .. m |-> W(j)]
  BY <1>9 DEF Counted
<1>11. ASSUME NEW j \in 1 .. m PROVE W(j) \in Nat \ {0}
  <2>1. u[j] \in T
    BY <1>3, <1>10
  <2>2. PICK r \in R : x[r] = u[j]
    BY <1>4, <2>1
  <2>3. RowsWith(vs, x[r]) \in Nat \ {0}
    <3>1. Given(c, vs, x) /\ r \in 1 .. c.rows
      BY <1>1, <1>3 DEF Given, R
    <3>. QED BY <3>1, RowsOfValue
  <2>. QED BY <2>2, <2>3
<1> HIDE DEF W
<1>12. Frequencies(vs) \in [1 .. m -> Nat \ {0}]
  BY <1>10, <1>11
<1>13. Frequencies(vs) \in Seq(Nat \ {0})
  BY <1>10, <1>12
<1>. QED BY <1>7, <1>8, <1>13

-----------------------------------------------------------------------------
(* What the validation finds.                                                *)

\* As many rows as values: each value has one.
LEMMA AllOnes ==
  ASSUME NEW s \in Seq(Nat \ {0}), SumOf(s) <= Len(s)
  PROVE  \A i \in 1 .. Len(s) : s[i] = 1
<1> DEFINE n == Len(s)
<1>1. n \in Nat /\ s \in Seq(Int) /\ \A i \in 1 .. n : s[i] \in Nat \ {0}
  OBVIOUS
<1> SUFFICES ASSUME NEW k \in 1 .. n, s[k] # 1 PROVE FALSE
  OBVIOUS
<1> DEFINE t == [i \in 1 .. n |-> IF i = k THEN s[i] - 1 ELSE s[i]]
<1>2. ASSUME NEW i \in 1 .. n PROVE t[i] \in Nat \ {0}
  BY <1>1
<1>3. t[k] = s[k] - 1 /\ \A i \in 1 .. n : i # k => t[i] = s[i]
  OBVIOUS
<1>4. t \in [1 .. n -> Nat \ {0}]
  BY <1>2
<1> HIDE DEF t
<1>5. t \in Seq(Nat \ {0}) /\ Len(t) = n
  BY <1>1, <1>4
<1>6. t \in Seq(Int)
  BY <1>5
<1>7. SumOf(t) = SumOf(s) + t[k] - s[k]
  BY <1>1, <1>3, <1>5, <1>6, SumsChanged
<1>8. SumOf(t) \in Nat /\ Len(t) <= SumOf(t) /\ SumOf(s) \in Nat
  BY <1>5, SumOfPositive
<1>9. s[k] \in Nat
  BY <1>1
<1>. QED BY <1>1, <1>3, <1>5, <1>7, <1>8, <1>9

\* The order of the values does not matter, the same one least of all.
LEMMA RearrangedItself ==
  ASSUME NEW s
  PROVE  Rearranged(s, s)
<1> DEFINE D == DOMAIN s
           f == [i \in D |-> i]
<1>1. f \in [D -> D] /\ \A i \in D : f[i] = i
  OBVIOUS
<1> HIDE DEF f
<1>2. f \in Bijection(D, D)
  BY <1>1 DEF Bijection, Injection, Surjection, IsInjective
<1>. QED BY <1>1, <1>2 DEF Rearranged

\* A count before the others adds to them.
LEMMA SumBehind ==
  ASSUME NEW z \in Nat, NEW s \in Seq(Nat)
  PROVE  SumOf(<<z>> \o s) = z + SumOf(s)
<1> DEFINE n == Len(s)
           a == <<z>> \o s
           f == SumsOf(s)
           g == SumsOf(a)
           S == {k \in 0 .. n : g[k + 1] = z + f[k]}
<1>1. n \in Nat /\ s \in Seq(Int) /\ \A i \in 1 .. n : s[i] \in Nat
  OBVIOUS
<1>2. a \in Seq(Nat) /\ Len(a) = n + 1 /\ a[1] = z /\ \A i \in 1 .. n : a[i + 1] = s[i]
  <2> DEFINE first == <<z>>
  <2>1. first \in Seq(Nat) /\ Len(first) = 1 /\ first[1] = z /\ 1 \in 1 .. 1
    OBVIOUS
  <2> HIDE DEF first
  <2>2. first \o s \in Seq(Nat) /\ Len(first \o s) = Len(first) + Len(s)
    BY <2>1, ConcatIn
  <2>3. /\ \A m \in 1 .. Len(first) : (first \o s)[m] = first[m]
        /\ \A l \in 1 .. Len(s) : (first \o s)[Len(first) + l] = s[l]
    <3> DEFINE K == Nat
    <3>1. first \in Seq(K) /\ s \in Seq(K)
      BY <2>1
    <3> HIDE DEF K
    <3>. QED BY <3>1, ConcatAt
  <2>4. a = first \o s
    BY DEF first
  <2> HIDE DEF a
  <2>5. Len(a) = n + 1
    BY <2>1, <2>2, <2>4
  <2>6. ASSUME NEW i \in 1 .. n PROVE a[i + 1] = s[i]
    <3>1. (first \o s)[Len(first) + i] = s[i]
      BY <2>3
    <3>2. Len(first) + i = i + 1
      BY <2>1
    <3>. QED BY <2>4, <3>1, <3>2
  <2>. QED BY <2>1, <2>2, <2>3, <2>4, <2>5, <2>6
<1>3. a \in Seq(Int)
  <2> HIDE DEF a
  <2>. QED BY <1>2
<1>4. f \in [0 .. n -> Nat] /\ f[0] = 0 /\ \A i \in 1 .. n : f[i] = f[i - 1] + s[i]
  BY <1>1, SumsOfInt, SumsOfNat
<1>5. g \in [0 .. n + 1 -> Nat] /\ g[0] = 0 /\ \A i \in 1 .. n + 1 : g[i] = g[i - 1] + a[i]
  BY <1>2, <1>3, SumsOfInt, SumsOfNat
<1>6. SumOf(s) = f[n] /\ SumOf(a) = g[n + 1]
  BY <1>2 DEF SumOf
<1> HIDE DEF n, a, f, g
<1>7. 0 \in S
  <2>1. 1 \in 1 .. n + 1 /\ 1 - 1 = 0 /\ 0 + 1 = 1 /\ 0 \in 0 .. n
    BY <1>1
  <2>2. g[1] = 0 + z
    BY <1>2, <1>5, <2>1
  <2>. QED BY <1>4, <2>1, <2>2
<1>8. ASSUME NEW k \in 1 .. n, k - 1 \in S PROVE k \in S
  <2>1. /\ k + 1 \in 1 .. n + 1 /\ (k + 1) - 1 = k /\ (k - 1) + 1 = k /\ k \in 0 .. n
        /\ k - 1 \in 0 .. n
    BY <1>1
  <2>2. g[k] = z + f[k - 1]
    BY <1>8, <2>1
  <2>3. g[k + 1] = g[k] + s[k] /\ f[k] = f[k - 1] + s[k]
    BY <1>2, <1>4, <1>5, <2>1
  <2>4. f[k - 1] \in Nat /\ s[k] \in Nat
    BY <1>1, <1>4, <2>1
  <2>5. g[k + 1] = z + f[k]
    BY <2>2, <2>3, <2>4
  <2>. QED BY <2>1, <2>5
<1>9. 0 .. n \subseteq S
  <2> HIDE DEF S
  <2>. QED BY <1>1, <1>7, <1>8, UpFromZero
<1>10. n \in 0 .. n
  BY <1>1
<1>. QED BY <1>6, <1>9, <1>10 DEF a

\* The rows of all values but NULL.
LEMMA AllValuesSum ==
  ASSUME NEW c \in SourceColumns
  PROVE  SumOf(AllValues(c)) <= Total(c)
<1>1. /\ c.freq \in Seq(Nat \ {0}) /\ c.freq \in Seq(Nat) /\ c.zero \in Nat /\ c.null \in Nat
      /\ SumOf(c.freq) \in Nat
  <2>1. c.freq \in Seq(Nat \ {0})
    BY ColumnFields
  <2>. QED BY <2>1, ColumnFields, CountsOf
<1>2. Total(c) = c.null + c.zero + SumOf(c.freq)
  BY DEF Total
<1>3. CASE ~ (c.zero > 0)
  <2>1. AllValues(c) = c.freq
    <3>1. c.zero = 0
      BY <1>1, <1>3
    <3>. QED BY <3>1, NoZeroes
  <2> DEFINE f == SumOf(c.freq)
  <2> HIDE DEF f
  <2>2. f \in Nat /\ Total(c) = c.null + c.zero + f
    BY <1>1, <1>2 DEF f
  <2>3. f <= Total(c)
    BY <1>1, <2>2
  <2>. QED BY <2>1, <2>3 DEF f
<1>4. CASE c.zero > 0
  <2>1. AllValues(c) = <<c.zero>> \o c.freq
    BY <1>4 DEF AllValues
  <2>2. SumOf(<<c.zero>> \o c.freq) = c.zero + SumOf(c.freq)
    BY <1>1, SumBehind
  <2> DEFINE f == SumOf(c.freq)
  <2> HIDE DEF f
  <2>3. f \in Nat /\ Total(c) = c.null + c.zero + f /\ SumOf(AllValues(c)) = c.zero + f
    BY <1>1, <1>2, <2>1, <2>2 DEF f
  <2>. QED BY <1>1, <2>3
<1>. QED BY <1>3, <1>4

\* The columns that are unique in both tables.
LEMMA UniqueKept ==
  ASSUME NEW c \in SourceColumns, NEW vs, Rows(c, vs), Determined(vs), UniqueInBoth(c, vs)
  PROVE  HistogramDifference(AllValues(c), Frequencies(vs)) = 0
<1> DEFINE n == c.rows
           R == 1 .. n
           a == AllValues(c)
<1>1. /\ n \in Nat /\ DOMAIN vs = R /\ a \in Seq(Nat \ {0}) /\ a \in Seq(Nat)
  <2>1. a \in Seq(Nat \ {0})
    BY CountsOf
  <2>2. a \in Seq(Nat)
    BY <2>1
  <2>. QED BY <2>1, <2>2, ColumnFields DEF Rows
<1>2. n = Total(c) /\ n > 0 /\ Len(a) = n /\ Cardinality(Generated(vs)) = n
  BY DEF UniqueInBoth
<1>3. SumOf(a) <= Len(a)
  BY <1>2, AllValuesSum
<1>4. \A i \in R : a[i] = 1
  BY <1>1, <1>2, <1>3, AllOnes
<1>5. PICK T : \E x \in Surjection(R, T) :
           /\ \A r \in R : vs[r] = {x[r]}
           /\ Generated(vs) = T \ {None}
  BY DeterminedRows
<1>6. PICK x \in Surjection(R, T) : (\A r \in R : vs[r] = {x[r]}) /\ Generated(vs) = T \ {None}
  BY <1>5
<1>7. IsFiniteSet(R) /\ Cardinality(R) = n
  <2>1. 1 \in Int /\ 1 + n - 1 = n
    BY <1>1
  <2>. QED BY <1>1, <2>1, Consecutive
<1> HIDE DEF R
<1>8. /\ IsFiniteSet(T) /\ Cardinality(T) <= n
      /\ Cardinality(T) = n <=> x \in Injection(R, T)
  BY <1>7, FS_Surjection
<1>9. Generated(vs) = T /\ Cardinality(T) = n
  <2>1. Generated(vs) \in SUBSET T
    BY <1>6
  <2>2. /\ Cardinality(Generated(vs)) <= Cardinality(T)
        /\ Cardinality(T) = Cardinality(Generated(vs)) => T = Generated(vs)
    BY <1>8, <2>1, FS_Subset
  <2>3. Cardinality(T) \in Nat
    BY <1>8, FS_CardinalityType
  <2>4. Cardinality(T) = n
    BY <1>1, <1>2, <1>8, <2>2, <2>3
  <2>. QED BY <1>2, <2>2, <2>4
<1> HIDE DEF a
<1>10. \A i, j \in R : x[i] = x[j] => i = j
  BY <1>8, <1>9 DEF Injection, IsInjective
<1>11. x \in [R -> T] /\ \A y \in T : \E r \in R : x[r] = y
  BY DEF Surjection
<1> DEFINE s == [i \in R |-> 1]
<1>12. s \in [1 .. n -> Nat \ {0}] /\ \A i \in R : s[i] = 1
  BY DEF R
<1>13. \A i \in R : RowsWith(vs, x[i]) = s[i]
  <2> SUFFICES ASSUME NEW i \in R PROVE RowsWith(vs, x[i]) = s[i]
    OBVIOUS
  <2>1. OnlyRow(c, x, i)
    BY <1>10 DEF R, OnlyRow
  <2>2. Given(c, vs, x) /\ i \in 1 .. c.rows
    BY <1>1, <1>6 DEF R, Given
  <2>3. RowsWith(vs, x[i]) = 1
    BY <2>1, <2>2, RowsOfValue
  <2>. QED BY <1>12, <2>3
<1>14. \A y : y \in Generated(vs) <=> \E i \in 1 .. n : x[i] = y
  BY <1>9, <1>11 DEF R
<1> HIDE DEF s
<1>15. Numbers(x, n, s, vs)
  BY <1>10, <1>13, <1>14 DEF Numbers, R
<1>16. s = a
  <2>1. a \in [R -> Nat]
    BY <1>1, <1>2 DEF R
  <2>2. s \in [R -> Nat]
    BY <1>12 DEF R
  <2>3. \A i \in R : s[i] = a[i]
    BY <1>4, <1>12
  <2>. QED BY <2>1, <2>2, <2>3
<1>17. Rearranged(s, a)
  BY <1>16, RearrangedItself
<1>18. IsCounted(vs) /\ a # <<>>
  BY <1>1, <1>2, RowsCounted
<1>. QED BY <1>1, <1>12, <1>15, <1>17, <1>18, KeptFrequencies DEF a

\* What the validation has found is about the values of the column, and what a
\* literal has become is by the entries of the column.
Found(c, vs) == IF UniqueInBoth(c, vs) THEN 0
                ELSE FrequencyShapeDifference(AllValues(c), Frequencies(vs))
Asked(c, h, q) ==
  \E v \in DOMAIN c.freq : \E others \in {{}, {[source |-> v, target |-> Random]}} :
    q = [literal |-> v, elsewhere |-> others # {},
         target |-> Rewritten(Entries(c, h) \cup others, v)]

\* What is inductive about the results.
ResultsIInv ==
  /\ difference # None =>
       pc = "generated" /\ Determined(values) /\ difference = Found(column, values)
  /\ query # None =>
       pc = "generated" /\ column.kind = "string" /\ Asked(column, histogram, query)

\* Both are kept by every step: nothing changes the column or its values any more.
THEOREM ResultsInvariance == Spec => []ResultsIInv
<1>1. Init => ResultsIInv
  BY DEF Init, ResultsIInv
<1>2. ResultsIInv /\ [Next]_vars => ResultsIInv'
  <2> SUFFICES ASSUME ResultsIInv, [Next]_vars PROVE ResultsIInv'
    OBVIOUS
  <2>1. CASE Analyze
    <3>1. difference' = difference /\ query' = query /\ pc = "analyze"
      BY <2>1 DEF Analyze
    <3>. QED BY <3>1 DEF ResultsIInv
  <2>2. CASE Generate
    <3>1. difference' = difference /\ query' = query /\ pc = "annotate"
      BY <2>2 DEF Generate
    <3>. QED BY <3>1 DEF ResultsIInv
  <2>3. CASE Validate
    <3>1. /\ column' = column /\ histogram' = histogram /\ values' = values
          /\ query' = query /\ pc' = pc /\ pc = "generated" /\ Determined(values)
          /\ difference' = Found(column, values)
      BY <2>3 DEF Validate, Found
    <3>2. Determined(values') /\ Found(column', values') = Found(column, values)
          /\ Asked(column', histogram', query') = Asked(column, histogram, query)
      BY <3>1
    <3>. QED BY <3>1, <3>2 DEF ResultsIInv
  <2>4. CASE RewriteQuery
    <3>1. /\ column' = column /\ histogram' = histogram /\ values' = values
          /\ difference' = difference /\ pc' = pc /\ pc = "generated"
          /\ column.kind = "string" /\ Asked(column, histogram, query')
      BY <2>4 DEF RewriteQuery, Asked
    <3>2. /\ Determined(values') = Determined(values)
          /\ Found(column', values') = Found(column, values)
          /\ Asked(column', histogram', query') = Asked(column, histogram, query')
      BY <3>1
    <3>. QED BY <3>1, <3>2 DEF ResultsIInv
  <2>5. CASE UNCHANGED vars
    <3>1. /\ column' = column /\ histogram' = histogram /\ values' = values
          /\ difference' = difference /\ query' = query /\ pc' = pc
      BY <2>5 DEF vars
    <3>2. /\ Determined(values') = Determined(values)
          /\ Found(column', values') = Found(column, values)
          /\ Asked(column', histogram', query') = Asked(column, histogram, query)
      BY <3>1
    <3>. QED BY <3>1, <3>2 DEF ResultsIInv
  <2>. QED BY <2>1, <2>2, <2>3, <2>4, <2>5 DEF Next
<1>. QED BY <1>1, <1>2, PTL DEF Spec

\* What a comparison finds.
LEMMA FoundIs ==
  ASSUME NEW c \in SourceColumns, NEW h \in Histograms(c), NEW vs, vs = Formula(c, h),
         Determined(vs)
  PROVE  /\ Rows(c, vs) /\ IsCounted(vs) /\ Frequencies(vs) \in Seq(Nat \ {0})
         /\ Found(c, vs) = IF UniqueInBoth(c, vs) THEN 0
                           ELSE HistogramDifference(AllValues(c), Frequencies(vs))
<1>1. vs # None
  BY DEF Determined
<1>2. Rows(c, vs)
  BY <1>1, FormulaRows
<1>3. IsCounted(vs) /\ Frequencies(vs) \in Seq(Nat \ {0})
  BY <1>2, FrequenciesCounted
<1>4. AllValues(c) \in Seq(Nat \ {0})
  BY CountsOf
<1>5. FrequencyShapeDifference(AllValues(c), Frequencies(vs)) =
        HistogramDifference(AllValues(c), Frequencies(vs))
  BY <1>3, <1>4, MergeIsHistogramDifference
<1>. QED BY <1>2, <1>3, <1>5 DEF Found

\* The merge of the groups of values of one frequency, and the short cut for unique
\* columns, find the difference of the histograms, whatever the columns are.
THEOREM DifferencesAlwaysAgree == Spec => []DifferencesAgree
<1>1. ColumnsIInv /\ ResultsIInv => DifferencesAgree
  <2> SUFFICES ASSUME ColumnsIInv, ResultsIInv, difference # None
               PROVE  difference = HistogramDifference(AllValues(column), Frequencies(values))
    BY DEF DifferencesAgree
  <2>1. /\ pc = "generated" /\ Determined(values) /\ difference = Found(column, values)
        /\ column \in SourceColumns /\ histogram \in Histograms(column)
        /\ values = Formula(column, histogram)
    BY InputsAssumption DEF ColumnsIInv, ResultsIInv
  <2>2. /\ Rows(column, values)
        /\ Found(column, values) =
             IF UniqueInBoth(column, values) THEN 0
             ELSE HistogramDifference(AllValues(column), Frequencies(values))
    BY <2>1, FoundIs
  <2>3. ASSUME UniqueInBoth(column, values)
        PROVE  HistogramDifference(AllValues(column), Frequencies(values)) = 0
    BY <2>1, <2>2, <2>3, UniqueKept
  <2>. QED BY <2>1, <2>2, <2>3
<1>. QED BY <1>1, ColumnsInvariance, ResultsInvariance, PTL

-----------------------------------------------------------------------------
(* Frequencies of strings, which are rounded twice.                          *)

\* Python's round() is off by a half at most.
LEMMA RoundDivError ==
  ASSUME NEW a \in Nat, NEW b \in Nat \ {0}
  PROVE  /\ RoundDiv(a, b) \in Nat
         /\ 2 * (RoundDiv(a, b) * b - a) <= b
         /\ 2 * (a - RoundDiv(a, b) * b) <= b
<1> DEFINE k == a \div b
           r == a % b
<1>1. k \in Nat /\ r \in 0 .. b - 1 /\ a = k * b + r
  BY DivMod
<1>2. RoundDiv(a, b) = IF 2 * r > b \/ (2 * r = b /\ k % 2 = 1) THEN k + 1 ELSE k
  BY DEF RoundDiv
<1> HIDE DEF k, r
<1>3. \/ RoundDiv(a, b) = k + 1 /\ 2 * r >= b
      \/ RoundDiv(a, b) = k /\ 2 * r <= b
  BY <1>1, <1>2
<1> DEFINE x == k * b
<1>4. x \in Nat /\ (k + 1) * b = x + b /\ k * b = x /\ a = x + r
  BY <1>1
<1> HIDE DEF x
<1>5. CASE RoundDiv(a, b) = k + 1 /\ 2 * r >= b
  <2>1. 2 * (x + b - a) <= b /\ 2 * (a - (x + b)) <= b
    BY <1>1, <1>4, <1>5
  <2>. QED BY <1>1, <1>4, <1>5, <2>1
<1>6. CASE RoundDiv(a, b) = k /\ 2 * r <= b
  <2>1. 2 * (x - a) <= b /\ 2 * (a - x) <= b
    BY <1>1, <1>4, <1>6
  <2>. QED BY <1>1, <1>4, <1>6, <2>1
<1>. QED BY <1>3, <1>5, <1>6

\* What is nearer than a half is what it rounds to.
LEMMA RoundDivNear ==
  ASSUME NEW a \in Nat, NEW b \in Nat \ {0}, NEW f \in Nat,
         2 * (a - f * b) < b, 2 * (f * b - a) < b
  PROVE  RoundDiv(a, b) = f
<1> DEFINE q == RoundDiv(a, b)
           x == q * b
           y == f * b
<1>1. q \in Nat /\ 2 * (x - a) <= b /\ 2 * (a - x) <= b
  BY RoundDivError
<1> HIDE DEF q
<1>2. x \in Nat /\ y \in Nat /\ (q + 1) * b = x + b /\ (f + 1) * b = y + b
  BY <1>1
<1>3. 2 * (a - y) < b /\ 2 * (y - a) < b
  OBVIOUS
<1>4. q < f + 1
  <2> SUFFICES ASSUME f + 1 <= q PROVE FALSE
    BY <1>1
  <2>1. (f + 1) * b <= q * b
    BY <1>1, ProductMonotone
  <2>2. y + b <= x
    BY <1>2, <2>1
  <2> HIDE DEF x, y
  <2>. QED BY <1>1, <1>2, <1>3, <2>2
<1>5. f < q + 1
  <2> SUFFICES ASSUME q + 1 <= f PROVE FALSE
    BY <1>1
  <2>1. (q + 1) * b <= f * b
    BY <1>1, ProductMonotone
  <2>2. x + b <= y
    BY <1>2, <2>1
  <2> HIDE DEF x, y
  <2>. QED BY <1>1, <1>2, <1>3, <2>2
<1>6. q = f
  BY <1>1, <1>4, <1>5
<1>. QED BY <1>6 DEF q

\* Counts that are a combination of two others, one by one ...
Combined(n, u, a, s, b, t) == \A i \in 1 .. n : u[i] = a * s[i] + b * t[i]

\* ... are so in their sum.
LEMMA SumsCombine ==
  ASSUME NEW n \in Nat, NEW s \in [1 .. n -> Int], NEW t \in [1 .. n -> Int],
         NEW u \in [1 .. n -> Int], NEW a \in Int, NEW b \in Int, Combined(n, u, a, s, b, t)
  PROVE  SumOf(u) = a * SumOf(s) + b * SumOf(t)
<1> DEFINE f == SumsOf(s)
           g == SumsOf(t)
           h == SumsOf(u)
           S == {k \in 0 .. n : h[k] = a * f[k] + b * g[k]}
<1>1. /\ s \in Seq(Int) /\ t \in Seq(Int) /\ u \in Seq(Int)
      /\ Len(s) = n /\ Len(t) = n /\ Len(u) = n
  OBVIOUS
<1>2. /\ f \in [0 .. n -> Int] /\ f[0] = 0 /\ SumOf(s) = f[n]
      /\ \A i \in 1 .. n : f[i] = f[i - 1] + s[i]
  BY <1>1, SumsOfInt DEF SumOf
<1>3. /\ g \in [0 .. n -> Int] /\ g[0] = 0 /\ SumOf(t) = g[n]
      /\ \A i \in 1 .. n : g[i] = g[i - 1] + t[i]
  BY <1>1, SumsOfInt DEF SumOf
<1>4. /\ h \in [0 .. n -> Int] /\ h[0] = 0 /\ SumOf(u) = h[n]
      /\ \A i \in 1 .. n : h[i] = h[i - 1] + u[i]
  BY <1>1, SumsOfInt DEF SumOf
<1> HIDE DEF f, g, h
<1>5. 0 \in S
  <2>1. a * 0 + b * 0 = 0 /\ 0 \in 0 .. n
    OBVIOUS
  <2>. QED BY <1>2, <1>3, <1>4, <2>1
<1>6. ASSUME NEW k \in 1 .. n, k - 1 \in S PROVE k \in S
  <2> DEFINE x == f[k - 1]
             y == g[k - 1]
  <2>1. k - 1 \in 0 .. n /\ k \in 0 .. n
    OBVIOUS
  <2>2. x \in Int /\ y \in Int /\ s[k] \in Int /\ t[k] \in Int
    BY <1>2, <1>3, <2>1
  <2>3. h[k - 1] = a * x + b * y
    BY <1>6
  <2>4. f[k] = x + s[k] /\ g[k] = y + t[k] /\ h[k] = h[k - 1] + (a * s[k] + b * t[k])
    BY <1>2, <1>3, <1>4 DEF Combined
  <2> DEFINE p == s[k]
             q == t[k]
  <2> HIDE DEF x, y, p, q
  <2>5. p \in Int /\ q \in Int /\ x \in Int /\ y \in Int
    BY <2>2 DEF p, q
  <2>6. a * (x + p) = a * x + a * p /\ b * (y + q) = b * y + b * q
    BY <2>5
  <2>7. a * x \in Int /\ a * p \in Int /\ b * y \in Int /\ b * q \in Int
    BY <2>5
  <2> DEFINE ax == a * x
             ap == a * p
             ey == b * y
             eq == b * q
  <2>8. h[k] = (ax + ey) + (ap + eq) /\ a * f[k] = ax + ap /\ b * g[k] = ey + eq
    BY <2>3, <2>4, <2>6 DEF p, q
  <2>9. ax \in Int /\ ap \in Int /\ ey \in Int /\ eq \in Int
    BY <2>7
  <2> HIDE DEF ax, ap, ey, eq
  <2>10. h[k] = (ax + ap) + (ey + eq)
    BY <2>8, <2>9
  <2>11. h[k] = a * f[k] + b * g[k]
    BY <2>8, <2>10
  <2>. QED BY <2>1, <2>11
<1>7. 0 .. n \subseteq S
  <2> HIDE DEF S
  <2>. QED BY <1>5, <1>6, UpFromZero
<1>8. n \in 0 .. n
  OBVIOUS
<1>. QED BY <1>2, <1>3, <1>4, <1>7, <1>8

\* A product of integers that is smaller than another with one factor.
LEMMA FactorBelow ==
  ASSUME NEW x \in Int, NEW u \in Int, NEW s \in Nat \ {0}, x * s < u * s
  PROVE  x < u
<1> SUFFICES ASSUME u <= x PROVE FALSE
  OBVIOUS
<1> DEFINE d == x - u
<1>1. d \in Nat /\ x = u + d
  OBVIOUS
<1> HIDE DEF d
<1>2. d * s \in Nat /\ (u + d) * s = u * s + d * s /\ u * s \in Int
  BY <1>1
<1>. QED BY <1>1, <1>2

\* The weight w of a count p, of which the source has f of T rows, gives f rows again,
\* if 1 / U is so fine: p is less than f * U / T by e / T, and S, the sum of all p, is
\* less than U by m.
LEMMA WeightExact ==
  ASSUME NEW T \in Nat, NEW D \in Nat, NEW U \in Nat \ {0}, NEW S \in Nat \ {0},
         NEW f \in Nat, NEW m \in Nat, NEW w \in Nat, NEW p \in Nat, NEW e \in Nat,
         p * T = f * U - e, e <= m * T, f <= T, S = U - m, m < D, D <= T,
         2 * (D * T) <= U, 2 * (w * S - p * U) <= S, 2 * (p * U - w * S) <= S
  PROVE  2 * (w * T - f * U) < U /\ 2 * (f * U - w * T) < U
<1> DEFINE X == w * T - f * U
           d == w * S - p * U
           mT == m * T
<1>1. X \in Int /\ d \in Int /\ mT \in Nat /\ f * m \in Nat /\ S * T \in Nat
  OBVIOUS
<1>2. X * S = d * T + U * (f * m - e)
  <2>1. X * S = w * T * S - f * U * S
    OBVIOUS
  <2>2. d * T = w * S * T - p * U * T
    OBVIOUS
  <2>3. p * U * T = U * (f * U - e)
    <3>1. p * U * T = U * (p * T)
      OBVIOUS
    <3>. QED BY <3>1
  <2>4. f * U * S = U * (f * U - f * m)
    <3>1. f * U * (U - m) = U * (f * U - f * m)
      OBVIOUS
    <3>. QED BY <3>1
  <2>5. w * T * S = w * S * T
    OBVIOUS
  <2> DEFINE a == f * U
             g == f * m
  <2>6. U * (a - e) - U * (a - g) = U * (g - e)
    <3>1. a \in Int /\ g \in Int
      OBVIOUS
    <3> HIDE DEF a, g
    <3>. QED BY <3>1
  <2> DEFINE y == w * S * T
             z == U * (a - e)
             v == U * (a - g)
             k == U * (g - e)
  <2>7. y \in Int /\ z \in Int /\ v \in Int /\ k \in Int
    OBVIOUS
  <2>8. X * S = y - v /\ d * T = y - z /\ z - v = k
    BY <2>1, <2>2, <2>3, <2>4, <2>5, <2>6
  <2>9. d * T + k = y - v
    <3> HIDE DEF y, z, v, k, d, a, g
    <3>1. d * T \in Int
      BY <1>1
    <3>. QED BY <2>7, <2>8, <3>1
  <2>. QED BY <2>8, <2>9
<1>3. f * m <= mT
  <2>1. f * m <= T * m
    BY ProductMonotone
  <2>. QED BY <2>1
<1>4. f * m - e <= mT /\ e - f * m <= mT
  BY <1>1, <1>3
<1>5. 2 * (d * T) <= S * T /\ 2 * (-d * T) <= S * T
  <2>1. 2 * d <= S /\ 2 * (- d) <= S
    OBVIOUS
  <2> HIDE DEF d
  <2>2. S - 2 * d \in Nat /\ S + 2 * d \in Nat
    BY <1>1, <2>1
  <2>3. (S - 2 * d) * T \in Nat /\ (S + 2 * d) * T \in Nat
    BY <2>2
  <2>4. (S - 2 * d) * T = S * T - 2 * (d * T) /\ (S + 2 * d) * T = S * T + 2 * (d * T)
    BY <1>1
  <2>. QED BY <1>1, <2>3, <2>4
<1>6. S * T <= U * T
  <2>1. S <= U
    OBVIOUS
  <2>. QED BY <2>1, ProductMonotone
<1>7. U * (f * m - e) <= U * mT /\ U * (e - f * m) <= U * mT
  <2> DEFINE g == f * m - e
  <2>1. g \in Int /\ g <= mT /\ -g <= mT
    BY <1>1, <1>4
  <2>2. e - f * m = -g
    BY <1>1
  <2> HIDE DEF g, mT
  <2>3. mT - g \in Nat /\ mT + g \in Nat /\ mT \in Nat
    BY <1>1, <2>1
  <2>4. U * (mT - g) \in Nat /\ U * (mT + g) \in Nat
    BY <2>3
  <2>5. U * (mT - g) = U * mT - U * g /\ U * (mT + g) = U * mT + U * g /\ U * (-g) = -(U * g)
    BY <2>1, <2>3
  <2>6. U * g \in Int /\ U * mT \in Int
    BY <2>1, <2>3
  <2>7. U * g <= U * mT /\ U * (-g) <= U * mT
    BY <2>4, <2>5, <2>6
  <2>. QED BY <2>2, <2>7 DEF g
<1>8. 2 * mT + T + m < U
  <2>1. (m + 1) * T <= D * T
    <3>1. m + 1 <= D /\ m + 1 \in Nat
      OBVIOUS
    <3>. QED BY <3>1, ProductMonotone
  <2>2. (m + 1) * T = mT + T
    OBVIOUS
  <2>3. D * T \in Nat /\ m < T
    OBVIOUS
  <2> DEFINE DT == D * T
  <2>4. mT + T <= DT /\ 2 * DT <= U /\ DT \in Nat
    BY <2>1, <2>2, <2>3
  <2> HIDE DEF mT, DT
  <2>. QED BY <1>1, <2>3, <2>4
<1>9. U * T + 2 * (U * mT) < U * S
  <2> DEFINE l == 2 * mT + T
  <2> HIDE DEF mT
  <2>1. l \in Nat /\ l < S
    BY <1>1, <1>8
  <2>2. U * l = U * T + 2 * (U * mT)
    BY <1>1
  <2> HIDE DEF l
  <2>3. S - l \in Nat \ {0}
    BY <2>1
  <2>4. U * (S - l) \in Nat \ {0}
    BY <2>3
  <2>5. U * (S - l) = U * S - U * l /\ U * S \in Int /\ U * l \in Int
    BY <2>1
  <2>6. U * l < U * S
    BY <2>4, <2>5
  <2>. QED BY <2>2, <2>6
<1> DEFINE dT == d * T
           Ug == U * (f * m - e)
           Uh == U * (e - f * m)
           UT == U * T
           Um == U * mT
           US == U * S
           ST == S * T
<1>10. /\ dT \in Int /\ Ug \in Int /\ Uh = -Ug /\ UT \in Int /\ Um \in Int /\ US \in Int /\ ST \in Int
       /\ -d * T = -dT /\ X * S = dT + Ug
  BY <1>1, <1>2
<1>11. /\ 2 * dT <= ST /\ 2 * (-dT) <= ST /\ ST <= UT /\ Ug <= Um /\ -Ug <= Um
       /\ UT + 2 * Um < US
  BY <1>5, <1>6, <1>7, <1>9, <1>10
<1> HIDE DEF X, d, mT
<1>12. 2 * (dT + Ug) < US /\ 2 * (-(dT + Ug)) < US
  <2> HIDE DEF dT, Ug, Uh, UT, Um, US, ST
  <2>. QED BY <1>10, <1>11
<1>13. (2 * X) * S = 2 * (dT + Ug) /\ (2 * (-X)) * S = 2 * (-(dT + Ug))
  <2> HIDE DEF dT, Ug
  <2> DEFINE y == X * S
  <2>1. (2 * X) * S = 2 * y /\ (2 * (-X)) * S = 2 * (-y) /\ y \in Int
    BY <1>1
  <2>2. y = dT + Ug
    BY <1>10
  <2> HIDE DEF y
  <2>. QED BY <2>1, <2>2
<1>14. (2 * X) * S < U * S /\ (2 * (-X)) * S < U * S
  BY <1>12, <1>13
<1>15. 2 * X < U /\ 2 * (-X) < U
  <2>1. 2 * X \in Int /\ 2 * (-X) \in Int /\ U \in Int
    BY <1>1
  <2>. QED BY <1>14, <2>1, FactorBelow
<1>16. - X = f * U - w * T
  BY DEF X
<1>. QED BY <1>15, <1>16 DEF X

\* The positions by rank are all the positions.
LEMMA RankedBijection ==
  ASSUME NEW n \in Nat, NEW counts \in [1 .. n -> Int]
  PROVE  RankedPositions(counts) \in Bijection(1 .. n, 1 .. n)
<1> DEFINE order == RankedPositions(counts)
           A(b) == Cardinality(AheadOf(counts, b))
           S == 1 .. n
<1>1. order \in [S -> S] /\ \A i \in S : A(order[i]) = i - 1
  BY RankedPositionsIn
<1>2. IsFiniteSet(S)
  <2>1. 1 \in Int /\ 1 + n - 1 = n
    OBVIOUS
  <2>. QED BY <2>1, Consecutive
<1> HIDE DEF order, A
<1>3. \A i, j \in S : order[i] = order[j] => i = j
  <2> SUFFICES ASSUME NEW i \in S, NEW j \in S, order[i] = order[j] PROVE i = j
    OBVIOUS
  <2>1. i - 1 = j - 1
    BY <1>1
  <2>. QED BY <2>1
<1> HIDE DEF S
<1>4. order \in Injection(S, S)
  BY <1>1, <1>3 DEF Injection, IsInjective
<1>5. order \in Surjection(S, S)
  BY <1>2, <1>4, FS_Injection
<1>6. order \in Bijection(S, S)
  BY <1>4, <1>5 DEF Bijection
<1>. QED BY <1>6 DEF order, S

\* No element is larger than the sum.
LEMMA ElementBelowSum ==
  ASSUME NEW n \in Nat, NEW s \in [1 .. n -> Nat], NEW i \in 1 .. n
  PROVE  s[i] <= SumOf(s)
<1> DEFINE f == SumsOf(s)
<1>1. s \in Seq(Nat) /\ s \in Seq(Int) /\ Len(s) = n
  OBVIOUS
<1>2. /\ f \in [0 .. n -> Nat] /\ f[i] = f[i - 1] + s[i]
      /\ \A j, k \in 0 .. n : j <= k => f[j] <= f[k]
  BY <1>1, SumsOfInt, SumsOfNat
<1>3. SumOf(s) = f[n]
  BY <1>1 DEF SumOf
<1> HIDE DEF f
<1>4. i \in 0 .. n /\ i - 1 \in 0 .. n /\ n \in 0 .. n /\ i <= n
  OBVIOUS
<1>5. f[i] <= f[n] /\ f[i - 1] \in Nat /\ f[i] \in Nat /\ f[n] \in Nat /\ s[i] \in Nat
  BY <1>2, <1>4
<1>. QED BY <1>2, <1>3, <1>5

\* A histogram with a bucket for each value: its buckets are the values.
LEMMA SingletonOfAll ==
  ASSUME NEW c \in SourceColumns, NEW h \in Histograms(c), IsSingleton(h),
         Len(h.buckets) = Len(AllValues(c))
  PROVE  \A b \in 1 .. Len(h.buckets) :
           h.buckets[b].first = b /\ h.buckets[b].rows = AllValues(c)[b]
<1> DEFINE A == AllValues(c)
           N == Len(A)
           Upto(S, v) == {u \in S : u <= v}
           At(S, b) == Min({v \in S : Cardinality(Upto(S, v)) >= b})
<1>1. h \in SingletonHistograms(c)
  <2>1. h # None /\ h.type = "singleton"
    BY DEF IsSingleton
  <2>2. h \in SingletonHistograms(c) \/ h \in EquiHeightHistograms(c)
    BY <2>1 DEF Histograms
  <2>3. h \in EquiHeightHistograms(c) => h.type = "equi-height"
    BY EquiHeightBuckets
  <2>. QED BY <2>1, <2>2, <2>3
<1>2. PICK S \in SUBSET DOMAIN A :
        /\ Cardinality(S) \in 1 .. Buckets
        /\ h = [type |-> "singleton",
                buckets |-> [b \in 1 .. Cardinality(S) |->
                               Bucket(At(S, b), A[At(S, b)], 1, 1)]]
  BY <1>1 DEF SingletonHistograms
<1>3. N \in Nat /\ DOMAIN A = 1 .. N
  <2>1. A \in Seq(Nat \ {0})
    BY CountsOf
  <2> HIDE DEF A
  <2>. QED BY <2>1
<1> HIDE DEF A
<1>4. Buckets \in Nat
  BY ColumnAssumption
<1> DEFINE n == Cardinality(S)
           B == [b \in 1 .. n |-> Bucket(At(S, b), A[At(S, b)], 1, 1)]
<1>5. n \in Nat /\ h.buckets = B
  BY <1>2, <1>4
<1>6. Len(B) = n /\ Len(B) = N
  <2>1. DOMAIN B = 1 .. n
    OBVIOUS
  <2>2. Len(B) = n
    <3> HIDE DEF B
    <3>. QED BY <1>5, <2>1
  <2>3. Len(h.buckets) = N
    BY DEF A
  <2>. QED BY <1>5, <2>2, <2>3
<1>7. S = 1 .. N
  <2>1. IsFiniteSet(1 .. N) /\ Cardinality(1 .. N) = N
    <3>1. 1 \in Int /\ 1 + N - 1 = N
      BY <1>3
    <3>. QED BY <1>3, <3>1, Consecutive
  <2>2. S \in SUBSET (1 .. N)
    BY <1>3
  <2>3. n = N
    BY <1>6
  <2>. QED BY <2>1, <2>2, <2>3, FS_Subset
<1>8. ASSUME NEW b \in 1 .. N PROVE At(S, b) = b
  <2>1. ASSUME NEW v \in S PROVE Cardinality(Upto(S, v)) = v
    <3>1. v \in Nat /\ 1 + v - 1 = v /\ 1 \in Int
      BY <1>3, <1>7, <2>1
    <3>2. Upto(S, v) = 1 .. v
      BY <1>3, <1>7, <2>1
    <3> HIDE DEF Upto
    <3>3. Cardinality(1 .. v) = v
      BY <3>1, Consecutive
    <3>. QED BY <3>2, <3>3
  <2> DEFINE T == {v \in S : Cardinality(Upto(S, v)) >= b}
  <2> HIDE DEF Upto
  <2>2. \A v : v \in T <=> v \in 1 .. N /\ v >= b
    BY <1>7, <2>1
  <2> HIDE DEF T
  <2>3. T \in SUBSET Nat /\ b \in T
    BY <2>2
  <2>4. Min(T) \in T /\ \A y \in T : Min(T) <= y
    BY <2>3, LeastElement
  <2>5. Min(T) >= b /\ Min(T) <= b /\ Min(T) \in Nat
    BY <2>2, <2>3, <2>4
  <2>6. Min(T) = b
    BY <2>5
  <2>. QED BY <2>6 DEF T
<1> HIDE DEF At
<1>9. ASSUME NEW b \in 1 .. N PROVE B[b] = Bucket(b, A[b], 1, 1)
  <2>1. B[b] = Bucket(At(S, b), A[At(S, b)], 1, 1)
    BY <1>6
  <2>. QED BY <1>8, <2>1
<1> HIDE DEF B
<1>10. ASSUME NEW b \in 1 .. N PROVE B[b].first = b /\ B[b].rows = A[b]
  <2> DEFINE k == Bucket(b, A[b], 1, 1)
  <2>1. k.first = b /\ k.rows = A[b]
    BY DEF Bucket
  <2>2. B[b] = k
    BY <1>9
  <2> HIDE DEF k
  <2>. QED BY <2>1, <2>2
<1>. QED BY <1>5, <1>6, <1>10 DEF A

\* Strings whose frequencies are few for the precision of the histogram.
FineStrings(c, h) ==
  /\ c \in SourceColumns /\ h \in Histograms(c) /\ IsSingleton(h)
  /\ Len(h.buckets) = Distinct(c) /\ c.null = 0 /\ c.zero = 0 /\ c.rows = Total(c)
  /\ 2 * Distinct(c) * Total(c) <= Units

\* Their histogram, exactly.
LEMMA FineBuckets ==
  ASSUME NEW c, NEW h, FineStrings(c, h)
  PROVE  /\ Distinct(c) \in Nat \ {0} /\ DOMAIN h.buckets = 1 .. Distinct(c)
         /\ c.freq \in [1 .. Distinct(c) -> Nat \ {0}]
         /\ \A b \in 1 .. Distinct(c) : h.buckets[b].first = b /\ h.buckets[b].rows = c.freq[b]
         /\ Total(c) \in Nat \ {0} /\ Distinct(c) <= Total(c) /\ SumOf(c.freq) = Total(c)
         /\ c.null + SumOf(RowsOf(h)) = Total(c)
         /\ AreBuckets(h.buckets)
<1> DEFINE n == Distinct(c)
           T == Total(c)
<1>1. /\ c \in SourceColumns /\ h \in Histograms(c) /\ IsSingleton(h)
      /\ Len(h.buckets) = n /\ c.null = 0 /\ c.zero = 0
  BY DEF FineStrings
<1>2. AllValues(c) = c.freq /\ c.freq \in Seq(Nat \ {0})
  <2>1. c.freq \in Seq(Nat \ {0})
    BY <1>1, ColumnFields
  <2>2. AllValues(c) = <<>> \o c.freq
    BY <1>1 DEF AllValues
  <2>. QED BY <2>1, <2>2, ConcatEmptySeq
<1>3. n = Len(c.freq)
  BY DEF Distinct
<1>4. AreBuckets(h.buckets)
  BY <1>1, HistogramBuckets
<1>5. n \in Nat \ {0} /\ DOMAIN h.buckets = 1 .. n
  <2>1. DOMAIN h.buckets = 1 .. Len(h.buckets) /\ Len(h.buckets) \in Nat \ {0}
    BY <1>4, BucketRows
  <2>. QED BY <1>1, <2>1
<1>6. \A b \in 1 .. n : h.buckets[b].first = b /\ h.buckets[b].rows = c.freq[b]
  <2>1. \A b \in 1 .. Len(h.buckets) :
           h.buckets[b].first = b /\ h.buckets[b].rows = AllValues(c)[b]
    BY <1>1, <1>2, <1>3, SingletonOfAll
  <2> DEFINE B == h.buckets
  <2>2. \A b \in 1 .. n : B[b].first = b /\ B[b].rows = AllValues(c)[b]
    BY <1>1, <2>1
  <2> HIDE DEF B
  <2>3. \A b \in 1 .. n : B[b].first = b /\ B[b].rows = c.freq[b]
    BY <1>2, <2>2
  <2>. QED BY <2>3 DEF B
<1>7. c.freq \in [1 .. n -> Nat \ {0}]
  BY <1>2, <1>3
<1>8. SumOf(c.freq) \in Nat /\ n <= SumOf(c.freq)
  BY <1>1, CountsOf
<1>9. T = SumOf(c.freq)
  BY <1>1, <1>8 DEF Total
<1>10. RowsOf(h) = c.freq
  <2>1. RowsOf(h) = [b \in 1 .. n |-> h.buckets[b].rows]
    BY <1>5 DEF RowsOf
  <2>2. DOMAIN RowsOf(h) = 1 .. n /\ \A b \in 1 .. n : RowsOf(h)[b] = c.freq[b]
    BY <1>6, <2>1
  <2>3. RowsOf(h) \in [1 .. n -> Nat \ {0}]
    BY <1>6, <1>7, <2>1
  <2> DEFINE R == 1 .. n
             P == Nat \ {0}
  <2>4. c.freq \in [R -> P]
    BY <1>7
  <2>5. RowsOf(h) \in [R -> P]
    BY <2>3
  <2>6. \A b \in R : RowsOf(h)[b] = c.freq[b]
    BY <2>2
  <2> HIDE DEF R, P
  <2>. QED BY <2>4, <2>5, <2>6
<1>11. c.null + SumOf(RowsOf(h)) = T
  BY <1>1, <1>8, <1>9, <1>10
<1>. QED BY <1>4, <1>5, <1>6, <1>7, <1>8, <1>9, <1>11

\* Counts as a sequence.
LEMMA NaturalsSequence ==
  ASSUME NEW n \in Nat, NEW s \in [1 .. n -> Nat]
  PROVE  /\ s \in Seq(Nat) /\ s \in Seq(Int) /\ s \in [1 .. n -> Int]
         /\ Len(s) = n /\ DOMAIN s = 1 .. n
OBVIOUS

\* The frequencies by rank of the buckets, and their pseudo counts.
FineOrder(c, h)  == RankedBuckets(c, h)
FineRanked(c, h) == [i \in 1 .. Distinct(c) |-> c.freq[FineOrder(c, h)[i]]]
FinePseudo(c, h) == [i \in 1 .. Distinct(c) |-> PseudoCounts(c, h)[FineOrder(c, h)[i]]]
FineRest(c, h)   == [i \in 1 .. Distinct(c) |-> (FineRanked(c, h)[i] * Units) % Total(c)]

\* What the first rounding, which is down, leaves of each.
LEMMA FinePseudoCounts ==
  ASSUME NEW c, NEW h, FineStrings(c, h)
  PROVE  /\ FineOrder(c, h) \in Bijection(1 .. Distinct(c), 1 .. Distinct(c))
         /\ FineRanked(c, h) \in [1 .. Distinct(c) -> Nat \ {0}]
         /\ FinePseudo(c, h) \in [1 .. Distinct(c) -> Nat]
         /\ FineRest(c, h) \in [1 .. Distinct(c) -> Nat]
         /\ \A i \in 1 .. Distinct(c) : FineRest(c, h)[i] <= Total(c) - 1
         /\ \A i \in 1 .. Distinct(c) :
              FineRanked(c, h)[i] * Units = FinePseudo(c, h)[i] * Total(c) + FineRest(c, h)[i]
<1> DEFINE n == Distinct(c)
           T == Total(c)
           R == 1 .. n
           order == FineOrder(c, h)
           p == PseudoCounts(c, h)
           s == FineRanked(c, h)
           u == FinePseudo(c, h)
           e == FineRest(c, h)
<1>1. /\ n \in Nat \ {0} /\ DOMAIN h.buckets = R /\ c.freq \in [R -> Nat \ {0}]
      /\ T \in Nat \ {0} /\ c.null + SumOf(RowsOf(h)) = T
      /\ Units \in Nat \ {0} /\ AreBuckets(h.buckets)
  BY FineBuckets, ColumnAssumption
<1>2. \A b \in R : h.buckets[b].rows = c.freq[b]
  BY FineBuckets
<1>3. /\ s = [i \in R |-> c.freq[order[i]]] /\ u = [i \in R |-> p[order[i]]]
      /\ e = [i \in R |-> (s[i] * Units) % T]
  BY DEF FineRanked, FinePseudo, FineRest
<1>4. p \in [R -> Nat]
  <2>1. Len(h.buckets) = n /\ c \in SourceColumns
    BY DEF FineStrings
  <2>. QED BY <1>1, <2>1, PseudoCountsNat
<1>5. \A b \in R : p[b] = (c.freq[b] * Units) \div T
  <2>1. p = [b \in R |-> Rate(h.buckets[b].rows, T, Units)]
    BY <1>1 DEF PseudoCounts
  <2>2. \A b \in R : p[b] = Rate(c.freq[b], T, Units)
    BY <1>2, <2>1
  <2>. QED BY <2>2 DEF Rate
<1>6. order \in Bijection(R, R)
  <2>1. p \in [R -> Int] /\ n \in Nat
    BY <1>1, <1>4
  <2>2. RankedPositions(p) \in Bijection(R, R)
    <3> HIDE DEF p
    <3>. QED BY <2>1, RankedBijection
  <2>. QED BY <2>2 DEF FineOrder, RankedBuckets
<1> HIDE DEF n, T, R, order, p, s, u, e
<1>7. order \in [R -> R]
  BY <1>6 DEF Bijection, Injection
<1>8. s \in [R -> Nat \ {0}] /\ u \in [R -> Nat]
  BY <1>1, <1>3, <1>4, <1>7
<1>9. ASSUME NEW i \in R
      PROVE  e[i] \in Nat /\ e[i] <= T - 1 /\ s[i] * Units = u[i] * T + e[i]
  <2> DEFINE x == s[i] * Units
  <2>1. s[i] \in Nat
    BY <1>8
  <2>2. x \in Nat
    BY <1>1, <2>1
  <2>3. u[i] = x \div T
    <3>1. u[i] = p[order[i]] /\ s[i] = c.freq[order[i]] /\ order[i] \in R
      BY <1>3, <1>7
    <3>. QED BY <1>5, <3>1
  <2>4. e[i] = x % T
    BY <1>3
  <2> HIDE DEF x
  <2> DEFINE q == x \div T
             r == x % T
  <2>5. x = q * T + r /\ r \in 0 .. T - 1
    BY <1>1, <2>2, DivMod
  <2>6. u[i] = q /\ e[i] = r
    BY <2>3, <2>4
  <2> HIDE DEF q, r
  <2>7. r \in Nat /\ r <= T - 1
    BY <1>1, <2>5
  <2>8. x = u[i] * T + e[i]
    BY <2>5, <2>6
  <2>. QED BY <2>6, <2>7, <2>8 DEF x
<1>10. e \in [R -> Nat]
  <2>1. e = [i \in R |-> e[i]]
    BY <1>3
  <2>. QED BY <1>9, <2>1
<1>. QED BY <1>6, <1>8, <1>9, <1>10 DEF n, T, R, order, s, u, e

\* Their sums.
LEMMA FineSums ==
  ASSUME NEW c, NEW h, FineStrings(c, h)
  PROVE  /\ SumOf(FineRanked(c, h)) = Total(c)
         /\ Rearranged(FineRanked(c, h), c.freq)
         /\ SumOf(FinePseudo(c, h)) \in Nat \ {0}
         /\ \E m \in Nat : /\ SumOf(FinePseudo(c, h)) = Units - m /\ m < Distinct(c)
                           /\ \A i \in 1 .. Distinct(c) : FineRest(c, h)[i] <= m * Total(c)
<1> DEFINE n == Distinct(c)
           T == Total(c)
           R == 1 .. n
           order == FineOrder(c, h)
           s == FineRanked(c, h)
           u == FinePseudo(c, h)
           e == FineRest(c, h)
           U == Units
<1>1. /\ n \in Nat \ {0} /\ c.freq \in [R -> Nat \ {0}] /\ T \in Nat \ {0} /\ n <= T
      /\ SumOf(c.freq) = T /\ U \in Nat \ {0}
  BY FineBuckets, ColumnAssumption
<1>2. 2 * n * T <= U
  BY DEF FineStrings
<1>3. /\ order \in Bijection(R, R) /\ s \in [R -> Nat \ {0}] /\ u \in [R -> Nat]
      /\ e \in [R -> Nat] /\ (\A i \in R : e[i] <= T - 1)
      /\ \A i \in R : s[i] * U = u[i] * T + e[i]
  BY FinePseudoCounts
<1>4. \A i \in R : s[i] = c.freq[order[i]]
  BY DEF FineRanked
<1> HIDE DEF n, T, order, s, u, e, U
<1>5. Rearranged(s, c.freq)
  <2>1. DOMAIN s = R /\ DOMAIN c.freq = R
    BY <1>1, <1>3
  <2>. QED BY <1>3, <1>4, <2>1 DEF Rearranged
<1>6. SumOf(s) = T
  <2>1. n \in Nat /\ s \in [1 .. n -> Nat] /\ c.freq \in [1 .. n -> Nat]
    BY <1>1, <1>3
  <2>2. s \in Seq(Nat) /\ c.freq \in Seq(Nat)
    BY <2>1, NaturalsSequence
  <2>. QED BY <1>1, <1>5, <2>2, RearrangedSum
<1>7. u \in Seq(Nat) /\ e \in Seq(Nat) /\ SumOf(u) \in Nat /\ SumOf(e) \in Nat
  <2>1. u \in Seq(Nat) /\ e \in Seq(Nat)
    <3>1. n \in Nat /\ u \in [1 .. n -> Nat] /\ e \in [1 .. n -> Nat]
      BY <1>1, <1>3
    <3>. QED BY <3>1, NaturalsSequence
  <2>. QED BY <2>1, SumsOfNat
<1> DEFINE S == SumOf(u)
           E == SumOf(e)
           m == U - S
<1>8. E = m * T
  <2>1. s \in [1 .. n -> Int] /\ u \in [1 .. n -> Int] /\ e \in [1 .. n -> Int]
    <3>1. n \in Nat /\ s \in [1 .. n -> Nat] /\ u \in [1 .. n -> Nat] /\ e \in [1 .. n -> Nat]
      BY <1>1, <1>3
    <3>. QED BY <3>1, NaturalsSequence
  <2>2. \A i \in 1 .. n : e[i] = U * s[i] + (-T) * u[i]
    <3> TAKE i \in 1 .. n
    <3>1. s[i] \in Nat /\ u[i] \in Nat /\ e[i] \in Nat /\ s[i] * U = u[i] * T + e[i]
      BY <1>1, <1>3
    <3> DEFINE a == s[i]
               b == u[i]
               d == e[i]
    <3>2. a \in Nat /\ b \in Nat /\ d \in Nat /\ a * U = b * T + d
      BY <3>1
    <3> HIDE DEF a, b, d
    <3>3. d = U * a + (-T) * b
      <4>1. U * a = a * U /\ (-T) * b = -(b * T) /\ b * T \in Int /\ a * U \in Int
        BY <1>1, <3>2
      <4>. QED BY <3>2, <4>1
    <3>. QED BY <3>3 DEF a, b, d
  <2>3. SumOf(e) = U * SumOf(s) + (-T) * SumOf(u)
    <3> DEFINE k == -T
    <3>1. U \in Int /\ k \in Int /\ n \in Nat
      BY <1>1
    <3>2. Combined(n, e, U, s, k, u)
      BY <2>2 DEF Combined
    <3> HIDE DEF k, R, S, E, m
    <3>3. SumOf(e) = U * SumOf(s) + k * SumOf(u)
      <4>1. /\ n \in Nat /\ s \in [1 .. n -> Int] /\ u \in [1 .. n -> Int]
            /\ e \in [1 .. n -> Int] /\ U \in Int /\ k \in Int /\ Combined(n, e, U, s, k, u)
        BY <2>1, <3>1, <3>2
      <4>. QED BY <4>1, SumsCombine
    <3>. QED BY <3>3 DEF k
  <2>4. E = U * T + (-T) * S
    BY <1>6, <2>3
  <2> HIDE DEF S, E
  <2>5. U * T + (-T) * S = (U - S) * T
    <3>1. S \in Int /\ U \in Int /\ T \in Int
      BY <1>1, <1>7 DEF S
    <3>. QED BY <3>1
  <2>. QED BY <2>4, <2>5
<1>9. \A i \in R : e[i] <= E
  <2>1. e \in [1 .. n -> Nat] /\ n \in Nat
    BY <1>1, <1>3
  <2>. QED BY <2>1, ElementBelowSum
<1>10. E < n * T
  <2> DEFINE ones == [i \in R |-> 1]
             full == [i \in R |-> T - 1]
  <2>1. ones \in [R -> Int] /\ full \in [R -> Int] /\ \A i \in R : ones[i] = 1 /\ full[i] = T - 1
    BY <1>1
  <2> HIDE DEF ones, full
  <2>2. ones \in Seq(Int) /\ Len(ones) = n /\ full \in Seq(Int) /\ Len(full) = n
    BY <1>1, <2>1
  <2>3. SumOf(ones) = n
    BY <2>1, <2>2, SumOfOnes
  <2>4. SumOf(full) = (T - 1) * n
    <3> DEFINE k == T - 1
    <3>1. \A i \in 1 .. n : full[i] = k * ones[i] + 0 * ones[i]
      <4>1. T - 1 = (T - 1) * 1 + 0 * 1
        BY <1>1
      <4>. QED BY <2>1, <4>1
    <3>2. k \in Int /\ 0 \in Int /\ n \in Nat
      BY <1>1
    <3> HIDE DEF k
    <3>3. SumOf(full) = k * SumOf(ones) + 0 * SumOf(ones)
      <4>1. ones \in [1 .. n -> Int] /\ full \in [1 .. n -> Int]
        BY <2>1
      <4>2. Combined(n, full, k, ones, 0, ones)
        BY <3>1 DEF Combined
      <4> HIDE DEF R, S, E, m
      <4>3. /\ n \in Nat /\ ones \in [1 .. n -> Int] /\ full \in [1 .. n -> Int]
            /\ k \in Int /\ 0 \in Int /\ Combined(n, full, k, ones, 0, ones)
        BY <3>2, <4>1, <4>2
      <4>. QED BY <4>3, SumsCombine
    <3>4. k * n + 0 * n = k * n
      BY <3>2
    <3>. QED BY <2>3, <3>3, <3>4 DEF k
  <2>5. E <= SumOf(full)
    <3>1. e \in Seq(Int) /\ Len(e) = n
      <4>1. n \in Nat /\ e \in [1 .. n -> Nat]
        BY <1>1, <1>3
      <4>. QED BY <4>1, NaturalsSequence
    <3>2. \A i \in 1 .. n : e[i] <= full[i]
      BY <1>1, <1>3, <2>1
    <3>. QED BY <2>2, <3>1, <3>2, SumsCompare
  <2>6. (T - 1) * n = n * T - n /\ n * T \in Nat
    BY <1>1
  <2> HIDE DEF E
  <2>7. E \in Nat
    BY <1>7 DEF E
  <2>. QED BY <1>1, <2>4, <2>5, <2>6, <2>7
<1>11. m \in Nat /\ m < n
  <2>1. m \in Int /\ S \in Nat
    BY <1>1, <1>7
  <2>2. m * T < n * T /\ m * T \in Nat
    BY <1>7, <1>8, <1>10
  <2> HIDE DEF m
  <2>3. m < n
    BY <1>1, <2>1, <2>2, FactorBelow
  <2>4. -1 < m
    <3>1. (-1) * T < m * T
      <4>1. (-1) * T = -T
        BY <1>1
      <4>. QED BY <1>1, <2>2, <4>1
    <3>2. -1 \in Int
      OBVIOUS
    <3>. QED BY <1>1, <2>1, <3>1, <3>2, FactorBelow
  <2>. QED BY <2>1, <2>3, <2>4
<1>12. S = U - m /\ S # 0
  <2>1. n <= n * T /\ n * T \in Nat
    <3>1. 1 * n <= T * n
      BY <1>1, ProductMonotone
    <3>. QED BY <1>1, <3>1
  <2>2. 2 * n * T = 2 * (n * T)
    BY <1>1
  <2>3. n <= U
    BY <1>1, <1>2, <2>1, <2>2
  <2>4. S \in Nat
    BY <1>7
  <2> HIDE DEF S
  <2>. QED BY <1>1, <1>11, <2>3, <2>4
<1>13. \A i \in R : e[i] <= m * T
  BY <1>8, <1>9
<1>14. S \in Nat \ {0}
  BY <1>7, <1>12
<1> HIDE DEF m, S
<1>. QED BY <1>5, <1>6, <1>11, <1>12, <1>13, <1>14 DEF n, T, s, u, e, U, S

\* The second rounding, of the weights, and the third, of the rows, make up for it.
LEMMA FineCounts ==
  ASSUME NEW c, NEW h, FineStrings(c, h),
         NEW weights,
         weights = [i \in 1 .. Distinct(c) |->
                      RoundDiv(FinePseudo(c, h)[i] * Units, SumOf(FinePseudo(c, h)))]
  PROVE  \A i \in 1 .. Distinct(c) :
           WeightedCounts(weights, Units, Total(c))[i] = FineRanked(c, h)[i]
<1> DEFINE n == Distinct(c)
           T == Total(c)
           R == 1 .. n
           s == FineRanked(c, h)
           u == FinePseudo(c, h)
           e == FineRest(c, h)
           U == Units
           S == SumOf(u)
           t == [i \in DOMAIN weights |-> RoundDiv(weights[i] * T, U)]
<1>1. /\ n \in Nat \ {0} /\ T \in Nat \ {0} /\ n <= T /\ U \in Nat \ {0}
  BY FineBuckets, ColumnAssumption
<1>2. 2 * n * T <= U
  BY DEF FineStrings
<1>3. /\ s \in [R -> Nat \ {0}] /\ u \in [R -> Nat] /\ e \in [R -> Nat]
      /\ \A i \in R : s[i] * U = u[i] * T + e[i]
  BY FinePseudoCounts
<1>4. SumOf(s) = T /\ S \in Nat \ {0}
  BY FineSums
<1>5. PICK m \in Nat : S = U - m /\ m < n /\ \A i \in R : e[i] <= m * T
  BY FineSums
<1>6. DOMAIN weights = R /\ \A i \in R : weights[i] = RoundDiv(u[i] * U, S)
  OBVIOUS
<1>7. WeightedCounts(weights, U, T) = LastTakesRest(t, T)
  BY DEF WeightedCounts
<1>8. DOMAIN t = R /\ t = [i \in R |-> t[i]] /\ \A i \in R : t[i] = RoundDiv(weights[i] * T, U)
  BY <1>6
<1> HIDE DEF n, T, R, s, u, e, U, S, t
<1>9. ASSUME NEW i \in R PROVE t[i] = s[i]
  <2> DEFINE f == s[i]
             p == u[i]
             w == weights[i]
             d == e[i]
             x == p * U
             y == w * T
  <2>1. f \in Nat /\ p \in Nat /\ d \in Nat /\ d <= m * T /\ f * U = p * T + d
    BY <1>1, <1>3, <1>5
  <2>2. f <= T
    <3>1. s \in [1 .. n -> Nat] /\ n \in Nat /\ i \in 1 .. n
      BY <1>1, <1>3 DEF R
    <3>2. s[i] <= SumOf(s)
      BY <3>1, ElementBelowSum
    <3>. QED BY <1>4, <3>2
  <2>3. w = RoundDiv(x, S) /\ t[i] = RoundDiv(y, U)
    BY <1>6, <1>8
  <2> HIDE DEF f, p, w, d
  <2>4. x \in Nat
    BY <1>1, <2>1
  <2>5. w \in Nat /\ 2 * (w * S - x) <= S /\ 2 * (x - w * S) <= S
    <3> HIDE DEF x
    <3>. QED BY <1>4, <2>3, <2>4, RoundDivError
  <2>6. p * T = f * U - d
    <3>1. p * T \in Int /\ f * U \in Int
      BY <1>1, <2>1
    <3>. QED BY <2>1, <3>1
  <2>7. 2 * (n * T) <= U
    <3>1. 2 * n * T = 2 * (n * T)
      BY <1>1
    <3>. QED BY <1>2, <3>1 DEF n, T, U
  <2>8. 2 * (y - f * U) < U /\ 2 * (f * U - y) < U
    BY <1>1, <1>4, <1>5, <2>1, <2>2, <2>5, <2>6, <2>7, WeightExact
  <2>9. y \in Nat
    BY <1>1, <2>5
  <2> HIDE DEF x, y
  <2>10. RoundDiv(y, U) = f
    BY <1>1, <2>1, <2>8, <2>9, RoundDivNear
  <2>. QED BY <2>3, <2>10 DEF f
<1>10. t \in [R -> Nat]
  BY <1>3, <1>8, <1>9
<1>11. SumOf(t) = T
  <2>1. s \in [R -> Nat]
    BY <1>3
  <2>2. t = s
    BY <1>9, <1>10, <2>1
  <2>. QED BY <1>4, <2>2
<1>12. ASSUME NEW i \in R PROVE LastTakesRest(t, T)[i] = s[i]
  <2>1. LastTakesRest(t, T)[i] = t[i] + (IF i = Len(t) THEN T - SumOf(t) ELSE 0)
    BY <1>8 DEF LastTakesRest
  <2>2. T - SumOf(t) = 0 /\ t[i] \in Nat
    BY <1>1, <1>10, <1>11
  <2>. QED BY <1>9, <2>1, <2>2
<1>. QED BY <1>7, <1>12 DEF n, T, R, s, U

\* The powers of the radix, which is at least two, outgrow the exponents.
LEMMA PowerIs ==
  ASSUME NEW n \in Nat
  PROVE  Power(n) \in Nat /\ Power(n) >= n + 1
<1> DEFINE Body(f, i) == IF i = 0 THEN 1 ELSE Radix * f[i - 1]
           g == [j \in 1 .. n |-> [x \in Nat |-> Radix * x]]
           p == CHOOSE f : f = [i \in 0 .. n |-> Body(f, i)]
<1>1. Radix \in Nat /\ Radix >= 2
  BY HistogramColumnAssumption
<1>2. \A x \in Nat : Radix * x \in Nat
  BY <1>1
<1>3. Power(n) = p[n]
  BY DEF Power
<1>4. g \in [1 .. n -> [Nat -> Nat]]
  BY <1>2
<1>5. PICK e : e \in [0 .. n -> Nat] /\ e[0] = 1 /\ \A j \in 1 .. n : e[j] = g[j][e[j - 1]]
  <2> DEFINE V == Nat
             one == 1
             e == StepsOf(n, V, one, g)
  <2>1. one \in V /\ g \in [1 .. n -> [V -> V]]
    BY <1>4
  <2> HIDE DEF g, V, one
  <2>2. e \in [0 .. n -> V] /\ e[0] = one /\ \A j \in 1 .. n : e[j] = g[j][e[j - 1]]
    BY <2>1, StepsTaken
  <2>. QED BY <2>2 DEF V, one
<1>6. \A j \in 1 .. n : j \in 0 .. n /\ j - 1 \in 0 .. n /\ j # 0
  OBVIOUS
<1>7. \A j \in 1 .. n : e[j] = Radix * e[j - 1]
  <2> TAKE j \in 1 .. n
  <2>1. e[j - 1] \in Nat
    BY <1>5, <1>6
  <2>2. e[j] = g[j][e[j - 1]]
    BY <1>5
  <2>. QED BY <2>1, <2>2
<1> HIDE DEF g
<1>8. e = [k \in 0 .. n |-> Body(e, k)]
  <2>1. ASSUME NEW k \in 0 .. n PROVE e[k] = Body(e, k)
    <3>1. CASE k = 0
      BY <1>5, <3>1
    <3>2. CASE k # 0
      <4>1. k \in 1 .. n
        BY <3>2
      <4>. QED BY <1>7, <3>2, <4>1
    <3>. QED BY <3>1, <3>2
  <2> HIDE DEF Body
  <2>. QED BY <1>5, <2>1
<1>9. p = [k \in 0 .. n |-> Body(p, k)]
  <2> HIDE DEF Body
  <2>. QED BY <1>8
<1> HIDE DEF p
<1>10. p[0] = 1 /\ \A k \in 1 .. n : p[k] = Radix * p[k - 1]
  <2>1. \A k \in 0 .. n : p[k] = Body(p, k)
    <3> HIDE DEF Body
    <3>. QED BY <1>9
  <2>2. 0 \in 0 .. n
    OBVIOUS
  <2>. QED BY <1>6, <2>1, <2>2
<1> DEFINE S == {k \in 0 .. n : p[k] \in Nat /\ p[k] >= k + 1}
<1>11. 0 \in S
  <2>1. 0 \in 0 .. n
    OBVIOUS
  <2>. QED BY <1>10, <2>1
<1>12. ASSUME NEW k \in 1 .. n, k - 1 \in S PROVE k \in S
  <2> DEFINE x == p[k - 1]
  <2>1. x \in Nat /\ x >= (k - 1) + 1 /\ k \in 0 .. n /\ k \in Nat /\ k >= 1
    BY <1>12
  <2>2. p[k] = Radix * x
    BY <1>10
  <2> HIDE DEF x
  <2>3. 2 * x <= Radix * x
    <3>1. 2 \in Nat
      OBVIOUS
    <3>. QED BY <1>1, <2>1, <3>1, ProductMonotone
  <2> DEFINE y == Radix * x
  <2>4. y \in Nat
    BY <1>2, <2>1
  <2>5. 2 * x <= y
    BY <2>3
  <2>6. p[k] = y
    BY <2>2
  <2> HIDE DEF y
  <2>7. y >= k + 1
    BY <2>1, <2>4, <2>5
  <2>. QED BY <2>1, <2>4, <2>6, <2>7
<1>13. 0 .. n \subseteq S
  <2> HIDE DEF S
  <2>. QED BY <1>11, <1>12, UpFromZero
<1>14. n \in 0 .. n
  OBVIOUS
<1>. QED BY <1>3, <1>13, <1>14

\* The number of digits is the least that is enough.
LEMMA DigitsIs ==
  ASSUME NEW n \in Nat
  PROVE  Digits(n) \in Nat \ {0} /\ n < Power(Digits(n))
         /\ \A e \in 1 .. Digits(n) - 1 : n >= Power(e)
<1> DEFINE S == {d \in 1 .. n + 1 : n < Power(d)}
           d == Min(S)
           Ok(x) == n < Power(x) /\ \A e \in 1 .. x - 1 : n >= Power(e)
<1>1. n + 1 \in S
  <2>1. n + 1 \in Nat /\ n + 1 \in 1 .. n + 1
    OBVIOUS
  <2>2. Power(n + 1) \in Nat /\ Power(n + 1) >= (n + 1) + 1
    BY <2>1, PowerIs
  <2>. QED BY <2>1, <2>2
<1>2. S \in SUBSET Nat
  OBVIOUS
<1>3. d \in S /\ \A y \in S : d <= y
  <2> HIDE DEF S
  <2>. QED BY <1>1, <1>2, LeastElement
<1> HIDE DEF d
<1>4. d \in 1 .. n + 1 /\ n < Power(d)
  BY <1>3
<1>5. ASSUME NEW e \in 1 .. d - 1 PROVE n >= Power(e)
  <2>1. e \in Nat /\ e \in 1 .. n + 1 /\ e < d /\ d \in Nat
    BY <1>4
  <2>2. e \notin S
    BY <1>3, <2>1
  <2>3. Power(e) \in Nat
    BY <2>1, PowerIs
  <2>. QED BY <2>1, <2>2, <2>3
<1> HIDE DEF S
<1>6. Ok(d)
  BY <1>4, <1>5
<1>7. Digits(n) = CHOOSE x \in 1 .. n + 1 : Ok(x)
  BY DEF Digits
<1> HIDE DEF Ok
<1>8. Digits(n) \in 1 .. n + 1 /\ Ok(Digits(n))
  BY <1>4, <1>6, <1>7
<1>. QED BY <1>8 DEF Ok

\* A larger number has no less digits.
LEMMA DigitsGrow ==
  ASSUME NEW n \in Nat, NEW m \in Nat, n <= m
  PROVE  Digits(n) <= Digits(m)
<1> DEFINE a == Digits(n)
           b == Digits(m)
<1>1. a \in Nat \ {0} /\ \A e \in 1 .. a - 1 : n >= Power(e)
  BY DigitsIs
<1>2. b \in Nat \ {0} /\ m < Power(b)
  BY DigitsIs
<1> HIDE DEF a, b
<1>3. Power(b) \in Nat
  BY <1>2, PowerIs
<1>4. ASSUME b < a PROVE FALSE
  <2>1. b \in 1 .. a - 1
    BY <1>1, <1>2, <1>4
  <2>2. n >= Power(b)
    BY <1>1, <2>1
  <2>. QED BY <1>2, <1>3, <2>2
<1>5. a <= b
  BY <1>1, <1>2, <1>4
<1>. QED BY <1>5 DEF a, b

\* With room for all its digits, an ordinal makes a string of its own.
LEMMA SyntheticIs ==
  ASSUME NEW i \in Nat, NEW length \in Nat, Digits(i) <= length
  PROVE  Synthetic(i, length) \in Strings /\ Synthetic(i, length).text = i
<1> DEFINE d == Digits(i)
<1>1. d \in Nat \ {0} /\ d <= length
  BY DigitsIs
<1>2. Synthetic(i, length) =
        CASE length >= d + 2 -> [text |-> i, length |-> 0]
          [] length \in d .. d + 1 -> [text |-> i, length |-> length]
          [] length < d -> [text |-> i \div Power(d - length), length |-> length]
  BY DEF Synthetic
<1> HIDE DEF d
<1>3. CASE length >= d + 2
  <2>1. ~ (length \in d .. d + 1) /\ ~ (length < d)
    BY <1>1, <1>3
  <2>2. Synthetic(i, length) = [text |-> i, length |-> 0]
    BY <1>2, <1>3, <2>1
  <2>. QED BY <2>2 DEF Strings
<1>4. CASE ~ (length >= d + 2)
  <2>1. length \in d .. d + 1 /\ ~ (length < d)
    BY <1>1, <1>4
  <2>2. Synthetic(i, length) = [text |-> i, length |-> length]
    BY <1>2, <1>4, <2>1
  <2>. QED BY <2>2 DEF Strings
<1>. QED BY <1>3, <1>4

-----------------------------------------------------------------------------
(* The string column of such a histogram, and its literals.                  *)

\* The strings of such a column, each for one value of the source.
FineValues(c) == [i \in 1 .. Distinct(c) |-> Synthetic(i, c.length)]

\* They differ, and are neither NULL nor the random value.
LEMMA FineValuesDiffer ==
  ASSUME NEW c \in SourceColumns, Digits(Distinct(c)) <= c.length
  PROVE  /\ \A i \in 1 .. Distinct(c) : /\ FineValues(c)[i] \in Strings
                                        /\ FineValues(c)[i] # None /\ FineValues(c)[i] # Random
         /\ \A i, j \in 1 .. Distinct(c) : FineValues(c)[i] = FineValues(c)[j] => i = j
<1> DEFINE n == Distinct(c)
           v == FineValues(c)
           L == c.length
<1>1. n \in Nat /\ L \in Nat
  <2>1. c.freq \in Seq(Nat \ {0}) /\ L \in Nat
    BY ColumnFields DEF SourceColumns
  <2>. QED BY <2>1 DEF Distinct
<1>2. Digits(n) <= L
  OBVIOUS
<1>3. v = [i \in 1 .. n |-> Synthetic(i, L)]
  BY DEF FineValues
<1> HIDE DEF n, v, L
<1>4. ASSUME NEW i \in 1 .. n PROVE v[i] \in Strings /\ v[i].text = i
  <2>1. i \in Nat /\ i <= n
    BY <1>1
  <2>2. Digits(i) <= Digits(n) /\ Digits(i) \in Nat /\ Digits(n) \in Nat
    BY <1>1, <2>1, DigitsGrow, DigitsIs
  <2>3. Digits(i) <= L
    BY <1>1, <1>2, <2>2
  <2>4. Synthetic(i, L) \in Strings /\ Synthetic(i, L).text = i
    BY <1>1, <2>1, <2>3, SyntheticIs
  <2>. QED BY <1>3, <2>4
<1>5. None \notin Strings /\ Random \notin Strings
  BY ValuesAssumption
<1>6. \A i \in 1 .. n : v[i] \in Strings /\ v[i] # None /\ v[i] # Random
  BY <1>4, <1>5
<1>7. \A i, j \in 1 .. n : v[i] = v[j] => i = j
  <2> TAKE i, j \in 1 .. n
  <2> HAVE v[i] = v[j]
  <2>1. v[i].text = i /\ v[j].text = j
    BY <1>4
  <2>. QED BY <2>1
<1>. QED BY <1>6, <1>7 DEF n, v

\* Such a column has a band for each value of the source, by rank.
LEMMA FineColumn ==
  ASSUME NEW c, NEW h, FineStrings(c, h)
  PROVE  Banded(StringColumn(c, h), Distinct(c), FineRanked(c, h), FineValues(c))
<1> DEFINE n == Distinct(c)
           order   == RankedBuckets(c, h)
           pseudo  == [i \in DOMAIN order |-> PseudoCounts(c, h)[order[i]]]
           weights == [i \in DOMAIN order |-> RoundDiv(pseudo[i] * Units, SumOf(pseudo))]
           counts  == WeightedCounts(weights, Units, Total(c))
           s == FineRanked(c, h)
           v == FineValues(c)
           R == 1 .. n
<1>1. n \in Nat \ {0} /\ Total(c) \in Nat \ {0}
  BY FineBuckets
<1>2. /\ order \in Bijection(R, R) /\ s \in [R -> Nat \ {0}]
  BY FinePseudoCounts DEF FineOrder
<1>3. SumOf(s) = Total(c) /\ SumOf(FinePseudo(c, h)) \in Nat \ {0}
  BY FineSums
<1>4. v = [i \in R |-> Synthetic(i, c.length)]
  BY DEF FineValues
<1>5. DOMAIN order = R /\ Len(order) = n
  <2>1. order \in [R -> R]
    BY <1>2 DEF Bijection, Injection
  <2> HIDE DEF order
  <2>. QED BY <1>1, <2>1
<1>6. pseudo = FinePseudo(c, h)
  BY <1>5 DEF FinePseudo, FineOrder
<1>7. weights = [i \in R |-> RoundDiv(FinePseudo(c, h)[i] * Units, SumOf(FinePseudo(c, h)))]
  BY <1>5, <1>6
<1>8. \A i \in R : counts[i] = s[i]
  <2> HIDE DEF weights
  <2>. QED BY <1>7, FineCounts
<1>9. SingletonStrings(c, h) =
        CaseOf([i \in 1 .. n |-> Constant(counts[i], Synthetic(i, c.length))],
               Synthetic(n, c.length), c.rows)
  <2>1. SumOf(pseudo) # 0
    BY <1>3, <1>6
  <2>. QED BY <1>5, <2>1 DEF SingletonStrings, Sure, Case, CaseOf
<1> DEFINE a == [i \in R |-> Constant(counts[i], Synthetic(i, c.length))]
<1>10. a = ConstantBands(n, s, v)
  <2> HIDE DEF counts, s, v
  <2>1. \A i \in R : Constant(counts[i], Synthetic(i, c.length)) = Constant(s[i], v[i])
    BY <1>4, <1>8
  <2>. QED BY <2>1 DEF ConstantBands
<1>11. c.rows = SumOf(s) /\ StringColumn(c, h) = SingletonStrings(c, h)
  <2>1. c.rows = Total(c) /\ h # None /\ IsSingleton(h)
    BY DEF FineStrings, IsSingleton
  <2>2. StringColumn(c, h) = SingletonStrings(c, h)
    <3>1. ~ IsEquiHeight(h)
      BY <2>1 DEF IsSingleton, IsEquiHeight
    <3>. QED BY <2>1, <3>1 DEF StringColumn
  <2>. QED BY <1>3, <2>1, <2>2
<1> DEFINE d == Synthetic(n, c.length)
           vs == StringColumn(c, h)
<1>12. vs = CaseOf(a, d, c.rows)
  BY <1>9, <1>11
<1>13. s \in [R -> Nat]
  BY <1>2
<1> HIDE DEF n, order, pseudo, weights, counts, s, v, a, d, vs
<1>14. Banded(vs, n, s, v)
  <2>1. n \in Nat /\ s \in [1 .. n -> Nat]
    BY <1>1, <1>13
  <2>2. vs = CaseOf(ConstantBands(n, s, v), d, c.rows)
    BY <1>10, <1>12
  <2>. QED BY <1>11, <2>1, <2>2, CaseBanded
<1>. QED BY <1>14 DEF n, s, v, vs

\* It keeps the frequencies of the source.
LEMMA FineColumnKept ==
  ASSUME NEW c, NEW h, FineStrings(c, h), Digits(Distinct(c)) <= c.length,
         IsCounted(StringColumn(c, h))
  PROVE  HistogramDifference(AllValues(c), Frequencies(StringColumn(c, h))) = 0
<1> DEFINE n == Distinct(c)
           s == FineRanked(c, h)
           v == FineValues(c)
           vs == StringColumn(c, h)
<1>1. c \in SourceColumns /\ c.zero = 0 /\ n \in Nat \ {0}
  BY FineBuckets DEF FineStrings
<1>2. s \in [1 .. n -> Nat \ {0}] /\ Rearranged(s, c.freq)
  BY FinePseudoCounts, FineSums
<1>3. Banded(vs, n, s, v)
  BY FineColumn
<1>4. /\ \A i \in 1 .. n : v[i] # None
      /\ \A i, j \in 1 .. n : v[i] = v[j] => i = j
  BY <1>1, FineValuesDiffer
<1>5. /\ AllValues(c) = c.freq /\ c.freq \in Seq(Nat \ {0}) /\ c.freq # <<>>
      /\ IsCounted(vs)
  <2>1. AllValues(c) = c.freq /\ c.freq \in Seq(Nat \ {0})
    BY <1>1, NoZeroes, ColumnFields
  <2>2. Len(c.freq) # 0
    BY <1>1 DEF Distinct
  <2>. QED BY <2>1, <2>2
<1> HIDE DEF n, s, v, vs
<1>6. HistogramDifference(c.freq, Frequencies(vs)) = 0
  <2>1. \A i \in 1 .. n : s[i] \in Nat \ {0}
    BY <1>2
  <2>2. Rearranged(s, c.freq)
    BY <1>2
  <2>. QED BY <1>3, <1>4, <1>5, <2>1, <2>2, KeptByBands
<1>. QED BY <1>5, <1>6 DEF vs

\* A string column whose shape is to be kept has few frequencies for the precision.
LEMMA ExactStrings ==
  ASSUME NEW c \in SourceColumns, NEW h \in Histograms(c), c.kind = "string", ShapeExact(c, h)
  PROVE  FineStrings(c, h) /\ Digits(Distinct(c)) <= c.length
<1>1. /\ c.rows = Total(c) /\ c.null = 0 /\ Digits(Distinct(c)) <= c.length /\ IsSingleton(h)
      /\ Len(h.buckets) = Distinct(c) /\ 2 * Distinct(c) * Total(c) <= Units
  BY DEF ShapeExact
<1>2. c.zero = 0
  <2>1. c.zero \in Nat
    BY ColumnFields
  <2>2. ~ (c.zero > 0)
    BY DEF SourceColumns
  <2>. QED BY <2>1, <2>2
<1>. QED BY <1>1, <1>2 DEF FineStrings

\* The paths that are to keep the shape of a column do.
LEMMA ShapeKept ==
  ASSUME NEW c \in SourceColumns, NEW h \in Histograms(c), NEW vs, vs = Formula(c, h),
         ShapeExact(c, h), IsCounted(vs)
  PROVE  HistogramDifference(AllValues(c), Frequencies(vs)) = 0
<1>1. c.rows = Total(c)
  BY DEF ShapeExact
<1>2. CASE c.kind = "fk"
  <2>1. ~ Estimated(c) /\ (ExactApplies(c) \/ FrequencyShapeApplies(c))
    BY <1>2 DEF ShapeExact
  <2>2. vs = FkColumn(c, h)
    BY <1>2 DEF Formula
  <2>3. vs = RankedColumn(c)
    BY <2>1, <2>2 DEF FkColumn
  <2>4. c.size >= Distinct(c) /\ Distinct(c) # 0
    BY <2>1, FkColumnAssumption DEF ExactApplies, FrequencyShapeApplies
  <2>. QED BY <1>1, <2>3, <2>4, RankedColumnKept
<1>3. CASE c.kind \in {"number", "date", "time"}
  <2>1. ExactCountsApply(c)
    BY <1>3 DEF ShapeExact
  <2>2. c.kind = "number" => vs = NumberColumn(c, h)
    BY DEF Formula
  <2>3. c.kind \in {"date", "time"} => vs = DateColumn(c, h)
    BY DEF Formula
  <2>4. NumberColumn(c, h) = ExactColumn(c)
    BY <2>1 DEF NumberColumn
  <2>5. DateColumn(c, h) = ExactColumn(c)
    BY <2>1 DEF DateColumn
  <2>6. vs = ExactColumn(c)
    BY <1>3, <2>2, <2>3, <2>4, <2>5
  <2>7. c.kind # "fk"
    BY <1>3
  <2>. QED BY <1>1, <2>1, <2>6, <2>7, ExactColumnKept
<1>4. CASE c.kind = "string"
  <2>1. vs = StringColumn(c, h)
    BY <1>4 DEF Formula
  <2>2. FineStrings(c, h) /\ Digits(Distinct(c)) <= c.length
    BY <1>4, ExactStrings
  <2>. QED BY <2>1, <2>2, FineColumnKept
<1>. QED BY <1>2, <1>3, <1>4 DEF ShapeExact

\* The frequencies of the generated values are those of the source wherever a path
\* is to keep them: exact counts, frequency groups, and weights of all strings.
THEOREM FrequenciesAlwaysKept == Spec => []FrequenciesKept
<1>1. ColumnsIInv /\ ResultsIInv => FrequenciesKept
  <2> SUFFICES ASSUME ColumnsIInv, ResultsIInv, ShapeExact(column, histogram), difference # None
               PROVE  difference = 0
    BY DEF FrequenciesKept
  <2>1. /\ Determined(values) /\ difference = Found(column, values)
        /\ column \in SourceColumns /\ histogram \in Histograms(column)
        /\ values = Formula(column, histogram)
    BY InputsAssumption DEF ColumnsIInv, ResultsIInv
  <2>2. IsCounted(values) /\ Found(column, values) =
          IF UniqueInBoth(column, values) THEN 0
          ELSE HistogramDifference(AllValues(column), Frequencies(values))
    BY <2>1, FoundIs
  <2>3. HistogramDifference(AllValues(column), Frequencies(values)) = 0
    BY <2>1, <2>2, ShapeKept
  <2>. QED BY <2>1, <2>2, <2>3
<1>. QED BY <1>1, ColumnsInvariance, ResultsInvariance, PTL

-----------------------------------------------------------------------------
\* A literal of such a column has one entry, the string of its rank.
LEMMA FineTargets ==
  ASSUME NEW c, NEW h, FineStrings(c, h), NEW literal \in DOMAIN c.freq
  PROVE  \E i \in 1 .. Distinct(c) :
           /\ FineRanked(c, h)[i] = c.freq[literal]
           /\ Targets(Entries(c, h), literal) = {FineValues(c)[i]}
<1> DEFINE n == Distinct(c)
           R == 1 .. n
           order == FineOrder(c, h)
           v == FineValues(c)
           E == Entries(c, h)
           e == [i \in R |-> [source |-> order[i], target |-> v[i]]]
<1>1. /\ n \in Nat \ {0} /\ DOMAIN h.buckets = R /\ DOMAIN c.freq = R
      /\ \A b \in R : h.buckets[b].first = b
  BY FineBuckets
<1>2. order \in Bijection(R, R)
  BY FinePseudoCounts
<1>3. \A i \in R : FineRanked(c, h)[i] = c.freq[order[i]] /\ v[i] = Synthetic(i, c.length)
  BY DEF FineRanked, FineValues
<1>4. h # None
  BY DEF FineStrings, IsSingleton
<1>5. E = {[source |-> h.buckets[order[i]].first, target |-> Synthetic(i, c.length)] : i \in R}
  BY <1>1, <1>4 DEF Entries, FineOrder
<1> HIDE DEF R, order, v, E
<1>6. order \in [R -> R] /\ (\A b \in R : \E i \in R : order[i] = b)
      /\ \A i, j \in R : order[i] = order[j] => i = j
  BY <1>2 DEF Bijection, Injection, Surjection, IsInjective
<1>7. E = {e[i] : i \in R}
  <2>1. \A i \in R : [source |-> h.buckets[order[i]].first, target |-> Synthetic(i, c.length)] = e[i]
    BY <1>1, <1>3, <1>6
  <2> HIDE DEF e
  <2>. QED BY <1>5, <2>1
<1>8. PICK i \in R : order[i] = literal
  BY <1>1, <1>6
<1>9. Targets(E, literal) = {v[i]}
  <2>1. \A j \in R : e[j].source = order[j] /\ e[j].target = v[j]
    OBVIOUS
  <2> HIDE DEF e
  <2>2. \A x \in E : x.source = literal <=> x = e[i]
    <3> TAKE x \in E
    <3>1. PICK j \in R : x = e[j]
      BY <1>7
    <3>. QED BY <1>6, <1>8, <2>1, <3>1
  <2>3. e[i] \in E
    BY <1>7
  <2>4. {x \in E : x.source = literal} = {e[i]}
    BY <2>2, <2>3
  <2>5. Targets(E, literal) = {x.target : x \in {x \in E : x.source = literal}}
    BY DEF Targets
  <2>6. Targets(E, literal) = {x.target : x \in {e[i]}}
    BY <2>4, <2>5
  <2>7. e[i].target = v[i]
    BY <2>1
  <2>. QED BY <2>6, <2>7
<1>. QED BY <1>3, <1>8, <1>9 DEF R, n, v, E

\* Two things are not one.
LEMMA CardinalityOfTwo ==
  ASSUME NEW x, NEW y, x # y
  PROVE  Cardinality({x, y}) # 1
<1>1. IsFiniteSet({x}) /\ Cardinality({x}) = 1
  BY FS_Singleton
<1>2. Cardinality({x} \cup {y}) = 1 + 1
  BY <1>1, FS_AddElement
<1>3. {x, y} = {x} \cup {y}
  OBVIOUS
<1>. QED BY <1>2, <1>3

\* The targets of entries that are put together.
LEMMA TargetsTogether ==
  ASSUME NEW A, NEW B, NEW literal
  PROVE  Targets(A \cup B, literal) = Targets(A, literal) \cup Targets(B, literal)
BY DEF Targets

\* One entry has one target.
LEMMA OneTarget ==
  ASSUME NEW literal, NEW t
  PROVE  Targets({[source |-> literal, target |-> t]}, literal) = {t}
<1> DEFINE r == [source |-> literal, target |-> t]
<1>1. r.source = literal /\ r.target = t
  OBVIOUS
<1> HIDE DEF r
<1>2. {e \in {r} : e.source = literal} = {r}
  BY <1>1
<1>3. Targets({r}, literal) = {e.target : e \in {r}}
  BY <1>2 DEF Targets
<1>4. {e.target : e \in {r}} = {t}
  BY <1>1
<1>. QED BY <1>3, <1>4 DEF r

\* A rewritten literal selects as many rows of the target as of the source; it stays
\* as it is where another column has an entry for it.
THEOREM RewrittenAlwaysSame == Spec => []RewrittenSelectsSame
<1>1. ColumnsIInv /\ ResultsIInv => RewrittenSelectsSame
  <2> SUFFICES ASSUME ColumnsIInv, ResultsIInv, query # None, ShapeExact(column, histogram)
               PROVE  IF query.elsewhere THEN query.target = None
                      ELSE RowsWith(values, query.target) = column.freq[query.literal]
    BY DEF RewrittenSelectsSame
  <2> DEFINE n == Distinct(column)
             s == FineRanked(column, histogram)
             v == FineValues(column)
             E == Entries(column, histogram)
  <2>1. /\ column.kind = "string" /\ Asked(column, histogram, query) /\ pc = "generated"
        /\ column \in SourceColumns /\ histogram \in Histograms(column)
        /\ values = Formula(column, histogram)
    BY InputsAssumption DEF ColumnsIInv, ResultsIInv
  <2>2. FineStrings(column, histogram) /\ Digits(n) <= column.length
    BY <2>1, ExactStrings
  <2>3. values = StringColumn(column, histogram)
    BY <2>1 DEF Formula
  <2>4. Banded(values, n, s, v)
    BY <2>2, <2>3, FineColumn
  <2>5. /\ \A i \in 1 .. n : v[i] # Random
        /\ \A i, j \in 1 .. n : v[i] = v[j] => i = j
    BY <2>1, <2>2, FineValuesDiffer
  <2>6. s \in [1 .. n -> Nat \ {0}]
    BY <2>2, FinePseudoCounts
  <2>7. PICK l \in DOMAIN column.freq :
          \E others \in {{}, {[source |-> l, target |-> Random]}} :
            query = [literal |-> l, elsewhere |-> others # {},
                     target |-> Rewritten(E \cup others, l)]
    BY <2>1 DEF Asked
  <2>8. PICK others \in {{}, {[source |-> l, target |-> Random]}} :
           query = [literal |-> l, elsewhere |-> others # {},
                    target |-> Rewritten(E \cup others, l)]
    BY <2>7
  <2>9. PICK i \in 1 .. n : s[i] = column.freq[l] /\ Targets(E, l) = {v[i]}
    BY <2>2, FineTargets
  <2>10. query.literal = l /\ query.target = Rewritten(E \cup others, l)
    BY <2>8
  <2>11. query.elsewhere = (others # {})
    BY <2>8
  <2> HIDE DEF n, s, v, E
  <2>12. RowsWith(values, v[i]) = s[i]
    <3>1. \A b \in 1 .. n : s[b] \in Nat /\ s[b] > 0
      BY <2>6
    <3>2. \A a, b \in 1 .. n : s[a] > 0 /\ s[b] > 0 /\ v[a] = v[b] => a = b
      BY <2>5
    <3>3. \A b \in 1 .. n : s[b] > 0 => RowsWith(values, v[b]) = s[b]
      BY <2>4, <3>2, BandedRows
    <3>. QED BY <3>1, <3>3
  <2>13. CASE others = {}
    <3>1. Targets(E \cup others, l) = {v[i]}
      BY <2>9, <2>13
    <3>2. Rewritten(E \cup others, l) = v[i]
      <4>1. Cardinality({v[i]}) = 1
        BY FS_Singleton
      <4>. QED BY <3>1, <4>1 DEF Rewritten
    <3>. QED BY <2>9, <2>10, <2>11, <2>12, <2>13, <3>2
  <2>14. CASE others # {}
    <3>1. others = {[source |-> l, target |-> Random]}
      BY <2>14, <2>8
    <3>2. Targets(others, l) = {Random}
      BY <3>1, OneTarget
    <3>3. Targets(E \cup others, l) = {v[i], Random}
      <4>1. Targets(E \cup others, l) = Targets(E, l) \cup Targets(others, l)
        BY TargetsTogether
      <4>2. Targets(E \cup others, l) = {v[i]} \cup {Random}
        BY <2>9, <3>2, <4>1
      <4>. QED BY <4>2
    <3>4. Cardinality({v[i], Random}) # 1
      BY <2>5, CardinalityOfTwo
    <3>5. Rewritten(E \cup others, l) = None
      BY <3>3, <3>4 DEF Rewritten
    <3>. QED BY <2>10, <2>11, <2>14, <3>5
  <2>. QED BY <2>13, <2>14
<1>. QED BY <1>1, ColumnsInvariance, ResultsInvariance, PTL
=============================================================================
