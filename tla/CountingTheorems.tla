-------------------------- MODULE CountingTheorems --------------------------
(***************************************************************************)
(* Induction over the natural numbers and counting, for the proofs about   *)
(* the components.                                                         *)
(*                                                                         *)
(* Induction is stated for a set of numbers, not for a predicate: a proof  *)
(* names the set of the numbers that its claim holds for.                  *)
(***************************************************************************)
EXTENDS Integers, FiniteSetTheorems, FunctionTheorems, NaturalsInduction, TLAPS

\* A set of natural numbers that is not empty has a least one.
LEMMA LeastNumber ==
    ASSUME NEW T \in SUBSET Nat, T # {}
    PROVE  \E n \in T : \A m \in T : n <= m
  <1>1. PICK n \in T : \A m \in T : ~(<<m, n>> \in OpToRel(<, Nat))
    BY WFMin, NatLessThanWellFounded, Zenon
  <1>2. \A m \in T : ~(m < n)
    BY <1>1, Zenon DEF OpToRel
  <1> QED
    BY <1>2

\* A set of numbers up to n that is not empty has a greatest one.
LEMMA GreatestNumber ==
    ASSUME NEW n \in Nat, NEW T \in SUBSET (1..n), T # {}
    PROVE  \E k \in T : \A l \in T : l <= k
  <1> DEFINE R == {r \in Nat : n - r \in T}
  <1>1. \A k \in T : n - k \in R
    OBVIOUS
  <1>2. R \in SUBSET Nat /\ R # {}
    BY <1>1
  <1>3. PICK r \in R : \A q \in R : r <= q
    <2> HIDE DEF R
    <2> QED
      BY <1>2, LeastNumber
  <1>4. ASSUME NEW l \in T PROVE l <= n - r
    <2>1. r <= n - l
      BY <1>1, <1>3
    <2> QED
      BY <2>1
  <1> QED
    BY <1>4

\* Induction.
LEMMA SetInduction ==
    ASSUME NEW T \in SUBSET Nat, 0 \in T, \A n \in T : n + 1 \in T
    PROVE  T = Nat
  <1> SUFFICES ASSUME Nat \ T # {} PROVE FALSE
    OBVIOUS
  <1>1. PICK n \in Nat \ T : \A m \in Nat \ T : n <= m
    BY LeastNumber
  <1>2. n # 0 /\ n - 1 \in Nat
    BY <1>1
  <1>3. n - 1 \in T
    BY <1>1, <1>2
  <1> QED
    BY <1>1, <1>2, <1>3

\* In a set of numbers up to n there is one with k - 1 below it, for each k
\* up to the size of the set.
LEMMA RankExists ==
    ASSUME NEW n \in Nat, NEW U \in SUBSET (1..n), NEW k \in 1..Cardinality(U)
    PROVE  \E b \in U : Cardinality({x \in U : x < b}) = k - 1
  <1> DEFINE P(m) == \A V \in SUBSET (1..m) : \A j \in 1..Cardinality(V) :
                         \E b \in V : Cardinality({x \in V : x < b}) = j - 1
             T == {m \in Nat : P(m)}
  <1>1. 0 \in T
    <2>1. ASSUME NEW V \in SUBSET (1..0) PROVE Cardinality(V) = 0
      <3>1. V = {}
        OBVIOUS
      <3> QED
        BY <3>1, FS_EmptySet
    <2>2. \A V \in SUBSET (1..0) : 1..Cardinality(V) = {}
      BY <2>1
    <2> QED
      BY <2>2
  <1>2. ASSUME NEW m \in T PROVE m + 1 \in T
    <2> SUFFICES ASSUME NEW V \in SUBSET (1..(m + 1)), NEW j \in 1..Cardinality(V)
                 PROVE  \E b \in V : Cardinality({x \in V : x < b}) = j - 1
      OBVIOUS
    <2>1. CASE m + 1 \notin V
      <3>1. V \in SUBSET (1..m)
        BY <2>1
      <3> QED
        BY <3>1
    <2>2. CASE m + 1 \in V
      <3> DEFINE V0 == V \ {m + 1}
      <3>1. V0 \in SUBSET (1..m)
        OBVIOUS
      <3>2. IsFiniteSet(V)
        <4>1. IsFiniteSet(1..(m + 1))
          BY FS_Interval
        <4> QED
          BY <4>1, FS_Subset
      <3>3. Cardinality(V0) = Cardinality(V) - 1 /\ Cardinality(V) \in Nat
            /\ Cardinality(V0) \in Nat
        BY <2>2, <3>2, FS_RemoveElement, FS_CardinalityType
      <3>4. CASE j <= Cardinality(V0)
        <4>1. PICK b \in V0 : Cardinality({x \in V0 : x < b}) = j - 1
          <5>1. j \in 1..Cardinality(V0)
            BY <3>3, <3>4
          <5> QED
            BY <3>1, <5>1
        <4>2. {x \in V0 : x < b} = {x \in V : x < b}
          OBVIOUS
        <4> QED
          BY <4>1, <4>2
      <3>5. CASE j = Cardinality(V)
        <4>0. m \in Nat /\ \A x \in V : x \in Int /\ x <= m + 1
          <5> HIDE DEF P
          <5> QED
            OBVIOUS
        <4>1. {x \in V : x < m + 1} = V0
          <5>1. ASSUME NEW x \in V PROVE x < m + 1 <=> x # m + 1
            <6>1. m \in Nat /\ x \in Int /\ x <= m + 1
              BY <4>0
            <6> HIDE DEF T
            <6> QED
              BY <6>1
          <5> HIDE DEF T
          <5> QED
            BY <5>1
        <4> QED
          BY <2>2, <3>3, <3>5, <4>1
      <3>6. j <= Cardinality(V0) \/ j = Cardinality(V)
        <4> DEFINE a == Cardinality(V)  a0 == Cardinality(V0)
        <4>1. a0 = a - 1 /\ a \in Nat /\ j \in 1..a
          BY <3>3
        <4> HIDE DEF a, a0
        <4>2. j <= a0 \/ j = a
          BY <4>1
        <4> QED
          BY <4>2 DEF a, a0
      <3> QED
        BY <3>4, <3>5, <3>6
    <2> QED
      BY <2>1, <2>2
  <1>3. T = Nat
    <2>1. T \in SUBSET Nat
      OBVIOUS
    <2> HIDE DEF T
    <2> QED
      BY <1>1, <1>2, <2>1, SetInduction
  <1> QED
    BY <1>3

\* f is defined by its first value and by what follows each value.
Recursion(f, N, a, G) == f[0] = a /\ \A k \in 1..N : f[k] = G[k][f[k - 1]]

\* A function so defined exists.
LEMMA RecursionExists ==
    ASSUME NEW S, NEW a \in S, NEW N \in Nat, NEW G \in [1..N -> [S -> S]]
    PROVE  \E f \in [0..N -> S] : Recursion(f, N, a, G)
  <1> USE DEF Recursion
  <1> DEFINE Upto(n) == \E f \in [0..n -> S] : Recursion(f, n, a, G)
             T == {n \in Nat : n <= N => Upto(n)}
  <1>1. 0 \in T
    <2> DEFINE f == [k \in 0..0 |-> a]
    <2>1. f \in [0..0 -> S] /\ f[0] = a
      OBVIOUS
    <2>2. \A k \in 1..0 : f[k] = G[k][f[k - 1]]
      OBVIOUS
    <2> HIDE DEF f
    <2>3. Upto(0)
      BY <2>1, <2>2
    <2> QED
      BY <2>3
  <1>2. ASSUME NEW n \in T PROVE n + 1 \in T
    <2> SUFFICES ASSUME n + 1 <= N PROVE Upto(n + 1)
      OBVIOUS
    <2>1. PICK f \in [0..n -> S] : Recursion(f, n, a, G)
      OBVIOUS
    <2> DEFINE g == [k \in 0..(n + 1) |-> IF k <= n THEN f[k] ELSE G[n + 1][f[n]]]
    <2>2. G[n + 1][f[n]] \in S
      <3>1. n + 1 \in 1..N /\ f[n] \in S
        OBVIOUS
      <3> QED
        BY <3>1
    <2>3. g \in [0..(n + 1) -> S] /\ g[0] = a
      BY <2>1, <2>2
    <2>4. ASSUME NEW k \in 1..(n + 1) PROVE g[k] = G[k][g[k - 1]]
      <3>1. k - 1 \in 0..n /\ g[k - 1] = f[k - 1]
        OBVIOUS
      <3>2. CASE k <= n
        <4>1. g[k] = f[k]
          BY <3>2
        <4> QED
          BY <2>1, <3>1, <3>2, <4>1
      <3>3. CASE k = n + 1
        <4>1. g[k] = G[n + 1][f[n]] /\ k - 1 = n
          BY <3>3
        <4> QED
          BY <3>1, <3>3, <4>1
      <3> QED
        BY <3>2, <3>3
    <2> HIDE DEF g
    <2> QED
      BY <2>3, <2>4
  <1>3. T = Nat
    <2> HIDE DEF T
    <2>1. T \in SUBSET Nat
      BY DEF T
    <2> QED
      BY <1>1, <1>2, <2>1, SetInduction
  <1>4. N \in T
    BY <1>3
  <1> QED
    BY <1>4
-----------------------------------------------------------------------------
(***************************************************************************)
(* Counting what several owners hold.  The units of a function f from      *)
(* owners to numbers are f[x] distinct ones for each owner x, so that the  *)
(* number of all units, which stands for the sum of f over its owners, is  *)
(* a cardinality and the theorems about finite sets apply to it.           *)
(***************************************************************************)

Units(f) == UNION {{x} \X (1..f[x]) : x \in DOMAIN f}

\* Who owns a unit, and which ones.
LEMMA UnitsMember ==
    ASSUME NEW S, NEW f \in [S -> Nat]
    PROVE  \A u : u \in Units(f) <=>
               \E x \in S, k \in Nat : k \in 1..f[x] /\ u = <<x, k>>
  BY DEF Units

\* An owner gets one more.
LEMMA UnitsAdd ==
    ASSUME NEW S, NEW f \in [S -> Nat], IsFiniteSet(Units(f)), NEW x \in S,
           NEW g \in [S -> Nat], g[x] = f[x] + 1, \A y \in S \ {x} : g[y] = f[y]
    PROVE  /\ IsFiniteSet(Units(g))
           /\ Cardinality(Units(g)) = Cardinality(Units(f)) + 1
  <1>1. Units(g) = Units(f) \cup {<<x, g[x]>>}
    <2>1. ASSUME NEW u \in Units(g) PROVE u \in Units(f) \cup {<<x, g[x]>>}
      <3>1. PICK y \in S, k \in Nat : k \in 1..g[y] /\ u = <<y, k>>
        BY UnitsMember
      <3>2. (y = x /\ k = g[x]) \/ k \in 1..f[y]
        BY <3>1
      <3> QED
        BY <3>1, <3>2, UnitsMember
    <2>2. ASSUME NEW u \in Units(f) PROVE u \in Units(g)
      <3>1. PICK y \in S, k \in Nat : k \in 1..f[y] /\ u = <<y, k>>
        BY UnitsMember
      <3>2. k \in 1..g[y]
        BY <3>1
      <3> QED
        BY <3>1, <3>2, UnitsMember
    <2>3. <<x, g[x]>> \in Units(g)
      <3>1. g[x] \in 1..g[x]
        OBVIOUS
      <3> QED
        BY <3>1, UnitsMember
    <2> QED
      BY <2>1, <2>2, <2>3
  <1>2. <<x, g[x]>> \notin Units(f)
    <2>1. g[x] \notin 1..f[x]
      OBVIOUS
    <2> QED
      BY <2>1, UnitsMember
  <1> QED
    BY <1>1, <1>2, FS_AddElement

\* An owner loses all of its own.
LEMMA UnitsClear ==
    ASSUME NEW S, NEW f \in [S -> Nat], IsFiniteSet(Units(f)), NEW x \in S,
           NEW g \in [S -> Nat], g[x] = 0, \A y \in S \ {x} : g[y] = f[y]
    PROVE  /\ IsFiniteSet(Units(g))
           /\ Cardinality(Units(g)) = Cardinality(Units(f)) - f[x]
  <1> DEFINE Own == {x} \X (1..f[x])
  <1>1. Units(g) = Units(f) \ Own
    <2>1. ASSUME NEW u \in Units(g) PROVE u \in Units(f) \ Own
      <3>1. PICK y \in S, k \in Nat : k \in 1..g[y] /\ u = <<y, k>>
        BY UnitsMember
      <3>2. y # x /\ k \in 1..f[y]
        BY <3>1
      <3> QED
        BY <3>1, <3>2, UnitsMember
    <2>2. ASSUME NEW u \in Units(f), u \notin Own PROVE u \in Units(g)
      <3>1. PICK y \in S, k \in Nat : k \in 1..f[y] /\ u = <<y, k>>
        BY UnitsMember
      <3>2. y # x
        BY <2>2, <3>1
      <3>3. k \in 1..g[y]
        BY <3>1, <3>2
      <3> QED
        BY <3>1, <3>3, UnitsMember
    <2> QED
      BY <2>1, <2>2
  <1>2. Own \subseteq Units(f)
    BY UnitsMember
  <1>3. IsFiniteSet(Own) /\ Cardinality(Own) = f[x]
    <2>1. IsFiniteSet(1..f[x]) /\ Cardinality(1..f[x]) = f[x]
      BY FS_Interval
    <2> DEFINE h == [k \in 1..f[x] |-> <<x, k>>]
    <2>2. h \in [1..f[x] -> Own] /\ \A u \in Own : \E k \in 1..f[x] : h[k] = u
      OBVIOUS
    <2>3. \A k, l \in 1..f[x] : h[k] = h[l] => k = l
      OBVIOUS
    <2>4. ExistsBijection(1..f[x], Own)
      <3> HIDE DEF h, Own
      <3>1. h \in Bijection(1..f[x], Own)
        BY <2>2, <2>3, Fun_IsBij
      <3> QED
        BY <3>1 DEF ExistsBijection
    <2> QED
      BY <2>1, <2>4, FS_Bijection
  <1>4. Units(f) \cap Own = Own
    BY <1>2
  <1> HIDE DEF Own
  <1>5. /\ IsFiniteSet(Units(f) \ Own)
        /\ Cardinality(Units(f) \ Own)
              = Cardinality(Units(f)) - Cardinality(Units(f) \cap Own)
    BY FS_Difference
  <1> QED
    BY <1>1, <1>3, <1>4, <1>5

\* No owner holds anything.
LEMMA UnitsNone ==
    ASSUME NEW S, NEW f \in [S -> Nat], \A x \in S : f[x] = 0
    PROVE  IsFiniteSet(Units(f)) /\ Cardinality(Units(f)) = 0
  <1>1. Units(f) = {}
    BY UnitsMember
  <1> QED
    BY <1>1, FS_EmptySet

\* Every owner holds one unit or none.
LEMMA UnitsOfOwners ==
    ASSUME NEW S, NEW f \in [S -> Nat], NEW O \in SUBSET S, IsFiniteSet(O),
           \A x \in S : f[x] = IF x \in O THEN 1 ELSE 0
    PROVE  IsFiniteSet(Units(f)) /\ Cardinality(Units(f)) = Cardinality(O)
  <1>1. Units(f) = {<<x, 1>> : x \in O}
    BY UnitsMember
  <1> DEFINE h == [x \in O |-> <<x, 1>>]
             T == {<<x, 1>> : x \in O}
  <1>2. h \in [O -> T] /\ \A u \in T : \E x \in O : h[x] = u
    OBVIOUS
  <1>3. \A x, y \in O : h[x] = h[y] => x = y
    OBVIOUS
  <1>4. ExistsBijection(O, T)
    <2> HIDE DEF h, T
    <2>1. h \in Bijection(O, T)
      BY <1>2, <1>3, Fun_IsBij
    <2> QED
      BY <2>1 DEF ExistsBijection
  <1> QED
    BY <1>1, <1>4, FS_Bijection
=============================================================================
