--------------------------- MODULE CollectionsProofs ---------------------------
(***************************************************************************)
(* What sorting and adding up do, for any finite sets (Collections), and   *)
(* that some numbers have a least: the lemmas the other proofs share.      *)
(***************************************************************************)
EXTENDS Collections, FunctionTheorems, FiniteSetTheorems, WellFoundedInduction, TLAPS

-----------------------------------------------------------------------------
(* Sums over finite sets.                                                  *)
Addends(f, S) == UNION {{x} \X (1 .. f[x]) : x \in S}

LEMMA SumFinite ==
    ASSUME NEW S, IsFiniteSet(S), NEW f, \A x \in S : f[x] \in Nat
    PROVE  IsFiniteSet(Addends(f, S)) /\ SumOver(f, S) \in Nat
<1> DEFINE P == {{x} \X (1 .. f[x]) : x \in S}
<1>1. IsFiniteSet(P)
  <2> DEFINE g == [x \in S |-> {x} \X (1 .. f[x])]
  <2>1. g \in Surjection(S, P)
    BY DEF Surjection
  <2> QED BY <2>1, FS_Surjection
<1>2. ASSUME NEW x \in S PROVE IsFiniteSet({x} \X (1 .. f[x]))
  <2>1. IsFiniteSet({x}) /\ IsFiniteSet(1 .. f[x])
    <3>1. 1 \in Int /\ f[x] \in Int
      OBVIOUS
    <3>2. IsFiniteSet(1 .. f[x])
      BY ONLY <3>1, FS_Interval
    <3> QED BY <3>2, FS_Singleton
  <2> QED BY <2>1, FS_Product
<1>3. IsFiniteSet(UNION P)
  <2>1. \A T \in P : IsFiniteSet(T)
    BY <1>2
  <2> HIDE DEF P
  <2> QED BY <1>1, <2>1, FS_UNION
<1>4. Addends(f, S) = UNION P /\ SumOver(f, S) = Cardinality(Addends(f, S))
  BY DEF Addends, SumOver
<1> QED BY <1>3, <1>4, FS_CardinalityType

LEMMA SumNothing == \A f : SumOver(f, {}) = 0
<1> SUFFICES ASSUME NEW f PROVE SumOver(f, {}) = 0
  OBVIOUS
<1>1. UNION {{x} \X (1 .. f[x]) : x \in {}} = {}
  OBVIOUS
<1> QED BY <1>1, FS_EmptySet DEF SumOver

LEMMA SumOneMore ==
    ASSUME NEW S, IsFiniteSet(S), NEW f, NEW a, a \notin S, f[a] \in Nat, \A x \in S : f[x] \in Nat
    PROVE  SumOver(f, S \union {a}) = SumOver(f, S) + f[a]
<1> DEFINE A == {a} \X (1 .. f[a])
<1>1. IsFiniteSet(A) /\ Cardinality(A) = f[a]
  <2>1. IsFiniteSet({a}) /\ Cardinality({a}) = 1
    BY FS_Singleton
  <2>2. IsFiniteSet(1 .. f[a]) /\ Cardinality(1 .. f[a]) = f[a]
    <3>1. IsFiniteSet(1 .. f[a]) /\ Cardinality(1 .. f[a]) = IF 1 > f[a] THEN 0 ELSE f[a] - 1 + 1
      BY FS_Interval
    <3> QED BY <3>1
  <2>3. IsFiniteSet(A) /\ Cardinality(A) = Cardinality({a}) * Cardinality(1 .. f[a])
    <3> DEFINE I == 1 .. f[a]
    <3>1. IsFiniteSet(I)
      BY <2>2
    <3> HIDE DEF I
    <3>2. IsFiniteSet({a} \X I) /\ Cardinality({a} \X I) = Cardinality({a}) * Cardinality(I)
      BY ONLY <2>1, <3>1, FS_Product
    <3> QED BY <3>2 DEF I
  <2> HIDE DEF A
  <2>4. Cardinality(A) = 1 * f[a]
    BY <2>1, <2>2, <2>3
  <2> QED BY <2>3, <2>4
<1>2. Addends(f, S \union {a}) = Addends(f, S) \union A /\ Addends(f, S) \intersect A = {}
  BY DEF Addends
<1>3. IsFiniteSet(Addends(f, S)) /\ SumOver(f, S) \in Nat
  BY SumFinite
<1>4. SumOver(f, S) = Cardinality(Addends(f, S)) /\ SumOver(f, S \union {a}) = Cardinality(Addends(f, S \union {a}))
  BY DEF SumOver, Addends
<1> HIDE DEF A
<1>5. Cardinality(Addends(f, S) \union A) = Cardinality(Addends(f, S)) + Cardinality(A) - Cardinality({})
  BY <1>1, <1>2, <1>3, FS_Union
<1>6. Cardinality({}) = 0
  BY FS_EmptySet
<1>7. SumOver(f, S \union {a}) = SumOver(f, S) + Cardinality(A) - 0
  <2>1. Cardinality(Addends(f, S \union {a})) = Cardinality(Addends(f, S) \union A)
    BY <1>2
  <2> QED BY ONLY <1>4, <1>5, <1>6, <2>1
<1> QED BY ONLY <1>1, <1>3, <1>7, f[a] \in Nat

(* A larger set, or larger numbers, add up to no less.                     *)
LEMMA SumGrows ==
    ASSUME NEW T, IsFiniteSet(T), NEW S \in SUBSET T, NEW f, NEW g,
           \A x \in T : g[x] \in Nat, \A x \in S : f[x] \in Nat /\ f[x] <= g[x]
    PROVE  SumOver(f, S) <= SumOver(g, T)
<1>1. IsFiniteSet(Addends(g, T))
  BY SumFinite
<1>2. Addends(f, S) \subseteq Addends(g, T)
  <2> SUFFICES ASSUME NEW x \in S, NEW k \in 1 .. f[x] PROVE <<x, k>> \in {x} \X (1 .. g[x])
    BY DEF Addends
  <2>1. f[x] \in Nat /\ g[x] \in Nat /\ f[x] <= g[x]
    OBVIOUS
  <2> QED BY <2>1
<1>3. Cardinality(Addends(f, S)) <= Cardinality(Addends(g, T))
  BY <1>1, <1>2, FS_Subset
<1> QED BY <1>3 DEF SumOver, Addends

LEMMA SumSame ==
    ASSUME NEW S, NEW f, NEW g, \A x \in S : f[x] = g[x]
    PROVE  SumOver(f, S) = SumOver(g, S)
<1>1. {{x} \X (1 .. f[x]) : x \in S} = {{x} \X (1 .. g[x]) : x \in S}
  OBVIOUS
<1> QED BY <1>1 DEF SumOver

-----------------------------------------------------------------------------
(* Sorting.                                                                *)
StrictOrder(S, R) ==
    /\ \A x \in S : <<x, x>> \notin R
    /\ \A x, y, z \in S : <<x, y>> \in R /\ <<y, z>> \in R => <<x, z>> \in R
    /\ \A x, y \in S : x = y \/ <<x, y>> \in R \/ <<y, x>> \in R

Below(S, R, x) == {y \in S : <<y, x>> \in R}
Place(S, R)    == [x \in S |-> Cardinality(Below(S, R, x)) + 1]

LEMMA PlaceGrows ==
    ASSUME NEW S, IsFiniteSet(S), NEW R, StrictOrder(S, R)
    PROVE  /\ Cardinality(S) \in Nat /\ Place(S, R) \in [S -> 1 .. Cardinality(S)]
           /\ \A x, y \in S : <<x, y>> \in R => Place(S, R)[x] < Place(S, R)[y]
<1>1. Cardinality(S) \in Nat
  BY FS_CardinalityType
<1>2. ASSUME NEW x \in S
      PROVE  IsFiniteSet(Below(S, R, x)) /\ Cardinality(Below(S, R, x)) \in 0 .. Cardinality(S) - 1
  <2>1. Below(S, R, x) \in SUBSET (S \ {x})
    BY DEF StrictOrder, Below
  <2>2. IsFiniteSet(S \ {x}) /\ Cardinality(S \ {x}) = Cardinality(S) - 1
    BY FS_RemoveElement
  <2>3. IsFiniteSet(Below(S, R, x)) /\ Cardinality(Below(S, R, x)) <= Cardinality(S \ {x})
    BY ONLY <2>1, <2>2, FS_Subset
  <2>4. Cardinality(Below(S, R, x)) \in Nat
    BY <2>3, FS_CardinalityType
  <2> QED BY ONLY <1>1, <2>2, <2>3, <2>4
<1>3. ASSUME NEW x \in S, NEW y \in S, <<x, y>> \in R
      PROVE  Cardinality(Below(S, R, x)) < Cardinality(Below(S, R, y))
  <2>1. Below(S, R, x) \in SUBSET Below(S, R, y) /\ x \in Below(S, R, y) /\ x \notin Below(S, R, x)
    BY <1>3 DEF StrictOrder, Below
  <2>2. IsFiniteSet(Below(S, R, y)) /\ Cardinality(Below(S, R, x)) \in Nat /\ Cardinality(Below(S, R, y)) \in Nat
    BY <1>1, <1>2
  <2>3. /\ Cardinality(Below(S, R, x)) <= Cardinality(Below(S, R, y))
        /\ Cardinality(Below(S, R, y)) = Cardinality(Below(S, R, x)) => Below(S, R, y) = Below(S, R, x)
    BY ONLY <2>1, <2>2, FS_Subset
  <2> QED BY ONLY <2>1, <2>2, <2>3
<1>4. \A x \in S : Place(S, R)[x] = Cardinality(Below(S, R, x)) + 1
  BY DEF Place
<1>5. \A x \in S : Cardinality(Below(S, R, x)) + 1 \in 1 .. Cardinality(S)
  BY <1>1, <1>2
<1>6. Place(S, R) \in [S -> 1 .. Cardinality(S)]
  BY <1>5 DEF Place
<1>7. ASSUME NEW x \in S, NEW y \in S, <<x, y>> \in R PROVE Place(S, R)[x] < Place(S, R)[y]
  <2>1. Cardinality(Below(S, R, x)) \in Nat /\ Cardinality(Below(S, R, y)) \in Nat
    BY <1>1, <1>2
  <2>2. Cardinality(Below(S, R, x)) < Cardinality(Below(S, R, y))
    BY <1>3, <1>7
  <2> QED BY ONLY <1>4, <2>1, <2>2, x \in S, y \in S
<1> QED BY <1>1, <1>6, <1>7

(* A sorted set has each of its elements once, in order.                   *)
LEMMA Sorted ==
    ASSUME NEW S, IsFiniteSet(S), NEW R, StrictOrder(S, R)
    PROVE  /\ SortBy(S, R) \in [1 .. Cardinality(S) -> S] /\ Cardinality(S) \in Nat
           /\ \A x \in S : \E n \in 1 .. Cardinality(S) : SortBy(S, R)[n] = x
           /\ \A m, n \in 1 .. Cardinality(S) : m < n <=> <<SortBy(S, R)[m], SortBy(S, R)[n]>> \in R
<1> DEFINE N == Cardinality(S)
           p == Place(S, R)
           s == SortBy(S, R)
<1>1. /\ N \in Nat /\ p \in [S -> 1 .. N]
      /\ \A x, y \in S : <<x, y>> \in R => p[x] < p[y]
  BY PlaceGrows
<1>2. \A n \in 1 .. N : s[n] = CHOOSE x \in S : Cardinality(Below(S, R, x)) = n - 1
  BY DEF SortBy, Below
<1>3. s = [n \in 1 .. N |-> s[n]]
  <2> DEFINE e(n) == CHOOSE x \in S : Cardinality({y \in S : <<y, x>> \in R}) = n - 1
  <2>1. s = [n \in 1 .. N |-> e(n)]
    BY DEF SortBy
  <2> HIDE DEF e, s
  <2> QED BY <2>1
<1>4. \A x \in S : p[x] = Cardinality(Below(S, R, x)) + 1 /\ Cardinality(Below(S, R, x)) = p[x] - 1
  <2> SUFFICES ASSUME NEW x \in S
               PROVE  p[x] = Cardinality(Below(S, R, x)) + 1 /\ Cardinality(Below(S, R, x)) = p[x] - 1
    OBVIOUS
  <2>1. p[x] = Cardinality(Below(S, R, x)) + 1
    BY DEF Place
  <2>2. Below(S, R, x) \in SUBSET S
    BY DEF Below
  <2>3. Cardinality(Below(S, R, x)) \in Nat
    BY <2>2, FS_Subset, FS_CardinalityType
  <2> QED BY <2>1, <2>3
<1> HIDE DEF N, p, s
<1>5. ASSUME NEW x \in S, NEW y \in S, p[x] = p[y] PROVE x = y
  <2>1. x = y \/ <<x, y>> \in R \/ <<y, x>> \in R
    BY DEF StrictOrder
  <2>2. p[x] \in Nat /\ p[y] \in Nat
    BY <1>1
  <2> QED BY <1>1, <1>5, <2>1, <2>2
<1>6. p \in Surjection(S, 1 .. N)
  <2>1. p \in Injection(S, 1 .. N)
    BY <1>1, <1>5 DEF Injection, IsInjective
  <2>2. IsFiniteSet(1 .. N) /\ Cardinality(1 .. N) = N
    <3>1. IsFiniteSet(1 .. N) /\ Cardinality(1 .. N) = IF 1 > N THEN 0 ELSE N - 1 + 1
      BY <1>1, FS_Interval
    <3> QED BY <1>1, <3>1
  <2>3. Cardinality(S) = Cardinality(1 .. N)
    BY <2>2 DEF N
  <2> QED BY <2>1, <2>2, <2>3, FS_Injection
<1>7. ASSUME NEW n \in 1 .. N PROVE s[n] \in S /\ p[s[n]] = n
  <2>1. PICK x \in S : p[x] = n
    BY <1>6 DEF Surjection
  <2>2. Cardinality(Below(S, R, x)) = n - 1
    BY <1>4, <2>1
  <2>3. s[n] \in S /\ Cardinality(Below(S, R, s[n])) = n - 1
    BY <1>2, <2>2
  <2>4. p[s[n]] = (n - 1) + 1
    BY <1>4, <2>3
  <2> QED BY <2>3, <2>4
<1>8. s \in [1 .. N -> S]
  BY <1>3, <1>7
<1>9. ASSUME NEW x \in S PROVE \E n \in 1 .. N : s[n] = x
  <2>1. p[x] \in 1 .. N
    BY <1>1
  <2>2. s[p[x]] \in S /\ p[s[p[x]]] = p[x]
    BY <1>7, <2>1
  <2>3. s[p[x]] = x
    BY <1>5, <2>2
  <2> QED BY <2>1, <2>3
<1>10. ASSUME NEW m \in 1 .. N, NEW n \in 1 .. N PROVE m < n <=> <<s[m], s[n]>> \in R
  <2>1. s[m] \in S /\ s[n] \in S /\ p[s[m]] = m /\ p[s[n]] = n
    BY <1>7
  <2>2. s[m] = s[n] \/ <<s[m], s[n]>> \in R \/ <<s[n], s[m]>> \in R
    BY <2>1 DEF StrictOrder
  <2>3. (<<s[m], s[n]>> \in R => m < n) /\ (<<s[n], s[m]>> \in R => n < m) /\ (s[m] = s[n] => m = n)
    BY <1>1, <2>1
  <2>4. m \in Nat /\ n \in Nat
    BY <1>1
  <2> QED BY ONLY <2>2, <2>3, <2>4
<1> QED BY <1>1, <1>8, <1>9, <1>10 DEF N, s

-----------------------------------------------------------------------------
(* Of some numbers one is the least.                                       *)
LEMMA LeastElement ==
    ASSUME NEW T \in SUBSET Nat, T # {}
    PROVE  \E x \in T : \A y \in T : x <= y
<1> DEFINE R == {ss \in Nat \X Nat : ss[1] < ss[2]}
<1>1. IsWellFoundedOn(R, Nat)
  BY NatLessThanWellFounded DEF OpToRel
<1>2. \A a, b \in Nat : <<a, b>> \in R <=> a < b
  OBVIOUS
<1> HIDE DEF R
<1>3. PICK x \in T : \A y \in T : <<y, x>> \notin R
  BY <1>1, WFMin
<1>4. ASSUME NEW y \in T PROVE x <= y
  <2>1. x \in Nat /\ y \in Nat
    OBVIOUS
  <2>2. ~ (y < x)
    BY <1>2, <1>3, <2>1
  <2> QED BY <2>1, <2>2
<1> QED BY <1>4

(* Of some numbers up to a bound one is the last.                          *)
LEMMA LastExists ==
    ASSUME NEW n \in Nat, NEW S \in SUBSET (1 .. n), S # {}
    PROVE  \E k \in S : \A j \in S : j <= k
<1> DEFINE T == {n - k : k \in S}
<1>1. \A k \in S : k \in Nat /\ k <= n /\ n - k \in Nat
  OBVIOUS
<1>2. T \in SUBSET Nat /\ T # {}
  BY <1>1
<1>3. PICK m \in T : \A t \in T : m <= t
  <2> HIDE DEF T
  <2> QED BY <1>2, LeastElement
<1>4. PICK k \in S : m = n - k
  OBVIOUS
<1>5. ASSUME NEW j \in S PROVE j <= k
  <2>1. m <= n - j
    BY <1>3
  <2> QED BY <1>1, <1>4, <2>1
<1> QED BY <1>5
=============================================================================
