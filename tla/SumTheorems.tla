----------------------------- MODULE SumTheorems -----------------------------
(***************************************************************************)
(* Sums over finite sets: what SumFunctionOnSet of the community modules   *)
(* (and MapThenSumSet, which is the same fold) computes, whatever the      *)
(* order in which the fold takes the elements; and the inductions that     *)
(* show it, on finite sets and on intervals.                               *)
(***************************************************************************)
EXTENDS Integers, FiniteSets, Functions, FiniteSetTheorems, TLAPS

-----------------------------------------------------------------------------
(* Induction on the subsets of a finite set, with a set for the predicate. *)

LEMMA SubsetInduction ==
    ASSUME NEW S, IsFiniteSet(S), NEW G,
           \A T \in SUBSET S : (\A U \in (SUBSET T) \ {T} : U \in G) => T \in G
    PROVE  S \in G
<1> DEFINE Bad == {T \in SUBSET S : T \notin G}
<1>1. SUFFICES ASSUME Bad # {} PROVE FALSE
  BY DEF Bad
<1>2. FiniteSubsetsOf(S) = SUBSET S
  BY FS_FiniteSubsetsOfFinite
<1>3. IsWellFoundedOn(StrictSubsetOrdering(S), SUBSET S)
  BY <1>2, FS_StrictSubsetOrderingWellFounded
<1>4. PICK T \in Bad : \A U \in Bad : ~(<<U, T>> \in StrictSubsetOrdering(S))
  <2>1. Bad \subseteq SUBSET S
    OBVIOUS
  <2> HIDE DEF Bad
  <2>2. QED BY <1>1, <1>3, <2>1, WFMin
<1>5. ASSUME NEW U \in (SUBSET T) \ {T} PROVE U \in G
  <2>1. <<U, T>> \in StrictSubsetOrdering(S)
    <3>1. T \subseteq S /\ U \subseteq T /\ U # T
      BY <1>4
    <3>2. QED BY <3>1 DEF StrictSubsetOrdering
  <2>2. U \notin Bad
    BY <1>4, <2>1
  <2>3. QED BY <1>4, <2>2
<1>6. QED BY <1>4, <1>5

(* Induction up to a bound.                                                *)
LEMMA IntervalInduction ==
    ASSUME NEW N \in Nat, NEW G, 0 \in G, \A d \in 0..N : d < N /\ d \in G => d + 1 \in G
    PROVE  0..N \subseteq G
<1> SUFFICES ASSUME NEW n \in 0..N PROVE n \in G
  OBVIOUS
<1> DEFINE H == {T \in SUBSET (1..n) : \A k \in 0..n : T = 1..k => k \in G}
<1>1. ASSUME NEW T \in SUBSET (1..n), \A U \in (SUBSET T) \ {T} : U \in H PROVE T \in H
  <2> SUFFICES ASSUME NEW k \in 0..n, T = 1..k PROVE k \in G
    OBVIOUS
  <2>1. CASE k = 0
    BY <2>1
  <2>2. CASE k # 0
    <3>1. k - 1 \in 0..n /\ k \in 1..k /\ k \notin 1..(k - 1) /\ 1..(k - 1) \subseteq 1..k
      BY <2>2
    <3>2. 1..(k - 1) \in (SUBSET T) \ {T}
      BY <3>1
    <3>3. k - 1 \in G
      BY <1>1, <3>1, <3>2
    <3>4. k - 1 \in 0..N /\ k - 1 < N /\ (k - 1) + 1 = k
      BY <2>2
    <3>5. QED BY <3>3, <3>4
  <2>3. QED BY <2>1, <2>2
<1>2. IsFiniteSet(1..n)
  BY FS_Interval
<1>3. 1..n \in H
  <2> DEFINE S == 1..n
  <2>1. IsFiniteSet(S) /\ \A T \in SUBSET S : (\A U \in (SUBSET T) \ {T} : U \in H) => T \in H
    BY <1>1, <1>2
  <2> HIDE DEF H, S
  <2>2. S \in H
    BY <2>1, SubsetInduction
  <2>3. QED BY <2>2 DEF S
<1>4. QED BY <1>3

(* The largest and the smallest element of a finite set of integers.       *)
LEMMA LargestExists ==
    ASSUME NEW S, IsFiniteSet(S), S \subseteq Int, S # {}
    PROVE  \E x \in S : \A y \in S : x >= y
<1> DEFINE G == {T \in SUBSET S : T # {} => \E x \in T : \A y \in T : x >= y}
<1>1. ASSUME NEW T \in SUBSET S, \A U \in (SUBSET T) \ {T} : U \in G PROVE T \in G
  <2> SUFFICES ASSUME T # {} PROVE \E x \in T : \A y \in T : x >= y
    OBVIOUS
  <2>1. PICK z \in T : TRUE
    OBVIOUS
  <2>2. CASE T = {z}
    BY <2>1, <2>2
  <2>3. CASE T # {z}
    <3>1. T \ {z} \in (SUBSET T) \ {T} /\ T \ {z} # {}
      BY <2>1, <2>3
    <3>2. PICK x \in T \ {z} : \A y \in T \ {z} : x >= y
      BY <1>1, <3>1
    <3>3. x \in Int /\ z \in Int /\ \A y \in T : y \in Int
      BY <2>1
    <3>4. CASE x >= z
      BY <3>2, <3>4
    <3>5. CASE z >= x
      <4>1. \A y \in T : z >= y
        BY <3>2, <3>3, <3>5
      <4>2. QED BY <2>1, <4>1
    <3>6. QED BY <3>3, <3>4, <3>5
  <2>4. QED BY <2>2, <2>3
<1> HIDE DEF G
<1>2. S \in G
  BY <1>1, SubsetInduction
<1>3. QED BY <1>2 DEF G

LEMMA SmallestExists ==
    ASSUME NEW S, IsFiniteSet(S), S \subseteq Int, S # {}
    PROVE  \E x \in S : \A y \in S : x <= y
<1> DEFINE f == [x \in S |-> -x]
           N == {f[x] : x \in S}
<1>1. f \in Surjection(S, N)
  BY DEF Surjection
<1>2. IsFiniteSet(N)
  <2> HIDE DEF f, N
  <2>1. QED BY <1>1, FS_Surjection
<1>3. N \subseteq Int /\ N # {}
  <2>1. ASSUME NEW x \in S PROVE f[x] \in Int
    <3>1. x \in Int
      OBVIOUS
    <3>2. -x \in Int
      BY <3>1
    <3>3. QED BY <3>2
  <2> HIDE DEF f
  <2>2. QED BY <2>1
<1>4. PICK n \in N : \A m \in N : n >= m
  <2> HIDE DEF N
  <2>1. QED BY <1>2, <1>3, LargestExists
<1>5. PICK x \in S : n = -x
  BY <1>4
<1>6. ASSUME NEW y \in S PROVE x <= y
  <2>1. n >= -y
    BY <1>4
  <2>2. QED BY <1>5, <2>1
<1>7. QED BY <1>6

-----------------------------------------------------------------------------
(* The recursion of the fold has a solution on the subsets of every finite *)
(* set, and solutions agree where they overlap.                            *)

Element(s) == CHOOSE x \in s : TRUE
Rest(s) == s \ {Element(s)}
IsFold(f, S, g) == g = [s \in SUBSET S |-> IF s = {} THEN 0 ELSE f[Element(s)] + g[Rest(s)]]

LEMMA SumIsFold ==
    \A f, S : SumFunctionOnSet(f, S) = (CHOOSE g : IsFold(f, S, g))[S]
BY DEF SumFunctionOnSet, FoldFunctionOnSet, MapThenFoldSet, IsFold, Element, Rest

LEMMA RestIsSmaller == \A s : s # {} => Element(s) \in s /\ Rest(s) \in (SUBSET s) \ {s}
BY DEF Element, Rest

LEMMA FoldsAgree ==
    ASSUME NEW f, NEW S, NEW T, NEW g, NEW h, IsFold(f, S, g), IsFold(f, T, h),
           NEW U, IsFiniteSet(U), U \subseteq S, U \subseteq T
    PROVE  g[U] = h[U]
<1> DEFINE G == {V \in SUBSET U : g[V] = h[V]}
<1>1. ASSUME NEW V \in SUBSET U, \A W \in (SUBSET V) \ {V} : W \in G PROVE V \in G
  <2>1. V \in SUBSET S /\ V \in SUBSET T
    OBVIOUS
  <2>2. /\ g[V] = IF V = {} THEN 0 ELSE f[Element(V)] + g[Rest(V)]
        /\ h[V] = IF V = {} THEN 0 ELSE f[Element(V)] + h[Rest(V)]
    BY <2>1 DEF IsFold
  <2>3. V # {} => g[Rest(V)] = h[Rest(V)]
    BY <1>1, RestIsSmaller
  <2>4. QED BY <2>2, <2>3
<1> HIDE DEF G
<1>2. U \in G
  BY <1>1, SubsetInduction
<1>3. QED BY <1>2 DEF G

LEMMA FoldExists == ASSUME NEW f, NEW S, IsFiniteSet(S) PROVE \E g : IsFold(f, S, g)
<1> DEFINE G == {T \in SUBSET S : \E g : IsFold(f, T, g)}
<1>1. ASSUME NEW T \in SUBSET S, \A U \in (SUBSET T) \ {T} : U \in G PROVE T \in G
  <2> DEFINE F(U) == CHOOSE g : IsFold(f, U, g)
             h == [s \in SUBSET T |-> IF s = {} THEN 0 ELSE f[Element(s)] + F(Rest(s))[Rest(s)]]
  <2>1. ASSUME NEW U \in (SUBSET T) \ {T} PROVE IsFold(f, U, F(U))
    BY <1>1
  <2>2. ASSUME NEW s \in SUBSET T, s # {} PROVE h[Rest(s)] = F(Rest(s))[Rest(s)]
    <3> DEFINE U == Rest(s)
    <3>1. U \in (SUBSET T) \ {T}
      BY <2>2, RestIsSmaller
    <3>2. IsFold(f, U, F(U))
      BY <2>1, <3>1
    <3>3. F(U)[U] = IF U = {} THEN 0 ELSE f[Element(U)] + F(U)[Rest(U)]
      BY <3>2 DEF IsFold
    <3>4. h[U] = IF U = {} THEN 0 ELSE f[Element(U)] + F(Rest(U))[Rest(U)]
      BY <3>1
    <3>5. U # {} => F(U)[Rest(U)] = F(Rest(U))[Rest(U)]
      <4> SUFFICES ASSUME U # {} PROVE F(U)[Rest(U)] = F(Rest(U))[Rest(U)]
        OBVIOUS
      <4>1. Rest(U) \in (SUBSET U) \ {U}
        BY RestIsSmaller
      <4>2. Rest(U) \in (SUBSET T) \ {T}
        BY <3>1, <4>1
      <4>3. IsFold(f, Rest(U), F(Rest(U)))
        BY <2>1, <4>2
      <4>4. IsFiniteSet(Rest(U))
        BY <4>2, FS_Subset
      <4> HIDE DEF U, F
      <4>5. QED BY <3>2, <4>1, <4>3, <4>4, FoldsAgree
    <3>6. QED BY <3>3, <3>4, <3>5
  <2>3. ASSUME NEW s \in SUBSET T
        PROVE  h[s] = IF s = {} THEN 0 ELSE f[Element(s)] + h[Rest(s)]
    <3>1. h[s] = IF s = {} THEN 0 ELSE f[Element(s)] + F(Rest(s))[Rest(s)]
      OBVIOUS
    <3>2. s # {} => h[Rest(s)] = F(Rest(s))[Rest(s)]
      BY <2>2
    <3> HIDE DEF h, F
    <3>3. QED BY <3>1, <3>2
  <2>4. h = [s \in SUBSET T |-> h[s]]
    OBVIOUS
  <2> HIDE DEF h
  <2>5. [s \in SUBSET T |-> h[s]]
          = [s \in SUBSET T |-> IF s = {} THEN 0 ELSE f[Element(s)] + h[Rest(s)]]
    BY <2>3
  <2>6. IsFold(f, T, h)
    BY <2>4, <2>5, Zenon DEF IsFold
  <2>7. QED BY <2>6
<1> HIDE DEF G
<1>2. S \in G
  BY <1>1, SubsetInduction
<1>3. QED BY <1>2 DEF G

-----------------------------------------------------------------------------
(* Sums.                                                                   *)

LEMMA SumEmpty == \A f : SumFunctionOnSet(f, {}) = 0
<1> SUFFICES ASSUME NEW f PROVE SumFunctionOnSet(f, {}) = 0
  OBVIOUS
<1>1. IsFiniteSet({})
  BY FS_EmptySet
<1>2. PICK g : g = CHOOSE h : IsFold(f, {}, h)
  OBVIOUS
<1>3. IsFold(f, {}, g)
  BY <1>1, <1>2, FoldExists
<1>4. g[{}] = 0
  BY <1>3 DEF IsFold
<1>5. QED BY <1>2, <1>4, SumIsFold

(* The element the fold happens to take first.                             *)
LEMMA SumTakes ==
    ASSUME NEW f, NEW S, IsFiniteSet(S), S # {}
    PROVE  SumFunctionOnSet(f, S) = f[Element(S)] + SumFunctionOnSet(f, Rest(S))
<1>1. Rest(S) \in (SUBSET S) \ {S} /\ IsFiniteSet(Rest(S))
  BY RestIsSmaller, FS_Subset
<1>2. PICK g : g = CHOOSE h : IsFold(f, S, h)
  OBVIOUS
<1>3. PICK k : k = CHOOSE h : IsFold(f, Rest(S), h)
  OBVIOUS
<1>4. IsFold(f, S, g) /\ IsFold(f, Rest(S), k)
  BY <1>1, <1>2, <1>3, FoldExists
<1>5. g[S] = f[Element(S)] + g[Rest(S)]
  BY <1>4 DEF IsFold
<1>6. g[Rest(S)] = k[Rest(S)]
  BY <1>1, <1>4, FoldsAgree
<1>7. QED BY <1>2, <1>3, <1>5, <1>6, SumIsFold

LEMMA SumIsInt ==
    ASSUME NEW f, NEW S, IsFiniteSet(S), \A x \in S : f[x] \in Int
    PROVE  SumFunctionOnSet(f, S) \in Int
<1> DEFINE G == {T \in SUBSET S : SumFunctionOnSet(f, T) \in Int}
<1>1. ASSUME NEW T \in SUBSET S, \A U \in (SUBSET T) \ {T} : U \in G PROVE T \in G
  <2>1. CASE T = {}
    BY <2>1, SumEmpty
  <2>2. CASE T # {}
    <3>1. SumFunctionOnSet(f, Rest(T)) \in Int
      BY <1>1, <2>2, RestIsSmaller
    <3>2. f[Element(T)] \in Int
      BY <2>2, RestIsSmaller
    <3>3. SumFunctionOnSet(f, T) = f[Element(T)] + SumFunctionOnSet(f, Rest(T))
      BY <2>2, SumTakes, FS_Subset
    <3>4. QED BY <3>1, <3>2, <3>3
  <2>3. QED BY <2>1, <2>2
<1> HIDE DEF G
<1>2. S \in G
  BY <1>1, SubsetInduction
<1>3. QED BY <1>2 DEF G

(* Any element may come first.                                             *)
LEMMA SumRemove ==
    ASSUME NEW f, NEW S, IsFiniteSet(S), \A x \in S : f[x] \in Int, NEW y \in S
    PROVE  SumFunctionOnSet(f, S) = f[y] + SumFunctionOnSet(f, S \ {y})
<1> DEFINE Sum(T) == SumFunctionOnSet(f, T)
           G == {T \in SUBSET S : \A x \in T : Sum(T) = f[x] + Sum(T \ {x})}
<1>1. ASSUME NEW T \in SUBSET S, \A U \in (SUBSET T) \ {T} : U \in G PROVE T \in G
  <2> SUFFICES ASSUME NEW x \in T PROVE Sum(T) = f[x] + Sum(T \ {x})
    OBVIOUS
  <2>1. PICK c : c = Element(T)
    OBVIOUS
  <2>2. c \in T /\ Rest(T) = T \ {c}
    BY <2>1, RestIsSmaller DEF Rest
  <2>3. IsFiniteSet(T)
    BY FS_Subset
  <2>4. Sum(T) = f[c] + Sum(T \ {c})
    BY <2>1, <2>2, <2>3, SumTakes
  <2>5. CASE x = c
    BY <2>4, <2>5
  <2>6. CASE x # c
    <3>1. Sum(T \ {c}) = f[x] + Sum((T \ {c}) \ {x})
      BY <1>1, <2>2, <2>6
    <3>2. Sum(T \ {x}) = f[c] + Sum((T \ {x}) \ {c})
      BY <1>1, <2>2, <2>6
    <3>3. (T \ {c}) \ {x} = (T \ {x}) \ {c}
      OBVIOUS
    <3>4. IsFiniteSet((T \ {x}) \ {c}) /\ \A z \in (T \ {x}) \ {c} : f[z] \in Int
      BY <2>3, FS_Subset
    <3>5. Sum((T \ {x}) \ {c}) \in Int
      BY <3>4, SumIsInt
    <3>6. f[x] \in Int /\ f[c] \in Int
      BY <2>2
    <3>7. PICK n : n = Sum((T \ {x}) \ {c})
      OBVIOUS
    <3>8. Sum(T \ {c}) = f[x] + n /\ Sum(T \ {x}) = f[c] + n /\ n \in Int
      BY <3>1, <3>2, <3>3, <3>5, <3>7
    <3> HIDE DEF Sum, G
    <3>9. QED BY <2>4, <3>6, <3>8
  <2>7. QED BY <2>5, <2>6
<1> HIDE DEF G
<1>2. S \in G
  BY <1>1, SubsetInduction
<1>3. QED BY <1>2 DEF G

LEMMA SumAdd ==
    ASSUME NEW f, NEW S, IsFiniteSet(S), \A x \in S : f[x] \in Int, NEW y, y \notin S, f[y] \in Int
    PROVE  SumFunctionOnSet(f, S \union {y}) = f[y] + SumFunctionOnSet(f, S)
<1>1. IsFiniteSet(S \union {y})
  BY FS_AddElement
<1>2. (S \union {y}) \ {y} = S
  OBVIOUS
<1>3. \A x \in S \union {y} : f[x] \in Int
  OBVIOUS
<1>4. y \in S \union {y}
  OBVIOUS
<1>5. QED BY <1>1, <1>2, <1>3, <1>4, SumRemove

(* Only the elements summed count.                                         *)
LEMMA SumSame ==
    ASSUME NEW f, NEW g, NEW S, IsFiniteSet(S), \A x \in S : f[x] = g[x]
    PROVE  SumFunctionOnSet(f, S) = SumFunctionOnSet(g, S)
<1> DEFINE G == {T \in SUBSET S : SumFunctionOnSet(f, T) = SumFunctionOnSet(g, T)}
<1>1. ASSUME NEW T \in SUBSET S, \A U \in (SUBSET T) \ {T} : U \in G PROVE T \in G
  <2>1. CASE T = {}
    BY <2>1, SumEmpty
  <2>2. CASE T # {}
    <3>1. SumFunctionOnSet(f, Rest(T)) = SumFunctionOnSet(g, Rest(T))
      BY <1>1, <2>2, RestIsSmaller
    <3>2. f[Element(T)] = g[Element(T)]
      BY <2>2, RestIsSmaller
    <3>3. IsFiniteSet(T)
      BY FS_Subset
    <3>4. /\ SumFunctionOnSet(f, T) = f[Element(T)] + SumFunctionOnSet(f, Rest(T))
          /\ SumFunctionOnSet(g, T) = g[Element(T)] + SumFunctionOnSet(g, Rest(T))
      BY <2>2, <3>3, SumTakes
    <3>5. QED BY <3>1, <3>2, <3>4
  <2>3. QED BY <2>1, <2>2
<1> HIDE DEF G
<1>2. S \in G
  BY <1>1, SubsetInduction
<1>3. QED BY <1>2 DEF G

LEMMA SumIsNat ==
    ASSUME NEW f, NEW S, IsFiniteSet(S), \A x \in S : f[x] \in Nat
    PROVE  SumFunctionOnSet(f, S) \in Nat
<1> DEFINE G == {T \in SUBSET S : SumFunctionOnSet(f, T) \in Nat}
<1>1. ASSUME NEW T \in SUBSET S, \A U \in (SUBSET T) \ {T} : U \in G PROVE T \in G
  <2>1. CASE T = {}
    BY <2>1, SumEmpty
  <2>2. CASE T # {}
    <3>1. SumFunctionOnSet(f, Rest(T)) \in Nat
      BY <1>1, <2>2, RestIsSmaller
    <3>2. f[Element(T)] \in Nat
      BY <2>2, RestIsSmaller
    <3>3. SumFunctionOnSet(f, T) = f[Element(T)] + SumFunctionOnSet(f, Rest(T))
      BY <2>2, SumTakes, FS_Subset
    <3>4. QED BY <3>1, <3>2, <3>3
  <2>3. QED BY <2>1, <2>2
<1> HIDE DEF G
<1>2. S \in G
  BY <1>1, SubsetInduction
<1>3. QED BY <1>2 DEF G

(* One term changes.                                                       *)
LEMMA SumChange ==
    ASSUME NEW f, NEW g, NEW S, IsFiniteSet(S), NEW y \in S,
           \A x \in S : f[x] \in Int /\ g[x] \in Int, \A x \in S \ {y} : f[x] = g[x]
    PROVE  SumFunctionOnSet(g, S) = SumFunctionOnSet(f, S) - f[y] + g[y]
<1> DEFINE R == S \ {y}
<1>1. IsFiniteSet(R) /\ \A x \in R : f[x] \in Int /\ g[x] \in Int /\ f[x] = g[x]
  BY FS_Subset
<1>2. SumFunctionOnSet(f, R) = SumFunctionOnSet(g, R)
  <2> HIDE DEF R
  <2>1. QED BY <1>1, SumSame
<1>3. SumFunctionOnSet(f, R) \in Int
  <2> HIDE DEF R
  <2>1. QED BY <1>1, SumIsInt
<1>4. SumFunctionOnSet(f, S) = f[y] + SumFunctionOnSet(f, R)
  BY SumRemove
<1>5. SumFunctionOnSet(g, S) = g[y] + SumFunctionOnSet(g, R)
  BY SumRemove
<1> HIDE DEF R
<1>6. QED BY <1>2, <1>3, <1>4, <1>5

LEMMA SumIsZero ==
    ASSUME NEW f, NEW S, IsFiniteSet(S), \A x \in S : f[x] = 0
    PROVE  SumFunctionOnSet(f, S) = 0
<1> DEFINE G == {T \in SUBSET S : SumFunctionOnSet(f, T) = 0}
<1>1. ASSUME NEW T \in SUBSET S, \A U \in (SUBSET T) \ {T} : U \in G PROVE T \in G
  <2>1. CASE T = {}
    BY <2>1, SumEmpty
  <2>2. CASE T # {}
    <3>1. IsFiniteSet(T)
      BY FS_Subset
    <3>2. Element(T) \in T /\ Rest(T) \in (SUBSET T) \ {T}
      BY <2>2, RestIsSmaller
    <3>3. SumFunctionOnSet(f, T) = f[Element(T)] + SumFunctionOnSet(f, Rest(T))
      BY <2>2, <3>1, SumTakes
    <3>4. f[Element(T)] = 0 /\ SumFunctionOnSet(f, Rest(T)) = 0
      BY <1>1, <3>2
    <3>5. QED BY <3>3, <3>4
  <2>3. QED BY <2>1, <2>2
<1>2. S \in G
  <2> HIDE DEF G
  <2>1. QED BY <1>1, SubsetInduction
<1>3. QED BY <1>2
=============================================================================
