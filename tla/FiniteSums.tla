----------------------------- MODULE FiniteSums -----------------------------
(***************************************************************************)
(* Sums over finite sets, as MapThenSumSet of the community modules defines *)
(* them: take an element out, add its value, go on with the rest.          *)
(*                                                                         *)
(* Such a sum is recursive, and what it adds up to would be shown by        *)
(* induction over the set.  Here it is shown without: the subsets of a     *)
(* finite set are well founded under strict inclusion, so what fails for   *)
(* one of them fails for a smallest one, and that one is refuted by        *)
(* taking an element out.                                                  *)
(***************************************************************************)
EXTENDS Integers, FiniteSets, FiniteSetsExt, FiniteSetTheorems, TLAPS

\* What the values of f on S add up to.
Sum(f, S) == MapThenSumSet(LAMBDA x : f[x], S)

\* The element that is added first.
Pick(S) == CHOOSE x \in S : TRUE

\* g adds f up over the subsets of S.
Adds(g, f, S) ==
    g = [s \in SUBSET S |-> IF s = {} THEN 0 ELSE f[Pick(s)] + g[s \ {Pick(s)}]]

\* What fails for a subset of S fails for a smallest one.
LEMMA SmallestSubset ==
    ASSUME NEW S, IsFiniteSet(S), NEW B \in SUBSET SUBSET S, B # {}
    PROVE  \E V \in B : \A W \in B : W \subseteq V => W = V
<1>1. IsWellFoundedOn(StrictSubsetOrdering(S), SUBSET S)
  BY FS_StrictSubsetOrderingWellFounded, FS_FiniteSubsetsOfFinite
<1>2. PICK V \in B : \A W \in B : << W, V >> \notin StrictSubsetOrdering(S)
  BY <1>1, WFMin
<1> QED
  BY <1>2 DEF StrictSubsetOrdering

\* A set that has an element has the one that is chosen.
LEMMA PickIsIn == ASSUME NEW S, S # {} PROVE Pick(S) \in S
BY DEF Pick

\* Two functions that add f up agree where both are defined.
LEMMA AddsAgree ==
    ASSUME NEW f, NEW S, NEW T, NEW g, NEW h, Adds(g, f, S), Adds(h, f, T),
           NEW U \in SUBSET (S \cap T), IsFiniteSet(U)
    PROVE  g[U] = h[U]
<1> DEFINE B == {V \in SUBSET U : g[V] # h[V]}
<1> SUFFICES ASSUME B # {} PROVE FALSE
  OBVIOUS
<1>1. PICK V \in B : \A W \in B : W \subseteq V => W = V
  <2>1. B \in SUBSET SUBSET U
    OBVIOUS
  <2> HIDE DEF B
  <2> QED
    BY <2>1, SmallestSubset
<1>2. V \in SUBSET S /\ V \in SUBSET T
  OBVIOUS
<1>3. V # {}
  BY <1>2 DEF Adds
<1>4. g[V \ {Pick(V)}] = h[V \ {Pick(V)}]
  BY <1>1, <1>3, PickIsIn
<1>5. /\ g[V] = f[Pick(V)] + g[V \ {Pick(V)}]
      /\ h[V] = f[Pick(V)] + h[V \ {Pick(V)}]
  BY <1>2, <1>3 DEF Adds
<1> QED
  BY <1>4, <1>5

\* There is a function that adds f up over a finite set.
LEMMA AddsExists ==
    ASSUME NEW f, NEW S, IsFiniteSet(S)
    PROVE  \E g : Adds(g, f, S)
<1> DEFINE B == {V \in SUBSET S : ~ \E g : Adds(g, f, V)}
<1> SUFFICES ASSUME B # {} PROVE FALSE
  OBVIOUS
<1>1. PICK V \in B : \A W \in B : W \subseteq V => W = V
  <2>1. B \in SUBSET SUBSET S
    OBVIOUS
  <2> HIDE DEF B
  <2> QED
    BY <2>1, SmallestSubset
<1> DEFINE G(W) == CHOOSE g : Adds(g, f, W)
           Rest(s) == s \ {Pick(s)}
           h == [s \in SUBSET V |->
                   IF s = {} THEN 0 ELSE f[Pick(s)] + G(Rest(s))[Rest(s)]]
<1>2. ASSUME NEW W \in SUBSET V, W # V PROVE Adds(G(W), f, W)
  BY <1>1, <1>2
<1>3. ASSUME NEW s \in SUBSET V, s # {} PROVE h[Rest(s)] = G(Rest(s))[Rest(s)]
  <2> DEFINE W == Rest(s)
  <2>1. W \in SUBSET V /\ W # V /\ Adds(G(W), f, W)
    BY <1>2, <1>3, PickIsIn
  <2>2. CASE W = {}
    BY <2>1, <2>2 DEF Adds
  <2>3. CASE W # {}
    <3>1. Rest(W) \in SUBSET W /\ Rest(W) \in SUBSET V /\ Rest(W) # V
      BY <2>1
    <3>2. Adds(G(Rest(W)), f, Rest(W))
      BY <1>2, <3>1
    <3>3. IsFiniteSet(Rest(W))
      BY <3>1, FS_Subset
    <3>4. G(Rest(W))[Rest(W)] = G(W)[Rest(W)]
      <4> HIDE DEF G, Rest, W
      <4> QED
        BY <2>1, <3>1, <3>2, <3>3, AddsAgree
    <3>5. G(W)[W] = f[Pick(W)] + G(W)[Rest(W)]
      BY <2>1, <2>3 DEF Adds
    <3>6. h[W] = f[Pick(W)] + G(Rest(W))[Rest(W)]
      BY <2>1, <2>3
    <3> QED
      BY <3>4, <3>5, <3>6
  <2> QED
    BY <2>2, <2>3
<1>4. Adds(h, f, V)
  <2> DEFINE k == [s \in SUBSET V |-> IF s = {} THEN 0 ELSE f[Pick(s)] + h[Rest(s)]]
  <2>1. ASSUME NEW s \in SUBSET V PROVE h[s] = k[s]
    <3>1. s # {} => h[s] = f[Pick(s)] + G(Rest(s))[Rest(s)]
      OBVIOUS
    <3>2. s # {} => k[s] = f[Pick(s)] + h[Rest(s)]
      OBVIOUS
    <3>3. s = {} => h[s] = k[s]
      OBVIOUS
    <3> HIDE DEF h, k
    <3> QED
      BY <1>3, <3>1, <3>2, <3>3
  <2>2. h = k
    BY <2>1
  <2> QED
    BY <2>2 DEF Adds
<1> QED
  BY <1>4

\* A sum is what such a function says.
LEMMA SumIsAdded ==
    ASSUME NEW f, NEW S, IsFiniteSet(S), NEW g, Adds(g, f, S), NEW T \in SUBSET S
    PROVE  Sum(f, T) = g[T]
<1> DEFINE h == CHOOSE k : Adds(k, f, T)
<1>1. IsFiniteSet(T)
  BY FS_Subset
<1>2. Adds(h, f, T)
  BY <1>1, AddsExists
<1>3. Sum(f, T) = h[T]
  BY DEF Sum, MapThenSumSet, MapThenFoldSet, Adds, Pick
<1> QED
  BY <1>1, <1>2, <1>3, AddsAgree

\* The sum over nothing, and the sum by its chosen element.
LEMMA SumUnfolds ==
    ASSUME NEW f, NEW S, IsFiniteSet(S)
    PROVE  Sum(f, S) = IF S = {} THEN 0 ELSE f[Pick(S)] + Sum(f, S \ {Pick(S)})
<1>1. PICK g : Adds(g, f, S)
  BY AddsExists
<1>2. Sum(f, S) = g[S] /\ Sum(f, S \ {Pick(S)}) = g[S \ {Pick(S)}]
  BY <1>1, SumIsAdded
<1> QED
  BY <1>1, <1>2 DEF Adds

\* Nothing adds up to zero.
LEMMA SumEmpty == ASSUME NEW f PROVE Sum(f, {}) = 0
BY SumUnfolds, FS_EmptySet

\* Naturals add up to a natural.
LEMMA SumNat ==
    ASSUME NEW f, NEW S, IsFiniteSet(S), \A x \in S : f[x] \in Nat
    PROVE  Sum(f, S) \in Nat
<1> DEFINE B == {V \in SUBSET S : Sum(f, V) \notin Nat}
<1> SUFFICES ASSUME B # {} PROVE FALSE
  OBVIOUS
<1>1. PICK V \in B : \A W \in B : W \subseteq V => W = V
  <2>1. B \in SUBSET SUBSET S
    OBVIOUS
  <2> HIDE DEF B
  <2> QED
    BY <2>1, SmallestSubset
<1>2. IsFiniteSet(V)
  BY FS_Subset
<1>3. V # {}
  BY SumEmpty
<1>4. Pick(V) \in V /\ Sum(f, V \ {Pick(V)}) \in Nat
  BY <1>1, <1>3, PickIsIn
<1> QED
  BY <1>2, <1>3, <1>4, SumUnfolds

\* Any element may be taken out of a sum.
LEMMA SumSplits ==
    ASSUME NEW f, NEW S, IsFiniteSet(S), \A x \in S : f[x] \in Nat, NEW x \in S
    PROVE  Sum(f, S) = f[x] + Sum(f, S \ {x})
<1> DEFINE B == {V \in SUBSET S : \E y \in V : Sum(f, V) # f[y] + Sum(f, V \ {y})}
<1> SUFFICES ASSUME B # {} PROVE FALSE
  OBVIOUS
<1>1. PICK V \in B : \A W \in B : W \subseteq V => W = V
  <2>1. B \in SUBSET SUBSET S
    OBVIOUS
  <2> HIDE DEF B
  <2> QED
    BY <2>1, SmallestSubset
<1>2. PICK y \in V : Sum(f, V) # f[y] + Sum(f, V \ {y})
  OBVIOUS
<1> DEFINE p == Pick(V)
           R == (V \ {p}) \ {y}
<1>3. IsFiniteSet(V) /\ p \in V
  BY <1>2, FS_Subset, PickIsIn
<1>4. Sum(f, V) = f[p] + Sum(f, V \ {p})
  BY <1>2, <1>3, SumUnfolds
<1>5. p # y
  BY <1>2, <1>4
<1>6. Sum(f, V \ {p}) = f[y] + Sum(f, R)
  <2>1. V \ {p} \in SUBSET V /\ V \ {p} # V /\ y \in V \ {p}
    BY <1>2, <1>3, <1>5
  <2>2. V \ {p} \notin B
    BY <1>1, <2>1
  <2> QED
    BY <2>1, <2>2
<1>7. Sum(f, V \ {y}) = f[p] + Sum(f, R)
  <2>1. (V \ {y}) \ {p} = R
    OBVIOUS
  <2>2. V \ {y} \in SUBSET V /\ V \ {y} # V /\ p \in V \ {y}
    BY <1>2, <1>3, <1>5
  <2>3. V \ {y} \notin B
    BY <1>1, <2>2
  <2> QED
    BY <2>1, <2>2, <2>3
<1>8. Sum(f, R) \in Nat /\ f[p] \in Nat /\ f[y] \in Nat
  <2>1. IsFiniteSet(R) /\ \A z \in R : f[z] \in Nat
    BY FS_Subset
  <2> QED
    BY <1>2, <1>3, <2>1, SumNat
<1> QED
  BY <1>2, <1>4, <1>6, <1>7, <1>8

\* Sums of disjoint sets add up.
LEMMA SumOfUnion ==
    ASSUME NEW f, NEW S, IsFiniteSet(S), NEW T, IsFiniteSet(T), S \cap T = {},
           \A x \in S \union T : f[x] \in Nat
    PROVE  Sum(f, S \union T) = Sum(f, S) + Sum(f, T)
<1> DEFINE B == {V \in SUBSET T : Sum(f, S \union V) # Sum(f, S) + Sum(f, V)}
<1> SUFFICES ASSUME B # {} PROVE FALSE
  OBVIOUS
<1>1. PICK V \in B : \A W \in B : W \subseteq V => W = V
  <2>1. B \in SUBSET SUBSET T
    OBVIOUS
  <2> HIDE DEF B
  <2> QED
    BY <2>1, SmallestSubset
<1>2. Sum(f, S) \in Nat
  BY SumNat
<1>3. V # {}
  <2>1. S \union {} = S
    OBVIOUS
  <2> QED
    BY <1>2, <2>1, SumEmpty
<1>4. PICK x : x \in V
  BY <1>3
<1> DEFINE W == V \ {x}
<1>5. Sum(f, S \union W) = Sum(f, S) + Sum(f, W)
  BY <1>1, <1>4
<1>6. IsFiniteSet(V) /\ IsFiniteSet(W) /\ IsFiniteSet(S \union V)
  BY FS_Subset, FS_Union
<1>7. Sum(f, V) = f[x] + Sum(f, W) /\ Sum(f, W) \in Nat /\ f[x] \in Nat
  BY <1>4, <1>6, SumSplits, SumNat
<1>8. Sum(f, S \union V) = f[x] + Sum(f, S \union W)
  <2>1. (S \union V) \ {x} = S \union W /\ x \in S \union V
    BY <1>4
  <2> QED
    BY <1>6, <2>1, SumSplits
<1> QED
  BY <1>2, <1>5, <1>7, <1>8

\* A part adds up to no more than the whole.
LEMMA SumOfPart ==
    ASSUME NEW f, NEW S, IsFiniteSet(S), NEW T \in SUBSET S, \A x \in S : f[x] \in Nat
    PROVE  Sum(f, T) <= Sum(f, S)
<1>1. IsFiniteSet(T) /\ IsFiniteSet(S \ T) /\ T \union (S \ T) = S
  BY FS_Subset
<1>2. Sum(f, S) = Sum(f, T) + Sum(f, S \ T)
  BY <1>1, SumOfUnion
<1> QED
  BY <1>1, <1>2, SumNat

\* Equal values have equal sums.
LEMMA SumOfEquals ==
    ASSUME NEW f, NEW g, NEW S, IsFiniteSet(S), \A x \in S : f[x] = g[x]
    PROVE  Sum(f, S) = Sum(g, S)
<1> DEFINE B == {V \in SUBSET S : Sum(f, V) # Sum(g, V)}
<1> SUFFICES ASSUME B # {} PROVE FALSE
  OBVIOUS
<1>1. PICK V \in B : \A W \in B : W \subseteq V => W = V
  <2>1. B \in SUBSET SUBSET S
    OBVIOUS
  <2> HIDE DEF B
  <2> QED
    BY <2>1, SmallestSubset
<1>2. IsFiniteSet(V) /\ V # {}
  BY FS_Subset, SumEmpty
<1>3. Pick(V) \in V /\ Sum(f, V \ {Pick(V)}) = Sum(g, V \ {Pick(V)})
  BY <1>1, <1>2, PickIsIn
<1> QED
  BY <1>2, <1>3, SumUnfolds

\* Zeros add up to zero.
LEMMA SumOfZeros ==
    ASSUME NEW f, NEW S, IsFiniteSet(S), \A x \in S : f[x] = 0
    PROVE  Sum(f, S) = 0
<1> DEFINE B == {V \in SUBSET S : Sum(f, V) # 0}
<1> SUFFICES ASSUME B # {} PROVE FALSE
  OBVIOUS
<1>1. PICK V \in B : \A W \in B : W \subseteq V => W = V
  <2>1. B \in SUBSET SUBSET S
    OBVIOUS
  <2> HIDE DEF B
  <2> QED
    BY <2>1, SmallestSubset
<1>2. IsFiniteSet(V) /\ V # {}
  BY FS_Subset, SumEmpty
<1>3. Pick(V) \in V /\ Sum(f, V \ {Pick(V)}) = 0
  BY <1>1, <1>2, PickIsIn
<1> QED
  BY <1>2, <1>3, SumUnfolds

\* The sums of two functions that differ at x only differ as they do.
LEMMA SumOfUpdate ==
    ASSUME NEW f, NEW g, NEW S, IsFiniteSet(S), NEW x \in S,
           \A y \in S : f[y] \in Nat /\ g[y] \in Nat,
           \A y \in S \ {x} : f[y] = g[y]
    PROVE  Sum(f, S) + g[x] = Sum(g, S) + f[x]
<1>1. IsFiniteSet(S \ {x})
  BY FS_Subset
<1>2. Sum(f, S \ {x}) = Sum(g, S \ {x}) /\ Sum(f, S \ {x}) \in Nat
  BY <1>1, SumOfEquals, SumNat
<1> QED
  BY <1>2, SumSplits
=============================================================================
