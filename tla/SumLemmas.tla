------------------------------ MODULE SumLemmas ------------------------------
(* What SumFunctionOnSet computes, for finite sets of indices: the sums of the *)
(* admission ledger are proved from these facts.  The induction theorems of   *)
(* the library take an operator; here the induction is over a set of sets.    *)
EXTENDS Functions, FiniteSetTheorems, WellFoundedInduction, TLAPS

\* A set of sets that holds a finite set whenever it holds all its proper subsets
\* holds every subset of a finite set.
LEMMA SubsetInduction ==
  ASSUME NEW S, IsFiniteSet(S), NEW T,
         \A s \in SUBSET S : (\A t \in SUBSET s : t # s => t \in T) => s \in T
  PROVE  \A s \in SUBSET S : s \in T
  <1> SUFFICES ASSUME {s \in SUBSET S : s \notin T} # {}
               PROVE  FALSE
    OBVIOUS
  <1> DEFINE B == {s \in SUBSET S : s \notin T}
             R == StrictSubsetOrdering(S)
  <1>1. IsWellFoundedOn(R, SUBSET S)
    <2>1. IsWellFoundedOn(StrictSubsetOrdering(S), FiniteSubsetsOf(S))
      BY FS_StrictSubsetOrderingWellFounded
    <2>2. FiniteSubsetsOf(S) = SUBSET S
      BY FS_FiniteSubsetsOfFinite
    <2>3. QED
      BY <2>1, <2>2
  <1>2. PICK m \in B : \A y \in B : ~(<<y, m>> \in R)
    <2>1. B \subseteq SUBSET S /\ B # {}
      OBVIOUS
    <2> HIDE DEF B, R
    <2>2. QED
      BY <1>1, <2>1, WFMin
  <1>3. \A t \in SUBSET m : t # m => t \in T
    BY <1>2 DEF StrictSubsetOrdering
  <1>4. QED
    BY <1>2, <1>3

-----------------------------------------------------------------------------
(* The recursion behind the sum *)

Pick(s) == CHOOSE x \in s : TRUE
\* h gives the sum of f over every subset of S.
Sums(h, f, S) == h = [s \in SUBSET S |-> IF s = {} THEN 0 ELSE f[Pick(s)] + h[s \ {Pick(s)}]]

\* A nonempty set holds its pick.
LEMMA PickIn == \A s : s # {} => Pick(s) \in s
  BY DEF Pick

LEMMA SumIs ==
  ASSUME NEW f, NEW S
  PROVE  SumFunctionOnSet(f, S) = (CHOOSE h : Sums(h, f, S))[S]
  BY DEF SumFunctionOnSet, FoldFunctionOnSet, MapThenFoldSet, Sums, Pick

\* What such a function is for one subset.
LEMMA SumsAt ==
  ASSUME NEW f, NEW S, NEW h, Sums(h, f, S), NEW s \in SUBSET S
  PROVE  /\ s = {} => h[s] = 0
         /\ s # {} => h[s] = f[Pick(s)] + h[s \ {Pick(s)}]
  <1>1. h = [t \in SUBSET S |-> IF t = {} THEN 0 ELSE f[Pick(t)] + h[t \ {Pick(t)}]]
    BY DEF Sums
  <1>2. h[s] = IF s = {} THEN 0 ELSE f[Pick(s)] + h[s \ {Pick(s)}]
    BY <1>1
  <1>3. QED
    BY <1>2

\* Two such functions agree on the subsets they share.
LEMMA SumsAgree ==
  ASSUME NEW f, NEW S, NEW R, IsFiniteSet(S), NEW g, NEW h, Sums(g, f, S), Sums(h, f, R)
  PROVE  \A s \in SUBSET S : s \subseteq R => g[s] = h[s]
  <1> DEFINE T == {s \in SUBSET S : s \subseteq R => g[s] = h[s]}
  <1>1. ASSUME NEW s \in SUBSET S, \A t \in SUBSET s : t # s => t \in T
        PROVE  s \in T
    <2> SUFFICES ASSUME s \subseteq R PROVE g[s] = h[s]
      OBVIOUS
    <2>1. CASE s = {}
      BY <2>1, SumsAt
    <2>2. CASE s # {}
      <3>1. Pick(s) \in s
        BY <2>2, PickIn
      <3>2. s \ {Pick(s)} \in T /\ s \ {Pick(s)} \subseteq R
        BY <1>1, <3>1
      <3>3. g[s \ {Pick(s)}] = h[s \ {Pick(s)}]
        BY <3>2
      <3>4. QED
        BY <2>2, <3>3, SumsAt
    <2>3. QED
      BY <2>1, <2>2
  <1> HIDE DEF T
  <1>2. \A s \in SUBSET S : s \in T
    BY <1>1, SubsetInduction
  <1>3. QED
    BY <1>2 DEF T

\* For a finite set there is such a function.
LEMMA SumsExist ==
  ASSUME NEW f, NEW S, IsFiniteSet(S)
  PROVE  \E h : Sums(h, f, S)
  <1> DEFINE T == {s \in SUBSET S : \E h : Sums(h, f, s)}
             sum(s) == SumFunctionOnSet(f, s)
  <1>1. \A s \in T : \E g : Sums(g, f, s) /\ sum(s) = g[s]
    <2> SUFFICES ASSUME NEW s \in T PROVE \E g : Sums(g, f, s) /\ sum(s) = g[s]
      OBVIOUS
    <2>1. PICK g : g = CHOOSE h : Sums(h, f, s)
      OBVIOUS
    <2>2. Sums(g, f, s)
      BY <2>1
    <2>3. QED
      BY <2>1, <2>2, SumIs
  <1>2. ASSUME NEW s \in SUBSET S, \A t \in SUBSET s : t # s => t \in T
        PROVE  s \in T
    <2> DEFINE h == [t \in SUBSET s |-> IF t = {} THEN 0 ELSE f[Pick(t)] + sum(t \ {Pick(t)})]
    <2>1. ASSUME NEW t \in SUBSET s, t # {}
          PROVE  h[t \ {Pick(t)}] = sum(t \ {Pick(t)})
      <3> DEFINE u == t \ {Pick(t)}
                 v == u \ {Pick(u)}
      <3>1. u \in SUBSET s /\ u \in T /\ IsFiniteSet(u)
        <4>1. u \in SUBSET s /\ u # s
          BY <2>1, PickIn
        <4>2. QED
          BY <1>2, <4>1, FS_Subset
      <3>2. PICK g : Sums(g, f, u) /\ sum(u) = g[u]
        BY <1>1, <3>1
      <3>3. CASE u = {}
        BY <3>1, <3>2, <3>3, SumsAt
      <3>4. CASE u # {}
        <4>1. v \in SUBSET s /\ v \in T /\ v \subseteq u /\ IsFiniteSet(v)
          <5>1. v \in SUBSET s /\ v # s /\ v \subseteq u
            BY <3>1, <3>4, PickIn
          <5>2. QED
            BY <1>2, <3>1, <5>1, FS_Subset
        <4>2. PICK k : Sums(k, f, v) /\ sum(v) = k[v]
          BY <1>1, <4>1
        <4>3. k[v] = g[v]
          <5> HIDE DEF u, v
          <5>1. \A x \in SUBSET v : x \subseteq u => k[x] = g[x]
            BY <3>2, <4>1, <4>2, SumsAgree
          <5>2. QED
            BY <4>1, <5>1
        <4>4. g[u] = f[Pick(u)] + g[v]
          <5>1. u \in SUBSET u
            OBVIOUS
          <5> HIDE DEF u
          <5>2. g[u] = f[Pick(u)] + g[u \ {Pick(u)}]
            BY <3>2, <3>4, <5>1, SumsAt
          <5>3. QED
            BY <5>2
        <4>5. h[u] = f[Pick(u)] + sum(v)
          BY <3>1, <3>4
        <4>6. QED
          BY <3>2, <4>2, <4>3, <4>4, <4>5
      <3>5. QED
        BY <3>3, <3>4
    <2>2. \A t \in SUBSET s : h[t] = IF t = {} THEN 0 ELSE f[Pick(t)] + h[t \ {Pick(t)}]
      BY <2>1
    <2>3. h = [t \in SUBSET s |-> h[t]]
      OBVIOUS
    <2> HIDE DEF h
    <2>4. Sums(h, f, s)
      BY <2>2, <2>3 DEF Sums
    <2>5. QED
      BY <2>4
  <1> HIDE DEF T
  <1>3. \A s \in SUBSET S : s \in T
    BY <1>2, SubsetInduction
  <1>4. QED
    BY <1>3 DEF T

-----------------------------------------------------------------------------
(* What the rest uses *)

\* The sum takes one element, and goes on with the others.
LEMMA SumUnfolds ==
  ASSUME NEW f, NEW S, IsFiniteSet(S)
  PROVE  /\ S = {} => SumFunctionOnSet(f, S) = 0
         /\ S # {} => SumFunctionOnSet(f, S) = f[Pick(S)] + SumFunctionOnSet(f, S \ {Pick(S)})
  <1> DEFINE R == S \ {Pick(S)}
  <1>1. ASSUME NEW s, IsFiniteSet(s)
        PROVE  \E g : Sums(g, f, s) /\ SumFunctionOnSet(f, s) = g[s]
    <2>1. PICK g : g = CHOOSE h : Sums(h, f, s)
      OBVIOUS
    <2>2. Sums(g, f, s)
      BY <1>1, <2>1, SumsExist
    <2>3. QED
      BY <2>1, <2>2, SumIs
  <1>2. IsFiniteSet(R)
    BY FS_RemoveElement
  <1>3. PICK g : Sums(g, f, S) /\ SumFunctionOnSet(f, S) = g[S]
    BY <1>1
  <1>4. PICK h : Sums(h, f, R) /\ SumFunctionOnSet(f, R) = h[R]
    BY <1>1, <1>2
  <1>5. h[R] = g[R]
    <2>1. R \in SUBSET R /\ R \subseteq S
      OBVIOUS
    <2> HIDE DEF R
    <2>2. \A x \in SUBSET R : x \subseteq S => h[x] = g[x]
      BY <1>2, <1>3, <1>4, SumsAgree
    <2>3. QED
      BY <2>1, <2>2
  <1>6. QED
    BY <1>3, <1>4, <1>5, SumsAt

\* The sum of natural numbers is a natural number.
LEMMA SumType ==
  ASSUME NEW f, NEW S, IsFiniteSet(S), \A x \in S : f[x] \in Nat
  PROVE  SumFunctionOnSet(f, S) \in Nat
  <1> DEFINE T == {s \in SUBSET S : SumFunctionOnSet(f, s) \in Nat}
  <1>1. ASSUME NEW s \in SUBSET S, \A t \in SUBSET s : t # s => t \in T
        PROVE  s \in T
    <2>1. IsFiniteSet(s)
      BY FS_Subset
    <2>2. CASE s = {}
      <3>1. SumFunctionOnSet(f, s) = 0
        BY <2>1, <2>2, SumUnfolds
      <3>2. QED
        BY <3>1
    <2>3. CASE s # {}
      <3>1. Pick(s) \in s /\ f[Pick(s)] \in Nat
        BY <2>3, PickIn
      <3>2. s \ {Pick(s)} \in T
        BY <1>1, <3>1
      <3>3. SumFunctionOnSet(f, s) = f[Pick(s)] + SumFunctionOnSet(f, s \ {Pick(s)})
        BY <2>1, <2>3, SumUnfolds
      <3>4. QED
        BY <3>1, <3>2, <3>3
    <2>4. QED
      BY <2>2, <2>3
  <1> HIDE DEF T
  <1>2. \A s \in SUBSET S : s \in T
    BY <1>1, SubsetInduction
  <1>3. QED
    BY <1>2 DEF T

\* Any element may be taken first.
LEMMA SumRemove ==
  ASSUME NEW f, NEW S, IsFiniteSet(S), \A x \in S : f[x] \in Nat, NEW x \in S
  PROVE  SumFunctionOnSet(f, S) = f[x] + SumFunctionOnSet(f, S \ {x})
  <1> DEFINE sum(s) == SumFunctionOnSet(f, s)
             T == {s \in SUBSET S : \A y \in s : sum(s) = f[y] + sum(s \ {y})}
  <1>1. ASSUME NEW s \in SUBSET S, \A t \in SUBSET s : t # s => t \in T
        PROVE  s \in T
    <2> SUFFICES ASSUME NEW y \in s
                 PROVE  sum(s) = f[y] + sum(s \ {y})
      OBVIOUS
    <2> DEFINE p == Pick(s)
    <2>1. IsFiniteSet(s) /\ p \in s
      BY FS_Subset, PickIn
    <2>2. sum(s) = f[p] + sum(s \ {p})
      BY <2>1, SumUnfolds
    <2>3. CASE y = p
      BY <2>2, <2>3
    <2>4. CASE y # p
      <3> DEFINE q == (s \ {p}) \ {y}
      <3>1. s \ {p} \in T /\ y \in s \ {p} /\ s \ {y} \in T /\ p \in s \ {y}
        BY <1>1, <2>1, <2>4
      <3>2. (s \ {y}) \ {p} = q
        OBVIOUS
      <3>3. sum(s \ {p}) = f[y] + sum(q)
        BY <3>1
      <3>4. sum(s \ {y}) = f[p] + sum(q)
        BY <3>1, <3>2
      <3>5. f[p] \in Nat /\ f[y] \in Nat /\ sum(q) \in Nat
        <4>1. IsFiniteSet(q) /\ q \subseteq S
          BY <2>1, FS_Subset
        <4>2. QED
          BY <2>1, <4>1, SumType
      <3> HIDE DEF q, sum
      <3>6. QED
        BY <2>2, <3>3, <3>4, <3>5
    <2>5. QED
      BY <2>3, <2>4
  <1> HIDE DEF T
  <1>2. \A s \in SUBSET S : s \in T
    BY <1>1, SubsetInduction
  <1>3. QED
    BY <1>2 DEF T

\* An element that is new to the set adds its value.
LEMMA SumAdd ==
  ASSUME NEW f, NEW S, IsFiniteSet(S), NEW x, x \notin S, \A y \in S \union {x} : f[y] \in Nat
  PROVE  SumFunctionOnSet(f, S \union {x}) = f[x] + SumFunctionOnSet(f, S)
  <1>1. IsFiniteSet(S \union {x}) /\ (S \union {x}) \ {x} = S
    BY FS_AddElement
  <1>2. SumFunctionOnSet(f, S \union {x}) = f[x] + SumFunctionOnSet(f, (S \union {x}) \ {x})
    BY <1>1, SumRemove
  <1>3. QED
    BY <1>1, <1>2

\* The sum depends on the values within the set only.
LEMMA SumSame ==
  ASSUME NEW f, NEW g, NEW S, IsFiniteSet(S), \A x \in S : f[x] = g[x]
  PROVE  SumFunctionOnSet(f, S) = SumFunctionOnSet(g, S)
  <1> DEFINE T == {s \in SUBSET S : SumFunctionOnSet(f, s) = SumFunctionOnSet(g, s)}
  <1>1. ASSUME NEW s \in SUBSET S, \A t \in SUBSET s : t # s => t \in T
        PROVE  s \in T
    <2>1. IsFiniteSet(s)
      BY FS_Subset
    <2>2. CASE s = {}
      BY <2>1, <2>2, SumUnfolds
    <2>3. CASE s # {}
      <3>1. Pick(s) \in s /\ s \ {Pick(s)} \in T
        BY <1>1, <2>3, PickIn
      <3>2. f[Pick(s)] = g[Pick(s)]
        BY <3>1
      <3>3. QED
        BY <2>1, <2>3, <3>1, <3>2, SumUnfolds
    <2>4. QED
      BY <2>2, <2>3
  <1> HIDE DEF T
  <1>2. \A s \in SUBSET S : s \in T
    BY <1>1, SubsetInduction
  <1>3. QED
    BY <1>2 DEF T

\* Larger values have a larger sum.
LEMMA SumMonotone ==
  ASSUME NEW f, NEW g, NEW S, IsFiniteSet(S),
         \A x \in S : f[x] \in Nat /\ g[x] \in Nat /\ f[x] <= g[x]
  PROVE  SumFunctionOnSet(f, S) <= SumFunctionOnSet(g, S)
  <1> DEFINE T == {s \in SUBSET S : SumFunctionOnSet(f, s) <= SumFunctionOnSet(g, s)}
  <1>1. ASSUME NEW s \in SUBSET S, \A t \in SUBSET s : t # s => t \in T
        PROVE  s \in T
    <2>1. IsFiniteSet(s)
      BY FS_Subset
    <2>2. CASE s = {}
      <3>1. SumFunctionOnSet(f, s) = 0 /\ SumFunctionOnSet(g, s) = 0
        BY <2>1, <2>2, SumUnfolds
      <3>2. QED
        BY <3>1
    <2>3. CASE s # {}
      <3> DEFINE p == Pick(s)
                 r == s \ {p}
      <3>1. p \in s /\ p \in S /\ r \in T
        BY <1>1, <2>3, PickIn
      <3>2. IsFiniteSet(r) /\ r \subseteq S
        BY <2>1, FS_Subset
      <3>3. SumFunctionOnSet(f, r) \in Nat /\ SumFunctionOnSet(g, r) \in Nat
        BY <3>2, SumType
      <3>4. f[p] \in Nat /\ g[p] \in Nat /\ f[p] <= g[p]
        BY <3>1
      <3>5. /\ SumFunctionOnSet(f, s) = f[p] + SumFunctionOnSet(f, r)
            /\ SumFunctionOnSet(g, s) = g[p] + SumFunctionOnSet(g, r)
        BY <2>1, <2>3, SumUnfolds
      <3>6. SumFunctionOnSet(f, r) <= SumFunctionOnSet(g, r)
        BY <3>1
      <3> HIDE DEF p, r
      <3>7. SumFunctionOnSet(f, s) <= SumFunctionOnSet(g, s)
        BY <3>3, <3>4, <3>5, <3>6
      <3>8. QED
        BY <3>7
    <2>4. QED
      BY <2>2, <2>3
  <1> HIDE DEF T
  <1>2. \A s \in SUBSET S : s \in T
    BY <1>1, SubsetInduction
  <1>3. QED
    BY <1>2 DEF T

\* Elements whose value is zero do not count.
LEMMA SumOfRest ==
  ASSUME NEW f, NEW S, IsFiniteSet(S), \A x \in S : f[x] \in Nat,
         NEW R \in SUBSET S, \A x \in S \ R : f[x] = 0
  PROVE  SumFunctionOnSet(f, S) = SumFunctionOnSet(f, R)
  <1> DEFINE T == {s \in SUBSET S : R \subseteq s => SumFunctionOnSet(f, s) = SumFunctionOnSet(f, R)}
  <1>1. ASSUME NEW s \in SUBSET S, \A t \in SUBSET s : t # s => t \in T
        PROVE  s \in T
    <2> SUFFICES ASSUME R \subseteq s, s # R
                 PROVE  SumFunctionOnSet(f, s) = SumFunctionOnSet(f, R)
      OBVIOUS
    <2>1. PICK x \in s : x \notin R
      OBVIOUS
    <2>2. s \ {x} \in T /\ R \subseteq s \ {x} /\ f[x] = 0
      BY <1>1, <2>1
    <2>3. IsFiniteSet(s)
      BY FS_Subset
    <2>4. SumFunctionOnSet(f, s) = f[x] + SumFunctionOnSet(f, s \ {x})
      BY <2>3, SumRemove
    <2>5. SumFunctionOnSet(f, R) \in Nat
      <3>1. IsFiniteSet(R)
        BY FS_Subset
      <3>2. QED
        BY <3>1, SumType
    <2>6. QED
      BY <2>2, <2>4, <2>5
  <1> HIDE DEF T
  <1>2. \A s \in SUBSET S : s \in T
    BY <1>1, SubsetInduction
  <1>3. QED
    BY <1>2 DEF T
=============================================================================
