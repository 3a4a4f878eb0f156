---------------------------- MODULE FoldTheorems ----------------------------
(***************************************************************************)
(* Facts about sums over finite sets and folds over sequences,             *)
(* SumFunctionOnSet and FoldLeft of the community modules, for the proofs  *)
(* about counters and accounts. Both are defined by a recursion over       *)
(* subsets; induction is made on sets of numbers and sets of subsets,      *)
(* since the provers take no operator for a parameter.                     *)
(***************************************************************************)
EXTENDS Integers, Sequences, Functions, FiniteSets, FiniteSetsExt, FiniteSetTheorems,
        WellFoundedInduction, TLAPS

\* Induction: a set of numbers with 0 and with the successor of each member is Nat.
LEMMA NatSets ==
  ASSUME NEW T \in SUBSET Nat, 0 \in T, \A n \in T : n + 1 \in T
  PROVE  T = Nat
<1> DEFINE R == OpToRel(<, Nat)
<1> SUFFICES ASSUME Nat \ T # {} PROVE FALSE
  OBVIOUS
<1>1. PICK n \in Nat \ T : \A m \in Nat \ T : ~(<<m, n>> \in R)
  <2> HIDE DEF R
  <2>0. IsWellFoundedOn(R, Nat)
     BY NatLessThanWellFounded DEF R
  <2> QED BY <2>0, WFMin
<1>2. \A m \in Nat \ T : ~(m < n)
  BY <1>1 DEF OpToRel
<1>3. n - 1 \in Nat
  OBVIOUS
<1>4. n - 1 \in T
  BY <1>2, <1>3
<1> QED
  BY <1>4

\* The size of a subset, and of one with a member less.
LEMMA SubsetSize ==
  ASSUME NEW S, IsFiniteSet(S), NEW s \in SUBSET S
  PROVE  /\ IsFiniteSet(s) /\ Cardinality(s) \in Nat /\ Cardinality(s) <= Cardinality(S)
         /\ Cardinality(s) = 0 <=> s = {}
         /\ \A x \in s : Cardinality(s \ {x}) = Cardinality(s) - 1
<1>1. IsFiniteSet(s) /\ Cardinality(s) \in Nat /\ Cardinality(s) <= Cardinality(S)
  BY FS_Subset, FS_CardinalityType
<1> QED
  BY <1>1, FS_EmptySet, FS_RemoveElement

\* Induction on subsets: a set of subsets of S is all of them when it has each
\* subset whose parts with a member less it has.
LEMMA Subsets ==
  ASSUME NEW S, IsFiniteSet(S), NEW T \in SUBSET SUBSET S,
         \A s \in SUBSET S : (\A x \in s : s \ {x} \in T) => s \in T
  PROVE  T = SUBSET S
<1> DEFINE N == {n \in Nat : \A s \in SUBSET S : Cardinality(s) = n => s \in T}
<1>1. 0 \in N
  BY SubsetSize
<1>2. ASSUME NEW n \in N PROVE n + 1 \in N
  <2> SUFFICES ASSUME NEW s \in SUBSET S, Cardinality(s) = n + 1 PROVE s \in T
    OBVIOUS
  <2>1. \A x \in s : Cardinality(s \ {x}) = n
    BY SubsetSize
  <2> QED
    BY <2>1
<1>3. N = Nat
  <2> HIDE DEF N
  <2>1. N \in SUBSET Nat
    BY DEF N
  <2> QED
    BY <1>1, <1>2, <2>1, NatSets
<1> QED
  BY <1>3, SubsetSize

\* pick chooses a member of each subset of S that has one.
Picks(pick, S) == \A s \in SUBSET S : s # {} => pick[s] \in s

\* g is what op makes of base, member by member in the order of pick.
Iterates(g, S, base, pick, op) ==
  \A s \in SUBSET S : g[s] = IF s = {} THEN base ELSE op[pick[s]][g[s \ {pick[s]}]]

\* Such a g exists, whatever op.
LEMMA IterationExists ==
  ASSUME NEW S, NEW V, NEW base, NEW pick, NEW op,
         IsFiniteSet(S), base \in V, op \in [S -> [V -> V]],
         Picks(pick, S)
  PROVE  \E g \in [SUBSET S -> V] : Iterates(g, S, base, pick, op)
<1> DEFINE Small(n) == {s \in SUBSET S : Cardinality(s) <= n}
           Value(g, s) == IF s = {} THEN base ELSE op[pick[s]][g[s \ {pick[s]}]]
           Good(n) == \E g \in [Small(n) -> V] : \A s \in Small(n) : g[s] = Value(g, s)
           T == {n \in Nat : Good(n)}
<1> USE DEF Picks
<1>0. \A n \in Nat, s \in SUBSET S : s \in Small(n) <=> Cardinality(s) <= n
  OBVIOUS
<1>9. \A n \in Nat : Small(n) \in SUBSET SUBSET S
  OBVIOUS
<1>1. 0 \in T
  <2> DEFINE g == [s \in Small(0) |-> base]
  <2>1. \A s \in Small(0) : s = {}
    BY SubsetSize
  <2>2. g \in [Small(0) -> V] /\ \A s \in Small(0) : g[s] = Value(g, s)
    BY <2>1
  <2> HIDE DEF g, Small, Value
  <2>3. Good(0)
    BY <2>2
  <2> HIDE DEF Good
  <2> QED
    BY <2>3
<1>2. ASSUME NEW n \in Nat, Good(n) PROVE Good(n + 1)
  <2>0. n \in Nat /\ n + 1 \in Nat
    OBVIOUS
  <2>1. PICK g \in [Small(n) -> V] : \A s \in Small(n) : g[s] = Value(g, s)
    <3> HIDE DEF Small, Value
    <3> QED
      BY <1>2
  <2> DEFINE h == [s \in Small(n + 1) |-> Value(g, s)]
  <2> HIDE DEF Small
  <2>2. ASSUME NEW s \in Small(n + 1), s # {}
        PROVE  s \ {pick[s]} \in Small(n) /\ pick[s] \in S
    <3>1. s \in SUBSET S /\ Cardinality(s) <= n + 1
      BY <1>0, <1>9, <2>0
    <3>2. pick[s] \in s
      BY <2>2, <3>1
    <3>3. Cardinality(s \ {pick[s]}) = Cardinality(s) - 1 /\ Cardinality(s) \in Nat
      BY <3>1, <3>2, SubsetSize
    <3> DEFINE m == Cardinality(s)
               r == Cardinality(s \ {pick[s]})
    <3>4. r <= n
      <4>1. m \in Nat /\ m <= n + 1 /\ r = m - 1
        BY <3>1, <3>3
      <4> HIDE DEF m, r
      <4> QED
        BY <2>0, <4>1
    <3> QED
      BY <1>0, <2>0, <3>1, <3>2, <3>4
  <2>3. \A s \in Small(n) : s \in Small(n + 1) /\ h[s] = g[s]
    <3>1. ASSUME NEW s \in Small(n) PROVE s \in Small(n + 1)
      <4>1. s \in SUBSET S /\ Cardinality(s) <= n
        BY <1>0, <1>9, <2>0
      <4> DEFINE m == Cardinality(s)
      <4>2. m <= n + 1
        <5>1. m \in Nat /\ m <= n
          BY <4>1, SubsetSize
        <5> HIDE DEF m
        <5> QED
          BY <2>0, <5>1
      <4> QED
        BY <1>0, <2>0, <4>1, <4>2
    <3> QED
      BY <2>1, <3>1
  <2>4. ASSUME NEW s \in Small(n + 1) PROVE h[s] \in V
    <3>1. CASE s = {}
      BY <3>1
    <3>2. CASE s # {}
      <4>1. g[s \ {pick[s]}] \in V /\ pick[s] \in S
        BY <2>2, <3>2
      <4>2. op[pick[s]][g[s \ {pick[s]}]] \in V
        BY <4>1
      <4> QED
        BY <4>2, <3>2
    <3> QED
      BY <3>1, <3>2
  <2>5. ASSUME NEW s \in Small(n + 1) PROVE h[s] = Value(h, s)
    <3>1. CASE s = {}
      BY <3>1
    <3>2. CASE s # {}
      <4>1. h[s \ {pick[s]}] = g[s \ {pick[s]}]
        BY <2>2, <2>3, <3>2
      <4>2. h[s] = Value(g, s)
        OBVIOUS
      <4> HIDE DEF h
      <4> QED
        BY <4>1, <4>2
    <3> QED
      BY <3>1, <3>2
  <2>6. h \in [Small(n + 1) -> V]
    BY <2>4
  <2> HIDE DEF h, Small, Value
  <2> QED
    BY <2>5, <2>6
<1>3. PICK g \in [SUBSET S -> V] : \A s \in SUBSET S : g[s] = Value(g, s)
  <2>1. Cardinality(S) \in T
    <3> HIDE DEF T
    <3>1. T \in SUBSET Nat
      <4> HIDE DEF Good
      <4> QED
        BY DEF T
    <3>2. \A n \in T : n + 1 \in T
      <4> HIDE DEF Good
      <4> QED
        BY <1>2 DEF T
    <3>3. T = Nat
      BY <1>1, <3>1, <3>2, NatSets
    <3> QED
      BY <3>3, FS_CardinalityType
  <2>2. Small(Cardinality(S)) = SUBSET S
    BY SubsetSize
  <2> HIDE DEF Small, Value
  <2> QED
    BY <2>1, <2>2
<1> QED
  BY <1>3 DEF Iterates

-----------------------------------------------------------------------------
\* The member that a fold of the community modules takes first.
Picked(s) == CHOOSE x \in s : TRUE

\* It is a member.
LEMMA PickedIn == ASSUME NEW s, s # {} PROVE Picked(s) \in s
BY DEF Picked

\* The recursive function by which the sum of f over S is defined.
SumIteration(f, S, g) ==
  g = [s \in SUBSET S |-> IF s = {} THEN 0 ELSE f[Picked(s)] + g[s \ {Picked(s)}]]

\* The sum is the value at S of that function.
LEMMA SumIsIteration ==
  ASSUME NEW S, NEW f
  PROVE  SumFunctionOnSet(f, S) = (CHOOSE g : SumIteration(f, S, g))[S]
BY DEF SumFunctionOnSet, FoldFunctionOnSet, MapThenFoldSet, SumIteration, Picked

\* The function exists.
LEMMA SumIterationExists ==
  ASSUME NEW S, IsFiniteSet(S), NEW f, \A x \in S : f[x] \in Int
  PROVE  \E g \in [SUBSET S -> Int] : SumIteration(f, S, g)
<1> DEFINE pick == [s \in SUBSET S |-> Picked(s)]
           op   == [x \in S |-> [v \in Int |-> f[x] + v]]
<1>1. \A s \in SUBSET S : pick[s] = Picked(s) /\ (s # {} => pick[s] \in s)
  BY PickedIn
<1>2. op \in [S -> [Int -> Int]] /\ \A x \in S, v \in Int : op[x][v] = f[x] + v
  OBVIOUS
<1> HIDE DEF pick, op
<1>5. Picks(pick, S)
  BY <1>1 DEF Picks
<1>3. PICK g \in [SUBSET S -> Int] : Iterates(g, S, 0, pick, op)
  <2>1. 0 \in Int /\ op \in [S -> [Int -> Int]]
    BY <1>2
  <2> QED
    BY <1>5, <2>1, IterationExists
<1>4. ASSUME NEW s \in SUBSET S
      PROVE  g[s] = IF s = {} THEN 0 ELSE f[Picked(s)] + g[s \ {Picked(s)}]
  <2>1. g[s] = IF s = {} THEN 0 ELSE op[pick[s]][g[s \ {pick[s]}]]
    BY <1>3 DEF Iterates
  <2>2. CASE s # {}
    <3>1. pick[s] \in S /\ s \ {pick[s]} \in SUBSET S
      BY <1>1, <2>2
    <3>2. g[s \ {pick[s]}] \in Int
      BY <3>1
    <3> QED
      BY <1>1, <1>2, <2>1, <2>2, <3>1, <3>2
  <2> QED
    BY <2>1, <2>2
<1> QED
  BY <1>4 DEF SumIteration

\* Functions for two sets and for equal summands agree where both are defined.
LEMMA SumIterationsAgree ==
  ASSUME NEW S, IsFiniteSet(S), NEW U, S \subseteq U, NEW f, NEW h, NEW g1, NEW g2,
         \A x \in S : f[x] = h[x], SumIteration(f, S, g1), SumIteration(h, U, g2)
  PROVE  \A s \in SUBSET S : g1[s] = g2[s]
<1> DEFINE T == {s \in SUBSET S : g1[s] = g2[s]}
<1>1. ASSUME NEW s \in SUBSET S, \A x \in s : s \ {x} \in T
      PROVE  s \in T
  <2>1. /\ g1[s] = IF s = {} THEN 0 ELSE f[Picked(s)] + g1[s \ {Picked(s)}]
        /\ g2[s] = IF s = {} THEN 0 ELSE h[Picked(s)] + g2[s \ {Picked(s)}]
    BY DEF SumIteration
  <2>2. s # {} => Picked(s) \in s
    BY PickedIn
  <2> QED
    BY <1>1, <2>1, <2>2
<1>2. T = SUBSET S
  <2> HIDE DEF T
  <2>1. T \in SUBSET SUBSET S
    BY DEF T
  <2> QED
    BY <1>1, <2>1, Subsets
<1> QED
  BY <1>2

\* The recursion holds of the sum, which depends on the summands alone.
LEMMA SumStep ==
  ASSUME NEW S, IsFiniteSet(S), NEW f, \A x \in S : f[x] \in Int
  PROVE  /\ SumFunctionOnSet(f, S) \in Int
         /\ SumFunctionOnSet(f, {}) = 0
         /\ S # {} => SumFunctionOnSet(f, S) = f[Picked(S)] + SumFunctionOnSet(f, S \ {Picked(S)})
         /\ \A h : (\A x \in S : f[x] = h[x]) => SumFunctionOnSet(h, S) = SumFunctionOnSet(f, S)
<1> DEFINE Iter(u, V) == CHOOSE g : SumIteration(u, V, g)
<1>1. PICK g0 \in [SUBSET S -> Int] : SumIteration(f, S, g0)
  BY SumIterationExists
<1>2. ASSUME NEW h, \A x \in S : f[x] = h[x], NEW V \in SUBSET S
      PROVE  SumFunctionOnSet(h, V) = g0[V]
  <2>1. IsFiniteSet(V) /\ \A x \in V : h[x] \in Int
    BY <1>2, FS_Subset
  <2>2. \E g : SumIteration(h, V, g)
    BY <2>1, SumIterationExists
  <2>3. SumIteration(h, V, Iter(h, V))
    BY <2>2
  <2> HIDE DEF Iter
  <2>4. \A s \in SUBSET V : Iter(h, V)[s] = g0[s]
    <3>1. \A z \in V : h[z] = f[z]
      BY <1>2
    <3>2. PICK k : k = Iter(h, V) /\ SumIteration(h, V, k)
      BY <2>3
    <3>3. \A s \in SUBSET V : k[s] = g0[s]
      BY <1>1, <2>1, <3>1, <3>2, SumIterationsAgree
    <3> QED
      BY <3>2, <3>3
  <2>5. SumFunctionOnSet(h, V) = Iter(h, V)[V]
    BY SumIsIteration DEF Iter
  <2> QED
    BY <2>4, <2>5
<1>3. \A V \in SUBSET S : SumFunctionOnSet(f, V) = g0[V]
  BY <1>2
<1>4. \A s \in SUBSET S : g0[s] = IF s = {} THEN 0 ELSE f[Picked(s)] + g0[s \ {Picked(s)}]
  BY <1>1 DEF SumIteration
<1> QED
  BY <1>1, <1>2, <1>3, <1>4

\* Any member may be taken out of a sum.
LEMMA SumRemove ==
  ASSUME NEW S, IsFiniteSet(S), NEW f, \A x \in S : f[x] \in Int, NEW x \in S
  PROVE  SumFunctionOnSet(f, S) = f[x] + SumFunctionOnSet(f, S \ {x})
<1> DEFINE Sum(s) == SumFunctionOnSet(f, s)
           T == {s \in SUBSET S : \A y \in s : Sum(s) = f[y] + Sum(s \ {y})}
<1>0. \A s \in SUBSET S : /\ Sum(s) \in Int
                          /\ s # {} => Sum(s) = f[Picked(s)] + Sum(s \ {Picked(s)})
  BY FS_Subset, SumStep
<1> HIDE DEF Sum
<1>1. ASSUME NEW s \in SUBSET S, \A y \in s : s \ {y} \in T
      PROVE  s \in T
  <2> SUFFICES ASSUME NEW y \in s PROVE Sum(s) = f[y] + Sum(s \ {y})
    OBVIOUS
  <2> DEFINE p == Picked(s)
  <2>1. p \in s /\ Sum(s) = f[p] + Sum(s \ {p})
    BY <1>0, PickedIn
  <2> HIDE DEF p
  <2>2. CASE y # p
    <3>1. Sum(s \ {p}) = f[y] + Sum((s \ {p}) \ {y})
      BY <1>1, <2>1, <2>2
    <3>2. Sum(s \ {y}) = f[p] + Sum((s \ {y}) \ {p})
      BY <1>1, <2>1, <2>2
    <3>3. (s \ {p}) \ {y} = (s \ {y}) \ {p}
      OBVIOUS
    <3>4. f[p] \in Int /\ f[y] \in Int /\ Sum((s \ {p}) \ {y}) \in Int
      BY <1>0, <2>1
    <3> DEFINE r == Sum((s \ {p}) \ {y})
    <3>5. Sum(s) = f[p] + (f[y] + r) /\ Sum(s \ {y}) = f[p] + r
      BY <2>1, <3>1, <3>2, <3>3
    <3> HIDE DEF r
    <3> QED
      BY <3>4, <3>5 DEF r
  <2> QED
    BY <2>1, <2>2
<1>2. T = SUBSET S
  <2> HIDE DEF T
  <2>1. T \in SUBSET SUBSET S
    BY DEF T
  <2> QED
    BY <1>1, <2>1, Subsets
<1> QED
  BY <1>2 DEF Sum

\* f has integers on S.
Numbers(f, S) == \A x \in S : f[x] \in Int
\* f and h are the same on S.
Agree(f, h, S) == \A x \in S : f[x] = h[x]

\* A sum of integers is one.
LEMMA SumType ==
  ASSUME NEW S, NEW f, IsFiniteSet(S), Numbers(f, S)
  PROVE  SumFunctionOnSet(f, S) \in Int
BY SumStep DEF Numbers

\* The sum of nothing.
LEMMA SumEmpty ==
  ASSUME NEW f
  PROVE  SumFunctionOnSet(f, {}) = 0
BY SumStep, FS_EmptySet

\* Equal summands have equal sums.
LEMMA SumSame ==
  ASSUME NEW S, NEW f, NEW h, IsFiniteSet(S), Numbers(f, S), Agree(f, h, S)
  PROVE  SumFunctionOnSet(h, S) = SumFunctionOnSet(f, S)
BY SumStep DEF Numbers, Agree

\* A member and the others.
LEMMA SumSplit ==
  ASSUME NEW S, NEW f, NEW e \in S, IsFiniteSet(S), Numbers(f, S)
  PROVE  SumFunctionOnSet(f, S) = f[e] + SumFunctionOnSet(f, S \ {e})
BY SumRemove DEF Numbers

\* A new member adds its summand.
LEMMA SumAdd ==
  ASSUME NEW S, NEW f, NEW e, IsFiniteSet(S), Numbers(f, S), e \notin S, f[e] \in Int
  PROVE  SumFunctionOnSet(f, S \cup {e}) = f[e] + SumFunctionOnSet(f, S)
<1> DEFINE U == S \cup {e}
<1>1. IsFiniteSet(U) /\ e \in U /\ Numbers(f, U)
  BY FS_AddElement DEF Numbers
<1>2. U \ {e} = S
  OBVIOUS
<1> HIDE DEF U
<1>3. SumFunctionOnSet(f, U) = f[e] + SumFunctionOnSet(f, U \ {e})
  BY <1>1, SumSplit
<1> QED
  BY <1>2, <1>3 DEF U

\* When one summand changes the sum changes by as much.
LEMMA SumChange ==
  ASSUME NEW S, NEW f, NEW h, NEW e \in S, IsFiniteSet(S), Numbers(f, S), Numbers(h, S),
         Agree(f, h, S \ {e})
  PROVE  SumFunctionOnSet(h, S) = SumFunctionOnSet(f, S) + (h[e] - f[e])
<1> DEFINE rest == S \ {e}
<1>1. IsFiniteSet(rest) /\ Numbers(f, rest) /\ h[e] \in Int /\ f[e] \in Int
  BY FS_Subset DEF Numbers
<1>2. SumFunctionOnSet(h, S) = h[e] + SumFunctionOnSet(h, rest)
  BY SumSplit
<1>3. SumFunctionOnSet(f, S) = f[e] + SumFunctionOnSet(f, rest)
  BY SumSplit
<1>4. SumFunctionOnSet(h, rest) = SumFunctionOnSet(f, rest) /\ SumFunctionOnSet(f, rest) \in Int
  BY <1>1, SumSame, SumType
<1> HIDE DEF rest
<1> QED
  BY <1>1, <1>2, <1>3, <1>4

\* As a case of it, a counter that is counted up.
LEMMA SumStepsUp ==
  ASSUME NEW S, NEW f, NEW h, NEW e \in S, IsFiniteSet(S), Numbers(f, S), Numbers(h, S),
         Agree(f, h, S \ {e})
  PROVE  h[e] = f[e] + 1 => SumFunctionOnSet(h, S) = SumFunctionOnSet(f, S) + 1
<1>1. SumFunctionOnSet(h, S) = SumFunctionOnSet(f, S) + (h[e] - f[e])
  BY SumChange
<1>2. f[e] \in Int /\ h[e] \in Int
  BY DEF Numbers
<1> QED
  BY <1>1, <1>2

\* What holds of 0 and is kept by adding any summand holds of the sum.
LEMMA SumProperty ==
  ASSUME NEW S, NEW f, NEW V, IsFiniteSet(S), Numbers(f, S), 0 \in V,
         \A v \in V, x \in S : v \in Int => f[x] + v \in V
  PROVE  SumFunctionOnSet(f, S) \in V
<1> DEFINE T == {s \in SUBSET S : SumFunctionOnSet(f, s) \in V}
<1>1. ASSUME NEW s \in SUBSET S, \A x \in s : s \ {x} \in T
      PROVE  s \in T
  <2>1. IsFiniteSet(s) /\ Numbers(f, s)
    BY FS_Subset DEF Numbers
  <2>2. CASE s = {}
    BY <2>1, <2>2, SumEmpty
  <2>3. CASE s # {}
    <3>1. PICK x \in s : TRUE
      BY <2>3
    <3>2. SumFunctionOnSet(f, s) = f[x] + SumFunctionOnSet(f, s \ {x})
      BY <2>1, SumSplit
    <3>3. IsFiniteSet(s \ {x}) /\ Numbers(f, s \ {x})
      BY <2>1, FS_Subset DEF Numbers
    <3>4. SumFunctionOnSet(f, s \ {x}) \in Int
      BY <3>3, SumType
    <3>5. SumFunctionOnSet(f, s \ {x}) \in V
      BY <1>1
    <3> QED
      BY <3>2, <3>4, <3>5
  <2> QED
    BY <2>2, <2>3
<1>2. T = SUBSET S
  <2> HIDE DEF T
  <2>1. T \in SUBSET SUBSET S
    BY DEF T
  <2> QED
    BY <1>1, <2>1, Subsets
<1> QED
  BY <1>2

\* A sum of natural numbers is one.
LEMMA SumNat ==
  ASSUME NEW S, NEW f, IsFiniteSet(S), \A x \in S : f[x] \in Nat
  PROVE  SumFunctionOnSet(f, S) \in Nat
<1>1. Numbers(f, S) /\ \A v \in Nat, x \in S : v \in Int => f[x] + v \in Nat
  BY DEF Numbers
<1> QED
  BY <1>1, SumProperty

\* A sum of zeroes is zero.
LEMMA SumZero ==
  ASSUME NEW S, NEW f, IsFiniteSet(S), \A x \in S : f[x] = 0
  PROVE  SumFunctionOnSet(f, S) = 0
<1>1. Numbers(f, S) /\ \A v \in {0}, x \in S : v \in Int => f[x] + v \in {0}
  BY DEF Numbers
<1>2. SumFunctionOnSet(f, S) \in {0}
  BY <1>1, SumProperty
<1> QED
  BY <1>2

-----------------------------------------------------------------------------
\* Of any two members of S, R has one at least the other.
Connects(R, S) == \A x \in S : \A y \in S : <<x, y>> \in R \/ <<y, x>> \in R
\* What is at least a second is at least what the second is at least.
Chains(R, S) ==
  \A x \in S : \A y \in S : \A z \in S : <<x, y>> \in R /\ <<y, z>> \in R => <<x, z>> \in R

\* A finite set that has a member has a greatest.
LEMMA GreatestExists ==
  ASSUME NEW S, NEW R, IsFiniteSet(S), S # {}, Connects(R, S), Chains(R, S)
  PROVE  \E x \in S : \A y \in S : <<x, y>> \in R
<1> DEFINE Great(x, s) == \A y \in s : <<x, y>> \in R
           T == {s \in SUBSET S : s = {} \/ \E x \in s : Great(x, s)}
<1>1. ASSUME NEW s \in SUBSET S, \A x \in s : s \ {x} \in T
      PROVE  s \in T
  <2>1. CASE s = {}
    BY <2>1
  <2>2. CASE s # {}
    <3>1. PICK x \in s : TRUE
      BY <2>2
    <3>2. <<x, x>> \in R
      BY DEF Connects
    <3>3. CASE s \ {x} = {}
      BY <3>1, <3>2, <3>3
    <3>4. CASE s \ {x} # {}
      <4>1. PICK z \in s \ {x} : Great(z, s \ {x})
        BY <1>1, <3>4
      <4>2. CASE <<z, x>> \in R
        BY <4>1, <4>2
      <4>3. CASE <<x, z>> \in R
        <5>1. ASSUME NEW y \in s PROVE <<x, y>> \in R
          <6>1. y = x \/ <<z, y>> \in R
            BY <4>1
          <6> QED
            BY <3>2, <4>3, <6>1 DEF Chains
        <5> QED
          BY <5>1
      <4> QED
        BY <4>2, <4>3 DEF Connects
    <3> QED
      BY <3>3, <3>4
  <2> QED
    BY <2>1, <2>2
<1>2. T = SUBSET S
  <2> HIDE DEF T
  <2>1. T \in SUBSET SUBSET S
    BY DEF T
  <2> QED
    BY <1>1, <2>1, Subsets
<1> QED
  BY <1>2

\* A finite set of integers that has a member has a largest.
LEMMA LargestExists ==
  ASSUME NEW S \in SUBSET Int, IsFiniteSet(S), S # {}
  PROVE  \E x \in S : \A y \in S : y <= x
<1> DEFINE R == {r \in S \X S : r[2] <= r[1]}
<1>1. Connects(R, S)
  BY DEF Connects
<1>2. Chains(R, S)
  BY DEF Chains
<1>3. PICK x \in S : \A y \in S : <<x, y>> \in R
  <2> HIDE DEF R
  <2> QED
    BY <1>1, <1>2, GreatestExists
<1> QED
  BY <1>3
-----------------------------------------------------------------------------
\* What lies in neither of two parts adds nothing: the sum is that of the parts.
LEMMA SumParts ==
  ASSUME NEW S, NEW f, IsFiniteSet(S), Numbers(f, S), NEW A \in SUBSET S, NEW B \in SUBSET S,
         A \cap B = {}, \A x \in S \ (A \cup B) : f[x] = 0
  PROVE  SumFunctionOnSet(f, S) = SumFunctionOnSet(f, A) + SumFunctionOnSet(f, B)
<1> DEFINE Sum(s) == SumFunctionOnSet(f, s)
           T == {s \in SUBSET S : Sum(s) = Sum(s \cap A) + Sum(s \cap B)}
<1>0. \A s \in SUBSET S : IsFiniteSet(s) /\ Numbers(f, s)
  BY FS_Subset DEF Numbers
<1>1. ASSUME NEW s \in SUBSET S, \A x \in s : s \ {x} \in T
      PROVE  s \in T
  <2>1. CASE s = {}
    <3>1. s \cap A = {} /\ s \cap B = {}
      BY <2>1
    <3>2. Sum({}) = 0
      BY SumEmpty
    <3> HIDE DEF Sum
    <3> QED
      BY <2>1, <3>1, <3>2
  <2>2. CASE s # {}
    <3>1. PICK x \in s : TRUE
      BY <2>2
    <3> DEFINE r == s \ {x}
               n == f[x]
               u == Sum(r \cap A)
               v == Sum(r \cap B)
    <3>2. n \in Int /\ r \in SUBSET S /\ x \in S
      BY DEF Numbers
    <3>3. Sum(s) = n + (u + v)
      <4>1. Sum(s) = n + Sum(r)
        BY <1>0, SumSplit
      <4>2. Sum(r) = u + v
        BY <1>1
      <4> QED
        BY <4>1, <4>2
    <3>4. u \in Int /\ v \in Int
      <4>1. r \cap A \in SUBSET S /\ r \cap B \in SUBSET S
        OBVIOUS
      <4>2. \A z \in SUBSET S : Sum(z) \in Int
        BY <1>0, SumType
      <4> HIDE DEF Sum
      <4> QED
        BY <4>1, <4>2
    <3>5. ASSUME NEW C \in SUBSET S
          PROVE  /\ x \in C => Sum(s \cap C) = n + Sum(r \cap C)
                 /\ x \notin C => Sum(s \cap C) = Sum(r \cap C)
      <4>1. CASE x \in C
        <5> DEFINE z == s \cap C
        <5>1. z \in SUBSET S /\ x \in z /\ z \ {x} = r \cap C
          BY <4>1
        <5> HIDE DEF z
        <5>2. Sum(z) = n + Sum(z \ {x})
          BY <1>0, <5>1, SumSplit
        <5> QED
          BY <4>1, <5>1, <5>2 DEF z
      <4>2. CASE x \notin C
        <5>1. s \cap C = r \cap C
          BY <4>2
        <5> QED
          BY <4>2, <5>1
      <4> QED
        BY <4>1, <4>2
    <3> HIDE DEF Sum, n, u, v
    <3>6. CASE x \in A
      <4>1. x \notin B
        BY <3>6
      <4>2. Sum(s \cap A) = n + u /\ Sum(s \cap B) = v
        BY <3>5, <3>6, <4>1 DEF u, v
      <4>3. Sum(s) = Sum(s \cap A) + Sum(s \cap B)
        BY <3>2, <3>3, <3>4, <4>2
      <4> QED
        BY <4>3
    <3>7. CASE x \in B
      <4>1. x \notin A
        BY <3>7
      <4>2. Sum(s \cap A) = u /\ Sum(s \cap B) = n + v
        BY <3>5, <3>7, <4>1 DEF u, v
      <4>3. Sum(s) = Sum(s \cap A) + Sum(s \cap B)
        BY <3>2, <3>3, <3>4, <4>2
      <4> QED
        BY <4>3
    <3>8. CASE x \notin A /\ x \notin B
      <4>1. n = 0
        BY <3>2, <3>8 DEF n
      <4>2. Sum(s \cap A) = u /\ Sum(s \cap B) = v
        BY <3>5, <3>8 DEF u, v
      <4>3. Sum(s) = Sum(s \cap A) + Sum(s \cap B)
        BY <3>3, <3>4, <4>1, <4>2
      <4> QED
        BY <4>3
    <3> QED
      BY <3>6, <3>7, <3>8
  <2> QED
    BY <2>1, <2>2
<1>2. T = SUBSET S
  <2> HIDE DEF T
  <2>1. T \in SUBSET SUBSET S
    BY DEF T
  <2> QED
    BY <1>1, <2>1, Subsets
<1>3. S \cap A = A /\ S \cap B = B
  OBVIOUS
<1> QED
  BY <1>2, <1>3

\* A sum over one number more.
LEMMA SumNext ==
  ASSUME NEW k \in Nat, NEW f, Numbers(f, 1 .. (k + 1))
  PROVE  /\ SumFunctionOnSet(f, 1 .. k) \in Int
         /\ SumFunctionOnSet(f, 1 .. (k + 1)) = SumFunctionOnSet(f, 1 .. k) + f[k + 1]
<1> DEFINE S == 1 .. k
           e == k + 1
           s == SumFunctionOnSet(f, S)
<1>1. 1 .. (k + 1) = S \cup {e} /\ e \notin S
  OBVIOUS
<1>2. IsFiniteSet(S)
  BY FS_Interval
<1>3. Numbers(f, S) /\ f[e] \in Int
  BY <1>1 DEF Numbers
<1> HIDE DEF S, e
<1>4. SumFunctionOnSet(f, S \cup {e}) = f[e] + s /\ s \in Int
  BY <1>1, <1>2, <1>3, SumAdd, SumType
<1> HIDE DEF s
<1>5. SumFunctionOnSet(f, S \cup {e}) = s + f[e]
  BY <1>3, <1>4
<1> QED
  BY <1>1, <1>4, <1>5 DEF S, e, s

\* The sum of a sequence of numbers.
Added(q) == SumFunctionOnSet(q, DOMAIN q)

\* The sum of one element more.
LEMMA AddedAppend ==
  ASSUME NEW q \in Seq(Int), NEW x \in Int
  PROVE  Added(q) \in Int /\ Added(Append(q, x)) = Added(q) + x
<1> DEFINE n == Len(q)
           S == 1 .. n
           more == Append(q, x)
<1>1. n \in Nat /\ DOMAIN q = S /\ \A k \in S : q[k] \in Int
  OBVIOUS
<1>2. more[n + 1] = x /\ DOMAIN more = 1 .. (n + 1) /\ \A k \in S : more[k] = q[k]
  OBVIOUS
<1>3. \A k \in 1 .. (n + 1) : more[k] \in Int
  OBVIOUS
<1> HIDE DEF more
<1>4. Numbers(more, 1 .. (n + 1)) /\ Numbers(q, S) /\ Agree(q, more, S)
  BY <1>1, <1>2, <1>3 DEF Numbers, Agree
<1>5. IsFiniteSet(S)
  BY <1>1, FS_Interval
<1>6. SumFunctionOnSet(more, S) = SumFunctionOnSet(q, S) /\ SumFunctionOnSet(q, S) \in Int
  BY <1>4, <1>5, SumSame, SumType
<1>7. SumFunctionOnSet(more, 1 .. (n + 1)) = SumFunctionOnSet(more, S) + more[n + 1]
  BY <1>1, <1>4, SumNext
<1> QED
  BY <1>1, <1>2, <1>6, <1>7 DEF Added, more

\* The sum of the elements after the first.
LEMMA AddedTail ==
  ASSUME NEW q \in Seq(Int), q # <<>>
  PROVE  Added(Tail(q)) = Added(q) - Head(q)
<1> DEFINE n == Len(q)
           r == Tail(q)
           T == {j \in Nat : j + 1 <= n =>
                   SumFunctionOnSet(q, 1 .. (j + 1)) = SumFunctionOnSet(r, 1 .. j) + q[1]}
<1>1. n \in Nat /\ n >= 1 /\ DOMAIN q = 1 .. n /\ \A k \in 1 .. n : q[k] \in Int
  OBVIOUS
<1>2. /\ DOMAIN r = 1 .. (n - 1) /\ Head(q) = q[1]
      /\ \A k \in 1 .. (n - 1) : r[k] = q[k + 1] /\ r[k] \in Int
  OBVIOUS
<1> HIDE DEF r, n
<1>3. 0 \in T
  <2>1. 1 .. 0 = {} /\ 1 .. (0 + 1) = {1} /\ {1} \ {1} = {}
    OBVIOUS
  <2>2. Numbers(q, {1})
    BY <1>1 DEF Numbers
  <2>7. IsFiniteSet({1})
    BY FS_Singleton
  <2>3. SumFunctionOnSet(q, {1}) = q[1] + SumFunctionOnSet(q, {1} \ {1})
    BY <2>2, <2>7, SumSplit
  <2>4. SumFunctionOnSet(q, {}) = 0 /\ SumFunctionOnSet(r, {}) = 0
    BY SumEmpty
  <2>5. q[1] \in Int
    BY <1>1
  <2>8. SumFunctionOnSet(q, {1}) = q[1] + 0
    BY <2>1, <2>3, <2>4
  <2>9. SumFunctionOnSet(r, 1 .. 0) = 0
    BY <2>1, <2>4
  <2>6. SumFunctionOnSet(q, 1 .. (0 + 1)) = SumFunctionOnSet(r, 1 .. 0) + q[1]
    BY <2>1, <2>5, <2>8, <2>9
  <2> QED
    BY <2>6
<1>4. ASSUME NEW j \in T PROVE j + 1 \in T
  <2> SUFFICES ASSUME (j + 1) + 1 <= n
               PROVE  SumFunctionOnSet(q, 1 .. ((j + 1) + 1))
                        = SumFunctionOnSet(r, 1 .. (j + 1)) + q[1]
    OBVIOUS
  <2>1. j \in Nat /\ j + 1 \in Nat /\ j + 1 \in 1 .. (n - 1) /\ j + 1 <= n
    BY <1>1
  <2>2. Numbers(q, 1 .. ((j + 1) + 1)) /\ Numbers(r, 1 .. (j + 1))
    BY <1>1, <1>2, <2>1 DEF Numbers
  <2> DEFINE a == SumFunctionOnSet(q, 1 .. (j + 1))
             b == SumFunctionOnSet(r, 1 .. j)
             x == q[(j + 1) + 1]
  <2>3. SumFunctionOnSet(q, 1 .. ((j + 1) + 1)) = a + x
    BY <2>1, <2>2, SumNext
  <2>4. SumFunctionOnSet(r, 1 .. (j + 1)) = b + x /\ b \in Int
    BY <1>2, <2>1, <2>2, SumNext
  <2>5. a = b + q[1]
    BY <2>1
  <2>6. x \in Int /\ q[1] \in Int
    BY <1>1, <2>1
  <2> HIDE DEF a, b, x
  <2> QED
    BY <2>3, <2>4, <2>5, <2>6
<1>5. T = Nat
  <2> HIDE DEF T
  <2>1. T \in SUBSET Nat
    BY DEF T
  <2> QED
    BY <1>3, <1>4, <2>1, NatSets
<1>6. n - 1 \in Nat /\ (n - 1) + 1 = n
  BY <1>1
<1>7. SumFunctionOnSet(q, 1 .. n) = SumFunctionOnSet(r, 1 .. (n - 1)) + q[1]
  BY <1>1, <1>5, <1>6
<1>8. SumFunctionOnSet(r, 1 .. (n - 1)) \in Int /\ q[1] \in Int
  <2>1. IsFiniteSet(1 .. (n - 1)) /\ Numbers(r, 1 .. (n - 1))
    BY <1>1, <1>2, FS_Interval DEF Numbers
  <2> QED
    BY <1>1, <2>1, SumType
<1>9. Added(r) = SumFunctionOnSet(r, 1 .. (n - 1)) /\ Added(q) = SumFunctionOnSet(q, 1 .. n)
  BY <1>1, <1>2 DEF Added
<1> QED
  BY <1>2, <1>7, <1>8, <1>9 DEF r

-----------------------------------------------------------------------------
\* The largest of some of the first numbers is one of them.
LEMMA MaxOf ==
  ASSUME NEW n \in Nat, NEW s \in SUBSET (1 .. n), s # {}
  PROVE  Max(s) \in s /\ \A y \in s : y <= Max(s)
<1> DEFINE S == 1 .. n
<1>0. IsFiniteSet(S) /\ S \in SUBSET Int
  BY FS_Interval
<1> HIDE DEF S
<1>1. IsFiniteSet(s) /\ s \in SUBSET Int
  <2>1. s \in SUBSET S
    BY DEF S
  <2> QED
    BY <1>0, <2>1, FS_Subset
<1>2. \E x \in s : \A y \in s : y <= x
  BY <1>1, LargestExists
<1>3. \E x \in s : \A y \in s : x >= y
  BY <1>2
<1> QED
  BY <1>3 DEF Max

\* The largest of the first k numbers is k.
LEMMA Prefix ==
  ASSUME NEW n \in Nat, NEW k \in 1 .. n
  PROVE  /\ 1 .. k \in SUBSET (1 .. n) /\ 1 .. k # {}
         /\ Max(1 .. k) = k /\ (1 .. k) \ {k} = 1 .. (k - 1)
<1>1. 1 .. k \in SUBSET (1 .. n) /\ k \in 1 .. k
  OBVIOUS
<1>2. Max(1 .. k) \in 1 .. k /\ k <= Max(1 .. k)
  BY <1>1, MaxOf
<1>3. Max(1 .. k) = k
  BY <1>2
<1> QED
  BY <1>1, <1>3

\* The recursion by which a fold over n elements is defined.
Folding(g, n, base, op) ==
  \A s \in SUBSET (1 .. n) : g[s] = IF s = {} THEN base ELSE op[Max(s)][g[s \ {Max(s)}]]

\* It has a solution, whatever op.
LEMMA FoldExists ==
  ASSUME NEW n \in Nat, NEW V, NEW base \in V, NEW op \in [1 .. n -> [V -> V]]
  PROVE  \E g \in [SUBSET (1 .. n) -> V] : Folding(g, n, base, op)
<1> DEFINE S == 1 .. n
           pick == [s \in SUBSET S |-> Max(s)]
<1>1. \A s \in SUBSET S : s # {} => pick[s] \in s
  BY MaxOf
<1>2. \A s \in SUBSET S : pick[s] = Max(s)
  OBVIOUS
<1>3. IsFiniteSet(S)
  BY FS_Interval
<1> HIDE DEF S, pick
<1>4. Picks(pick, S)
  BY <1>1 DEF Picks
<1>5. op \in [S -> [V -> V]]
  BY DEF S
<1>6. PICK g \in [SUBSET S -> V] : Iterates(g, S, base, pick, op)
  BY <1>3, <1>4, <1>5, IterationExists
<1>7. \A s \in SUBSET S : g[s] = IF s = {} THEN base ELSE op[Max(s)][g[s \ {Max(s)}]]
  BY <1>2, <1>6 DEF Iterates
<1> QED
  BY <1>7 DEF S, Folding
=============================================================================
