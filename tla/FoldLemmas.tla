----------------------------- MODULE FoldLemmas -----------------------------
(***************************************************************************)
(* Induction as facts about sets, and what it says of folds: that the      *)
(* recursive function a fold stands for exists, and that a sum over a set  *)
(* does not depend on the order in which its elements are chosen.          *)
(***************************************************************************)
EXTENDS Integers, FiniteSetTheorems, WellFoundedInduction, TLAPS

\* Every non-empty set of naturals has a smallest member.
LEMMA SmallestExists ==
  ASSUME NEW S \in SUBSET Nat, S # {}
  PROVE  \E x \in S : \A y \in S : x <= y
<1> DEFINE R == {ss \in Nat \X Nat : ss[1] < ss[2]}
<1>1. IsWellFoundedOn(R, Nat)
  BY NatLessThanWellFounded DEF OpToRel
<1>2. PICK x \in S : \A y \in S : ~(<<y, x>> \in R)
  <2> HIDE DEF R
  <2> QED BY <1>1, WFMin
<1>3. \A y \in S : ~(y < x)
  BY <1>2
<1> QED BY <1>3

\* Induction over the numbers up to n.
LEMMA InductionUpTo ==
  ASSUME NEW n \in Nat, NEW D, 0 \in D, \A i \in 0 .. n - 1 : i \in D => i + 1 \in D
  PROVE  \A i \in 0 .. n : i \in D
<1> DEFINE Bad == {i \in 0 .. n : i \notin D}
<1>1. SUFFICES ASSUME Bad # {} PROVE FALSE
  OBVIOUS
<1>2. Bad \in SUBSET Nat
  OBVIOUS
<1>3. PICK i \in Bad : \A y \in Bad : i <= y
  <2> HIDE DEF Bad
  <2> QED BY <1>1, <1>2, SmallestExists
<1>4. i # 0 /\ i \in 0 .. n /\ i \notin D
  OBVIOUS
<1>5. i - 1 \in 0 .. n - 1 /\ i - 1 \notin Bad /\ i - 1 \in 0 .. n /\ (i - 1) + 1 = i
  BY <1>3, <1>4
<1> QED BY <1>4, <1>5

\* The member that FoldLeft takes of a set of places, and what is left of the
\* places up to i + 1 when it has.
Largest(s) == CHOOSE x \in s : \A y \in s : x >= y

LEMMA LargestIsMember ==
  ASSUME NEW n \in Nat, NEW s \in SUBSET (1 .. n), s # {}
  PROVE  Largest(s) \in s
<1> DEFINE D == {n - x : x \in s}
<1>1. D \in SUBSET Nat /\ D # {}
  <2>1. \A x \in s : x \in 1 .. n /\ n - x \in Nat
    OBVIOUS
  <2>2. PICK x \in s : TRUE
    OBVIOUS
  <2>3. n - x \in D
    OBVIOUS
  <2> QED BY <2>1, <2>3
<1>2. PICK d \in D : \A y \in D : d <= y
  <2> HIDE DEF D
  <2> QED BY <1>1, SmallestExists
<1>3. PICK x \in s : d = n - x
  BY <1>2
<1>4. ASSUME NEW y \in s PROVE x >= y
  <2>1. n - x <= n - y
    BY <1>2, <1>3
  <2>2. x \in 1 .. n /\ y \in 1 .. n
    OBVIOUS
  <2> QED BY <2>1, <2>2
<1> QED BY <1>4 DEF Largest

LEMMA LargestOfPrefix ==
  ASSUME NEW i \in Nat
  PROVE  Largest(1 .. i + 1) = i + 1 /\ (1 .. i + 1) \ {i + 1} = 1 .. i
<1>1. Largest(1 .. i + 1) \in 1 .. i + 1
  <2>1. i + 1 \in Nat /\ 1 .. i + 1 \in SUBSET (1 .. i + 1) /\ 1 .. i + 1 # {}
    OBVIOUS
  <2> QED BY <2>1, LargestIsMember
<1>2. i + 1 \in 1 .. i + 1 /\ \A y \in 1 .. i + 1 : i + 1 >= y
  OBVIOUS
<1>3. \A y \in 1 .. i + 1 : Largest(1 .. i + 1) >= y
  BY <1>2 DEF Largest
<1> QED BY <1>1, <1>2, <1>3

\* Induction over the subsets of a finite set, by removing one element.
LEMMA SubsetInduction ==
  ASSUME NEW S, IsFiniteSet(S), NEW D, {} \in D,
         \A s \in SUBSET S : s # {} /\ (\A x \in s : s \ {x} \in D) => s \in D
  PROVE  \A s \in SUBSET S : s \in D
<1> DEFINE E == {n \in Nat : \A s \in SUBSET S : Cardinality(s) = n => s \in D}
           N == Cardinality(S)
<1>1. N \in Nat
  BY FS_CardinalityType
<1>2. 0 \in E
  <2>1. ASSUME NEW s \in SUBSET S, Cardinality(s) = 0 PROVE s = {}
    BY <2>1, FS_Subset, FS_EmptySet
  <2> QED BY <2>1
<1>3. ASSUME NEW i \in 0 .. N - 1, i \in E PROVE i + 1 \in E
  <2>1. ASSUME NEW s \in SUBSET S, Cardinality(s) = i + 1 PROVE s \in D
    <3>1. IsFiniteSet(s) /\ s # {}
      BY <1>1, <2>1, FS_Subset, FS_EmptySet
    <3>2. ASSUME NEW x \in s PROVE s \ {x} \in D
      <4>1. Cardinality(s \ {x}) = (i + 1) - 1
        BY <2>1, <3>1, FS_RemoveElement
      <4>2. i \in Nat /\ (i + 1) - 1 = i /\ s \ {x} \in SUBSET S
        BY <1>1
      <4> QED BY <1>3, <4>1, <4>2
    <3> QED BY <3>1, <3>2
  <2> QED BY <1>1, <2>1
<1>4. \A i \in 0 .. N : i \in E
  <2> HIDE DEF E, N
  <2> QED BY <1>1, <1>2, <1>3, InductionUpTo
<1>5. ASSUME NEW s \in SUBSET S PROVE s \in D
  <2>1. Cardinality(s) \in 0 .. N
    BY <1>1, FS_Subset, FS_CardinalityType
  <2> QED BY <1>4, <2>1
<1> QED BY <1>5

\* The function that a fold of a finite set defines, picking an element of every
\* non-empty subset and combining it with the fold of the others.
Picks(pick, S) == \A s \in SUBSET S : s # {} => pick[s] \in s

IsFold(f, S, base, G, pick) ==
  \A s \in SUBSET S :
    f[s] = IF s = {} THEN base ELSE G[<<pick[s], f[s \ {pick[s]}]>>]

LEMMA FoldExists ==
  ASSUME NEW S, IsFiniteSet(S), NEW V, NEW base \in V, NEW G \in [S \X V -> V],
         NEW pick, Picks(pick, S)
  PROVE  \E f \in [SUBSET S -> V] : IsFold(f, S, base, G, pick)
<1> DEFINE Small(n) == {s \in SUBSET S : Cardinality(s) <= n}
           Folds(f, n) ==
             /\ f \in [Small(n) -> V]
             /\ \A s \in Small(n) :
                  f[s] = IF s = {} THEN base ELSE G[<<pick[s], f[s \ {pick[s]}]>>]
           E == {n \in Nat : \E f : Folds(f, n)}
           N == Cardinality(S)
<1>1. N \in Nat /\ \A s \in SUBSET S : IsFiniteSet(s) /\ Cardinality(s) \in Nat
                                        /\ Cardinality(s) <= N
  BY FS_CardinalityType, FS_Subset
<1>2. 0 \in E
  <2>1. ASSUME NEW s \in Small(0) PROVE s = {}
    <3>1. Cardinality(s) = 0
      BY <1>1
    <3> QED BY <1>1, <3>1, FS_EmptySet
  <2>2. Folds([s \in Small(0) |-> base], 0)
    BY <2>1
  <2> QED BY <2>2
<1>3. ASSUME NEW i \in 0 .. N - 1, i \in E PROVE i + 1 \in E
  <2>1. PICK g : Folds(g, i)
    BY <1>3
  <2> DEFINE f == [s \in Small(i + 1) |->
                     IF s = {} THEN base ELSE G[<<pick[s], g[s \ {pick[s]}]>>]]
  <2>2. ASSUME NEW s \in Small(i + 1), s # {}
        PROVE  s \ {pick[s]} \in Small(i) /\ pick[s] \in S /\ s \ {pick[s]} \in Small(i + 1)
    <3>1. pick[s] \in s /\ IsFiniteSet(s) /\ Cardinality(s) \in Nat
          /\ Cardinality(s) <= i + 1
      BY <1>1, <2>2 DEF Picks
    <3>2. Cardinality(s \ {pick[s]}) = Cardinality(s) - 1
      BY <3>1, FS_RemoveElement
    <3> QED BY <3>1, <3>2, <1>1
  <2>3. f \in [Small(i + 1) -> V]
    BY <2>1, <2>2
  <2>4. ASSUME NEW s \in Small(i) PROVE s \in Small(i + 1) /\ f[s] = g[s]
    <3>1. s \in Small(i + 1)
      BY <1>1
    <3> QED BY <2>1, <3>1
  <2>5. ASSUME NEW s \in Small(i + 1)
        PROVE  f[s] = IF s = {} THEN base ELSE G[<<pick[s], f[s \ {pick[s]}]>>]
    <3>1. CASE s = {}
      BY <3>1
    <3>2. CASE s # {}
      <4>1. f[s \ {pick[s]}] = g[s \ {pick[s]}]
        BY <2>2, <2>4, <3>2
      <4> HIDE DEF Small
      <4> QED BY <3>2, <4>1
    <3> QED BY <3>1, <3>2
  <2>6. Folds(f, i + 1)
    <3> HIDE DEF f, Small
    <3> QED BY <2>3, <2>5
  <2>7. i + 1 \in Nat
    BY <1>1
  <2> HIDE DEF Folds
  <2> QED BY <2>6, <2>7
<1>4. N \in E
  <2>1. \A i \in 0 .. N : i \in E
    <3> HIDE DEF E, N
    <3> QED BY <1>1, <1>2, <1>3, InductionUpTo
  <2> HIDE DEF E
  <2> QED BY <1>1, <2>1
<1>5. Small(N) = SUBSET S
  BY <1>1
<1>6. PICK f : Folds(f, N)
  BY <1>4
<1> QED BY <1>5, <1>6 DEF IsFold

IsSum(f, S, v, pick) ==
  \A s \in SUBSET S : f[s] = IF s = {} THEN 0 ELSE v[pick[s]] + f[s \ {pick[s]}]

\* A sum of integers over a finite set, taken in whatever order pick says, is the
\* value of any element plus the sum of the others.
LEMMA SumRemovesAny ==
  ASSUME NEW S, IsFiniteSet(S), NEW v \in [S -> Int],
         NEW pick, Picks(pick, S),
         NEW f, IsSum(f, S, v, pick)
  PROVE  \A s \in SUBSET S : /\ f[s] \in Int
                             /\ \A x \in s : f[s] = v[x] + f[s \ {x}]
<1> DEFINE T == {s \in SUBSET S : f[s] \in Int}
           D == {s \in SUBSET S : \A x \in s : f[s] = v[x] + f[s \ {x}]}
<1>1. \A s \in SUBSET S : s \in T
  <2>1. {} \in SUBSET S /\ f[{}] = 0
    BY DEF IsSum
  <2>2. ASSUME NEW s \in SUBSET S, s # {}, \A x \in s : s \ {x} \in T
        PROVE  s \in T
    <3>1. pick[s] \in s /\ f[s] = v[pick[s]] + f[s \ {pick[s]}]
      BY <2>2 DEF Picks, IsSum
    <3>2. v[pick[s]] \in Int /\ f[s \ {pick[s]}] \in Int
      BY <2>2, <3>1
    <3> QED BY <3>1, <3>2
  <2>3. {} \in T
    BY <2>1
  <2> HIDE DEF T
  <2> QED BY <2>2, <2>3, SubsetInduction
<1>2. ASSUME NEW s \in SUBSET S, s # {}, \A x \in s : s \ {x} \in D
      PROVE  s \in D
  <2> DEFINE p == pick[s]
             rest == s \ {p}
  <2>1. p \in s /\ f[s] = v[p] + f[rest] /\ rest \in D
    BY <1>2 DEF Picks, IsSum
  <2>2. ASSUME NEW x \in s PROVE f[s] = v[x] + f[s \ {x}]
    <3>1. CASE x = p
      BY <2>1, <3>1
    <3>2. CASE x # p
      <4>1. /\ x \in rest /\ p \in s \ {x} /\ rest \ {x} = (s \ {x}) \ {p}
            /\ s \ {x} \in D
        BY <1>2, <2>1, <3>2
      <4>2. f[rest] = v[x] + f[rest \ {x}] /\ f[s \ {x}] = v[p] + f[rest \ {x}]
        BY <2>1, <4>1
      <4>3. f[rest \ {x}] \in Int /\ v[x] \in Int /\ v[p] \in Int
        BY <1>1, <2>1
      <4> QED BY <2>1, <4>2, <4>3
    <3> QED BY <3>1, <3>2
  <2> QED BY <2>2
<1>3. \A s \in SUBSET S : s \in D
  <2>1. {} \in D
    OBVIOUS
  <2> HIDE DEF D
  <2> QED BY <1>2, <2>1, SubsetInduction
<1> QED BY <1>1, <1>3
=============================================================================
