----------------------------- MODULE FiniteSums -----------------------------
(***************************************************************************)
(* Lemmas about SumFunction, the sum of the values of a function with a    *)
(* finite domain, and about the least element of a set of natural numbers, *)
(* which takes the place of induction.                                     *)
(***************************************************************************)
EXTENDS Integers, Functions, FiniteSets, FiniteSetTheorems, WellFoundedInduction,
        NaturalsInduction, TLAPS

\* Every set of natural numbers that is not empty has a least element.
LEMMA LeastOfNats ==
  ASSUME NEW T \in SUBSET Nat, T # {}
  PROVE  \E x \in T : \A y \in T : x <= y
<1>1. PICK x \in T : \A y \in T : ~ (<<y, x>> \in OpToRel(<, Nat))
  BY NatLessThanWellFounded, WFMin
<1>2. ASSUME NEW y \in T PROVE x <= y
  <2>1. x \in Nat /\ y \in Nat
    OBVIOUS
  <2>2. ~ (<<y, x>> \in {p \in Nat \X Nat : p[1] < p[2]})
    BY <1>1 DEF OpToRel
  <2>. QED BY <2>1, <2>2
<1>. QED BY <1>2

\* The member of a set that a fold takes next.
Chosen(s) == CHOOSE x \in s : TRUE

\* The partial sums of f: g[s] is the sum of the values of f over s.
PartialSums(f, S, g) ==
  g = [s \in SUBSET S |-> IF s = {} THEN 0 ELSE f[Chosen(s)] + g[s \ {Chosen(s)}]]

LEMMA SumIsPartialSum ==
  ASSUME NEW f
  PROVE  SumFunction(f) = (CHOOSE g : PartialSums(f, DOMAIN f, g))[DOMAIN f]
BY DEF SumFunction, SumFunctionOnSet, FoldFunctionOnSet, MapThenFoldSet, PartialSums, Chosen

\* A set that is not empty is one member more than the rest of it.
LEMMA NextOfSet ==
  ASSUME NEW S, IsFiniteSet(S), S # {}
  PROVE  /\ Chosen(S) \in S
         /\ IsFiniteSet(S \ {Chosen(S)})
         /\ Cardinality(S) \in Nat /\ Cardinality(S) > 0
         /\ Cardinality(S \ {Chosen(S)}) = Cardinality(S) - 1
<1>1. Chosen(S) \in S
  BY DEF Chosen
<1>2. Cardinality(S) \in Nat /\ Cardinality(S) # 0
  BY FS_CardinalityType, FS_EmptySet
<1>. QED BY <1>1, <1>2, FS_RemoveElement

Upto(S, n) == {s \in SUBSET S : Cardinality(s) <= n}

SumsUpto(f, S, n, g) ==
  g = [s \in Upto(S, n) |-> IF s = {} THEN 0 ELSE f[Chosen(s)] + g[s \ {Chosen(s)}]]

\* The recursion of the partial sums has a solution.
LEMMA PartialSumsExist ==
  ASSUME NEW S, IsFiniteSet(S), NEW f
  PROVE  \E g : PartialSums(f, S, g)
<1>. DEFINE Solved(n) == \E g : SumsUpto(f, S, n, g)
            Unsolved == {n \in Nat : ~Solved(n)}
<1>1. ASSUME NEW n \in Nat, n # 0, Solved(n - 1) PROVE Solved(n)
  <2>1. PICK g : SumsUpto(f, S, n - 1, g)
    BY <1>1
  <2>2. PICK h : h = [s \in Upto(S, n) |->
                        IF s = {} THEN 0 ELSE f[Chosen(s)] + g[s \ {Chosen(s)}]]
    OBVIOUS
  <2>3. ASSUME NEW s \in Upto(S, n), s # {}
        PROVE  h[s \ {Chosen(s)}] = g[s \ {Chosen(s)}]
    <3>. DEFINE r == s \ {Chosen(s)}
    <3>1. IsFiniteSet(s)
      BY FS_Subset DEF Upto
    <3>2. r \in Upto(S, n - 1) /\ r \in Upto(S, n)
      <4>1. Cardinality(s) \in Nat /\ Cardinality(r) = Cardinality(s) - 1
        BY <2>3, <3>1, NextOfSet
      <4>2. r \in SUBSET S /\ Cardinality(s) <= n
        BY DEF Upto
      <4>. QED BY <4>1, <4>2 DEF Upto
    <3>3. g[r] = IF r = {} THEN 0 ELSE f[Chosen(r)] + g[r \ {Chosen(r)}]
      BY <2>1, <3>2 DEF SumsUpto
    <3>4. h[r] = IF r = {} THEN 0 ELSE f[Chosen(r)] + g[r \ {Chosen(r)}]
      BY <2>2, <3>2
    <3>. QED BY <3>3, <3>4
  <2>4. h = [s \in Upto(S, n) |->
               IF s = {} THEN 0 ELSE f[Chosen(s)] + h[s \ {Chosen(s)}]]
    BY <2>2, <2>3
  <2>. QED BY <2>4 DEF SumsUpto
<1>2. Solved(0)
  <2>1. \A s \in Upto(S, 0) : s = {}
    <3>. SUFFICES ASSUME NEW s \in Upto(S, 0) PROVE s = {}
      OBVIOUS
    <3>1. IsFiniteSet(s) /\ Cardinality(s) <= 0
      BY FS_Subset DEF Upto
    <3>2. Cardinality(s) = 0
      BY <3>1, FS_CardinalityType
    <3>. QED BY <3>1, <3>2, FS_EmptySet
  <2>2. PICK g : g = [s \in Upto(S, 0) |-> 0]
    OBVIOUS
  <2>3. g = [s \in Upto(S, 0) |-> IF s = {} THEN 0 ELSE f[Chosen(s)] + g[s \ {Chosen(s)}]]
    BY <2>1, <2>2
  <2>. QED BY <2>3 DEF SumsUpto
<1>3. Unsolved = {}
  <2>. SUFFICES ASSUME Unsolved # {} PROVE FALSE
    OBVIOUS
  <2>1. Unsolved \in SUBSET Nat
    OBVIOUS
  <2>. HIDE DEF Solved
  <2>2. PICK n \in Unsolved : \A m \in Unsolved : n <= m
    BY <2>1, LeastOfNats
  <2>3. n \in Nat /\ ~Solved(n)
    OBVIOUS
  <2>4. n # 0 /\ n - 1 \in Nat
    BY <1>2, <2>3
  <2>5. Solved(n - 1)
    BY <2>2, <2>3, <2>4
  <2>. QED BY <1>1, <2>3, <2>4, <2>5
<1>4. Cardinality(S) \in Nat
  BY FS_CardinalityType
<1>5. PICK g : SumsUpto(f, S, Cardinality(S), g)
  BY <1>3, <1>4
<1>6. Upto(S, Cardinality(S)) = SUBSET S
  BY FS_Subset DEF Upto
<1>. QED BY <1>5, <1>6 DEF SumsUpto, PartialSums

LEMMA SumWitness ==
  ASSUME NEW S, IsFiniteSet(S), NEW f, DOMAIN f = S
  PROVE  \E g : PartialSums(f, S, g) /\ SumFunction(f) = g[S]
<1>. DEFINE Sums(g) == PartialSums(f, S, g)
<1>1. PICK g : Sums(g)
  BY PartialSumsExist
<1>. HIDE DEF Sums
<1>2. Sums(CHOOSE h : Sums(h))
  BY <1>1
<1>. USE DEF Sums
<1>3. SumFunction(f) = (CHOOSE h : PartialSums(f, S, h))[S]
  BY SumIsPartialSum
<1>. QED BY <1>2, <1>3

\* Induction over the subsets of a finite set, in the order of a fold: what holds
\* of the empty set, and of a set when it holds of the rest of it, holds of the set.
LEMMA SubsetInduction ==
  ASSUME NEW S, IsFiniteSet(S), NEW Good \in SUBSET (SUBSET S), {} \in Good,
         \A s \in SUBSET S : s # {} /\ s \ {Chosen(s)} \in Good => s \in Good
  PROVE  S \in Good
<1>. SUFFICES ASSUME S \notin Good PROVE FALSE
  OBVIOUS
<1>. DEFINE Sizes == {Cardinality(s) : s \in (SUBSET S) \ Good}
<1>1. \A s \in SUBSET S : IsFiniteSet(s) /\ Cardinality(s) \in Nat
  BY FS_Subset, FS_CardinalityType
<1>2. Sizes \in SUBSET Nat /\ Sizes # {}
  BY <1>1
<1>3. PICK n \in Sizes : \A m \in Sizes : n <= m
  BY <1>2, LeastOfNats
<1>4. PICK s \in (SUBSET S) \ Good : Cardinality(s) = n
  BY <1>3
<1>5. s # {}
  BY <1>4
<1>6. /\ s \ {Chosen(s)} \in SUBSET S
      /\ Cardinality(s \ {Chosen(s)}) < n
  BY <1>1, <1>4, <1>5, NextOfSet
<1>7. s \ {Chosen(s)} \in Good
  <2>1. CASE s \ {Chosen(s)} \notin Good
    <3>1. Cardinality(s \ {Chosen(s)}) \in Sizes
      BY <1>6, <2>1
    <3>2. n <= Cardinality(s \ {Chosen(s)})
      BY <1>3, <3>1
    <3>. QED BY <1>1, <1>4, <1>6, <3>2
  <2>. QED BY <2>1
<1>. QED BY <1>4, <1>5, <1>7

\* One step of the recursion of the partial sums, and its end.
LEMMA PartialSumStep ==
  ASSUME NEW S, NEW f, NEW g, PartialSums(f, S, g), NEW s \in SUBSET S, s # {}
  PROVE  /\ Chosen(s) \in S /\ Chosen(s) \in s
         /\ g[s] = f[Chosen(s)] + g[s \ {Chosen(s)}]
<1>1. Chosen(s) \in s
  BY DEF Chosen
<1>2. g[s] = IF s = {} THEN 0 ELSE f[Chosen(s)] + g[s \ {Chosen(s)}]
  BY DEF PartialSums
<1>. QED BY <1>1, <1>2

LEMMA PartialSumEnd ==
  ASSUME NEW S, NEW f, NEW g, PartialSums(f, S, g)
  PROVE  g[{}] = 0
BY DEF PartialSums

\* The recursion of the partial sums has one solution.
LEMMA PartialSumsAgree ==
  ASSUME NEW S, IsFiniteSet(S), NEW f, NEW g, NEW h,
         PartialSums(f, S, g), PartialSums(f, S, h)
  PROVE  g[S] = h[S]
<1>. DEFINE Good == {s \in SUBSET S : g[s] = h[s]}
<1>1. {} \in Good
  BY PartialSumEnd
<1>2. ASSUME NEW s \in SUBSET S, s # {}, s \ {Chosen(s)} \in Good PROVE s \in Good
  <2>1. /\ g[s] = f[Chosen(s)] + g[s \ {Chosen(s)}]
        /\ h[s] = f[Chosen(s)] + h[s \ {Chosen(s)}]
    <3>. HIDE DEF Good
    <3>. QED BY <1>2, PartialSumStep
  <2>. QED BY <1>2, <2>1
<1>3. S \in Good
  <2>1. Good \in SUBSET (SUBSET S)
    OBVIOUS
  <2>. HIDE DEF Good
  <2>. QED BY <1>1, <1>2, <2>1, SubsetInduction
<1>. QED BY <1>3

\* The values of two functions sum to the sum of the two.
LEMMA SumsAdd ==
  ASSUME NEW S, IsFiniteSet(S), NEW f \in [S -> Int], NEW d \in [S -> Int],
         NEW h \in [S -> Int], \A x \in S : h[x] = f[x] + d[x]
  PROVE  /\ SumFunction(f) \in Int /\ SumFunction(d) \in Int
         /\ SumFunction(h) = SumFunction(f) + SumFunction(d)
<1>1. PICK F : PartialSums(f, S, F) /\ SumFunction(f) = F[S]
  BY SumWitness
<1>2. PICK D : PartialSums(d, S, D) /\ SumFunction(d) = D[S]
  BY SumWitness
<1>3. PICK H : PartialSums(h, S, H) /\ SumFunction(h) = H[S]
  BY SumWitness
<1>. DEFINE Good == {s \in SUBSET S : F[s] \in Int /\ D[s] \in Int /\ H[s] = F[s] + D[s]}
<1>4. {} \in Good
  BY <1>1, <1>2, <1>3, PartialSumEnd
<1>5. ASSUME NEW s \in SUBSET S, s # {}, s \ {Chosen(s)} \in Good PROVE s \in Good
  <2>1. /\ Chosen(s) \in S
        /\ F[s] = f[Chosen(s)] + F[s \ {Chosen(s)}]
        /\ D[s] = d[Chosen(s)] + D[s \ {Chosen(s)}]
        /\ H[s] = h[Chosen(s)] + H[s \ {Chosen(s)}]
    <3>. HIDE DEF Good
    <3>0. s # {}
      BY <1>5
    <3>1. Chosen(s) \in S /\ F[s] = f[Chosen(s)] + F[s \ {Chosen(s)}]
      BY ONLY <1>1, <3>0, s \in SUBSET S, PartialSumStep
    <3>2. D[s] = d[Chosen(s)] + D[s \ {Chosen(s)}]
      BY ONLY <1>2, <3>0, s \in SUBSET S, PartialSumStep
    <3>3. H[s] = h[Chosen(s)] + H[s \ {Chosen(s)}]
      BY ONLY <1>3, <3>0, s \in SUBSET S, PartialSumStep
    <3>. QED BY <3>1, <3>2, <3>3
  <2>2. /\ h[Chosen(s)] = f[Chosen(s)] + d[Chosen(s)]
        /\ f[Chosen(s)] \in Int /\ d[Chosen(s)] \in Int
    BY <2>1
  <2>3. /\ F[s \ {Chosen(s)}] \in Int /\ D[s \ {Chosen(s)}] \in Int
        /\ H[s \ {Chosen(s)}] = F[s \ {Chosen(s)}] + D[s \ {Chosen(s)}]
    BY <1>5
  <2>. QED BY <1>5, <2>1, <2>2, <2>3
<1>6. S \in Good
  <2>1. Good \in SUBSET (SUBSET S)
    OBVIOUS
  <2>. HIDE DEF Good
  <2>. QED BY <1>4, <1>5, <2>1, SubsetInduction
<1>. QED BY <1>1, <1>2, <1>3, <1>6

\* When one value changes, the sum changes by as much.
LEMMA SumChanges ==
  ASSUME NEW S, IsFiniteSet(S), NEW f \in [S -> Int], NEW h \in [S -> Int],
         NEW k \in S, \A x \in S \ {k} : h[x] = f[x]
  PROVE  /\ SumFunction(f) \in Int
         /\ SumFunction(h) = SumFunction(f) + h[k] - f[k]
<1>1. PICK F : PartialSums(f, S, F) /\ SumFunction(f) = F[S]
  BY SumWitness
<1>2. PICK H : PartialSums(h, S, H) /\ SumFunction(h) = H[S]
  BY SumWitness
<1>. DEFINE Change(s) == IF k \in s THEN h[k] - f[k] ELSE 0
            Good == {s \in SUBSET S : F[s] \in Int /\ H[s] = F[s] + Change(s)}
<1>3. {} \in Good
  BY <1>1, <1>2, PartialSumEnd
<1>4. ASSUME NEW s \in SUBSET S, s # {}, s \ {Chosen(s)} \in Good PROVE s \in Good
  <2>0. /\ F[s \ {Chosen(s)}] \in Int
        /\ H[s \ {Chosen(s)}] = F[s \ {Chosen(s)}] + Change(s \ {Chosen(s)})
    BY <1>4
  <2>. HIDE DEF Change
  <2>1. /\ Chosen(s) \in S /\ Chosen(s) \in s
        /\ F[s] = f[Chosen(s)] + F[s \ {Chosen(s)}]
        /\ H[s] = h[Chosen(s)] + H[s \ {Chosen(s)}]
    BY <1>1, <1>2, <1>4, PartialSumStep
  <2>2. CASE Chosen(s) = k
    <3>1. Change(s \ {Chosen(s)}) = 0 /\ Change(s) = h[k] - f[k]
      BY <2>1, <2>2 DEF Change
    <3>. QED BY <2>0, <2>1, <2>2, <3>1
  <2>3. CASE Chosen(s) # k
    <3>1. Change(s \ {Chosen(s)}) = Change(s) /\ h[Chosen(s)] = f[Chosen(s)]
      BY <2>1, <2>3 DEF Change
    <3>2. Change(s) \in Int /\ f[Chosen(s)] \in Int
      BY <2>1 DEF Change
    <3>. QED BY <2>0, <2>1, <3>1, <3>2
  <2>. QED BY <2>2, <2>3
<1>5. S \in Good
  <2>1. Good \in SUBSET (SUBSET S)
    OBVIOUS
  <2>. HIDE DEF Good
  <2>. QED BY <1>3, <1>4, <2>1, SubsetInduction
<1>. QED BY <1>1, <1>2, <1>5

\* The same when two values change.
LEMMA SumChangesTwice ==
  ASSUME NEW S, IsFiniteSet(S), NEW f \in [S -> Int], NEW h \in [S -> Int],
         NEW k \in S, NEW m \in S, k # m, \A x \in S \ {k, m} : h[x] = f[x]
  PROVE  /\ SumFunction(f) \in Int
         /\ SumFunction(h) = SumFunction(f) + (h[k] - f[k]) + (h[m] - f[m])
<1>1. PICK c : c = [f EXCEPT ![k] = h[k]]
  OBVIOUS
<1>2. /\ c \in [S -> Int] /\ c[k] = h[k] /\ c[m] = f[m]
      /\ \A x \in S \ {k} : c[x] = f[x]
      /\ \A x \in S \ {m} : h[x] = c[x]
  BY <1>1
<1>3. SumFunction(f) \in Int /\ SumFunction(c) = SumFunction(f) + c[k] - f[k]
  BY <1>2, SumChanges
<1>4. SumFunction(c) \in Int /\ SumFunction(h) = SumFunction(c) + h[m] - c[m]
  BY <1>2, SumChanges
<1>5. f[k] \in Int /\ f[m] \in Int /\ h[k] \in Int /\ h[m] \in Int
  OBVIOUS
<1>. QED BY <1>2, <1>3, <1>4, <1>5

\* Nothing sums to nothing.
LEMMA SumOfZeros ==
  ASSUME NEW S, IsFiniteSet(S), NEW f, f = [x \in S |-> 0]
  PROVE  SumFunction(f) = 0
<1>1. PICK F : PartialSums(f, S, F) /\ SumFunction(f) = F[S]
  BY SumWitness
<1>. DEFINE Good == {s \in SUBSET S : F[s] = 0}
<1>2. {} \in Good
  BY <1>1, PartialSumEnd
<1>3. ASSUME NEW s \in SUBSET S, s # {}, s \ {Chosen(s)} \in Good PROVE s \in Good
  <2>1. Chosen(s) \in S /\ F[s] = f[Chosen(s)] + F[s \ {Chosen(s)}]
    BY <1>1, <1>3, PartialSumStep
  <2>. QED BY <1>3, <2>1
<1>4. S \in Good
  <2>1. Good \in SUBSET (SUBSET S)
    OBVIOUS
  <2>. HIDE DEF Good
  <2>. QED BY <1>2, <1>3, <2>1, SubsetInduction
<1>. QED BY <1>1, <1>4
=============================================================================
