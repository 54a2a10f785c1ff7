----------------------------- MODULE DataLemmas ------------------------------
(***************************************************************************)
(* Facts about numbers, sums and sequences that the proofs of several      *)
(* components rest on.  The library's induction theorems take a predicate  *)
(* as a parameter; here an induction over a natural number is an argument  *)
(* about the least counterexample instead, which takes a set.              *)
(***************************************************************************)
EXTENDS Integers, Sequences, SequencesExt, FiniteSetsExt, FiniteSetTheorems,
        WellFoundedInduction, Selection, TLAPS

-----------------------------------------------------------------------------
(* Numbers                                                                 *)

(* A non-empty set of naturals has a least element.                        *)
LEMMA LeastNatural ==
    ASSUME NEW T \in SUBSET Nat, T # {}
    PROVE  \E m \in T : \A k \in T : m <= k
<1> DEFINE R == OpToRel(<, Nat)
<1>1. \A x, y \in Nat : x < y => <<x, y>> \in R
  BY Zenon DEF OpToRel
<1>2. IsWellFoundedOn(R, Nat)
  BY NatLessThanWellFounded, Zenon
<1> HIDE DEF R
<1>3. \E m \in T : \A k \in T : ~(<<k, m>> \in R)
  BY <1>2, WFMin, Zenon
<1>4. PICK m \in T : \A k \in T : ~(<<k, m>> \in R)
  BY <1>3
<1>5. \A k \in T : ~(k < m)
  BY <1>1, <1>4
<1> QED BY <1>5

(* A non-empty bounded set of naturals has a greatest element.             *)
LEMMA GreatestNatural ==
    ASSUME NEW S \in SUBSET Nat, S # {}, NEW n \in Nat, \A x \in S : x <= n
    PROVE  \E m \in S : \A x \in S : x <= m
<1> DEFINE T == {k \in Nat : \A x \in S : x <= k}
<1>1. T \subseteq Nat /\ T # {}
  OBVIOUS
<1>2. PICK m \in T : \A k \in T : m <= k
  BY <1>1, LeastNatural
<1>3. m \in S
  <2> SUFFICES ASSUME m \notin S PROVE FALSE
    OBVIOUS
  <2>1. PICK x \in S : TRUE
    OBVIOUS
  <2>2. m - 1 \in Nat /\ \A y \in S : y <= m - 1
    <3>1. \A y \in S : y <= m /\ y # m /\ y \in Nat
      BY <1>2
    <3>2. m \in Nat
      BY <1>2
    <3> QED BY <3>1, <3>2, <2>1
  <2> QED BY <2>2, <1>2
<1> QED BY <1>2, <1>3

(* A property of naturals, given as a set, that is inherited by a number   *)
(* from all smaller ones has no exception.                                 *)
LEMMA NoLeastExceptionIsNone ==
    ASSUME NEW T \in SUBSET Nat, \A n \in Nat : (\A k \in Nat : k < n => k \in T) => n \in T
    PROVE  T = Nat
<1> SUFFICES ASSUME Nat \ T # {} PROVE FALSE
  OBVIOUS
<1>1. PICK m \in Nat \ T : \A k \in Nat \ T : m <= k
  BY LeastNatural
<1> QED BY <1>1

-----------------------------------------------------------------------------
(* Sums                                                                    *)

(* The sum of f over a finite set.                                         *)
SumOver(f, S) == MapThenSumSet(LAMBDA a : f[a], S)

Pick(s) == CHOOSE x \in s : TRUE

(* g is the function that MapThenSumSet recurses with over D's subsets.    *)
Solves(g, D, f) ==
    g = [s \in SUBSET D |-> IF s = {} THEN 0 ELSE f[Pick(s)] + g[s \ {Pick(s)}]]

(* The library's sum is the value, at S, of the chosen solution of the     *)
(* sum's recursion.                                                        *)
LEMMA SumOverDef ==
    ASSUME NEW f, NEW S
    PROVE  SumOver(f, S) = (CHOOSE g : Solves(g, S, f))[S]
BY DEF SumOver, MapThenSumSet, MapThenFoldSet, Solves, Pick

(* The same on the subsets of at most n elements.                          *)
Sized(D, n) == {s \in SUBSET D : Cardinality(s) <= n}
SolvesUpTo(g, D, f, n) ==
    g = [s \in Sized(D, n) |-> IF s = {} THEN 0 ELSE f[Pick(s)] + g[s \ {Pick(s)}]]

(* The recursion takes one element of a finite set and goes on with a      *)
(* smaller one.                                                            *)
LEMMA PickFacts ==
    ASSUME NEW D, IsFiniteSet(D), NEW s \in SUBSET D, s # {}
    PROVE  /\ Pick(s) \in s /\ s \ {Pick(s)} \in SUBSET D
           /\ IsFiniteSet(s) /\ Cardinality(s) \in Nat \ {0}
           /\ Cardinality(s \ {Pick(s)}) = Cardinality(s) - 1
<1>1. Pick(s) \in s
  BY DEF Pick
<1>2. IsFiniteSet(s) /\ Cardinality(s) \in Nat
  BY FS_Subset, FS_CardinalityType
<1>3. Cardinality(s \ {Pick(s)}) = Cardinality(s) - 1
  BY <1>1, <1>2, FS_RemoveElement
<1>4. Cardinality(s) # 0
  BY <1>2, FS_EmptySet
<1> QED BY <1>1, <1>2, <1>3, <1>4

(* The recursion has a solution on the subsets of at most n elements.      *)
LEMMA PartialSolution ==
    ASSUME NEW D, IsFiniteSet(D), NEW f, NEW n \in Nat
    PROVE  \E g : SolvesUpTo(g, D, f, n)
<1> DEFINE T == {k \in Nat : \E g : SolvesUpTo(g, D, f, k)}
<1>1. ASSUME NEW k \in Nat, \A j \in Nat : j < k => j \in T
      PROVE  k \in T
  <2>1. CASE k = 0
    <3> DEFINE g == [s \in Sized(D, 0) |-> 0]
    <3>1. \A s \in Sized(D, 0) : s = {}
      <4> TAKE s \in Sized(D, 0)
      <4> SUFFICES ASSUME s # {} PROVE FALSE
        OBVIOUS
      <4>1. s \in SUBSET D /\ Cardinality(s) <= 0
        BY DEF Sized
      <4>2. Cardinality(s) \in Nat \ {0}
        BY <4>1, PickFacts
      <4> QED BY <4>1, <4>2
    <3>2. SolvesUpTo(g, D, f, 0)
      BY <3>1 DEF SolvesUpTo
    <3> QED BY <3>2, <2>1
  <2>2. CASE k # 0
    <3>0. k - 1 \in Nat /\ k - 1 < k
      BY <2>2
    <3>1. k - 1 \in T
      <4> HIDE DEF T
      <4> QED BY <1>1, <3>0
    <3>2. PICK h : SolvesUpTo(h, D, f, k - 1)
      BY <3>1
    <3> DEFINE g == [s \in Sized(D, k) |->
                       IF s = {} THEN 0 ELSE f[Pick(s)] + h[s \ {Pick(s)}]]
    <3>3. ASSUME NEW s \in Sized(D, k), s # {}
          PROVE  h[s \ {Pick(s)}] = g[s \ {Pick(s)}]
      <4> DEFINE t == s \ {Pick(s)}
      <4>1. s \in SUBSET D /\ Cardinality(s) <= k
        BY DEF Sized
      <4>2. /\ t \in SUBSET D /\ Cardinality(s) \in Nat
            /\ Cardinality(t) = Cardinality(s) - 1
        BY <4>1, <3>3, PickFacts
      <4>3. t \in Sized(D, k - 1) /\ t \in Sized(D, k)
        BY <4>1, <4>2 DEF Sized
      <4>4. h[t] = IF t = {} THEN 0 ELSE f[Pick(t)] + h[t \ {Pick(t)}]
        BY <3>2, <4>3 DEF SolvesUpTo
      <4>5. g[t] = IF t = {} THEN 0 ELSE f[Pick(t)] + h[t \ {Pick(t)}]
        BY <4>3
      <4> QED BY <4>4, <4>5
    <3>4. \A s \in Sized(D, k) : (IF s = {} THEN 0 ELSE f[Pick(s)] + h[s \ {Pick(s)}])
                                = (IF s = {} THEN 0 ELSE f[Pick(s)] + g[s \ {Pick(s)}])
      BY <3>3
    <3> HIDE DEF g
    <3>5. g = [s \in Sized(D, k) |->
                       IF s = {} THEN 0 ELSE f[Pick(s)] + h[s \ {Pick(s)}]]
      BY DEF g
    <3>6. SolvesUpTo(g, D, f, k)
      BY <3>4, <3>5 DEF SolvesUpTo
    <3> QED BY <3>6
  <2> QED BY <2>1, <2>2
<1>2. T = Nat
  <2> HIDE DEF T
  <2>1. T \in SUBSET Nat
    BY DEF T
  <2> QED BY <1>1, <2>1, NoLeastExceptionIsNone
<1> QED BY <1>2

(* The recursion has a solution over every finite set, so the chosen one is*)
(* a solution.                                                             *)
LEMMA SumSolves ==
    ASSUME NEW D, IsFiniteSet(D), NEW f
    PROVE  Solves(CHOOSE g : Solves(g, D, f), D, f)
<1>1. PICK n \in Nat : n = Cardinality(D)
  BY FS_CardinalityType
<1>2. SUBSET D = Sized(D, n)
  <2>1. \A s \in SUBSET D : Cardinality(s) <= n
    BY <1>1, FS_Subset
  <2> QED BY <2>1 DEF Sized
<1>3. PICK g : SolvesUpTo(g, D, f, n)
  BY PartialSolution
<1>4. Solves(g, D, f)
  BY <1>2, <1>3 DEF Solves, SolvesUpTo
<1> QED BY <1>4

(* Two solutions agree where both are defined.                             *)
LEMMA SolutionsAgree ==
    ASSUME NEW D, IsFiniteSet(D), NEW f, NEW g, Solves(g, D, f),
           NEW E \in SUBSET D, NEW h, Solves(h, E, f)
    PROVE  \A s \in SUBSET E : g[s] = h[s]
<1> DEFINE T == {n \in Nat : \A s \in SUBSET E : Cardinality(s) = n => g[s] = h[s]}
<1>1. ASSUME NEW n \in Nat, \A k \in Nat : k < n => k \in T
      PROVE  n \in T
  <2> SUFFICES ASSUME NEW s \in SUBSET E, Cardinality(s) = n PROVE g[s] = h[s]
    OBVIOUS
  <2>1. CASE s = {}
    BY <2>1 DEF Solves
  <2>2. CASE s # {}
    <3>0. IsFiniteSet(E)
      BY FS_Subset
    <3>1. /\ s \ {Pick(s)} \in SUBSET E
          /\ n - 1 \in Nat /\ Cardinality(s \ {Pick(s)}) = n - 1
      BY <3>0, <2>2, PickFacts
    <3>2. g[s \ {Pick(s)}] = h[s \ {Pick(s)}]
      <4>1. n - 1 \in T
        BY <3>1, <1>1
      <4> QED BY <4>1, <3>1
    <3>3. g[s] = f[Pick(s)] + g[s \ {Pick(s)}]
      BY <2>2 DEF Solves
    <3>4. h[s] = f[Pick(s)] + h[s \ {Pick(s)}]
      BY <2>2 DEF Solves
    <3> QED BY <3>2, <3>3, <3>4
  <2> QED BY <2>1, <2>2
<1>2. T = Nat
  <2> HIDE DEF T
  <2>1. T \in SUBSET Nat
    BY DEF T
  <2> QED BY <1>1, <2>1, NoLeastExceptionIsNone
<1>3. \A s \in SUBSET E : Cardinality(s) \in Nat
  BY FS_Subset, FS_CardinalityType
<1> QED BY <1>2, <1>3

(* The sum over no element, and over one element more than s.              *)
LEMMA SumUnfolds ==
    ASSUME NEW S, IsFiniteSet(S), NEW f
    PROVE  SumOver(f, S) = IF S = {} THEN 0 ELSE f[Pick(S)] + SumOver(f, S \ {Pick(S)})
<1> DEFINE g == CHOOSE e : Solves(e, S, f)
           R == S \ {Pick(S)}
           h == CHOOSE e : Solves(e, R, f)
<1>1. Solves(g, S, f)
  BY SumSolves
<1>2. IsFiniteSet(R)
  BY FS_Subset
<1>3. Solves(h, R, f)
  BY <1>2, SumSolves
<1>4. g[R] = h[R]
  <2> HIDE DEF g, h
  <2> QED BY <1>1, <1>2, <1>3, SolutionsAgree
<1>5. SumOver(f, S) = g[S] /\ SumOver(f, R) = h[R]
  BY SumOverDef
<1> HIDE DEF g, h
<1>6. g[S] = IF S = {} THEN 0 ELSE f[Pick(S)] + g[R]
  BY <1>1 DEF Solves
<1> QED BY <1>4, <1>5, <1>6

(* The sum over the empty set.                                             *)
LEMMA SumEmpty ==
    ASSUME NEW f
    PROVE  SumOver(f, {}) = 0
BY FS_EmptySet, SumUnfolds

(* A sum of integers over a finite set is an integer.                      *)
LEMMA SumType ==
    ASSUME NEW S, IsFiniteSet(S), NEW f, \A x \in S : f[x] \in Int
    PROVE  SumOver(f, S) \in Int
<1> DEFINE T == {n \in Nat : \A s \in SUBSET S : Cardinality(s) = n => SumOver(f, s) \in Int}
<1>1. ASSUME NEW n \in Nat, \A k \in Nat : k < n => k \in T
      PROVE  n \in T
  <2> SUFFICES ASSUME NEW s \in SUBSET S, Cardinality(s) = n PROVE SumOver(f, s) \in Int
    OBVIOUS
  <2>1. CASE s = {}
    BY <2>1, SumEmpty
  <2>2. CASE s # {}
    <3>1. /\ Pick(s) \in s /\ s \ {Pick(s)} \in SUBSET S /\ IsFiniteSet(s)
          /\ n - 1 \in Nat /\ n - 1 < n /\ Cardinality(s \ {Pick(s)}) = n - 1
      BY <2>2, PickFacts
    <3>2. n - 1 \in T
      <4> HIDE DEF T
      <4> QED BY <3>1, <1>1
    <3>3. SumOver(f, s \ {Pick(s)}) \in Int
      BY <3>1, <3>2
    <3>4. SumOver(f, s) = f[Pick(s)] + SumOver(f, s \ {Pick(s)})
      BY <2>2, <3>1, SumUnfolds
    <3>5. f[Pick(s)] \in Int
      BY <3>1
    <3> QED BY <3>3, <3>4, <3>5
  <2> QED BY <2>1, <2>2
<1>2. T = Nat
  <2> HIDE DEF T
  <2>1. T \in SUBSET Nat
    BY DEF T
  <2> QED BY <1>1, <2>1, NoLeastExceptionIsNone
<1>3. Cardinality(S) \in Nat
  BY FS_CardinalityType
<1> QED BY <1>2, <1>3

(* Whatever element is taken out, the sum is that element's share and the  *)
(* rest: the order of the recursion does not matter.                       *)
LEMMA SumRemove ==
    ASSUME NEW S, IsFiniteSet(S), NEW f, \A x \in S : f[x] \in Int, NEW a \in S
    PROVE  SumOver(f, S) = f[a] + SumOver(f, S \ {a})
<1> DEFINE T == {n \in Nat : \A s \in SUBSET S : \A x \in s :
                      Cardinality(s) = n => SumOver(f, s) = f[x] + SumOver(f, s \ {x})}
<1>1. ASSUME NEW n \in Nat, \A k \in Nat : k < n => k \in T
      PROVE  n \in T
  <2> SUFFICES ASSUME NEW s \in SUBSET S, NEW x \in s, Cardinality(s) = n
               PROVE  SumOver(f, s) = f[x] + SumOver(f, s \ {x})
    OBVIOUS
  <2> DEFINE p == Pick(s)
  <2>1. /\ p \in s /\ s \ {p} \in SUBSET S /\ IsFiniteSet(s)
        /\ n - 1 \in Nat /\ n - 1 < n /\ Cardinality(s \ {p}) = n - 1
    BY PickFacts
  <2>2. SumOver(f, s) = f[p] + SumOver(f, s \ {p})
    BY <2>1, SumUnfolds
  <2> HIDE DEF p
  <2>3. CASE x = p
    BY <2>2, <2>3
  <2>4. CASE x # p
    <3>1. x \in s \ {p} /\ p \in s \ {x}
      BY <2>1, <2>4
    <3>2. n - 1 \in T
      <4> HIDE DEF T
      <4> QED BY <2>1, <1>1
    <3>3. SumOver(f, s \ {p}) = f[x] + SumOver(f, (s \ {p}) \ {x})
      BY <3>1, <3>2, <2>1
    <3>4. /\ IsFiniteSet(s \ {x}) /\ Cardinality(s \ {x}) = n - 1
          /\ s \ {x} \in SUBSET S
      BY <2>1, FS_RemoveElement
    <3>5. SumOver(f, s \ {x}) = f[p] + SumOver(f, (s \ {x}) \ {p})
      BY <3>1, <3>2, <3>4
    <3>6. (s \ {x}) \ {p} = (s \ {p}) \ {x}
      OBVIOUS
    <3>7. SumOver(f, (s \ {p}) \ {x}) \in Int /\ f[x] \in Int /\ f[p] \in Int
      <4>1. IsFiniteSet((s \ {p}) \ {x})
        BY <2>1, FS_Subset
      <4> QED BY <2>1, <4>1, SumType
    <3> DEFINE A == SumOver(f, (s \ {p}) \ {x})
               B == SumOver(f, s \ {p})
               C == SumOver(f, s \ {x})
               W == SumOver(f, s)
    <3>8. /\ W = f[p] + B /\ B = f[x] + A /\ C = f[p] + A
          /\ A \in Int /\ f[x] \in Int /\ f[p] \in Int
      BY <2>2, <3>3, <3>5, <3>6, <3>7
    <3>9. W = f[x] + C
      <4> HIDE DEF A, B, C, W
      <4> QED BY <3>8
    <3> QED BY <3>9
  <2> QED BY <2>3, <2>4
<1>2. T = Nat
  <2> HIDE DEF T
  <2>1. T \in SUBSET Nat
    BY DEF T
  <2> QED BY <1>1, <2>1, NoLeastExceptionIsNone
<1>3. Cardinality(S) \in Nat
  BY FS_CardinalityType
<1> QED BY <1>2, <1>3

(* A new element adds its value to the sum, whichever element the recursion*)
(* picks first.                                                            *)
LEMMA SumAdd ==
    ASSUME NEW S, IsFiniteSet(S), NEW a, a \notin S, NEW f, \A x \in S \cup {a} : f[x] \in Int
    PROVE  SumOver(f, S \cup {a}) = f[a] + SumOver(f, S)
<1>1. IsFiniteSet(S \cup {a})
  BY FS_AddElement
<1>2. (S \cup {a}) \ {a} = S
  OBVIOUS
<1> QED BY <1>1, <1>2, SumRemove

(* The sum sees only the values at the elements.                           *)
LEMMA SumSame ==
    ASSUME NEW S, IsFiniteSet(S), NEW f, NEW g, \A x \in S : f[x] = g[x]
    PROVE  SumOver(f, S) = SumOver(g, S)
<1> DEFINE T == {n \in Nat : \A s \in SUBSET S :
                      Cardinality(s) = n => SumOver(f, s) = SumOver(g, s)}
<1>1. ASSUME NEW n \in Nat, \A k \in Nat : k < n => k \in T
      PROVE  n \in T
  <2> SUFFICES ASSUME NEW s \in SUBSET S, Cardinality(s) = n
               PROVE  SumOver(f, s) = SumOver(g, s)
    OBVIOUS
  <2>1. CASE s = {}
    BY <2>1, SumEmpty
  <2>2. CASE s # {}
    <3>1. /\ Pick(s) \in s /\ s \ {Pick(s)} \in SUBSET S /\ IsFiniteSet(s)
          /\ n - 1 \in Nat /\ n - 1 < n /\ Cardinality(s \ {Pick(s)}) = n - 1
      BY <2>2, PickFacts
    <3>2. n - 1 \in T
      <4> HIDE DEF T
      <4> QED BY <3>1, <1>1
    <3>3. SumOver(f, s \ {Pick(s)}) = SumOver(g, s \ {Pick(s)})
      BY <3>1, <3>2
    <3>4. /\ SumOver(f, s) = f[Pick(s)] + SumOver(f, s \ {Pick(s)})
          /\ SumOver(g, s) = g[Pick(s)] + SumOver(g, s \ {Pick(s)})
      BY <2>2, <3>1, SumUnfolds
    <3> QED BY <3>1, <3>3, <3>4
  <2> QED BY <2>1, <2>2
<1>2. T = Nat
  <2> HIDE DEF T
  <2>1. T \in SUBSET Nat
    BY DEF T
  <2> QED BY <1>1, <2>1, NoLeastExceptionIsNone
<1>3. Cardinality(S) \in Nat
  BY FS_CardinalityType
<1> QED BY <1>2, <1>3

(* Naturals: a sum is one too, a part of the set sums up to no more, and   *)
(* no term exceeds the sum.                                                *)
LEMMA SumMonotone ==
    ASSUME NEW S, IsFiniteSet(S), NEW f, \A x \in S : f[x] \in Nat, NEW R \in SUBSET S
    PROVE  SumOver(f, R) \in Nat /\ SumOver(f, S) \in Nat /\ SumOver(f, R) <= SumOver(f, S)
<1> DEFINE T == {n \in Nat : \A s \in SUBSET S : Cardinality(s) = n =>
                   SumOver(f, s) \in Nat /\ \A r \in SUBSET s :
                        SumOver(f, r) \in Nat /\ SumOver(f, r) <= SumOver(f, s)}
<1>1. ASSUME NEW n \in Nat, \A k \in Nat : k < n => k \in T
      PROVE  n \in T
  <2> SUFFICES ASSUME NEW s \in SUBSET S, Cardinality(s) = n
               PROVE  SumOver(f, s) \in Nat /\ \A r \in SUBSET s :
                        SumOver(f, r) \in Nat /\ SumOver(f, r) <= SumOver(f, s)
    OBVIOUS
  <2>0. IsFiniteSet(s)
    BY FS_Subset
  <2>1. CASE s = {}
    BY <2>1, SumEmpty
  <2>2. CASE s # {}
    <3>0. ASSUME NEW x \in s
          PROVE  /\ SumOver(f, s) = f[x] + SumOver(f, s \ {x})
                 /\ SumOver(f, s \ {x}) \in Nat /\ f[x] \in Nat
                 /\ \A r \in SUBSET (s \ {x}) :
                        SumOver(f, r) \in Nat /\ SumOver(f, r) <= SumOver(f, s \ {x})
      <4>1. IsFiniteSet(s \ {x}) /\ Cardinality(s \ {x}) = n - 1 /\ n - 1 \in Nat /\ n - 1 < n
        <5>1. IsFiniteSet(s \ {x}) /\ Cardinality(s \ {x}) = Cardinality(s) - 1
          BY <2>0, FS_RemoveElement
        <5>2. Cardinality(s \ {x}) \in Nat
          BY <5>1, FS_CardinalityType
        <5> HIDE DEF T
        <5> QED BY <5>1, <5>2
      <4>2. n - 1 \in T
        <5> HIDE DEF T
        <5> QED BY <4>1, <1>1
      <4>3. \A y \in s : f[y] \in Int
        OBVIOUS
      <4>4. SumOver(f, s) = f[x] + SumOver(f, s \ {x})
        BY <2>0, <4>3, SumRemove
      <4> QED BY <4>1, <4>2, <4>4
    <3>1. SumOver(f, s) \in Nat
      <4>1. PICK x \in s : TRUE
        BY <2>2
      <4>2. /\ SumOver(f, s) = f[x] + SumOver(f, s \ {x})
            /\ SumOver(f, s \ {x}) \in Nat /\ f[x] \in Nat
        BY <3>0
      <4> HIDE DEF T
      <4> QED BY <4>2
    <3>2. ASSUME NEW r \in SUBSET s
          PROVE  SumOver(f, r) \in Nat /\ SumOver(f, r) <= SumOver(f, s)
      <4>1. CASE r = s
        BY <4>1, <3>1
      <4>2. CASE r # s
        <5>1. PICK x \in s : x \notin r
          BY <4>2
        <5>2. r \in SUBSET (s \ {x})
          BY <5>1
        <5>3. /\ SumOver(f, s) = f[x] + SumOver(f, s \ {x})
              /\ SumOver(f, s \ {x}) \in Nat /\ f[x] \in Nat
              /\ SumOver(f, r) \in Nat /\ SumOver(f, r) <= SumOver(f, s \ {x})
          BY <3>0, <5>2
        <5> QED BY <5>3
      <4> QED BY <4>1, <4>2
    <3> QED BY <3>1, <3>2
  <2> QED BY <2>1, <2>2
<1>2. T = Nat
  <2> HIDE DEF T
  <2>1. T \in SUBSET Nat
    BY DEF T
  <2> QED BY <1>1, <2>1, NoLeastExceptionIsNone
<1>3. Cardinality(S) \in Nat
  BY FS_CardinalityType
<1> QED BY <1>2, <1>3

(* v has the amounts x, those of P as they are and those of Q negated.     *)
Signs(v, x, S, P, Q) ==
    /\ P \cap Q = {}
    /\ \A i \in S : x[i] \in Int
    /\ \A i \in S \cap P : v[i] = x[i]
    /\ \A i \in S \cap Q : v[i] = -x[i]
    /\ \A i \in S : i \notin P /\ i \notin Q => v[i] = 0

(* A sum with signs is the difference of two sums.                         *)
LEMMA SumSigned ==
    ASSUME NEW S, IsFiniteSet(S), NEW v, NEW x, NEW P, NEW Q, Signs(v, x, S, P, Q)
    PROVE  SumOver(v, S) = SumOver(x, S \cap P) - SumOver(x, S \cap Q)
<1> USE DEF Signs
<1> DEFINE T == {n \in Nat : \A s \in SUBSET S : Cardinality(s) = n =>
                   SumOver(v, s) = SumOver(x, s \cap P) - SumOver(x, s \cap Q)}
<1>1. ASSUME NEW n \in Nat, \A k \in Nat : k < n => k \in T
      PROVE  n \in T
  <2> SUFFICES ASSUME NEW s \in SUBSET S, Cardinality(s) = n
               PROVE  SumOver(v, s) = SumOver(x, s \cap P) - SumOver(x, s \cap Q)
    OBVIOUS
  <2>0. IsFiniteSet(s) /\ IsFiniteSet(s \cap P) /\ IsFiniteSet(s \cap Q)
    BY FS_Subset
  <2>1. CASE s = {}
    <3>1. s \cap P = {} /\ s \cap Q = {}
      BY <2>1
    <3>2. SumOver(v, {}) = 0 /\ SumOver(x, {}) = 0
      BY SumEmpty
    <3> QED BY <2>1, <3>1, <3>2
  <2>2. CASE s # {}
    <3>1. PICK i \in s : TRUE
      BY <2>2
    <3> DEFINE r == s \ {i}
               a == SumOver(x, r \cap P)
               b == SumOver(x, r \cap Q)
    <3>2. r \in SUBSET S /\ IsFiniteSet(r) /\ Cardinality(r) = n - 1 /\ n - 1 \in Nat /\ n - 1 < n
      <4>1. IsFiniteSet(r) /\ Cardinality(r) = n - 1
        BY <2>0, FS_RemoveElement
      <4>2. Cardinality(r) \in Nat
        BY <4>1, FS_CardinalityType
      <4> QED BY <4>1, <4>2
    <3>3. SumOver(v, r) = a - b
      <4>1. n - 1 \in T
        BY <1>1, <3>2
      <4> QED BY <3>2, <4>1
    <3>4. a \in Int /\ b \in Int
      <4>1. IsFiniteSet(r \cap P) /\ IsFiniteSet(r \cap Q)
        BY <3>2, FS_Subset
      <4>2. \A j \in r : x[j] \in Int
        OBVIOUS
      <4> QED BY <4>1, <4>2, SumType
    <3>5. SumOver(v, s) = v[i] + SumOver(v, r)
      <4>1. \A j \in s : v[j] \in Int
        OBVIOUS
      <4> QED BY <2>0, <4>1, SumRemove
    <3>6. CASE i \in P
      <4>1. i \notin Q /\ s \cap Q = r \cap Q /\ (s \cap P) \ {i} = r \cap P /\ i \in s \cap P
        BY <3>6
      <4>2. \A j \in s \cap P : x[j] \in Int
        OBVIOUS
      <4>3. SumOver(x, s \cap P) = x[i] + a
        BY <2>0, <4>1, <4>2, SumRemove
      <4>4. v[i] = x[i] /\ x[i] \in Int
        BY <3>6
      <4> HIDE DEF T, r, a, b
      <4>5. SumOver(x, s \cap Q) = b
        BY <4>1 DEF b
      <4> QED BY <3>3, <3>4, <3>5, <4>3, <4>4, <4>5
    <3>7. CASE i \in Q
      <4>1. i \notin P /\ s \cap P = r \cap P /\ (s \cap Q) \ {i} = r \cap Q /\ i \in s \cap Q
        BY <3>7
      <4>2. \A j \in s \cap Q : x[j] \in Int
        OBVIOUS
      <4>3. SumOver(x, s \cap Q) = x[i] + b
        BY <2>0, <4>1, <4>2, SumRemove
      <4>4. v[i] = -x[i] /\ x[i] \in Int
        BY <3>7, <4>1
      <4> HIDE DEF T, r, a, b
      <4>5. SumOver(x, s \cap P) = a
        BY <4>1 DEF a
      <4> QED BY <3>3, <3>4, <3>5, <4>3, <4>4, <4>5
    <3>8. CASE i \notin P /\ i \notin Q
      <4>1. s \cap P = r \cap P /\ s \cap Q = r \cap Q
        BY <3>8
      <4>2. v[i] = 0
        BY <3>8
      <4>3. SumOver(x, s \cap P) = a /\ SumOver(x, s \cap Q) = b
        BY <4>1
      <4> HIDE DEF T, r, a, b
      <4> QED BY <3>3, <3>4, <3>5, <4>2, <4>3
    <3> QED BY <3>6, <3>7, <3>8
  <2> QED BY <2>1, <2>2
<1>2. T = Nat
  <2> HIDE DEF T
  <2>1. T \in SUBSET Nat
    BY DEF T
  <2> QED BY <1>1, <2>1, NoLeastExceptionIsNone
<1>3. Cardinality(S) \in Nat
  BY FS_CardinalityType
<1> QED BY <1>2, <1>3

(* A sum of zeros is zero.                                                 *)
LEMMA SumZero ==
    ASSUME NEW S, IsFiniteSet(S), NEW v, \A i \in S : v[i] = 0
    PROVE  SumOver(v, S) = 0
<1> DEFINE T == {n \in Nat : \A s \in SUBSET S : Cardinality(s) = n => SumOver(v, s) = 0}
<1>1. ASSUME NEW n \in Nat, \A k \in Nat : k < n => k \in T
      PROVE  n \in T
  <2> SUFFICES ASSUME NEW s \in SUBSET S, Cardinality(s) = n
               PROVE  SumOver(v, s) = 0
    OBVIOUS
  <2>0. IsFiniteSet(s)
    BY FS_Subset
  <2>1. CASE s = {}
    BY <2>1, SumEmpty
  <2>2. CASE s # {}
    <3>1. PICK i \in s : TRUE
      BY <2>2
    <3> DEFINE r == s \ {i}
    <3>2. r \in SUBSET S /\ Cardinality(r) = n - 1 /\ n - 1 \in Nat /\ n - 1 < n
      <4>1. IsFiniteSet(r) /\ Cardinality(r) = n - 1
        BY <2>0, FS_RemoveElement
      <4>2. Cardinality(r) \in Nat
        BY <4>1, FS_CardinalityType
      <4> QED BY <4>1, <4>2
    <3>3. SumOver(v, r) = 0
      <4>1. n - 1 \in T
        BY <1>1, <3>2
      <4> QED BY <3>2, <4>1
    <3>4. SumOver(v, s) = v[i] + SumOver(v, r)
      <4>1. \A j \in s : v[j] \in Int
        OBVIOUS
      <4> QED BY <2>0, <4>1, SumRemove
    <3> QED BY <3>3, <3>4
  <2> QED BY <2>1, <2>2
<1>2. T = Nat
  <2> HIDE DEF T
  <2>1. T \in SUBSET Nat
    BY DEF T
  <2> QED BY <1>1, <2>1, NoLeastExceptionIsNone
<1>3. Cardinality(S) \in Nat
  BY FS_CardinalityType
<1> QED BY <1>2, <1>3

(* Summing group by group is summing.                                      *)
LEMMA SumPartition ==
    ASSUME NEW I, IsFiniteSet(I), NEW v, \A i \in I : v[i] \in Int,
           NEW A, IsFiniteSet(A), NEW group, \A i \in I : group[i] \in A
    PROVE  SumOver([a \in A |-> SumOver(v, {i \in I : group[i] = a})], A) = SumOver(v, I)
<1> DEFINE net(s) == [a \in A |-> SumOver(v, {i \in s : group[i] = a})]
           T == {n \in Nat : \A s \in SUBSET I : Cardinality(s) = n =>
                   SumOver(net(s), A) = SumOver(v, s)}
<1>0. ASSUME NEW s \in SUBSET I, NEW a \in A
      PROVE  /\ IsFiniteSet({i \in s : group[i] = a})
             /\ net(s)[a] = SumOver(v, {i \in s : group[i] = a}) /\ net(s)[a] \in Int
  <2>1. IsFiniteSet({i \in s : group[i] = a})
    BY FS_Subset
  <2>2. \A i \in {j \in s : group[j] = a} : v[i] \in Int
    OBVIOUS
  <2> QED BY <2>1, <2>2, SumType
<1> HIDE DEF net
<1>1. ASSUME NEW n \in Nat, \A k \in Nat : k < n => k \in T
      PROVE  n \in T
  <2> SUFFICES ASSUME NEW s \in SUBSET I, Cardinality(s) = n
               PROVE  SumOver(net(s), A) = SumOver(v, s)
    OBVIOUS
  <2>0. IsFiniteSet(s)
    BY FS_Subset
  <2>1. CASE s = {}
    <3>1. \A a \in A : net(s)[a] = 0
      <4> TAKE a \in A
      <4>1. {i \in s : group[i] = a} = {}
        BY <2>1
      <4> QED BY <1>0, <4>1, SumEmpty
    <3>2. SumOver(net(s), A) = 0
      BY <3>1, SumZero
    <3>3. SumOver(v, {}) = 0
      BY SumEmpty
    <3> QED BY <2>1, <3>2, <3>3
  <2>2. CASE s # {}
    <3>1. PICK i \in s : TRUE
      BY <2>2
    <3> DEFINE r == s \ {i}
               b == group[i]
    <3>2. r \in SUBSET I /\ b \in A /\ Cardinality(r) = n - 1 /\ n - 1 \in Nat /\ n - 1 < n
      <4>1. IsFiniteSet(r) /\ Cardinality(r) = n - 1
        BY <2>0, FS_RemoveElement
      <4>2. Cardinality(r) \in Nat
        BY <4>1, FS_CardinalityType
      <4> QED BY <4>1, <4>2
    <3>3. SumOver(net(r), A) = SumOver(v, r)
      <4>1. n - 1 \in T
        BY <1>1, <3>2
      <4> QED BY <3>2, <4>1
    <3>4. net(s)[b] = v[i] + net(r)[b]
      <4> DEFINE G == {j \in s : group[j] = b}
      <4>1. i \in G /\ G \ {i} = {j \in r : group[j] = b} /\ \A j \in G : v[j] \in Int
        OBVIOUS
      <4>2. IsFiniteSet(G) /\ net(s)[b] = SumOver(v, G)
        BY <1>0, <3>2
      <4>3. SumOver(v, G) = v[i] + SumOver(v, G \ {i})
        <5> HIDE DEF G
        <5> QED BY <4>1, <4>2, SumRemove
      <4>4. net(r)[b] = SumOver(v, G \ {i})
        <5>1. net(r)[b] = SumOver(v, {j \in r : group[j] = b})
          <6> HIDE DEF r, b
          <6> QED BY <1>0, <3>2
        <5> QED BY <4>1, <5>1
      <4> QED BY <4>2, <4>3, <4>4
    <3>5. \A a \in A \ {b} : net(s)[a] = net(r)[a]
      <4> TAKE a \in A \ {b}
      <4>1. {j \in s : group[j] = a} = {j \in r : group[j] = a}
        OBVIOUS
      <4>2. /\ net(s)[a] = SumOver(v, {j \in s : group[j] = a})
            /\ net(r)[a] = SumOver(v, {j \in r : group[j] = a})
        <5> HIDE DEF r
        <5> QED BY <1>0, <3>2
      <4> QED BY <4>1, <4>2
    <3>6. /\ \A a \in A : net(s)[a] \in Int
          /\ \A a \in A : net(r)[a] \in Int
      BY <1>0, <3>2
    <3>7. /\ SumOver(net(s), A) = net(s)[b] + SumOver(net(s), A \ {b})
          /\ SumOver(net(r), A) = net(r)[b] + SumOver(net(r), A \ {b})
      <4> HIDE DEF b, r
      <4> QED BY <3>2, <3>6, SumRemove
    <3>8. /\ SumOver(net(s), A \ {b}) = SumOver(net(r), A \ {b})
          /\ SumOver(net(r), A \ {b}) \in Int
      <4>1. IsFiniteSet(A \ {b})
        BY FS_Subset
      <4>2. \A a \in A \ {b} : net(r)[a] \in Int
        BY <3>6
      <4> HIDE DEF b, r
      <4> QED BY <3>5, <4>1, <4>2, SumSame, SumType
    <3>9. SumOver(v, s) = v[i] + SumOver(v, r)
      <4>1. \A j \in s : v[j] \in Int
        OBVIOUS
      <4> QED BY <2>0, <4>1, SumRemove
    <3>10. v[i] \in Int /\ net(r)[b] \in Int
      BY <3>2, <3>6
    <3> DEFINE z == SumOver(net(r), A \ {b})
               y == net(r)[b]
    <3>11. /\ SumOver(net(s), A) = (v[i] + y) + z
           /\ SumOver(v, s) = v[i] + (y + z)
      BY <3>3, <3>4, <3>7, <3>8, <3>9
    <3>12. v[i] \in Int /\ y \in Int /\ z \in Int
      BY <3>8, <3>10
    <3> HIDE DEF T, b, r, y, z
    <3> QED BY <3>11, <3>12
  <2> QED BY <2>1, <2>2
<1>2. T = Nat
  <2> HIDE DEF T
  <2>1. T \in SUBSET Nat
    BY DEF T
  <2> QED BY <1>1, <2>1, NoLeastExceptionIsNone
<1>3. Cardinality(I) \in Nat
  BY FS_CardinalityType
<1>4. SumOver(net(I), A) = SumOver(v, I)
  BY <1>2, <1>3
<1> QED BY <1>4 DEF net

(* The sum over two sequences one after the other.                         *)
LEMMA SumConcat ==
    ASSUME NEW n \in Nat, NEW m \in Nat, NEW f, NEW g, NEW h,
           \A i \in 1..n : g[i] \in Int /\ f[i] = g[i],
           \A j \in 1..m : h[j] \in Int /\ f[n + j] = h[j]
    PROVE  SumOver(f, 1..(n + m)) = SumOver(g, 1..n) + SumOver(h, 1..m)
<1>0. ASSUME NEW i \in 1..(n + m) PROVE f[i] \in Int
  <2>1. CASE i \in 1..n
    BY <2>1
  <2>2. CASE i \notin 1..n
    <3>1. i - n \in 1..m /\ i = n + (i - n)
      BY <2>2
    <3> QED BY <3>1
  <2> QED BY <2>1, <2>2
<1>a. SumOver(f, 1..n) = SumOver(g, 1..n) /\ SumOver(g, 1..n) \in Int
  <2>1. IsFiniteSet(1..n)
    BY FS_Interval
  <2> QED BY <2>1, SumSame, SumType
<1> DEFINE T == {k \in Nat : k <= m => SumOver(f, 1..(n + k)) = SumOver(g, 1..n) + SumOver(h, 1..k)}
<1>1. ASSUME NEW k \in Nat, \A j \in Nat : j < k => j \in T PROVE k \in T
  <2> SUFFICES ASSUME k <= m
               PROVE  SumOver(f, 1..(n + k)) = SumOver(g, 1..n) + SumOver(h, 1..k)
    OBVIOUS
  <2>1. CASE k = 0
    <3>1. 1..k = {} /\ n + k = n /\ SumOver(h, {}) = 0
      BY <2>1, SumEmpty
    <3> QED BY <1>a, <3>1
  <2>2. CASE k # 0
    <3> DEFINE j == k - 1
               X == 1..(n + j)
               Y == 1..j
    <3>1. /\ j \in Nat /\ j < k /\ j <= m /\ k \in 1..m
          /\ n + k \notin X /\ 1..(n + k) = X \cup {n + k}
          /\ k \notin Y /\ 1..k = Y \cup {k}
      BY <2>2
    <3>2. SumOver(f, X) = SumOver(g, 1..n) + SumOver(h, Y)
      <4>1. j \in T
        BY <1>1, <3>1
      <4> QED BY <3>1, <4>1
    <3>3. IsFiniteSet(X) /\ IsFiniteSet(Y)
      BY <3>1, FS_Interval
    <3>4. /\ \A i \in X \cup {n + k} : f[i] \in Int
          /\ \A i \in Y \cup {k} : h[i] \in Int
      <4>1. X \cup {n + k} \subseteq 1..(n + m) /\ Y \cup {k} \subseteq 1..m
        BY <3>1
      <4> HIDE DEF X, Y
      <4> QED BY <1>0, <4>1
    <3>5. f[n + k] = h[k] /\ h[k] \in Int
      BY <3>1
    <3> HIDE DEF T, X, Y, j
    <3>6. SumOver(f, X \cup {n + k}) = f[n + k] + SumOver(f, X)
      BY <3>1, <3>3, <3>4, SumAdd
    <3>7. SumOver(h, Y \cup {k}) = h[k] + SumOver(h, Y) /\ SumOver(h, Y) \in Int
      BY <3>1, <3>3, <3>4, SumAdd, SumType
    <3>8. /\ SumOver(f, 1..(n + k)) = h[k] + (SumOver(g, 1..n) + SumOver(h, Y))
          /\ SumOver(h, 1..k) = h[k] + SumOver(h, Y)
      BY <3>1, <3>2, <3>5, <3>6, <3>7
    <3> QED BY <1>a, <3>5, <3>7, <3>8
  <2> QED BY <2>1, <2>2
<1>2. T = Nat
  <2> HIDE DEF T
  <2>1. T \in SUBSET Nat
    BY DEF T
  <2> QED BY <1>1, <2>1, NoLeastExceptionIsNone
<1> QED BY <1>2

(* The sum over one element.                                               *)
LEMMA SumOne ==
    ASSUME NEW f, NEW a, f[a] \in Int
    PROVE  SumOver(f, {a}) = f[a]
<1>1. IsFiniteSet({}) /\ a \notin {} /\ {} \cup {a} = {a} /\ SumOver(f, {}) = 0
  BY FS_EmptySet, SumEmpty
<1>2. SumOver(f, {} \cup {a}) = f[a] + SumOver(f, {})
  BY <1>1, SumAdd
<1> QED BY <1>1, <1>2

(* Multiplying every term multiplies the sum.                              *)
LEMMA SumScale ==
    ASSUME NEW S, IsFiniteSet(S), NEW f, NEW g, NEW k \in Int,
           \A x \in S : f[x] \in Int /\ g[x] = k * f[x]
    PROVE  SumOver(g, S) = k * SumOver(f, S)
<1> DEFINE T == {n \in Nat : \A s \in SUBSET S :
                      Cardinality(s) = n => SumOver(g, s) = k * SumOver(f, s)}
<1>1. ASSUME NEW n \in Nat, \A j \in Nat : j < n => j \in T
      PROVE  n \in T
  <2> SUFFICES ASSUME NEW s \in SUBSET S, Cardinality(s) = n
               PROVE  SumOver(g, s) = k * SumOver(f, s)
    OBVIOUS
  <2>0. IsFiniteSet(s)
    BY FS_Subset
  <2>1. CASE s = {}
    <3>1. SumOver(g, s) = 0 /\ SumOver(f, s) = 0
      BY <2>1, SumEmpty
    <3> QED BY <3>1
  <2>2. CASE s # {}
    <3>1. PICK x \in s : TRUE
      BY <2>2
    <3> DEFINE r == s \ {x}
               a == SumOver(f, r)
    <3>2. r \in SUBSET S /\ IsFiniteSet(r) /\ Cardinality(r) = n - 1 /\ n - 1 \in Nat /\ n - 1 < n
      <4>1. IsFiniteSet(r) /\ Cardinality(r) = n - 1
        BY <2>0, FS_RemoveElement
      <4>2. Cardinality(r) \in Nat
        BY <4>1, FS_CardinalityType
      <4> QED BY <4>1, <4>2
    <3>3. SumOver(g, r) = k * a
      <4>1. n - 1 \in T
        BY <1>1, <3>2
      <4> QED BY <3>2, <4>1
    <3>4. a \in Int
      BY <3>2, SumType
    <3>5. /\ \A y \in s : f[y] \in Int
          /\ \A y \in s : g[y] \in Int
      OBVIOUS
    <3>6. SumOver(f, s) = f[x] + a /\ SumOver(g, s) = g[x] + SumOver(g, r)
      BY <2>0, <3>5, SumRemove
    <3>7. g[x] = k * f[x] /\ f[x] \in Int
      OBVIOUS
    <3>8. SumOver(g, s) = k * f[x] + k * a
      BY <3>3, <3>6, <3>7
    <3> HIDE DEF T, r, a
    <3>9. k * (f[x] + a) = k * f[x] + k * a
      BY <3>4, <3>7
    <3> QED BY <3>6, <3>8, <3>9
  <2> QED BY <2>1, <2>2
<1>2. T = Nat
  <2> HIDE DEF T
  <2>1. T \in SUBSET Nat
    BY DEF T
  <2> QED BY <1>1, <2>1, NoLeastExceptionIsNone
<1>3. Cardinality(S) \in Nat
  BY FS_CardinalityType
<1> QED BY <1>2, <1>3

(* A sum of smaller terms is smaller.                                      *)
LEMMA SumLess ==
    ASSUME NEW S, IsFiniteSet(S), NEW f, NEW g,
           \A x \in S : f[x] \in Int /\ g[x] \in Int /\ f[x] <= g[x]
    PROVE  SumOver(f, S) <= SumOver(g, S)
<1> DEFINE T == {n \in Nat : \A s \in SUBSET S :
                      Cardinality(s) = n => SumOver(f, s) <= SumOver(g, s)}
<1>1. ASSUME NEW n \in Nat, \A j \in Nat : j < n => j \in T
      PROVE  n \in T
  <2> SUFFICES ASSUME NEW s \in SUBSET S, Cardinality(s) = n
               PROVE  SumOver(f, s) <= SumOver(g, s)
    OBVIOUS
  <2>0. IsFiniteSet(s)
    BY FS_Subset
  <2>1. CASE s = {}
    <3>1. SumOver(g, s) = 0 /\ SumOver(f, s) = 0
      BY <2>1, SumEmpty
    <3> QED BY <3>1
  <2>2. CASE s # {}
    <3>1. PICK x \in s : TRUE
      BY <2>2
    <3> DEFINE r == s \ {x}
               a == SumOver(f, r)
               b == SumOver(g, r)
    <3>2. r \in SUBSET S /\ IsFiniteSet(r) /\ Cardinality(r) = n - 1 /\ n - 1 \in Nat /\ n - 1 < n
      <4>1. IsFiniteSet(r) /\ Cardinality(r) = n - 1
        BY <2>0, FS_RemoveElement
      <4>2. Cardinality(r) \in Nat
        BY <4>1, FS_CardinalityType
      <4> QED BY <4>1, <4>2
    <3>3. a <= b
      <4>1. n - 1 \in T
        BY <1>1, <3>2
      <4> QED BY <3>2, <4>1
    <3>4. a \in Int /\ b \in Int
      BY <3>2, SumType
    <3>5. /\ \A y \in s : f[y] \in Int
          /\ \A y \in s : g[y] \in Int
      OBVIOUS
    <3>6. SumOver(f, s) = f[x] + a /\ SumOver(g, s) = g[x] + b
      BY <2>0, <3>5, SumRemove
    <3>7. g[x] \in Int /\ f[x] \in Int /\ f[x] <= g[x]
      OBVIOUS
    <3> HIDE DEF T, r, a, b
    <3> QED BY <3>3, <3>4, <3>6, <3>7
  <2> QED BY <2>1, <2>2
<1>2. T = Nat
  <2> HIDE DEF T
  <2>1. T \in SUBSET Nat
    BY DEF T
  <2> QED BY <1>1, <2>1, NoLeastExceptionIsNone
<1>3. Cardinality(S) \in Nat
  BY FS_CardinalityType
<1> QED BY <1>2, <1>3

(* g has the terms of v under other names.                                 *)
Renames(g, v, b, D, S) ==
    b \in Bijection(D, S) /\ (\A i \in D : g[i] = v[b[i]]) /\ \A a \in S : v[a] \in Int

(* A sum does not depend on the names of its terms.                        *)
LEMMA SumReindex ==
    ASSUME NEW D, IsFiniteSet(D), NEW S, IsFiniteSet(S), NEW b, NEW v, NEW g,
           Renames(g, v, b, D, S)
    PROVE  SumOver(g, D) = SumOver(v, S)
<1> USE DEF Renames
<1> DEFINE part == [a \in S |-> SumOver(g, {i \in D : b[i] = a})]
<1>1. b \in [D -> S] /\ IsInjective(b) /\ \A a \in S : \E i \in D : b[i] = a
  BY DEF Bijection, Injection, Surjection
<1>2. \A i \in D : g[i] \in Int /\ b[i] \in S
  BY <1>1
<1>3. SumOver(part, S) = SumOver(g, D)
  BY <1>2, SumPartition
<1>4. ASSUME NEW a \in S PROVE part[a] = v[a]
  <2>1. PICK i \in D : b[i] = a
    BY <1>1
  <2>2. {j \in D : b[j] = a} = {i}
    BY <1>1, <2>1 DEF IsInjective
  <2>3. SumOver(g, {i}) = g[i]
    BY <1>2, SumOne
  <2> QED BY <2>1, <2>2, <2>3
<1> HIDE DEF part
<1>5. SumOver(part, S) = SumOver(v, S)
  BY <1>4, SumSame
<1> QED BY <1>3, <1>5

-----------------------------------------------------------------------------
(* Folds                                                                   *)

(* Max of a bounded, non-empty set of numbers is its greatest element.     *)
LEMMA MaxIsGreatest ==
    ASSUME NEW s \in SUBSET Nat, s # {}, NEW n \in Nat, \A x \in s : x <= n
    PROVE  Max(s) \in s /\ \A x \in s : x <= Max(s)
<1>1. PICK m \in s : \A x \in s : x <= m
  BY GreatestNatural
<1>2. \A x \in s : m >= x
  BY <1>1
<1>3. \E m1 \in s : \A x \in s : m1 >= x
  BY <1>2
<1>4. Max(s) \in s /\ \A x \in s : Max(s) >= x
  BY <1>3 DEF Max
<1> QED BY <1>4

(* A left fold takes the last index first.                                 *)
LEMMA MaxOfPrefix ==
    ASSUME NEW k \in Nat, k # 0
    PROVE  Max(1..k) = k /\ (1..k) \ {k} = 1..(k - 1)
<1> DEFINE s == 1..k
<1>0. s \in SUBSET Nat /\ s # {} /\ \A x \in s : x <= k
  BY k \in s
<1>1. Max(s) \in s /\ \A x \in s : x <= Max(s)
  <2> HIDE DEF s
  <2> QED BY <1>0, MaxIsGreatest
<1> QED BY <1>1

(* g folds F over the elements of seq at the positions of each set of      *)
(* positions, the highest position last.                                   *)
Folds(g, P, base, seq, F) ==
    \A s \in P : g[s] = IF s = {} THEN base ELSE F[<<g[s \ {Max(s)}], seq[Max(s)]>>]

(* The recursion of FoldLeft has a solution, for any function F.           *)
LEMMA FoldExists ==
    ASSUME NEW n \in Nat, NEW V, NEW W, NEW base \in V,
           NEW seq \in [1..n -> W], NEW F \in [V \X W -> V]
    PROVE  \E g \in [SUBSET (1..n) -> V] : Folds(g, SUBSET (1..n), base, seq, F)
<1> DEFINE D == 1..n
           T == {k \in Nat : \E g \in [Sized(D, k) -> V] : Folds(g, Sized(D, k), base, seq, F)}
<1>0. IsFiniteSet(D) /\ Cardinality(D) \in Nat
  BY FS_Interval, FS_CardinalityType
<1>a. ASSUME NEW s \in SUBSET D, s # {}
      PROVE  /\ Max(s) \in s /\ s \ {Max(s)} \in SUBSET D
             /\ Cardinality(s) \in Nat \ {0}
             /\ Cardinality(s \ {Max(s)}) = Cardinality(s) - 1
  <2>1. Max(s) \in s
    <3>1. s \in SUBSET Nat /\ \A x \in s : x <= n
      OBVIOUS
    <3> HIDE DEF D
    <3> QED BY <3>1, <1>a, MaxIsGreatest
  <2>2. IsFiniteSet(s) /\ Cardinality(s) \in Nat
    BY <1>0, FS_Subset, FS_CardinalityType
  <2>3. Cardinality(s \ {Max(s)}) = Cardinality(s) - 1
    BY <2>1, <2>2, FS_RemoveElement
  <2>4. Cardinality(s) # 0
    BY <1>a, <2>2, FS_EmptySet
  <2> QED BY <2>1, <2>2, <2>3, <2>4
<1> HIDE DEF D
<1>1. ASSUME NEW k \in Nat, \A j \in Nat : j < k => j \in T
      PROVE  k \in T
  <2>1. CASE k = 0
    <3> DEFINE g == [s \in Sized(D, 0) |-> base]
    <3>1. \A s \in Sized(D, 0) : s = {}
      <4> TAKE s \in Sized(D, 0)
      <4> SUFFICES ASSUME s # {} PROVE FALSE
        OBVIOUS
      <4>1. s \in SUBSET D /\ Cardinality(s) <= 0
        BY DEF Sized
      <4>2. Cardinality(s) \in Nat \ {0}
        BY <4>1, <1>a
      <4> QED BY <4>1, <4>2
    <3>2. g \in [Sized(D, 0) -> V] /\ Folds(g, Sized(D, 0), base, seq, F)
      BY <3>1 DEF Folds
    <3> HIDE DEF g
    <3> QED BY <3>2, <2>1
  <2>2. CASE k # 0
    <3>0. k - 1 \in Nat /\ k - 1 < k
      BY <2>2
    <3>1. k - 1 \in T
      <4> HIDE DEF T
      <4> QED BY <1>1, <3>0
    <3>2. PICK h \in [Sized(D, k - 1) -> V] : Folds(h, Sized(D, k - 1), base, seq, F)
      BY <3>1
    <3> DEFINE g == [s \in Sized(D, k) |->
                       IF s = {} THEN base ELSE F[<<h[s \ {Max(s)}], seq[Max(s)]>>]]
    <3>3. ASSUME NEW s \in Sized(D, k), s # {}
          PROVE  /\ Max(s) \in D
                 /\ s \ {Max(s)} \in Sized(D, k - 1) /\ s \ {Max(s)} \in Sized(D, k)
      <4>1. s \in SUBSET D /\ Cardinality(s) <= k
        BY DEF Sized
      <4>2. /\ s \ {Max(s)} \in SUBSET D /\ Cardinality(s) \in Nat /\ Max(s) \in s
            /\ Cardinality(s \ {Max(s)}) = Cardinality(s) - 1
        BY <4>1, <3>3, <1>a
      <4> QED BY <4>1, <4>2 DEF Sized
    <3>4. g \in [Sized(D, k) -> V]
      <4> SUFFICES ASSUME NEW s \in Sized(D, k), s # {}
                   PROVE  F[<<h[s \ {Max(s)}], seq[Max(s)]>>] \in V
        OBVIOUS
      <4>1. h[s \ {Max(s)}] \in V /\ seq[Max(s)] \in W
        BY <3>2, <3>3 DEF D
      <4> QED BY <4>1
    <3>5. ASSUME NEW t \in Sized(D, k - 1), t \in Sized(D, k) PROVE g[t] = h[t]
      BY <3>2, <3>5 DEF Folds
    <3>6. g = [s \in Sized(D, k) |->
                       IF s = {} THEN base ELSE F[<<h[s \ {Max(s)}], seq[Max(s)]>>]]
      OBVIOUS
    <3> HIDE DEF g
    <3>7. Folds(g, Sized(D, k), base, seq, F)
      <4> SUFFICES ASSUME NEW s \in Sized(D, k)
                   PROVE  g[s] = IF s = {} THEN base ELSE F[<<g[s \ {Max(s)}], seq[Max(s)]>>]
        BY DEF Folds
      <4>1. CASE s = {}
        BY <4>1, <3>6
      <4>2. CASE s # {}
        BY <4>2, <3>3, <3>5, <3>6
      <4> QED BY <4>1, <4>2
    <3> QED BY <3>4, <3>7
  <2> QED BY <2>1, <2>2
<1>2. T = Nat
  <2> HIDE DEF T
  <2>1. T \in SUBSET Nat
    BY DEF T
  <2> QED BY <1>1, <2>1, NoLeastExceptionIsNone
<1>3. Sized(D, Cardinality(D)) = SUBSET D
  <2>1. \A s \in SUBSET D : Cardinality(s) <= Cardinality(D)
    BY <1>0, FS_Subset
  <2> QED BY <2>1 DEF Sized
<1>4. Cardinality(D) \in T
  BY <1>0, <1>2
<1>5. \E g \in [SUBSET D -> V] : Folds(g, SUBSET D, base, seq, F)
  BY <1>3, <1>4
<1> QED BY <1>5 DEF D

-----------------------------------------------------------------------------
(* Sequences of whatever elements                                          *)

IsSequence(s) == s \in Seq({s[i] : i \in DOMAIN s})

(* Every member of a set of sequences is a sequence.                       *)
LEMMA SequenceIntro == ASSUME NEW S, NEW s \in Seq(S) PROVE IsSequence(s)
<1>1. DOMAIN s = 1..Len(s) /\ Len(s) \in Nat
  OBVIOUS
<1>2. s \in [1..Len(s) -> {s[i] : i \in DOMAIN s}]
  BY <1>1
<1> QED BY <1>1, <1>2 DEF IsSequence

(* Two sequences have a set of elements in common to be sequences of.      *)
LEMMA SequencesTogether ==
    ASSUME NEW s, NEW t, IsSequence(s), IsSequence(t)
    PROVE  \E S : s \in Seq(S) /\ t \in Seq(S)
<1> DEFINE A == {s[i] : i \in DOMAIN s}
           B == {t[i] : i \in DOMAIN t}
<1>1. s \in Seq(A) /\ t \in Seq(B)
  BY DEF IsSequence
<1> HIDE DEF A, B
<1>2. s \in Seq(A \cup B) /\ t \in Seq(A \cup B)
  BY <1>1
<1> QED BY <1>2

(* Concatenation, appending and prefixes keep sequences sequences.         *)
LEMMA SequenceOps ==
    ASSUME NEW s, NEW t, IsSequence(s), IsSequence(t)
    PROVE  /\ Len(s) \in Nat
           /\ IsSequence(s \o t) /\ Len(s \o t) = Len(s) + Len(t)
           /\ \A k \in 0..Len(s) : /\ IsSequence(SubSeq(s, 1, k)) /\ Len(SubSeq(s, 1, k)) = k
                                   /\ IsSequence(SubSeq(s, k + 1, Len(s)))
                                   /\ Len(SubSeq(s, k + 1, Len(s))) = Len(s) - k
<1>1. PICK S : s \in Seq(S) /\ t \in Seq(S)
  BY SequencesTogether
<1>2. s \o t \in Seq(S) /\ Len(s \o t) = Len(s) + Len(t) /\ Len(s) \in Nat
  BY <1>1
<1>3. ASSUME NEW k \in 0..Len(s)
      PROVE  /\ SubSeq(s, 1, k) \in Seq(S) /\ Len(SubSeq(s, 1, k)) = k
             /\ SubSeq(s, k + 1, Len(s)) \in Seq(S)
             /\ Len(SubSeq(s, k + 1, Len(s))) = Len(s) - k
  <2>1. SubSeq(s, 1, k) = [i \in 1..k |-> s[i]]
    BY <1>1
  <2>2. SubSeq(s, k + 1, Len(s)) = [i \in 1..(Len(s) - k) |-> s[i + k]]
    BY <1>1
  <2>a. Len(s) \in Nat /\ k \in Nat /\ Len(s) - k \in Nat /\ \A i \in 1..Len(s) : s[i] \in S
    BY <1>1
  <2>b. /\ \A i \in 1..k : i \in 1..Len(s)
        /\ \A i \in 1..(Len(s) - k) : i + k \in 1..Len(s)
    BY <2>a
  <2>3. SubSeq(s, 1, k) \in [1..k -> S] /\ k \in Nat
    <3> DEFINE u == SubSeq(s, 1, k)
    <3>1. u = [i \in 1..k |-> s[i]] /\ \A i \in 1..k : s[i] \in S
      BY <2>1, <2>a, <2>b
    <3> HIDE DEF u
    <3>2. u \in [1..k -> S]
      BY <3>1
    <3> QED BY <2>a, <3>2 DEF u
  <2>4. SubSeq(s, k + 1, Len(s)) \in [1..(Len(s) - k) -> S] /\ Len(s) - k \in Nat
    <3> DEFINE u == SubSeq(s, k + 1, Len(s))
               m == Len(s) - k
    <3>1. u = [i \in 1..m |-> s[i + k]] /\ \A i \in 1..m : s[i + k] \in S
      BY <2>2, <2>a, <2>b
    <3> HIDE DEF u, m
    <3>2. u \in [1..m -> S]
      BY <3>1
    <3> QED BY <2>a, <3>2 DEF u, m
  <2>5. \A m \in Nat : \A u \in [1..m -> S] : u \in Seq(S) /\ Len(u) = m
    OBVIOUS
  <2> QED BY <2>3, <2>4, <2>5
<1> QED BY <1>2, <1>3, SequenceIntro

(* FlattenSeq's recursion made visible, and what it makes.                 *)
Flattens(f, seqs) ==
    f = [i \in 1..Len(seqs) |-> IF i = 1 THEN seqs[i] ELSE f[i - 1] \o seqs[i]]

(* FlattenSeq is the value, at the length, of the chosen solution of its   *)
(* recursion.                                                              *)
LEMMA FlattenDef ==
    ASSUME NEW seqs, Len(seqs) # 0
    PROVE  FlattenSeq(seqs) = (CHOOSE f : Flattens(f, seqs))[Len(seqs)]
BY DEF FlattenSeq, Flattens

(* An element of a concatenation is one of the parts'.                     *)
LEMMA ConcatElement ==
    ASSUME NEW s, NEW t, IsSequence(s), IsSequence(t), NEW i \in DOMAIN (s \o t)
    PROVE  \/ i \in DOMAIN s /\ (s \o t)[i] = s[i]
           \/ \E j \in DOMAIN t : i = Len(s) + j /\ (s \o t)[i] = t[j]
<1>1. PICK S : s \in Seq(S) /\ t \in Seq(S)
  BY SequencesTogether
<1>2. /\ Len(s) \in Nat /\ Len(t) \in Nat /\ DOMAIN s = 1..Len(s) /\ DOMAIN t = 1..Len(t)
      /\ i \in 1..(Len(s) + Len(t))
      /\ \A k \in 1..Len(s) : (s \o t)[k] = s[k]
      /\ \A k \in 1..Len(t) : (s \o t)[Len(s) + k] = t[k]
  BY <1>1
<1>3. CASE i \in 1..Len(s)
  BY <1>2, <1>3
<1>4. CASE i \notin 1..Len(s)
  <2>1. i - Len(s) \in 1..Len(t) /\ i = Len(s) + (i - Len(s))
    BY <1>2, <1>4
  <2> QED BY <1>2, <2>1
<1> QED BY <1>3, <1>4

(* The partial concatenations that FlattenSeq takes the last of.           *)
LEMMA FlattenSolved ==
    ASSUME NEW S, NEW seqs \in Seq(Seq(S)), Len(seqs) # 0
    PROVE  \E c : /\ Flattens(c, seqs) /\ FlattenSeq(seqs) = c[Len(seqs)]
                  /\ \A k \in 1..Len(seqs) : c[k] \in Seq(S)
<1> DEFINE n == Len(seqs)
           F == [x \in Seq(S) \X Seq(S) |-> x[1] \o x[2]]
<1>0. n \in Nat /\ seqs \in [1..n -> Seq(S)]
  OBVIOUS
<1>1. F \in [Seq(S) \X Seq(S) -> Seq(S)] /\ <<>> \in Seq(S)
  OBVIOUS
<1>2. \A a, b \in Seq(S) : F[<<a, b>>] = a \o b
  OBVIOUS
<1> HIDE DEF n, F
<1>3. PICK g \in [SUBSET (1..n) -> Seq(S)] : Folds(g, SUBSET (1..n), <<>>, seqs, F)
  BY <1>0, <1>1, FoldExists
<1> DEFINE f == [i \in 1..n |-> g[1..i]]
<1>4. ASSUME NEW i \in 1..n
      PROVE  g[1..i] = g[1..(i - 1)] \o seqs[i] /\ g[1..(i - 1)] \in Seq(S) /\ seqs[i] \in Seq(S)
  <2>1. i \in Nat /\ i # 0 /\ 1..i # {} /\ 1..i \in SUBSET (1..n)
        /\ 1..(i - 1) \in SUBSET (1..n)
    <3>1. i \in 1..i /\ i \in Nat /\ i # 0
      BY <1>0
    <3>2. \A j \in 1..i : j \in 1..n
      BY <1>0
    <3>3. \A j \in 1..(i - 1) : j \in 1..n
      BY <1>0
    <3> QED BY <3>1, <3>2, <3>3
  <2>2. Max(1..i) = i /\ (1..i) \ {i} = 1..(i - 1)
    BY <2>1, MaxOfPrefix
  <2>3. g[1..i] = F[<<g[1..(i - 1)], seqs[i]>>]
    BY <1>3, <2>1, <2>2 DEF Folds
  <2>4. g[1..(i - 1)] \in Seq(S) /\ seqs[i] \in Seq(S)
    BY <1>0, <1>3, <2>1
  <2> QED BY <1>2, <2>3, <2>4
<1>5. g[{}] = <<>>
  BY <1>3 DEF Folds
<1>6. ASSUME NEW i \in 1..n
      PROVE  f[i] = IF i = 1 THEN seqs[i] ELSE f[i - 1] \o seqs[i]
  <2>1. CASE i = 1
    <3>1. 1..(i - 1) = {}
      BY <2>1
    <3>2. g[1..i] = <<>> \o seqs[i]
      BY <1>4, <1>5, <3>1
    <3> QED BY <1>4, <2>1, <3>2
  <2>2. CASE i # 1
    <3>1. i - 1 \in 1..n
      BY <1>0, <2>2
    <3> QED BY <1>4, <2>2, <3>1
  <2> QED BY <2>1, <2>2
<1>7. Flattens(f, seqs)
  BY <1>6 DEF Flattens, n
<1> HIDE DEF f
<1> DEFINE c == CHOOSE e : Flattens(e, seqs)
<1>8. Flattens(c, seqs)
  BY <1>7
<1> HIDE DEF c
<1> DEFINE T == {k \in Nat : k \in 1..n => c[k] \in Seq(S)}
<1>9. ASSUME NEW k \in Nat, \A j \in Nat : j < k => j \in T PROVE k \in T
  <2> SUFFICES ASSUME k \in 1..n PROVE c[k] \in Seq(S)
    OBVIOUS
  <2>1. seqs[k] \in Seq(S) /\ c[k] = IF k = 1 THEN seqs[k] ELSE c[k - 1] \o seqs[k]
    BY <1>0, <1>8 DEF Flattens, n
  <2>2. CASE k = 1
    BY <2>1, <2>2
  <2>3. CASE k # 1
    <3>1. k - 1 \in Nat /\ k - 1 < k /\ k - 1 \in 1..n
      BY <1>0, <2>3
    <3>2. k - 1 \in T
      BY <1>9, <3>1
    <3>3. c[k - 1] \in Seq(S)
      BY <3>1, <3>2
    <3> QED BY <2>1, <2>3, <3>3
  <2> QED BY <2>2, <2>3
<1>10. T = Nat
  <2> HIDE DEF T
  <2>1. T \in SUBSET Nat
    BY DEF T
  <2> QED BY <1>9, <2>1, NoLeastExceptionIsNone
<1>11. \A k \in 1..n : c[k] \in Seq(S)
  <2>1. \A k \in 1..n : k \in T
    <3> HIDE DEF T
    <3>1. \A k \in 1..n : k \in Nat
      BY <1>0
    <3> QED BY <1>10, <3>1
  <2> QED BY <2>1
<1>12. FlattenSeq(seqs) = c[n]
  BY FlattenDef DEF c, n
<1> QED BY <1>8, <1>11, <1>12 DEF n

(* A concatenation of sequences over S is one.                             *)
LEMMA FlattenType ==
    ASSUME NEW S, NEW seqs \in Seq(Seq(S))
    PROVE  FlattenSeq(seqs) \in Seq(S)
<1>1. CASE Len(seqs) = 0
  <2>1. FlattenSeq(seqs) = seqs
    BY <1>1 DEF FlattenSeq
  <2>2. seqs = <<>>
    BY <1>1
  <2> QED BY <2>1, <2>2
<1>2. CASE Len(seqs) # 0
  <2>1. PICK c : FlattenSeq(seqs) = c[Len(seqs)] /\ \A k \in 1..Len(seqs) : c[k] \in Seq(S)
    BY <1>2, FlattenSolved
  <2>2. Len(seqs) \in 1..Len(seqs)
    BY <1>2
  <2> QED BY <2>1, <2>2
<1> QED BY <1>1, <1>2

(* SetToSeq lists a finite set, every element once.                        *)
LEMMA SetToSeqLists ==
    ASSUME NEW S, IsFiniteSet(S)
    PROVE  /\ Cardinality(S) \in Nat
           /\ SetToSeq(S) \in Bijection(1..Cardinality(S), S)
<1> DEFINE D == 1..Cardinality(S)
           f == SetToSeq(S)
<1>1. Cardinality(S) \in Nat /\ ExistsBijection(D, S)
  BY FS_CardinalityType
<1>2. \E g \in [D -> S] : IsInjective(g)
  BY <1>1 DEF ExistsBijection, Bijection, Injection
<1>3. f \in [D -> S] /\ IsInjective(f)
  BY <1>2 DEF SetToSeq
<1>4. f \in Injection(D, S)
  BY <1>3 DEF Injection
<1>5. Cardinality(D) = Cardinality(S)
  BY <1>1, FS_Interval
<1>6. f \in Surjection(D, S)
  <2> HIDE DEF f
  <2> QED BY <1>4, <1>5, FS_Injection
<1> QED BY <1>1, <1>4, <1>6 DEF Bijection

-----------------------------------------------------------------------------
(* Selection                                                               *)

(* The recursion of Select.                                                *)
Selects(f, s, T) ==
    f = [n \in 0..Len(s) |-> IF n = 0 THEN <<>>
                             ELSE IF s[n] \in T THEN Append(f[n - 1], s[n]) ELSE f[n - 1]]

(* Select is the value, at the length, of the chosen solution.             *)
LEMMA SelectDef ==
    ASSUME NEW s, NEW T
    PROVE  Select(s, T) = (CHOOSE f : Selects(f, s, T))[Len(s)]
BY DEF Select, Selects

(* The recursion has a solution: the fold of the appending step.           *)
LEMMA SelectSolved ==
    ASSUME NEW S, NEW s \in Seq(S), NEW T
    PROVE  \E c : /\ Selects(c, s, T) /\ Select(s, T) = c[Len(s)]
<1> DEFINE n == Len(s)
           F == [x \in Seq(S) \X S |-> IF x[2] \in T THEN Append(x[1], x[2]) ELSE x[1]]
<1>0. n \in Nat /\ s \in [1..n -> S]
  OBVIOUS
<1>1. F \in [Seq(S) \X S -> Seq(S)] /\ <<>> \in Seq(S)
  OBVIOUS
<1>2. \A a \in Seq(S), b \in S : F[<<a, b>>] = IF b \in T THEN Append(a, b) ELSE a
  OBVIOUS
<1> HIDE DEF n, F
<1>3. PICK g \in [SUBSET (1..n) -> Seq(S)] : Folds(g, SUBSET (1..n), <<>>, s, F)
  BY <1>0, <1>1, FoldExists
<1> DEFINE f == [i \in 0..n |-> g[1..i]]
<1>4. ASSUME NEW i \in 0..n, i # 0
      PROVE  f[i] = IF s[i] \in T THEN Append(f[i - 1], s[i]) ELSE f[i - 1]
  <2>1. i \in Nat /\ i # 0 /\ 1..i # {} /\ 1..i \in SUBSET (1..n) /\ i - 1 \in 0..n
        /\ 1..(i - 1) \in SUBSET (1..n) /\ i \in 1..n
    <3>1. i \in 1..i /\ i \in Nat /\ i # 0 /\ i \in 1..n /\ i - 1 \in 0..n
      BY <1>0, <1>4
    <3>2. \A j \in 1..i : j \in 1..n
      BY <1>0
    <3>3. \A j \in 1..(i - 1) : j \in 1..n
      BY <1>0
    <3> QED BY <3>1, <3>2, <3>3
  <2>2. Max(1..i) = i /\ (1..i) \ {i} = 1..(i - 1)
    BY <2>1, MaxOfPrefix
  <2>3. g[1..i] = F[<<g[1..(i - 1)], s[i]>>]
    BY <1>3, <2>1, <2>2 DEF Folds
  <2>4. g[1..(i - 1)] \in Seq(S) /\ s[i] \in S
    BY <1>0, <1>3, <2>1
  <2>5. f[i] = g[1..i] /\ f[i - 1] = g[1..(i - 1)]
    BY <2>1
  <2> QED BY <1>2, <2>3, <2>4, <2>5
<1>5. f[0] = <<>>
  <2>1. g[{}] = <<>>
    BY <1>3 DEF Folds
  <2>2. 1..0 = {} /\ 0 \in 0..n
    BY <1>0
  <2> QED BY <2>1, <2>2
<1>6. Selects(f, s, T)
  <2>1. \A i \in 0..n : f[i] = IF i = 0 THEN <<>>
                               ELSE IF s[i] \in T THEN Append(f[i - 1], s[i]) ELSE f[i - 1]
    BY <1>4, <1>5
  <2> QED BY <2>1 DEF Selects, n
<1> HIDE DEF f
<1> DEFINE c == CHOOSE e : Selects(e, s, T)
<1>7. Selects(c, s, T)
  BY <1>6
<1>8. Select(s, T) = c[Len(s)]
  BY SelectDef
<1> HIDE DEF c
<1> QED BY <1>7, <1>8

(* at tells, for every element kept from the first n of s, where it was.   *)
PlacedAt(at, t, s, n, T) ==
    /\ at \in [1..Len(t) -> 1..n]
    /\ \A j, k \in 1..Len(t) : j < k => at[j] < at[k]
    /\ \A k \in 1..Len(t) : t[k] = s[at[k]] /\ s[at[k]] \in T
    /\ \A i \in 1..n : s[i] \in T => \E k \in 1..Len(t) : at[k] = i

(* What is selected are the wanted elements, once for every place they had *)
(* and in that order.                                                      *)
LEMMA SelectPlaces ==
    ASSUME NEW S, NEW s \in Seq(S), NEW T
    PROVE  /\ Select(s, T) \in Seq(S)
           /\ \E at : PlacedAt(at, Select(s, T), s, Len(s), T)
<1>1. PICK c : Selects(c, s, T) /\ Select(s, T) = c[Len(s)]
  BY SelectSolved
<1> DEFINE N == Len(s)
           G(n) == c[n] \in Seq(S) /\ \E at : PlacedAt(at, c[n], s, n, T)
           X == {n \in Nat : n \in 0..N => G(n)}
<1>0. N \in Nat /\ \A i \in 1..N : s[i] \in S
  OBVIOUS
<1>c. \A n \in 0..N : c[n] = IF n = 0 THEN <<>>
                             ELSE IF s[n] \in T THEN Append(c[n - 1], s[n]) ELSE c[n - 1]
  BY <1>1 DEF Selects
<1> HIDE DEF N
<1>2. ASSUME NEW n \in Nat, \A k \in Nat : k < n => k \in X PROVE n \in X
  <2> SUFFICES ASSUME n \in 0..N PROVE G(n)
    OBVIOUS
  <2>1. CASE n = 0
    <3>1. c[n] = <<>>
      BY <1>c, <2>1
    <3> DEFINE at == [k \in 1..0 |-> 0]
    <3>2. PlacedAt(at, <<>>, s, n, T)
      BY <2>1 DEF PlacedAt
    <3> QED BY <3>1, <3>2
  <2>2. CASE n # 0
    <3>0. n - 1 \in Nat /\ n - 1 \in 0..N /\ n - 1 < n /\ n \in 1..N
      BY <1>0, <2>2
    <3>1. n - 1 \in X
      <4> HIDE DEF X
      <4> QED BY <1>2, <3>0
    <3>2. G(n - 1)
      BY <3>0, <3>1
    <3>a. c[n] = IF s[n] \in T THEN Append(c[n - 1], s[n]) ELSE c[n - 1]
      BY <1>c, <2>2
    <3> DEFINE t == c[n - 1]
    <3>3. t \in Seq(S) /\ s[n] \in S
      BY <3>2, <1>0, <3>0
    <3>4. PICK at : PlacedAt(at, t, s, n - 1, T)
      BY <3>2
    <3> HIDE DEF t
    <3>b. Len(t) \in Nat
      BY <3>3
    <3>5. CASE s[n] \notin T
      <4>1. c[n] = t
        BY <3>a, <3>5 DEF t
      <4>2. \A i \in 1..n : i \in 1..(n - 1) \/ i = n
        BY <3>0
      <4>3. at \in [1..Len(t) -> 1..n]
        <5>1. \A i \in 1..(n - 1) : i \in 1..n
          BY <3>0
        <5> QED BY <5>1, <3>4 DEF PlacedAt
      <4>4. PlacedAt(at, t, s, n, T)
        BY <4>2, <4>3, <3>4, <3>5 DEF PlacedAt
      <4> QED BY <4>1, <4>4, <3>3
    <3>6. CASE s[n] \in T
      <4> DEFINE m == Len(t)
                 u == Append(t, s[n])
                 by == [k \in 1..(m + 1) |-> IF k <= m THEN at[k] ELSE n]
      <4>1. /\ c[n] = u /\ u \in Seq(S) /\ Len(u) = m + 1 /\ u[m + 1] = s[n]
            /\ \A k \in 1..m : u[k] = t[k]
        BY <3>a, <3>6, <3>3 DEF t
      <4> HIDE DEF u
      <4>2. \A k \in 1..(m + 1) : (k \in 1..m /\ k # m + 1) \/ k = m + 1
        BY <3>b
      <4>3. \A k \in 1..m : at[k] \in 1..(n - 1) /\ at[k] \in 1..n /\ at[k] < n
        BY <3>0, <3>4 DEF PlacedAt
      <4>4. /\ \A k \in 1..m : by[k] = at[k] /\ k \in 1..(m + 1)
            /\ by[m + 1] = n /\ m + 1 \in 1..(m + 1)
        BY <3>b
      <4>5. by \in [1..(m + 1) -> 1..n]
        BY <4>2, <4>3, <4>4, <3>0
      <4> HIDE DEF by
      <4>6. \A j, k \in 1..(m + 1) : j < k => by[j] < by[k]
        <5> TAKE j, k \in 1..(m + 1)
        <5> HAVE j < k
        <5>1. j \in 1..m
          BY <3>b
        <5>2. CASE k \in 1..m
          BY <5>1, <5>2, <4>4, <3>4 DEF PlacedAt
        <5>3. CASE k = m + 1
          BY <5>1, <5>3, <4>3, <4>4
        <5> QED BY <5>2, <5>3, <4>2
      <4>7. \A k \in 1..(m + 1) : u[k] = s[by[k]] /\ s[by[k]] \in T
        BY <4>1, <4>2, <4>4, <3>4, <3>6 DEF PlacedAt
      <4>8. \A i \in 1..n : s[i] \in T => \E k \in 1..(m + 1) : by[k] = i
        <5> TAKE i \in 1..n
        <5> HAVE s[i] \in T
        <5>1. CASE i = n
          BY <5>1, <4>4
        <5>2. CASE i # n
          <6>1. i \in 1..(n - 1)
            BY <5>2, <3>0
          <6>2. PICK k \in 1..m : at[k] = i
            BY <6>1, <3>4 DEF PlacedAt
          <6> QED BY <6>2, <4>4
        <5> QED BY <5>1, <5>2
      <4>9. PlacedAt(by, u, s, n, T)
        BY <4>1, <4>5, <4>6, <4>7, <4>8 DEF PlacedAt
      <4> QED BY <4>1, <4>9
    <3> QED BY <3>5, <3>6
  <2> QED BY <2>1, <2>2
<1>3. X = Nat
  <2> HIDE DEF X
  <2>1. X \in SUBSET Nat
    BY DEF X
  <2> QED BY <1>2, <2>1, NoLeastExceptionIsNone
<1>4. N \in X /\ N \in 0..N
  BY <1>3, <1>0
<1>5. G(N)
  BY <1>4
<1> QED BY <1>1, <1>5 DEF N

(* Which elements a selection has, and that it repeats none of them.       *)
LEMMA Selected ==
    ASSUME NEW S, NEW s \in Seq(S), NEW T
    PROVE  /\ Select(s, T) \in Seq(S)
           /\ \A k \in DOMAIN Select(s, T) : \E i \in DOMAIN s : Select(s, T)[k] = s[i] /\ s[i] \in T
           /\ \A i \in DOMAIN s : s[i] \in T => \E k \in DOMAIN Select(s, T) : Select(s, T)[k] = s[i]
           /\ \A j, k \in DOMAIN Select(s, T) : j # k =>
                 \E i, l \in DOMAIN s : i # l /\ Select(s, T)[j] = s[i] /\ Select(s, T)[k] = s[l]
<1> DEFINE t == Select(s, T)
<1>1. t \in Seq(S) /\ \E at : PlacedAt(at, t, s, Len(s), T)
  BY SelectPlaces
<1> HIDE DEF t
<1>2. PICK at : PlacedAt(at, t, s, Len(s), T)
  BY <1>1
<1>3. DOMAIN t = 1..Len(t) /\ DOMAIN s = 1..Len(s) /\ Len(t) \in Nat /\ Len(s) \in Nat
  BY <1>1
<1>4. \A k \in 1..Len(t) : at[k] \in 1..Len(s) /\ t[k] = s[at[k]] /\ s[at[k]] \in T
  BY <1>2 DEF PlacedAt
<1>5. \A i \in 1..Len(s) : s[i] \in T => \E k \in 1..Len(t) : t[k] = s[i]
  BY <1>2, <1>4 DEF PlacedAt
<1>6. \A j, k \in 1..Len(t) : j # k => at[j] # at[k]
  <2> TAKE j, k \in 1..Len(t)
  <2> HAVE j # k
  <2>1. j < k \/ k < j
    BY <1>3
  <2>2. at[j] \in Nat /\ at[k] \in Nat
    BY <1>3, <1>4
  <2> QED BY <1>2, <2>1, <2>2 DEF PlacedAt
<1>7. \A j, k \in 1..Len(t) : j # k =>
          \E i, l \in 1..Len(s) : i # l /\ t[j] = s[i] /\ t[k] = s[l]
  BY <1>4, <1>6
<1>a. \A k \in 1..Len(t) : \E i \in 1..Len(s) : t[k] = s[i] /\ s[i] \in T
  BY <1>4
<1>b. DOMAIN t = 1..Len(t) /\ DOMAIN s = 1..Len(s)
  BY <1>3
<1>8. \A k \in DOMAIN t : \E i \in DOMAIN s : t[k] = s[i] /\ s[i] \in T
  BY <1>a, <1>b
<1>9. \A i \in DOMAIN s : s[i] \in T => \E k \in DOMAIN t : t[k] = s[i]
  BY <1>5, <1>b
<1>10. \A j, k \in DOMAIN t : j # k =>
            \E i, l \in DOMAIN s : i # l /\ t[j] = s[i] /\ t[k] = s[l]
  <2> TAKE j, k \in DOMAIN t
  <2> HAVE j # k
  <2>1. PICK i, l \in 1..Len(s) : i # l /\ t[j] = s[i] /\ t[k] = s[l]
    BY <1>7, <1>b
  <2>2. i \in DOMAIN s /\ l \in DOMAIN s
    BY <1>b
  <2> QED BY <2>1, <2>2
<1> QED BY <1>1, <1>8, <1>9, <1>10, Zenon DEF t

(* The last m elements of a longer sequence.                               *)
LEMMA LastElements ==
    ASSUME NEW S, NEW s \in Seq(S), NEW m \in Nat, m < Len(s)
    PROVE  /\ SubSeq(s, Len(s) - m + 1, Len(s)) \in Seq(S)
           /\ Len(SubSeq(s, Len(s) - m + 1, Len(s))) = m
           /\ \A k \in 1..m : SubSeq(s, Len(s) - m + 1, Len(s))[k] = s[Len(s) - m + k]
<1> DEFINE t == SubSeq(s, Len(s) - m + 1, Len(s))
           d == Len(s) - m
<1>1. Len(s) \in Nat /\ d \in Nat /\ d + m = Len(s) /\ \A i \in 1..Len(s) : s[i] \in S
  OBVIOUS
<1>2. t = [i \in 1..m |-> s[d + i]]
  OBVIOUS
<1> HIDE DEF t, d
<1>3. \A i \in 1..m : d + i \in 1..Len(s)
  BY <1>1
<1>4. t \in [1..m -> S]
  BY <1>1, <1>2, <1>3
<1>5. t \in Seq(S) /\ Len(t) = m
  BY <1>4
<1> QED BY <1>2, <1>5 DEF t, d

(* The first n elements of two sequences are equal, and wanted alike.      *)
WantedAlike(s, t, T, U, n) ==
    /\ Len(s) \in Nat /\ Len(t) \in Nat /\ n <= Len(s) /\ n <= Len(t)
    /\ \A i \in 1..n : s[i] = t[i] /\ (s[i] \in T <=> s[i] \in U)

(* The recursion of Select has one solution, which sees of T only what s   *)
(* can meet.                                                               *)
LEMMA SelectsAgree ==
    ASSUME NEW s, NEW t, NEW T, NEW U, NEW n \in Nat, WantedAlike(s, t, T, U, n),
           NEW f, Selects(f, s, T), NEW g, Selects(g, t, U)
    PROVE  f[n] = g[n]
<1> USE DEF WantedAlike
<1> DEFINE P == {k \in Nat : k <= n => f[k] = g[k]}
<1>1. ASSUME NEW k \in Nat, \A j \in Nat : j < k => j \in P PROVE k \in P
  <2>1. SUFFICES ASSUME k <= n PROVE f[k] = g[k]
    OBVIOUS
  <2>2. k \in 0..Len(s) /\ k \in 0..Len(t)
    BY <2>1
  <2>3. /\ f[k] = IF k = 0 THEN <<>> ELSE IF s[k] \in T THEN Append(f[k - 1], s[k]) ELSE f[k - 1]
        /\ g[k] = IF k = 0 THEN <<>> ELSE IF t[k] \in U THEN Append(g[k - 1], t[k]) ELSE g[k - 1]
    BY <2>2 DEF Selects
  <2>4. CASE k = 0
    BY <2>3, <2>4
  <2>5. CASE k # 0
    <3>1. k - 1 \in Nat /\ k - 1 < k /\ k - 1 <= n /\ k \in 1..n
      BY <2>1, <2>5
    <3>2. f[k - 1] = g[k - 1] /\ s[k] = t[k] /\ (s[k] \in T <=> s[k] \in U)
      BY <1>1, <3>1
    <3> QED BY <2>3, <2>5, <3>2
  <2> QED BY <2>4, <2>5
<1> HIDE DEF P
<1>2. P = Nat
  <2>1. P \in SUBSET Nat
    BY DEF P
  <2> QED BY <1>1, <2>1, NoLeastExceptionIsNone
<1> QED BY <1>2 DEF P

(* A selection depends on the wanted elements of the sequence only.        *)
LEMMA SelectSame ==
    ASSUME NEW S, NEW s \in Seq(S), NEW T, NEW U, \A i \in DOMAIN s : s[i] \in T <=> s[i] \in U
    PROVE  Select(s, T) = Select(s, U)
<1> DEFINE t == s
           n == Len(s)
<1>1. PICK c : Selects(c, s, T) /\ Select(s, T) = c[n]
  BY SelectSolved
<1>2. PICK d : Selects(d, t, U) /\ Select(t, U) = d[n]
  BY SelectSolved
<1>3. n \in Nat /\ WantedAlike(s, t, T, U, n)
  BY DEF WantedAlike
<1> HIDE DEF t, n
<1>4. c[n] = d[n]
  BY ONLY <1>1, <1>2, <1>3, SelectsAgree
<1> QED BY <1>1, <1>2, <1>4 DEF t

(* One element more.                                                       *)
LEMMA SelectAppend ==
    ASSUME NEW S, NEW s \in Seq(S), NEW x \in S, NEW T
    PROVE  Select(Append(s, x), T) = IF x \in T THEN Append(Select(s, T), x) ELSE Select(s, T)
<1> DEFINE t == Append(s, x)
           n == Len(s)
<1>1. /\ t \in Seq(S) /\ Len(t) = n + 1 /\ n \in Nat /\ t[n + 1] = x
      /\ \A i \in 1..n : s[i] = t[i]
  OBVIOUS
<1> HIDE DEF t
<1>2. PICK c : Selects(c, s, T) /\ Select(s, T) = c[n]
  BY SelectSolved
<1>3. PICK d : Selects(d, t, T) /\ Select(t, T) = d[n + 1]
  BY <1>1, SelectSolved
<1>4. WantedAlike(s, t, T, T, n)
  BY <1>1 DEF WantedAlike
<1> HIDE DEF n
<1>6. c[n] = d[n]
  BY ONLY <1>1, <1>2, <1>3, <1>4, SelectsAgree
<1>5. d[n + 1] = IF x \in T THEN Append(d[n], x) ELSE d[n]
  <2>1. n + 1 \in 0..Len(t) /\ n + 1 # 0 /\ (n + 1) - 1 = n
    BY <1>1
  <2>2. d[n + 1] = IF t[n + 1] \in T THEN Append(d[(n + 1) - 1], t[n + 1]) ELSE d[(n + 1) - 1]
    BY <1>3, <2>1 DEF Selects
  <2> QED BY <1>1, <2>1, <2>2
<1> QED BY <1>2, <1>3, <1>5, <1>6 DEF t

(* Nothing is selected from nothing.                                       *)
LEMMA SelectEmpty == ASSUME NEW T PROVE Select(<<>>, T) = <<>>
<1>1. <<>> \in Seq({}) /\ Len(<<>>) = 0
  OBVIOUS
<1>2. PICK c : Selects(c, <<>>, T) /\ Select(<<>>, T) = c[0]
  BY <1>1, SelectSolved
<1> QED BY <1>1, <1>2 DEF Selects

-----------------------------------------------------------------------------
(* Elements of sequences put together                                      *)

(* The empty file.                                                         *)
LEMMA EmptyIsSequence == IsSequence(<<>>) /\ Len(<<>>) = 0
<1>1. <<>> \in Seq({})
  OBVIOUS
<1> QED BY <1>1, SequenceIntro

(* Sequences with the same elements are the same.                          *)
LEMMA SameSequence ==
    ASSUME NEW s, NEW t, IsSequence(s), IsSequence(t), Len(s) = Len(t),
           \A i \in 1..Len(s) : s[i] = t[i]
    PROVE  s = t
<1>1. PICK S : s \in Seq(S) /\ t \in Seq(S)
  BY SequencesTogether
<1>2. s = [i \in 1..Len(s) |-> s[i]] /\ t = [i \in 1..Len(t) |-> t[i]]
  BY <1>1
<1> QED BY <1>2

(* The elements of an appended sequence.                                   *)
LEMMA AppendElements ==
    ASSUME NEW s, IsSequence(s), NEW x
    PROVE  /\ IsSequence(Append(s, x)) /\ Len(Append(s, x)) = Len(s) + 1 /\ Len(s) \in Nat
           /\ \A i \in 1..Len(s) : Append(s, x)[i] = s[i]
           /\ Append(s, x)[Len(s) + 1] = x
<1> DEFINE S == {s[i] : i \in DOMAIN s} \cup {x}
<1>1. s \in Seq(S) /\ x \in S
  BY DEF IsSequence
<1> HIDE DEF S
<1>2. /\ Append(s, x) \in Seq(S) /\ Len(Append(s, x)) = Len(s) + 1 /\ Len(s) \in Nat
      /\ \A i \in 1..Len(s) : Append(s, x)[i] = s[i]
      /\ Append(s, x)[Len(s) + 1] = x
  BY <1>1
<1> QED BY <1>2, SequenceIntro

(* The elements of a prefix.                                               *)
LEMMA PrefixElements ==
    ASSUME NEW s, IsSequence(s), NEW n \in 0..Len(s)
    PROVE  /\ IsSequence(SubSeq(s, 1, n)) /\ Len(SubSeq(s, 1, n)) = n /\ Len(s) \in Nat /\ n \in Nat
           /\ \A i \in 1..n : SubSeq(s, 1, n)[i] = s[i]
<1>1. PICK S : s \in Seq(S)
  BY DEF IsSequence
<1>2. Len(s) \in Nat /\ n \in Nat /\ \A i \in 1..n : SubSeq(s, 1, n)[i] = s[i]
  BY <1>1
<1> QED BY <1>2, SequenceOps

(* The elements of a concatenation.                                        *)
LEMMA ConcatElements ==
    ASSUME NEW s, NEW t, IsSequence(s), IsSequence(t)
    PROVE  /\ IsSequence(s \o t) /\ Len(s \o t) = Len(s) + Len(t)
           /\ Len(s) \in Nat /\ Len(t) \in Nat
           /\ \A i \in 1..Len(s) : (s \o t)[i] = s[i]
           /\ \A i \in 1..Len(t) : (s \o t)[Len(s) + i] = t[i]
<1>1. PICK S : s \in Seq(S) /\ t \in Seq(S)
  BY SequencesTogether
<1>2. /\ Len(s) \in Nat /\ Len(t) \in Nat
      /\ \A i \in 1..Len(s) : (s \o t)[i] = s[i]
      /\ \A i \in 1..Len(t) : (s \o t)[Len(s) + i] = t[i]
  BY <1>1
<1> QED BY <1>2, SequenceOps

(* A function on an initial interval is a sequence.                        *)
LEMMA TabledSequence ==
    ASSUME NEW n \in Nat, NEW g
    PROVE  IsSequence([i \in 1..n |-> g[i]]) /\ Len([i \in 1..n |-> g[i]]) = n
<1> DEFINE S == {g[i] : i \in 1..n}
<1>1. [i \in 1..n |-> g[i]] \in [1..n -> S]
  OBVIOUS
<1> HIDE DEF S
<1>2. [i \in 1..n |-> g[i]] \in Seq(S) /\ Len([i \in 1..n |-> g[i]]) = n
  BY <1>1
<1> QED BY <1>2, SequenceIntro

Upto(k) == [i \in 1..k |-> i]

(* Selecting from one number more.                                         *)
LEMMA SelectUpto ==
    ASSUME NEW k \in Nat, NEW T
    PROVE  /\ Select(Upto(k + 1), T) = IF k + 1 \in T THEN Append(Select(Upto(k), T), k + 1)
                                       ELSE Select(Upto(k), T)
           /\ \A U : (\A i \in 1..k : i \in T <=> i \in U) => Select(Upto(k), T) = Select(Upto(k), U)
<1> DEFINE S == 1..(k + 1)
           a == Upto(k)
           x == k + 1
<1>1. a \in Seq(S) /\ x \in S /\ Append(a, x) = Upto(x) /\ DOMAIN a = 1..k /\ \A i \in 1..k : a[i] = i
  BY DEF Upto
<1> HIDE DEF a, x, S
<1>2. Select(Append(a, x), T) = IF x \in T THEN Append(Select(a, T), x) ELSE Select(a, T)
  BY <1>1, SelectAppend
<1>3. ASSUME NEW U, \A i \in 1..k : i \in T <=> i \in U PROVE Select(a, T) = Select(a, U)
  <2>1. \A i \in DOMAIN a : a[i] \in T <=> a[i] \in U
    BY <1>1, <1>3
  <2> QED BY <1>1, <2>1, SelectSame
<1> QED BY <1>1, <1>2, <1>3 DEF a, x

(* A longer prefix is a shorter one and the next element.                  *)
LEMMA PrefixGrows ==
    ASSUME NEW s, IsSequence(s), NEW n \in Nat, n < Len(s)
    PROVE  SubSeq(s, 1, n + 1) = Append(SubSeq(s, 1, n), s[n + 1])
<1>1. n \in 0..Len(s) /\ n + 1 \in 0..Len(s)
  BY SequenceOps
<1> DEFINE a == SubSeq(s, 1, n)
           b == SubSeq(s, 1, n + 1)
<1>2. IsSequence(a) /\ Len(a) = n /\ \A i \in 1..n : a[i] = s[i]
  BY <1>1, PrefixElements
<1>3. IsSequence(b) /\ Len(b) = n + 1 /\ \A i \in 1..(n + 1) : b[i] = s[i]
  BY <1>1, PrefixElements
<1> HIDE DEF a, b
<1> DEFINE c == Append(a, s[n + 1])
<1>4. IsSequence(c) /\ Len(c) = n + 1 /\ c[n + 1] = s[n + 1] /\ \A i \in 1..n : c[i] = a[i]
  BY <1>2, AppendElements
<1> HIDE DEF c
<1>5. \A i \in 1..(n + 1) : b[i] = c[i]
  <2> SUFFICES ASSUME NEW i \in 1..(n + 1) PROVE b[i] = c[i]
    OBVIOUS
  <2>1. i \in 1..n \/ i = n + 1
    OBVIOUS
  <2> QED BY <1>2, <1>3, <1>4, <2>1
<1>6. b = c
  BY <1>3, <1>4, <1>5, SameSequence
<1> QED BY <1>6 DEF a, b, c

(* Appending to the second part of a concatenation.                        *)
LEMMA ConcatAppend ==
    ASSUME NEW s, NEW t, IsSequence(s), IsSequence(t), NEW x
    PROVE  s \o Append(t, x) = Append(s \o t, x)
<1>1. PICK S : s \in Seq(S) /\ t \in Seq(S)
  BY SequencesTogether
<1> DEFINE V == S \cup {x}
<1>2. s \in Seq(V) /\ t \in Seq(V) /\ x \in V
  BY <1>1
<1> HIDE DEF V
<1> QED BY <1>2

(* Nothing added.                                                          *)
LEMMA ConcatNothing ==
    ASSUME NEW s, IsSequence(s), NEW t, IsSequence(t)
    PROVE  s \o SubSeq(t, 1, 0) = s
<1>1. PICK S : s \in Seq(S) /\ t \in Seq(S)
  BY SequencesTogether
<1>2. SubSeq(t, 1, 0) = <<>>
  BY <1>1
<1> QED BY <1>1, <1>2

(* All of a sequence.                                                      *)
LEMMA WholePrefix == ASSUME NEW s, IsSequence(s) PROVE SubSeq(s, 1, Len(s)) = s
<1>1. Len(s) \in 0..Len(s)
  BY SequenceOps
<1> DEFINE t == SubSeq(s, 1, Len(s))
<1>2. IsSequence(t) /\ Len(t) = Len(s) /\ \A i \in 1..Len(s) : t[i] = s[i]
  BY <1>1, PrefixElements
<1> HIDE DEF t
<1>3. t = s
  BY <1>2, SameSequence
<1> QED BY <1>3 DEF t

(* What is selected from any sequence.                                     *)
LEMMA SelectedFrom ==
    ASSUME NEW s, IsSequence(s), NEW T
    PROVE  /\ IsSequence(Select(s, T))
           /\ ToSet(Select(s, T)) = {e \in ToSet(s) : e \in T}
           /\ (\A i, j \in DOMAIN s : s[i] = s[j] => i = j) =>
                 \A i, j \in DOMAIN Select(s, T) : Select(s, T)[i] = Select(s, T)[j] => i = j
<1> DEFINE t == Select(s, T)
           S == {s[i] : i \in DOMAIN s}
<1>0. s \in Seq(S)
  BY DEF IsSequence
<1> HIDE DEF S
<1>1. /\ t \in Seq(S)
      /\ \A k \in DOMAIN t : \E i \in DOMAIN s : t[k] = s[i] /\ s[i] \in T
      /\ \A i \in DOMAIN s : s[i] \in T => \E k \in DOMAIN t : t[k] = s[i]
      /\ \A j, k \in DOMAIN t : j # k =>
            \E i, l \in DOMAIN s : i # l /\ t[j] = s[i] /\ t[k] = s[l]
  BY <1>0, Selected
<1> HIDE DEF t
<1>2. IsSequence(t)
  BY <1>1, SequenceIntro
<1>3. ToSet(t) = {e \in ToSet(s) : e \in T}
  <2>1. \A e \in ToSet(t) : e \in ToSet(s) /\ e \in T
    BY <1>1 DEF ToSet
  <2>2. \A e \in ToSet(s) : e \in T => e \in ToSet(t)
    BY <1>1 DEF ToSet
  <2> QED BY <2>1, <2>2
<1>4. ASSUME \A i, j \in DOMAIN s : s[i] = s[j] => i = j, NEW j \in DOMAIN t, NEW k \in DOMAIN t,
             t[j] = t[k], j # k
      PROVE  FALSE
  BY <1>1, <1>4
<1> QED BY <1>2, <1>3, <1>4 DEF t

(* Selecting from one element more, and from nothing.                      *)
LEMMA SelectNext ==
    ASSUME NEW s, IsSequence(s), NEW x, NEW T
    PROVE  Select(Append(s, x), T) = IF x \in T THEN Append(Select(s, T), x) ELSE Select(s, T)
<1> DEFINE S == {s[i] : i \in DOMAIN s} \cup {x}
<1>1. s \in Seq(S) /\ x \in S
  BY DEF IsSequence
<1> HIDE DEF S
<1> QED BY <1>1, SelectAppend

(* A selection from a concatenation is made part by part.                  *)
LEMMA SelectConcat ==
    ASSUME NEW s, NEW t, IsSequence(s), IsSequence(t), NEW T
    PROVE  Select(s \o t, T) = Select(s, T) \o Select(t, T)
<1> DEFINE p(k) == SubSeq(t, 1, k)
           P == {k \in Nat : k <= Len(t) => Select(s \o p(k), T) = Select(s, T) \o Select(p(k), T)}
<1>0. Len(t) \in Nat
  BY SequenceOps
<1>1. ASSUME NEW k \in Nat, \A j \in Nat : j < k => j \in P PROVE k \in P
  <2> SUFFICES ASSUME k <= Len(t) PROVE Select(s \o p(k), T) = Select(s, T) \o Select(p(k), T)
    OBVIOUS
  <2>1. CASE k = 0
    <3>1. p(0) = <<>> /\ s \o p(0) = s
      <4>1. s \o SubSeq(t, 1, 0) = s
        BY ConcatNothing
      <4>2. SubSeq(t, 1, 0) = <<>>
        BY DEF IsSequence
      <4> QED BY <4>1, <4>2
    <3> HIDE DEF p
    <3>2. Select(p(0), T) = <<>>
      BY <3>1, SelectEmpty
    <3>3. Select(s, T) \o <<>> = Select(s, T)
      <4>1. IsSequence(Select(s, T))
        BY SelectedFrom
      <4> HIDE DEF P
      <4> QED BY <4>1 DEF IsSequence
    <3> QED BY <2>1, <3>1, <3>2, <3>3
  <2>2. CASE k # 0
    <3>1. PICK j \in Nat : k = j + 1
      <4>1. k - 1 \in Nat /\ k = (k - 1) + 1
        BY <2>2
      <4> QED BY <4>1
    <3>2. j < k /\ j < Len(t) /\ j \in 0..Len(t) /\ j <= Len(t)
      BY <1>0, <3>1
    <3>3. p(k) = Append(p(j), t[k]) /\ IsSequence(p(j))
      BY <3>1, <3>2, PrefixGrows, PrefixElements
    <3>4. Select(s \o p(j), T) = Select(s, T) \o Select(p(j), T)
      BY <1>1, <3>2
    <3> HIDE DEF p
    <3> DEFINE x == t[k]
               u == s \o p(j)
               v == p(j)
    <3>5. s \o Append(p(j), x) = Append(s \o p(j), x) /\ IsSequence(s \o p(j))
      BY <3>3, ConcatAppend, ConcatElements
    <3>6. /\ Select(Append(u, x), T) = IF x \in T THEN Append(Select(u, T), x) ELSE Select(u, T)
          /\ Select(Append(v, x), T) = IF x \in T THEN Append(Select(v, T), x) ELSE Select(v, T)
      <4>1. IsSequence(u) /\ IsSequence(v)
        BY <3>3, <3>5
      <4> HIDE DEF u, v, x, P
      <4> QED BY <4>1, SelectNext
    <3>7. IsSequence(Select(s, T)) /\ IsSequence(Select(p(j), T))
      BY <3>3, SelectedFrom
    <3>8. Select(s, T) \o Append(Select(p(j), T), x) = Append(Select(s, T) \o Select(p(j), T), x)
      BY <3>7, ConcatAppend
    <3> HIDE DEF x
    <3> QED BY <3>3, <3>4, <3>5, <3>6, <3>8 DEF x
  <2> QED BY <2>1, <2>2
<1>2. P = Nat
  <2> HIDE DEF P
  <2>1. P \in SUBSET Nat
    BY DEF P
  <2> QED BY <1>1, <2>1, NoLeastExceptionIsNone
<1>3. p(Len(t)) = t
  BY WholePrefix
<1>4. Len(t) \in P
  BY <1>0, <1>2
<1> HIDE DEF p
<1> QED BY <1>0, <1>3, <1>4

(* Everything, or nothing, is selected.                                    *)
LEMMA SelectAllOrNone ==
    ASSUME NEW s, IsSequence(s), NEW T
    PROVE  /\ (\A i \in DOMAIN s : s[i] \in T) => Select(s, T) = s
           /\ (\A i \in DOMAIN s : s[i] \notin T) => Select(s, T) = <<>>
<1> DEFINE p(k) == SubSeq(s, 1, k)
           All == \A i \in 1..Len(s) : s[i] \in T
           None == \A i \in 1..Len(s) : s[i] \notin T
           P == {k \in Nat : k <= Len(s) => /\ All => Select(p(k), T) = p(k)
                                            /\ None => Select(p(k), T) = <<>>}
<1>0. Len(s) \in Nat /\ DOMAIN s = 1..Len(s)
  BY DEF IsSequence
<1>1. ASSUME NEW k \in Nat, \A j \in Nat : j < k => j \in P PROVE k \in P
  <2> SUFFICES ASSUME k <= Len(s)
               PROVE  (All => Select(p(k), T) = p(k)) /\ (None => Select(p(k), T) = <<>>)
    OBVIOUS
  <2>1. CASE k = 0
    <3>1. p(0) = <<>>
      BY DEF IsSequence
    <3> HIDE DEF p
    <3> QED BY <2>1, <3>1, SelectEmpty
  <2>2. CASE k # 0
    <3>1. PICK j \in Nat : k = j + 1
      <4>1. k - 1 \in Nat /\ k = (k - 1) + 1
        BY <2>2
      <4> QED BY <4>1
    <3>2. j < k /\ j < Len(s) /\ j \in 0..Len(s) /\ j <= Len(s) /\ k \in 1..Len(s)
      BY <1>0, <3>1
    <3>3. p(k) = Append(p(j), s[k]) /\ IsSequence(p(j))
      BY <3>1, <3>2, PrefixGrows, PrefixElements
    <3>4. (All => Select(p(j), T) = p(j)) /\ (None => Select(p(j), T) = <<>>)
      BY <1>1, <3>2
    <3> HIDE DEF p
    <3> DEFINE v == p(j)
               x == s[k]
    <3>5. Select(Append(v, x), T) = IF x \in T THEN Append(Select(v, T), x) ELSE Select(v, T)
      <4>1. IsSequence(v)
        BY <3>3
      <4> HIDE DEF v, x, P
      <4> QED BY <4>1, SelectNext
    <3>6. (All => s[k] \in T) /\ (None => s[k] \notin T)
      BY <3>2
    <3> HIDE DEF All, None
    <3> QED BY <3>3, <3>4, <3>5, <3>6
  <2> QED BY <2>1, <2>2
<1>2. P = Nat
  <2> HIDE DEF P
  <2>1. P \in SUBSET Nat
    BY DEF P
  <2> QED BY <1>1, <2>1, NoLeastExceptionIsNone
<1>3. p(Len(s)) = s
  BY WholePrefix
<1>4. Len(s) \in P
  BY <1>0, <1>2
<1> HIDE DEF p
<1> QED BY <1>0, <1>3, <1>4

(* A sequence without repetitions is as long as it has elements.           *)
LEMMA OnceLength ==
    ASSUME NEW s, IsSequence(s), \A i, j \in DOMAIN s : s[i] = s[j] => i = j
    PROVE  Cardinality(ToSet(s)) = Len(s)
<1> DEFINE n == Len(s)
           D == 1..n
           S == ToSet(s)
<1>1. n \in Nat /\ DOMAIN s = D /\ S = {s[i] : i \in D}
  BY DEF IsSequence, ToSet
<1>2. s = [i \in D |-> s[i]]
  BY DEF IsSequence
<1> HIDE DEF S
<1>3. s \in [D -> S]
  BY <1>1, <1>2
<1>4. s \in Bijection(D, S)
  <2>1. s \in Injection(D, S)
    BY <1>1, <1>3 DEF Injection, IsInjective
  <2>2. s \in Surjection(D, S)
    BY <1>1, <1>3 DEF Surjection
  <2> QED BY <2>1, <2>2 DEF Bijection
<1> HIDE DEF D
<1>5. IsFiniteSet(D) /\ Cardinality(D) = n
  BY <1>1, FS_Interval DEF D
<1>6. Cardinality(S) = Cardinality(D)
  BY <1>4, <1>5, FS_Bijection DEF ExistsBijection
<1> QED BY <1>5, <1>6 DEF S

(* Where a sequence is cut in two, the parts make it up.                   *)
LEMMA CutSequence ==
    ASSUME NEW s, IsSequence(s), NEW k \in 0..Len(s)
    PROVE  LET t == SubSeq(s, k + 1, Len(s))
           IN  /\ IsSequence(t) /\ Len(t) = Len(s) - k
               /\ \A i \in 1..(Len(s) - k) : t[i] = s[k + i]
               /\ s = SubSeq(s, 1, k) \o t
<1> DEFINE t == SubSeq(s, k + 1, Len(s))
           h == SubSeq(s, 1, k)
           S == {s[i] : i \in DOMAIN s}
<1>1. s \in Seq(S) /\ Len(s) \in Nat /\ DOMAIN s = 1..Len(s)
  BY DEF IsSequence
<1> HIDE DEF S
<1>2. t \in Seq(S) /\ Len(t) = Len(s) - k /\ \A i \in 1..(Len(s) - k) : t[i] = s[k + i]
  BY <1>1
<1>3. IsSequence(t)
  BY <1>2, SequenceIntro
<1>4. IsSequence(h) /\ Len(h) = k /\ \A i \in 1..k : h[i] = s[i]
  BY PrefixElements
<1> HIDE DEF t, h
<1>5. /\ IsSequence(h \o t) /\ Len(h \o t) = Len(h) + Len(t)
      /\ \A i \in 1..Len(h) : (h \o t)[i] = h[i]
      /\ \A i \in 1..Len(t) : (h \o t)[Len(h) + i] = t[i]
  BY <1>3, <1>4, ConcatElements
<1>6. \A i \in 1..Len(s) : s[i] = (h \o t)[i]
  <2> SUFFICES ASSUME NEW i \in 1..Len(s) PROVE s[i] = (h \o t)[i]
    OBVIOUS
  <2>1. CASE i <= k
    BY <2>1, <1>1, <1>4, <1>5
  <2>2. CASE i > k
    <3> DEFINE m == i - k
    <3>1. m \in 1..Len(t) /\ m \in 1..(Len(s) - k) /\ k + m = i
      BY <2>2, <1>1, <1>2
    <3> HIDE DEF m
    <3>2. (h \o t)[k + m] = t[m]
      BY <3>1, <1>4, <1>5
    <3>3. t[m] = s[k + m]
      BY <3>1, <1>2
    <3> QED BY <3>1, <3>2, <3>3
  <2>3. i <= k \/ i > k
    OBVIOUS
  <2> QED BY <2>1, <2>2, <2>3
<1>7. s = h \o t
  <2>1. Len(h \o t) = Len(s)
    BY <1>1, <1>2, <1>4, <1>5
  <2> QED BY <2>1, <1>5, <1>6, SameSequence
<1> QED BY <1>2, <1>3, <1>7 DEF t, h

==============================================================================
