----------------------------- MODULE SumTheorems -----------------------------
(***************************************************************************)
(* Facts about Sum: what it is of the empty set, that an element may be    *)
(* taken out of it whichever it is, and what follows from that; about      *)
(* folds that go over the numbers up to n, from the last one down; and     *)
(* about the places that the elements of an ordered set have.              *)
(*                                                                         *)
(* MapThenSumSet is a recursive function on the subsets of S.  That such a *)
(* function exists, and what holds of it for every set, is shown without   *)
(* an induction rule: a finite set whose sets of sets have minimal         *)
(* elements (FS_StrictSubsetOrderingWellFounded) has no smallest subset    *)
(* for which a fact is wrong.  A fold over the sets 1..k likewise has such *)
(* a function if it chooses the largest element (FoldExists), and stays in *)
(* any set that its steps do not leave (FoldStaysIn); the values it passes *)
(* through make a walk from the base to the result (FoldWalks).            *)
(***************************************************************************)
EXTENDS Sums, FiniteSetTheorems, TLAPS

\* Of any sets of elements of a finite set, one has no other of them in it.
LEMMA MinimalSubset ==
  ASSUME NEW S, IsFiniteSet(S), NEW T, T \subseteq SUBSET S, T # {}
  PROVE  \E t \in T : \A u \in T : u \subseteq t => u = t
  <1>1. IsWellFoundedOn(StrictSubsetOrdering(S), FiniteSubsetsOf(S))
    BY FS_StrictSubsetOrderingWellFounded
  <1>2. FiniteSubsetsOf(S) = SUBSET S
    BY FS_FiniteSubsetsOfFinite
  <1>3. PICK t \in T : \A u \in T : ~ (<<u, t>> \in StrictSubsetOrdering(S))
    BY <1>1, <1>2, WFMin
  <1>4. \A u \in T : u \subseteq t => u = t
    BY <1>3 DEF StrictSubsetOrdering
  <1>. QED
    BY <1>4

\* The same for numbers that have a bound.
LEMMA LeastNumber ==
  ASSUME NEW k \in Nat, NEW T, T \subseteq 0..k, T # {}
  PROVE  \E n \in T : \A m \in T : n <= m
  <1>. DEFINE U == {0..n : n \in T}
  <1>1. IsFiniteSet(0..k)
    BY FS_Interval
  <1>2. U \subseteq SUBSET (0..k) /\ U # {}
    <2>1. \A n \in T : 0..n \subseteq 0..k
      OBVIOUS
    <2>. QED
      BY <2>1
  <1>3. \E t \in U : \A u \in U : u \subseteq t => u = t
    <2>. DEFINE S == 0..k
    <2>1. IsFiniteSet(S) /\ U \subseteq SUBSET S /\ U # {}
      BY <1>1, <1>2
    <2>. HIDE DEF U, S
    <2>. QED
      BY <2>1, MinimalSubset
  <1>4. PICK t \in U : \A u \in U : u \subseteq t => u = t
    BY <1>3
  <1>5. PICK n \in T : t = 0..n
    OBVIOUS
  <1>6. ASSUME NEW m \in T, ~(n <= m)
        PROVE  FALSE
    <2>1. 0..m \in U /\ 0..m \subseteq t
      BY <1>5, <1>6
    <2>2. 0..m = 0..n
      BY <1>4, <1>5, <2>1
    <2>3. n \in 0..n /\ n \notin 0..m
      BY <1>6
    <2>. QED
      BY <2>2, <2>3
  <1>. QED
    BY <1>6

-----------------------------------------------------------------------------
(* The recursive function behind Sum                                       *)

Pick(s) == CHOOSE x \in s : TRUE
SumStep(f, g, s) == IF s = {} THEN 0 ELSE f[Pick(s)] + g[s \ {Pick(s)}]
Iterated(f, g, S) == [s \in SUBSET S |-> SumStep(f, g, s)]
\* g is right for the sets with at most n elements.
RightUpTo(f, g, S, n) ==
  \A s \in SUBSET S : Cardinality(s) <= n => g[s] = SumStep(f, g, s)

LEMMA SumIsIterated ==
  ASSUME NEW f, NEW S
  PROVE  Sum(f, S) = (CHOOSE g : g = Iterated(f, g, S))[S]
  BY DEF Sum, MapThenSumSet, MapThenFoldSet, Iterated, SumStep, Pick

LEMMA PickFromSet ==
  ASSUME NEW S, IsFiniteSet(S), S # {}
  PROVE  /\ Pick(S) \in S /\ IsFiniteSet(S \ {Pick(S)})
         /\ Cardinality(S \ {Pick(S)}) = Cardinality(S) - 1
         /\ Cardinality(S) \in Nat /\ Cardinality(S) > 0
  <1>1. Pick(S) \in S
    BY DEF Pick
  <1>. QED
    BY <1>1, FS_RemoveElement, FS_CardinalityType, FS_EmptySet

\* One that is right for small sets gives one for sets with one element more.
LEMMA RightForMore ==
  ASSUME NEW S, IsFiniteSet(S), NEW f, NEW n \in Nat,
         NEW g, RightUpTo(f, g, S, n)
  PROVE  RightUpTo(f, Iterated(f, g, S), S, n + 1)
  <1>. DEFINE h == Iterated(f, g, S)
  <1>1. \A s \in SUBSET S : h[s] = SumStep(f, g, s)
    BY DEF Iterated
  <1>2. \A s \in SUBSET S : Cardinality(s) <= n => h[s] = g[s]
    BY <1>1 DEF RightUpTo
  <1>. HIDE DEF h
  <1>3. ASSUME NEW s \in SUBSET S, Cardinality(s) <= n + 1, s # {}
        PROVE  g[s \ {Pick(s)}] = h[s \ {Pick(s)}]
    <2>1. IsFiniteSet(s)
      BY FS_Subset
    <2>2. Cardinality(s \ {Pick(s)}) <= n
      BY <1>3, <2>1, PickFromSet
    <2>. QED
      BY <1>2, <2>2
  <1>4. \A s \in SUBSET S : Cardinality(s) <= n + 1 => h[s] = SumStep(f, h, s)
    BY <1>1, <1>3 DEF SumStep
  <1>. QED
    BY <1>4 DEF RightUpTo, h

LEMMA IterationExists ==
  ASSUME NEW S, IsFiniteSet(S), NEW f
  PROVE  \E g : g = Iterated(f, g, S)
  <1>. DEFINE Right(n) == \E g : RightUpTo(f, g, S, n)
              k == Cardinality(S)
              Wrong == {n \in 0..k : ~Right(n)}
  <1>1. k \in Nat /\ \A s \in SUBSET S : Cardinality(s) \in Nat /\ Cardinality(s) <= k
    BY FS_CardinalityType, FS_Subset
  <1>2. Right(0)
    <2>. DEFINE g == [s \in SUBSET S |-> 0]
    <2>1. \A s \in SUBSET S : Cardinality(s) <= 0 => s = {}
      BY <1>1, FS_EmptySet, FS_Subset
    <2>2. RightUpTo(f, g, S, 0)
      BY <2>1 DEF RightUpTo, SumStep
    <2>. QED
      BY <2>2
  <1>3. \A n \in Nat : Right(n) => Right(n + 1)
    BY RightForMore
  <1>4. Wrong = {}
    <2>1. SUFFICES ASSUME Wrong # {}
                   PROVE  FALSE
      OBVIOUS
    <2>. HIDE DEF Right, k
    <2>2. PICK n \in Wrong : \A m \in Wrong : n <= m
      BY <1>1, <2>1, LeastNumber
    <2>3. n \in Nat /\ n # 0 /\ n - 1 \in 0..k /\ n - 1 \notin Wrong
      BY <1>1, <1>2, <2>2
    <2>4. Right(n - 1) /\ n - 1 \in Nat
      BY <2>3
    <2>. QED
      BY <1>3, <2>3, <2>4
  <1>5. Right(k)
    BY <1>1, <1>4
  <1>6. PICK g : RightUpTo(f, g, S, k)
    BY <1>5
  <1>7. RightUpTo(f, Iterated(f, g, S), S, k)
    <2>1. RightUpTo(f, Iterated(f, g, S), S, k + 1)
      BY <1>1, <1>6, RightForMore
    <2>. QED
      BY <1>1, <2>1 DEF RightUpTo
  <1>8. \A s \in SUBSET S : Iterated(f, g, S)[s] = SumStep(f, Iterated(f, g, S), s)
    BY <1>1, <1>7 DEF RightUpTo
  <1>9. Iterated(f, g, S) = Iterated(f, Iterated(f, g, S), S)
    <2>. DEFINE h == Iterated(f, g, S)
    <2>1. h = [s \in SUBSET S |-> h[s]]
      BY DEF Iterated
    <2>. HIDE DEF h
    <2>2. h = [s \in SUBSET S |-> SumStep(f, h, s)]
      BY <1>8, <2>1 DEF h
    <2>. QED
      BY <2>2 DEF Iterated, h
  <1>. QED
    BY <1>9

Iteration(f, S) == CHOOSE g : g = Iterated(f, g, S)

LEMMA IterationSteps ==
  ASSUME NEW S, IsFiniteSet(S), NEW f
  PROVE  \A s \in SUBSET S : Iteration(f, S)[s] = SumStep(f, Iteration(f, S), s)
  <1>1. Iteration(f, S) = Iterated(f, Iteration(f, S), S)
    BY IterationExists DEF Iteration
  <1>2. \A g : g = Iterated(f, g, S) => \A s \in SUBSET S : g[s] = SumStep(f, g, s)
    BY DEF Iterated
  <1>. QED
    BY <1>1, <1>2

\* It does not matter of which set they are subsets.
LEMMA IterationsAgree ==
  ASSUME NEW S, IsFiniteSet(S), NEW f, NEW T, T \subseteq S
  PROVE  Iteration(f, S)[T] = Iteration(f, T)[T]
  <1>. DEFINE g == Iteration(f, S)
              h == Iteration(f, T)
              Wrong == {s \in SUBSET T : g[s] # h[s]}
  <1>1. IsFiniteSet(T)
    BY FS_Subset
  <1>2. \A s \in SUBSET T : g[s] = SumStep(f, g, s) /\ h[s] = SumStep(f, h, s)
    BY <1>1, IterationSteps
  <1>3. Wrong = {}
    <2>1. SUFFICES ASSUME Wrong # {}
                   PROVE  FALSE
      OBVIOUS
    <2>. HIDE DEF g, h
    <2>2. PICK s \in Wrong : \A t \in Wrong : t \subseteq s => t = s
      <3>1. Wrong \subseteq SUBSET T
        OBVIOUS
      <3>. HIDE DEF Wrong
      <3>. QED
        BY <1>1, <2>1, <3>1, MinimalSubset
    <2>3. s # {}
      BY <1>2, <2>2 DEF SumStep
    <2>4. Pick(s) \in s /\ s \ {Pick(s)} \in SUBSET T
      BY <2>2, <2>3 DEF Pick
    <2>5. g[s \ {Pick(s)}] = h[s \ {Pick(s)}]
      BY <2>2, <2>4
    <2>. QED
      BY <1>2, <2>2, <2>3, <2>5 DEF SumStep
  <1>. QED
    BY <1>3

LEMMA SumSteps ==
  ASSUME NEW S, IsFiniteSet(S), NEW f
  PROVE  Sum(f, S) = IF S = {} THEN 0 ELSE f[Pick(S)] + Sum(f, S \ {Pick(S)})
  <1>1. \A T : Sum(f, T) = Iteration(f, T)[T]
    BY SumIsIterated DEF Iteration
  <1>2. Iteration(f, S)[S] = SumStep(f, Iteration(f, S), S)
    BY IterationSteps
  <1>3. Iteration(f, S)[S \ {Pick(S)}] = Iteration(f, S \ {Pick(S)})[S \ {Pick(S)}]
    BY IterationsAgree
  <1>. QED
    BY <1>1, <1>2, <1>3 DEF SumStep

-----------------------------------------------------------------------------
(* Sums of naturals                                                        *)

NaturalOn(f, S) == \A x \in S : f[x] \in Nat

LEMMA SumOfNone ==
  ASSUME NEW f
  PROVE  Sum(f, {}) = 0
  BY SumSteps, FS_EmptySet

LEMMA SumIsNatural ==
  ASSUME NEW S, IsFiniteSet(S), NEW f, NaturalOn(f, S)
  PROVE  Sum(f, S) \in Nat
  <1>. DEFINE Wrong == {s \in SUBSET S : Sum(f, s) \notin Nat}
  <1>1. Wrong = {}
    <2>1. SUFFICES ASSUME Wrong # {}
                   PROVE  FALSE
      OBVIOUS
    <2>2. PICK s \in Wrong : \A t \in Wrong : t \subseteq s => t = s
      <3>1. Wrong \subseteq SUBSET S
        OBVIOUS
      <3>. HIDE DEF Wrong
      <3>. QED
        BY <2>1, <3>1, MinimalSubset
    <2>3. s \subseteq S /\ Sum(f, s) \notin Nat
      BY <2>2
    <2>. HIDE DEF Wrong
    <2>4. IsFiniteSet(s) /\ s # {}
      <3>1. s \in SUBSET S
        BY <2>3
      <3>2. IsFiniteSet(s)
        BY <3>1, FS_Subset
      <3>3. Sum(f, {}) \in Nat
        BY SumOfNone
      <3>. QED
        BY <2>3, <3>2, <3>3
    <2>5. Pick(s) \in s
      BY <2>4, PickFromSet
    <2>6. Sum(f, s \ {Pick(s)}) \in Nat
      BY <2>2, <2>3, <2>5 DEF Wrong
    <2>7. f[Pick(s)] \in Nat
      BY <2>3, <2>5 DEF NaturalOn
    <2>. QED
      BY <2>3, <2>4, <2>6, <2>7, SumSteps
  <1>. QED
    BY <1>1

\* An element may be taken out whichever it is.
LEMMA SumWithout ==
  ASSUME NEW S, IsFiniteSet(S), NEW f, NaturalOn(f, S), NEW x \in S
  PROVE  Sum(f, S) = f[x] + Sum(f, S \ {x})
  <1>. DEFINE Wrong == {s \in SUBSET S : \E y \in s : Sum(f, s) # f[y] + Sum(f, s \ {y})}
  <1>1. Wrong = {}
    <2>1. SUFFICES ASSUME Wrong # {}
                   PROVE  FALSE
      OBVIOUS
    <2>2. PICK s \in Wrong : \A t \in Wrong : t \subseteq s => t = s
      <3>1. Wrong \subseteq SUBSET S
        OBVIOUS
      <3>. HIDE DEF Wrong
      <3>. QED
        BY <2>1, <3>1, MinimalSubset
    <2>3. PICK y \in s : Sum(f, s) # f[y] + Sum(f, s \ {y})
      BY <2>2
    <2>. DEFINE p == Pick(s)
    <2>4. /\ IsFiniteSet(s) /\ p \in s
          /\ Sum(f, s) = f[p] + Sum(f, s \ {p})
      BY <2>2, FS_Subset, PickFromSet, SumSteps
    <2>. HIDE DEF p
    <2>5. y # p
      BY <2>3, <2>4
    <2>6. s \ {p} \notin Wrong /\ s \ {y} \notin Wrong
      BY <2>2, <2>4
    <2>. DEFINE t == (s \ {y}) \ {p}
    <2>7. (s \ {p}) \ {y} = t
      OBVIOUS
    <2>. HIDE DEF t
    <2>8. /\ Sum(f, s \ {p}) = f[y] + Sum(f, t)
          /\ Sum(f, s \ {y}) = f[p] + Sum(f, t)
      BY <2>2, <2>4, <2>5, <2>6, <2>7 DEF t
    <2>9. f[p] \in Nat /\ f[y] \in Nat /\ Sum(f, t) \in Nat
      <3>1. t \subseteq S /\ y \in S /\ p \in S
        BY <2>2, <2>4 DEF t
      <3>2. IsFiniteSet(t) /\ NaturalOn(f, t)
        BY <3>1, FS_Subset DEF NaturalOn
      <3>3. Sum(f, t) \in Nat
        BY <3>2, SumIsNatural
      <3>. QED
        BY <3>1, <3>3 DEF NaturalOn
    <2>. HIDE DEF Wrong
    <2>. QED
      BY <2>3, <2>4, <2>8, <2>9
  <1>. QED
    BY <1>1

\* A family of sets with the empty set, and with every set that has one element
\* more than one of its sets, has every finite set.
LEMMA SubsetInduction ==
  ASSUME NEW S, IsFiniteSet(S), NEW Good, {} \in Good,
         \A T \in Good : \A x \in S : T \subseteq S /\ x \notin T => T \cup {x} \in Good
  PROVE  S \in Good
  <1>. DEFINE Wrong == {T \in SUBSET S : T \notin Good}
  <1>1. SUFFICES ASSUME Wrong # {}
                 PROVE  FALSE
    OBVIOUS
  <1>2. PICK s \in Wrong : \A t \in Wrong : t \subseteq s => t = s
    <2>1. Wrong \subseteq SUBSET S
      OBVIOUS
    <2>. HIDE DEF Wrong
    <2>. QED
      BY <1>1, <2>1, MinimalSubset
  <1>3. PICK x \in s : TRUE
    BY <1>2
  <1>4. s \ {x} \in Good
    BY <1>2, <1>3
  <1>5. (s \ {x}) \cup {x} = s
    BY <1>3
  <1>. QED
    BY <1>2, <1>3, <1>4, <1>5

LEMMA SumWith ==
  ASSUME NEW S, IsFiniteSet(S), NEW x, x \notin S, NEW f, NaturalOn(f, S \cup {x})
  PROVE  Sum(f, S \cup {x}) = f[x] + Sum(f, S)
  <1>1. IsFiniteSet(S \cup {x}) /\ x \in S \cup {x} /\ (S \cup {x}) \ {x} = S
    BY FS_AddElement
  <1>. QED
    BY <1>1, SumWithout

LEMMA SumsAgree ==
  ASSUME NEW S, IsFiniteSet(S), NEW f, NaturalOn(f, S),
         NEW g, \A x \in S : g[x] = f[x]
  PROVE  Sum(g, S) = Sum(f, S)
  <1>. DEFINE Good == {T \in SUBSET S : Sum(g, T) = Sum(f, T)}
  <1>1. {} \in Good
    BY SumOfNone
  <1>2. ASSUME NEW T \in Good, NEW x \in S, x \notin T
        PROVE  T \cup {x} \in Good
    <2>1. /\ T \subseteq S /\ IsFiniteSet(T) /\ NaturalOn(f, T \cup {x})
          /\ NaturalOn(g, T \cup {x})
      BY FS_Subset DEF NaturalOn
    <2>2. Sum(f, T \cup {x}) = f[x] + Sum(f, T)
      BY <1>2, <2>1, SumWith
    <2>3. Sum(g, T \cup {x}) = g[x] + Sum(g, T)
      BY <1>2, <2>1, SumWith
    <2>. QED
      BY <1>2, <2>1, <2>2, <2>3
  <1>. HIDE DEF Good
  <1>3. S \in Good
    BY <1>1, <1>2, SubsetInduction
  <1>. QED
    BY <1>3 DEF Good

\* What one element changes, the sum changes.
LEMMA SumChanges ==
  ASSUME NEW S, IsFiniteSet(S), NEW x \in S, NEW f, NaturalOn(f, S),
         NEW g, NaturalOn(g, S), \A y \in S \ {x} : g[y] = f[y]
  PROVE  Sum(g, S) + f[x] = Sum(f, S) + g[x]
  <1>1. IsFiniteSet(S \ {x}) /\ NaturalOn(f, S \ {x})
    BY FS_RemoveElement DEF NaturalOn
  <1>2. Sum(g, S \ {x}) = Sum(f, S \ {x}) /\ Sum(f, S \ {x}) \in Nat
    BY <1>1, SumsAgree, SumIsNatural
  <1>3. /\ Sum(f, S) = f[x] + Sum(f, S \ {x})
        /\ Sum(g, S) = g[x] + Sum(g, S \ {x})
    BY SumWithout
  <1>4. f[x] \in Nat /\ g[x] \in Nat
    BY DEF NaturalOn
  <1>. QED
    BY <1>2, <1>3, <1>4

LEMMA SumOfZeros ==
  ASSUME NEW S, IsFiniteSet(S), NEW f, \A x \in S : f[x] = 0
  PROVE  Sum(f, S) = 0
  <1>. DEFINE Good == {T \in SUBSET S : Sum(f, T) = 0}
  <1>1. {} \in Good
    BY SumOfNone
  <1>2. ASSUME NEW T \in Good, NEW x \in S, x \notin T
        PROVE  T \cup {x} \in Good
    <2>1. T \subseteq S /\ IsFiniteSet(T) /\ NaturalOn(f, T \cup {x})
      BY FS_Subset DEF NaturalOn
    <2>. QED
      BY <1>2, <2>1, SumWith
  <1>. HIDE DEF Good
  <1>3. S \in Good
    BY <1>1, <1>2, SubsetInduction
  <1>. QED
    BY <1>3 DEF Good

\* The sum of two functions, one for some of the elements and one for all.
LEMMA SumOfBoth ==
  ASSUME NEW S, IsFiniteSet(S), NEW f, NaturalOn(f, S), NEW g, NaturalOn(g, S),
         NEW h, \A x \in S : h[x] = f[x] + g[x]
  PROVE  Sum(h, S) = Sum(f, S) + Sum(g, S)
  <1>. DEFINE Good == {T \in SUBSET S : Sum(h, T) = Sum(f, T) + Sum(g, T)}
  <1>1. {} \in Good
    BY SumOfNone
  <1>2. ASSUME NEW T \in Good, NEW x \in S, x \notin T
        PROVE  T \cup {x} \in Good
    <2>1. T \subseteq S /\ IsFiniteSet(T) /\ T \cup {x} \subseteq S
      BY FS_Subset
    <2>2. /\ NaturalOn(f, T \cup {x}) /\ NaturalOn(g, T \cup {x})
          /\ NaturalOn(h, T \cup {x}) /\ NaturalOn(f, T) /\ NaturalOn(g, T)
      BY <2>1 DEF NaturalOn
    <2>3. /\ Sum(f, T \cup {x}) = f[x] + Sum(f, T)
          /\ Sum(g, T \cup {x}) = g[x] + Sum(g, T)
          /\ Sum(h, T \cup {x}) = h[x] + Sum(h, T)
      BY <1>2, <2>1, <2>2, SumWith
    <2>4. Sum(f, T) \in Nat /\ Sum(g, T) \in Nat /\ f[x] \in Nat /\ g[x] \in Nat
      BY <2>1, <2>2, SumIsNatural DEF NaturalOn
    <2>5. Sum(h, T) = Sum(f, T) + Sum(g, T) /\ h[x] = f[x] + g[x]
      OBVIOUS
    <2>6. Sum(h, T \cup {x}) = Sum(f, T \cup {x}) + Sum(g, T \cup {x})
      BY <2>3, <2>4, <2>5
    <2>. QED
      BY <2>1, <2>6
  <1>. HIDE DEF Good
  <1>3. S \in Good
    BY <1>1, <1>2, SubsetInduction
  <1>. QED
    BY <1>3 DEF Good

LEMMA SumsCompare ==
  ASSUME NEW S, IsFiniteSet(S), NEW f, NaturalOn(f, S), NEW g, NaturalOn(g, S),
         \A x \in S : f[x] <= g[x]
  PROVE  Sum(f, S) <= Sum(g, S)
  <1>. DEFINE h == [x \in S |-> g[x] - f[x]]
  <1>1. NaturalOn(h, S) /\ \A x \in S : g[x] = f[x] + h[x]
    BY DEF NaturalOn
  <1>. HIDE DEF h
  <1>2. Sum(g, S) = Sum(f, S) + Sum(h, S)
    BY <1>1, SumOfBoth
  <1>3. Sum(f, S) \in Nat /\ Sum(h, S) \in Nat
    BY <1>1, SumIsNatural
  <1>. QED
    BY <1>2, <1>3

\* A part of a set, the rest of which adds nothing.
LEMMA SumOfPart ==
  ASSUME NEW S, IsFiniteSet(S), NEW T, T \subseteq S, NEW f, NaturalOn(f, S)
  PROVE  Sum(f, T) = Sum([x \in S |-> IF x \in T THEN f[x] ELSE 0], S)
  <1>. DEFINE h == [x \in S |-> IF x \in T THEN f[x] ELSE 0]
              Good == {U \in SUBSET S : Sum(f, U \cap T) = Sum(h, U)}
  <1>0. NaturalOn(h, S)
    BY DEF NaturalOn
  <1>1. {} \in Good
    <2>1. {} \cap T = {}
      OBVIOUS
    <2>. QED
      BY <2>1, SumOfNone
  <1>2. ASSUME NEW U \in Good, NEW x \in S, x \notin U
        PROVE  U \cup {x} \in Good
    <2>1. U \subseteq S /\ IsFiniteSet(U) /\ U \cup {x} \subseteq S /\ IsFiniteSet(U \cap T)
      BY FS_Subset
    <2>2. h[x] = IF x \in T THEN f[x] ELSE 0
      OBVIOUS
    <2>3. Sum(f, U \cap T) = Sum(h, U)
      OBVIOUS
    <2>. HIDE DEF h, Good
    <2>4. NaturalOn(h, U \cup {x}) /\ NaturalOn(h, U)
      BY <1>0, <2>1 DEF NaturalOn
    <2>5. Sum(h, U \cup {x}) = h[x] + Sum(h, U) /\ Sum(h, U) \in Nat
      BY <1>2, <2>1, <2>4, SumWith, SumIsNatural
    <2>6. Sum(f, (U \cup {x}) \cap T) = Sum(h, U \cup {x})
      <3>1. CASE x \in T
        <4>1. (U \cup {x}) \cap T = (U \cap T) \cup {x} /\ x \notin U \cap T
          BY <1>2, <3>1
        <4>2. NaturalOn(f, (U \cap T) \cup {x})
          BY <2>1 DEF NaturalOn
        <4>3. Sum(f, (U \cap T) \cup {x}) = f[x] + Sum(f, U \cap T)
          BY <2>1, <4>1, <4>2, SumWith
        <4>. QED
          BY <2>2, <2>3, <2>5, <3>1, <4>1, <4>3
      <3>2. CASE x \notin T
        <4>1. (U \cup {x}) \cap T = U \cap T
          BY <3>2
        <4>. QED
          BY <2>2, <2>3, <2>5, <3>2, <4>1
      <3>. QED
        BY <3>1, <3>2
    <2>. QED
      BY <2>1, <2>6 DEF Good
  <1>3. S \cap T = T
    OBVIOUS
  <1>. HIDE DEF Good
  <1>4. S \in Good
    BY <1>1, <1>2, SubsetInduction
  <1>. QED
    BY <1>3, <1>4 DEF Good

\* A larger set has the larger sum.
LEMMA SumOfPartIsLess ==
  ASSUME NEW S, IsFiniteSet(S), NEW T, T \subseteq S, NEW f, NaturalOn(f, S)
  PROVE  Sum(f, T) <= Sum(f, S)
  <1>. DEFINE h == [x \in S |-> IF x \in T THEN f[x] ELSE 0]
  <1>1. NaturalOn(h, S) /\ \A x \in S : h[x] <= f[x]
    BY DEF NaturalOn
  <1>2. Sum(f, T) = Sum(h, S)
    BY SumOfPart
  <1>. HIDE DEF h
  <1>. QED
    BY <1>1, <1>2, SumsCompare

\* A function that maps no two elements to one, and what it maps them to.
Injective(h, S) == \A x, y \in S : h[x] = h[y] => x = y
Image(h, S) == {h[x] : x \in S}

\* The sum over what the elements are mapped to, one to one.
LEMMA SumOfImage ==
  ASSUME NEW S, IsFiniteSet(S), NEW h, Injective(h, S),
         NEW f, NaturalOn(f, Image(h, S)), NEW g, \A x \in S : g[x] = f[h[x]]
  PROVE  Sum(g, S) = Sum(f, Image(h, S)) /\ IsFiniteSet(Image(h, S))
  <1>. DEFINE Good == {T \in SUBSET S : Sum(g, T) = Sum(f, Image(h, T)) /\ IsFiniteSet(Image(h, T))}
  <1>1. {} \in Good
    <2>1. Image(h, {}) = {}
      BY DEF Image
    <2>. QED
      BY <2>1, SumOfNone, FS_EmptySet
  <1>2. ASSUME NEW T \in Good, NEW x \in S, x \notin T
        PROVE  T \cup {x} \in Good
    <2>1. T \subseteq S /\ IsFiniteSet(T) /\ IsFiniteSet(Image(h, T)) /\ Sum(g, T) = Sum(f, Image(h, T))
      BY FS_Subset
    <2>. HIDE DEF Good
    <2>2. Image(h, T \cup {x}) = Image(h, T) \cup {h[x]} /\ h[x] \notin Image(h, T)
      BY <1>2, <2>1 DEF Image, Injective
    <2>3. NaturalOn(f, Image(h, T) \cup {h[x]})
      BY <2>1 DEF Image, NaturalOn
    <2>4. NaturalOn(g, T \cup {x}) /\ g[x] = f[h[x]]
      BY <2>1 DEF Image, NaturalOn
    <2>5. Sum(g, T \cup {x}) = g[x] + Sum(g, T)
      BY <1>2, <2>1, <2>4, SumWith
    <2>6. Sum(f, Image(h, T) \cup {h[x]}) = f[h[x]] + Sum(f, Image(h, T))
      BY <2>1, <2>2, <2>3, SumWith
    <2>7. IsFiniteSet(Image(h, T) \cup {h[x]})
      BY <2>1, FS_AddElement
    <2>. QED
      BY <2>1, <2>2, <2>4, <2>5, <2>6, <2>7 DEF Good
  <1>. HIDE DEF Good
  <1>3. S \in Good
    BY <1>1, <1>2, SubsetInduction
  <1>. QED
    BY <1>3 DEF Good

\* The sum over two sets, and of what is the same everywhere.
LEMMA SumOfTwo ==
  ASSUME NEW S, IsFiniteSet(S), NEW T, IsFiniteSet(T), S \cap T = {}, NEW f, NaturalOn(f, S \cup T)
  PROVE  Sum(f, S \cup T) = Sum(f, S) + Sum(f, T)
  <1>. DEFINE Good == {U \in SUBSET T : Sum(f, S \cup U) = Sum(f, S) + Sum(f, U)}
  <1>0. NaturalOn(f, S) /\ Sum(f, S) \in Nat
    <2>1. NaturalOn(f, S)
      BY DEF NaturalOn
    <2>. QED
      BY <2>1, SumIsNatural
  <1>1. {} \in Good
    BY <1>0, SumOfNone
  <1>2. ASSUME NEW U \in Good, NEW x \in T, x \notin U
        PROVE  U \cup {x} \in Good
    <2>1. U \subseteq T /\ IsFiniteSet(U) /\ Sum(f, S \cup U) = Sum(f, S) + Sum(f, U)
      BY FS_Subset
    <2>. HIDE DEF Good
    <2>2. IsFiniteSet(S \cup U) /\ x \notin S \cup U
      BY <1>2, <2>1, FS_Union
    <2>3. NaturalOn(f, U \cup {x}) /\ NaturalOn(f, U) /\ NaturalOn(f, (S \cup U) \cup {x}) /\ f[x] \in Nat
      BY <2>1 DEF NaturalOn
    <2>4. Sum(f, (S \cup U) \cup {x}) = f[x] + Sum(f, S \cup U)
      BY <2>2, <2>3, SumWith
    <2>5. Sum(f, U \cup {x}) = f[x] + Sum(f, U) /\ Sum(f, U) \in Nat
      BY <1>2, <2>1, <2>3, SumWith, SumIsNatural
    <2>6. S \cup (U \cup {x}) = (S \cup U) \cup {x}
      OBVIOUS
    <2>7. Sum(f, (S \cup U) \cup {x}) = Sum(f, S) + Sum(f, U \cup {x})
      BY <1>0, <2>1, <2>3, <2>4, <2>5
    <2>8. Sum(f, S \cup (U \cup {x})) = Sum(f, S) + Sum(f, U \cup {x})
      BY <2>6, <2>7
    <2>. QED
      BY <2>1, <2>8 DEF Good
  <1>. HIDE DEF Good
  <1>3. T \in Good
    BY <1>1, <1>2, SubsetInduction
  <1>. QED
    BY <1>3 DEF Good

LEMMA SumOfEqual ==
  ASSUME NEW S, IsFiniteSet(S), NEW n \in Nat, NEW f, \A x \in S : f[x] = n
  PROVE  Sum(f, S) = Cardinality(S) * n /\ Cardinality(S) \in Nat
  <1>. DEFINE Good == {T \in SUBSET S : Sum(f, T) = Cardinality(T) * n}
  <1>1. {} \in Good
    BY SumOfNone, FS_EmptySet
  <1>2. ASSUME NEW T \in Good, NEW x \in S, x \notin T
        PROVE  T \cup {x} \in Good
    <2>1. T \subseteq S /\ IsFiniteSet(T) /\ Sum(f, T) = Cardinality(T) * n
      BY FS_Subset
    <2>2. NaturalOn(f, T \cup {x}) /\ f[x] = n
      BY <2>1 DEF NaturalOn
    <2>3. Sum(f, T \cup {x}) = n + Sum(f, T)
      BY <1>2, <2>1, <2>2, SumWith
    <2>4. Cardinality(T \cup {x}) = Cardinality(T) + 1 /\ Cardinality(T) \in Nat
      BY <1>2, <2>1, FS_AddElement, FS_CardinalityType
    <2>5. (Cardinality(T) + 1) * n = n + Cardinality(T) * n
      BY <2>4
    <2>. QED
      BY <2>1, <2>3, <2>4, <2>5
  <1>. HIDE DEF Good
  <1>3. S \in Good
    BY <1>1, <1>2, SubsetInduction
  <1>. QED
    BY <1>3, FS_CardinalityType DEF Good

\* What is less than the divisor does not change the quotient of a multiple.
LEMMA Quotient ==
  ASSUME NEW q \in Nat, NEW b \in Nat \ {0}, NEW r \in Nat, r < b
  PROVE  (q * b + r) \div b = q
  OBVIOUS

-----------------------------------------------------------------------------
(* Folds: what is chosen from a set goes last, on what the rest gave        *)

\* Numbers up to k: whatever holds of 0 and of the next number holds of all.
LEMMA UpTo ==
  ASSUME NEW k \in Nat, NEW Good, 0 \in Good,
         \A n \in 1..k : n - 1 \in Good => n \in Good
  PROVE  \A n \in 0..k : n \in Good
  <1>. DEFINE Wrong == {n \in 0..k : n \notin Good}
  <1>1. SUFFICES ASSUME Wrong # {}
                 PROVE  FALSE
    OBVIOUS
  <1>2. PICK n \in Wrong : \A m \in Wrong : n <= m
    BY <1>1, LeastNumber
  <1>3. n \in 1..k /\ n - 1 \in 0..k /\ n - 1 \notin Wrong
    BY <1>2
  <1>4. n - 1 \in Good
    BY <1>3
  <1>5. n \in Good
    BY <1>3, <1>4
  <1>. QED
    BY <1>2, <1>5

\* One step of a fold whose operator is the function F of an element and of
\* the result so far; c chooses the element.
FoldStep(F, c, base, g, s) == IF s = {} THEN base ELSE F[<<c[s], g[s \ {c[s]}]>>]
Folded(F, c, base, g, S) == [s \in SUBSET S |-> FoldStep(F, c, base, g, s)]
FoldedUpTo(F, c, base, g, S, n) ==
  \A s \in SUBSET S : Cardinality(s) <= n => g[s] = FoldStep(F, c, base, g, s)
Chooses(c, S) == \A s \in SUBSET S : s # {} => c[s] \in s

LEMMA FoldedForMore ==
  ASSUME NEW S, IsFiniteSet(S), NEW F, NEW c, Chooses(c, S), NEW base, NEW n \in Nat,
         NEW g, FoldedUpTo(F, c, base, g, S, n)
  PROVE  FoldedUpTo(F, c, base, Folded(F, c, base, g, S), S, n + 1)
  <1>. DEFINE h == Folded(F, c, base, g, S)
  <1>1. \A s \in SUBSET S : h[s] = FoldStep(F, c, base, g, s)
    BY DEF Folded
  <1>2. \A s \in SUBSET S : Cardinality(s) <= n => h[s] = g[s]
    BY <1>1 DEF FoldedUpTo
  <1>. HIDE DEF h
  <1>3. ASSUME NEW s \in SUBSET S, Cardinality(s) <= n + 1, s # {}
        PROVE  g[s \ {c[s]}] = h[s \ {c[s]}]
    <2>1. IsFiniteSet(s) /\ c[s] \in s
      BY <1>3, FS_Subset DEF Chooses
    <2>2. Cardinality(s \ {c[s]}) <= n /\ s \ {c[s]} \in SUBSET S
      <3>1. Cardinality(s \ {c[s]}) = Cardinality(s) - 1 /\ Cardinality(s) \in Nat
        BY <2>1, FS_RemoveElement, FS_CardinalityType
      <3>. QED
        BY <1>3, <3>1
    <2>. QED
      BY <1>2, <2>2
  <1>4. ASSUME NEW s \in SUBSET S, Cardinality(s) <= n + 1
        PROVE  h[s] = FoldStep(F, c, base, h, s)
    <2>1. h[s] = FoldStep(F, c, base, g, s)
      BY <1>1
    <2>2. s # {} => g[s \ {c[s]}] = h[s \ {c[s]}]
      BY <1>3, <1>4
    <2>. QED
      BY <2>1, <2>2 DEF FoldStep
  <1>. QED
    BY <1>4 DEF FoldedUpTo, h

\* The recursive function of a fold exists.
LEMMA FoldExists ==
  ASSUME NEW S, IsFiniteSet(S), NEW F, NEW c, Chooses(c, S), NEW base
  PROVE  \E g : g = Folded(F, c, base, g, S)
  <1>. DEFINE k == Cardinality(S)
              Good == {n \in Nat : \E g : FoldedUpTo(F, c, base, g, S, n)}
  <1>1. k \in Nat /\ \A s \in SUBSET S : Cardinality(s) \in Nat /\ Cardinality(s) <= k
    BY FS_CardinalityType, FS_Subset
  <1>2. 0 \in Good
    <2>. DEFINE g == [s \in SUBSET S |-> base]
    <2>1. \A s \in SUBSET S : Cardinality(s) <= 0 => s = {}
      BY <1>1, FS_EmptySet, FS_Subset
    <2>2. FoldedUpTo(F, c, base, g, S, 0)
      BY <2>1 DEF FoldedUpTo, FoldStep
    <2>. QED
      BY <2>2
  <1>3. \A n \in Nat : n \in Good => n + 1 \in Good
    BY FoldedForMore
  <1>4. k \in Good
    <2>. HIDE DEF Good, k
    <2>1. \A n \in 1..k : n - 1 \in Good => n \in Good
      <3>1. \A n \in 1..k : n - 1 \in Nat /\ (n - 1) + 1 = n
        BY <1>1
      <3>. QED
        BY <1>3, <3>1
    <2>2. \A n \in 0..k : n \in Good
      BY <1>1, <1>2, <2>1, UpTo
    <2>. QED
      BY <1>1, <2>2
  <1>5. PICK g : FoldedUpTo(F, c, base, g, S, k)
    BY <1>4
  <1>6. FoldedUpTo(F, c, base, Folded(F, c, base, g, S), S, k)
    <2>1. FoldedUpTo(F, c, base, Folded(F, c, base, g, S), S, k + 1)
      BY <1>1, <1>5, FoldedForMore
    <2>. QED
      BY <1>1, <2>1 DEF FoldedUpTo
  <1>. DEFINE h == Folded(F, c, base, g, S)
  <1>7. \A s \in SUBSET S : h[s] = FoldStep(F, c, base, h, s)
    BY <1>1, <1>6 DEF FoldedUpTo
  <1>8. h = [s \in SUBSET S |-> h[s]]
    BY DEF Folded
  <1>. HIDE DEF h
  <1>9. h = [s \in SUBSET S |-> FoldStep(F, c, base, h, s)]
    BY <1>7, <1>8
  <1>. QED
    BY <1>9 DEF Folded

\* It has values in A, if the base has one and each step leads from A to A.
LEMMA FoldStaysIn ==
  ASSUME NEW S, IsFiniteSet(S), NEW A, NEW F, NEW c, Chooses(c, S), NEW base \in A,
         \A x \in S, a \in A : F[<<x, a>>] \in A
  PROVE  \E g : /\ g = Folded(F, c, base, g, S)
                /\ \A s \in SUBSET S : g[s] \in A
  <1>1. PICK g : g = Folded(F, c, base, g, S)
    BY FoldExists
  <1>2. \A s \in SUBSET S : g[s] = FoldStep(F, c, base, g, s)
    <2>1. \A h, f : h = Folded(F, c, base, f, S) =>
            \A s \in SUBSET S : h[s] = FoldStep(F, c, base, f, s)
      BY DEF Folded
    <2>. QED
      BY <1>1, <2>1
  <1>. DEFINE Wrong == {s \in SUBSET S : g[s] \notin A}
  <1>3. Wrong = {}
    <2>1. SUFFICES ASSUME Wrong # {}
                   PROVE  FALSE
      OBVIOUS
    <2>2. PICK s \in Wrong : \A t \in Wrong : t \subseteq s => t = s
      <3>1. Wrong \subseteq SUBSET S
        OBVIOUS
      <3>. HIDE DEF Wrong
      <3>. QED
        BY <2>1, <3>1, MinimalSubset
    <2>3. s \in SUBSET S /\ s # {}
      BY <1>2, <2>2 DEF FoldStep
    <2>4. c[s] \in s
      BY <2>3 DEF Chooses
    <2>5. g[s \ {c[s]}] \in A
      <3>1. s \ {c[s]} \in SUBSET S /\ s \ {c[s]} # s
        BY <2>3, <2>4
      <3>2. s \ {c[s]} \notin Wrong
        BY <2>2, <3>1
      <3>. QED
        BY <3>1, <3>2
    <2>6. g[s] \in A
      BY <1>2, <2>3, <2>4, <2>5 DEF FoldStep
    <2>. QED
      BY <2>2, <2>6
  <1>. QED
    BY <1>1, <1>3

-----------------------------------------------------------------------------
(* Folds of a sequence take the last element last                           *)

LEMMA LargestOf ==
  ASSUME NEW k \in Nat, NEW s, s \subseteq 1..k, s # {}
  PROVE  Max(s) \in s /\ \A n \in s : n <= Max(s)
  <1>. DEFINE T == {k - n : n \in s}
  <1>1. T \subseteq 0..k /\ T # {}
    <2>1. \A n \in s : n \in Int /\ 1 <= n /\ n <= k
      OBVIOUS
    <2>2. \A n \in s : k - n \in 0..k
      BY <2>1
    <2>. QED
      BY <2>2
  <1>. HIDE DEF T
  <1>2. PICK m \in T : \A n \in T : m <= n
    BY <1>1, LeastNumber
  <1>3. k - m \in s /\ \A n \in s : n \in Int /\ k - n \in T /\ n <= k
    BY DEF T
  <1>4. \A n \in s : m <= k - n
    BY <1>2, <1>3
  <1>5. m \in Int
    BY <1>1, <1>2
  <1>6. \A n \in s : k - m >= n
    BY <1>3, <1>4, <1>5
  <1>7. \E x \in s : \A y \in s : x >= y
    BY <1>3, <1>6
  <1>8. Max(s) \in s /\ \A y \in s : Max(s) >= y
    BY <1>7 DEF Max
  <1>. QED
    BY <1>3, <1>8

LEMMA LastOfFirst ==
  ASSUME NEW k \in Nat, NEW n \in 1..k
  PROVE  Max(1..n) = n /\ (1..n) \ {n} = 1..(n - 1) /\ 1..n \in SUBSET (1..k) /\ 1..n # {}
  <1>1. 1..n \subseteq 1..k /\ n \in 1..n
    OBVIOUS
  <1>2. Max(1..n) \in 1..n /\ n <= Max(1..n)
    BY <1>1, LargestOf
  <1>. QED
    BY <1>1, <1>2

\* What the recursive function of a fold from the left does, for a sequence
\* with n elements: max takes the last.
Lasts(n) == [t \in SUBSET (1..n) |-> Max(t)]

LEMMA LastsChosen ==
  ASSUME NEW n \in Nat
  PROVE  IsFiniteSet(1..n) /\ Chooses(Lasts(n), 1..n)
  <1>1. \A t \in SUBSET (1..n) : t # {} => Lasts(n)[t] \in t
    BY LargestOf DEF Lasts
  <1>. QED
    BY <1>1, FS_Interval DEF Chooses

LEMMA SequenceFold ==
  ASSUME NEW n \in Nat, NEW A, NEW F, NEW base \in A,
         \A x \in 1..n, a \in A : F[<<x, a>>] \in A
  PROVE  \E g : /\ g = Folded(F, Lasts(n), base, g, 1..n)
                /\ \A t \in SUBSET (1..n) : g[t] \in A
  <1>. DEFINE D == 1..n
              c == Lasts(n)
  <1>1. IsFiniteSet(D) /\ Chooses(c, D)
    BY LastsChosen
  <1>. HIDE DEF D, c
  <1>2. \A x \in D, a \in A : F[<<x, a>>] \in A
    BY DEF D
  <1>3. \E g : g = Folded(F, c, base, g, D) /\ \A s \in SUBSET D : g[s] \in A
    BY <1>1, <1>2, FoldStaysIn
  <1>. QED
    BY <1>3 DEF D, c

\* What a fold over a sequence of n elements passes through, when its operator does on A what
\* the function F of a place and of the result so far does.
Operates(F, n, A) == \A x \in 1..n, a \in A : F[<<x, a>>] \in A
FixedFold(F, base, n, A, g) ==
  /\ g = [t \in SUBSET (1..n) |-> IF t = {} THEN base ELSE F[<<Max(t), g[t \ {Max(t)}]>>]]
  /\ \A t \in SUBSET (1..n) : t # {} => Max(t) \in 1..n /\ g[t \ {Max(t)}] \in A
Follows(F, base, n, A, h) ==
  /\ h[{}] = base
  /\ \A t \in SUBSET (1..n) : t # {} /\ h[t \ {Max(t)}] \in A => h[t] = F[<<Max(t), h[t \ {Max(t)}]>>]
Walks(F, base, n, A, w) == /\ w[0] = base
                           /\ \A k \in 0..n : w[k] \in A
                           /\ \A k \in 1..n : w[k] = F[<<k, w[k - 1]>>]

\* The walk from the base to what the fold gives.
LEMMA FoldWalks ==
  ASSUME NEW n \in Nat, NEW A, NEW F, Operates(F, n, A), NEW base \in A,
         NEW h, Follows(F, base, n, A, h)
  PROVE  \E w : Walks(F, base, n, A, w) /\ w[n] = h[1..n]
  <1>. DEFINE w == [k \in 0..n |-> h[1..k]]
              Fine == {k \in 0..n : w[k] \in A}
  <1>0. \A x \in 1..n, a \in A : F[<<x, a>>] \in A
    BY DEF Operates
  <1>1. w[0] = base /\ w[n] = h[1..n]
    <2>1. 1..0 = {} /\ 0 \in 0..n /\ n \in 0..n /\ h[{}] = base
      BY DEF Follows
    <2>. QED
      BY <2>1
  <1>2. ASSUME NEW k \in 1..n, w[k - 1] \in A
        PROVE  w[k] = F[<<k, w[k - 1]>>]
    <2>1. Max(1..k) = k /\ (1..k) \ {k} = 1..(k - 1) /\ 1..k \in SUBSET (1..n) /\ 1..k # {}
      BY LastOfFirst
    <2>2. k \in 0..n /\ k - 1 \in 0..n
      OBVIOUS
    <2>3. w[k] = h[1..k] /\ w[k - 1] = h[1..(k - 1)]
      BY <2>2
    <2>. HIDE DEF w
    <2>4. h[(1..k) \ {Max(1..k)}] \in A
      BY <1>2, <2>1, <2>3
    <2>5. h[1..k] = F[<<Max(1..k), h[(1..k) \ {Max(1..k)}]>>]
      BY <2>1, <2>4 DEF Follows
    <2>. QED
      BY <2>1, <2>3, <2>5
  <1>. HIDE DEF w
  <1>3. 0 \in Fine
    BY <1>1
  <1>4. ASSUME NEW k \in 1..n, k - 1 \in Fine
        PROVE  k \in Fine
    <2>1. w[k - 1] \in A
      BY <1>4
    <2>2. w[k] = F[<<k, w[k - 1]>>]
      BY <1>2, <2>1
    <2>3. w[k] \in A /\ k \in 0..n
      BY <1>0, <2>1, <2>2
    <2>. QED
      BY <2>3
  <1>5. \A k \in 0..n : k \in Fine
    <2>. HIDE DEF Fine
    <2>. QED
      BY <1>3, <1>4, UpTo
  <1>6. \A k \in 0..n : w[k] \in A
    BY <1>5
  <1>7. \A k \in 1..n : w[k - 1] \in A /\ w[k] = F[<<k, w[k - 1]>>]
    <2>1. \A k \in 1..n : k - 1 \in 0..n
      OBVIOUS
    <2>. QED
      BY <1>2, <1>6, <2>1
  <1>. QED
    BY <1>1, <1>6, <1>7 DEF Walks

\* The recursive function of such a fold exists.
LEMMA FoldIsFixed ==
  ASSUME NEW n \in Nat, NEW A, NEW F, Operates(F, n, A), NEW base \in A
  PROVE  \E g : FixedFold(F, base, n, A, g)
  <1>0. \A x \in 1..n, a \in A : F[<<x, a>>] \in A
    BY DEF Operates
  <1>1. PICK g : /\ g = Folded(F, Lasts(n), base, g, 1..n)
                 /\ \A t \in SUBSET (1..n) : g[t] \in A
    BY <1>0, SequenceFold
  <1>2. \A t \in SUBSET (1..n) : t # {} => Lasts(n)[t] = Max(t) /\ Lasts(n)[t] \in t
    BY LastsChosen DEF Lasts, Chooses
  <1>3. ASSUME NEW t \in SUBSET (1..n)
        PROVE  FoldStep(F, Lasts(n), base, g, t) = IF t = {} THEN base ELSE F[<<Max(t), g[t \ {Max(t)}]>>]
    BY <1>2 DEF FoldStep
  <1>4. g = [t \in SUBSET (1..n) |-> IF t = {} THEN base ELSE F[<<Max(t), g[t \ {Max(t)}]>>]]
    BY <1>1, <1>3 DEF Folded
  <1>5. \A t \in SUBSET (1..n) : t # {} => Max(t) \in 1..n /\ g[t \ {Max(t)}] \in A
    BY <1>1, <1>2
  <1>. QED
    BY <1>4, <1>5 DEF FixedFold

-----------------------------------------------------------------------------
(* Places in an order                                                       *)

\* A strict order of all the elements of S, and what comes before one of them.
Orders(R, S) ==
  /\ \A x \in S : <<x, x>> \notin R
  /\ \A x, y, z \in S : <<x, y>> \in R /\ <<y, z>> \in R => <<x, z>> \in R
  /\ \A x, y \in S : x # y => <<x, y>> \in R \/ <<y, x>> \in R
Below(R, S, x) == {y \in S : <<y, x>> \in R}

\* More elements come before a later one.
LEMMA RanksGrow ==
  ASSUME NEW S, IsFiniteSet(S), NEW R, Orders(R, S), NEW x \in S, NEW y \in S, <<x, y>> \in R
  PROVE  Cardinality(Below(R, S, x)) < Cardinality(Below(R, S, y))
  <1>1. Below(R, S, x) \subseteq Below(R, S, y) /\ x \in Below(R, S, y) /\ x \notin Below(R, S, x)
    BY DEF Orders, Below
  <1>2. Below(R, S, y) \subseteq S
    BY DEF Below
  <1>. HIDE DEF Below
  <1>3. IsFiniteSet(Below(R, S, y))
    BY <1>2, FS_Subset
  <1>4. IsFiniteSet(Below(R, S, x)) /\ Cardinality(Below(R, S, x)) <= Cardinality(Below(R, S, y))
        /\ Cardinality(Below(R, S, x)) # Cardinality(Below(R, S, y))
    BY <1>1, <1>3, FS_Subset
  <1>. QED
    BY <1>3, <1>4, FS_CardinalityType

\* As many elements as there are come before none, one, two and so on of them.
LEMMA EachRank ==
  ASSUME NEW S, IsFiniteSet(S), NEW R, Orders(R, S)
  PROVE  /\ \A x \in S : Cardinality(Below(R, S, x)) + 1 \in 1..Cardinality(S)
         /\ \A i \in 1..Cardinality(S) : \E x \in S : Cardinality(Below(R, S, x)) = i - 1
  <1>. DEFINE n == Cardinality(S)
              rank == [x \in S |-> Cardinality(Below(R, S, x)) + 1]
  <1>1. n \in Nat
    BY FS_CardinalityType
  <1>2. ASSUME NEW x \in S
        PROVE  Cardinality(Below(R, S, x)) \in Nat /\ Cardinality(Below(R, S, x)) < n
    <2>1. Below(R, S, x) \subseteq S /\ x \notin Below(R, S, x)
      BY <1>2 DEF Below, Orders
    <2>2. /\ IsFiniteSet(Below(R, S, x)) /\ Cardinality(Below(R, S, x)) <= n
          /\ Cardinality(Below(R, S, x)) # n
      BY <1>2, <2>1, FS_Subset
    <2>. QED
      BY <1>1, <2>2, FS_CardinalityType
  <1>3. \A x \in S : rank[x] \in 1..n
    BY <1>1, <1>2
  <1>4. \A x, y \in S : x # y => rank[x] # rank[y]
    <2>1. ASSUME NEW x \in S, NEW y \in S, <<x, y>> \in R
          PROVE  rank[x] # rank[y]
      <3>1. Cardinality(Below(R, S, x)) < Cardinality(Below(R, S, y))
        BY <2>1, RanksGrow
      <3>. QED
        BY <1>2, <3>1
    <2>. QED
      BY <2>1 DEF Orders
  <1>5. IsFiniteSet(1..n) /\ Cardinality(1..n) = n
    BY <1>1, FS_Interval
  <1>6. rank \in Injection(S, 1..n)
    <2>1. rank \in [S -> 1..n]
      BY <1>3
    <2>. HIDE DEF rank
    <2>. QED
      BY <1>4, <2>1 DEF Injection, IsInjective
  <1>. HIDE DEF n, rank
  <1>7. rank \in Surjection(S, 1..n)
    <2>1. Cardinality(S) = Cardinality(1..n)
      BY <1>5 DEF n
    <2>. QED
      BY <1>5, <1>6, <2>1, FS_Injection
  <1>8. \A i \in 1..n : \E x \in S : rank[x] = i
    BY <1>7 DEF Surjection
  <1>. QED
    BY <1>2, <1>3, <1>8 DEF rank, n

\* A sequence that has at each place an element with that rank has them all, in order.
LEMMA Sorted ==
  ASSUME NEW S, IsFiniteSet(S), NEW R, Orders(R, S), NEW p,
         \A i \in 1..Cardinality(S) :
           (\E x \in S : Cardinality(Below(R, S, x)) = i - 1)
             => p[i] \in S /\ Cardinality(Below(R, S, p[i])) = i - 1
  PROVE  /\ \A i \in 1..Cardinality(S) : p[i] \in S
         /\ \A x \in S : \E i \in 1..Cardinality(S) : p[i] = x
         /\ \A i, j \in 1..Cardinality(S) : i < j => <<p[i], p[j]>> \in R /\ p[i] # p[j]
  <1>. DEFINE n == Cardinality(S)
  <1>1. \A i \in 1..n : p[i] \in S /\ Cardinality(Below(R, S, p[i])) = i - 1
    BY EachRank
  <1>2. ASSUME NEW x \in S
        PROVE  \E i \in 1..n : p[i] = x
    <2>. DEFINE i == Cardinality(Below(R, S, x)) + 1
    <2>1. i \in 1..n
      BY EachRank
    <2>2. p[i] \in S /\ Cardinality(Below(R, S, p[i])) = i - 1
      BY <1>1, <2>1
    <2>3. Cardinality(Below(R, S, x)) \in Nat
      <3>1. Below(R, S, x) \subseteq S
        BY DEF Below
      <3>. QED
        BY <3>1, FS_Subset, FS_CardinalityType
    <2>4. Cardinality(Below(R, S, p[i])) = Cardinality(Below(R, S, x))
      BY <2>2, <2>3
    <2>. HIDE DEF i, n
    <2>5. p[i] = x
      <3>1. SUFFICES ASSUME p[i] # x
                     PROVE  FALSE
        OBVIOUS
      <3>2. <<p[i], x>> \in R \/ <<x, p[i]>> \in R
        BY <2>2, <3>1 DEF Orders
      <3>3. CASE <<p[i], x>> \in R
        BY <2>2, <2>3, <2>4, <3>3, RanksGrow
      <3>4. CASE <<x, p[i]>> \in R
        BY <2>2, <2>3, <2>4, <3>4, RanksGrow
      <3>. QED
        BY <3>2, <3>3, <3>4
    <2>. QED
      BY <2>1, <2>5
  <1>3. ASSUME NEW i \in 1..n, NEW j \in 1..n, i < j
        PROVE  <<p[i], p[j]>> \in R /\ p[i] # p[j]
    <2>1. p[i] \in S /\ p[j] \in S
      BY <1>1
    <2>2. Cardinality(Below(R, S, p[i])) = i - 1 /\ Cardinality(Below(R, S, p[j])) = j - 1
      BY <1>1
    <2>3. p[i] # p[j]
      BY <1>3, <2>2
    <2>4. <<p[j], p[i]>> \notin R
      <3>1. SUFFICES ASSUME <<p[j], p[i]>> \in R
                     PROVE  FALSE
        OBVIOUS
      <3>2. Cardinality(Below(R, S, p[j])) < Cardinality(Below(R, S, p[i]))
        BY <2>1, <3>1, RanksGrow
      <3>. QED
        BY <1>3, <2>2, <3>2
    <2>. QED
      BY <2>1, <2>3, <2>4 DEF Orders
  <1>. QED
    BY <1>1, <1>2, <1>3
=============================================================================
