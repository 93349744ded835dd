----------------------------- MODULE FoldLemmas -----------------------------
(***************************************************************************)
(* What is true of every fold.  A fold of s takes the indices of s one by  *)
(* one: the one that next picks from a set is taken after all others of    *)
(* the set.  The folds of the models (FoldLeft and SumFunction of the      *)
(* community modules) are instances: next is Max, and any CHOOSE.          *)
(*                                                                         *)
(* The library's induction takes an operator, so induction is by the least *)
(* counterexample.                                                         *)
(***************************************************************************)
EXTENDS Integers, FiniteSets, FiniteSetTheorems, WellFoundedInduction, TLAPS

CONSTANTS op(_, _), next(_)

-----------------------------------------------------------------------------
(* Least elements.                                                          *)

\* Some natural numbers have a least one.
LEMMA LeastNatural ==
  ASSUME NEW B \in SUBSET Nat, B # {}
  PROVE  \E n \in B : \A m \in B : n <= m
<1>1. \E n \in B : \A m \in B : ~(<<m, n>> \in OpToRel(<, Nat))
  BY NatLessThanWellFounded, WFMin
<1>2. PICK n \in B : \A m \in B : ~(<<m, n>> \in {ss \in Nat \X Nat : ss[1] < ss[2]})
  BY <1>1 DEF OpToRel
<1>3. ASSUME NEW m \in B PROVE n <= m
  <2>1. m \in Nat /\ n \in Nat /\ <<m, n>> \in Nat \X Nat
    OBVIOUS
  <2>2. ~(m < n)
    BY <1>2, <2>1
  <2> QED
    BY <2>1, <2>2
<1> QED
  BY <1>3

\* What is in A from 0 on stays in A up to n.
LEMMA Counting ==
  ASSUME NEW n \in Nat, NEW A, 0 \in A, \A i \in 1 .. n : i - 1 \in A => i \in A
  PROVE  0 .. n \subseteq A
<1> DEFINE Wrong == {i \in 0 .. n : i \notin A}
<1> SUFFICES ASSUME Wrong # {} PROVE FALSE
  OBVIOUS
<1>1. \E i \in Wrong : \A j \in Wrong : i <= j
  <2>1. Wrong \in SUBSET Nat
    OBVIOUS
  <2> HIDE DEF Wrong
  <2> QED
    BY <2>1, LeastNatural
<1>2. PICK i \in Wrong : \A j \in Wrong : i <= j
  BY <1>1
<1>3. i \in 1 .. n /\ i - 1 \in 0 .. n /\ i - 1 \notin Wrong
  BY <1>2
<1> QED
  BY <1>3

\* Of some subsets of a finite set one has no other within.
LEMMA LeastSubset ==
  ASSUME NEW D, IsFiniteSet(D), NEW B \in SUBSET SUBSET D, B # {}
  PROVE  \E T \in B : \A U \in B : U \subseteq T => U = T
<1> DEFINE Sizes == {Cardinality(T) : T \in B}
<1>1. \A T \in B : IsFiniteSet(T) /\ Cardinality(T) \in Nat
  BY FS_Subset, FS_CardinalityType
<1>2. Sizes \subseteq Nat /\ Sizes # {}
  BY <1>1
<1>3. \E n \in Sizes : \A m \in Sizes : n <= m
  <2> HIDE DEF Sizes
  <2> QED
    BY <1>2, LeastNatural
<1>4. PICK T \in B : \A U \in B : Cardinality(T) <= Cardinality(U)
  BY <1>3
<1>5. ASSUME NEW U \in B, U \subseteq T PROVE U = T
  BY <1>1, <1>4, <1>5, FS_Subset
<1> QED
  BY <1>5

-----------------------------------------------------------------------------
(* The fold is defined.                                                     *)

Step(base, s, N, T) == IF T = {} THEN base ELSE op(N[T \ {next(T)}], s[next(T)])

Folds(base, s, N) ==
  N = [T \in SUBSET DOMAIN s |->
         IF T = {} THEN base ELSE op(N[T \ {next(T)}], s[next(T)])]

Fold(base, s) == (CHOOSE N : Folds(base, s, N))[DOMAIN s]

\* next picks an element
Picks(D) == \A T \in SUBSET D : T # {} => next(T) \in T

\* There is a function that follows the equation of the fold.
LEMMA FoldExists ==
  ASSUME NEW base, NEW s, IsFiniteSet(DOMAIN s), Picks(DOMAIN s)
  PROVE  \E N : Folds(base, s, N)
<1> DEFINE D == DOMAIN s
           Right(n) == \E N : \A T \in SUBSET D : Cardinality(T) < n => N[T] = Step(base, s, N, T)
           Wrong == {n \in Nat : ~Right(n)}
<1>1. \A T \in SUBSET D : IsFiniteSet(T) /\ Cardinality(T) \in Nat /\ Cardinality(T) <= Cardinality(D)
  BY FS_Subset, FS_CardinalityType
<1>2. Right(0)
  <2>1. \A T \in SUBSET D : ~(Cardinality(T) < 0)
    BY <1>1
  <2> QED
    BY <2>1
<1>3. ASSUME NEW n \in Nat, Right(n) PROVE Right(n + 1)
  <2>1. PICK N : \A T \in SUBSET D : Cardinality(T) < n => N[T] = Step(base, s, N, T)
    BY <1>3
  <2> DEFINE M == [T \in SUBSET D |-> Step(base, s, N, T)]
  <2>2. ASSUME NEW T \in SUBSET D, Cardinality(T) < n + 1
        PROVE  M[T] = Step(base, s, M, T)
    <3>1. CASE T = {}
      BY <3>1 DEF Step
    <3>2. CASE T # {}
      <4> DEFINE rest == T \ {next(T)}
      <4>1. next(T) \in T /\ rest \in SUBSET D
        BY <3>2 DEF Picks
      <4>2. Cardinality(rest) = Cardinality(T) - 1
        BY <1>1, <4>1, FS_RemoveElement
      <4>3. Cardinality(rest) < n
        BY <1>1, <2>2, <4>1, <4>2
      <4>4. N[rest] = M[rest]
        BY <2>1, <4>1, <4>3
      <4> QED
        BY <3>2, <4>4 DEF Step
    <3> QED
      BY <3>1, <3>2
  <2> QED
    BY <2>2
<1>4. Wrong = {}
  <2> SUFFICES ASSUME Wrong # {} PROVE FALSE
    OBVIOUS
  <2>1. \E n \in Wrong : \A m \in Wrong : n <= m
    <3>1. Wrong \in SUBSET Nat
      OBVIOUS
    <3> HIDE DEF Wrong
    <3> QED
      BY <3>1, LeastNatural
  <2>2. PICK n \in Wrong : \A m \in Wrong : n <= m
    BY <2>1
  <2> HIDE DEF Right
  <2>3. n # 0 /\ n \in Nat
    BY <1>2
  <2>4. n - 1 \in Nat /\ n - 1 \notin Wrong
    BY <2>2, <2>3
  <2>5. Right((n - 1) + 1)
    BY <1>3, <2>4
  <2> QED
    BY <2>3, <2>5
<1>5. Right(Cardinality(D) + 1)
  <2> HIDE DEF Right
  <2> QED
    BY <1>4, FS_CardinalityType
<1>6. PICK N : \A T \in SUBSET D : Cardinality(T) < Cardinality(D) + 1 => N[T] = Step(base, s, N, T)
  BY <1>5
<1>7. \A T \in SUBSET D : N[T] = Step(base, s, N, T)
  BY <1>1, <1>6, FS_CardinalityType
<1> DEFINE M == [T \in SUBSET D |-> Step(base, s, N, T)]
<1>8. ASSUME NEW T \in SUBSET D PROVE Step(base, s, N, T) = Step(base, s, M, T)
  <2>1. CASE T = {}
    BY <2>1 DEF Step
  <2>2. CASE T # {}
    <3>1. T \ {next(T)} \in SUBSET D
      OBVIOUS
    <3>2. N[T \ {next(T)}] = M[T \ {next(T)}]
      BY <1>7, <3>1
    <3> QED
      BY <3>2 DEF Step
  <2> QED
    BY <2>1, <2>2
<1>9. M = [T \in SUBSET D |-> Step(base, s, M, T)]
  <2>1. \A T \in SUBSET D : Step(base, s, N, T) = Step(base, s, M, T)
    BY <1>8
  <2> HIDE DEF M
  <2>2. M = [T \in SUBSET D |-> Step(base, s, N, T)]
    BY DEF M
  <2> QED
    BY <2>1, <2>2
<1>10. Folds(base, s, M)
  <2> HIDE DEF M
  <2> QED
    BY <1>9 DEF Folds, Step
<1> QED
  BY <1>10

\* N holds what the fold of each part of s comes to
Follows(base, s, D, N) ==
  /\ N[{}] = base
  /\ \A T \in SUBSET D : T # {} => N[T] = op(N[T \ {next(T)}], s[next(T)])

\* The fold follows its equation.
LEMMA FoldFollows ==
  ASSUME NEW base, NEW D, NEW s, DOMAIN s = D, IsFiniteSet(D), Picks(D)
  PROVE  \E N : Follows(base, s, D, N) /\ Fold(base, s) = N[D]
<1> DEFINE C == CHOOSE N : Folds(base, s, N)
<1>1. Folds(base, s, C)
  BY FoldExists
<1>2. Fold(base, s) = C[D]
  BY DEF Fold
<1> HIDE DEF C
<1>3. C = [T \in SUBSET D |->
             IF T = {} THEN base ELSE op(C[T \ {next(T)}], s[next(T)])]
  BY <1>1 DEF Folds
<1>4. \A T \in SUBSET D : C[T] = IF T = {} THEN base ELSE op(C[T \ {next(T)}], s[next(T)])
  BY <1>3
<1>5. C[{}] = base
  BY <1>4
<1>6. Follows(base, s, D, C)
  BY <1>4, <1>5 DEF Follows
<1> QED
  BY <1>2, <1>6

-----------------------------------------------------------------------------
(* Folds of sequences, which take the indices in their order.               *)

\* next picks the last index
Last(n) == \A i \in 1 .. n : next(1 .. i) = i

\* F holds what the fold has come to after each index.
Passes(base, s, n, F) == F[0] = base /\ \A i \in 1 .. n : F[i] = op(F[i - 1], s[i])

\* A fold of a sequence comes from one index to the next.
LEMMA FoldPasses ==
  ASSUME NEW base, NEW n \in Nat, NEW s, DOMAIN s = 1 .. n, Picks(1 .. n), Last(n)
  PROVE  \E F : Passes(base, s, n, F) /\ Fold(base, s) = F[n]
<1>1. IsFiniteSet(1 .. n)
  BY FS_Interval
<1>2. PICK N : Follows(base, s, 1 .. n, N) /\ Fold(base, s) = N[1 .. n]
  BY <1>1, FoldFollows
<1> DEFINE F == [i \in 0 .. n |-> N[1 .. i]]
<1>3. F[0] = base
  <2>1. 1 .. 0 = {}
    OBVIOUS
  <2> QED
    BY <1>2, <2>1 DEF Follows
<1>4. ASSUME NEW i \in 1 .. n PROVE F[i] = op(F[i - 1], s[i])
  <2>1. 1 .. i \in SUBSET (1 .. n) /\ 1 .. i # {} /\ next(1 .. i) = i
    BY DEF Last
  <2>2. N[1 .. i] = op(N[(1 .. i) \ {i}], s[i])
    BY <1>2, <2>1 DEF Follows
  <2>3. (1 .. i) \ {i} = 1 .. i - 1 /\ i - 1 \in 0 .. n /\ i \in 0 .. n
    OBVIOUS
  <2>4. F[i] = N[1 .. i] /\ F[i - 1] = N[1 .. i - 1]
    BY <2>3
  <2> QED
    BY <2>2, <2>3, <2>4
<1>5. Fold(base, s) = F[n]
  BY <1>2
<1> QED
  BY <1>3, <1>4, <1>5 DEF Passes

\* What holds before the first index, and of each index if of the one before
\* it, holds of the fold.
LEMMA FoldStays ==
  ASSUME NEW base, NEW n \in Nat, NEW s, DOMAIN s = 1 .. n, Picks(1 .. n), Last(n),
         NEW A, base \in A[0],
         \A i \in 1 .. n : \A x \in A[i - 1] : op(x, s[i]) \in A[i]
  PROVE  Fold(base, s) \in A[n]
<1>1. PICK F : Passes(base, s, n, F) /\ Fold(base, s) = F[n]
  BY FoldPasses
<1> DEFINE Kept == {i \in 0 .. n : F[i] \in A[i]}
<1>2. 0 \in Kept
  BY <1>1 DEF Passes
<1>3. ASSUME NEW i \in 1 .. n, i - 1 \in Kept PROVE i \in Kept
  BY <1>1, <1>3 DEF Passes
<1>4. 0 .. n \subseteq Kept
  <2> HIDE DEF Kept
  <2> QED
    BY <1>2, <1>3, Counting
<1> QED
  BY <1>1, <1>4

\* Whatever passes in the same way comes to the same.
LEMMA FoldCalculated ==
  ASSUME NEW base, NEW n \in Nat, NEW s, DOMAIN s = 1 .. n, Picks(1 .. n), Last(n),
         NEW G, Passes(base, s, n, G)
  PROVE  Fold(base, s) = G[n]
<1> DEFINE A == [i \in 0 .. n |-> {G[i]}]
<1>1. base \in A[0]
  BY DEF Passes
<1>2. ASSUME NEW i \in 1 .. n, NEW x \in A[i - 1] PROVE op(x, s[i]) \in A[i]
  BY <1>2 DEF Passes
<1>3. Fold(base, s) \in A[n]
  <2> HIDE DEF A
  <2> QED
    BY <1>1, <1>2, FoldStays
<1> QED
  BY <1>3

-----------------------------------------------------------------------------
(* Folds of functions with an operator that takes its arguments in any      *)
(* order.                                                                   *)

Commutes(T) ==
  /\ \A t \in T, x \in T : op(t, x) \in T
  /\ \A t, x, y \in T : op(op(t, x), y) = op(op(t, y), x)

\* N holds what the fold of each part of s comes to, the last element being any
AnyLast(base, D, s, T, N) ==
  /\ N[{}] = base
  /\ \A U \in SUBSET D : N[U] \in T
  /\ \A U \in SUBSET D : \A x \in U : N[U] = op(N[U \ {x}], s[x])

TakesAny(T, base, D, s) == \E N : AnyLast(base, D, s, T, N) /\ Fold(base, s) = N[D]

\* In whatever order it takes the elements, the fold comes to the same.
LEMMA FoldTakesAny ==
  ASSUME NEW T, Commutes(T), NEW base \in T, NEW D, IsFiniteSet(D), Picks(D), NEW s \in [D -> T]
  PROVE  TakesAny(T, base, D, s)
<1>0. PICK N : Follows(base, s, D, N) /\ Fold(base, s) = N[D]
  <2>1. DOMAIN s = D
    OBVIOUS
  <2> QED
    BY <2>1, FoldFollows
<1>1. /\ N[{}] = base
      /\ \A U \in SUBSET D : U # {} => N[U] = op(N[U \ {next(U)}], s[next(U)])
  BY <1>0 DEF Follows
<1>2. \A U \in SUBSET D : N[U] \in T
  <2> DEFINE Wrong == {U \in SUBSET D : N[U] \notin T}
  <2> SUFFICES ASSUME Wrong # {} PROVE FALSE
    OBVIOUS
  <2>1. PICK U \in Wrong : \A V \in Wrong : V \subseteq U => V = U
    <3>1. Wrong \in SUBSET SUBSET D
      OBVIOUS
    <3> HIDE DEF Wrong
    <3> QED
      BY <3>1, LeastSubset
  <2>2. U # {} /\ U \in SUBSET D
    BY <1>1
  <2>3. next(U) \in U
    BY <2>2 DEF Picks
  <2>4. N[U \ {next(U)}] \in T /\ s[next(U)] \in T
    BY <2>1, <2>2, <2>3
  <2>5. op(N[U \ {next(U)}], s[next(U)]) \in T
    BY <2>4 DEF Commutes
  <2> QED
    BY <1>1, <2>2, <2>5
<1> DEFINE Wrong == {U \in SUBSET D : ~ \A x \in U : N[U] = op(N[U \ {x}], s[x])}
<1>3. Wrong = {}
  <2> SUFFICES ASSUME Wrong # {} PROVE FALSE
    OBVIOUS
  <2>1. PICK U \in Wrong : \A V \in Wrong : V \subseteq U => V = U
    <3>1. Wrong \in SUBSET SUBSET D
      OBVIOUS
    <3> HIDE DEF Wrong
    <3> QED
      BY <3>1, LeastSubset
  <2>2. PICK x \in U : N[U] # op(N[U \ {x}], s[x])
    OBVIOUS
  <2>3. U # {} /\ U \in SUBSET D
    BY <2>2
  <2>4. PICK y \in U : y = next(U)
    BY <2>3 DEF Picks
  <2>5. N[U] = op(N[U \ {y}], s[y])
    BY <1>1, <2>3, <2>4
  <2>6. x # y
    BY <2>2, <2>5
  <2>7. U \ {x} \notin Wrong /\ U \ {y} \notin Wrong
    BY <2>1, <2>2, <2>4
  <2>8. /\ N[U \ {y}] = op(N[(U \ {y}) \ {x}], s[x])
        /\ N[U \ {x}] = op(N[(U \ {x}) \ {y}], s[y])
    BY <2>2, <2>3, <2>4, <2>6, <2>7
  <2>9. (U \ {y}) \ {x} = (U \ {x}) \ {y}
    OBVIOUS
  <2>10. s[x] \in T /\ s[y] \in T /\ N[(U \ {x}) \ {y}] \in T
    BY <1>2, <2>2, <2>3, <2>4
  <2>11. op(op(N[(U \ {x}) \ {y}], s[x]), s[y]) = op(op(N[(U \ {x}) \ {y}], s[y]), s[x])
    BY <2>10 DEF Commutes
  <2> QED
    BY <2>2, <2>5, <2>8, <2>9, <2>11
<1> QED
  BY <1>0, <1>1, <1>2, <1>3 DEF AnyLast, TakesAny

=============================================================================
