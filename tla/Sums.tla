-------------------------------- MODULE Sums --------------------------------
(***************************************************************************)
(* Sums over finite sets: the facts that the books of several modules rest *)
(* on.  The folds of the community modules are recursive functions on the  *)
(* subsets of a set; that these are well defined, and what they compute,   *)
(* is proved here by induction over subsets.                               *)
(***************************************************************************)
EXTENDS Integers, Functions, FiniteSetsExt, FiniteSetTheorems, TLAPS

(* The sum of f over S.                                                    *)
Total(f, S) == FoldFunctionOnSet(+, 0, f, S)

Pick(s) == CHOOSE x \in s : TRUE

\* The equation of the fold, for the subsets in D.
Folds(f, D, g) ==
    g = [s \in D |-> IF s = {} THEN 0 ELSE f[Pick(s)] + g[s \ {Pick(s)}]]

LEMMA TotalIsFold ==
    ASSUME NEW f, NEW S
    PROVE  Total(f, S) = (CHOOSE g : Folds(f, SUBSET S, g))[S]
BY DEF Total, FoldFunctionOnSet, MapThenFoldSet, Folds, Pick

LEMMA Picked == ASSUME NEW s, s # {} PROVE Pick(s) \in s
BY DEF Pick

(* Induction over the subsets of a finite set: a set A of subsets that has *)
(* each subset of which it has all proper subsets has them all.            *)
LEMMA SubsetInduction ==
    ASSUME NEW S, IsFiniteSet(S), NEW A,
           \A T \in SUBSET S : (\A U \in SUBSET T : U # T => U \in A) => T \in A
    PROVE  \A T \in SUBSET S : T \in A
<1> DEFINE B == (SUBSET S) \ A
<1>1. IsWellFoundedOn(StrictSubsetOrdering(S), SUBSET S)
  BY FS_StrictSubsetOrderingWellFounded, FS_FiniteSubsetsOfFinite
<1>2. CASE B # {}
  <2>1. PICK T \in B : \A U \in B : ~ (<<U, T>> \in StrictSubsetOrdering(S))
    <3> HIDE DEF B
    <3>1. B \subseteq SUBSET S  BY DEF B
    <3> QED  BY <1>1, <1>2, <3>1, WFMin
  <2>2. ASSUME NEW U \in SUBSET T, U # T PROVE U \in A
    BY <2>1, <2>2 DEF StrictSubsetOrdering
  <2> QED  BY <2>1, <2>2
<1> QED  BY <1>2

-----------------------------------------------------------------------------
(* The fold exists: it is built up level by level, where a level holds the *)
(* subsets that are no larger than a given one.                            *)
Level(S, T) == {s \in SUBSET S : Cardinality(s) <= Cardinality(T)}

LEMMA Smaller ==
    ASSUME NEW S, IsFiniteSet(S), S # {}
    PROVE  /\ IsFiniteSet(S \ {Pick(S)})
           /\ Cardinality(S) \in Nat /\ Cardinality(S \ {Pick(S)}) = Cardinality(S) - 1
BY Picked, FS_RemoveElement, FS_CardinalityType

LEMMA FoldExists ==
    ASSUME NEW S, IsFiniteSet(S), NEW f
    PROVE  \E g : Folds(f, SUBSET S, g)
<1> DEFINE A == {T \in SUBSET S : \E g : Folds(f, Level(S, T), g)}
<1>0. \A T \in SUBSET S : IsFiniteSet(T) /\ Cardinality(T) \in Nat
  BY FS_Subset, FS_CardinalityType
<1>1. ASSUME NEW T \in SUBSET S, \A U \in SUBSET T : U # T => U \in A
      PROVE  T \in A
  <2>1. CASE T = {}
    <3> DEFINE g == [s \in Level(S, T) |-> 0]
    <3>1. \A s \in Level(S, T) : s = {}
      BY <1>0, <2>1, FS_EmptySet DEF Level
    <3>2. Folds(f, Level(S, T), g)
      BY <3>1 DEF Folds
    <3> QED  BY <3>2
  <2>2. CASE T # {}
    <3> DEFINE U == T \ {Pick(T)}
    <3>1. U \in SUBSET T /\ U # T
      BY <2>2, Picked
    <3>2. PICK h : Folds(f, Level(S, U), h)
      BY <3>1, <1>1
    <3>3. Cardinality(U) = Cardinality(T) - 1
      BY <1>0, <2>2, Smaller
    <3> DEFINE g == [s \in Level(S, T) |->
                       IF s = {} THEN 0 ELSE f[Pick(s)] + h[s \ {Pick(s)}]]
    <3>4. ASSUME NEW s \in Level(S, T), s # {}
          PROVE  s \ {Pick(s)} \in Level(S, U) \cap Level(S, T)
      <4>1. s \in SUBSET S /\ Cardinality(s) <= Cardinality(T)
        BY DEF Level
      <4>2. Cardinality(s \ {Pick(s)}) = Cardinality(s) - 1
        BY <1>0, <3>4, <4>1, Smaller
      <4>3. Cardinality(s) \in Nat /\ Cardinality(T) \in Nat
        BY <1>0, <4>1
      <4>4. Cardinality(s \ {Pick(s)}) <= Cardinality(U) /\ Cardinality(s \ {Pick(s)}) <= Cardinality(T)
        BY <3>3, <4>1, <4>2, <4>3
      <4> QED  BY <4>1, <4>4 DEF Level
    <3>5. ASSUME NEW s \in Level(S, U) \cap Level(S, T) PROVE g[s] = h[s]
      BY <3>2 DEF Folds
    <3>6. Folds(f, Level(S, T), g)
      BY <3>4, <3>5 DEF Folds
    <3> QED  BY <3>6
  <2> QED  BY <2>1, <2>2
<1>2. S \in A
  <2> HIDE DEF A
  <2> QED  BY <1>1, SubsetInduction
<1>3. Level(S, S) = SUBSET S
  BY FS_Subset DEF Level
<1> QED  BY <1>2, <1>3

-----------------------------------------------------------------------------
(* What the fold computes.                                                 *)
Fold(f, S) == CHOOSE g : Folds(f, SUBSET S, g)

LEMMA TotalIs == ASSUME NEW f, NEW S PROVE Total(f, S) = Fold(f, S)[S]
BY TotalIsFold DEF Fold

LEMMA FoldAt ==
    ASSUME NEW S, IsFiniteSet(S), NEW f, NEW T \in SUBSET S
    PROVE  Fold(f, S)[T] = IF T = {} THEN 0 ELSE f[Pick(T)] + Fold(f, S)[T \ {Pick(T)}]
<1>1. Folds(f, SUBSET S, Fold(f, S))
  BY FoldExists DEF Fold
<1> HIDE DEF Fold
<1> QED  BY <1>1 DEF Folds

(* It depends on the values of f in the set only, and not on the sets      *)
(* around it.                                                              *)
LEMMA FoldAgrees ==
    ASSUME NEW R, IsFiniteSet(R), NEW S \in SUBSET R, NEW f, NEW g,
           \A x \in S : f[x] = g[x]
    PROVE  \A T \in SUBSET S : Fold(f, S)[T] = Fold(g, R)[T]
<1> DEFINE A == {T \in SUBSET S : Fold(f, S)[T] = Fold(g, R)[T]}
<1>0. IsFiniteSet(S)
  BY FS_Subset
<1>1. ASSUME NEW T \in SUBSET S, \A U \in SUBSET T : U # T => U \in A
      PROVE  T \in A
  <2>1. /\ Fold(f, S)[T] = IF T = {} THEN 0 ELSE f[Pick(T)] + Fold(f, S)[T \ {Pick(T)}]
        /\ Fold(g, R)[T] = IF T = {} THEN 0 ELSE g[Pick(T)] + Fold(g, R)[T \ {Pick(T)}]
    BY <1>0, FoldAt
  <2>2. CASE T # {}
    <3>1. Pick(T) \in T /\ f[Pick(T)] = g[Pick(T)]
      BY <2>2, Picked
    <3>2. T \ {Pick(T)} \in A
      BY <1>1, <3>1
    <3> QED  BY <2>1, <2>2, <3>1, <3>2
  <2> QED  BY <2>1, <2>2
<1> HIDE DEF A
<1>2. \A T \in SUBSET S : T \in A
  BY <1>0, <1>1, SubsetInduction
<1> QED  BY <1>2 DEF A

LEMMA FoldInt ==
    ASSUME NEW S, IsFiniteSet(S), NEW f, \A x \in S : f[x] \in Int
    PROVE  \A T \in SUBSET S : Fold(f, S)[T] \in Int
<1> DEFINE A == {T \in SUBSET S : Fold(f, S)[T] \in Int}
<1>1. ASSUME NEW T \in SUBSET S, \A U \in SUBSET T : U # T => U \in A
      PROVE  T \in A
  <2>1. Fold(f, S)[T] = IF T = {} THEN 0 ELSE f[Pick(T)] + Fold(f, S)[T \ {Pick(T)}]
    BY FoldAt
  <2>2. CASE T # {}
    <3>1. Pick(T) \in T /\ f[Pick(T)] \in Int
      BY <2>2, Picked
    <3>2. T \ {Pick(T)} \in A
      BY <1>1, <3>1
    <3> QED  BY <2>1, <2>2, <3>1, <3>2
  <2> QED  BY <2>1, <2>2
<1> HIDE DEF A
<1>2. \A T \in SUBSET S : T \in A
  BY <1>1, SubsetInduction
<1> QED  BY <1>2 DEF A

(* The order in which the elements are picked makes no difference.         *)
LEMMA FoldSplits ==
    ASSUME NEW S, IsFiniteSet(S), NEW f, \A x \in S : f[x] \in Int
    PROVE  \A T \in SUBSET S : \A x \in T : Fold(f, S)[T] = f[x] + Fold(f, S)[T \ {x}]
<1> DEFINE A == {T \in SUBSET S : \A x \in T : Fold(f, S)[T] = f[x] + Fold(f, S)[T \ {x}]}
<1>1. ASSUME NEW T \in SUBSET S, \A U \in SUBSET T : U # T => U \in A
      PROVE  T \in A
  <2> SUFFICES ASSUME NEW x \in T PROVE Fold(f, S)[T] = f[x] + Fold(f, S)[T \ {x}]
    OBVIOUS
  <2> DEFINE p == Pick(T)
  <2>1. p \in T
    BY Picked
  <2>2. Fold(f, S)[T] = f[p] + Fold(f, S)[T \ {p}]
    BY FoldAt
  <2>3. CASE p # x
    <3>1. T \ {p} \in A /\ T \ {x} \in A
      BY <1>1, <2>1
    <3>2. Fold(f, S)[T \ {p}] = f[x] + Fold(f, S)[(T \ {p}) \ {x}]
      BY <2>3, <3>1
    <3>3. Fold(f, S)[T \ {x}] = f[p] + Fold(f, S)[(T \ {x}) \ {p}]
      BY <2>1, <2>3, <3>1
    <3>4. (T \ {p}) \ {x} = (T \ {x}) \ {p}
      OBVIOUS
    <3> DEFINE rest == Fold(f, S)[(T \ {x}) \ {p}]
    <3>5. f[p] \in Int /\ f[x] \in Int /\ rest \in Int
      BY <2>1, FoldInt
    <3>6. Fold(f, S)[T] = f[p] + (f[x] + rest)
      BY <2>2, <3>2, <3>4
    <3>7. Fold(f, S)[T \ {x}] = f[p] + rest
      BY <3>3
    <3>8. \A a, b, c \in Int : a + (b + c) = b + (a + c)
      OBVIOUS
    <3> HIDE DEF p, rest
    <3> QED  BY <3>5, <3>6, <3>7, <3>8
  <2> QED  BY <2>2, <2>3
<1> HIDE DEF A
<1>2. \A T \in SUBSET S : T \in A
  BY <1>1, SubsetInduction
<1> QED  BY <1>2 DEF A

-----------------------------------------------------------------------------
(* Sums.                                                                   *)

LEMMA TotalEmpty == ASSUME NEW f PROVE Total(f, {}) = 0
<1>1. IsFiniteSet({})
  BY FS_EmptySet
<1>2. Fold(f, {})[{}] = 0
  BY <1>1, FoldAt
<1> QED  BY <1>2, TotalIs

LEMMA TotalInt ==
    ASSUME NEW S, IsFiniteSet(S), NEW f, \A x \in S : f[x] \in Int
    PROVE  Total(f, S) \in Int
BY TotalIs, FoldInt

\* Functions that agree on a set have the same sum over it.
LEMMA TotalSame ==
    ASSUME NEW S, IsFiniteSet(S), NEW f, NEW g, \A x \in S : f[x] = g[x]
    PROVE  Total(f, S) = Total(g, S)
<1>1. \A T \in SUBSET S : Fold(f, S)[T] = Fold(g, S)[T]
  BY FoldAgrees
<1>2. Fold(f, S)[S] = Fold(g, S)[S]
  <2> HIDE DEF Fold
  <2> QED  BY <1>1
<1> QED  BY <1>2, TotalIs

\* Any element can be taken out of a sum.
LEMMA TotalSplit ==
    ASSUME NEW S, IsFiniteSet(S), NEW x \in S, NEW f, \A y \in S : f[y] \in Int
    PROVE  /\ Total(f, S) = f[x] + Total(f, S \ {x})
           /\ Total(f, S \ {x}) \in Int
<1>1. Fold(f, S)[S] = f[x] + Fold(f, S)[S \ {x}]
  BY FoldSplits
<1>2. Fold(f, S \ {x})[S \ {x}] = Fold(f, S)[S \ {x}]
  <2> DEFINE U == S \ {x}
  <2>1. U \in SUBSET S /\ \A y \in U : f[y] = f[y]
    OBVIOUS
  <2> HIDE DEF U
  <2>2. \A T \in SUBSET U : Fold(f, U)[T] = Fold(f, S)[T]
    BY <2>1, FoldAgrees
  <2>3. Fold(f, U)[U] = Fold(f, S)[U]
    BY <2>2
  <2> QED  BY <2>3 DEF U
<1>3. Fold(f, S)[S \ {x}] \in Int
  BY FoldInt
<1> QED  BY <1>1, <1>2, <1>3, TotalIs

\* A value that changes changes the sum by as much.
LEMMA TotalChange ==
    ASSUME NEW S, IsFiniteSet(S), NEW x \in S, NEW f, NEW g,
           \A y \in S : f[y] \in Int /\ g[y] \in Int,
           \A y \in S \ {x} : f[y] = g[y]
    PROVE  Total(g, S) = Total(f, S) + (g[x] - f[x])
<1>1. IsFiniteSet(S \ {x})
  BY FS_Subset
<1>2. Total(f, S \ {x}) = Total(g, S \ {x})
  BY <1>1, TotalSame
<1>3. /\ Total(f, S) = f[x] + Total(f, S \ {x}) /\ Total(f, S \ {x}) \in Int
      /\ Total(g, S) = g[x] + Total(g, S \ {x})
  BY TotalSplit
<1>4. f[x] \in Int /\ g[x] \in Int
  OBVIOUS
<1> QED  BY <1>2, <1>3, <1>4

\* An element that joins adds its value.
LEMMA TotalAdd ==
    ASSUME NEW S, IsFiniteSet(S), NEW x, x \notin S, NEW f,
           \A y \in S \cup {x} : f[y] \in Int
    PROVE  Total(f, S \cup {x}) = Total(f, S) + f[x]
<1>1. IsFiniteSet(S \cup {x})
  BY FS_AddElement
<1>2. (S \cup {x}) \ {x} = S
  OBVIOUS
<1> QED  BY <1>1, <1>2, TotalSplit

LEMMA TotalOfNothing ==
    ASSUME NEW S, IsFiniteSet(S), NEW f, \A x \in S : f[x] = 0
    PROVE  Total(f, S) = 0
<1> DEFINE A == {T \in SUBSET S : Fold(f, S)[T] = 0}
<1>1. ASSUME NEW T \in SUBSET S, \A U \in SUBSET T : U # T => U \in A
      PROVE  T \in A
  <2>1. Fold(f, S)[T] = IF T = {} THEN 0 ELSE f[Pick(T)] + Fold(f, S)[T \ {Pick(T)}]
    BY FoldAt
  <2>2. CASE T # {}
    BY <1>1, <2>1, <2>2, Picked
  <2> QED  BY <2>1, <2>2
<1> HIDE DEF A
<1>2. S \in A
  BY <1>1, SubsetInduction
<1> QED  BY <1>2, TotalIs DEF A
=============================================================================
