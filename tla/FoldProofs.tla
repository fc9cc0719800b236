----------------------------- MODULE FoldProofs -----------------------------
(***************************************************************************)
(* What a fold over a finite set computes.  The engine, the ledger's       *)
(* dedupe and its regeneration fold over bars, events and rows; their      *)
(* definitions use FoldLeft and MapThenSumSet of the community modules,    *)
(* which are this Fold: FoldLeft picks the greatest index, MapThenSumSet   *)
(* any element.                                                            *)
(*                                                                         *)
(*   FoldStep   a fold of a set is one application to the fold of the set  *)
(*              without the element it picks;                              *)
(*   FoldSame   it depends on its operators only;                           *)
(*   FoldHolds  what holds of the base, and is kept by each application,   *)
(*              holds of the fold.                                         *)
(*                                                                         *)
(* The module is instantiated with the operators of a fold.  The parameter *)
(* p is what they depend on besides: a context, a sequence.                *)
(***************************************************************************)
EXTENDS Integers, FiniteSets, Folds, FiniteSetTheorems, WellFoundedInduction, TLAPS

CONSTANTS
  Apply(_, _, _),   \* (p, item, accumulated)
  Item(_, _),       \* (p, element)
  Pick(_, _),       \* (p, set)
  Holds(_, _, _)    \* (p, set, accumulated)

Fold(p, base, S) ==
  MapThenFoldSet(LAMBDA x, acc : Apply(p, x, acc), base, LAMBDA i : Item(p, i),
                 LAMBDA s : Pick(p, s), S)

(***************************************************************************)
(* A set of naturals that is not empty has a least element.                *)
(***************************************************************************)
LEMMA Least ==
  ASSUME NEW S \in SUBSET Nat, S # {}
  PROVE  \E x \in S : \A y \in S : x <= y
<1>1. PICK x \in S : \A y \in S : ~ (<<y, x>> \in OpToRel(<, Nat))
  BY NatLessThanWellFounded, WFMin
<1>2. \A y \in S : ~ (y < x)
  BY <1>1 DEF OpToRel
<1> QED
  BY <1>2

\* The subsets of at most k elements.
Small(S, k) == {s \in SUBSET S : Cardinality(s) <= k}

\* An element of every subset.
Picks(p, S) == \A s \in SUBSET S : s # {} => Pick(p, s) \in s

\* g folds the small subsets.
Partial(g, p, base, S, k) ==
  g = [s \in Small(S, k) |->
         IF s = {} THEN base ELSE Apply(p, Item(p, Pick(p, s)), g[s \ {Pick(p, s)}])]

(***************************************************************************)
(* Without its pick a small set is smaller.                                *)
(***************************************************************************)
LEMMA Smaller ==
  ASSUME NEW p, NEW S, IsFiniteSet(S), Picks(p, S), NEW k \in Nat, NEW s \in Small(S, k), s # {}
  PROVE  /\ k > 0 /\ s \ {Pick(p, s)} \in Small(S, k - 1)
         /\ s \in SUBSET S /\ IsFiniteSet(s) /\ Pick(p, s) \in s
<1>1. s \in SUBSET S /\ IsFiniteSet(s) /\ Pick(p, s) \in s
  BY FS_Subset DEF Small, Picks
<1>2. Cardinality(s \ {Pick(p, s)}) = Cardinality(s) - 1 /\ Cardinality(s) \in Nat
  BY <1>1, FS_RemoveElement, FS_CardinalityType
<1>3. Cardinality(s) # 0
  BY <1>1, FS_EmptySet
<1> QED
  BY <1>1, <1>2, <1>3 DEF Small

(***************************************************************************)
(* The small subsets have a fold, by the size of the largest.              *)
(***************************************************************************)
LEMMA SomeFold ==
  ASSUME NEW p, NEW base, NEW S, IsFiniteSet(S), Picks(p, S)
  PROVE  \A k \in Nat : \E g : Partial(g, p, base, S, k)
<1> DEFINE Bad == {k \in Nat : ~\E g : Partial(g, p, base, S, k)}
<1>1. SUFFICES ASSUME Bad # {} PROVE FALSE
  OBVIOUS
<1>2. PICK k \in Bad : \A j \in Bad : k <= j
  BY <1>1, Least
<1>3. CASE k = 0
  <2> DEFINE g == [s \in Small(S, 0) |-> base]
  <2>1. ASSUME NEW s \in Small(S, 0), s # {}
        PROVE  FALSE
    <3>1. 0 \in Nat /\ ~(0 > 0)
      OBVIOUS
    <3> QED
      BY <2>1, <3>1, Smaller
  <2>2. Partial(g, p, base, S, 0)
    BY <2>1 DEF Partial
  <2> QED
    BY <1>3, <2>2
<1>4. CASE k > 0
  <2>1. k - 1 \in Nat /\ k - 1 \notin Bad
    BY <1>2, <1>4
  <2>2. PICK h : Partial(h, p, base, S, k - 1)
    BY <2>1
  <2> DEFINE g == [s \in Small(S, k) |->
                     IF s = {} THEN base ELSE Apply(p, Item(p, Pick(p, s)), h[s \ {Pick(p, s)}])]
  <2>3. ASSUME NEW s \in Small(S, k), s # {}
        PROVE  g[s \ {Pick(p, s)}] = h[s \ {Pick(p, s)}]
    <3> DEFINE t == s \ {Pick(p, s)}
    <3>1. t \in Small(S, k - 1)
      BY <2>3, Smaller
    <3>2. t \in Small(S, k)
      BY <3>1, FS_Subset, FS_CardinalityType DEF Small
    <3>3. h[t] = IF t = {} THEN base ELSE Apply(p, Item(p, Pick(p, t)), h[t \ {Pick(p, t)}])
      BY <2>2, <3>1 DEF Partial
    <3> QED
      BY <3>2, <3>3
  <2>4. Partial(g, p, base, S, k)
    BY <2>3 DEF Partial
  <2> QED
    BY <2>4
<1> QED
  BY <1>3, <1>4, <1>2

\* g folds all subsets of S.
IsFold(g, p, base, S) ==
  g = [s \in SUBSET S |->
         IF s = {} THEN base ELSE Apply(p, Item(p, Pick(p, s)), g[s \ {Pick(p, s)}])]

(***************************************************************************)
(* The fold is what the recursion over the subsets of S says.              *)
(***************************************************************************)
LEMMA FoldEquation ==
  ASSUME NEW p, NEW base, NEW S, IsFiniteSet(S), Picks(p, S)
  PROVE  \E g : IsFold(g, p, base, S) /\ Fold(p, base, S) = g[S]
<1> DEFINE Iter(g) == g = [s \in SUBSET S |->
                   IF s = {} THEN base ELSE Apply(p, Item(p, Pick(p, s)), g[s \ {Pick(p, s)}])]
           iter == CHOOSE g : Iter(g)
<1>1. \E g : Iter(g)
  <2>1. Cardinality(S) \in Nat /\ \A s \in SUBSET S : Cardinality(s) <= Cardinality(S)
    BY FS_CardinalityType, FS_Subset
  <2>2. SUBSET S = Small(S, Cardinality(S))
    BY <2>1 DEF Small
  <2>3. PICK g : Partial(g, p, base, S, Cardinality(S))
    BY <2>1, SomeFold
  <2>4. Iter(g)
    BY <2>2, <2>3 DEF Partial
  <2> QED
    BY <2>4
<1>2. Iter(iter)
  BY <1>1
<1>3. Fold(p, base, S) = iter[S]
  BY DEF Fold, MapThenFoldSet
<1>4. IsFold(iter, p, base, S)
  BY <1>2 DEF IsFold
<1> QED
  BY <1>3, <1>4

(***************************************************************************)
(* There is one fold: on the subsets of T it does not depend on the rest   *)
(* of S.                                                                   *)
(***************************************************************************)
LEMMA SameFold ==
  ASSUME NEW p, NEW base, NEW S, IsFiniteSet(S), Picks(p, S), NEW T \in SUBSET S,
         NEW g, IsFold(g, p, base, S), NEW h, IsFold(h, p, base, T)
  PROVE  \A s \in SUBSET T : g[s] = h[s]
<1> DEFINE Bad == {k \in Nat : \E s \in Small(T, k) : g[s] # h[s]}
<1>0. IsFiniteSet(T) /\ Picks(p, T)
  BY FS_Subset DEF Picks
<1>1. SUFFICES ASSUME Bad # {} PROVE FALSE
  BY <1>0, FS_Subset, FS_CardinalityType DEF Small
<1>2. PICK k \in Bad : \A j \in Bad : k <= j
  BY <1>1, Least
<1>3. PICK s \in Small(T, k) : g[s] # h[s]
  BY <1>2
<1>4. s \in SUBSET T /\ s \in SUBSET S /\ k \in Nat
  BY <1>2 DEF Small
<1>5. s # {}
  BY <1>3, <1>4 DEF IsFold
<1>6. k - 1 \in Nat /\ s \ {Pick(p, s)} \in Small(T, k - 1)
  <2> HIDE DEF Bad
  <2>1. k > 0 /\ s \ {Pick(p, s)} \in Small(T, k - 1)
    BY <1>0, <1>4, <1>5, Smaller
  <2> QED
    BY <1>4, <2>1
<1>7. g[s \ {Pick(p, s)}] = h[s \ {Pick(p, s)}]
  BY <1>2, <1>6
<1>8. g[s] = Apply(p, Item(p, Pick(p, s)), g[s \ {Pick(p, s)}])
  BY <1>4, <1>5 DEF IsFold
<1>9. h[s] = Apply(p, Item(p, Pick(p, s)), h[s \ {Pick(p, s)}])
  BY <1>4, <1>5 DEF IsFold
<1> QED
  BY <1>3, <1>7, <1>8, <1>9

(***************************************************************************)
(* The recursion, without the function that carries it.                    *)
(***************************************************************************)
LEMMA FoldStep ==
  ASSUME NEW p, NEW base, NEW S, IsFiniteSet(S), Picks(p, S)
  PROVE  /\ S = {} => Fold(p, base, S) = base
         /\ S # {} => Fold(p, base, S)
                        = Apply(p, Item(p, Pick(p, S)), Fold(p, base, S \ {Pick(p, S)}))
<1>1. PICK g : IsFold(g, p, base, S) /\ Fold(p, base, S) = g[S]
  BY FoldEquation
<1>2. CASE S = {}
  BY <1>1, <1>2 DEF IsFold
<1>3. CASE S # {}
  <2> DEFINE T == S \ {Pick(p, S)}
  <2>1. T \in SUBSET S /\ IsFiniteSet(T) /\ Picks(p, T)
    BY FS_Subset DEF Picks
  <2>2. PICK h : IsFold(h, p, base, T) /\ Fold(p, base, T) = h[T]
    BY <2>1, FoldEquation
  <2>3. g[T] = h[T]
    BY <1>1, <2>1, <2>2, SameFold
  <2>4. g[S] = Apply(p, Item(p, Pick(p, S)), g[T])
    BY <1>1, <1>3 DEF IsFold
  <2> QED
    BY <1>1, <1>3, <2>2, <2>3, <2>4
<1> QED
  BY <1>2, <1>3

(***************************************************************************)
(* Two parameters that agree on every subset have one fold.                *)
(***************************************************************************)
LEMMA FoldSame ==
  ASSUME NEW p, NEW q, NEW base, NEW S, IsFiniteSet(S), Picks(p, S),
         \A s \in SUBSET S : s # {} =>
           /\ Pick(p, s) = Pick(q, s)
           /\ \A acc : Apply(p, Item(p, Pick(p, s)), acc) = Apply(q, Item(q, Pick(p, s)), acc)
  PROVE  Fold(p, base, S) = Fold(q, base, S)
<1>1. PICK g : IsFold(g, p, base, S) /\ Fold(p, base, S) = g[S]
  BY FoldEquation
<1>2. Picks(q, S)
  BY DEF Picks
<1>3. PICK h : IsFold(h, q, base, S) /\ Fold(q, base, S) = h[S]
  BY <1>2, FoldEquation
<1>4. IsFold(g, q, base, S)
  <2>1. \A s \in SUBSET S :
          g[s] = IF s = {} THEN base ELSE Apply(p, Item(p, Pick(p, s)), g[s \ {Pick(p, s)}])
    BY <1>1 DEF IsFold
  <2>2. \A s \in SUBSET S :
          g[s] = IF s = {} THEN base ELSE Apply(q, Item(q, Pick(q, s)), g[s \ {Pick(q, s)}])
    BY <2>1
  <2>3. g = [s \in SUBSET S |-> g[s]]
    BY <1>1 DEF IsFold
  <2> QED
    BY <2>2, <2>3 DEF IsFold
<1>5. g[S] = h[S]
  BY <1>2, <1>3, <1>4, SameFold
<1> QED
  BY <1>1, <1>3, <1>5

(***************************************************************************)
(* Induction over the fold.                                                *)
(***************************************************************************)
LEMMA FoldHolds ==
  ASSUME NEW p, NEW base, NEW S, IsFiniteSet(S), Picks(p, S),
         Holds(p, {}, base),
         \A s \in SUBSET S : s # {} =>
           \A acc : Holds(p, s \ {Pick(p, s)}, acc)
                      => Holds(p, s, Apply(p, Item(p, Pick(p, s)), acc))
  PROVE  Holds(p, S, Fold(p, base, S))
<1>1. PICK g : IsFold(g, p, base, S) /\ Fold(p, base, S) = g[S]
  BY FoldEquation
<1> DEFINE Bad == {k \in Nat : \E s \in Small(S, k) : ~Holds(p, s, g[s])}
<1>2. SUFFICES ASSUME Bad # {} PROVE FALSE
  BY <1>1, FS_CardinalityType DEF Small
<1>3. PICK k \in Bad : \A j \in Bad : k <= j
  BY <1>2, Least
<1>4. PICK s \in Small(S, k) : ~Holds(p, s, g[s])
  BY <1>3
<1>5. s \in SUBSET S
  BY DEF Small
<1>6. s # {}
  BY <1>1, <1>4, <1>5 DEF IsFold
<1>7. k - 1 \in Nat /\ s \ {Pick(p, s)} \in Small(S, k - 1)
  <2>1. k \in Nat
    OBVIOUS
  <2> HIDE DEF Bad
  <2>2. k > 0 /\ s \ {Pick(p, s)} \in Small(S, k - 1)
    BY <1>6, <2>1, Smaller
  <2> QED
    BY <2>1, <2>2
<1>8. Holds(p, s \ {Pick(p, s)}, g[s \ {Pick(p, s)}])
  BY <1>3, <1>7
<1>9. Holds(p, s, Apply(p, Item(p, Pick(p, s)), g[s \ {Pick(p, s)}]))
  BY <1>5, <1>6, <1>8
<1>10. g[s] = Apply(p, Item(p, Pick(p, s)), g[s \ {Pick(p, s)}])
  BY <1>1, <1>5, <1>6 DEF IsFold
<1> QED
  BY <1>4, <1>9, <1>10

=============================================================================
