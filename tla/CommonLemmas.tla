---------------------------- MODULE CommonLemmas ----------------------------
(***************************************************************************)
(* Facts that several proofs rest on.                                      *)
(*                                                                         *)
(* Counting the calls of a program up to a position relates the counters   *)
(* of the code to the position a process has reached: S is the set of the  *)
(* positions that count.                                                   *)
(*                                                                         *)
(* ReachedFrom(E, S) of module Reachability is the least set that contains *)
(* S and that no edge of E leaves, for every finite graph.  The recursive  *)
(* function it is defined by has a solution, the one that gives each set   *)
(* the least closed set around it, and only one, since every unfolding     *)
(* adds a node.                                                            *)
(***************************************************************************)
EXTENDS Integers, Reachability, FiniteSetTheorems, TLAPS

(* One more call counts for one or for nothing.                            *)
LEMMA CountStep ==
  ASSUME NEW S, NEW k \in Nat
  PROVE  /\ Cardinality(1 .. k \cap S) \in Nat
         /\ Cardinality(1 .. k + 1 \cap S) =
              Cardinality(1 .. k \cap S) + IF k + 1 \in S THEN 1 ELSE 0
<1>1. IsFiniteSet(1 .. k \cap S)
  <2>1. IsFiniteSet(1 .. k)
    BY FS_Interval
  <2> QED
    BY <2>1, FS_Intersection
<1>a. Cardinality(1 .. k \cap S) \in Nat
  BY <1>1, FS_CardinalityType
<1>2. CASE k + 1 \in S
  <2>1. 1 .. k + 1 \cap S = (1 .. k \cap S) \cup {k + 1}
    BY <1>2
  <2>2. k + 1 \notin 1 .. k \cap S
    OBVIOUS
  <2> QED
    BY <1>1, <1>2, <1>a, <2>1, <2>2, FS_AddElement
<1>3. CASE k + 1 \notin S
  <2>1. 1 .. k + 1 \cap S = 1 .. k \cap S
    BY <1>3
  <2> QED
    BY <1>3, <1>a, <2>1
<1> QED
  BY <1>2, <1>3

(* The count never decreases along the program.                            *)
LEMMA CountMonotone ==
  ASSUME NEW S, NEW j \in Nat, NEW k \in Nat, j <= k
  PROVE  Cardinality(1 .. j \cap S) <= Cardinality(1 .. k \cap S)
<1>1. IsFiniteSet(1 .. k \cap S)
  <2>1. IsFiniteSet(1 .. k)
    BY FS_Interval
  <2> QED
    BY <2>1, FS_Intersection
<1>2. 1 .. j \cap S \subseteq 1 .. k \cap S
  OBVIOUS
<1> QED
  BY <1>1, <1>2, FS_Subset

(* A set of natural numbers has a least element. *)
LEMMA LeastNatural ==
  ASSUME NEW T \in SUBSET Nat, T # {}
  PROVE  \E x \in T : \A y \in T : x <= y
<1> DEFINE Less == OpToRel(<, Nat)
<1>1. \E x \in T : \A y \in T : <<y, x>> \notin Less
  BY NatLessThanWellFounded, WFMin
<1>2. \A x, y \in Nat : y < x => <<y, x>> \in Less
  BY Zenon DEF OpToRel
<1> HIDE DEF Less
<1>3. PICK x \in T : \A y \in T : <<y, x>> \notin Less
  BY <1>1
<1>4. ASSUME NEW y \in T PROVE x <= y
  <2>1. <<y, x>> \notin Less /\ x \in Nat /\ y \in Nat
    BY <1>3
  <2>2. ~ (y < x)
    BY <1>2, <2>1
  <2> QED
    BY <2>1, <2>2
<1> QED
  BY <1>4

-----------------------------------------------------------------------------
(* A set of subsets of a finite set has a maximal element. *)
LEMMA MaximalSet ==
  ASSUME NEW U, IsFiniteSet(U), NEW B \in SUBSET SUBSET U, B # {}
  PROVE  \E T \in B : \A V \in B : T \subseteq V => V = T
<1> DEFINE C == {U \ T : T \in B}
<1>1. IsWellFoundedOn(StrictSubsetOrdering(U), FiniteSubsetsOf(U))
  BY FS_StrictSubsetOrderingWellFounded
<1>2. FiniteSubsetsOf(U) = SUBSET U
  BY FS_FiniteSubsetsOfFinite
<1>d. \A y : y \in C <=> \E T \in B : y = U \ T
  OBVIOUS
<1> HIDE DEF C
<1>c. C \subseteq SUBSET U /\ C # {}
  <2>1. \A y \in C : y \in SUBSET U
    BY <1>d
  <2>2. \E y : y \in C
    BY <1>d
  <2> QED
    BY <2>1, <2>2
<1>3. C \subseteq FiniteSubsetsOf(U)
  BY <1>2, <1>c
<1>4. \E x \in C : \A y \in C : ~ (<<y, x>> \in StrictSubsetOrdering(U))
  BY <1>1, <1>3, <1>c, WFMin
<1>5. PICK T \in B : \A y \in C : ~ (<<y, U \ T>> \in StrictSubsetOrdering(U))
  BY <1>4, <1>d
<1>6. ASSUME NEW V \in B, T \subseteq V
      PROVE  V = T
  <2>1. ~ (<<U \ V, U \ T>> \in StrictSubsetOrdering(U))
    BY <1>5, <1>d
  <2>2. U \ V \in SUBSET U /\ U \ T \in SUBSET U /\ U \ V \subseteq U \ T
    BY <1>6
  <2>3. U \ V = U \ T
    BY <2>1, <2>2 DEF StrictSubsetOrdering
  <2>4. V \subseteq U /\ T \subseteq U
    OBVIOUS
  <2> QED
    BY <2>3, <2>4
<1> QED
  BY <1>6

(* The least subset of U that contains T and that E does not leave. *)
LeastClosed(E, U, T) ==
  {x \in U : \A C \in SUBSET U : T \subseteq C /\ Successors(E, C) \subseteq C => x \in C}

(* The equation that defines closure in ReachedFrom. *)
Unfolds(E, U, f) ==
  f = [T \in SUBSET U |->
         IF Successors(E, T) \subseteq T THEN T ELSE f[T \cup Successors(E, T)]]

(* LeastClosed is closed, and unchanged by the successors of T. *)
LEMMA LeastClosedFacts ==
  ASSUME NEW E, NEW U, {e[2] : e \in E} \subseteq U, NEW T \in SUBSET U
  PROVE  /\ LeastClosed(E, U, T) \subseteq U /\ T \subseteq LeastClosed(E, U, T)
         /\ Successors(E, LeastClosed(E, U, T)) \subseteq LeastClosed(E, U, T)
         /\ Successors(E, T) \subseteq U
         /\ Successors(E, T) \subseteq T => LeastClosed(E, U, T) = T
         /\ LeastClosed(E, U, T \cup Successors(E, T)) = LeastClosed(E, U, T)
<1>1. LeastClosed(E, U, T) \subseteq U /\ T \subseteq LeastClosed(E, U, T)
  BY DEF LeastClosed
<1>2. \A A : Successors(E, A) \subseteq U
  BY DEF Successors
<1>3. \A A, C : A \subseteq C => Successors(E, A) \subseteq Successors(E, C)
  BY DEF Successors
<1>4. ASSUME NEW x \in Successors(E, LeastClosed(E, U, T))
      PROVE  x \in LeastClosed(E, U, T)
  <2>1. x \in U
    BY <1>2, <1>4
  <2>2. ASSUME NEW C \in SUBSET U, T \subseteq C, Successors(E, C) \subseteq C
        PROVE  x \in C
    <3>1. LeastClosed(E, U, T) \subseteq C
      BY <2>2 DEF LeastClosed
    <3> QED
      BY <1>3, <1>4, <2>2, <3>1
  <2> QED
    BY <2>1, <2>2 DEF LeastClosed
<1>5. Successors(E, T) \subseteq T => LeastClosed(E, U, T) = T
  BY <1>1 DEF LeastClosed
<1>6. \A C \in SUBSET U : Successors(E, C) \subseteq C =>
        (T \subseteq C <=> T \cup Successors(E, T) \subseteq C)
  BY <1>3
<1>7. LeastClosed(E, U, T \cup Successors(E, T)) = LeastClosed(E, U, T)
  BY <1>6 DEF LeastClosed
<1> QED
  BY <1>1, <1>2, <1>4, <1>5, <1>7

(* The recursion has a solution, *)
LEMMA UnfoldingExists ==
  ASSUME NEW E, NEW U, {e[2] : e \in E} \subseteq U
  PROVE  Unfolds(E, U, [T \in SUBSET U |-> LeastClosed(E, U, T)])
<1> DEFINE f == [T \in SUBSET U |-> LeastClosed(E, U, T)]
<1>1. ASSUME NEW T \in SUBSET U
      PROVE  LeastClosed(E, U, T) =
               IF Successors(E, T) \subseteq T THEN T ELSE f[T \cup Successors(E, T)]
  <2>1. T \cup Successors(E, T) \in SUBSET U
    BY LeastClosedFacts
  <2>2. f[T \cup Successors(E, T)] = LeastClosed(E, U, T \cup Successors(E, T))
    BY <2>1
  <2> QED
    BY <2>2, LeastClosedFacts
<1> HIDE DEF f
<1>2. [T \in SUBSET U |-> LeastClosed(E, U, T)] =
        [T \in SUBSET U |->
           IF Successors(E, T) \subseteq T THEN T ELSE f[T \cup Successors(E, T)]]
  BY <1>1
<1> QED
  BY <1>2 DEF Unfolds, f

(* and no other. *)
LEMMA UnfoldingUnique ==
  ASSUME NEW E, NEW U, IsFiniteSet(U), {e[2] : e \in E} \subseteq U,
         NEW f, Unfolds(E, U, f), NEW S \in SUBSET U
  PROVE  f[S] = LeastClosed(E, U, S)
<1> DEFINE B == {T \in SUBSET U : f[T] # LeastClosed(E, U, T)}
<1>1. ASSUME B # {} PROVE FALSE
  <2>1. B \in SUBSET SUBSET U /\ \A T \in SUBSET U : f[T] # LeastClosed(E, U, T) <=> T \in B
    OBVIOUS
  <2> HIDE DEF B
  <2>2. PICK T \in B : \A V \in B : T \subseteq V => V = T
    BY <1>1, <2>1, MaximalSet
  <2>3. T \in SUBSET U /\ f[T] # LeastClosed(E, U, T)
    BY <2>1, <2>2
  <2>4. f[T] = IF Successors(E, T) \subseteq T THEN T ELSE f[T \cup Successors(E, T)]
    BY <2>3 DEF Unfolds
  <2>5. ~ (Successors(E, T) \subseteq T)
    BY <2>3, <2>4, LeastClosedFacts
  <2>6. T \cup Successors(E, T) \in SUBSET U
    BY <2>3, LeastClosedFacts
  <2>7. T \cup Successors(E, T) \notin B
    BY <2>2, <2>5
  <2>8. f[T \cup Successors(E, T)] = LeastClosed(E, U, T \cup Successors(E, T))
    BY <2>1, <2>6, <2>7
  <2> QED
    BY <2>3, <2>4, <2>5, <2>8, LeastClosedFacts
<1> QED
  BY <1>1

(* A finite graph has finitely many nodes. *)
LEMMA FiniteHeads ==
  ASSUME NEW E, IsFiniteSet(E)
  PROVE  IsFiniteSet({e[2] : e \in E})
<1>1. [e \in E |-> e[2]] \in Surjection(E, {e[2] : e \in E})
  BY DEF Surjection
<1> QED
  BY <1>1, FS_Surjection

(* What ReachedFrom computes: the least set around S that E does not       *)
(* leave.                                                                  *)
LEMMA ReachedIsLeast ==
  ASSUME NEW E, NEW S, IsFiniteSet(E), IsFiniteSet(S)
  PROVE  /\ S \subseteq ReachedFrom(E, S)
         /\ ReachedFrom(E, S) \subseteq S \cup {e[2] : e \in E}
         /\ Successors(E, ReachedFrom(E, S)) \subseteq ReachedFrom(E, S)
         /\ \A C : S \subseteq C /\ Successors(E, C) \subseteq C => ReachedFrom(E, S) \subseteq C
<1> DEFINE U == S \cup {e[2] : e \in E}
<1>1. IsFiniteSet(U) /\ {e[2] : e \in E} \subseteq U /\ S \in SUBSET U
  <2>1. IsFiniteSet({e[2] : e \in E})
    BY FiniteHeads
  <2> QED
    BY <2>1, FS_Union
<1>2. ReachedFrom(E, S) = (CHOOSE f : Unfolds(E, U, f))[S]
  BY DEF ReachedFrom, Unfolds
<1>3. Unfolds(E, U, CHOOSE f : Unfolds(E, U, f))
  <2> HIDE DEF U
  <2>1. \E f : Unfolds(E, U, f)
    BY <1>1, UnfoldingExists
  <2> QED
    BY <2>1
<1> HIDE DEF U
<1>4. ReachedFrom(E, S) = LeastClosed(E, U, S)
  BY <1>1, <1>2, <1>3, UnfoldingUnique
<1>5. ASSUME NEW C, S \subseteq C, Successors(E, C) \subseteq C
      PROVE  LeastClosed(E, U, S) \subseteq C
  <2>1. C \cap U \in SUBSET U /\ S \subseteq C \cap U
    BY <1>1, <1>5
  <2>2. Successors(E, C \cap U) \subseteq C \cap U
    BY <1>1, <1>5 DEF Successors
  <2> QED
    BY <2>1, <2>2 DEF LeastClosed
<1>6. /\ LeastClosed(E, U, S) \subseteq U /\ S \subseteq LeastClosed(E, U, S)
      /\ Successors(E, LeastClosed(E, U, S)) \subseteq LeastClosed(E, U, S)
  BY <1>1, LeastClosedFacts
<1> QED
  BY <1>4, <1>5, <1>6 DEF U
=============================================================================
