------------------------- MODULE RmaAccessListProofs ------------------------
(***************************************************************************)
(* Proofs about the access list, for any set of accesses and any word      *)
(* size: what the neighbour scan of getIntersectingIntervals can miss, and *)
(* that it misses nothing when all accesses have one size.                 *)
(***************************************************************************)
EXTENDS RmaAccessList, TLAPS

(* The bounds of an access are integers, which is all the order and the    *)
(* intersection test of Interval.h look at.                                *)
LEMMA BoundsAreIntegers ==
  ASSUME NEW A \in Accesses
  PROVE  A.Itv.Low \in Int /\ A.Itv.Up \in Int
BY AccessesAssumption, WordAssumption DEF Access, Interval, Address

(* The bounds Access(MemoryAccess, ...) computes: 64-bit arithmetic only   *)
(* shows in no bytes at address 0.                                         *)
LEMMA BoundsOfMemory ==
  ASSUME NEW A \in Accesses
  PROVE  /\ A.Addr \in Nat /\ A.Size \in Nat /\ A.Addr < Word
         /\ A.Itv.Low = A.Addr
         /\ A.Itv.Up = IF A.Addr = 0 /\ A.Size = 0 THEN Word - 1 ELSE A.Addr + A.Size - 1
<1>1. /\ A.Addr \in Nat /\ A.Size \in Nat /\ A.Addr < Word /\ A.Addr + A.Size <= Word
      /\ A.Itv = FromMemory(A.Addr, A.Size)
  BY AccessesAssumption, WordAssumption DEF Access, Address
<1>2. \A n \in 0 .. Word - 1 : n % Word = n
  BY WordAssumption
<1>3. (-1) % Word = Word - 1
  BY WordAssumption
<1>4. A.Itv.Low = Wrap(A.Addr) /\ A.Itv.Up = Wrap(A.Addr + A.Size - 1)
  BY <1>1 DEF FromMemory
<1>5. A.Itv.Low = A.Addr
  BY <1>1, <1>2, <1>4, WordAssumption DEF Wrap
<1>6. CASE A.Addr = 0 /\ A.Size = 0
  <2>1. A.Addr + A.Size - 1 = -1
    BY <1>6
  <2> QED
    BY <1>1, <1>3, <1>4, <1>5, <1>6, <2>1 DEF Wrap
<1>7. CASE ~ (A.Addr = 0 /\ A.Size = 0)
  <2>1. A.Addr + A.Size - 1 \in 0 .. Word - 1
    BY <1>1, <1>7, WordAssumption
  <2> QED
    BY <1>1, <1>2, <1>4, <1>5, <1>7, <2>1 DEF Wrap
<1> QED
  BY <1>6, <1>7

LEMMA NonEmptyBounds ==
  ASSUME NonEmpty, NEW A \in Accesses
  PROVE  A.Itv.Low <= A.Itv.Up
BY BoundsOfMemory DEF NonEmpty

(* conflictsWith does not depend on which access was saved first.          *)
LEMMA ConflictSymmetric ==
  ASSUME NEW A \in Accesses, NEW B \in Accesses
  PROVE  conflictsWith(A, B) <=> conflictsWith(B, A)
BY BoundsAreIntegers DEF conflictsWith, intersects, TypesConflict

(* The downward half of getIntersectingIntervals misses an intersecting    *)
(* neighbour only behind one that does not intersect the new access.       *)
LEMMA ScanDownMiss ==
  ASSUME NEW S, NEW A, NEW x \in S,
         ~ Before(A.Itv, x.Itv), x \notin ScanDown(S, A)
  PROVE  \E z \in S : /\ ~ Before(z.Itv, x.Itv)
                      /\ ~ Before(A.Itv, z.Itv)
                      /\ ~ intersects(z.Itv, A.Itv)
BY DEF ScanDown, Below, Above

(* The upward half misses nothing: once a neighbour starts after the end   *)
(* of the new access, so do all the following ones.                        *)
LEMMA ScanUpExact ==
  ASSUME NonEmpty, NEW S \in SUBSET Accesses, NEW A \in Accesses, NEW y \in S,
         Before(A.Itv, y.Itv), intersects(y.Itv, A.Itv)
  PROVE  y \in ScanUp(S, A)
<1> SUFFICES ASSUME NEW w \in Above(S, A), ~ Before(y.Itv, w.Itv)
             PROVE  intersects(w.Itv, A.Itv)
  BY DEF ScanUp, Above
<1> w \in Accesses /\ y \in Accesses
  BY DEF Above
<1>1. w.Itv.Low <= y.Itv.Low /\ A.Itv.Low <= w.Itv.Low
  BY BoundsAreIntegers DEF Before, Above
<1>2. w.Itv.Low <= w.Itv.Up
  BY NonEmptyBounds
<1> QED
  BY <1>1, <1>2, BoundsAreIntegers DEF intersects

(* An access with the bounds of the new one is met first.                  *)
LEMMA ScanSameBounds ==
  ASSUME NonEmpty, NEW S \in SUBSET Accesses, NEW A \in Accesses, NEW y \in S,
         ~ Before(A.Itv, y.Itv), ~ Before(y.Itv, A.Itv)
  PROVE  y \in ScanDown(S, A)
<1> SUFFICES ASSUME NEW w \in Below(S, A), ~ Before(w.Itv, y.Itv)
             PROVE  intersects(w.Itv, A.Itv)
  BY DEF ScanDown, Below, Above
<1> w \in Accesses /\ y \in Accesses
  BY DEF Below
<1>1. w.Itv.Low = A.Itv.Low /\ w.Itv.Up = A.Itv.Up
  BY BoundsAreIntegers DEF Before, Below, Above
<1> QED
  BY <1>1, BoundsAreIntegers, NonEmptyBounds DEF intersects

(* The list holds accesses of the program, in every reachable state. *)
THEOREM TypeCorrect == Spec => []TypeOK
<1>1. Init => TypeOK
  BY DEF Init, TypeOK
<1>2. TypeOK /\ [Next]_vars => TypeOK'
  BY DEF TypeOK, Next, vars, SaveInterval, ClearIntervals
<1> QED
  BY <1>1, <1>2, PTL DEF Spec

(* One rma_analyzer_save_interval that found no conflict keeps the claim.  *)
LEMMA SaveKeepsGap ==
  ASSUME NonEmpty, TypeOK, MissedOnlyBehindGap, NEW Acc \in Accesses,
         getConflictingIntervals(Intervals, Acc) = {},
         Intervals' = Intervals \cup {Acc}
  PROVE  MissedOnlyBehindGap'
<1> SUFFICES ASSUME NEW x \in Intervals', NEW y \in Intervals',
                    x # y, conflictsWith(x, y), ~ Before(y.Itv, x.Itv)
             PROVE  \E z \in Intervals' : /\ ~ Before(z.Itv, x.Itv)
                                          /\ ~ Before(y.Itv, z.Itv)
                                          /\ ~ intersects(z.Itv, y.Itv)
  BY DEF MissedOnlyBehindGap
<1> x \in Accesses /\ y \in Accesses /\ Intervals \in SUBSET Accesses
  BY DEF TypeOK
<1>1. CASE x \in Intervals /\ y \in Intervals
  BY <1>1 DEF MissedOnlyBehindGap
<1>2. CASE x \in Intervals /\ y = Acc
  <2>1. x \notin ScanDown(Intervals, Acc)
    BY <1>2 DEF getConflictingIntervals, getIntersectingIntervals
  <2>2. \E z \in Intervals : /\ ~ Before(z.Itv, x.Itv)
                             /\ ~ Before(Acc.Itv, z.Itv)
                             /\ ~ intersects(z.Itv, Acc.Itv)
    BY <1>2, <2>1, ScanDownMiss
  <2> QED
    BY <1>2, <2>2
<1>3. CASE x = Acc /\ y \in Intervals
  <2>1. conflictsWith(y, Acc) /\ intersects(y.Itv, Acc.Itv)
    BY <1>3, ConflictSymmetric DEF conflictsWith
  <2>2. y \in ScanUp(Intervals, Acc) \cup ScanDown(Intervals, Acc)
    BY <1>3, <2>1, ScanUpExact, ScanSameBounds
  <2> QED
    BY <2>1, <2>2 DEF getConflictingIntervals, getIntersectingIntervals
<1> QED
  BY <1>1, <1>2, <1>3

(* A conflict between accesses of one epoch escapes                        *)
(* rma_analyzer_save_interval only behind a shorter neighbour, whatever    *)
(* the program accesses.                                                   *)
THEOREM MissesOnlyBehindGap == NonEmpty => (Spec => []MissedOnlyBehindGap)
<1> SUFFICES ASSUME NonEmpty
             PROVE  Spec => []MissedOnlyBehindGap
  OBVIOUS
<1>1. Init => MissedOnlyBehindGap
  BY DEF Init, MissedOnlyBehindGap
<1>2. TypeOK /\ MissedOnlyBehindGap /\ [Next]_vars => MissedOnlyBehindGap'
  <2> SUFFICES ASSUME TypeOK, MissedOnlyBehindGap, [Next]_vars
               PROVE  MissedOnlyBehindGap'
    OBVIOUS
  <2>1. ASSUME NEW Acc \in Accesses, SaveInterval(Acc)
        PROVE  MissedOnlyBehindGap'
    <3>1. CASE getConflictingIntervals(Intervals, Acc) # {}
      BY <2>1, <3>1 DEF SaveInterval, MissedOnlyBehindGap
    <3>2. CASE getConflictingIntervals(Intervals, Acc) = {}
      BY <2>1, <3>2, SaveKeepsGap DEF SaveInterval
    <3> QED
      BY <3>1, <3>2
  <2>2. CASE ClearIntervals
    BY <2>2 DEF ClearIntervals, MissedOnlyBehindGap
  <2>3. CASE UNCHANGED vars
    BY <2>3 DEF vars, MissedOnlyBehindGap
  <2> QED
    BY <2>1, <2>2, <2>3 DEF Next
<1> QED
  BY <1>1, <1>2, TypeCorrect, PTL DEF Spec

(* While the saved accesses have one size, rma_analyzer_save_interval      *)
(* misses no conflict: the access in the gap cannot exist.                 *)
THEOREM UniformAccessesMissNothing == NonEmpty => (Spec => []UniformMissNothing)
<1> SUFFICES ASSUME NonEmpty
             PROVE  Spec => []UniformMissNothing
  OBVIOUS
<1>1. TypeOK /\ MissedOnlyBehindGap => UniformMissNothing
  <2> SUFFICES ASSUME TypeOK, MissedOnlyBehindGap, SameSize,
                      NEW x \in Intervals, NEW y \in Intervals,
                      x # y, conflictsWith(x, y)
               PROVE  FALSE
    BY DEF UniformMissNothing, NoMissedConflict
  <2>1. ASSUME NEW u \in Intervals, NEW v \in Intervals,
               u # v, conflictsWith(u, v), ~ Before(v.Itv, u.Itv)
        PROVE  FALSE
    <3>1. PICK z \in Intervals : /\ ~ Before(z.Itv, u.Itv)
                                 /\ ~ Before(v.Itv, z.Itv)
                                 /\ ~ intersects(z.Itv, v.Itv)
      BY <2>1 DEF MissedOnlyBehindGap
    <3> u \in Accesses /\ v \in Accesses /\ z \in Accesses
      BY DEF TypeOK
    <3>2. u.Itv.Low <= z.Itv.Low /\ z.Itv.Low <= v.Itv.Low
      BY <3>1, BoundsAreIntegers DEF Before
    <3>3. u.Itv.Up >= v.Itv.Low
      BY <2>1, BoundsAreIntegers DEF conflictsWith, intersects
    <3>4. u.Itv.Up - u.Itv.Low = z.Itv.Up - z.Itv.Low
      BY DEF SameSize
    <3>5. v.Itv.Low <= v.Itv.Up
      BY NonEmptyBounds
    <3> QED
      BY <3>1, <3>2, <3>3, <3>4, <3>5, BoundsAreIntegers DEF intersects
  <2>2. x \in Accesses /\ y \in Accesses
    BY DEF TypeOK
  <2>3. ~ Before(y.Itv, x.Itv) \/ ~ Before(x.Itv, y.Itv)
    BY <2>2, BoundsAreIntegers DEF Before
  <2>4. conflictsWith(y, x)
    BY <2>2, ConflictSymmetric
  <2> QED
    BY <2>1, <2>3, <2>4
<1> QED
  BY <1>1, TypeCorrect, MissesOnlyBehindGap, PTL

(* Two accesses that Interval::intersects says meet have a byte in common, *)
(* unless one of them has none.                                            *)
LEMMA IntersectionShares ==
  ASSUME NEW A \in Accesses, NEW B \in Accesses, intersects(A.Itv, B.Itv)
  PROVE  Bytes(A) \cap Bytes(B) # {} \/ EmptyMeets(A, B) \/ EmptyMeets(B, A)
<1>1. A.Itv.Low <= B.Itv.Up /\ B.Itv.Low <= A.Itv.Up
  BY BoundsAreIntegers DEF intersects
<1>2. CASE A.Size = 0
  BY <1>1, <1>2, BoundsOfMemory DEF EmptyMeets, Bytes
<1>3. CASE B.Size = 0
  BY <1>1, <1>3, BoundsOfMemory DEF EmptyMeets, Bytes
<1>4. CASE A.Size # 0 /\ B.Size # 0
  <2>1. CASE A.Addr <= B.Addr
    <3>1. B.Addr \in Bytes(A) /\ B.Addr \in Bytes(B)
      BY <1>1, <1>4, <2>1, BoundsOfMemory DEF Bytes
    <3> QED
      BY <3>1
  <2>2. CASE B.Addr <= A.Addr
    <3>1. A.Addr \in Bytes(A) /\ A.Addr \in Bytes(B)
      BY <1>1, <1>4, <2>2, BoundsOfMemory DEF Bytes
    <3> QED
      BY <3>1
  <2> QED
    BY <2>1, <2>2, BoundsOfMemory
<1> QED
  BY <1>2, <1>3, <1>4

(* rma_analyzer_save_interval calls MPI_Abort only for a saved access that *)
(* touches a byte of the new one, where one of the two writes and one is a *)
(* communication, or for one of the false alarms of EmptyMeets, in which   *)
(* one of the two touches no byte.  For all accesses to memory, those of   *)
(* zero bytes and those at address 0 included.                             *)
THEOREM AbortsAreRacesOrEmpty == Spec => AbortsOnSharedOrEmpty
<1>1. ASSUME TypeOK, Next, aborted', NEW Acc \in Accesses, SaveInterval(Acc)
      PROVE  \E x \in Intervals :
               /\ {x.Type, Acc.Type} \cap {RMA_READ, RMA_WRITE} # {}
               /\ {x.Type, Acc.Type} \cap {LOCAL_WRITE, RMA_WRITE} # {}
               /\ \/ Bytes(x) \cap Bytes(Acc) # {}
                  \/ EmptyMeets(x, Acc) \/ EmptyMeets(Acc, x)
  <2>1. getConflictingIntervals(Intervals, Acc) # {}
    BY <1>1 DEF SaveInterval
  <2>2. PICK x \in Intervals : conflictsWith(x, Acc)
    BY <2>1 DEF getConflictingIntervals, getIntersectingIntervals, ScanUp, ScanDown, Above, Below
  <2>3. x \in Accesses /\ x.Type \in AccessType /\ Acc.Type \in AccessType
    BY <1>1, AccessesAssumption DEF TypeOK, Access
  <2>4. intersects(x.Itv, Acc.Itv) /\ TypesConflict(x.Type, Acc.Type)
    BY <2>2, <2>3, BoundsAreIntegers DEF conflictsWith
  <2>5. Bytes(x) \cap Bytes(Acc) # {} \/ EmptyMeets(x, Acc) \/ EmptyMeets(Acc, x)
    BY <2>3, <2>4, IntersectionShares
  <2>6. /\ {x.Type, Acc.Type} \cap {RMA_READ, RMA_WRITE} # {}
        /\ {x.Type, Acc.Type} \cap {LOCAL_WRITE, RMA_WRITE} # {}
    BY <2>3, <2>4 DEF TypesConflict, AccessType
  <2> QED
    BY <2>5, <2>6
<1>2. TypeOK /\ [Next]_vars =>
        [aborted' => \A Acc \in Accesses : SaveInterval(Acc) =>
           \E x \in Intervals :
             /\ {x.Type, Acc.Type} \cap {RMA_READ, RMA_WRITE} # {}
             /\ {x.Type, Acc.Type} \cap {LOCAL_WRITE, RMA_WRITE} # {}
             /\ \/ Bytes(x) \cap Bytes(Acc) # {}
                \/ EmptyMeets(x, Acc) \/ EmptyMeets(Acc, x)]_vars
  BY <1>1
<1> QED
  BY <1>2, TypeCorrect, PTL DEF Spec, AbortsOnSharedOrEmpty
=============================================================================
