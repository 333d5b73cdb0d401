---------------------------- MODULE RmaIntervals ----------------------------
(***************************************************************************)
(* The interval algebra of the RMA analyzer: byte intervals, memory        *)
(* accesses, the conflict relation between them, and the neighbour scan by *)
(* which rma_analyzer_state looks for the accesses that intersect a new    *)
(* one (src/instrumentation/rma/Interval.h and rma_analyzer.cpp).          *)
(*                                                                         *)
(* The std::multiset of accesses is a set here: its comparator looks at    *)
(* the interval bounds only, so accesses with equal bounds are adjacent    *)
(* and are all kept or all dropped by a scan, whatever their order, and a  *)
(* second copy of an access never changes which conflicts are found.       *)
(***************************************************************************)
EXTENDS Integers

CONSTANT Word    \* 2^64 in the code: addresses are uint64_t

ASSUME WordAssumption == Word \in Nat \ {0}

(* enum class AccessType: the values are bit sets, bit 0 for a write and   *)
(* bit 1 for an access made by a one-sided communication.                  *)
LOCAL_READ  == 0
LOCAL_WRITE == 1
RMA_READ    == 2
RMA_WRITE   == 3

AccessType == {LOCAL_READ, LOCAL_WRITE, RMA_READ, RMA_WRITE}

Wrap(n) == n % Word

Address == 0 .. Word - 1

Interval == [Low : Address, Up : Address]

(* Access(MemoryAccess, ...): Size bytes from Addr.  No size is refused: 0 *)
(* gives an interval whose upper bound is below its lower bound.           *)
FromMemory(Addr, Size) == [Low |-> Wrap(Addr), Up |-> Wrap(Addr + Size - 1)]

(* Interval::fixForWindow: a displacement in units of the target window    *)
(* becomes an address of the target; the size in bytes is kept.            *)
fixForWindow(I, BaseAddr, DispUnit) ==
  LET Size == Wrap(I.Up - I.Low)
      Low  == Wrap(Wrap(I.Low * DispUnit) + BaseAddr)
  IN  [Low |-> Low, Up |-> Wrap(Low + Size)]

(* Interval::operator<, the lexicographic order of the container. *)
Before(I, J) ==
  \/ I.Low < J.Low
  \/ I.Low = J.Low /\ I.Up < J.Up

(* Mutant: intervals that touch intersect. *)
intersects_Touching(I, J) == ~ (I.Low > J.Up + 1 \/ I.Up + 1 < J.Low)

intersects(I, J) == ~ (I.Low > J.Up \/ I.Up < J.Low)

(* (int)Type | (int)Other.Type == RMA_WRITE: between them the two accesses *)
(* have a write and a one-sided communication.                             *)
TypesConflict(t, u) ==
  /\ t \in {LOCAL_WRITE, RMA_WRITE} \/ u \in {LOCAL_WRITE, RMA_WRITE}
  /\ t \in {RMA_READ, RMA_WRITE} \/ u \in {RMA_READ, RMA_WRITE}

conflictsWith(A, B) ==
  intersects(A.Itv, B.Itv) /\ TypesConflict(A.Type, B.Type)

-----------------------------------------------------------------------------
(* getIntersectingIntervals walks the sorted container from the new access *)
(* in both directions and stops in each at the first neighbour that does   *)
(* not intersect it.  An access is therefore returned when every neighbour *)
(* from the starting point up to it intersects the new one.                *)
Above(S, A) == {x \in S : Before(A.Itv, x.Itv)}

Below(S, A) == S \ Above(S, A)

ScanUp(S, A) ==
  {x \in Above(S, A) :
     \A y \in Above(S, A) : ~ Before(x.Itv, y.Itv) => intersects(y.Itv, A.Itv)}

(* Mutant: the downward scan starts below the accesses with equal bounds. *)
ScanDown_SkipEqual(S, A) ==
  {x \in {w \in S : Before(w.Itv, A.Itv)} :
     \A y \in S : Before(y.Itv, A.Itv) /\ ~ Before(y.Itv, x.Itv)
                    => intersects(y.Itv, A.Itv)}

ScanDown(S, A) ==
  {x \in Below(S, A) :
     \A y \in Below(S, A) : ~ Before(y.Itv, x.Itv) => intersects(y.Itv, A.Itv)}

(* Mutant: only the lower neighbours are looked at. *)
getIntersectingIntervals_DownOnly(S, A) == ScanDown(S, A)

getIntersectingIntervals(S, A) == ScanUp(S, A) \cup ScanDown(S, A)

getConflictingIntervals(S, A) ==
  {x \in getIntersectingIntervals(S, A) : conflictsWith(x, A)}
=============================================================================
