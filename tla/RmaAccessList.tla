---------------------------- MODULE RmaAccessList ---------------------------
(***************************************************************************)
(* The access list of one window on one process: rma_analyzer_state's      *)
(* Intervals under its ListMutex.  The application thread (load, store,    *)
(* put, get, accumulate) and the communication checking thread (intervals  *)
(* received from other processes) both save into it, each save being one   *)
(* critical section: search for conflicts, report them and abort, or       *)
(* insert.  A synchronisation empties the list.                            *)
(***************************************************************************)
EXTENDS RmaIntervals, FiniteSets

CONSTANTS Accesses,   \* the accesses the two threads may save
          MaxSaved    \* bound: accesses kept at once

(* An Access with the MemoryAccess it was made from.  Memory does not lie  *)
(* across the end of the address space.                                    *)
Access ==
  {A \in [Addr : Address, Size : Nat, Itv : Interval, Type : AccessType] :
     /\ A.Addr + A.Size <= Word
     /\ A.Itv = FromMemory(A.Addr, A.Size)}

ASSUME AccessesAssumption == Accesses \subseteq Access

VARIABLES Intervals,  \* the saved accesses of the current epoch
          aborted     \* MPI_Abort has been called

vars == <<Intervals, aborted>>

TypeOK ==
  /\ Intervals \subseteq Accesses
  /\ aborted \in BOOLEAN

Init ==
  /\ Intervals = {}
  /\ aborted = FALSE

(* Mutant: the upper bound is taken to be exclusive when inserting. *)
SaveInterval_OffByOne(Acc) ==
  /\ ~ aborted
  /\ IF getConflictingIntervals(Intervals, Acc) # {}
     THEN aborted' = TRUE /\ UNCHANGED Intervals
     ELSE /\ Intervals' = Intervals \cup {[Acc EXCEPT !.Itv.Up = @ + 1]}
          /\ UNCHANGED aborted

(* rma_analyzer_save_interval: any conflict found ends the program, and    *)
(* the access is not inserted then.                                        *)
SaveInterval(Acc) ==
  /\ ~ aborted
  /\ IF getConflictingIntervals(Intervals, Acc) # {}
     THEN /\ aborted' = TRUE
          /\ UNCHANGED Intervals
     ELSE /\ Intervals' = Intervals \cup {Acc}
          /\ UNCHANGED aborted

(* state->Intervals.clear() at the end of an epoch. *)
ClearIntervals ==
  /\ ~ aborted
  /\ Intervals' = {}
  /\ UNCHANGED aborted

Next ==
  \/ \E Acc \in Accesses : Cardinality(Intervals) < MaxSaved /\ SaveInterval(Acc)
  \/ ClearIntervals

Spec == Init /\ [][Next]_vars

-----------------------------------------------------------------------------
NonEmpty == \A A \in Accesses : A.Size > 0

(* Two accesses of one epoch that conflict are never both in the list: the *)
(* second rma_analyzer_save_interval would have found the first one and    *)
(* aborted.                                                                *)
NoMissedConflict ==
  \A x, y \in Intervals : x # y => ~ conflictsWith(x, y)

(* The bytes of memory an access touches, whatever its interval says. *)
Bytes(A) == A.Addr .. A.Addr + A.Size - 1

(* The false alarms of Interval::intersects.  MPI allows a count of 0, and *)
(* the interval of no bytes at Addr is [Addr, Addr - 1]: it meets an       *)
(* access that touches the bytes on both sides of Addr, and at address 0,  *)
(* as in MPI_Put(NULL, 0, ...), it is [0, 2^64 - 1] and meets everything.  *)
EmptyMeets(A, B) ==
  /\ A.Size = 0
  /\ A.Addr = 0 \/ {A.Addr - 1, A.Addr} \subseteq Bytes(B)

(* rma_analyzer_save_interval ends the program only for a pair of accesses *)
(* one of which writes and one of which is made by a one-sided             *)
(* communication; and the two touch a common byte, or one of them touches  *)
(* no byte at all and its interval meets the other one.                    *)
AbortsOnSharedOrEmpty ==
  [][aborted' => \A Acc \in Accesses : SaveInterval(Acc) =>
       \E x \in Intervals :
         /\ {x.Type, Acc.Type} \cap {RMA_READ, RMA_WRITE} # {}
         /\ {x.Type, Acc.Type} \cap {LOCAL_WRITE, RMA_WRITE} # {}
         /\ \/ Bytes(x) \cap Bytes(Acc) # {}
            \/ EmptyMeets(x, Acc) \/ EmptyMeets(Acc, x)]_vars

(* The accesses saved so far have one size, as when a program touches the  *)
(* elements of arrays of one type one at a time.                           *)
SameSize ==
  \A x, y \in Intervals : x.Itv.Up - x.Itv.Low = y.Itv.Up - y.Itv.Low

(* As long as the accesses of an epoch have one size, the early exit of    *)
(* getIntersectingIntervals costs nothing: no conflict is missed.          *)
UniformMissNothing == SameSize => NoMissedConflict

(* What the early exit of getIntersectingIntervals costs: the scan misses  *)
(* a conflict only when a third saved access lies between the two in the   *)
(* container's order and does not reach the higher one.                    *)
MissedOnlyBehindGap ==
  \A x, y \in Intervals :
    /\ x # y
    /\ conflictsWith(x, y)
    /\ ~ Before(y.Itv, x.Itv)
    => \E z \in Intervals : /\ ~ Before(z.Itv, x.Itv)
                            /\ ~ Before(y.Itv, z.Itv)
                            /\ ~ intersects(z.Itv, y.Itv)
=============================================================================
