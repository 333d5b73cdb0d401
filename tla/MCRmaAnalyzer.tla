---------------------------- MODULE MCRmaAnalyzer ---------------------------
(* Instances of RmaAnalyzer: processes whose windows have different     *)
(* base addresses and displacement units, and accesses of one byte.         *)
EXTENDS RmaAnalyzer

CONSTANTS Kinds,      \* one-sided calls the program makes
          Disps,      \* target displacements
          Loads,      \* addresses it loads
          Stores      \* and addresses it stores to

Byte(a) == FromMemory(a, 1)

(* Window addresses 10 and 11 on process 0, 20 and 22 on process 1. *)
MCBase == [p \in Procs |-> 10 * (p + 1)]
MCDispUnit == [p \in Procs |-> p + 1]

MCLocalOps ==
  {[Itv |-> Byte(a), Type |-> LOCAL_READ] : a \in Loads}
    \cup {[Itv |-> Byte(a), Type |-> LOCAL_WRITE] : a \in Stores}

(* The origin buffer of every call is outside the windows. *)
MCRmaOps ==
  {[kind |-> k, file |-> f, origin |-> Byte(1), target |-> Byte(d)] :
     k \in Kinds, f \in Files, d \in Disps}

ASSUME OneByteAccesses == UniformAccesses(0)

(* A barrier before and inside an epoch, and a second epoch; fences. *)
LockProgram ==
  <<"barrier", "lock_all", "barrier", "unlock_all", "lock_all", "unlock_all", "free">>

FenceProgram == <<"fence", "fence", "free">>

EpochPrograms == {LockProgram, FenceProgram}

ASSUME EpochProgramsWellFormed == \A P \in EpochPrograms : WellFormed(P)

OneEpochPrograms == {<<"lock_all", "unlock_all", "free">>}

TwoEpochPrograms ==
  {<<"lock_all", "unlock_all", "lock_all", "unlock_all", "free">>,
   <<"fence", "fence", "fence", "free">>}

BarrierPrograms ==
  {<<"lock_all", "barrier", "unlock_all", "barrier", "free">>}
=============================================================================
