---------------------------- MODULE DynamicCheck ----------------------------
(***************************************************************************)
(* Runtime checking of MPI collectives: before each collective, and before *)
(* MPI_Finalize, MPI_Abort and abort, the instrumented program calls a     *)
(* check (src/aSSA/Instrumentation.cpp inserts it,                         *)
(* src/instrumentation/mpi/MPI_DynamicCheck.c implements it).  The check   *)
(* reduces the colours of the calls the processes are about to make to     *)
(* rank 0 of MPI_COMM_WORLD, which broadcasts the result and aborts the    *)
(* program if two colours differed.                                        *)
(*                                                                         *)
(* MPI is external.  The k-th collective call of a process on a            *)
(* communicator matches the k-th of every other member; a reduction only   *)
(* holds back its root, a broadcast the other processes, and the           *)
(* collectives of the program hold back everyone.  A call waits for ever   *)
(* when one it matches is a different operation.                           *)
(***************************************************************************)
EXTENDS Integers, FiniteSets, Sequences

CONSTANTS N,         \* processes of MPI_COMM_WORLD
          Kinds,     \* Collective::Kind of the program's collectives
          Comms,     \* sub-communicators: sets of ranks
          Programs   \* one sequence of calls for each process

Procs == 0 .. N - 1

World == Procs

(* Collective::Kind::C_Last, and the value that stands for a mismatch, ~0. *)
C_Last == 1000
Mismatch == -1

Color == Kinds \cup {C_Last}

Calls ==
  [op : {"init", "finalize", "abort"}, kind : {C_Last}, comm : {World}]
    \cup [op : {"collective"}, kind : Kinds, comm : Comms \cup {World}]

ASSUME CheckAssumption ==
  /\ N \in Nat \ {0}
  /\ Kinds \subseteq 0 .. C_Last - 1
  /\ Comms \subseteq SUBSET Procs
  /\ Programs \subseteq [Procs -> Seq(Calls)]

VARIABLES
  prog,          \* what each process calls
  pos,           \* how many of its calls it completed
  pc,            \* where in the next one it is
  initialized, finalized,
  posted,        \* MPI collective operations each process entered, per communicator
  folded, Res,   \* contributions combined so far, and the result of the reduction
  status         \* "running", "alarm" (abort by the check) or "aborted" (by the program)

vars == <<prog, pos, pc, initialized, finalized, posted, folded, Res, status>>

Operation == [name : {"check_reduce", "check_bcast", "collective"}, kind : Color \cup {Mismatch, 0}]

TypeOK ==
  /\ prog \in Programs
  /\ pos \in [Procs -> Nat]
  /\ pc \in [Procs -> {"user", "reduce", "bcast", "decide", "call", "collective"}]
  /\ initialized \in [Procs -> BOOLEAN]
  /\ finalized \in [Procs -> BOOLEAN]
  /\ posted \in [Procs -> [Comms \cup {World} -> Seq(Operation)]]
  /\ folded \in [Procs -> SUBSET Procs]
  /\ Res \in [Procs -> Color \cup {Mismatch, 0}]
  /\ status \in {"running", "alarm", "aborted"}

Init ==
  /\ prog \in Programs
  /\ pos = [p \in Procs |-> 0]
  /\ pc = [p \in Procs |-> "user"]
  /\ initialized = [p \in Procs |-> FALSE]
  /\ finalized = [p \in Procs |-> FALSE]
  /\ posted = [p \in Procs |-> [c \in Comms \cup {World} |-> <<>>]]
  /\ folded = [p \in Procs |-> {}]
  /\ Res = [p \in Procs |-> 0]
  /\ status = "running"

-----------------------------------------------------------------------------
AtEnd(p) == pos[p] = Len(prog[p])

Cur(p) == prog[p][pos[p] + 1]

(* Mutant: nothing in front of MPI_Finalize. *)
Instrumented_NoFinalize(c) == c.op \in {"abort", "collective"}

(* CollectiveInstrumentation::run: which calls get a check in front, and   *)
(* with which colour.  MPI_Finalize is handled by name, before the         *)
(* registry of collectives is looked at.                                   *)
Instrumented(c) == c.op \in {"finalize", "abort", "collective"}

OpColor(c) == IF c.op = "collective" THEN c.kind ELSE C_Last

(* check_collective_return does nothing outside MPI_Init .. MPI_Finalize,  *)
(* check_collective_MPI does not look at MPI_Finalized.                    *)
Checks(p) ==
  /\ initialized[p]
  /\ Cur(p).op = "collective" \/ ~ finalized[p]

(* Mutants: no comparison, the inverted comparison. *)
areequals_LastWins(In, Inout) == In
areequals_Inverted(In, Inout) == IF Inout = In THEN Mismatch ELSE Inout

(* The reduction operator on two colours. *)
areequals(In, Inout) == IF Inout # In THEN Mismatch ELSE Inout

(* p enters an MPI collective operation on communicator c. *)
Post(p, c, o) == posted' = [posted EXCEPT ![p][c] = Append(@, o)]

(* The operation of q that matches the last one p entered on c, if any. *)
Arrived(q, p, c) == Len(posted[q][c]) >= Len(posted[p][c])

Matching(q, p, c) == posted[q][c][Len(posted[p][c])]

(* The check begins: MPI_Reduce of the colour. *)
EnterCheck(p) ==
  /\ status = "running"
  /\ pc[p] = "user" /\ ~ AtEnd(p)
  /\ Instrumented(Cur(p)) /\ Checks(p)
  /\ Post(p, World, [name |-> "check_reduce", kind |-> OpColor(Cur(p))])
  /\ Res' = [Res EXCEPT ![p] = IF p = 0 THEN OpColor(Cur(p)) ELSE 0]
  /\ folded' = [folded EXCEPT ![p] = {p}]
  /\ pc' = [pc EXCEPT ![p] = "reduce"]
  /\ UNCHANGED <<prog, pos, initialized, finalized, status>>

SkipCheck(p) ==
  /\ status = "running"
  /\ pc[p] = "user" /\ ~ AtEnd(p)
  /\ ~ (Instrumented(Cur(p)) /\ Checks(p))
  /\ pc' = [pc EXCEPT ![p] = "call"]
  /\ UNCHANGED <<prog, pos, initialized, finalized, posted, folded, Res, status>>

(* MPI combines the contributions at the root in any order. *)
Combine(q) ==
  /\ status = "running"
  /\ pc[0] = "reduce"
  /\ q \notin folded[0]
  /\ Arrived(q, 0, World)
  /\ Matching(q, 0, World).name = "check_reduce"
  /\ Res' = [Res EXCEPT ![0] = areequals(Matching(q, 0, World).kind, @)]
  /\ folded' = [folded EXCEPT ![0] = @ \cup {q}]
  /\ UNCHANGED <<prog, pos, pc, initialized, finalized, posted, status>>

(* MPI_Reduce returns, and MPI_Bcast of the result is entered. *)
EnterBcast(p) ==
  /\ status = "running"
  /\ pc[p] = "reduce"
  /\ p = 0 => folded[0] = Procs
  /\ Post(p, World, [name |-> "check_bcast", kind |-> Res[p]])
  /\ pc' = [pc EXCEPT ![p] = "bcast"]
  /\ UNCHANGED <<prog, pos, initialized, finalized, folded, Res, status>>

(* MPI_Bcast returns with what rank 0 broadcast. *)
ReturnFromBcast(p) ==
  /\ status = "running"
  /\ pc[p] = "bcast"
  /\ Arrived(0, p, World)
  /\ Matching(0, p, World).name = "check_bcast"
  /\ Res' = [Res EXCEPT ![p] = Matching(0, p, World).kind]
  /\ pc' = [pc EXCEPT ![p] = "decide"]
  /\ UNCHANGED <<prog, pos, initialized, finalized, posted, folded, status>>

(* Every process learns of a mismatch, but only rank 0 calls MPI_Abort;    *)
(* the others go on to the call they checked.                              *)
Aborts(p) == Res[p] = Mismatch /\ p = 0

Decide(p) ==
  /\ status = "running"
  /\ pc[p] = "decide"
  /\ IF Aborts(p)
     THEN status' = "alarm" /\ UNCHANGED pc
     ELSE pc' = [pc EXCEPT ![p] = "call"] /\ UNCHANGED status
  /\ UNCHANGED <<prog, pos, initialized, finalized, posted, folded, Res>>

-----------------------------------------------------------------------------
(* The calls of the program. *)

Return(p) ==
  /\ pc' = [pc EXCEPT ![p] = "user"]
  /\ pos' = [pos EXCEPT ![p] = @ + 1]

MpiInit(p) ==
  /\ status = "running"
  /\ pc[p] = "call" /\ Cur(p).op = "init"
  /\ initialized' = [initialized EXCEPT ![p] = TRUE]
  /\ Return(p)
  /\ UNCHANGED <<prog, finalized, posted, folded, Res, status>>

EnterCollective(p) ==
  /\ status = "running"
  /\ pc[p] = "call" /\ Cur(p).op \in {"collective", "finalize"}
  /\ Post(p, Cur(p).comm, [name |-> "collective", kind |-> OpColor(Cur(p))])
  /\ pc' = [pc EXCEPT ![p] = "collective"]
  /\ UNCHANGED <<prog, pos, initialized, finalized, folded, Res, status>>

LeaveCollective(p) ==
  LET c == Cur(p).comm
  IN  /\ status = "running"
      /\ pc[p] = "collective"
      /\ \A q \in c : Arrived(q, p, c) /\ Matching(q, p, c) = Matching(p, p, c)
      /\ finalized' = [finalized EXCEPT ![p] = @ \/ Cur(p).op = "finalize"]
      /\ Return(p)
      /\ UNCHANGED <<prog, initialized, posted, folded, Res, status>>

MpiAbort(p) ==
  /\ status = "running"
  /\ pc[p] = "call" /\ Cur(p).op = "abort"
  /\ status' = "aborted"
  /\ UNCHANGED <<prog, pos, pc, initialized, finalized, posted, folded, Res>>

Finished ==
  /\ status # "running" \/ \A p \in Procs : AtEnd(p)
  /\ UNCHANGED vars

Step(p) ==
  \/ EnterCheck(p) \/ SkipCheck(p) \/ EnterBcast(p) \/ ReturnFromBcast(p)
  \/ Decide(p) \/ MpiInit(p) \/ EnterCollective(p) \/ LeaveCollective(p)
  \/ MpiAbort(p)

Next == (\E p \in Procs : Step(p) \/ Combine(p)) \/ Finished

Spec == Init /\ [][Next]_vars

(* Every process goes on, and MPI makes progress. *)
FairSpec == Spec /\ \A p \in Procs : WF_vars(Step(p)) /\ WF_vars(Combine(p))

-----------------------------------------------------------------------------
(* What MPI asks of a program: collectives and MPI_Finalize come after     *)
(* MPI_Init, and MPI_Finalize once.                                        *)
Regular(s) ==
  \A k \in 1 .. Len(s) :
    /\ s[k].op \in {"collective", "finalize"} =>
         \E j \in 1 .. k - 1 : s[j].op = "init"
    /\ s[k].op = "finalize" => \A j \in 1 .. k - 1 : s[j].op # "finalize"

(* Programs whose collectives are all on MPI_COMM_WORLD, where the check   *)
(* takes place too.                                                        *)
RegularOnWorld ==
  \A P \in Programs : \A p \in Procs :
    Regular(P[p]) /\ \A k \in 1 .. Len(P[p]) : P[p][k].comm = World

(* Two processes have entered operations on one communicator that match    *)
(* and are not the same.                                                   *)
Differ(a, b) == a.name # b.name \/ (a.name = "collective" /\ a.kind # b.kind)

Mismatched ==
  \E p, q \in Procs : \E c \in Comms \cup {World} :
    \E k \in DOMAIN posted[p][c] \cap DOMAIN posted[q][c] :
      Differ(posted[p][c][k], posted[q][c][k])

(* The check has told rank 0, which is about to abort or has done so. *)
Detected == Res[0] = Mismatch

(* A process only enters a collective that another one does not match when *)
(* check_collective_MPI or check_collective_return has found the mismatch: *)
(* the checks are in front of the deadlock, never behind it.               *)
MismatchIsDetected == Mismatched => Detected

(* The members of every communicator make the same calls on it: CallsOn is *)
(* p's calls on communicator c with their numbers.                         *)
On(p, c, k) == prog[p][k].op # "init" /\ prog[p][k].comm = c

CallsOn(p, c) ==
  {<<Cardinality({j \in 1 .. k : On(p, c, j)}), prog[p][k]>> :
     k \in {i \in 1 .. Len(prog[p]) : On(p, c, i)}}

ValidProgram ==
  \A c \in Comms \cup {World} : \A p, q \in c : CallsOn(p, c) = CallsOn(q, c)

(* The check never aborts a program whose processes make matching calls. *)
NoFalseAlarm == status = "alarm" => ~ ValidProgram

(* Every run comes to an end: with the program finished or aborted by      *)
(* itself when its processes make matching calls, otherwise with an alarm  *)
(* (or an abort of the program that came first).  No run deadlocks.        *)
Verdict ==
  <>(\/ status = "aborted"
     \/ ValidProgram /\ \A p \in Procs : AtEnd(p)
     \/ ~ ValidProgram /\ status = "alarm")
=============================================================================
