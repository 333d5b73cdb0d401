--------------------------- MODULE MCDynamicCheck ---------------------------
(* Instances of DynamicCheck: every combination of a few call sequences.    *)
EXTENDS DynamicCheck

Init_     == [op |-> "init", kind |-> C_Last, comm |-> World]
Finalize  == [op |-> "finalize", kind |-> C_Last, comm |-> World]
Abort     == [op |-> "abort", kind |-> C_Last, comm |-> World]
Coll(c, k) == [op |-> "collective", kind |-> k, comm |-> c]

(* Same and different collectives, one more or one fewer of them, an early *)
(* finalize, and abort before, after and instead of a collective.          *)
Sequences ==
  {<<Init_, Finalize>>,
   <<Init_, Coll(World, 1), Finalize>>,
   <<Init_, Coll(World, 2), Finalize>>,
   <<Init_, Coll(World, 1), Coll(World, 2), Finalize, Abort>>,
   <<Init_, Coll(World, 1), Abort>>,
   <<Abort>>}

WorldPrograms == [Procs -> Sequences]

ASSUME SequencesRegular == \A s \in Sequences : Regular(s)

(* tests/MPI/basic/src/mismatch_barrier_com.c: a barrier on the world on   *)
(* odd ranks, one on a communicator of the even ranks on the others.       *)
Odd  == {p \in Procs : p % 2 = 1}
Even == Procs \ Odd
MCComms == {Even, Odd} \ {{}}

CommPrograms ==
  {[p \in Procs |-> <<Init_, Coll(IF p \in Odd THEN World ELSE Even, 1), Finalize>>]}

NoComms == {}
=============================================================================
