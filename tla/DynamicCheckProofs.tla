-------------------------- MODULE DynamicCheckProofs ------------------------
(***************************************************************************)
(* Proofs about the runtime check, for any number of processes and any     *)
(* programs with collectives on MPI_COMM_WORLD: the check is in front of   *)
(* every mismatch, and never stops a program whose processes make matching *)
(* calls.                                                                  *)
(*                                                                         *)
(* Each checked call takes three MPI operations: the reduction, the        *)
(* broadcast and the collective itself, so the k-th operations of any two  *)
(* processes are of the same sort, and those of the n-th call of a process *)
(* meet those of the n-th call of the others.  No process gets past the    *)
(* broadcast of a call before rank 0 has combined the colours of all.      *)
(***************************************************************************)
EXTENDS DynamicCheck, CommonLemmas

(* The operations p entered on MPI_COMM_WORLD. *)
Log(p) == posted[p][World]

(* How many of the first k calls of s are to be checked. *)
Number(s, k) == Cardinality({j \in 1 .. k : s[j].op # "init"})

(* How many checked calls p has completed. *)
Done(p) == Number(prog[p], pos[p])

-----------------------------------------------------------------------------
(* The inductive invariant. *)

(* What the types rest on: p is in a call of its program, and MPI looks at *)
(* operations that were entered.                                           *)
Position(p) ==
  /\ pos[p] \in 0 .. Len(prog[p])
  /\ pc[p] # "user" => pos[p] < Len(prog[p])
  /\ pc[p] \in {"reduce", "bcast"} => Len(Log(p)) > 0

TypeInv == TypeOK /\ \A p \in Procs : Position(p)

(* Where p is agrees with its program and with what it entered. *)
Progress(p) ==
  /\ pc[p] \in {"reduce", "bcast", "decide"} => Cur(p).op # "init"
  /\ pc[p] = "collective" => Cur(p).op \in {"collective", "finalize"}
  /\ initialized[p] <=> \E j \in 1 .. pos[p] : prog[p][j].op = "init"
  /\ finalized[p] => \E j \in 1 .. pos[p] : prog[p][j].op = "finalize"

Stage(p) ==
  LET n == 3 * Done(p)
  IN  /\ pc[p] = "user" => Len(Log(p)) = n
      /\ pc[p] = "reduce" => Len(Log(p)) = n + 1
      /\ pc[p] \in {"bcast", "decide"} => Len(Log(p)) = n + 2
      /\ pc[p] = "call" => /\ Len(Log(p)) \in {n, n + 2}
                           /\ Cur(p).op \in {"collective", "finalize"} => Len(Log(p)) = n + 2
                           /\ Cur(p).op = "init" => Len(Log(p)) = n
      /\ pc[p] = "collective" => Len(Log(p)) = n + 3
      /\ Len(Log(p)) \in {n + 1, n + 2} => Log(p)[n + 1].kind = OpColor(Cur(p))

(* The operations of a process come in threes: one call, one colour. *)
Triple(p, n) ==
  /\ 3 * n + 1 <= Len(Log(p)) =>
       /\ Log(p)[3 * n + 1].name = "check_reduce"
       /\ \E k \in 1 .. Len(prog[p]) :
            /\ prog[p][k].op # "init" /\ Number(prog[p], k) = n + 1
            /\ Log(p)[3 * n + 1].kind = OpColor(prog[p][k])
  /\ 3 * n + 2 <= Len(Log(p)) => Log(p)[3 * n + 2].name = "check_bcast"
  /\ 3 * n + 3 <= Len(Log(p)) =>
       /\ Log(p)[3 * n + 3].name = "collective"
       /\ Log(p)[3 * n + 3].kind = Log(p)[3 * n + 1].kind

Shape(p) == \A n \in Nat : Triple(p, n)

(* p gets past a broadcast only after rank 0 entered it. *)
Behind(p) ==
  /\ \A n \in Nat : 3 * n + 3 <= Len(Log(p)) => 3 * n + 2 <= Len(Log(0))
  /\ pc[p] \in {"decide", "call"} /\ Len(Log(p)) = 3 * Done(p) + 2
       => Len(Log(p)) <= Len(Log(0))

Others(p) == \A c \in Comms : c # World => posted[p][c] = <<>>

ProcInv == \A p \in Procs : Progress(p) /\ Stage(p) /\ Shape(p) /\ Behind(p) /\ Others(p)

(* q checks its n-th call with the colour of rank 0. *)
Agrees(q, n) ==
  /\ 3 * n + 1 <= Len(Log(q))
  /\ Log(q)[3 * n + 1].kind = Log(0)[3 * n + 1].kind

Disagrees(q, n) ==
  /\ 3 * n + 1 <= Len(Log(q))
  /\ Log(q)[3 * n + 1].kind # Log(0)[3 * n + 1].kind

(* Rank 0 broadcasts a colour only when it is that of every process, and   *)
(* does not get past a mismatch.                                           *)
RootInv ==
  /\ \A n \in Nat : 3 * n + 2 <= Len(Log(0)) /\ Res[0] # Mismatch
       => \A q \in Procs : Agrees(q, n)
  /\ pc[0] = "reduce" /\ Res[0] # Mismatch =>
       /\ Res[0] = Log(0)[3 * Done(0) + 1].kind
       /\ \A q \in folded[0] : Agrees(q, Done(0))
  /\ pc[0] \in {"bcast", "decide"} => Log(0)[3 * Done(0) + 2].kind = Res[0]
  /\ Res[0] = Mismatch => /\ pc[0] \in {"reduce", "bcast", "decide"}
                          /\ \E q \in Procs : Disagrees(q, Done(0))
  /\ status = "alarm" => Res[0] = Mismatch

CheckInv == ProcInv /\ RootInv

-----------------------------------------------------------------------------
(* Types. *)

(* The call p is about to make is one of its program, with a colour. *)
LEMMA CurrentCall ==
  ASSUME TypeInv, NEW p \in Procs, pos[p] < Len(prog[p])
  PROVE  /\ prog[p] \in Seq(Calls) /\ Len(prog[p]) \in Nat /\ pos[p] \in Nat
         /\ pos[p] + 1 \in 1 .. Len(prog[p])
         /\ Cur(p) \in Calls /\ Cur(p).comm \in Comms \cup {World}
         /\ OpColor(Cur(p)) \in Color /\ OpColor(Cur(p)) # Mismatch
<1>1. prog[p] \in Seq(Calls) /\ pos[p] \in Nat /\ Len(prog[p]) \in Nat
  BY CheckAssumption DEF TypeInv, TypeOK
<1>2. pos[p] + 1 \in 1 .. Len(prog[p])
  BY <1>1
<1>3. Cur(p) \in Calls
  BY <1>1, <1>2 DEF Cur
<1>4. /\ Cur(p).comm \in Comms \cup {World}
      /\ Cur(p).op = "collective" => Cur(p).kind \in Kinds
  BY <1>3 DEF Calls
<1>5. OpColor(Cur(p)) \in Color
  BY <1>4 DEF OpColor, Color
<1>6. \A k \in Color : k # Mismatch
  BY CheckAssumption DEF Color, Mismatch, C_Last
<1> QED
  BY <1>1, <1>2, <1>3, <1>4, <1>5, <1>6

(* Entering an operation adds it to what p entered on c. *)
LEMMA PostLog ==
  ASSUME TypeOK, NEW p \in Procs, NEW c \in Comms \cup {World}, NEW o \in Operation,
         Post(p, c, o)
  PROVE  /\ posted' \in [Procs -> [Comms \cup {World} -> Seq(Operation)]]
         /\ posted'[p][c] = Append(posted[p][c], o)
         /\ Len(posted[p][c]) \in Nat
         /\ Len(posted'[p][c]) = Len(posted[p][c]) + 1
         /\ posted'[p][c][Len(posted[p][c]) + 1] = o
         /\ \A k \in 1 .. Len(posted[p][c]) : posted'[p][c][k] = posted[p][c][k]
         /\ \A d \in Comms \cup {World} : d # c => posted'[p][d] = posted[p][d]
         /\ \A q \in Procs : q # p => posted'[q] = posted[q]
<1> DEFINE s == posted[p][c]
<1>1. /\ posted \in [Procs -> [Comms \cup {World} -> Seq(Operation)]]
      /\ posted[p] \in [Comms \cup {World} -> Seq(Operation)]
      /\ s \in Seq(Operation)
  BY DEF TypeOK
<1>2. posted' = [posted EXCEPT ![p] = [posted[p] EXCEPT ![c] = Append(s, o)]]
  BY DEF Post
<1>3. /\ posted'[p] = [posted[p] EXCEPT ![c] = Append(s, o)]
      /\ \A q \in Procs : q # p => posted'[q] = posted[q]
  BY <1>1, <1>2
<1>4. /\ posted'[p][c] = Append(s, o)
      /\ \A d \in Comms \cup {World} : d # c => posted'[p][d] = posted[p][d]
  BY <1>1, <1>3
<1>5. Append(s, o) \in Seq(Operation)
  BY <1>1
<1>6. [posted[p] EXCEPT ![c] = Append(s, o)] \in [Comms \cup {World} -> Seq(Operation)]
  BY <1>1, <1>5
<1>7. posted' \in [Procs -> [Comms \cup {World} -> Seq(Operation)]]
  BY <1>1, <1>2, <1>6
<1>8. /\ Len(s) \in Nat /\ Len(Append(s, o)) = Len(s) + 1
      /\ Append(s, o)[Len(s) + 1] = o
      /\ \A k \in 1 .. Len(s) : Append(s, o)[k] = s[k]
  BY <1>1
<1> QED
  BY <1>3, <1>4, <1>7, <1>8

(* Every step keeps the types. *)
LEMMA TypeStep ==
  ASSUME TypeInv, [Next]_vars
  PROVE  TypeInv'
<1>0. TypeOK /\ \A p \in Procs : Position(p)
  BY DEF TypeInv
<1> USE <1>0
<1>w. World \in Comms \cup {World} /\ 0 \in Procs /\ \A p \in Procs : p \in Nat
  BY CheckAssumption DEF Procs
<1>l. \A p \in Procs : Log(p) \in Seq(Operation) /\ Len(Log(p)) \in Nat
  BY <1>w DEF TypeOK, Log
<1>n. \A p \in Procs : Len(prog[p]) \in Nat
  BY CheckAssumption DEF TypeOK
<1>p. \A p \in Procs : pc[p] = "user" /\ ~ AtEnd(p) => pos[p] < Len(prog[p])
  BY <1>n DEF Position, AtEnd
<1>1. ASSUME NEW p \in Procs, EnterCheck(p)
      PROVE  TypeInv'
  <2> DEFINE o == [name |-> "check_reduce", kind |-> OpColor(Cur(p))]
  <2>1. pos[p] < Len(prog[p]) /\ OpColor(Cur(p)) \in Color
    BY <1>1, <1>p, CurrentCall DEF EnterCheck
  <2>2. o \in Operation
    BY <2>1 DEF Operation
  <2> HIDE DEF o
  <2>3. Post(p, World, o)
    BY <1>1 DEF EnterCheck, o
  <2>4. /\ posted' \in [Procs -> [Comms \cup {World} -> Seq(Operation)]]
        /\ Len(posted'[p][World]) = Len(posted[p][World]) + 1
        /\ Len(posted[p][World]) \in Nat
        /\ \A q \in Procs : q # p => posted'[q] = posted[q]
    BY <1>w, <2>2, <2>3, PostLog
  <2>5. TypeOK'
    BY <1>1, <2>1, <2>4 DEF EnterCheck, TypeOK
  <2>6. ASSUME NEW q \in Procs PROVE Position(q)'
    BY <1>1, <2>1, <2>4 DEF EnterCheck, TypeOK, Position, Log
  <2> QED
    BY <2>5, <2>6 DEF TypeInv
<1>2. ASSUME NEW p \in Procs, SkipCheck(p)
      PROVE  TypeInv'
  <2>1. TypeOK'
    BY <1>2 DEF SkipCheck, TypeOK
  <2>2. pos[p] < Len(prog[p])
    BY <1>2, <1>p DEF SkipCheck
  <2>3. ASSUME NEW q \in Procs PROVE Position(q)'
    BY <1>2, <2>2 DEF SkipCheck, TypeOK, Position, Log
  <2> QED
    BY <2>1, <2>3 DEF TypeInv
<1>3. ASSUME NEW q \in Procs, Combine(q)
      PROVE  TypeInv'
  <2>1. Len(Log(0)) \in 1 .. Len(Log(q))
    BY <1>3, <1>l, <1>w DEF Combine, Arrived, Position, Log
  <2>2. Matching(q, 0, World) \in Operation
    BY <1>l, <2>1 DEF Matching, Log
  <2>3. areequals(Matching(q, 0, World).kind, Res[0]) \in Color \cup {Mismatch, 0}
    BY <1>w DEF areequals, TypeOK
  <2>4. TypeOK'
    BY <1>3, <2>3 DEF Combine, TypeOK
  <2>5. ASSUME NEW r \in Procs PROVE Position(r)'
    BY <1>3 DEF Combine, Position, Log
  <2> QED
    BY <2>4, <2>5 DEF TypeInv
<1>4. ASSUME NEW p \in Procs, EnterBcast(p)
      PROVE  TypeInv'
  <2> DEFINE o == [name |-> "check_bcast", kind |-> Res[p]]
  <2>2. o \in Operation
    BY DEF Operation, TypeOK
  <2> HIDE DEF o
  <2>3. Post(p, World, o)
    BY <1>4 DEF EnterBcast, o
  <2>4. /\ posted' \in [Procs -> [Comms \cup {World} -> Seq(Operation)]]
        /\ Len(posted'[p][World]) = Len(posted[p][World]) + 1
        /\ Len(posted[p][World]) \in Nat
        /\ \A q \in Procs : q # p => posted'[q] = posted[q]
    BY <1>w, <2>2, <2>3, PostLog
  <2>5. TypeOK'
    BY <1>4, <2>4 DEF EnterBcast, TypeOK
  <2>6. ASSUME NEW q \in Procs PROVE Position(q)'
    BY <1>4, <2>4 DEF EnterBcast, TypeOK, Position, Log
  <2> QED
    BY <2>5, <2>6 DEF TypeInv
<1>5. ASSUME NEW p \in Procs, ReturnFromBcast(p)
      PROVE  TypeInv'
  <2>1. Len(Log(p)) \in 1 .. Len(Log(0))
    BY <1>5, <1>l, <1>w DEF ReturnFromBcast, Arrived, Position, Log
  <2>2. Matching(0, p, World) \in Operation
    BY <1>l, <1>w, <2>1 DEF Matching, Log
  <2>3. Matching(0, p, World).kind \in Color \cup {Mismatch, 0}
    BY <2>2 DEF Operation
  <2>4. TypeOK'
    BY <1>5, <2>3 DEF ReturnFromBcast, TypeOK
  <2>5. ASSUME NEW r \in Procs PROVE Position(r)'
    BY <1>5 DEF ReturnFromBcast, Position, Log, TypeOK
  <2> QED
    BY <2>4, <2>5 DEF TypeInv
<1>6. ASSUME NEW p \in Procs, Decide(p)
      PROVE  TypeInv'
  <2>1. TypeOK'
    BY <1>6 DEF Decide, TypeOK
  <2>2. ASSUME NEW q \in Procs PROVE Position(q)'
    BY <1>6 DEF Decide, TypeOK, Position, Log
  <2> QED
    BY <2>1, <2>2 DEF TypeInv
<1>7. ASSUME NEW p \in Procs, MpiInit(p)
      PROVE  TypeInv'
  <2>0. initialized' \in [Procs -> BOOLEAN]
    <3>1. initialized' = [initialized EXCEPT ![p] = TRUE] /\ initialized \in [Procs -> BOOLEAN]
      BY <1>7 DEF MpiInit, TypeOK
    <3> QED
      BY <3>1
  <2>1. TypeOK'
    <3>1. pc' \in [Procs -> {"user", "reduce", "bcast", "decide", "call", "collective"}]
      BY <1>7 DEF MpiInit, Return, TypeOK
    <3>2. pos' \in [Procs -> Nat]
      BY <1>7 DEF MpiInit, Return, TypeOK
    <3>3. UNCHANGED <<prog, finalized, posted, folded, Res, status>>
      BY <1>7 DEF MpiInit
    <3> QED
      BY <2>0, <3>1, <3>2, <3>3 DEF TypeOK
  <2>2. ASSUME NEW q \in Procs PROVE Position(q)'
    BY <1>7, <1>n DEF MpiInit, Return, TypeOK, Position, Log
  <2> QED
    BY <2>1, <2>2 DEF TypeInv
<1>8. ASSUME NEW p \in Procs, EnterCollective(p)
      PROVE  TypeInv'
  <2> DEFINE o == [name |-> "collective", kind |-> OpColor(Cur(p))]
             c == Cur(p).comm
  <2>1. /\ pos[p] < Len(prog[p]) /\ OpColor(Cur(p)) \in Color
        /\ c \in Comms \cup {World}
    BY <1>8, CurrentCall DEF EnterCollective, Position
  <2>2. o \in Operation
    BY <2>1 DEF Operation
  <2> HIDE DEF o, c
  <2>3. Post(p, c, o)
    BY <1>8 DEF EnterCollective, o, c
  <2>4. /\ posted' \in [Procs -> [Comms \cup {World} -> Seq(Operation)]]
        /\ Len(posted'[p][c]) = Len(posted[p][c]) + 1
        /\ Len(posted[p][c]) \in Nat
        /\ \A d \in Comms \cup {World} : d # c => posted'[p][d] = posted[p][d]
        /\ \A q \in Procs : q # p => posted'[q] = posted[q]
    BY <2>1, <2>2, <2>3, PostLog
  <2>5. TypeOK'
    BY <1>8, <2>4 DEF EnterCollective, TypeOK
  <2>6. ASSUME NEW q \in Procs PROVE Position(q)'
    BY <1>8, <2>1, <2>4 DEF EnterCollective, TypeOK, Position, Log
  <2> QED
    BY <2>5, <2>6 DEF TypeInv
<1>9. ASSUME NEW p \in Procs, LeaveCollective(p)
      PROVE  TypeInv'
  <2>0. finalized' \in [Procs -> BOOLEAN]
    <3> DEFINE b == finalized[p] \/ Cur(p).op = "finalize"
    <3>1. finalized' = [finalized EXCEPT ![p] = b] /\ finalized \in [Procs -> BOOLEAN]
      BY <1>9 DEF LeaveCollective, TypeOK
    <3>2. b \in BOOLEAN
      OBVIOUS
    <3> HIDE DEF b
    <3> QED
      BY <3>1, <3>2
  <2>1. TypeOK'
    <3>1. pc' \in [Procs -> {"user", "reduce", "bcast", "decide", "call", "collective"}]
      BY <1>9 DEF LeaveCollective, Return, TypeOK
    <3>2. pos' \in [Procs -> Nat]
      BY <1>9 DEF LeaveCollective, Return, TypeOK
    <3>3. UNCHANGED <<prog, initialized, posted, folded, Res, status>>
      BY <1>9 DEF LeaveCollective
    <3> QED
      BY <2>0, <3>1, <3>2, <3>3 DEF TypeOK
  <2>2. ASSUME NEW q \in Procs PROVE Position(q)'
    BY <1>9, <1>n DEF LeaveCollective, Return, TypeOK, Position, Log
  <2> QED
    BY <2>1, <2>2 DEF TypeInv
<1>10. ASSUME NEW p \in Procs, MpiAbort(p)
      PROVE  TypeInv'
  BY <1>10 DEF MpiAbort, TypeInv, TypeOK, Position, Log
<1>11. CASE UNCHANGED vars
  BY <1>11 DEF vars, TypeInv, TypeOK, Position, Log
<1> QED
  BY <1>1, <1>2, <1>3, <1>4, <1>5, <1>6, <1>7, <1>8, <1>9, <1>10, <1>11
  DEF Next, Step, Finished

(* The types hold before MPI_Init. *)
LEMMA InitType ==
  ASSUME Init
  PROVE  TypeInv
<1>1. /\ posted = [p \in Procs |-> [c \in Comms \cup {World} |-> <<>>]]
      /\ <<>> \in Seq(Operation)
  BY DEF Init
<1>2. posted \in [Procs -> [Comms \cup {World} -> Seq(Operation)]]
  BY <1>1
<1>3. TypeOK
  BY <1>2 DEF Init, TypeOK
<1>4. ASSUME NEW p \in Procs PROVE Position(p)
  BY CheckAssumption DEF Init, Position
<1> QED
  BY <1>3, <1>4 DEF TypeInv

(* The variables of the check and of the MPI model keep their types,       *)
(* whatever sequences of calls the processes make.                         *)
THEOREM TypeCorrect == Spec => []TypeOK
<1>1. Init => TypeInv
  BY InitType
<1>2. TypeInv /\ [Next]_vars => TypeInv'
  BY TypeStep
<1>3. TypeInv => TypeOK
  BY DEF TypeInv
<1> QED
  BY <1>1, <1>2, <1>3, PTL DEF Spec

-----------------------------------------------------------------------------
(* Numbering the calls of a program. *)

(* Every call but MPI_Init has the next number. *)
LEMMA NumberStep ==
  ASSUME NEW s, NEW k \in Nat
  PROVE  /\ Number(s, k) \in Nat
         /\ Number(s, k + 1) = Number(s, k) + IF s[k + 1].op # "init" THEN 1 ELSE 0
         /\ \A j \in 0 .. k : Number(s, j) <= Number(s, k)
<1> DEFINE S == {i \in Nat : s[i].op # "init"}
<1>1. ASSUME NEW n \in Nat PROVE Number(s, n) = Cardinality(1 .. n \cap S)
  <2>1. {i \in 1 .. n : s[i].op # "init"} = 1 .. n \cap S
    OBVIOUS
  <2> QED
    BY <2>1 DEF Number
<1>2. k + 1 \in S <=> s[k + 1].op # "init"
  OBVIOUS
<1> HIDE DEF S
<1>3. /\ Cardinality(1 .. k \cap S) \in Nat
      /\ Cardinality(1 .. k + 1 \cap S) =
           Cardinality(1 .. k \cap S) + IF k + 1 \in S THEN 1 ELSE 0
  BY CountStep
<1>4. ASSUME NEW j \in 0 .. k
      PROVE  Number(s, j) <= Number(s, k)
  <2>1. j \in Nat /\ j <= k
    OBVIOUS
  <2>2. Cardinality(1 .. j \cap S) <= Cardinality(1 .. k \cap S)
    BY <2>1, CountMonotone
  <2> QED
    BY <1>1, <2>1, <2>2
<1>5. k + 1 \in Nat
  OBVIOUS
<1>6. /\ Number(s, k) = Cardinality(1 .. k \cap S)
      /\ Number(s, k + 1) = Cardinality(1 .. k + 1 \cap S)
  BY <1>1, <1>5
<1> QED
  BY <1>2, <1>3, <1>4, <1>6

(* A number belongs to one call. *)
LEMMA NumberUnique ==
  ASSUME NEW s, NEW j \in Nat \ {0}, NEW k \in Nat \ {0},
         s[j].op # "init", s[k].op # "init", Number(s, j) = Number(s, k)
  PROVE  j = k
<1>1. ASSUME NEW a \in Nat \ {0}, NEW b \in Nat \ {0}, a < b, s[b].op # "init",
             Number(s, a) = Number(s, b)
      PROVE  FALSE
  <2>1. b - 1 \in Nat /\ (b - 1) + 1 = b /\ a \in 0 .. b - 1 /\ a \in Nat
    BY <1>1
  <2>2. Number(s, b - 1) \in Nat /\ Number(s, b) = Number(s, b - 1) + 1
    <3>1. Number(s, (b - 1) + 1) = Number(s, b - 1) + IF s[(b - 1) + 1].op # "init" THEN 1 ELSE 0
      BY <2>1, NumberStep
    <3>2. Number(s, b - 1) \in Nat
      BY <2>1, NumberStep
    <3> QED
      BY <1>1, <2>1, <3>1, <3>2
  <2>3. Number(s, a) <= Number(s, b - 1) /\ Number(s, a) \in Nat
    BY <2>1, NumberStep
  <2> QED
    BY <1>1, <2>2, <2>3
<1> QED
  BY <1>1

-----------------------------------------------------------------------------
(* One process. *)

AllOf(p) == Progress(p) /\ Stage(p) /\ Shape(p) /\ Behind(p) /\ Others(p)

(* The sizes the proofs compute with. *)
LEMMA Sizes ==
  ASSUME TypeInv, NEW p \in Procs
  PROVE  /\ Log(p) \in Seq(Operation) /\ Len(Log(p)) \in Nat
         /\ prog[p] \in Seq(Calls) /\ Len(prog[p]) \in Nat /\ pos[p] \in Nat
         /\ Done(p) \in Nat /\ 0 \in Procs
         /\ World \in Comms \cup {World}
<1>1. Log(p) \in Seq(Operation) /\ prog[p] \in Seq(Calls) /\ pos[p] \in Nat
  BY CheckAssumption DEF TypeInv, TypeOK, Log
<1>2. Done(p) \in Nat
  BY <1>1, NumberStep DEF Done
<1> QED
  BY <1>1, <1>2, CheckAssumption DEF Procs

(* A step of another process: q's own state is as before, and what rank 0  *)
(* entered has only grown.                                                 *)
LEMMA ProcFrame ==
  ASSUME TypeInv, NEW q \in Procs, AllOf(q), UNCHANGED prog,
         pos'[q] = pos[q], pc'[q] = pc[q], posted'[q] = posted[q],
         initialized'[q] = initialized[q], finalized'[q] = finalized[q],
         Len(Log(0)') \in Nat, Len(Log(0)) <= Len(Log(0)')
  PROVE  AllOf(q)'
<1>1. Log(q)' = Log(q) /\ Done(q)' = Done(q) /\ Cur(q)' = Cur(q)
  BY DEF Log, Done, Cur
<1>2. Len(Log(0)) \in Nat /\ Len(Log(q)) \in Nat /\ Done(q) \in Nat
  BY Sizes
<1>3. Progress(q)'
  BY <1>1 DEF AllOf, Progress
<1>4. Stage(q)'
  BY <1>1 DEF AllOf, Stage, OpColor
<1>5. Shape(q)'
  BY <1>1 DEF AllOf, Shape, Triple, OpColor, Number
<1>6. Behind(q)'
  BY <1>1, <1>2 DEF AllOf, Behind
<1>7. Others(q)'
  BY DEF AllOf, Others
<1> QED
  BY <1>3, <1>4, <1>5, <1>6, <1>7 DEF AllOf

(* A step of p that enters nothing and does not move in the program. *)
LEMMA QuietStep ==
  ASSUME TypeInv, NEW p \in Procs, \A q \in Procs : AllOf(q), NEW x,
         UNCHANGED <<prog, pos, initialized, finalized, posted>>,
         pc' = [pc EXCEPT ![p] = x]
  PROVE  /\ \A q \in Procs : q # p => AllOf(q)'
         /\ Shape(p)' /\ Others(p)'
         /\ pc'[p] = x
         /\ \A q \in Procs : Log(q)' = Log(q) /\ Done(q)' = Done(q) /\ Cur(q)' = Cur(q)
<1>1. \A q \in Procs : Log(q)' = Log(q) /\ Done(q)' = Done(q) /\ Cur(q)' = Cur(q)
  BY DEF Log, Done, Cur
<1>2. /\ pc'[p] = x
      /\ \A q \in Procs : q # p => pc'[q] = pc[q]
  BY DEF TypeInv, TypeOK
<1>3. Log(0)' = Log(0) /\ Len(Log(0)) \in Nat
  BY <1>1, Sizes
<1>4. ASSUME NEW q \in Procs, q # p PROVE AllOf(q)'
  BY <1>2, <1>3, <1>4, ProcFrame
<1>5. Shape(p)'
  <2>1. Log(p)' = Log(p) /\ Shape(p)
    BY <1>1 DEF AllOf
  <2> QED
    BY <2>1 DEF Shape, Triple, OpColor, Number
<1>6. Others(p)'
  BY DEF AllOf, Others
<1> QED
  BY <1>1, <1>2, <1>4, <1>5, <1>6

(* A step of p that enters operation o on MPI_COMM_WORLD. *)
LEMMA PostStep ==
  ASSUME TypeInv, NEW p \in Procs, \A q \in Procs : AllOf(q), NEW x, NEW o \in Operation,
         UNCHANGED <<prog, pos, initialized, finalized>>,
         Post(p, World, o), pc' = [pc EXCEPT ![p] = x]
  PROVE  /\ \A q \in Procs : q # p => AllOf(q)' /\ Log(q)' = Log(q)
         /\ Others(p)'
         /\ pc'[p] = x /\ \A q \in Procs : q # p => pc'[q] = pc[q]
         /\ Log(p)' \in Seq(Operation)
         /\ Len(Log(p)') = Len(Log(p)) + 1
         /\ Log(p)'[Len(Log(p)) + 1] = o
         /\ \A k \in 1 .. Len(Log(p)) : Log(p)'[k] = Log(p)[k]
         /\ \A q \in Procs : Done(q)' = Done(q) /\ Cur(q)' = Cur(q)
         /\ Len(Log(0)') \in Nat /\ Len(Log(0)) <= Len(Log(0)')
         /\ \A m \in Nat : 3 * m + 3 <= Len(Log(p)) => Triple(p, m)'
         /\ \A m \in Nat : Len(Log(p)') < 3 * m + 1 => Triple(p, m)'
<1>1. \A q \in Procs : Done(q)' = Done(q) /\ Cur(q)' = Cur(q)
  BY DEF Done, Cur
<1>2. /\ pc'[p] = x
      /\ \A q \in Procs : q # p => pc'[q] = pc[q]
  BY DEF TypeInv, TypeOK
<1>3. /\ posted' \in [Procs -> [Comms \cup {World} -> Seq(Operation)]]
      /\ Len(posted[p][World]) \in Nat
      /\ Len(posted'[p][World]) = Len(posted[p][World]) + 1
      /\ posted'[p][World][Len(posted[p][World]) + 1] = o
      /\ \A k \in 1 .. Len(posted[p][World]) : posted'[p][World][k] = posted[p][World][k]
      /\ \A d \in Comms \cup {World} : d # World => posted'[p][d] = posted[p][d]
      /\ \A q \in Procs : q # p => posted'[q] = posted[q]
  <2>1. TypeOK /\ World \in Comms \cup {World}
    BY DEF TypeInv
  <2> QED
    BY <2>1, PostLog
<1>4. /\ Log(p)' = posted'[p][World] /\ Log(p) = posted[p][World]
      /\ \A q \in Procs : q # p => Log(q)' = Log(q)
  BY <1>3 DEF Log
<1>5. 0 \in Procs /\ Len(Log(0)) \in Nat
  BY Sizes
<1>6. Len(Log(0)') \in Nat /\ Len(Log(0)) <= Len(Log(0)')
  BY <1>3, <1>4, <1>5
<1>7. ASSUME NEW q \in Procs, q # p PROVE AllOf(q)'
  BY <1>2, <1>3, <1>6, <1>7, ProcFrame
<1>8. Others(p)'
  BY <1>3 DEF AllOf, Others
<1>9. Log(p)' \in Seq(Operation)
  BY <1>3, <1>4
<1>10. ASSUME NEW m \in Nat, 3 * m + 3 <= Len(Log(p))
       PROVE  Triple(p, m)'
  <2>1. /\ 3 * m + 1 \in 1 .. Len(Log(p)) /\ 3 * m + 2 \in 1 .. Len(Log(p))
        /\ 3 * m + 3 \in 1 .. Len(Log(p))
    BY <1>10, Sizes
  <2>2. /\ Log(p)'[3 * m + 1] = Log(p)[3 * m + 1]
        /\ Log(p)'[3 * m + 2] = Log(p)[3 * m + 2]
        /\ Log(p)'[3 * m + 3] = Log(p)[3 * m + 3]
    BY <1>3, <1>4, <2>1
  <2>3. /\ 3 * m + 1 <= Len(Log(p)) /\ 3 * m + 2 <= Len(Log(p))
        /\ 3 * m + 3 <= Len(Log(p))
    BY <2>1
  <2>4. Triple(p, m)
    BY DEF AllOf, Shape
  <2>5. PICK k \in 1 .. Len(prog[p]) :
          /\ prog[p][k].op # "init" /\ Number(prog[p], k) = m + 1
          /\ Log(p)[3 * m + 1].kind = OpColor(prog[p][k])
    BY <2>3, <2>4 DEF Triple
  <2>6. /\ Log(p)[3 * m + 1].name = "check_reduce"
        /\ Log(p)[3 * m + 2].name = "check_bcast"
        /\ Log(p)[3 * m + 3].name = "collective"
        /\ Log(p)[3 * m + 3].kind = Log(p)[3 * m + 1].kind
    BY <2>3, <2>4 DEF Triple
  <2> QED
    BY <2>2, <2>5, <2>6 DEF Triple, OpColor, Number
<1>11. ASSUME NEW m \in Nat, Len(Log(p)') < 3 * m + 1
       PROVE  Triple(p, m)'
  <2>1. Len(Log(p)') \in Nat
    BY <1>9
  <2>2. /\ ~ (3 * m + 1 <= Len(Log(p)')) /\ ~ (3 * m + 2 <= Len(Log(p)'))
        /\ ~ (3 * m + 3 <= Len(Log(p)'))
    BY <1>11, <2>1
  <2> QED
    BY <2>2 DEF Triple
<1> QED
  BY <1>1, <1>2, <1>3, <1>4, <1>6, <1>7, <1>8, <1>9, <1>10, <1>11

(* A step of p that completes a call. *)
LEMMA ReturnStep ==
  ASSUME TypeInv, NEW p \in Procs, \A q \in Procs : AllOf(q), Return(p),
         UNCHANGED <<prog, posted>>, pos[p] < Len(prog[p]),
         \A q \in Procs : q # p => initialized'[q] = initialized[q]
                                     /\ finalized'[q] = finalized[q],
         Len(Log(p)) = 3 * Number(prog[p], pos[p] + 1)
  PROVE  /\ \A q \in Procs : q # p => AllOf(q)'
         /\ Stage(p)' /\ Shape(p)' /\ Behind(p)' /\ Others(p)'
         /\ pos'[p] = pos[p] + 1 /\ pc'[p] = "user"
<1>1. /\ pc'[p] = "user" /\ pos'[p] = pos[p] + 1
      /\ \A q \in Procs : q # p => pc'[q] = pc[q] /\ pos'[q] = pos[q]
  BY DEF TypeInv, TypeOK, Return
<1>2. /\ \A q \in Procs : Log(q)' = Log(q)
      /\ Done(p)' = Number(prog[p], pos[p] + 1)
  BY <1>1 DEF Log, Done, Number
<1>3. /\ Log(0)' = Log(0) /\ Len(Log(0)) \in Nat /\ Len(Log(p)) \in Nat
      /\ pos[p] \in Nat
  BY <1>2, Sizes
<1>4. ASSUME NEW q \in Procs, q # p PROVE AllOf(q)'
  BY <1>1, <1>3, <1>4, ProcFrame
<1>5. Number(prog[p], pos[p] + 1) \in Nat
  BY <1>3, NumberStep
<1>6. Stage(p)'
  BY <1>1, <1>2, <1>5 DEF Stage
<1>7. Shape(p)'
  <2>1. Log(p)' = Log(p) /\ Shape(p)
    BY <1>2 DEF AllOf
  <2> QED
    BY <2>1 DEF Shape, Triple, OpColor, Number
<1>9. Others(p)'
  BY DEF AllOf, Others
<1>8. Behind(p)'
  BY <1>1, <1>2, <1>3 DEF AllOf, Behind
<1> QED
  BY <1>1, <1>4, <1>6, <1>7, <1>8, <1>9

(* Every step keeps the processes in step with their programs.             *)
LEMMA ProcStep ==
  ASSUME RegularOnWorld, TypeInv, ProcInv, [Next]_vars
  PROVE  ProcInv'
<1>0. TypeOK /\ \A p \in Procs : AllOf(p) /\ Position(p)
  BY DEF TypeInv, ProcInv, AllOf
<1> USE <1>0
<1>g. ASSUME \A p \in Procs : AllOf(p)'
      PROVE  ProcInv'
  BY <1>g DEF ProcInv, AllOf
<1>p. \A p \in Procs : pc[p] = "user" /\ ~ AtEnd(p) => pos[p] < Len(prog[p])
  BY Sizes DEF Position, AtEnd
<1>r. ASSUME NEW p \in Procs, pos[p] < Len(prog[p])
      PROVE  /\ Cur(p).comm = World
             /\ Cur(p).op \in {"collective", "finalize"} =>
                  \E j \in 1 .. pos[p] : prog[p][j].op = "init"
             /\ Cur(p).op = "finalize" => \A j \in 1 .. pos[p] : prog[p][j].op # "finalize"
  <2>1. prog \in Programs
    BY DEF TypeOK
  <2>a. pos[p] \in Nat /\ Len(prog[p]) \in Nat
    BY Sizes
  <2>2. pos[p] + 1 \in 1 .. Len(prog[p]) /\ (pos[p] + 1) - 1 = pos[p]
    BY <1>r, <2>a
  <2>3. Regular(prog[p]) /\ \A k \in 1 .. Len(prog[p]) : prog[p][k].comm = World
    BY <2>1 DEF RegularOnWorld
  <2> QED
    BY <2>2, <2>3 DEF Regular, Cur
<1>1. ASSUME NEW p \in Procs, EnterCheck(p)
      PROVE  ProcInv'
  <2> DEFINE o == [name |-> "check_reduce", kind |-> OpColor(Cur(p))]
             n == Done(p)
  <2>1. /\ pos[p] < Len(prog[p]) /\ pc[p] = "user" /\ Cur(p).op # "init"
        /\ UNCHANGED <<prog, pos, initialized, finalized>>
        /\ pc' = [pc EXCEPT ![p] = "reduce"]
    BY <1>1, <1>p DEF EnterCheck, Instrumented
  <2>2. o \in Operation
    BY <2>1, CurrentCall DEF Operation
  <2>o. o.name = "check_reduce" /\ o.kind = OpColor(Cur(p))
    OBVIOUS
  <2>3. Post(p, World, o)
    BY <1>1 DEF EnterCheck
  <2> HIDE DEF o
  <2>4. /\ \A q \in Procs : q # p => AllOf(q)' /\ Log(q)' = Log(q)
        /\ Others(p)'
        /\ pc'[p] = "reduce"
        /\ Len(Log(p)') = Len(Log(p)) + 1
        /\ Log(p)'[Len(Log(p)) + 1] = o
        /\ \A k \in 1 .. Len(Log(p)) : Log(p)'[k] = Log(p)[k]
        /\ Done(p)' = n /\ Cur(p)' = Cur(p)
        /\ Len(Log(0)') \in Nat /\ Len(Log(0)) <= Len(Log(0)')
        /\ \A m \in Nat : 3 * m + 3 <= Len(Log(p)) => Triple(p, m)'
        /\ \A m \in Nat : Len(Log(p)') < 3 * m + 1 => Triple(p, m)'
    BY <2>1, <2>2, <2>3, PostStep
  <2>5. Len(Log(p)) = 3 * n /\ n \in Nat /\ Len(Log(0)) \in Nat /\ pos[p] \in Nat
    BY <2>1, Sizes DEF AllOf, Stage
  <2>6. Progress(p)'
    BY <2>1, <2>4 DEF AllOf, Progress
  <2>7. Stage(p)'
    BY <2>4, <2>5, <2>o DEF Stage, OpColor
  <2>8. Behind(p)'
    <3>1. ASSUME NEW m \in Nat, 3 * m + 3 <= Len(Log(p)')
          PROVE  3 * m + 2 <= Len(Log(0)')
      <4>1. 3 * m + 3 <= Len(Log(p))
        BY <2>4, <2>5, <3>1
      <4>2. 3 * m + 2 <= Len(Log(0))
        BY <4>1 DEF AllOf, Behind
      <4> QED
        BY <2>4, <2>5, <4>2
    <3> QED
      BY <2>4, <3>1 DEF Behind
  <2>9. Shape(p)'
    <3> SUFFICES ASSUME NEW m \in Nat PROVE Triple(p, m)'
      BY DEF Shape
    <3>1. CASE m < n
      <4>1. 3 * m + 3 <= Len(Log(p))
        BY <2>5, <3>1
      <4> QED
        BY <2>4, <4>1
    <3>2. CASE m = n
      <4>1. 3 * m + 1 = Len(Log(p)')
        BY <2>4, <2>5, <3>2
      <4>2. Log(p)'[3 * m + 1] = o
        BY <2>4, <2>5, <3>2
      <4>3. /\ pos[p] + 1 \in 1 .. Len(prog[p]) /\ prog[p][pos[p] + 1].op # "init"
            /\ Number(prog[p], pos[p] + 1) = m + 1
        <5>1. pos[p] + 1 \in 1 .. Len(prog[p]) /\ prog[p][pos[p] + 1].op # "init"
          BY <2>1, CurrentCall DEF Cur
        <5>2. Number(prog[p], pos[p] + 1) = Number(prog[p], pos[p]) + 1
          BY <2>5, <5>1, NumberStep
        <5> QED
          BY <3>2, <5>1, <5>2 DEF Done
      <4>4. o.kind = OpColor(prog[p][pos[p] + 1])
        BY <2>o DEF Cur
      <4>5. ~ (3 * m + 2 <= Len(Log(p)')) /\ ~ (3 * m + 3 <= Len(Log(p)'))
        BY <4>1
      <4> DEFINE Known(P) == \E k \in 1 .. Len(P[p]) :
                   /\ P[p][k].op # "init" /\ Number(P[p], k) = m + 1
                   /\ o.kind = OpColor(P[p][k])
      <4>6. Known(prog)
        BY <4>3, <4>4
      <4>7. prog' = prog
        BY <2>1
      <4>8. Known(prog')
        BY <4>6, <4>7
      <4>9. Log(p)'[3 * m + 1].name = "check_reduce" /\ Log(p)'[3 * m + 1].kind = o.kind
        BY <2>o, <4>2
      <4> QED
        BY <4>5, <4>8, <4>9 DEF Triple, OpColor, Number
    <3>3. CASE m > n
      <4>1. Len(Log(p)') < 3 * m + 1
        BY <2>4, <2>5, <3>3
      <4> QED
        BY <2>4, <4>1
    <3> QED
      BY <2>5, <3>1, <3>2, <3>3
  <2> QED
    BY <1>g, <2>4, <2>6, <2>7, <2>8, <2>9 DEF AllOf
<1>2. ASSUME NEW p \in Procs, SkipCheck(p)
      PROVE  ProcInv'
  <2>1. /\ pos[p] < Len(prog[p]) /\ pc[p] = "user"
        /\ Cur(p).op \notin {"collective", "finalize"}
        /\ UNCHANGED <<prog, pos, initialized, finalized, posted>>
        /\ pc' = [pc EXCEPT ![p] = "call"]
    <3>1. /\ pos[p] < Len(prog[p]) /\ pc[p] = "user"
          /\ ~ (Instrumented(Cur(p)) /\ Checks(p))
          /\ UNCHANGED <<prog, pos, initialized, finalized, posted>>
          /\ pc' = [pc EXCEPT ![p] = "call"]
      BY <1>2, <1>p DEF SkipCheck
    <3>2. ASSUME Cur(p).op \in {"collective", "finalize"}
          PROVE  FALSE
      <4>1. initialized[p]
        BY <1>r, <3>1, <3>2 DEF AllOf, Progress
      <4>2. Cur(p).op = "finalize" => ~ finalized[p]
        BY <1>r, <3>1 DEF AllOf, Progress
      <4> QED
        BY <3>1, <3>2, <4>1, <4>2 DEF Instrumented, Checks
    <3> QED
      BY <3>1, <3>2
  <2>2. /\ \A q \in Procs : q # p => AllOf(q)'
        /\ Shape(p)' /\ Others(p)'
        /\ pc'[p] = "call"
        /\ \A q \in Procs : Log(q)' = Log(q) /\ Done(q)' = Done(q) /\ Cur(q)' = Cur(q)
    BY <2>1, QuietStep
  <2>3. Len(Log(p)) = 3 * Done(p) /\ Done(p) \in Nat
    BY <2>1, Sizes DEF AllOf, Stage
  <2>4. Progress(p)'
    BY <2>1, <2>2 DEF AllOf, Progress
  <2>5. Stage(p)'
    BY <2>1, <2>2, <2>3 DEF Stage
  <2>6. Behind(p)'
    <3>1. Log(0)' = Log(0)
      BY <2>2, Sizes
    <3> QED
      BY <2>2, <2>3, <3>1 DEF AllOf, Behind
  <2> QED
    BY <1>g, <2>2, <2>4, <2>5, <2>6 DEF AllOf
<1>3. ASSUME NEW q \in Procs, Combine(q)
      PROVE  ProcInv'
  <2>1. UNCHANGED <<prog, pos, pc, initialized, finalized, posted>>
    BY <1>3 DEF Combine
  <2>2. Log(0)' = Log(0) /\ Len(Log(0)) \in Nat
    BY <2>1, Sizes DEF Log
  <2>3. ASSUME NEW r \in Procs PROVE AllOf(r)'
    BY <2>1, <2>2, ProcFrame
  <2> QED
    BY <1>g, <2>3
<1>4. ASSUME NEW p \in Procs, EnterBcast(p)
      PROVE  ProcInv'
  <2> DEFINE o == [name |-> "check_bcast", kind |-> Res[p]]
             n == Done(p)
  <2>1. /\ pos[p] < Len(prog[p]) /\ pc[p] = "reduce"
        /\ UNCHANGED <<prog, pos, initialized, finalized>>
        /\ pc' = [pc EXCEPT ![p] = "bcast"]
    BY <1>4 DEF EnterBcast, Position
  <2>2. o \in Operation
    BY DEF Operation, TypeOK
  <2>o. o.name = "check_bcast"
    OBVIOUS
  <2>3. Post(p, World, o)
    BY <1>4 DEF EnterBcast
  <2> HIDE DEF o
  <2>4. /\ \A q \in Procs : q # p => AllOf(q)' /\ Log(q)' = Log(q)
        /\ Others(p)'
        /\ pc'[p] = "bcast"
        /\ Len(Log(p)') = Len(Log(p)) + 1
        /\ Log(p)'[Len(Log(p)) + 1] = o
        /\ \A k \in 1 .. Len(Log(p)) : Log(p)'[k] = Log(p)[k]
        /\ Done(p)' = n /\ Cur(p)' = Cur(p)
        /\ Len(Log(0)') \in Nat /\ Len(Log(0)) <= Len(Log(0)')
        /\ \A m \in Nat : 3 * m + 3 <= Len(Log(p)) => Triple(p, m)'
        /\ \A m \in Nat : Len(Log(p)') < 3 * m + 1 => Triple(p, m)'
    BY <2>1, <2>2, <2>3, PostStep
  <2>5. Len(Log(p)) = 3 * n + 1 /\ n \in Nat /\ Len(Log(0)) \in Nat
    BY <2>1, Sizes DEF AllOf, Stage
  <2>6. Progress(p)'
    BY <2>1, <2>4 DEF AllOf, Progress
  <2>7. Stage(p)'
    <3>1. Log(p)[n + n + n + 1] = Log(p)[3 * n + 1] /\ Log(p)[3 * n + 1].kind = OpColor(Cur(p))
      BY <2>5 DEF AllOf, Stage
    <3>2. Log(p)'[3 * n + 1] = Log(p)[3 * n + 1]
      BY <2>4, <2>5
    <3>3. Log(p)'[3 * n + 1].kind = OpColor(Cur(p)')
      BY <2>4, <3>1, <3>2
    <3> QED
      BY <2>4, <2>5, <3>3 DEF Stage, OpColor
  <2>8. Behind(p)'
    <3>1. ASSUME NEW m \in Nat, 3 * m + 3 <= Len(Log(p)')
          PROVE  3 * m + 2 <= Len(Log(0)')
      <4>1. 3 * m + 3 <= Len(Log(p))
        BY <2>4, <2>5, <3>1
      <4>2. 3 * m + 2 <= Len(Log(0))
        BY <4>1 DEF AllOf, Behind
      <4> QED
        BY <2>4, <2>5, <4>2
    <3> QED
      BY <2>4, <3>1 DEF Behind
  <2>9. Shape(p)'
    <3> SUFFICES ASSUME NEW m \in Nat PROVE Triple(p, m)'
      BY DEF Shape
    <3>1. CASE m < n
      <4>1. 3 * m + 3 <= Len(Log(p))
        BY <2>5, <3>1
      <4> QED
        BY <2>4, <4>1
    <3>2. CASE m = n
      <4>1. 3 * m + 2 = Len(Log(p)') /\ 3 * m + 1 \in 1 .. Len(Log(p))
        BY <2>4, <2>5, <3>2
      <4>2. Log(p)'[3 * m + 2] = o
        BY <2>4, <2>5, <3>2, <4>1
      <4>3. Log(p)'[3 * m + 1] = Log(p)[3 * m + 1]
        BY <2>4, <4>1
      <4>5. ~ (3 * m + 3 <= Len(Log(p)'))
        BY <4>1
      <4>6. 3 * m + 1 <= Len(Log(p))
        BY <4>1
      <4> DEFINE Known(P) == \E k \in 1 .. Len(P[p]) :
                   /\ P[p][k].op # "init" /\ Number(P[p], k) = m + 1
                   /\ Log(p)[3 * m + 1].kind = OpColor(P[p][k])
      <4>7. Triple(p, m)
        BY DEF AllOf, Shape
      <4>8. Log(p)[3 * m + 1].name = "check_reduce" /\ Known(prog)
        BY <4>6, <4>7 DEF Triple
      <4>9. prog' = prog
        BY <2>1
      <4>10. Known(prog')
        BY <4>8, <4>9
      <4>11. /\ Log(p)'[3 * m + 1].name = "check_reduce"
             /\ Log(p)'[3 * m + 2].name = "check_bcast"
             /\ Log(p)'[3 * m + 1].kind = Log(p)[3 * m + 1].kind
        BY <2>o, <4>2, <4>3, <4>8
      <4> QED
        BY <4>5, <4>10, <4>11 DEF Triple, OpColor, Number
    <3>3. CASE m > n
      <4>1. Len(Log(p)') < 3 * m + 1
        BY <2>4, <2>5, <3>3
      <4> QED
        BY <2>4, <4>1
    <3> QED
      BY <2>5, <3>1, <3>2, <3>3
  <2> QED
    BY <1>g, <2>4, <2>6, <2>7, <2>8, <2>9 DEF AllOf
<1>5. ASSUME NEW p \in Procs, ReturnFromBcast(p)
      PROVE  ProcInv'
  <2>1. /\ pc[p] = "bcast" /\ Len(Log(0)) >= Len(Log(p))
        /\ UNCHANGED <<prog, pos, initialized, finalized, posted>>
        /\ pc' = [pc EXCEPT ![p] = "decide"]
    BY <1>5 DEF ReturnFromBcast, Arrived, Log
  <2>2. /\ \A q \in Procs : q # p => AllOf(q)'
        /\ Shape(p)' /\ Others(p)'
        /\ pc'[p] = "decide"
        /\ \A q \in Procs : Log(q)' = Log(q) /\ Done(q)' = Done(q) /\ Cur(q)' = Cur(q)
    BY <2>1, QuietStep
  <2>3. /\ Done(p) \in Nat /\ Log(0)' = Log(0)
        /\ Len(Log(0)) \in Nat /\ Len(Log(p)) \in Nat
    BY <2>2, Sizes
  <2>4. Progress(p)'
    BY <2>1, <2>2 DEF AllOf, Progress
  <2>5. Stage(p)'
    BY <2>1, <2>2, <2>3 DEF AllOf, Stage, OpColor
  <2>6. Behind(p)'
    BY <2>1, <2>2, <2>3 DEF AllOf, Behind
  <2> QED
    BY <1>g, <2>2, <2>4, <2>5, <2>6 DEF AllOf
<1>6. ASSUME NEW p \in Procs, Decide(p)
      PROVE  ProcInv'
  <2>1. CASE Aborts(p)
    <3>1. UNCHANGED <<prog, pos, pc, initialized, finalized, posted>>
      BY <1>6, <2>1 DEF Decide
    <3>2. Log(0)' = Log(0) /\ Len(Log(0)) \in Nat
      BY <3>1, Sizes DEF Log
    <3>3. ASSUME NEW r \in Procs PROVE AllOf(r)'
      BY <3>1, <3>2, ProcFrame
    <3> QED
      BY <1>g, <3>3
  <2>2. CASE ~ Aborts(p)
    <3>1. /\ pc[p] = "decide"
          /\ UNCHANGED <<prog, pos, initialized, finalized, posted>>
          /\ pc' = [pc EXCEPT ![p] = "call"]
      BY <1>6, <2>2 DEF Decide
    <3>2. /\ \A q \in Procs : q # p => AllOf(q)'
          /\ Shape(p)' /\ Others(p)'
          /\ pc'[p] = "call"
          /\ \A q \in Procs : Log(q)' = Log(q) /\ Done(q)' = Done(q) /\ Cur(q)' = Cur(q)
      BY <3>1, QuietStep
    <3>3. Done(p) \in Nat /\ Log(0)' = Log(0)
      BY <3>2, Sizes
    <3>4. Progress(p)'
      BY <3>1, <3>2 DEF AllOf, Progress
    <3>5. Stage(p)'
      BY <3>1, <3>2, <3>3 DEF AllOf, Stage, OpColor, Progress
    <3>6. Behind(p)'
      BY <3>1, <3>2, <3>3 DEF AllOf, Behind
    <3> QED
      BY <1>g, <3>2, <3>4, <3>5, <3>6 DEF AllOf
  <2> QED
    BY <2>1, <2>2
<1>7. ASSUME NEW p \in Procs, MpiInit(p)
      PROVE  ProcInv'
  <2>1. /\ pc[p] = "call" /\ Cur(p).op = "init" /\ Return(p)
        /\ pos[p] < Len(prog[p])
        /\ UNCHANGED <<prog, posted, finalized>>
    BY <1>7 DEF MpiInit, Position
  <2>2. /\ initialized'[p] = TRUE
        /\ \A q \in Procs : q # p => initialized'[q] = initialized[q]
    BY <1>7 DEF MpiInit, TypeOK
  <2>3. pos[p] \in Nat /\ Done(p) \in Nat
    BY Sizes
  <2>4. Number(prog[p], pos[p] + 1) = Done(p)
    BY <2>1, <2>3, NumberStep DEF Done, Cur
  <2>5. Len(Log(p)) = 3 * Number(prog[p], pos[p] + 1)
    BY <2>1, <2>4 DEF AllOf, Stage
  <2>6. /\ \A q \in Procs : q # p => AllOf(q)'
        /\ Stage(p)' /\ Shape(p)' /\ Behind(p)' /\ Others(p)'
        /\ pos'[p] = pos[p] + 1 /\ pc'[p] = "user"
    BY <2>1, <2>2, <2>5, ReturnStep
  <2>7. Progress(p)'
    <3>1. \E j \in 1 .. pos'[p] : prog[p][j].op = "init"
      BY <2>1, <2>3, <2>6 DEF Cur
    <3>2. \A j \in 1 .. pos[p] : j \in 1 .. pos'[p]
      BY <2>3, <2>6
    <3>3. finalized[p] => \E j \in 1 .. pos'[p] : prog[p][j].op = "finalize"
      BY <3>2 DEF AllOf, Progress
    <3> QED
      BY <2>1, <2>2, <2>6, <3>1, <3>3 DEF Progress
  <2> QED
    BY <1>g, <2>6, <2>7 DEF AllOf
<1>8. ASSUME NEW p \in Procs, EnterCollective(p)
      PROVE  ProcInv'
  <2> DEFINE o == [name |-> "collective", kind |-> OpColor(Cur(p))]
             n == Done(p)
  <2>1. /\ pos[p] < Len(prog[p]) /\ pc[p] = "call"
        /\ Cur(p).op \in {"collective", "finalize"}
        /\ UNCHANGED <<prog, pos, initialized, finalized>>
        /\ pc' = [pc EXCEPT ![p] = "collective"]
    BY <1>8 DEF EnterCollective, Position
  <2>2. o \in Operation
    BY <2>1, CurrentCall DEF Operation
  <2>o. o.name = "collective" /\ o.kind = OpColor(Cur(p))
    OBVIOUS
  <2>3. Post(p, World, o)
    BY <1>8, <1>r, <2>1 DEF EnterCollective
  <2> HIDE DEF o
  <2>4. /\ \A q \in Procs : q # p => AllOf(q)' /\ Log(q)' = Log(q)
        /\ Others(p)'
        /\ pc'[p] = "collective"
        /\ Len(Log(p)') = Len(Log(p)) + 1
        /\ Log(p)'[Len(Log(p)) + 1] = o
        /\ \A k \in 1 .. Len(Log(p)) : Log(p)'[k] = Log(p)[k]
        /\ Done(p)' = n /\ Cur(p)' = Cur(p)
        /\ Len(Log(0)') \in Nat /\ Len(Log(0)) <= Len(Log(0)')
        /\ \A m \in Nat : 3 * m + 3 <= Len(Log(p)) => Triple(p, m)'
        /\ \A m \in Nat : Len(Log(p)') < 3 * m + 1 => Triple(p, m)'
    BY <2>1, <2>2, <2>3, PostStep
  <2>5. /\ Len(Log(p)) = 3 * n + 2 /\ n \in Nat /\ Len(Log(0)) \in Nat
        /\ Log(p)[3 * n + 1].kind = OpColor(Cur(p))
        /\ Len(Log(p)) <= Len(Log(0))
    <3>1. Len(Log(p)) = 3 * n + 2 /\ n \in Nat /\ Len(Log(0)) \in Nat
      BY <2>1, Sizes DEF AllOf, Stage
    <3>2. Log(p)[3 * n + 1].kind = OpColor(Cur(p))
      BY <3>1 DEF AllOf, Stage
    <3>3. Len(Log(p)) <= Len(Log(0))
      BY <2>1, <3>1 DEF AllOf, Behind
    <3> QED
      BY <3>1, <3>2, <3>3
  <2>6. Progress(p)'
    BY <2>1, <2>4 DEF AllOf, Progress
  <2>7. Stage(p)'
    BY <2>4, <2>5 DEF Stage
  <2>8. Behind(p)'
    <3>1. ASSUME NEW m \in Nat, 3 * m + 3 <= Len(Log(p)')
          PROVE  3 * m + 2 <= Len(Log(0)')
      <4>1. m <= n
        BY <2>4, <2>5, <3>1
      <4>2. 3 * m + 2 <= Len(Log(0))
        BY <2>5, <4>1
      <4> QED
        BY <2>4, <2>5, <4>2
    <3> QED
      BY <2>4, <3>1 DEF Behind
  <2>9. Shape(p)'
    <3> SUFFICES ASSUME NEW m \in Nat PROVE Triple(p, m)'
      BY DEF Shape
    <3>1. CASE m < n
      <4>1. 3 * m + 3 <= Len(Log(p))
        BY <2>5, <3>1
      <4> QED
        BY <2>4, <4>1
    <3>2. CASE m = n
      <4>1. /\ 3 * m + 3 = Len(Log(p)') /\ 3 * m + 1 \in 1 .. Len(Log(p))
            /\ 3 * m + 2 \in 1 .. Len(Log(p))
        BY <2>4, <2>5, <3>2
      <4>2. Log(p)'[3 * m + 3] = o
        BY <2>4, <2>5, <3>2, <4>1
      <4>3. /\ Log(p)'[3 * m + 1] = Log(p)[3 * m + 1]
            /\ Log(p)'[3 * m + 2] = Log(p)[3 * m + 2]
        BY <2>4, <4>1
      <4>4. 3 * m + 1 <= Len(Log(p)) /\ 3 * m + 2 <= Len(Log(p))
        BY <4>1
      <4>5. Log(p)[3 * m + 1].kind = o.kind
        BY <2>5, <2>o, <3>2
      <4> DEFINE Known(P) == \E k \in 1 .. Len(P[p]) :
                   /\ P[p][k].op # "init" /\ Number(P[p], k) = m + 1
                   /\ Log(p)[3 * m + 1].kind = OpColor(P[p][k])
      <4>6. Triple(p, m)
        BY DEF AllOf, Shape
      <4>7. /\ Log(p)[3 * m + 1].name = "check_reduce"
            /\ Log(p)[3 * m + 2].name = "check_bcast"
            /\ Known(prog)
        BY <4>4, <4>6 DEF Triple
      <4>8. prog' = prog
        BY <2>1
      <4>9. Known(prog')
        BY <4>7, <4>8
      <4>10. /\ Log(p)'[3 * m + 1].name = "check_reduce"
             /\ Log(p)'[3 * m + 2].name = "check_bcast"
             /\ Log(p)'[3 * m + 3].name = "collective"
             /\ Log(p)'[3 * m + 3].kind = Log(p)'[3 * m + 1].kind
             /\ Log(p)'[3 * m + 1].kind = Log(p)[3 * m + 1].kind
        BY <2>o, <4>2, <4>3, <4>5, <4>7
      <4> QED
        BY <4>9, <4>10 DEF Triple, OpColor, Number
    <3>3. CASE m > n
      <4>1. Len(Log(p)') < 3 * m + 1
        BY <2>4, <2>5, <3>3
      <4> QED
        BY <2>4, <4>1
    <3> QED
      BY <2>5, <3>1, <3>2, <3>3
  <2> QED
    BY <1>g, <2>4, <2>6, <2>7, <2>8, <2>9 DEF AllOf
<1>9. ASSUME NEW p \in Procs, LeaveCollective(p)
      PROVE  ProcInv'
  <2>1. /\ pc[p] = "collective" /\ Return(p) /\ pos[p] < Len(prog[p])
        /\ Cur(p).op \in {"collective", "finalize"}
        /\ UNCHANGED <<prog, posted, initialized>>
    BY <1>9 DEF LeaveCollective, Position, AllOf, Progress
  <2>2. /\ finalized'[p] <=> finalized[p] \/ Cur(p).op = "finalize"
        /\ \A q \in Procs : q # p => finalized'[q] = finalized[q]
    <3> DEFINE b == finalized[p] \/ Cur(p).op = "finalize"
    <3>1. finalized' = [finalized EXCEPT ![p] = b] /\ finalized \in [Procs -> BOOLEAN]
      BY <1>9 DEF LeaveCollective, TypeOK
    <3> HIDE DEF b
    <3>2. finalized'[p] = b /\ \A q \in Procs : q # p => finalized'[q] = finalized[q]
      BY <3>1
    <3> QED
      BY <3>2 DEF b
  <2>3. pos[p] \in Nat /\ Done(p) \in Nat
    BY Sizes
  <2>4. Number(prog[p], pos[p] + 1) = Done(p) + 1
    BY <2>1, <2>3, NumberStep DEF Done, Cur
  <2>5. Len(Log(p)) = 3 * Number(prog[p], pos[p] + 1)
    BY <2>1, <2>3, <2>4 DEF AllOf, Stage
  <2>6. /\ \A q \in Procs : q # p => AllOf(q)'
        /\ Stage(p)' /\ Shape(p)' /\ Behind(p)' /\ Others(p)'
        /\ pos'[p] = pos[p] + 1 /\ pc'[p] = "user"
    BY <2>1, <2>2, <2>5, ReturnStep
  <2>7. Progress(p)'
    <3>1. \A j : j \in 1 .. pos'[p] <=> j \in 1 .. pos[p] \/ j = pos[p] + 1
      BY <2>3, <2>6
    <3>2. initialized[p] <=> \E j \in 1 .. pos'[p] : prog[p][j].op = "init"
      BY <2>1, <3>1 DEF AllOf, Progress, Cur
    <3>3. finalized'[p] => \E j \in 1 .. pos'[p] : prog[p][j].op = "finalize"
      BY <2>2, <3>1 DEF AllOf, Progress, Cur
    <3> QED
      BY <2>1, <2>6, <3>2, <3>3 DEF Progress
  <2> QED
    BY <1>g, <2>6, <2>7 DEF AllOf
<1>10. ASSUME UNCHANGED <<prog, pos, pc, initialized, finalized, posted>>
       PROVE  ProcInv'
  <2>1. Log(0)' = Log(0) /\ Len(Log(0)) \in Nat
    BY <1>10, CheckAssumption, Sizes DEF Log, Procs
  <2>2. ASSUME NEW r \in Procs PROVE AllOf(r)'
    BY <1>10, <2>1, ProcFrame
  <2> QED
    BY <1>g, <2>2
<1>11. ASSUME NEW p \in Procs, MpiAbort(p)
       PROVE  ProcInv'
  BY <1>10, <1>11 DEF MpiAbort
<1>12. CASE UNCHANGED vars
  BY <1>10, <1>12 DEF vars
<1> QED
  BY <1>1, <1>2, <1>3, <1>4, <1>5, <1>6, <1>7, <1>8, <1>9, <1>11, <1>12
  DEF Next, Step, Finished

-----------------------------------------------------------------------------
(* Rank 0. *)

(* What has been entered stays. *)
Grown ==
  \A q \in Procs :
    /\ Len(Log(q)') \in Nat /\ Len(Log(q)) <= Len(Log(q)')
    /\ \A k \in 1 .. Len(Log(q)) : Log(q)'[k] = Log(q)[k]

(* No step takes an operation back. *)
LEMMA GrowStep ==
  ASSUME TypeInv, [Next]_vars
  PROVE  Grown
<1>0. TypeOK /\ \A q \in Procs : Len(Log(q)) \in Nat
  BY Sizes DEF TypeInv
<1>1. ASSUME UNCHANGED posted
      PROVE  Grown
  BY <1>0, <1>1 DEF Grown, Log
<1>2. ASSUME NEW p \in Procs, NEW c \in Comms \cup {World}, NEW o \in Operation, Post(p, c, o)
      PROVE  Grown
  <2>1. /\ Len(posted[p][c]) \in Nat
        /\ Len(posted'[p][c]) = Len(posted[p][c]) + 1
        /\ \A k \in 1 .. Len(posted[p][c]) : posted'[p][c][k] = posted[p][c][k]
        /\ \A d \in Comms \cup {World} : d # c => posted'[p][d] = posted[p][d]
        /\ \A q \in Procs : q # p => posted'[q] = posted[q]
    BY <1>0, <1>2, PostLog
  <2>2. CASE c = World
    BY <1>0, <2>1, <2>2 DEF Grown, Log
  <2>3. CASE c # World
    <3>1. \A q \in Procs : Log(q)' = Log(q)
      BY <2>1, <2>3 DEF Log
    <3> QED
      BY <1>0, <3>1 DEF Grown
  <2> QED
    BY <2>2, <2>3
<1>3. ASSUME NEW p \in Procs, EnterCheck(p)
      PROVE  Grown
  <2>1. pos[p] < Len(prog[p])
    BY <1>3, Sizes DEF EnterCheck, TypeInv, Position, AtEnd
  <2>2. [name |-> "check_reduce", kind |-> OpColor(Cur(p))] \in Operation
    BY <2>1, CurrentCall DEF Operation
  <2> QED
    BY <1>2, <1>3, <2>2 DEF EnterCheck
<1>4. ASSUME NEW p \in Procs, EnterBcast(p)
      PROVE  Grown
  <2>1. [name |-> "check_bcast", kind |-> Res[p]] \in Operation
    BY <1>0 DEF Operation, TypeOK
  <2> QED
    BY <1>2, <1>4, <2>1 DEF EnterBcast
<1>5. ASSUME NEW p \in Procs, EnterCollective(p)
      PROVE  Grown
  <2>1. pos[p] < Len(prog[p])
    BY <1>5 DEF EnterCollective, TypeInv, Position
  <2>2. /\ [name |-> "collective", kind |-> OpColor(Cur(p))] \in Operation
        /\ Cur(p).comm \in Comms \cup {World}
    BY <2>1, CurrentCall DEF Operation
  <2> QED
    BY <1>2, <1>5, <2>2 DEF EnterCollective
<1>6. ASSUME NEW p \in Procs,
             \/ SkipCheck(p) \/ ReturnFromBcast(p) \/ Decide(p) \/ MpiInit(p)
             \/ LeaveCollective(p) \/ MpiAbort(p) \/ Combine(p)
      PROVE  UNCHANGED posted
  BY <1>6 DEF SkipCheck, ReturnFromBcast, Decide, MpiInit, LeaveCollective, MpiAbort, Combine
<1>7. CASE UNCHANGED vars
  BY <1>1, <1>7 DEF vars
<1> QED
  BY <1>1, <1>3, <1>4, <1>5, <1>6, <1>7 DEF Next, Step, Finished

(* So two colours that are there agree or disagree for good. *)
LEMMA AgreementKept ==
  ASSUME TypeInv, Grown, NEW q \in Procs, NEW n \in Nat, 3 * n + 1 <= Len(Log(0))
  PROVE  /\ Agrees(q, n) => Agrees(q, n)'
         /\ Disagrees(q, n) => Disagrees(q, n)'
<1>1. /\ 0 \in Procs /\ Len(Log(0)) \in Nat /\ Len(Log(q)) \in Nat
      /\ Len(Log(q)') \in Nat /\ Len(Log(q)) <= Len(Log(q)')
  BY Sizes DEF Grown
<1>2. 3 * n + 1 \in 1 .. Len(Log(0))
  BY <1>1
<1>3. Log(0)'[3 * n + 1] = Log(0)[3 * n + 1]
  BY <1>1, <1>2 DEF Grown
<1>4. ASSUME 3 * n + 1 <= Len(Log(q))
      PROVE  3 * n + 1 <= Len(Log(q)') /\ Log(q)'[3 * n + 1] = Log(q)[3 * n + 1]
  <2>1. 3 * n + 1 \in 1 .. Len(Log(q))
    BY <1>1, <1>4
  <2> QED
    BY <1>1, <1>4, <2>1 DEF Grown
<1> QED
  BY <1>3, <1>4 DEF Agrees, Disagrees

(* The colour of the call rank 0 is checking is there. *)
LEMMA RootStage ==
  ASSUME TypeInv, ProcInv
  PROVE  /\ 0 \in Procs /\ Done(0) \in Nat /\ Len(Log(0)) \in Nat
         /\ pc[0] = "user" => Len(Log(0)) = 3 * Done(0)
         /\ pc[0] = "reduce" => Len(Log(0)) = 3 * Done(0) + 1
         /\ pc[0] \in {"bcast", "decide"} => Len(Log(0)) = 3 * Done(0) + 2
         /\ pc[0] \in {"reduce", "bcast", "decide"} => 3 * Done(0) + 1 <= Len(Log(0))
<1>1. 0 \in Procs
  BY CheckAssumption DEF Procs
<1>2. Done(0) \in Nat /\ Len(Log(0)) \in Nat /\ Stage(0)
  BY <1>1, Sizes DEF ProcInv
<1> QED
  BY <1>1, <1>2 DEF Stage

(* Steps that are not rank 0's. *)
LEMMA RootFrame ==
  ASSUME TypeInv, ProcInv, RootInv, Grown, UNCHANGED prog,
         pos'[0] = pos[0], pc'[0] = pc[0], posted'[0] = posted[0],
         Res'[0] = Res[0], folded'[0] = folded[0], status' = "alarm" => status = "alarm"
  PROVE  RootInv'
<1>1. /\ 0 \in Procs /\ Done(0) \in Nat /\ Len(Log(0)) \in Nat
      /\ pc[0] \in {"reduce", "bcast", "decide"} => 3 * Done(0) + 1 <= Len(Log(0))
  BY RootStage
<1>2. Done(0)' = Done(0) /\ Log(0)' = Log(0)
  BY DEF Done, Log
<1>3. folded[0] \subseteq Procs
  BY <1>1 DEF TypeInv, TypeOK
<1>4. ASSUME NEW n \in Nat, 3 * n + 2 <= Len(Log(0)'), Res'[0] # Mismatch,
             NEW q \in Procs
      PROVE  Agrees(q, n)'
  <2>1. 3 * n + 2 <= Len(Log(0)) /\ 3 * n + 1 <= Len(Log(0))
    BY <1>1, <1>2, <1>4
  <2>2. Agrees(q, n)
    BY <1>4, <2>1 DEF RootInv
  <2> QED
    BY <2>1, <2>2, AgreementKept
<1>5. ASSUME pc'[0] = "reduce", Res'[0] # Mismatch
      PROVE  /\ Res'[0] = Log(0)'[3 * Done(0) + 1].kind
             /\ \A q \in folded'[0] : Agrees(q, Done(0))'
  <2>1. /\ Res[0] = Log(0)[3 * Done(0) + 1].kind
        /\ \A q \in folded[0] : Agrees(q, Done(0))
    BY <1>5 DEF RootInv
  <2>2. \A q \in folded[0] : Agrees(q, Done(0)) => (Agrees(q, Done(0)))'
    <3> SUFFICES ASSUME NEW q \in folded[0], Agrees(q, Done(0))
                 PROVE  (Agrees(q, Done(0)))'
      OBVIOUS
    <3>1. \A n \in Nat : n = Done(0) => Agrees(q, n)'
      BY <1>1, <1>3, <1>5, AgreementKept
    <3> QED
      BY <1>1, <1>2, <3>1 DEF Agrees
  <2> QED
    BY <1>2, <2>1, <2>2
<1>6. ASSUME Res'[0] = Mismatch
      PROVE  pc'[0] \in {"reduce", "bcast", "decide"} /\ \E q \in Procs : (Disagrees(q, Done(0)))'
  <2>1. pc[0] \in {"reduce", "bcast", "decide"}
    BY <1>6 DEF RootInv
  <2>2. PICK q \in Procs : Disagrees(q, Done(0))
    BY <1>6 DEF RootInv
  <2>3. \A n \in Nat : n = Done(0) => Disagrees(q, n)'
    BY <1>1, <2>1, <2>2, AgreementKept
  <2>4. (Disagrees(q, Done(0)))'
    BY <1>1, <1>2, <2>3 DEF Disagrees
  <2> QED
    BY <2>1, <2>4
<1>7. pc'[0] \in {"bcast", "decide"} => Log(0)'[3 * Done(0) + 2].kind = Res'[0]
  BY <1>2 DEF RootInv
<1>8. status' = "alarm" => Res'[0] = Mismatch
  BY DEF RootInv
<1> QED
  BY <1>2, <1>4, <1>5, <1>6, <1>7, <1>8 DEF RootInv

(* Steps of rank 0 that are not part of a check. *)
LEMMA RootOutside ==
  ASSUME TypeInv, ProcInv, RootInv, Grown, Res'[0] # Mismatch, Res[0] # Mismatch,
         pc'[0] \notin {"reduce", "bcast", "decide"}, status' # "alarm",
         \A n \in Nat : 3 * n + 2 <= Len(Log(0)') => 3 * n + 2 <= Len(Log(0))
  PROVE  RootInv'
<1>1. 0 \in Procs /\ Len(Log(0)) \in Nat
  BY RootStage
<1>2. ASSUME NEW n \in Nat, 3 * n + 2 <= Len(Log(0)'), NEW q \in Procs
      PROVE  Agrees(q, n)'
  <2>1. 3 * n + 2 <= Len(Log(0))
    BY <1>2
  <2>2. 3 * n + 1 <= Len(Log(0))
    BY <1>1, <2>1
  <2>3. Agrees(q, n)
    BY <2>1 DEF RootInv
  <2> QED
    BY <2>2, <2>3, AgreementKept
<1> QED
  BY <1>2 DEF RootInv

(* Every step keeps what rank 0 knows.                                     *)
LEMMA RootStep ==
  ASSUME TypeInv, ProcInv, RootInv, [Next]_vars, RegularOnWorld
  PROVE  RootInv'
<1>0. TypeOK /\ Grown
  BY GrowStep DEF TypeInv
<1>s. /\ 0 \in Procs /\ Done(0) \in Nat /\ Len(Log(0)) \in Nat
      /\ pc[0] = "user" => Len(Log(0)) = 3 * Done(0)
      /\ pc[0] = "reduce" => Len(Log(0)) = 3 * Done(0) + 1
      /\ pc[0] \in {"bcast", "decide"} => Len(Log(0)) = 3 * Done(0) + 2
      /\ pc[0] \in {"reduce", "bcast", "decide"} => 3 * Done(0) + 1 <= Len(Log(0))
  BY RootStage
<1> USE <1>0
<1>q. ASSUME UNCHANGED <<posted, Res>>, Res[0] # Mismatch,
             pc'[0] \notin {"reduce", "bcast", "decide"}, status' # "alarm"
      PROVE  RootInv'
  <2>1. Log(0)' = Log(0)
    BY <1>q DEF Log
  <2> QED
    BY <1>q, <2>1, RootOutside
<1>w. pc[0] \notin {"reduce", "bcast", "decide"} => Res[0] # Mismatch /\ status # "alarm"
  BY DEF RootInv
<1>1. ASSUME NEW p \in Procs, p # 0, Step(p)
      PROVE  RootInv'
  <2>1. /\ UNCHANGED prog /\ pos'[0] = pos[0] /\ pc'[0] = pc[0]
        /\ Res'[0] = Res[0] /\ folded'[0] = folded[0]
    <3>1. CASE EnterCheck(p)
      BY <1>1, <1>s, <3>1 DEF EnterCheck, TypeOK
    <3>2. CASE SkipCheck(p)
      BY <1>1, <1>s, <3>2 DEF SkipCheck, TypeOK
    <3>3. CASE EnterBcast(p)
      BY <1>1, <1>s, <3>3 DEF EnterBcast, TypeOK
    <3>4. CASE ReturnFromBcast(p)
      BY <1>1, <1>s, <3>4 DEF ReturnFromBcast, TypeOK
    <3>5. CASE Decide(p)
      BY <1>1, <1>s, <3>5 DEF Decide, TypeOK
    <3>6. CASE MpiInit(p)
      BY <1>1, <1>s, <3>6 DEF MpiInit, Return, TypeOK
    <3>7. CASE EnterCollective(p)
      BY <1>1, <1>s, <3>7 DEF EnterCollective, TypeOK
    <3>8. CASE LeaveCollective(p)
      BY <1>1, <1>s, <3>8 DEF LeaveCollective, Return, TypeOK
    <3>9. CASE MpiAbort(p)
      BY <3>9 DEF MpiAbort
    <3> QED
      BY <1>1, <3>1, <3>2, <3>3, <3>4, <3>5, <3>6, <3>7, <3>8, <3>9 DEF Step
  <2>2. posted'[0] = posted[0]
    <3>1. ASSUME NEW c, NEW o, Post(p, c, o) PROVE posted'[0] = posted[0]
      BY <1>1, <1>s, <3>1 DEF Post, TypeOK
    <3> QED
      BY <1>1, <3>1 DEF Step, EnterCheck, SkipCheck, EnterBcast, ReturnFromBcast, Decide,
         MpiInit, EnterCollective, LeaveCollective, MpiAbort
  <2>3. status' = "alarm" => status = "alarm"
    BY <1>1 DEF Step, EnterCheck, SkipCheck, EnterBcast, ReturnFromBcast, Decide, Aborts,
       MpiInit, EnterCollective, LeaveCollective, MpiAbort
  <2> QED
    BY <2>1, <2>2, <2>3, RootFrame
<1>2. CASE EnterCheck(0)
  <2> DEFINE n == Done(0)
             o == [name |-> "check_reduce", kind |-> OpColor(Cur(0))]
  <2>1. /\ pc[0] = "user" /\ pos[0] < Len(prog[0]) /\ status = "running"
        /\ Post(0, World, o) /\ UNCHANGED <<prog, pos, status>>
        /\ Res' = [Res EXCEPT ![0] = OpColor(Cur(0))]
        /\ folded' = [folded EXCEPT ![0] = {0}]
        /\ pc' = [pc EXCEPT ![0] = "reduce"]
    <3>1. pc[0] = "user" /\ ~ AtEnd(0)
      BY <1>2 DEF EnterCheck
    <3>2. pos[0] < Len(prog[0])
      BY <1>s, <3>1, Sizes DEF TypeInv, Position, AtEnd
    <3> QED
      BY <1>2, <3>1, <3>2 DEF EnterCheck
  <2>2. o \in Operation /\ OpColor(Cur(0)) # Mismatch /\ o.kind = OpColor(Cur(0))
    BY <1>s, <2>1, CurrentCall DEF Operation
  <2> HIDE DEF o
  <2>3. /\ Len(Log(0)') = Len(Log(0)) + 1
        /\ Log(0)'[Len(Log(0)) + 1] = o
        /\ Done(0)' = n
    <3>1. /\ Len(posted'[0][World]) = Len(posted[0][World]) + 1
          /\ posted'[0][World][Len(posted[0][World]) + 1] = o
      BY <1>s, <2>1, <2>2, PostLog
    <3> QED
      BY <2>1, <3>1 DEF Log, Done
  <2>4. Res'[0] = o.kind /\ folded'[0] = {0} /\ pc'[0] = "reduce" /\ Res'[0] # Mismatch
    BY <1>s, <2>1, <2>2 DEF TypeOK
  <2>5. Len(Log(0)) = 3 * n /\ Res[0] # Mismatch
    BY <1>s, <1>w, <2>1
  <2>6. Log(0)'[3 * n + 1].kind = Res'[0]
    BY <1>s, <2>3, <2>4, <2>5
  <2>7. ASSUME NEW m \in Nat, 3 * m + 2 <= Len(Log(0)'), NEW q \in Procs
        PROVE  Agrees(q, m)'
    <3>1. 3 * m + 2 <= Len(Log(0)) /\ 3 * m + 1 <= Len(Log(0))
      BY <1>s, <2>3, <2>5, <2>7
    <3>2. Agrees(q, m)
      BY <2>5, <3>1 DEF RootInv
    <3> QED
      BY <3>1, <3>2, AgreementKept
  <2>8. (Agrees(0, Done(0)))'
    <3>1. 3 * n + 1 <= Len(Log(0)')
      BY <1>s, <2>3, <2>5
    <3> QED
      BY <2>3, <3>1 DEF Agrees
  <2> QED
    BY <2>1, <2>3, <2>4, <2>6, <2>7, <2>8 DEF RootInv
<1>3. CASE SkipCheck(0)
  <2>1. /\ UNCHANGED <<posted, Res, status>> /\ pc[0] = "user" /\ pc'[0] = "call"
    BY <1>3, <1>s DEF SkipCheck, TypeOK
  <2> QED
    BY <1>q, <1>w, <2>1
<1>4. ASSUME NEW q \in Procs, Combine(q)
      PROVE  RootInv'
  <2> DEFINE n == Done(0)
  <2>1. /\ pc[0] = "reduce" /\ Len(Log(q)) >= Len(Log(0)) /\ status = "running"
        /\ Res' = [Res EXCEPT ![0] = areequals(Log(q)[Len(Log(0))].kind, @)]
        /\ folded' = [folded EXCEPT ![0] = @ \cup {q}]
        /\ UNCHANGED <<prog, pos, pc, posted, status>>
    BY <1>4 DEF Combine, Arrived, Matching, Log
  <2>2. /\ Len(Log(0)) = 3 * n + 1 /\ n \in Nat /\ Len(Log(q)) \in Nat
    BY <1>s, <2>1, Sizes
  <2>3. /\ Res'[0] = areequals(Log(q)[3 * n + 1].kind, Res[0])
        /\ folded'[0] = folded[0] \cup {q}
    BY <1>s, <2>1, <2>2 DEF TypeOK
  <2>4. /\ Done(0)' = n /\ \A r \in Procs : Log(r)' = Log(r)
    BY <2>1 DEF Done, Log
  <2>5. /\ \A r, m : Agrees(r, m)' <=> Agrees(r, m)
        /\ \A r, m : Disagrees(r, m)' <=> Disagrees(r, m)
    BY <2>1 DEF Agrees, Disagrees, Log
  <2>6. Log(q)[3 * n + 1].kind # Mismatch
    <3>1. Shape(q) /\ 3 * n + 1 <= Len(Log(q))
      BY <2>1, <2>2 DEF ProcInv
    <3>2. PICK k \in 1 .. Len(prog[q]) : Log(q)[3 * n + 1].kind = OpColor(prog[q][k])
      BY <2>2, <3>1 DEF Shape, Triple
    <3>3. prog[q] \in Seq(Calls)
      BY Sizes
    <3>4. prog[q][k] \in Calls
      BY <3>3
    <3>5. prog[q][k].op = "collective" => prog[q][k].kind \in Kinds
      BY <3>4 DEF Calls
    <3> QED
      BY <3>2, <3>5, CheckAssumption DEF OpColor, Mismatch, C_Last
  <2>7. ASSUME Res'[0] # Mismatch
        PROVE  /\ Res'[0] = Log(0)[3 * n + 1].kind /\ Res[0] # Mismatch
               /\ \A r \in folded'[0] : Agrees(r, n)
    <3>1. Res[0] = Log(q)[3 * n + 1].kind /\ Res'[0] = Res[0]
      BY <2>3, <2>7 DEF areequals
    <3>2. Res[0] # Mismatch
      BY <2>6, <3>1
    <3>3. Res[0] = Log(0)[3 * n + 1].kind /\ \A r \in folded[0] : Agrees(r, n)
      BY <2>1, <3>2 DEF RootInv
    <3>4. Agrees(q, n)
      BY <2>1, <2>2, <3>1, <3>3 DEF Agrees
    <3> QED
      BY <2>3, <3>1, <3>2, <3>3, <3>4
  <2>8. ASSUME Res'[0] = Mismatch
        PROVE  \E r \in Procs : Disagrees(r, n)
    <3>1. CASE Res[0] = Mismatch
      BY <3>1 DEF RootInv
    <3>2. CASE Res[0] # Mismatch
      <4>1. Res[0] # Log(q)[3 * n + 1].kind
        BY <2>3, <2>8, <3>2 DEF areequals
      <4>2. Res[0] = Log(0)[3 * n + 1].kind
        BY <2>1, <3>2 DEF RootInv
      <4> QED
        BY <2>1, <2>2, <4>1, <4>2 DEF Disagrees
    <3> QED
      BY <3>1, <3>2
  <2>9. \A m \in Nat : 3 * m + 2 <= Len(Log(0)') /\ Res'[0] # Mismatch
          => \A r \in Procs : Agrees(r, m)'
    BY <1>s, <2>4, <2>5, <2>7 DEF RootInv
  <2>10. pc'[0] = "reduce" /\ status' # "alarm"
    BY <2>1
  <2>11. Res'[0] # Mismatch => /\ Res'[0] = (Log(0)[3 * Done(0) + 1].kind)'
                               /\ \A r \in folded'[0] : (Agrees(r, Done(0)))'
    BY <1>s, <2>4, <2>5, <2>7 DEF Agrees
  <2>12. Res'[0] = Mismatch => \E r \in Procs : (Disagrees(r, Done(0)))'
    BY <1>s, <2>4, <2>5, <2>8 DEF Disagrees
  <2> QED
    BY <2>9, <2>10, <2>11, <2>12 DEF RootInv
<1>5. CASE EnterBcast(0)
  <2> DEFINE n == Done(0)
             o == [name |-> "check_bcast", kind |-> Res[0]]
  <2>1. /\ pc[0] = "reduce" /\ folded[0] = Procs /\ status = "running"
        /\ Post(0, World, o) /\ UNCHANGED <<prog, pos, folded, Res, status>>
        /\ pc' = [pc EXCEPT ![0] = "bcast"]
    BY <1>5 DEF EnterBcast
  <2>2. o \in Operation /\ o.kind = Res[0]
    BY <1>s DEF Operation, TypeOK
  <2> HIDE DEF o
  <2>3. /\ Len(Log(0)') = Len(Log(0)) + 1
        /\ Log(0)'[Len(Log(0)) + 1] = o
        /\ Done(0)' = n
    <3>1. /\ Len(posted'[0][World]) = Len(posted[0][World]) + 1
          /\ posted'[0][World][Len(posted[0][World]) + 1] = o
      BY <1>s, <2>1, <2>2, PostLog
    <3> QED
      BY <2>1, <3>1 DEF Log, Done
  <2>4. Res'[0] = o.kind /\ pc'[0] = "bcast" /\ Res'[0] = Res[0]
    BY <1>s, <2>1, <2>2 DEF TypeOK
  <2>5. Len(Log(0)) = 3 * n + 1
    BY <1>s, <2>1
  <2>6. Log(0)'[3 * n + 2].kind = Res'[0]
    <3>1. Len(Log(0)) + 1 = 3 * n + 2
      BY <1>s, <2>5
    <3> QED
      BY <2>3, <2>4, <3>1
  <2>7. ASSUME NEW m \in Nat, 3 * m + 2 <= Len(Log(0)'), Res'[0] # Mismatch, NEW q \in Procs
        PROVE  Agrees(q, m)'
    <3>1. CASE m = n
      <4>1. Agrees(q, n)
        BY <2>1, <2>4, <2>7 DEF RootInv
      <4>2. 3 * m + 1 <= Len(Log(0)) /\ Agrees(q, m)
        BY <1>s, <2>5, <3>1, <4>1
      <4> QED
        BY <4>2, AgreementKept
    <3>2. CASE m # n
      <4>1. 3 * m + 2 <= Len(Log(0)) /\ 3 * m + 1 <= Len(Log(0))
        BY <1>s, <2>3, <2>5, <2>7, <3>2
      <4>2. Agrees(q, m)
        BY <2>4, <2>7, <4>1 DEF RootInv
      <4> QED
        BY <4>1, <4>2, AgreementKept
    <3> QED
      BY <3>1, <3>2
  <2>8. ASSUME Res'[0] = Mismatch
        PROVE  \E r \in Procs : (Disagrees(r, Done(0)))'
    <3>1. PICK r \in Procs : Disagrees(r, n)
      BY <2>4, <2>8 DEF RootInv
    <3>2. \A m \in Nat : m = n => Disagrees(r, m)'
      BY <1>s, <2>1, <3>1, AgreementKept
    <3> QED
      BY <1>s, <2>3, <3>2 DEF Disagrees
  <2> QED
    BY <2>1, <2>3, <2>4, <2>6, <2>7, <2>8 DEF RootInv
<1>6. CASE ReturnFromBcast(0)
  <2> DEFINE n == Done(0)
  <2>1. /\ pc[0] = "bcast" /\ UNCHANGED <<prog, pos, posted, folded, status>>
        /\ Res' = [Res EXCEPT ![0] = Log(0)[Len(Log(0))].kind]
        /\ pc' = [pc EXCEPT ![0] = "decide"]
    BY <1>6 DEF ReturnFromBcast, Matching, Log
  <2>2. Len(Log(0)) = 3 * n + 2
    BY <1>s, <2>1
  <2>3. Res'[0] = Res[0] /\ pc'[0] = "decide"
    BY <1>s, <2>1, <2>2 DEF RootInv, TypeOK
  <2>4. Done(0)' = n /\ Log(0)' = Log(0)
    BY <2>1 DEF Done, Log
  <2>5. /\ \A r, m : Agrees(r, m)' <=> Agrees(r, m)
        /\ \A r : (Disagrees(r, Done(0)))' <=> Disagrees(r, n)
    BY <2>1 DEF Agrees, Disagrees, Log, Done
  <2>6. Log(0)'[3 * n + 2].kind = Res'[0]
    BY <2>1, <2>3, <2>4 DEF RootInv
  <2>7. \A m \in Nat : 3 * m + 2 <= Len(Log(0)') /\ Res'[0] # Mismatch
          => \A r \in Procs : Agrees(r, m)'
    BY <2>3, <2>4, <2>5 DEF RootInv
  <2>8. Res'[0] = Mismatch => \E r \in Procs : (Disagrees(r, Done(0)))'
    BY <2>3, <2>5 DEF RootInv
  <2>9. status' = "alarm" => Res'[0] = Mismatch
    BY <2>1, <2>3 DEF RootInv
  <2> QED
    BY <2>3, <2>4, <2>6, <2>7, <2>8, <2>9 DEF RootInv
<1>7. CASE Decide(0)
  <2>1. CASE Res[0] = Mismatch
    <3>1. UNCHANGED <<prog, pos, pc, posted, folded, Res>> /\ status' = "alarm"
      BY <1>7, <2>1 DEF Decide, Aborts
    <3>2. pc[0] = "decide"
      BY <1>7 DEF Decide
    <3>3. /\ \A r, m : Agrees(r, m)' <=> Agrees(r, m)
          /\ \A r : (Disagrees(r, Done(0)))' <=> Disagrees(r, Done(0))
          /\ Log(0)' = Log(0) /\ Done(0)' = Done(0)
      BY <3>1 DEF Agrees, Disagrees, Log, Done
    <3> QED
      BY <2>1, <3>1, <3>2, <3>3 DEF RootInv
  <2>2. CASE Res[0] # Mismatch
    <3>1. UNCHANGED <<posted, Res, status>> /\ pc'[0] = "call" /\ status = "running"
      BY <1>7, <1>s, <2>2 DEF Decide, Aborts, TypeOK
    <3> QED
      BY <1>q, <2>2, <3>1
  <2> QED
    BY <2>1, <2>2
<1>8. CASE MpiInit(0)
  <2>1. UNCHANGED <<posted, Res, status>> /\ pc[0] = "call" /\ pc'[0] = "user"
    BY <1>8, <1>s DEF MpiInit, Return, TypeOK
  <2> QED
    BY <1>q, <1>w, <2>1
<1>9. CASE EnterCollective(0)
  <2>1. /\ pc[0] = "call" /\ Cur(0).op \in {"collective", "finalize"}
        /\ UNCHANGED <<Res, status>> /\ pc'[0] = "collective"
    BY <1>9, <1>s DEF EnterCollective, TypeOK
  <2>2. Len(Log(0)) = 3 * Done(0) + 2
    BY <1>s, <2>1 DEF ProcInv, Stage
  <2>3. pos[0] < Len(prog[0])
    BY <1>s, <2>1 DEF TypeInv, Position
  <2>4. Len(Log(0)') \in {Len(Log(0)), Len(Log(0)) + 1}
    <3> DEFINE o == [name |-> "collective", kind |-> OpColor(Cur(0))]
               c == Cur(0).comm
    <3>1. o \in Operation /\ c \in Comms \cup {World}
      BY <1>s, <2>3, CurrentCall DEF Operation
    <3>2. Post(0, c, o)
      BY <1>9 DEF EnterCollective
    <3> HIDE DEF o, c
    <3>3. /\ Len(posted'[0][c]) = Len(posted[0][c]) + 1
          /\ \A d \in Comms \cup {World} : d # c => posted'[0][d] = posted[0][d]
      BY <1>s, <3>1, <3>2, PostLog
    <3> QED
      BY <3>3 DEF Log
  <2>5. \A m \in Nat : 3 * m + 2 <= Len(Log(0)') => 3 * m + 2 <= Len(Log(0))
    BY <1>s, <2>2, <2>4
  <2> QED
    BY <1>w, <2>1, <2>5, RootOutside
<1>10. CASE LeaveCollective(0)
  <2>1. UNCHANGED <<posted, Res, status>> /\ pc[0] = "collective" /\ pc'[0] = "user"
    BY <1>10, <1>s DEF LeaveCollective, Return, TypeOK
  <2> QED
    BY <1>q, <1>w, <2>1
<1>11. CASE MpiAbort(0)
  <2>1. UNCHANGED <<posted, Res>> /\ pc[0] = "call" /\ pc'[0] = pc[0] /\ status' = "aborted"
    BY <1>11 DEF MpiAbort
  <2> QED
    BY <1>q, <1>w, <2>1
<1>12. CASE UNCHANGED vars
  BY <1>12, RootFrame DEF vars
<1>13. CASE Step(0)
  BY <1>2, <1>3, <1>5, <1>6, <1>7, <1>8, <1>9, <1>10, <1>11, <1>13 DEF Step
<1> QED
  BY <1>1, <1>4, <1>12, <1>13 DEF Next, Finished

-----------------------------------------------------------------------------
(* The theorems. *)

(* Before MPI_Init nothing has been entered and nothing been compared. *)
LEMMA CheckInit ==
  ASSUME Init
  PROVE  CheckInv
<1>0. 0 \in Procs /\ World \in Comms \cup {World}
  BY CheckAssumption DEF Procs
<1>1. ASSUME NEW p \in Procs
      PROVE  /\ Log(p) = <<>> /\ pos[p] = 0 /\ pc[p] = "user"
             /\ initialized[p] = FALSE /\ finalized[p] = FALSE /\ Res[p] = 0
             /\ \A c \in Comms : posted[p][c] = <<>>
  BY <1>0 DEF Init, Log
<1>2. ASSUME NEW p \in Procs PROVE Done(p) = 0 /\ Len(Log(p)) = 0
  <2>1. {j \in 1 .. 0 : prog[p][j].op # "init"} = {}
    OBVIOUS
  <2>2. Number(prog[p], 0) = 0
    BY <2>1, FS_EmptySet DEF Number
  <2>3. pos[p] = 0 /\ Log(p) = <<>>
    BY <1>1
  <2>4. Done(p) = 0
    BY <2>2, <2>3 DEF Done
  <2>5. Len(<<>>) = 0
    OBVIOUS
  <2> QED
    BY <2>3, <2>4, <2>5
<1>3. ASSUME NEW p \in Procs PROVE Progress(p) /\ Others(p)
  <2>1. pos[p] = 0 /\ pc[p] = "user" /\ ~ initialized[p] /\ ~ finalized[p]
    BY <1>1
  <2>2. Progress(p)
    <3>1. ~ \E j \in 1 .. pos[p] : prog[p][j].op = "init"
      BY <2>1
    <3> QED
      BY <2>1, <3>1 DEF Progress
  <2> QED
    BY <1>1, <2>2 DEF Others
<1>4. ASSUME NEW p \in Procs PROVE Stage(p)
  <2>1. pc[p] = "user" /\ Done(p) = 0 /\ Len(Log(p)) = 0
    BY <1>1, <1>2
  <2> QED
    BY <2>1 DEF Stage
<1>5. ASSUME NEW p \in Procs PROVE Shape(p)
  <2>1. ASSUME NEW n \in Nat PROVE Triple(p, n)
    <3>1. ~ (3 * n + 1 <= 0) /\ ~ (3 * n + 2 <= 0) /\ ~ (3 * n + 3 <= 0)
      OBVIOUS
    <3> QED
      BY <1>2, <3>1 DEF Triple
  <2> QED
    BY <2>1 DEF Shape
<1>6. ASSUME NEW p \in Procs PROVE Behind(p)
  BY <1>1, <1>2 DEF Behind
<1>7. RootInv
  <2>1. Res[0] # Mismatch /\ pc[0] = "user" /\ status = "running" /\ Len(Log(0)) = 0
    BY <1>0, <1>1, <1>2 DEF Init, Mismatch
  <2> QED
    BY <2>1 DEF RootInv
<1> QED
  BY <1>3, <1>4, <1>5, <1>6, <1>7 DEF CheckInv, ProcInv

(* Every behaviour of the check keeps the invariant. *)
LEMMA CheckInvariant ==
  ASSUME RegularOnWorld
  PROVE  Spec => [](TypeInv /\ CheckInv)
<1>1. Init => TypeInv /\ CheckInv
  BY InitType, CheckInit
<1>2. (TypeInv /\ CheckInv) /\ [Next]_vars => (TypeInv /\ CheckInv)'
  BY TypeStep, ProcStep, RootStep DEF CheckInv
<1> QED
  BY <1>1, <1>2, PTL DEF Spec

(* The operations of two processes at one place are of the same sort, and  *)
(* when rank 0 has found no mismatch they have the same colour.            *)
LEMMA SamePlace ==
  ASSUME TypeInv, CheckInv, Res[0] # Mismatch, NEW p \in Procs, NEW q \in Procs,
         NEW k \in Nat \ {0}, k <= Len(Log(p)), k <= Len(Log(q))
  PROVE  ~ Differ(Log(p)[k], Log(q)[k])
<1>1. Len(Log(p)) \in Nat /\ Len(Log(q)) \in Nat
  BY Sizes
<1>2. PICK n \in Nat : k = 3 * n + 1 \/ k = 3 * n + 2 \/ k = 3 * n + 3
  <2> DEFINE n == (k - 1) \div 3
  <2>1. n \in Int /\ 3 * n <= k - 1 /\ k - 1 < 3 * n + 3
    OBVIOUS
  <2> HIDE DEF n
  <2>2. n \in Nat /\ (k = 3 * n + 1 \/ k = 3 * n + 2 \/ k = 3 * n + 3)
    BY <2>1
  <2> QED
    BY <2>2
<1>3. Triple(p, n) /\ Triple(q, n) /\ Behind(p) /\ RootInv
  BY DEF CheckInv, ProcInv, Shape
<1>4. CASE k = 3 * n + 1
  BY <1>3, <1>4 DEF Triple, Differ
<1>5. CASE k = 3 * n + 2
  BY <1>3, <1>5 DEF Triple, Differ
<1>6. CASE k = 3 * n + 3
  <2>1. /\ Log(p)[k].name = Log(q)[k].name
        /\ Log(p)[k].kind = Log(p)[3 * n + 1].kind
        /\ Log(q)[k].kind = Log(q)[3 * n + 1].kind
    BY <1>3, <1>6 DEF Triple
  <2>2. 3 * n + 2 <= Len(Log(0))
    BY <1>3, <1>6 DEF Behind
  <2>3. Agrees(p, n) /\ Agrees(q, n)
    BY <1>3, <2>2 DEF RootInv
  <2> QED
    BY <2>1, <2>3 DEF Agrees, Differ
<1> QED
  BY <1>2, <1>4, <1>5, <1>6

(* MismatchIsDetected for any number of processes: whichever way the       *)
(* processes interleave, none is in a collective that does not match that  *)
(* of another unless the checks before it have told rank 0.                *)
THEOREM MismatchesAreDetected ==
  ASSUME RegularOnWorld
  PROVE  Spec => []MismatchIsDetected
<1>1. TypeInv /\ CheckInv => MismatchIsDetected
  <2> SUFFICES ASSUME TypeInv, CheckInv, Mismatched, ~ Detected
               PROVE  FALSE
    BY DEF MismatchIsDetected
  <2>1. PICK p \in Procs, q \in Procs, c \in Comms \cup {World} :
          \E k \in DOMAIN posted[p][c] \cap DOMAIN posted[q][c] :
            Differ(posted[p][c][k], posted[q][c][k])
    BY DEF Mismatched
  <2>2. PICK k \in DOMAIN posted[p][c] \cap DOMAIN posted[q][c] :
          Differ(posted[p][c][k], posted[q][c][k])
    BY <2>1
  <2>3. c = World
    <3>1. ASSUME c # World PROVE FALSE
      <4>1. posted[p][c] = <<>>
        BY <3>1 DEF CheckInv, ProcInv, Others
      <4>2. DOMAIN <<>> = {}
        OBVIOUS
      <4> QED
        BY <2>2, <4>1, <4>2
    <3> QED
      BY <3>1
  <2>4. /\ Log(p) \in Seq(Operation) /\ Log(q) \in Seq(Operation)
        /\ k \in DOMAIN Log(p) /\ k \in DOMAIN Log(q) /\ Differ(Log(p)[k], Log(q)[k])
    BY <2>2, <2>3, Sizes DEF Log
  <2>5. k \in Nat \ {0} /\ k <= Len(Log(p)) /\ k <= Len(Log(q))
    BY <2>4
  <2> QED
    BY <2>4, <2>5, SamePlace DEF Detected
<1>2. Spec => [](TypeInv /\ CheckInv)
  BY CheckInvariant
<1> QED
  BY <1>1, <1>2, PTL

(* The number of a call on MPI_COMM_WORLD is the one the checks count. *)
LEMMA WorldCalls ==
  ASSUME RegularOnWorld, TypeInv, NEW p \in Procs
  PROVE  CallsOn(p, World) =
           {<<Number(prog[p], k), prog[p][k]>> :
              k \in {i \in 1 .. Len(prog[p]) : prog[p][i].op # "init"}}
<1>1. \A k \in 1 .. Len(prog[p]) : prog[p][k].comm = World
  BY DEF RegularOnWorld, TypeInv, TypeOK
<1>2. \A k \in 1 .. Len(prog[p]) : On(p, World, k) <=> prog[p][k].op # "init"
  BY <1>1 DEF On
<1>3. ASSUME NEW k \in 1 .. Len(prog[p])
      PROVE  Cardinality({j \in 1 .. k : On(p, World, j)}) = Number(prog[p], k)
  <2>1. Len(prog[p]) \in Nat
    BY Sizes
  <2>2. \A j \in 1 .. k : j \in 1 .. Len(prog[p])
    BY <2>1
  <2>3. {j \in 1 .. k : On(p, World, j)} = {j \in 1 .. k : prog[p][j].op # "init"}
    BY <1>2, <2>2
  <2> QED
    BY <2>3 DEF Number
<1>4. {i \in 1 .. Len(prog[p]) : On(p, World, i)} =
        {i \in 1 .. Len(prog[p]) : prog[p][i].op # "init"}
  BY <1>2
<1> HIDE DEF On, Number
<1> QED
  BY <1>3, <1>4 DEF CallsOn

(* NoFalseAlarm for any number of processes: when rank 0 aborts, some      *)
(* process makes another call than rank 0 at the same place of its         *)
(* program, in whatever order MPI combined the colours.                    *)
THEOREM AlarmsAreTrue ==
  ASSUME RegularOnWorld
  PROVE  Spec => []NoFalseAlarm
<1>1. TypeInv /\ CheckInv => NoFalseAlarm
  <2> SUFFICES ASSUME TypeInv, CheckInv, status = "alarm", ValidProgram
               PROVE  FALSE
    BY DEF NoFalseAlarm
  <2> DEFINE n == Done(0)
  <2>1. /\ pc[0] \in {"reduce", "bcast", "decide"}
        /\ \E q \in Procs : Disagrees(q, n)
    BY DEF CheckInv, RootInv
  <2>2. PICK q \in Procs : Disagrees(q, n)
    BY <2>1
  <2>3. n \in Nat /\ 0 \in Procs /\ 3 * n + 1 <= Len(Log(0))
    BY <2>1, RootStage DEF CheckInv
  <2> HIDE DEF n
  <2>4. Triple(0, n) /\ Triple(q, n)
    BY <2>3 DEF CheckInv, ProcInv, Shape
  <2>5. PICK k0 \in 1 .. Len(prog[0]) :
          /\ prog[0][k0].op # "init" /\ Number(prog[0], k0) = n + 1
          /\ Log(0)[3 * n + 1].kind = OpColor(prog[0][k0])
    BY <2>3, <2>4 DEF Triple
  <2>6. PICK kq \in 1 .. Len(prog[q]) :
          /\ prog[q][kq].op # "init" /\ Number(prog[q], kq) = n + 1
          /\ Log(q)[3 * n + 1].kind = OpColor(prog[q][kq])
    BY <2>2, <2>4 DEF Triple, Disagrees
  <2>7. <<n + 1, prog[0][k0]>> \in CallsOn(q, World)
    <3>1. CallsOn(0, World) = CallsOn(q, World)
      BY <2>3 DEF ValidProgram, World
    <3>2. <<Number(prog[0], k0), prog[0][k0]>> \in CallsOn(0, World)
      BY <2>3, <2>5, WorldCalls
    <3> QED
      BY <2>5, <3>1, <3>2
  <2>8. PICK k \in 1 .. Len(prog[q]) :
          /\ prog[q][k].op # "init" /\ Number(prog[q], k) = n + 1
          /\ prog[q][k] = prog[0][k0]
    BY <2>7, WorldCalls
  <2>9. k = kq
    <3>1. Len(prog[q]) \in Nat
      BY Sizes
    <3>2. k \in Nat \ {0} /\ kq \in Nat \ {0}
      BY <3>1
    <3> QED
      BY <2>6, <2>8, <3>2, NumberUnique
  <2> QED
    BY <2>2, <2>5, <2>6, <2>8, <2>9 DEF Disagrees
<1>2. Spec => [](TypeInv /\ CheckInv)
  BY CheckInvariant
<1> QED
  BY <1>1, <1>2, PTL

=============================================================================
