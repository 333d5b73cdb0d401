-------------------------- MODULE RmaAnalyzerProofs -------------------------
(***************************************************************************)
(* Proofs about the epoch protocol, for any number of processes, any       *)
(* number of communications and any well-formed program: the types, and    *)
(* that an epoch ends on a process exactly when every access made to its   *)
(* window has been received and saved.                                     *)
(*                                                                         *)
(* The processes run one program, so the epoch number and the reduction    *)
(* round of a process follow from its position in it; a contribution to    *)
(* the reduction that ends an epoch holds the final number of messages of  *)
(* its sender, as a process that has contributed sends nothing more in     *)
(* that epoch; and the counters of the code are sizes of sets of messages. *)
(***************************************************************************)
EXTENDS RmaAnalyzer, CommonLemmas

ProgramsWellFormed == \A P \in Programs : WellFormed(P)

(* Call i of program P starts the checking thread with a new epoch number. *)
Starts(P, i) ==
  \/ P[i] \in {"lock_all", "fence"}
  \/ P[i] = "barrier" /\ OpenAfter(P, i - 1)

(* Call i of program P begins with the reductions that end an epoch. *)
Ends(P, i) ==
  \/ P[i] = "unlock_all"
  \/ P[i] = "fence" /\ Fenced(P, i - 1)
  \/ P[i] = "barrier" /\ OpenAfter(P, i - 1)

(* The epoch number and the reduction round after the first k calls. *)
EpochAt(P, k) == Cardinality({i \in 1 .. k : Starts(P, i)})
RoundAt(P, k) == Cardinality({i \in 1 .. k : Ends(P, i)})

-----------------------------------------------------------------------------
(* The inductive invariant. *)

(* Where the application thread is agrees with the program. *)
Phase(p) ==
  /\ pos[p] \in 0 .. Len(prog)
  /\ pc[p] \in {"reduce", "join", "fence", "restart", "barrier", "stop"}
       => pos[p] < Len(prog)
  /\ pc[p] \in {"sentItv", "sentStr"} => InEpoch(p)
  /\ pc[p] = "reduce" => Ends(prog, pos[p] + 1)
  /\ pc[p] = "join" => \/ Ends(prog, pos[p] + 1)
                       \/ prog[pos[p] + 1] = "free" /\ Fenced(prog, pos[p])
  /\ pc[p] = "fence" => prog[pos[p] + 1] = "fence" /\ Fenced(prog, pos[p])
  /\ pc[p] = "restart" => /\ prog[pos[p] + 1] = "barrier"
                          /\ OpenAfter(prog, pos[p])
                          /\ from_sync[p] = 1
  /\ pc[p] = "barrier" => prog[pos[p] + 1] = "barrier"
  /\ pc[p] = "stop" => prog[pos[p] + 1] = "free"
  /\ pc[p] = "done" => pos[p] > 0 /\ prog[pos[p]] = "free"

(* The flags of rma_analyzer_state follow from the position. *)
Flags(p) ==
  /\ count_fence[p] > 0 <=> Fenced(prog, pos[p])
  /\ active_epoch[p] = 1 <=> /\ pc[p] \notin {"fence", "restart", "stop", "done"}
                             /\ OpenAfter(prog, pos[p])
  /\ thread[p] = "off" <=> active_epoch[p] = 0
  /\ thread[p] = "exit" => pc[p] = "join"
  /\ thread_end[p] = 1 /\ thread[p] # "off" => pc[p] = "join"
  /\ from_sync[p] = 1 =>
       \E j \in 1 .. Len(prog) :
         /\ j <= IF pc[p] \in {"restart", "barrier"} THEN pos[p] + 1 ELSE pos[p]
         /\ prog[j] = "barrier" /\ OpenAfter(prog, j - 1)

(* So do its epoch number and its reduction round. *)
Counters(p) ==
  /\ count_epoch[p] = EpochAt(prog, IF pc[p] = "barrier" THEN pos[p] + 1 ELSE pos[p])
  /\ reduces[p] =
       RoundAt(prog, IF pc[p] \in {"join", "fence", "restart", "barrier", "stop"}
                     THEN pos[p] + 1 ELSE pos[p])

ProgramInv == \A p \in Procs : Phase(p) /\ Flags(p) /\ Counters(p)

(* p has handed its contribution to the reduction of round r at root. *)
Contributed(p, root, r) ==
  \/ reduces[p] > r
  \/ reduces[p] = r /\ pc[p] = "reduce" /\ redIdx[p] > root

(* Everything in flight or combined was contributed, once, and a process   *)
(* leaves its own reduction only when every process has contributed to it. *)
ReduceInv ==
  /\ \A c \in contrib :
       /\ c.src # c.root
       /\ Contributed(c.src, c.root, c.round)
       /\ \A d \in contrib : d.src = c.src /\ d.root = c.root /\ d.round = c.round
                               => d = c
       /\ c.round = reduces[c.root] => c.src \notin got[c.root]
  /\ \A p \in Procs :
       /\ p \notin got[p]
       /\ got[p] # {} => pc[p] = "reduce" /\ redIdx[p] = p
       /\ \A q \in got[p] : Contributed(q, p, reduces[p])
  /\ \A p, q \in Procs, r \in Nat : Contributed(p, p, r) => Contributed(q, p, r)

SentTo(q, p, e) == {m \in sent : m.src = q /\ m.dst = p /\ m.epoch = e}

(* What has been sent: the messages of a process are numbered, belong to   *)
(* an epoch it can send in, and all but the last one are counted.          *)
SentInv ==
  /\ IsFiniteSet(sent)
  /\ \A m \in sent : /\ m.epoch <= count_epoch[m.src]
                     /\ \E k \in 0 .. Len(prog) - 1 :
                          /\ m.epoch = EpochAt(prog, k)
                          /\ OpenAfter(prog, k)
                          /\ prog[k + 1] # "free"
  /\ \A p \in Procs :
       pc[p] \in {"sentItv", "sentStr"} =>
         /\ out[p] \in sent
         /\ out[p].src = p /\ out[p].epoch = count_epoch[p]
         /\ out[p].n = array[p][out[p].dst]
  /\ \A m \in sent :
       \/ m.epoch < count_epoch[m.src]
       \/ m.n < array[m.src][m.dst]
       \/ pc[m.src] \in {"sentItv", "sentStr"} /\ m = out[m.src]
  /\ \A q, p \in Procs :
       array[q][p] + (IF pc[q] \in {"sentItv", "sentStr"} /\ out[q].dst = p THEN 1 ELSE 0)
         = Cardinality(SentTo(q, p, count_epoch[q]))

(* The numbers that travel to the roots and the totals made of them. *)
TotalInv ==
  /\ \A c \in contrib, k \in 0 .. Len(prog) - 1 :
       Ends(prog, k + 1) /\ RoundAt(prog, k) = c.round
         => c.n = Cardinality(SentTo(c.src, c.root, EpochAt(prog, k)))
  /\ \A p \in Procs :
       partial[p] = Cardinality({m \in EpochMessages(p) : m.src \in got[p]})
  /\ \A p \in Procs :
       pc[p] = "join" \/ (pc[p] = "reduce" /\ redIdx[p] > p)
         => value[p] = Cardinality(EpochMessages(p))

(* What the checking thread has received. *)
Received(p) == {m \in EpochMessages(p) : m \notin net}

ReceivedInv ==
  /\ net \subseteq sent
  /\ \A m \in sent : m.epoch > count_epoch[m.dst] => m \in net
  /\ \A p \in Procs :
       /\ thread[p] \in {"test", "probe", "save"} => count[p] = Cardinality(Received(p))
       /\ thread[p] = "off" => count[p] = 0
       /\ thread[p] \in {"test", "exit"} => landed[p] = Received(p)
       /\ thread[p] \in {"probe", "save"} =>
            /\ cur[p] \in Received(p)
            /\ landed[p] \cup {cur[p]} = Received(p)

EpochInv ==
  /\ ProgramInv /\ ReduceInv /\ SentInv /\ TotalInv /\ ReceivedInv
  /\ NoStaleInterval /\ EpochComplete /\ NeverTerminated

-----------------------------------------------------------------------------
(* Types. *)

(* What the types rest on: a call that joins is one that can, a message    *)
(* being sent is one, and a thread that goes on to the file name has an    *)
(* interval.                                                               *)
CallInv ==
  \A p \in Procs :
    pc[p] \in {"reduce", "join"} =>
      /\ pos[p] < Len(prog)
      /\ prog[pos[p] + 1] \in {"unlock_all", "fence", "barrier", "free"}

MessageInv ==
  \A p \in Procs :
    /\ pc[p] \in {"sentItv", "sentStr"} => out[p] \in Message
    /\ thread[p] \in {"probe", "save"} => cur[p] \in Message

TypeInv == TypeOK /\ CallInv /\ MessageInv

(* fixForWindow wraps: the access at the target has addresses as bounds.   *)
LEMMA AtTargetType ==
  ASSUME NEW m \in Message
  PROVE  AtTarget(m) \in Access
<1>1. m.acc.Itv \in Interval /\ m.acc.Type \in AccessType /\ m.dst \in Procs
  BY DEF Message, Access
<1>2. m.acc.Itv.Low \in Int /\ m.acc.Itv.Up \in Int
  BY <1>1, WordAssumption DEF Interval, Address
<1>3. Base[m.dst] \in Nat /\ DispUnit[m.dst] \in Nat
  BY <1>1, AnalyzerAssumption
<1>4. ASSUME NEW n \in Int PROVE Wrap(n) \in Address /\ Wrap(n) \in Int
  BY WordAssumption DEF Wrap, Address
<1>5. m.acc.Itv.Low * DispUnit[m.dst] \in Int
  BY <1>2, <1>3
<1>6. Wrap(m.acc.Itv.Up - m.acc.Itv.Low) \in Int
  BY <1>2, <1>4
<1>7. Wrap(Wrap(m.acc.Itv.Low * DispUnit[m.dst]) + Base[m.dst]) \in Address
  BY <1>3, <1>4, <1>5
<1>8. fixForWindow(m.acc.Itv, Base[m.dst], DispUnit[m.dst]) \in Interval
  <2> DEFINE L == Wrap(Wrap(m.acc.Itv.Low * DispUnit[m.dst]) + Base[m.dst])
             Z == Wrap(m.acc.Itv.Up - m.acc.Itv.Low)
  <2>1. L \in Address /\ L \in Int /\ Z \in Int
    BY <1>6, <1>7, WordAssumption DEF Address
  <2>2. Wrap(L + Z) \in Address
    BY <1>4, <2>1
  <2>3. [Low |-> L, Up |-> Wrap(L + Z)] \in Interval
    BY <2>1, <2>2 DEF Interval
  <2> QED
    BY <2>3 DEF fixForWindow
<1> QED
  BY <1>1, <1>8 DEF AtTarget, Access

(* What an action leaves alone keeps its type. *)
LEMMA SameTypes ==
  /\ MainType /\ UNCHANGED mainVars => MainType'
  /\ ReduceType /\ UNCHANGED reduceVars => ReduceType'
  /\ ThreadType /\ UNCHANGED threadVars => ThreadType'
  /\ NetType /\ UNCHANGED netVars => NetType'
  /\ StateType /\ UNCHANGED stateVars => StateType'
BY DEF MainType, ReduceType, ThreadType, NetType, StateType,
       mainVars, reduceVars, threadVars, netVars, stateVars

(* A report of a conflict stops the program and changes nothing else. *)
LEMMA AbortType ==
  ASSUME TypeInv, NEW p \in Procs, NEW Acc, Abort(p, Acc)
  PROVE  TypeInv'
<1>1. UNCHANGED <<mainVars, reduceVars, threadVars, netVars, stateVars>>
  BY DEF Abort
<1>2. CallInv' /\ MessageInv'
  BY <1>1 DEF TypeInv, CallInv, MessageInv, mainVars, threadVars
<1>3. TypeOK'
  BY <1>1, SameTypes DEF TypeInv, TypeOK, Abort
<1> QED
  BY <1>2, <1>3 DEF TypeInv

(* rma_analyzer_init_comm_check_thread keeps the types of what it resets. *)
LEMMA InitThreadType ==
  ASSUME TypeOK, NEW p \in Procs, InitCommCheckThread(p),
         count_fence' \in [Procs -> Nat], UNCHANGED from_sync
  PROVE  StateType' /\ ThreadType' /\ status' \in {"running", "aborted", "terminated"}
<1>0. array' \in [Procs -> [Procs -> Nat]]
  <2>1. [q \in Procs |-> 0] \in [Procs -> Nat]
    OBVIOUS
  <2>2. array' = [array EXCEPT ![p] = [q \in Procs |-> 0]]
    BY DEF InitCommCheckThread
  <2> QED
    BY <2>1, <2>2 DEF TypeOK, StateType
<1>1. StateType'
  BY <1>0 DEF TypeOK, StateType, InitCommCheckThread
<1>2. ThreadType'
  BY DEF TypeOK, ThreadType, InitCommCheckThread
<1>3. status' \in {"running", "aborted", "terminated"}
  BY DEF TypeOK, InitCommCheckThread
<1> QED
  BY <1>1, <1>2, <1>3

(* The types hold for any program of synchronisation calls. *)
LEMMA TypeStep ==
  ASSUME TypeInv, [Next]_vars
  PROVE  TypeInv'
<1> USE DEF TypeInv
<1>0. /\ status \in {"running", "aborted", "terminated"}
      /\ MainType /\ ReduceType /\ ThreadType /\ NetType /\ StateType
      /\ CallInv /\ MessageInv
  BY DEF TypeOK
<1> USE <1>0
<1>2. ASSUME NEW p \in Procs, NEW Acc \in LocalOps, LoadStore(p, Acc)
      PROVE  TypeInv'
  <2>1. CASE Abort(p, Acc)
    BY <2>1, AbortType
  <2>2. CASE ~ Abort(p, Acc)
    <3>1. Insert(p, Acc) /\ UNCHANGED <<mainVars, reduceVars, threadVars, netVars,
                array, value, thread_end, count, count_epoch, count_fence,
                active_epoch, from_sync>>
      BY <1>2, <2>2 DEF LoadStore
    <3>2. Acc \in Access
      BY AnalyzerAssumption DEF Access, AccessType
    <3>3. StateType'
      BY <3>1, <3>2 DEF StateType, Insert
    <3>4. CallInv' /\ MessageInv'
      BY <3>1 DEF CallInv, MessageInv, mainVars, threadVars
    <3> QED
      BY <3>1, <3>3, <3>4, SameTypes DEF Insert, TypeOK
  <2> QED
    BY <2>1, <2>2
<1>3. ASSUME NEW p \in Procs, NEW q \in Procs, NEW op \in RmaOps, Communicate(p, q, op)
      PROVE  TypeInv'
  <2> DEFINE local == [Itv |-> op.origin, Type |-> OriginType(op.kind)]
             m == [src |-> p, dst |-> q, epoch |-> count_epoch[p], n |-> array[p][q],
                   file |-> op.file,
                   acc |-> [Itv |-> op.target, Type |-> TargetType(op.kind)]]
  <2>1. local \in Access
    BY AnalyzerAssumption DEF OriginType, Access, AccessType
  <2>2. m \in Message
    <3>1. op.target \in Interval /\ TargetType(op.kind) \in AccessType /\ op.file \in Files
      BY AnalyzerAssumption DEF TargetType, AccessType
    <3>2. count_epoch[p] \in Nat /\ array[p][q] \in Nat
      BY DEF StateType
    <3> QED
      BY <3>1, <3>2 DEF Message, Access
  <2>3. CASE Abort(p, local)
    BY <2>3, AbortType
  <2>4. CASE ~ Abort(p, local)
    <3>1. /\ Insert(p, local)
          /\ net' = net \cup {m}
          /\ sent' = sent \cup {m}
          /\ out' = [out EXCEPT ![p] = m]
          /\ pc' = [pc EXCEPT ![p] = "sentItv"]
          /\ UNCHANGED <<prog, pos, entered, reduceVars, threadVars, strs,
                         array, value, thread_end, count, count_epoch,
                         count_fence, active_epoch, from_sync>>
      BY <1>3, <2>4 DEF Communicate
    <3> HIDE DEF m, local
    <3>2. StateType'
      BY <2>1, <3>1 DEF StateType, Insert
    <3>3. MainType'
      BY <2>2, <3>1 DEF MainType
    <3>4. NetType'
      BY <2>2, <3>1 DEF NetType
    <3>5. CallInv' /\ MessageInv'
      BY <2>2, <3>1 DEF CallInv, MessageInv, MainType, threadVars
    <3> QED
      BY <3>1, <3>2, <3>3, <3>4, <3>5, SameTypes DEF Insert, TypeOK
  <2> QED
    BY <2>3, <2>4
<1>4. ASSUME NEW p \in Procs, SendString(p)
      PROVE  TypeInv'
  <2>1. ReduceType' /\ ThreadType' /\ StateType'
    BY <1>4, SameTypes DEF SendString, reduceVars, threadVars, stateVars
  <2>2. MainType'
    BY <1>4 DEF SendString, MainType
  <2>3. NetType'
    BY <1>4 DEF SendString, MessageInv, NetType
  <2>4. CallInv' /\ MessageInv' /\ status' \in {"running", "aborted", "terminated"}
    BY <1>4 DEF SendString, CallInv, MessageInv, MainType, ThreadType, reduceVars, threadVars, stateVars
  <2> QED
    BY <2>1, <2>2, <2>3, <2>4 DEF TypeOK
<1>5. ASSUME NEW p \in Procs, CountSend(p)
      PROVE  TypeInv'
  <2>1. ReduceType' /\ ThreadType' /\ NetType'
    BY <1>5, SameTypes DEF CountSend, reduceVars, threadVars, netVars
  <2>2. MainType'
    BY <1>5 DEF CountSend, MainType
  <2>3. StateType'
    <3>1. array' = [array EXCEPT ![p] = [array[p] EXCEPT ![out[p].dst] = @ + 1]]
      BY <1>5, Zenon DEF CountSend
    <3>2. array[p] \in [Procs -> Nat] /\ out[p].dst \in Procs
      BY <1>5 DEF StateType, CountSend, MessageInv, Message
    <3>3. [array[p] EXCEPT ![out[p].dst] = @ + 1] \in [Procs -> Nat]
      BY <3>2
    <3>4. array' \in [Procs -> [Procs -> Nat]]
      BY <3>1, <3>3 DEF StateType
    <3> QED
      BY <1>5, <3>4 DEF CountSend, StateType
  <2>4. CallInv' /\ MessageInv' /\ status' \in {"running", "aborted", "terminated"}
    BY <1>5 DEF CountSend, CallInv, MessageInv, MainType, ThreadType, reduceVars, threadVars, netVars
  <2> QED
    BY <2>1, <2>2, <2>3, <2>4 DEF TypeOK
<1>6. ASSUME NEW p \in Procs, ReceiveInterval(p)
      PROVE  TypeInv'
  <2>1. MainType' /\ ReduceType'
    BY <1>6, SameTypes DEF ReceiveInterval, mainVars, reduceVars
  <2>2. ThreadType'
    BY <1>6 DEF ReceiveInterval, NetType, ThreadType
  <2>3. NetType'
    BY <1>6 DEF ReceiveInterval, NetType
  <2>4. StateType'
    BY <1>6 DEF ReceiveInterval, StateType
  <2>5. CallInv' /\ MessageInv' /\ status' \in {"running", "aborted", "terminated"}
    BY <1>6 DEF ReceiveInterval, CallInv, MessageInv, MainType, ThreadType, NetType, mainVars, reduceVars
  <2> QED
    BY <2>1, <2>2, <2>3, <2>4, <2>5 DEF TypeOK
<1>7. ASSUME NEW p \in Procs, ReceiveString(p)
      PROVE  TypeInv'
  <2>1. MainType' /\ ReduceType' /\ StateType'
    BY <1>7, SameTypes DEF ReceiveString, mainVars, reduceVars, stateVars
  <2>2. ThreadType'
    BY <1>7 DEF ReceiveString, NetType, ThreadType
  <2>3. NetType'
    BY <1>7 DEF ReceiveString, NetType
  <2>4. CallInv' /\ MessageInv' /\ status' \in {"running", "aborted", "terminated"}
    BY <1>7 DEF ReceiveString, CallInv, MessageInv, MainType, ThreadType, mainVars, reduceVars, stateVars
  <2> QED
    BY <2>1, <2>2, <2>3, <2>4 DEF TypeOK
<1>8. ASSUME NEW p \in Procs, SaveReceived(p)
      PROVE  TypeInv'
  <2>1. AtTarget(cur[p]) \in Access /\ cur[p] \in Message
    BY <1>8, AtTargetType DEF SaveReceived, MessageInv
  <2>2. CASE Abort(p, AtTarget(cur[p]))
    BY <2>2, AbortType
  <2>3. CASE ~ Abort(p, AtTarget(cur[p]))
    <3>1. /\ Insert(p, AtTarget(cur[p]))
          /\ thread' = [thread EXCEPT ![p] = "test"]
          /\ landed' = [landed EXCEPT ![p] = @ \cup {cur[p]}]
          /\ UNCHANGED <<mainVars, reduceVars, cur, name, netVars, array, value,
                         thread_end, count, count_epoch, count_fence,
                         active_epoch, from_sync>>
      BY <1>8, <2>3 DEF SaveReceived
    <3>2. StateType'
      BY <2>1, <3>1 DEF StateType, Insert
    <3>3. ThreadType'
      BY <2>1, <3>1 DEF ThreadType
    <3>4. CallInv' /\ MessageInv'
      BY <3>1 DEF CallInv, MessageInv, ThreadType, mainVars
    <3> QED
      BY <3>1, <3>2, <3>3, <3>4, SameTypes DEF Insert, TypeOK
  <2> QED
    BY <2>2, <2>3
<1>9. ASSUME NEW p \in Procs, ExitThread(p)
      PROVE  TypeInv'
  <2>1. MainType' /\ ReduceType' /\ NetType'
    BY <1>9, SameTypes DEF ExitThread, mainVars, reduceVars, netVars
  <2>2. ThreadType'
    BY <1>9 DEF ExitThread, ThreadType
  <2>3. StateType'
    BY <1>9 DEF ExitThread, StateType
  <2>4. CallInv' /\ MessageInv' /\ status' \in {"running", "aborted", "terminated"}
    BY <1>9 DEF ExitThread, CallInv, MessageInv, MainType, ThreadType, mainVars, reduceVars, netVars
  <2> QED
    BY <2>1, <2>2, <2>3, <2>4 DEF TypeOK
<1>10. ASSUME NEW p \in Procs, WinLockAll(p)
      PROVE  TypeInv'
  <2>1. InitCommCheckThread(p) /\ count_fence' \in [Procs -> Nat] /\ UNCHANGED from_sync
    BY <1>10 DEF WinLockAll, StateType
  <2>2. ReduceType' /\ NetType'
    BY <1>10, SameTypes DEF WinLockAll
  <2>3. MainType'
    BY <1>10 DEF WinLockAll, Return, MainType
  <2>4. CallInv' /\ MessageInv'
    BY <1>10, <2>1 DEF WinLockAll, Return, InitCommCheckThread, CallInv, MessageInv, MainType, ThreadType
  <2> QED
    BY <2>1, <2>2, <2>3, <2>4, InitThreadType DEF TypeOK
<1>11. ASSUME NEW p \in Procs, BeginClear(p)
      PROVE  TypeInv'
  <2>1. ThreadType' /\ NetType' /\ StateType'
    BY <1>11, SameTypes DEF BeginClear, threadVars, netVars, stateVars
  <2>2. MainType'
    BY <1>11 DEF BeginClear, MainType
  <2>3. ReduceType'
    BY <1>11, AnalyzerAssumption DEF BeginClear, ReduceType
  <2>4. CallInv' /\ MessageInv' /\ status' \in {"running", "aborted", "terminated"}
    BY <1>11 DEF BeginClear, CallInv, MessageInv, MainType, ThreadType, Calls, threadVars, netVars, stateVars
  <2> QED
    BY <2>1, <2>2, <2>3, <2>4 DEF TypeOK
<1>12. ASSUME NEW p \in Procs, Contribute(p)
      PROVE  TypeInv'
  <2>1. MainType' /\ ThreadType' /\ NetType' /\ StateType'
    BY <1>12, SameTypes DEF Contribute, mainVars, threadVars, netVars, stateVars
  <2>2. ReduceType'
    <3>0. redIdx[p] \in 0 .. N /\ redIdx[p] < N
      BY <1>12 DEF Contribute, ReduceType
    <3>1. redIdx[p] \in Procs /\ redIdx[p] + 1 \in 0 .. N
      BY <3>0, AnalyzerAssumption DEF Procs
    <3>2. reduces[p] \in Nat /\ array[p][redIdx[p]] \in Nat
      BY <3>1 DEF ReduceType, StateType
    <3> DEFINE c == [src |-> p, root |-> redIdx[p], round |-> reduces[p],
                     n |-> array[p][redIdx[p]]]
    <3>3. c \in [src : Procs, root : Procs, round : Nat, n : Nat]
      BY <3>1, <3>2
    <3>4. contrib' = contrib \cup {c}
      BY <1>12 DEF Contribute
    <3> HIDE DEF c
    <3> QED
      BY <1>12, <3>1, <3>3, <3>4 DEF Contribute, ReduceType
  <2>3. CallInv' /\ MessageInv' /\ status' \in {"running", "aborted", "terminated"}
    BY <1>12 DEF Contribute, CallInv, MessageInv, MainType, ThreadType, mainVars, threadVars, netVars, stateVars
  <2> QED
    BY <2>1, <2>2, <2>3 DEF TypeOK
<1>13. ASSUME NEW p \in Procs, Combine(p)
      PROVE  TypeInv'
  <2>1. MainType' /\ ThreadType' /\ NetType' /\ StateType'
    BY <1>13, SameTypes DEF Combine, mainVars, threadVars, netVars, stateVars
  <2>2. ReduceType'
    BY <1>13 DEF Combine, ReduceType
  <2>3. CallInv' /\ MessageInv' /\ status' \in {"running", "aborted", "terminated"}
    BY <1>13 DEF Combine, CallInv, MessageInv, MainType, ThreadType, mainVars, threadVars, netVars, stateVars
  <2> QED
    BY <2>1, <2>2, <2>3 DEF TypeOK
<1>14. ASSUME NEW p \in Procs, ReduceReturns(p)
      PROVE  TypeInv'
  <2>1. MainType' /\ ThreadType' /\ NetType'
    BY <1>14, SameTypes DEF ReduceReturns, mainVars, threadVars, netVars
  <2>2. ReduceType'
    <3>1. redIdx[p] + 1 \in 0 .. N
      BY <1>14, AnalyzerAssumption DEF ReduceReturns, ReduceType, Procs
    <3> QED
      BY <1>14, <3>1 DEF ReduceReturns, ReduceType
  <2>3. StateType'
    BY <1>14 DEF ReduceReturns, Expected, ReduceType, StateType
  <2>4. CallInv' /\ MessageInv' /\ status' \in {"running", "aborted", "terminated"}
    BY <1>14 DEF ReduceReturns, CallInv, MessageInv, MainType, ThreadType, mainVars, threadVars, netVars
  <2> QED
    BY <2>1, <2>2, <2>3, <2>4 DEF TypeOK
<1>15. ASSUME NEW p \in Procs, EndThread(p)
      PROVE  TypeInv'
  <2>1. ThreadType' /\ NetType'
    BY <1>15, SameTypes DEF EndThread, threadVars, netVars
  <2>2. MainType'
    BY <1>15 DEF EndThread, MainType
  <2>3. ReduceType'
    BY <1>15 DEF EndThread, ReduceType
  <2>4. StateType'
    BY <1>15 DEF EndThread, StateType
  <2>5. CallInv' /\ MessageInv' /\ status' \in {"running", "aborted", "terminated"}
    BY <1>15 DEF EndThread, CallInv, MessageInv, MainType, ThreadType, threadVars, netVars
  <2> QED
    BY <2>1, <2>2, <2>3, <2>4, <2>5 DEF TypeOK
<1>16. ASSUME NEW p \in Procs, Join(p)
      PROVE  TypeInv'
  <2>1. /\ prog[pos[p] + 1] \in {"unlock_all", "fence", "barrier", "free"}
        /\ status' \in {"running", "aborted", "terminated"}
    BY <1>16 DEF Join, CallInv
  <2>2. /\ pos' \in [Procs -> Nat] /\ entered' \in [Procs -> Nat]
        /\ from_sync' \in [Procs -> 0 .. 1]
        /\ \/ pc' = [pc EXCEPT ![p] = "user"]
           \/ pc' = [pc EXCEPT ![p] = "fence"] /\ UNCHANGED pos
           \/ pc' = [pc EXCEPT ![p] = "restart"] /\ UNCHANGED pos
           \/ pc' = [pc EXCEPT ![p] = "stop"] /\ UNCHANGED pos
        /\ \A q \in Procs : q # p => pos'[q] = pos[q]
    <3>1. CASE prog[pos[p] + 1] = "unlock_all"
      <4>1. /\ pc' = [pc EXCEPT ![p] = "user"]
            /\ pos' = [pos EXCEPT ![p] = @ + 1]
            /\ UNCHANGED <<entered, from_sync>>
        BY <1>16, <3>1 DEF Join, Return
      <4> QED
        BY <4>1 DEF MainType, StateType
    <3>2. CASE prog[pos[p] + 1] = "fence"
      <4>1. /\ pc' = [pc EXCEPT ![p] = "fence"]
            /\ entered' = [entered EXCEPT ![p] = @ + 1]
            /\ UNCHANGED <<pos, from_sync>>
        BY <1>16, <3>2 DEF Join
      <4> QED
        BY <4>1 DEF MainType, StateType
    <3>3. CASE prog[pos[p] + 1] = "barrier"
      BY <1>16, <3>3 DEF Join, MainType, StateType
    <3>4. CASE prog[pos[p] + 1] = "free"
      BY <1>16, <3>4 DEF Join, MainType, StateType
    <3> QED
      BY <2>1, <3>1, <3>2, <3>3, <3>4
  <2>3. /\ thread' = [thread EXCEPT ![p] = "off"]
        /\ landed' = [landed EXCEPT ![p] = {}]
        /\ count' = [count EXCEPT ![p] = 0]
        /\ active_epoch' = [active_epoch EXCEPT ![p] = 0]
        /\ Intervals' = [Intervals EXCEPT ![p] = {}]
        /\ UNCHANGED <<prog, out, reduceVars, cur, name, netVars, array, value,
                 thread_end, count_epoch, count_fence>>
    BY <1>16 DEF Join
  <2>4. MainType'
    BY <2>2, <2>3 DEF MainType
  <2>5. StateType'
    BY <2>2, <2>3 DEF StateType
  <2>6. ThreadType'
    BY <2>3 DEF ThreadType
  <2>7. CallInv' /\ MessageInv'
    BY <2>2, <2>3 DEF CallInv, MessageInv, MainType, ThreadType
  <2> QED
    BY <2>1, <2>3, <2>4, <2>5, <2>6, <2>7, SameTypes DEF TypeOK
<1>17. ASSUME NEW p \in Procs, WinFence(p)
      PROVE  TypeInv'
  <2>1. InitCommCheckThread(p) /\ count_fence' \in [Procs -> Nat] /\ UNCHANGED from_sync
    BY <1>17 DEF WinFence, StateType
  <2>2. ReduceType' /\ NetType'
    BY <1>17, SameTypes DEF WinFence
  <2>3. MainType'
    BY <1>17 DEF WinFence, Return, MainType
  <2>4. CallInv' /\ MessageInv'
    BY <1>17, <2>1 DEF WinFence, Return, InitCommCheckThread, CallInv, MessageInv, MainType, ThreadType
  <2> QED
    BY <2>1, <2>2, <2>3, <2>4, InitThreadType DEF TypeOK
<1>18. ASSUME NEW p \in Procs, RestartThread(p)
      PROVE  TypeInv'
  <2>1. ReduceType' /\ NetType'
    BY <1>18, SameTypes DEF RestartThread
  <2>2. MainType'
    BY <1>18 DEF RestartThread, MainType
  <2>3. CASE NeedsRestart(p)
    <3>1. InitCommCheckThread(p) /\ count_fence' \in [Procs -> Nat] /\ UNCHANGED from_sync
      BY <1>18, <2>3 DEF RestartThread, StateType
    <3>2. CallInv' /\ MessageInv'
      BY <1>18, <3>1 DEF RestartThread, InitCommCheckThread, CallInv, MessageInv,
                         MainType, ThreadType
    <3> QED
      BY <2>1, <2>2, <3>1, <3>2, InitThreadType DEF TypeOK
  <2>4. CASE ~ NeedsRestart(p)
    <3>1. UNCHANGED <<status, threadVars, stateVars>>
      BY <1>18, <2>4 DEF RestartThread, stateVars
    <3>2. CallInv' /\ MessageInv'
      BY <1>18, <3>1 DEF RestartThread, CallInv, MessageInv, MainType, threadVars
    <3> QED
      BY <2>1, <2>2, <3>1, <3>2, SameTypes DEF TypeOK
  <2> QED
    BY <2>3, <2>4
<1>19. ASSUME NEW p \in Procs, LeaveBarrier(p)
      PROVE  TypeInv'
  <2>1. ReduceType' /\ ThreadType' /\ NetType' /\ StateType'
    BY <1>19, SameTypes DEF LeaveBarrier, reduceVars, threadVars, netVars, stateVars
  <2>2. MainType'
    BY <1>19 DEF LeaveBarrier, Return, MainType
  <2>3. CallInv' /\ MessageInv' /\ status' \in {"running", "aborted", "terminated"}
    BY <1>19 DEF LeaveBarrier, CallInv, MessageInv, MainType, ThreadType, Return, reduceVars, threadVars, netVars, stateVars
  <2> QED
    BY <2>1, <2>2, <2>3 DEF TypeOK
<1>20. ASSUME NEW p \in Procs, WinFreeClear(p)
      PROVE  TypeInv'
  <2>1. ReduceType' /\ ThreadType' /\ NetType'
    BY <1>20, SameTypes DEF WinFreeClear, reduceVars, threadVars, netVars
  <2>2. MainType'
    BY <1>20 DEF WinFreeClear, MainType
  <2>3. StateType'
    BY <1>20 DEF WinFreeClear, StateType
  <2>4. CallInv' /\ MessageInv' /\ status' \in {"running", "aborted", "terminated"}
    BY <1>20 DEF WinFreeClear, CallInv, MessageInv, MainType, ThreadType, Calls, reduceVars, threadVars, netVars
  <2> QED
    BY <2>1, <2>2, <2>3, <2>4 DEF TypeOK
<1>21. ASSUME NEW p \in Procs, WinFree(p)
      PROVE  TypeInv'
  <2>1. ReduceType' /\ ThreadType' /\ NetType' /\ StateType'
    BY <1>21, SameTypes DEF WinFree, reduceVars, threadVars, netVars, stateVars
  <2>2. MainType'
    BY <1>21 DEF WinFree, MainType
  <2>3. CallInv' /\ MessageInv' /\ status' \in {"running", "aborted", "terminated"}
    BY <1>21 DEF WinFree, CallInv, MessageInv, MainType, ThreadType, reduceVars, threadVars, netVars, stateVars
  <2> QED
    BY <2>1, <2>2, <2>3 DEF TypeOK
<1>22. CASE UNCHANGED vars
  <2>1. UNCHANGED <<status, mainVars, reduceVars, threadVars, netVars, stateVars>>
    BY <1>22 DEF vars
  <2>2. CallInv' /\ MessageInv'
    BY <2>1 DEF CallInv, MessageInv, mainVars, threadVars
  <2> QED
    BY <2>1, <2>2, SameTypes DEF TypeOK
<1> QED
  BY <1>2, <1>3, <1>4, <1>5, <1>6, <1>7, <1>8, <1>9, <1>10, <1>11, <1>12, <1>13, <1>14,
     <1>15, <1>16, <1>17, <1>18, <1>19, <1>20, <1>21, <1>22
  DEF Next, User, Call, CheckThread, Finished

(* The types hold at rma_analyzer_start. *)
LEMMA InitType ==
  ASSUME Init
  PROVE  TypeInv
BY AnalyzerAssumption DEF Init, TypeInv, TypeOK, MainType, ReduceType, ThreadType,
   NetType, StateType, CallInv, MessageInv, Procs

(* Every variable of rma_analyzer_state keeps its type, whatever calls the *)
(* program makes and however many processes run it.                        *)
THEOREM TypeCorrect == Spec => []TypeOK
<1>1. Init => TypeInv
  BY InitType
<1>2. TypeInv /\ [Next]_vars => TypeInv'
  BY TypeStep
<1>3. TypeInv => TypeOK
  BY DEF TypeInv
<1> QED
  BY <1>1, <1>2, <1>3, PTL DEF Spec

-----------------------------------------------------------------------------
(* Epochs and rounds as functions of the position in the program. *)

(* A call opens an epoch, closes it, or leaves it as it is. *)
LEMMA OpenStep ==
  ASSUME NEW P, NEW k \in Nat
  PROVE  OpenAfter(P, k + 1) <=>
           \/ P[k + 1] \in {"lock_all", "fence"}
           \/ P[k + 1] # "unlock_all" /\ OpenAfter(P, k)
<1>1. ASSUME OpenAfter(P, k + 1), P[k + 1] \notin {"lock_all", "fence"}
      PROVE  P[k + 1] # "unlock_all" /\ OpenAfter(P, k)
  <2>1. PICK i \in 1 .. k + 1 : /\ P[i] \in {"lock_all", "fence"}
                                /\ \A j \in i + 1 .. k + 1 : P[j] # "unlock_all"
    BY <1>1 DEF OpenAfter
  <2>2. i \in 1 .. k /\ k + 1 \in i + 1 .. k + 1
    BY <1>1, <2>1
  <2>3. \A j \in i + 1 .. k : P[j] # "unlock_all"
    BY <2>1
  <2> QED
    BY <2>1, <2>2, <2>3 DEF OpenAfter
<1>2. ASSUME P[k + 1] \in {"lock_all", "fence"}
      PROVE  OpenAfter(P, k + 1)
  <2>1. k + 1 \in 1 .. k + 1 /\ \A j \in (k + 1) + 1 .. k + 1 : P[j] # "unlock_all"
    OBVIOUS
  <2> QED
    BY <1>2, <2>1 DEF OpenAfter
<1>3. ASSUME P[k + 1] # "unlock_all", OpenAfter(P, k)
      PROVE  OpenAfter(P, k + 1)
  <2>1. PICK i \in 1 .. k : /\ P[i] \in {"lock_all", "fence"}
                            /\ \A j \in i + 1 .. k : P[j] # "unlock_all"
    BY <1>3 DEF OpenAfter
  <2>2. i \in 1 .. k + 1 /\ \A j \in i + 1 .. k + 1 : j \in i + 1 .. k \/ j = k + 1
    OBVIOUS
  <2> QED
    BY <1>3, <2>1, <2>2 DEF OpenAfter
<1> QED
  BY <1>1, <1>2, <1>3

(* Only a fence makes a program fenced. *)
LEMMA FencedStep ==
  ASSUME NEW P, NEW k \in Nat
  PROVE  Fenced(P, k + 1) <=> P[k + 1] = "fence" \/ Fenced(P, k)
<1>1. \A i : i \in 1 .. k + 1 <=> i \in 1 .. k \/ i = k + 1
  OBVIOUS
<1> QED
  BY <1>1 DEF Fenced

(* Nothing is open and nothing has happened before the first call. *)
LEMMA NothingBefore ==
  ASSUME NEW P
  PROVE  ~ OpenAfter(P, 0) /\ ~ Fenced(P, 0) /\ EpochAt(P, 0) = 0 /\ RoundAt(P, 0) = 0
<1>1. 1 .. 0 = {}
  OBVIOUS
<1> QED
  BY <1>1, FS_EmptySet DEF OpenAfter, Fenced, EpochAt, RoundAt

(* The epoch number grows with every call that starts a thread. *)
LEMMA EpochStep ==
  ASSUME NEW P, NEW k \in Nat
  PROVE  /\ EpochAt(P, k) \in Nat
         /\ EpochAt(P, k + 1) = EpochAt(P, k) + IF Starts(P, k + 1) THEN 1 ELSE 0
         /\ \A j \in 0 .. k : EpochAt(P, j) <= EpochAt(P, k)
<1> DEFINE S == {i \in Nat : Starts(P, i)}
<1>1. ASSUME NEW n \in Nat PROVE EpochAt(P, n) = Cardinality(1 .. n \cap S)
  <2>1. {i \in 1 .. n : Starts(P, i)} = 1 .. n \cap S
    OBVIOUS
  <2> QED
    BY <2>1 DEF EpochAt
<1>2. k + 1 \in S <=> Starts(P, k + 1)
  OBVIOUS
<1> HIDE DEF S
<1>3. /\ Cardinality(1 .. k \cap S) \in Nat
      /\ Cardinality(1 .. k + 1 \cap S) =
           Cardinality(1 .. k \cap S) + IF k + 1 \in S THEN 1 ELSE 0
  BY CountStep
<1>4. ASSUME NEW j \in 0 .. k
      PROVE  Cardinality(1 .. j \cap S) <= Cardinality(1 .. k \cap S)
  <2>1. j \in Nat /\ j <= k
    OBVIOUS
  <2> QED
    BY <2>1, CountMonotone
<1>5. k + 1 \in Nat /\ \A j \in 0 .. k : j \in Nat
  OBVIOUS
<1>6. /\ EpochAt(P, k) = Cardinality(1 .. k \cap S)
      /\ EpochAt(P, k + 1) = Cardinality(1 .. k + 1 \cap S)
      /\ \A j \in 0 .. k : EpochAt(P, j) = Cardinality(1 .. j \cap S)
  BY <1>1, <1>5
<1>7. \A j \in 0 .. k : EpochAt(P, j) <= EpochAt(P, k)
  BY <1>4, <1>6
<1> QED
  BY <1>2, <1>3, <1>6, <1>7

(* The round grows with every call that begins with reductions. *)
LEMMA RoundStep ==
  ASSUME NEW P, NEW k \in Nat
  PROVE  /\ RoundAt(P, k) \in Nat
         /\ RoundAt(P, k + 1) = RoundAt(P, k) + IF Ends(P, k + 1) THEN 1 ELSE 0
         /\ \A j \in 0 .. k : RoundAt(P, j) <= RoundAt(P, k)
<1> DEFINE S == {i \in Nat : Ends(P, i)}
<1>1. ASSUME NEW n \in Nat PROVE RoundAt(P, n) = Cardinality(1 .. n \cap S)
  <2>1. {i \in 1 .. n : Ends(P, i)} = 1 .. n \cap S
    OBVIOUS
  <2> QED
    BY <2>1 DEF RoundAt
<1>2. k + 1 \in S <=> Ends(P, k + 1)
  OBVIOUS
<1> HIDE DEF S
<1>3. /\ Cardinality(1 .. k \cap S) \in Nat
      /\ Cardinality(1 .. k + 1 \cap S) =
           Cardinality(1 .. k \cap S) + IF k + 1 \in S THEN 1 ELSE 0
  BY CountStep
<1>4. ASSUME NEW j \in 0 .. k
      PROVE  Cardinality(1 .. j \cap S) <= Cardinality(1 .. k \cap S)
  <2>1. j \in Nat /\ j <= k
    OBVIOUS
  <2> QED
    BY <2>1, CountMonotone
<1>5. k + 1 \in Nat /\ \A j \in 0 .. k : j \in Nat
  OBVIOUS
<1>6. /\ RoundAt(P, k) = Cardinality(1 .. k \cap S)
      /\ RoundAt(P, k + 1) = Cardinality(1 .. k + 1 \cap S)
      /\ \A j \in 0 .. k : RoundAt(P, j) = Cardinality(1 .. j \cap S)
  BY <1>1, <1>5
<1>7. \A j \in 0 .. k : RoundAt(P, j) <= RoundAt(P, k)
  BY <1>4, <1>6
<1> QED
  BY <1>2, <1>3, <1>6, <1>7

-----------------------------------------------------------------------------
(* The position of a process determines its flags and counters. *)

At(p) == Phase(p) /\ Flags(p) /\ Counters(p)

(* What these depend on is the same for q after the step. *)
SameAt(q) ==
  /\ prog' = prog
  /\ pos'[q] = pos[q]
  /\ pc'[q] = pc[q]
  /\ from_sync'[q] = from_sync[q]
  /\ count_fence'[q] = count_fence[q]
  /\ active_epoch'[q] = active_epoch[q]
  /\ thread'[q] = thread[q]
  /\ thread_end'[q] = thread_end[q]
  /\ count_epoch'[q] = count_epoch[q]
  /\ reduces'[q] = reduces[q]

(* A step that leaves these alone leaves q where it was. *)
LEMMA AtFrame ==
  ASSUME NEW q \in Procs, At(q), SameAt(q)
  PROVE  At(q)'
<1>1. Phase(q)'
  BY DEF At, SameAt, Phase, InEpoch, EpochOpen
<1>2. Flags(q)'
  BY DEF At, SameAt, Flags
<1>3. Counters(q)'
  BY DEF At, SameAt, Counters
<1> QED
  BY <1>1, <1>2, <1>3 DEF At

(* A well-formed program, at the next call. *)
LEMMA NextCall ==
  ASSUME ProgramsWellFormed, TypeInv, NEW p \in Procs, pos[p] < Len(prog)
  PROVE  /\ Len(prog) \in Nat /\ pos[p] \in Nat /\ pos[p] + 1 \in 1 .. Len(prog)
         /\ prog[pos[p] + 1] \in SyncCall
         /\ prog[pos[p] + 1] = "lock_all" => ~ OpenAfter(prog, pos[p])
         /\ prog[pos[p] + 1] = "unlock_all" => OpenAfter(prog, pos[p])
         /\ prog[pos[p] + 1] = "fence" =>
              (OpenAfter(prog, pos[p]) <=> Fenced(prog, pos[p]))
         /\ prog[pos[p] + 1] = "barrier" =>
              \/ OpenAfter(prog, pos[p])
              \/ \A j \in 1 .. pos[p] : prog[j] = "barrier" => ~ OpenAfter(prog, j - 1)
         /\ prog[pos[p] + 1] = "free" =>
              /\ pos[p] + 1 = Len(prog)
              /\ OpenAfter(prog, pos[p]) <=> Fenced(prog, pos[p])
<1>1. prog \in Seq(SyncCall) /\ WellFormed(prog) /\ pos[p] \in Nat
  BY AnalyzerAssumption DEF ProgramsWellFormed, TypeInv, TypeOK, MainType
<1>2. Len(prog) \in Nat /\ pos[p] + 1 \in 1 .. Len(prog) /\ (pos[p] + 1) - 1 = pos[p]
  BY <1>1
<1>3. prog[pos[p] + 1] \in SyncCall
  BY <1>1, <1>2
<1> QED
  BY <1>1, <1>2, <1>3 DEF WellFormed

(* How the flags and counters change when p goes on to the next call. *)
LEMMA NextPosition ==
  ASSUME TypeInv, NEW p \in Procs
  PROVE  /\ OpenAfter(prog, pos[p] + 1) <=>
              \/ prog[pos[p] + 1] \in {"lock_all", "fence"}
              \/ prog[pos[p] + 1] # "unlock_all" /\ OpenAfter(prog, pos[p])
         /\ Fenced(prog, pos[p] + 1) <=>
              prog[pos[p] + 1] = "fence" \/ Fenced(prog, pos[p])
         /\ Starts(prog, pos[p] + 1) <=>
              \/ prog[pos[p] + 1] \in {"lock_all", "fence"}
              \/ prog[pos[p] + 1] = "barrier" /\ OpenAfter(prog, pos[p])
         /\ Ends(prog, pos[p] + 1) <=>
              \/ prog[pos[p] + 1] = "unlock_all"
              \/ prog[pos[p] + 1] = "fence" /\ Fenced(prog, pos[p])
              \/ prog[pos[p] + 1] = "barrier" /\ OpenAfter(prog, pos[p])
         /\ EpochAt(prog, pos[p]) \in Nat
         /\ EpochAt(prog, pos[p] + 1) =
              EpochAt(prog, pos[p]) + IF Starts(prog, pos[p] + 1) THEN 1 ELSE 0
         /\ RoundAt(prog, pos[p]) \in Nat
         /\ RoundAt(prog, pos[p] + 1) =
              RoundAt(prog, pos[p]) + IF Ends(prog, pos[p] + 1) THEN 1 ELSE 0
<1>1. pos[p] \in Nat /\ (pos[p] + 1) - 1 = pos[p]
  BY DEF TypeInv, TypeOK, MainType
<1>2. /\ Starts(prog, pos[p] + 1) <=>
           \/ prog[pos[p] + 1] \in {"lock_all", "fence"}
           \/ prog[pos[p] + 1] = "barrier" /\ OpenAfter(prog, pos[p])
      /\ Ends(prog, pos[p] + 1) <=>
           \/ prog[pos[p] + 1] = "unlock_all"
           \/ prog[pos[p] + 1] = "fence" /\ Fenced(prog, pos[p])
           \/ prog[pos[p] + 1] = "barrier" /\ OpenAfter(prog, pos[p])
  BY <1>1 DEF Starts, Ends
<1> QED
  BY <1>1, <1>2, OpenStep, FencedStep, EpochStep, RoundStep

(* Every step keeps the flags and counters in line with the position, and  *)
(* no step ends in std::terminate.                                         *)
LEMMA ProgramStep ==
  ASSUME ProgramsWellFormed, TypeInv, ProgramInv, NeverTerminated, [Next]_vars
  PROVE  ProgramInv' /\ NeverTerminated'
<1> USE DEF NeverTerminated
<1>0. /\ MainType /\ ReduceType /\ ThreadType /\ StateType
      /\ \A q \in Procs : At(q)
  BY DEF TypeInv, TypeOK, ProgramInv, At
<1> USE <1>0
<1>1. ASSUME NEW p \in Procs, NEW Acc, Abort(p, Acc)
      PROVE  ProgramInv' /\ NeverTerminated'
  <2>1. \A q \in Procs : SameAt(q)
    BY <1>1 DEF Abort, SameAt, mainVars, reduceVars, threadVars, stateVars
  <2> QED
    BY <1>1, <2>1, AtFrame DEF Abort, ProgramInv, At
<1>2. ASSUME NEW p \in Procs, NEW Acc \in LocalOps, LoadStore(p, Acc)
      PROVE  ProgramInv' /\ NeverTerminated'
  <2>1. CASE ~ Abort(p, Acc)
    <3>1. \A q \in Procs : SameAt(q)
      BY <1>2, <2>1 DEF LoadStore, SameAt, mainVars, reduceVars, threadVars
    <3> QED
      BY <1>2, <2>1, <3>1, AtFrame DEF LoadStore, Insert, ProgramInv, At
  <2> QED
    BY <1>1, <2>1
<1>3. ASSUME NEW p \in Procs, NEW q \in Procs, NEW op \in RmaOps, Communicate(p, q, op)
      PROVE  ProgramInv' /\ NeverTerminated'
  <2> DEFINE local == [Itv |-> op.origin, Type |-> OriginType(op.kind)]
  <2>1. CASE ~ Abort(p, local)
    <3>1. /\ pc[p] = "user" /\ pc' = [pc EXCEPT ![p] = "sentItv"]
          /\ InEpoch(p) /\ status' = status
          /\ UNCHANGED <<prog, pos, reduceVars, threadVars, thread_end, count_epoch,
                         count_fence, active_epoch, from_sync>>
      BY <1>3, <2>1 DEF Communicate, Insert
    <3>2. \A r \in Procs : r # p => SameAt(r)
      BY <3>1 DEF SameAt, reduceVars, threadVars, MainType
    <3>3. Phase(p)'
      BY <3>1 DEF At, Phase, InEpoch, EpochOpen, MainType
    <3>4. Flags(p)' /\ Counters(p)'
      BY <3>1 DEF At, Flags, Counters, MainType, reduceVars, threadVars
    <3> QED
      BY <3>1, <3>2, <3>3, <3>4, AtFrame DEF ProgramInv, At
  <2> QED
    BY <1>1, <2>1
<1>4. ASSUME NEW p \in Procs, SendString(p)
      PROVE  ProgramInv' /\ NeverTerminated'
  <2>1. /\ pc[p] = "sentItv" /\ pc' = [pc EXCEPT ![p] = "sentStr"]
        /\ status' = status
        /\ UNCHANGED <<prog, pos, reduces, thread, thread_end, count_epoch,
                       count_fence, active_epoch, from_sync>>
    BY <1>4 DEF SendString, reduceVars, threadVars, stateVars
  <2>2. \A r \in Procs : r # p => SameAt(r)
    BY <2>1 DEF SameAt, MainType
  <2>3. Phase(p)'
    BY <2>1 DEF At, Phase, InEpoch, EpochOpen, MainType
  <2>4. Flags(p)' /\ Counters(p)'
    BY <2>1 DEF At, Flags, Counters, MainType
  <2> QED
    BY <2>1, <2>2, <2>3, <2>4, AtFrame DEF ProgramInv, At
<1>5. ASSUME NEW p \in Procs, CountSend(p)
      PROVE  ProgramInv' /\ NeverTerminated'
  <2>1. /\ pc[p] = "sentStr" /\ pc' = [pc EXCEPT ![p] = "user"]
        /\ status' = status
        /\ UNCHANGED <<prog, pos, reduces, thread, thread_end, count_epoch,
                       count_fence, active_epoch, from_sync>>
    BY <1>5 DEF CountSend, reduceVars, threadVars
  <2>2. \A r \in Procs : r # p => SameAt(r)
    BY <2>1 DEF SameAt, MainType
  <2>3. Phase(p)'
    BY <2>1 DEF At, Phase, MainType
  <2>4. Flags(p)' /\ Counters(p)'
    BY <2>1 DEF At, Flags, Counters, MainType
  <2> QED
    BY <2>1, <2>2, <2>3, <2>4, AtFrame DEF ProgramInv, At
<1>6. ASSUME NEW p \in Procs, ReceiveInterval(p)
      PROVE  ProgramInv' /\ NeverTerminated'
  <2>1. /\ thread[p] = "test" /\ thread' = [thread EXCEPT ![p] = "probe"]
        /\ status' = status
        /\ UNCHANGED <<prog, pos, pc, reduces, thread_end, count_epoch,
                       count_fence, active_epoch, from_sync>>
    BY <1>6 DEF ReceiveInterval, mainVars, reduceVars
  <2>2. \A r \in Procs : r # p => SameAt(r)
    BY <2>1 DEF SameAt, ThreadType
  <2>3. Phase(p)' /\ Counters(p)'
    BY <2>1 DEF At, Phase, InEpoch, EpochOpen, Counters
  <2>4. Flags(p)'
    BY <2>1 DEF At, Flags, ThreadType
  <2> QED
    BY <2>1, <2>2, <2>3, <2>4, AtFrame DEF ProgramInv, At
<1>7. ASSUME NEW p \in Procs, ReceiveString(p)
      PROVE  ProgramInv' /\ NeverTerminated'
  <2>1. /\ thread[p] = "probe" /\ thread' = [thread EXCEPT ![p] = "save"]
        /\ status' = status
        /\ UNCHANGED <<prog, pos, pc, reduces, thread_end, count_epoch,
                       count_fence, active_epoch, from_sync>>
    BY <1>7 DEF ReceiveString, mainVars, reduceVars, stateVars
  <2>2. \A r \in Procs : r # p => SameAt(r)
    BY <2>1 DEF SameAt, ThreadType
  <2>3. Phase(p)' /\ Counters(p)'
    BY <2>1 DEF At, Phase, InEpoch, EpochOpen, Counters
  <2>4. Flags(p)'
    BY <2>1 DEF At, Flags, ThreadType
  <2> QED
    BY <2>1, <2>2, <2>3, <2>4, AtFrame DEF ProgramInv, At
<1>8. ASSUME NEW p \in Procs, SaveReceived(p)
      PROVE  ProgramInv' /\ NeverTerminated'
  <2>0. CASE Abort(p, AtTarget(cur[p]))
    BY <1>1, <2>0
  <2>1. CASE ~ Abort(p, AtTarget(cur[p]))
    <3>1. /\ thread[p] = "save" /\ thread' = [thread EXCEPT ![p] = "test"]
          /\ status' = status
          /\ UNCHANGED <<prog, pos, pc, reduces, thread_end, count_epoch,
                         count_fence, active_epoch, from_sync>>
      BY <1>8, <2>1 DEF SaveReceived, Insert, mainVars, reduceVars
    <3>2. \A r \in Procs : r # p => SameAt(r)
      BY <3>1 DEF SameAt, ThreadType
    <3>3. Phase(p)' /\ Counters(p)'
      BY <3>1 DEF At, Phase, InEpoch, EpochOpen, Counters
    <3>4. Flags(p)'
      BY <3>1 DEF At, Flags, ThreadType
    <3> QED
      BY <3>1, <3>2, <3>3, <3>4, AtFrame DEF ProgramInv, At
  <2> QED
    BY <2>0, <2>1
<1>9. ASSUME NEW p \in Procs, ExitThread(p)
      PROVE  ProgramInv' /\ NeverTerminated'
  <2>1. /\ thread[p] = "test" /\ thread' = [thread EXCEPT ![p] = "exit"]
        /\ thread_end[p] = 1 /\ status' = status
        /\ UNCHANGED <<prog, pos, pc, reduces, thread_end, count_epoch,
                       count_fence, active_epoch, from_sync>>
    BY <1>9 DEF ExitThread, AllReceived, mainVars, reduceVars
  <2>2. \A r \in Procs : r # p => SameAt(r)
    BY <2>1 DEF SameAt, ThreadType
  <2>3. Phase(p)' /\ Counters(p)'
    BY <2>1 DEF At, Phase, InEpoch, EpochOpen, Counters
  <2>4. Flags(p)'
    BY <2>1 DEF At, Flags, ThreadType
  <2> QED
    BY <2>1, <2>2, <2>3, <2>4, AtFrame DEF ProgramInv, At
<1>10. ASSUME NEW p \in Procs, WinLockAll(p)
      PROVE  ProgramInv' /\ NeverTerminated'
  <2>1. /\ pc[p] = "user" /\ pos[p] < Len(prog) /\ prog[pos[p] + 1] = "lock_all"
        /\ pc' = [pc EXCEPT ![p] = "user"] /\ pos' = [pos EXCEPT ![p] = @ + 1]
        /\ thread' = [thread EXCEPT ![p] = "test"]
        /\ thread_end' = [thread_end EXCEPT ![p] = 0]
        /\ active_epoch' = [active_epoch EXCEPT ![p] = 1]
        /\ count_epoch' = [count_epoch EXCEPT ![p] = @ + 1]
        /\ status' = IF thread[p] = "off" THEN status ELSE "terminated"
        /\ UNCHANGED <<prog, reduces, count_fence, from_sync>>
    BY <1>10 DEF WinLockAll, Calls, InitCommCheckThread, Return, reduceVars
  <2>2. \A r \in Procs : r # p => SameAt(r)
    BY <2>1 DEF SameAt, MainType, ThreadType, StateType
  <2>3. thread[p] = "off"
    BY <2>1, NextCall DEF At, Flags, StateType
  <2>4. Phase(p)'
    BY <2>1, NextCall DEF At, Phase, MainType
  <2>5. Flags(p)'
    BY <2>1, NextCall, NextPosition DEF At, Flags, MainType, ThreadType, StateType
  <2>6. Counters(p)'
    <3>1. /\ EpochAt(prog, pos[p] + 1) = EpochAt(prog, pos[p]) + 1
          /\ RoundAt(prog, pos[p] + 1) = RoundAt(prog, pos[p])
      BY <2>1, NextPosition
    <3> QED
      BY <2>1, <3>1 DEF At, Counters, MainType, StateType
  <2> QED
    BY <2>1, <2>2, <2>3, <2>4, <2>5, <2>6, AtFrame DEF ProgramInv, At
<1>11. ASSUME NEW p \in Procs, BeginClear(p)
      PROVE  ProgramInv' /\ NeverTerminated'
  <2>1. /\ pc[p] = "user" /\ pos[p] < Len(prog)
        /\ \/ prog[pos[p] + 1] = "unlock_all"
           \/ prog[pos[p] + 1] = "fence" /\ count_fence[p] > 0
           \/ prog[pos[p] + 1] = "barrier" /\ active_epoch[p] > 0
        /\ pc' = [pc EXCEPT ![p] = "reduce"] /\ status' = status
        /\ UNCHANGED <<prog, pos, reduces, thread, thread_end, count_epoch,
                       count_fence, active_epoch, from_sync>>
    BY <1>11 DEF BeginClear, Calls, threadVars, stateVars
  <2>2. \A r \in Procs : r # p => SameAt(r)
    BY <2>1 DEF SameAt, MainType
  <2>3. Ends(prog, pos[p] + 1)
    BY <2>1, NextPosition DEF At, Flags, StateType
  <2>4. Phase(p)'
    BY <2>1, <2>3 DEF At, Phase, MainType
  <2>5. Flags(p)' /\ Counters(p)'
    BY <2>1 DEF At, Flags, Counters, MainType
  <2> QED
    BY <2>1, <2>2, <2>4, <2>5, AtFrame DEF ProgramInv, At
<1>12. ASSUME NEW p \in Procs, Contribute(p)
      PROVE  ProgramInv' /\ NeverTerminated'
  <2>1. \A q \in Procs : SameAt(q)
    BY <1>12 DEF Contribute, SameAt, mainVars, threadVars, stateVars
  <2> QED
    BY <1>12, <2>1, AtFrame DEF Contribute, ProgramInv, At, NeverTerminated
<1>13. ASSUME NEW p \in Procs, Combine(p)
      PROVE  ProgramInv' /\ NeverTerminated'
  <2>1. \A q \in Procs : SameAt(q)
    BY <1>13 DEF Combine, SameAt, mainVars, threadVars, stateVars
  <2> QED
    BY <1>13, <2>1, AtFrame DEF Combine, ProgramInv, At, NeverTerminated
<1>14. ASSUME NEW p \in Procs, ReduceReturns(p)
      PROVE  ProgramInv' /\ NeverTerminated'
  <2>1. \A q \in Procs : SameAt(q)
    BY <1>14 DEF ReduceReturns, SameAt, mainVars, threadVars
  <2> QED
    BY <1>14, <2>1, AtFrame DEF ReduceReturns, ProgramInv, At, NeverTerminated
<1>15. ASSUME NEW p \in Procs, EndThread(p)
      PROVE  ProgramInv' /\ NeverTerminated'
  <2>1. /\ pc[p] = "reduce" /\ pc' = [pc EXCEPT ![p] = "join"] /\ status' = status
        /\ thread_end' = [thread_end EXCEPT ![p] = 1]
        /\ reduces' = [reduces EXCEPT ![p] = @ + 1]
        /\ UNCHANGED <<prog, pos, thread, count_epoch, count_fence, active_epoch, from_sync>>
    BY <1>15 DEF EndThread, threadVars
  <2>2. \A r \in Procs : r # p => SameAt(r)
    BY <2>1 DEF SameAt, MainType, StateType, ReduceType
  <2>4. Phase(p)'
    BY <2>1 DEF At, Phase, MainType
  <2>5. Flags(p)'
    BY <2>1 DEF At, Flags, MainType, StateType
  <2>6. Counters(p)'
    BY <2>1, NextPosition DEF At, Phase, Counters, MainType, ReduceType
  <2> QED
    BY <2>1, <2>2, <2>4, <2>5, <2>6, AtFrame DEF ProgramInv, At
<1>16. ASSUME NEW p \in Procs, Join(p)
      PROVE  ProgramInv' /\ NeverTerminated'
  <2>1. /\ pc[p] = "join" /\ thread[p] \in {"exit", "off"}
        /\ status' = IF thread[p] = "exit" THEN status ELSE "terminated"
        /\ thread' = [thread EXCEPT ![p] = "off"]
        /\ active_epoch' = [active_epoch EXCEPT ![p] = 0]
        /\ UNCHANGED <<prog, reduces, thread_end, count_epoch, count_fence>>
    BY <1>16 DEF Join, reduceVars
  <2>2. /\ pos[p] < Len(prog)
        /\ \/ Ends(prog, pos[p] + 1)
           \/ prog[pos[p] + 1] = "free" /\ Fenced(prog, pos[p])
    BY <2>1 DEF At, Phase
  <2>3. thread[p] = "exit"
    <3>1. OpenAfter(prog, pos[p])
      BY <2>2, NextCall, NextPosition
    <3>2. active_epoch[p] = 1
      BY <2>1, <3>1 DEF At, Flags
    <3>3. thread[p] = "off" <=> active_epoch[p] = 0
      BY DEF At, Flags
    <3> QED
      BY <2>1, <3>2, <3>3
  <2>4. CASE prog[pos[p] + 1] = "unlock_all"
    <3>1. /\ pc' = [pc EXCEPT ![p] = "user"] /\ pos' = [pos EXCEPT ![p] = @ + 1]
          /\ from_sync' = from_sync
      BY <1>16, <2>4 DEF Join, Return
    <3>2. \A r \in Procs : r # p => SameAt(r)
      BY <2>1, <3>1 DEF SameAt, MainType, ThreadType, StateType
    <3>3. Phase(p)'
      BY <2>1, <2>2, <3>1, NextCall DEF At, Phase, MainType
    <3>4. Flags(p)'
      <4>1. ~ OpenAfter(prog, pos[p] + 1) /\ (Fenced(prog, pos[p] + 1) <=> Fenced(prog, pos[p]))
        BY <2>4, NextPosition
      <4> QED
        BY <2>1, <3>1, <4>1 DEF At, Flags, MainType, ThreadType, StateType
    <3>5. Counters(p)'
      <4>1. EpochAt(prog, pos[p] + 1) = EpochAt(prog, pos[p])
        BY <2>4, NextPosition
      <4> QED
        BY <2>1, <3>1, <4>1 DEF At, Counters, MainType
    <3> QED
      BY <2>1, <2>3, <3>2, <3>3, <3>4, <3>5, AtFrame DEF ProgramInv, At
  <2>5. CASE prog[pos[p] + 1] = "fence"
    <3>1. pc' = [pc EXCEPT ![p] = "fence"] /\ UNCHANGED <<pos, from_sync>>
      BY <1>16, <2>5 DEF Join
    <3>2. \A r \in Procs : r # p => SameAt(r)
      BY <2>1, <3>1 DEF SameAt, MainType, ThreadType, StateType
    <3>3. Phase(p)'
      BY <2>1, <2>2, <2>5, <3>1, NextPosition DEF At, Phase, MainType
    <3>4. Flags(p)'
      BY <2>1, <3>1 DEF At, Flags, MainType, ThreadType, StateType
    <3>5. Counters(p)'
      BY <2>1, <3>1 DEF At, Counters, MainType
    <3> QED
      BY <2>1, <2>3, <3>2, <3>3, <3>4, <3>5, AtFrame DEF ProgramInv, At
  <2>6. CASE prog[pos[p] + 1] = "barrier"
    <3>1. /\ pc' = [pc EXCEPT ![p] = "restart"] /\ pos' = pos
          /\ from_sync' = [from_sync EXCEPT ![p] = 1]
      BY <1>16, <2>6 DEF Join
    <3>2. \A r \in Procs : r # p => SameAt(r)
      BY <2>1, <3>1 DEF SameAt, MainType, ThreadType, StateType
    <3>a. OpenAfter(prog, pos[p])
      BY <2>2, <2>6, NextPosition
    <3>3. Phase(p)'
      BY <2>1, <2>2, <2>6, <3>1, <3>a DEF At, Phase, MainType, StateType
    <3>4. Flags(p)'
      <4>1. /\ pos[p] + 1 \in 1 .. Len(prog) /\ pos[p] + 1 <= pos[p] + 1
            /\ OpenAfter(prog, (pos[p] + 1) - 1)
        BY <2>2, <3>a, NextCall
      <4> QED
        BY <2>1, <2>6, <3>1, <4>1 DEF At, Flags, MainType, ThreadType, StateType
    <3>5. Counters(p)'
      BY <2>1, <3>1 DEF At, Counters, MainType
    <3> QED
      BY <2>1, <2>3, <3>2, <3>3, <3>4, <3>5, AtFrame DEF ProgramInv, At
  <2>7. CASE prog[pos[p] + 1] = "free"
    <3>1. pc' = [pc EXCEPT ![p] = "stop"] /\ UNCHANGED <<pos, from_sync>>
      BY <1>16, <2>7 DEF Join
    <3>2. \A r \in Procs : r # p => SameAt(r)
      BY <2>1, <3>1 DEF SameAt, MainType, ThreadType, StateType
    <3>3. Phase(p)'
      BY <2>1, <2>2, <2>7, <3>1 DEF At, Phase, MainType
    <3>4. Flags(p)'
      BY <2>1, <3>1 DEF At, Flags, MainType, ThreadType, StateType
    <3>5. Counters(p)'
      BY <2>1, <3>1 DEF At, Counters, MainType
    <3> QED
      BY <2>1, <2>3, <3>2, <3>3, <3>4, <3>5, AtFrame DEF ProgramInv, At
  <2> QED
    BY <2>2, <2>4, <2>5, <2>6, <2>7, NextPosition
<1>17. ASSUME NEW p \in Procs, WinFence(p)
      PROVE  ProgramInv' /\ NeverTerminated'
  <2>1. /\ pos[p] < Len(prog) /\ prog[pos[p] + 1] = "fence"
        /\ (pc[p] = "user" /\ count_fence[p] = 0) \/ pc[p] = "fence"
        /\ pc' = [pc EXCEPT ![p] = "user"] /\ pos' = [pos EXCEPT ![p] = @ + 1]
        /\ thread' = [thread EXCEPT ![p] = "test"]
        /\ thread_end' = [thread_end EXCEPT ![p] = 0]
        /\ active_epoch' = [active_epoch EXCEPT ![p] = 1]
        /\ count_epoch' = [count_epoch EXCEPT ![p] = @ + 1]
        /\ count_fence' = [count_fence EXCEPT ![p] = @ + 1]
        /\ status' = IF thread[p] = "off" THEN status ELSE "terminated"
        /\ UNCHANGED <<prog, reduces, from_sync>>
    BY <1>17 DEF WinFence, Calls, InitCommCheckThread, Return, reduceVars, At, Phase
  <2>2. \A r \in Procs : r # p => SameAt(r)
    BY <2>1 DEF SameAt, MainType, ThreadType, StateType
  <2>3. thread[p] = "off"
    BY <2>1, NextCall DEF At, Flags, StateType
  <2>4. Phase(p)'
    BY <2>1, NextCall DEF At, Phase, MainType
  <2>5. Flags(p)'
    <3>1. OpenAfter(prog, pos[p] + 1) /\ Fenced(prog, pos[p] + 1)
      BY <2>1, NextPosition
    <3> QED
      BY <2>1, <3>1, NextCall DEF At, Flags, MainType, ThreadType, StateType
  <2>6. Counters(p)'
    <3>1. EpochAt(prog, pos[p] + 1) = EpochAt(prog, pos[p]) + 1
      BY <2>1, NextPosition
    <3>2. reduces[p] = RoundAt(prog, pos[p] + 1)
      <4>1. CASE pc[p] = "fence"
        BY <4>1 DEF At, Counters
      <4>2. CASE pc[p] = "user" /\ count_fence[p] = 0
        <5>1. ~ Fenced(prog, pos[p]) /\ reduces[p] = RoundAt(prog, pos[p])
          BY <4>2 DEF At, Flags, Counters
        <5> QED
          BY <2>1, <5>1, NextPosition
      <4> QED
        BY <2>1, <4>1, <4>2
    <3>3. count_epoch[p] = EpochAt(prog, pos[p])
      BY <2>1 DEF At, Counters
    <3> QED
      BY <2>1, <3>1, <3>2, <3>3 DEF Counters, MainType, StateType
  <2> QED
    BY <2>1, <2>2, <2>3, <2>4, <2>5, <2>6, AtFrame DEF ProgramInv, At
<1>18. ASSUME NEW p \in Procs, RestartThread(p)
      PROVE  ProgramInv' /\ NeverTerminated'
  <2>1. /\ pos[p] < Len(prog) /\ prog[pos[p] + 1] = "barrier"
        /\ \/ pc[p] = "user" /\ active_epoch[p] = 0
           \/ pc[p] = "restart" /\ OpenAfter(prog, pos[p]) /\ from_sync[p] = 1
        /\ pc' = [pc EXCEPT ![p] = "barrier"]
        /\ UNCHANGED <<prog, pos, reduces, count_fence, from_sync>>
    BY <1>18 DEF RestartThread, Calls, reduceVars, At, Phase
  <2>2. CASE pc[p] = "restart"
    <3>0. active_epoch[p] = 0 /\ thread[p] = "off"
      BY <2>2 DEF At, Flags, StateType
    <3>1. /\ thread' = [thread EXCEPT ![p] = "test"]
          /\ thread_end' = [thread_end EXCEPT ![p] = 0]
          /\ active_epoch' = [active_epoch EXCEPT ![p] = 1]
          /\ count_epoch' = [count_epoch EXCEPT ![p] = @ + 1]
          /\ status' = status
      BY <1>18, <2>1, <2>2, <3>0 DEF RestartThread, NeedsRestart, InitCommCheckThread
    <3>2. \A r \in Procs : r # p => SameAt(r)
      BY <2>1, <3>1 DEF SameAt, MainType, ThreadType, StateType
    <3>3. Phase(p)'
      BY <2>1, <3>1 DEF At, Phase, MainType
    <3>4. Flags(p)'
      BY <2>1, <2>2, <3>1 DEF At, Flags, MainType, ThreadType, StateType
    <3>5. Counters(p)'
      <4>1. EpochAt(prog, pos[p] + 1) = EpochAt(prog, pos[p]) + 1
        BY <2>1, <2>2, NextPosition
      <4> QED
        BY <2>1, <2>2, <3>1, <4>1 DEF At, Counters, MainType, StateType
    <3> QED
      BY <3>1, <3>2, <3>3, <3>4, <3>5, AtFrame DEF ProgramInv, At
  <2>3. CASE pc[p] = "user"
    <3>0. active_epoch[p] = 0 /\ ~ OpenAfter(prog, pos[p])
      BY <2>1, <2>3 DEF At, Flags
    <3>1. from_sync[p] # 1
      <4> SUFFICES ASSUME from_sync[p] = 1 PROVE FALSE
        OBVIOUS
      <4>1. PICK j \in 1 .. Len(prog) :
              j <= pos[p] /\ prog[j] = "barrier" /\ OpenAfter(prog, j - 1)
        BY <2>3 DEF At, Flags
      <4>2. j \in 1 .. pos[p]
        BY <2>1, <4>1, NextCall
      <4> QED
        BY <2>1, <3>0, <4>1, <4>2, NextCall
    <3>2. UNCHANGED <<status, thread, thread_end, active_epoch, count_epoch>>
      BY <1>18, <3>1 DEF RestartThread, NeedsRestart, threadVars
    <3>3. \A r \in Procs : r # p => SameAt(r)
      BY <2>1, <3>2 DEF SameAt, MainType
    <3>4. Phase(p)'
      BY <2>1, <3>2 DEF At, Phase, MainType
    <3>5. Flags(p)'
      BY <2>1, <2>3, <3>0, <3>1, <3>2 DEF At, Flags, MainType
    <3>6. Counters(p)'
      <4>1. /\ EpochAt(prog, pos[p] + 1) = EpochAt(prog, pos[p])
            /\ RoundAt(prog, pos[p] + 1) = RoundAt(prog, pos[p])
        BY <2>1, <3>0, NextPosition
      <4> QED
        BY <2>1, <2>3, <3>2, <4>1 DEF At, Counters, MainType
    <3> QED
      BY <3>2, <3>3, <3>4, <3>5, <3>6, AtFrame DEF ProgramInv, At
  <2> QED
    BY <2>1, <2>2, <2>3
<1>19. ASSUME NEW p \in Procs, LeaveBarrier(p)
      PROVE  ProgramInv' /\ NeverTerminated'
  <2>1. /\ pc[p] = "barrier" /\ pos[p] < Len(prog) /\ prog[pos[p] + 1] = "barrier"
        /\ pc' = [pc EXCEPT ![p] = "user"] /\ pos' = [pos EXCEPT ![p] = @ + 1]
        /\ UNCHANGED <<status, prog, reduces, thread, thread_end, count_epoch,
                       count_fence, active_epoch, from_sync>>
    BY <1>19 DEF LeaveBarrier, Return, reduceVars, threadVars, stateVars, At, Phase
  <2>2. \A r \in Procs : r # p => SameAt(r)
    BY <2>1 DEF SameAt, MainType
  <2>3. Phase(p)'
    BY <2>1, NextCall DEF At, Phase, MainType
  <2>4. Flags(p)'
    <3>1. /\ OpenAfter(prog, pos[p] + 1) <=> OpenAfter(prog, pos[p])
          /\ Fenced(prog, pos[p] + 1) <=> Fenced(prog, pos[p])
      BY <2>1, NextPosition
    <3> QED
      BY <2>1, <3>1 DEF At, Flags, MainType
  <2>5. Counters(p)'
    BY <2>1 DEF At, Counters, MainType
  <2> QED
    BY <2>1, <2>2, <2>3, <2>4, <2>5, AtFrame DEF ProgramInv, At
<1>20. ASSUME NEW p \in Procs, WinFreeClear(p)
      PROVE  ProgramInv' /\ NeverTerminated'
  <2>1. /\ pc[p] = "user" /\ pos[p] < Len(prog) /\ prog[pos[p] + 1] = "free"
        /\ count_fence[p] > 0
        /\ pc' = [pc EXCEPT ![p] = "join"]
        /\ thread_end' = [thread_end EXCEPT ![p] = 1]
        /\ UNCHANGED <<status, prog, pos, reduces, thread, count_epoch,
                       count_fence, active_epoch, from_sync>>
    BY <1>20 DEF WinFreeClear, Calls, reduceVars, threadVars
  <2>2. \A r \in Procs : r # p => SameAt(r)
    BY <2>1 DEF SameAt, MainType, StateType
  <2>3. Phase(p)'
    BY <2>1 DEF At, Phase, Flags, MainType
  <2>4. Flags(p)'
    BY <2>1 DEF At, Flags, MainType, StateType
  <2>5. Counters(p)'
    <3>1. RoundAt(prog, pos[p] + 1) = RoundAt(prog, pos[p])
      BY <2>1, NextPosition
    <3> QED
      BY <2>1, <3>1 DEF At, Counters, MainType
  <2> QED
    BY <2>1, <2>2, <2>3, <2>4, <2>5, AtFrame DEF ProgramInv, At
<1>21. ASSUME NEW p \in Procs, WinFree(p)
      PROVE  ProgramInv' /\ NeverTerminated'
  <2>1. /\ pos[p] < Len(prog) /\ prog[pos[p] + 1] = "free"
        /\ (pc[p] = "user" /\ count_fence[p] = 0) \/ pc[p] = "stop"
        /\ pc' = [pc EXCEPT ![p] = "done"] /\ pos' = [pos EXCEPT ![p] = @ + 1]
        /\ status' = IF thread[p] = "off" THEN status ELSE "terminated"
        /\ UNCHANGED <<prog, reduces, thread, thread_end, count_epoch,
                       count_fence, active_epoch, from_sync>>
    BY <1>21 DEF WinFree, Calls, reduceVars, threadVars, stateVars, At, Phase
  <2>2. \A r \in Procs : r # p => SameAt(r)
    BY <2>1 DEF SameAt, MainType
  <2>3. active_epoch[p] = 0 /\ thread[p] = "off"
    BY <2>1, NextCall DEF At, Flags, StateType
  <2>4. Phase(p)'
    BY <2>1, NextCall DEF At, Phase, MainType
  <2>5. Flags(p)'
    <3>1. Fenced(prog, pos[p] + 1) <=> Fenced(prog, pos[p])
      BY <2>1, NextPosition
    <3> QED
      BY <2>1, <2>3, <3>1 DEF At, Flags, MainType
  <2>6. Counters(p)'
    <3>1. /\ EpochAt(prog, pos[p] + 1) = EpochAt(prog, pos[p])
          /\ RoundAt(prog, pos[p] + 1) = RoundAt(prog, pos[p])
      BY <2>1, NextPosition
    <3> QED
      BY <2>1, <3>1 DEF At, Counters, MainType
  <2> QED
    BY <2>1, <2>2, <2>3, <2>4, <2>5, <2>6, AtFrame DEF ProgramInv, At
<1>22. CASE UNCHANGED vars
  <2>1. \A q \in Procs : SameAt(q)
    BY <1>22 DEF vars, SameAt, mainVars, reduceVars, threadVars, stateVars
  <2> QED
    BY <1>22, <2>1, AtFrame DEF vars, ProgramInv, At
<1> QED
  BY <1>2, <1>3, <1>4, <1>5, <1>6, <1>7, <1>8, <1>9, <1>10, <1>11, <1>12, <1>13, <1>14,
     <1>15, <1>16, <1>17, <1>18, <1>19, <1>20, <1>21, <1>22
  DEF Next, User, Call, CheckThread, Finished

-----------------------------------------------------------------------------
(* The reductions. *)

(* A step outside the reductions keeps what is known about them. *)
LEMMA ReduceFrame ==
  ASSUME ReduceInv, UNCHANGED reduceVars, ReduceType,
         \A q \in Procs : pc'[q] = "reduce" <=> pc[q] = "reduce"
  PROVE  ReduceInv'
<1>1. \A q \in Procs : \A root, r : Contributed(q, root, r)' <=> Contributed(q, root, r)
  BY DEF Contributed, reduceVars
<1>2. /\ contrib' = contrib /\ got' = got /\ reduces' = reduces /\ redIdx' = redIdx
      /\ \A c \in contrib : c.src \in Procs /\ c.root \in Procs
      /\ \A p \in Procs : got[p] \subseteq Procs
  BY DEF reduceVars, ReduceType
<1> QED
  BY <1>1, <1>2 DEF ReduceInv

(* A joined call returns, or goes on with the rest of its wrapper. *)
LEMMA JoinPc ==
  ASSUME TypeInv, NEW p \in Procs, Join(p)
  PROVE  \/ pc' = [pc EXCEPT ![p] = "user"]
         \/ pc' = [pc EXCEPT ![p] = "fence"]
         \/ pc' = [pc EXCEPT ![p] = "restart"]
         \/ pc' = [pc EXCEPT ![p] = "stop"]
<1>1. prog[pos[p] + 1] \in {"unlock_all", "fence", "barrier", "free"}
  BY DEF Join, TypeInv, CallInv
<1> QED
  BY <1>1 DEF Join, Return

(* Every step keeps the account of the reductions. *)
LEMMA ReduceStep ==
  ASSUME TypeInv, ReduceInv, [Next]_vars
  PROVE  ReduceInv'
<1>0. MainType /\ ReduceType
  BY DEF TypeInv, TypeOK
<1> USE <1>0
<1>a. /\ \A c \in contrib : c.src \in Procs /\ c.root \in Procs /\ c.round \in Nat
      /\ \A p \in Procs : /\ got[p] \subseteq Procs /\ reduces[p] \in Nat
                         /\ redIdx[p] \in 0 .. N /\ p \in 0 .. N - 1
  BY DEF ReduceType, Procs
<1>1. ASSUME NEW p \in Procs, NEW Acc, Abort(p, Acc)
      PROVE  ReduceInv'
  <2>1. UNCHANGED reduceVars /\ \A q \in Procs : pc'[q] = "reduce" <=> pc[q] = "reduce"
    BY <1>1 DEF Abort, mainVars
  <2> QED
    BY <2>1, ReduceFrame
<1>2. ASSUME NEW p \in Procs, NEW Acc \in LocalOps, LoadStore(p, Acc)
      PROVE  ReduceInv'
  <2>1. UNCHANGED reduceVars /\ \A q \in Procs : pc'[q] = "reduce" <=> pc[q] = "reduce"
    BY <1>2 DEF LoadStore, Abort, mainVars
  <2> QED
    BY <2>1, ReduceFrame
<1>3. ASSUME NEW p \in Procs, NEW q \in Procs, NEW op \in RmaOps, Communicate(p, q, op)
      PROVE  ReduceInv'
  <2> DEFINE local == [Itv |-> op.origin, Type |-> OriginType(op.kind)]
  <2>1. CASE ~ Abort(p, local)
    <3>1. UNCHANGED reduceVars /\ pc[p] = "user" /\ pc' = [pc EXCEPT ![p] = "sentItv"]
      BY <1>3, <2>1 DEF Communicate
    <3>2. \A r \in Procs : pc'[r] = "reduce" <=> pc[r] = "reduce"
      BY <3>1 DEF MainType
    <3> QED
      BY <3>1, <3>2, ReduceFrame
  <2> QED
    BY <1>1, <2>1
<1>4. ASSUME NEW p \in Procs, SendString(p)
      PROVE  ReduceInv'
  <2>1. UNCHANGED reduceVars /\ \A q \in Procs : pc'[q] = "reduce" <=> pc[q] = "reduce"
    BY <1>4 DEF SendString, MainType
  <2> QED
    BY <2>1, ReduceFrame
<1>5. ASSUME NEW p \in Procs, CountSend(p)
      PROVE  ReduceInv'
  <2>1. UNCHANGED reduceVars /\ \A q \in Procs : pc'[q] = "reduce" <=> pc[q] = "reduce"
    BY <1>5 DEF CountSend, MainType
  <2> QED
    BY <2>1, ReduceFrame
<1>6. ASSUME NEW p \in Procs, ReceiveInterval(p)
      PROVE  ReduceInv'
  <2>1. UNCHANGED reduceVars /\ \A q \in Procs : pc'[q] = "reduce" <=> pc[q] = "reduce"
    BY <1>6 DEF ReceiveInterval, mainVars, MainType
  <2> QED
    BY <2>1, ReduceFrame
<1>7. ASSUME NEW p \in Procs, ReceiveString(p)
      PROVE  ReduceInv'
  <2>1. UNCHANGED reduceVars /\ \A q \in Procs : pc'[q] = "reduce" <=> pc[q] = "reduce"
    BY <1>7 DEF ReceiveString, mainVars, MainType
  <2> QED
    BY <2>1, ReduceFrame
<1>8. ASSUME NEW p \in Procs, SaveReceived(p)
      PROVE  ReduceInv'
  <2>1. UNCHANGED reduceVars /\ \A q \in Procs : pc'[q] = "reduce" <=> pc[q] = "reduce"
    BY <1>8 DEF SaveReceived, Abort, mainVars, MainType
  <2> QED
    BY <2>1, ReduceFrame
<1>9. ASSUME NEW p \in Procs, ExitThread(p)
      PROVE  ReduceInv'
  <2>1. UNCHANGED reduceVars /\ \A q \in Procs : pc'[q] = "reduce" <=> pc[q] = "reduce"
    BY <1>9 DEF ExitThread, mainVars, MainType
  <2> QED
    BY <2>1, ReduceFrame
<1>10. ASSUME NEW p \in Procs, WinLockAll(p)
      PROVE  ReduceInv'
  <2>1. UNCHANGED reduceVars /\ \A q \in Procs : pc'[q] = "reduce" <=> pc[q] = "reduce"
    BY <1>10 DEF WinLockAll, Calls, Return, MainType
  <2> QED
    BY <2>1, ReduceFrame
<1>11. ASSUME NEW p \in Procs, BeginClear(p)
      PROVE  ReduceInv'
  <2>1. /\ pc[p] = "user" /\ pc' = [pc EXCEPT ![p] = "reduce"]
        /\ redIdx' = [redIdx EXCEPT ![p] = 0]
        /\ UNCHANGED <<got, contrib, reduces>>
    BY <1>11 DEF BeginClear, Calls
  <2>2. \A q \in Procs, root \in Procs, r \in Nat :
          Contributed(q, root, r)' <=> Contributed(q, root, r)
    <3>1. \A root \in Procs : ~ (0 > root)
      BY DEF Procs
    <3> QED
      BY <2>1, <3>1 DEF Contributed, MainType, ReduceType
  <2>3. \A q \in Procs : got[q] # {} => pc'[q] = "reduce" /\ redIdx'[q] = q
    BY <2>1 DEF ReduceInv, MainType, ReduceType
  <2> QED
    BY <1>a, <2>1, <2>2, <2>3 DEF ReduceInv
<1>12. ASSUME NEW p \in Procs, Contribute(p)
      PROVE  ReduceInv'
  <2> DEFINE d == [src |-> p, root |-> redIdx[p], round |-> reduces[p],
                   n |-> array[p][redIdx[p]]]
  <2>1. /\ pc[p] = "reduce" /\ redIdx[p] < N /\ redIdx[p] # p
        /\ contrib' = contrib \cup {d}
        /\ redIdx' = [redIdx EXCEPT ![p] = @ + 1]
        /\ UNCHANGED <<pc, got, reduces>>
    BY <1>12 DEF Contribute, mainVars
  <2>2. d.src = p /\ d.root = redIdx[p] /\ d.round = reduces[p] /\ redIdx[p] \in Procs
    <3>1. redIdx[p] \in 0 .. N /\ N \in Nat
      BY <1>a, AnalyzerAssumption
    <3> QED
      BY <2>1, <3>1 DEF Procs
  <2> HIDE DEF d
  <2>3. \A q \in Procs, root \in Procs, r \in Nat :
          Contributed(q, root, r)' <=>
            Contributed(q, root, r) \/ (q = p /\ root = redIdx[p] /\ r = reduces[p])
    BY <1>a, <2>1 DEF Contributed, ReduceType, Procs
  <2>4. ~ Contributed(p, redIdx[p], reduces[p])
    BY <1>a, <2>1 DEF Contributed
  <2>5. ASSUME NEW c \in contrib'
        PROVE  /\ c.src # c.root
               /\ Contributed(c.src, c.root, c.round)'
               /\ c.round = reduces[c.root] => c.src \notin got[c.root]
    <3>1. CASE c = d
      <4>1. reduces[p] = reduces[redIdx[p]] => p \notin got[redIdx[p]]
        BY <2>2, <2>4 DEF ReduceInv
      <4> QED
        BY <1>a, <2>1, <2>2, <2>3, <3>1, <4>1
    <3>2. CASE c \in contrib
      BY <1>a, <2>3, <3>2 DEF ReduceInv
    <3> QED
      BY <2>1, <3>1, <3>2
  <2>6. ASSUME NEW c \in contrib', NEW e \in contrib',
               e.src = c.src, e.root = c.root, e.round = c.round
        PROVE  e = c
    <3>1. \A f \in contrib : ~ (f.src = p /\ f.root = redIdx[p] /\ f.round = reduces[p])
      BY <2>4 DEF ReduceInv
    <3> QED
      BY <2>1, <2>2, <2>6, <3>1 DEF ReduceInv
  <2>7. ASSUME NEW q \in Procs
        PROVE  /\ q \notin got[q]
               /\ got[q] # {} => pc[q] = "reduce" /\ redIdx'[q] = q
               /\ \A r \in got[q] : Contributed(r, q, reduces[q])'
    <3>1. got[p] = {}
      BY <2>1 DEF ReduceInv
    <3> QED
      BY <1>a, <2>1, <2>3, <3>1 DEF ReduceInv, ReduceType
  <2>8. ASSUME NEW q \in Procs, NEW t \in Procs, NEW r \in Nat, Contributed(q, q, r)'
        PROVE  Contributed(t, q, r)'
    <3>1. Contributed(q, q, r)
      BY <2>1, <2>3, <2>8
    <3> QED
      BY <2>3, <3>1 DEF ReduceInv
  <2> QED
    BY <2>1, <2>5, <2>6, <2>7, <2>8 DEF ReduceInv
<1>13. ASSUME NEW p \in Procs, Combine(p)
      PROVE  ReduceInv'
  <2>1. PICK c \in contrib :
          /\ c.root = p /\ c.round = reduces[p]
          /\ got' = [got EXCEPT ![p] = @ \cup {c.src}]
          /\ contrib' = contrib \ {c}
    BY <1>13 DEF Combine
  <2>2. /\ pc[p] = "reduce" /\ redIdx[p] = p
        /\ UNCHANGED <<pc, redIdx, reduces>>
    BY <1>13 DEF Combine, mainVars
  <2>3. \A q, root, r : Contributed(q, root, r)' <=> Contributed(q, root, r)
    BY <2>2 DEF Contributed
  <2>4. ASSUME NEW e \in contrib'
        PROVE  /\ e.src # e.root
               /\ Contributed(e.src, e.root, e.round)'
               /\ \A f \in contrib' : f.src = e.src /\ f.root = e.root /\ f.round = e.round
                                       => f = e
               /\ e.round = reduces[e.root] => e.src \notin got'[e.root]
    <3>1. e \in contrib /\ e # c
      BY <2>1
    <3>2. e.root = p /\ e.round = reduces[p] => e.src # c.src
      BY <2>1, <3>1 DEF ReduceInv
    <3>3. e.round = reduces[e.root] => e.src \notin got'[e.root]
      BY <1>a, <2>1, <3>1, <3>2 DEF ReduceInv, ReduceType
    <3> QED
      BY <2>1, <2>3, <3>1, <3>3 DEF ReduceInv
  <2>5. ASSUME NEW q \in Procs
        PROVE  /\ q \notin got'[q]
               /\ got'[q] # {} => pc[q] = "reduce" /\ redIdx[q] = q
               /\ \A r \in got'[q] : Contributed(r, q, reduces[q])'
    <3>1. c.src # p /\ Contributed(c.src, p, reduces[p])
      BY <2>1 DEF ReduceInv
    <3>2. got'[q] = IF q = p THEN got[p] \cup {c.src} ELSE got[q]
      BY <2>1 DEF ReduceType
    <3> QED
      BY <2>2, <2>3, <3>1, <3>2 DEF ReduceInv
  <2>6. ASSUME NEW q \in Procs, NEW t \in Procs, NEW r \in Nat, Contributed(q, q, r)'
        PROVE  Contributed(t, q, r)'
    BY <2>3, <2>6 DEF ReduceInv
  <2> QED
    BY <2>2, <2>4, <2>5, <2>6 DEF ReduceInv
<1>14. ASSUME NEW p \in Procs, ReduceReturns(p)
      PROVE  ReduceInv'
  <2>1. /\ pc[p] = "reduce" /\ redIdx[p] = p /\ got[p] = Procs \ {p}
        /\ got' = [got EXCEPT ![p] = {}]
        /\ redIdx' = [redIdx EXCEPT ![p] = @ + 1]
        /\ UNCHANGED <<pc, contrib, reduces>>
    BY <1>14 DEF ReduceReturns, mainVars
  <2>2. \A q \in Procs, root \in Procs, r \in Nat :
          Contributed(q, root, r)' <=>
            Contributed(q, root, r) \/ (q = p /\ root = p /\ r = reduces[p])
    BY <1>a, <2>1 DEF Contributed, ReduceType, Procs
  <2>3. ASSUME NEW c \in contrib
        PROVE  /\ Contributed(c.src, c.root, c.round)'
               /\ c.round = reduces[c.root] => c.src \notin got'[c.root]
    BY <1>a, <2>1, <2>2 DEF ReduceInv, ReduceType
  <2>4. ASSUME NEW q \in Procs
        PROVE  /\ q \notin got'[q]
               /\ got'[q] # {} => pc[q] = "reduce" /\ redIdx'[q] = q
               /\ \A r \in got'[q] : Contributed(r, q, reduces[q])'
    <3>1. got'[q] = IF q = p THEN {} ELSE got[q]
      BY <2>1 DEF ReduceType
    <3> QED
      BY <1>a, <2>1, <2>2, <3>1 DEF ReduceInv, ReduceType
  <2>5. ASSUME NEW q \in Procs, NEW t \in Procs, NEW r \in Nat, Contributed(q, q, r)'
        PROVE  Contributed(t, q, r)'
    <3>1. CASE Contributed(q, q, r)
      BY <2>2, <3>1 DEF ReduceInv
    <3>2. CASE q = p /\ r = reduces[p]
      BY <2>1, <2>2, <2>5, <3>2 DEF ReduceInv
    <3> QED
      BY <2>2, <2>5, <3>1, <3>2
  <2> QED
    BY <2>1, <2>3, <2>4, <2>5 DEF ReduceInv
<1>15. ASSUME NEW p \in Procs, EndThread(p)
      PROVE  ReduceInv'
  <2>1. /\ pc[p] = "reduce" /\ redIdx[p] = N
        /\ reduces' = [reduces EXCEPT ![p] = @ + 1]
        /\ pc' = [pc EXCEPT ![p] = "join"]
        /\ UNCHANGED <<redIdx, got, contrib>>
    BY <1>15 DEF EndThread
  <2>2. \A q \in Procs, root \in Procs, r \in Nat :
          Contributed(q, root, r)' <=> Contributed(q, root, r)
    <3>1. \A root \in Procs : N > root
      BY <1>a, AnalyzerAssumption DEF Procs
    <3> QED
      BY <1>a, <2>1, <3>1 DEF Contributed, ReduceType, MainType
  <2>3. got[p] = {}
    <3>1. redIdx[p] # p
      BY <1>a, <2>1, AnalyzerAssumption
    <3> QED
      BY <3>1 DEF ReduceInv
  <2>4. ASSUME NEW c \in contrib
        PROVE  c.round = reduces'[c.root] => c.src \notin got[c.root]
    BY <1>a, <2>1, <2>3 DEF ReduceInv, ReduceType
  <2>5. ASSUME NEW q \in Procs
        PROVE  /\ got[q] # {} => pc'[q] = "reduce" /\ redIdx[q] = q
               /\ \A r \in got[q] : Contributed(r, q, reduces[q])'
    BY <1>a, <2>1, <2>2, <2>3 DEF ReduceInv, ReduceType, MainType
  <2> QED
    BY <1>a, <2>1, <2>2, <2>4, <2>5 DEF ReduceInv
<1>16. ASSUME NEW p \in Procs, Join(p)
      PROVE  ReduceInv'
  <2>1. UNCHANGED reduceVars /\ pc[p] = "join"
    BY <1>16 DEF Join
  <2>2. \/ pc' = [pc EXCEPT ![p] = "user"]
        \/ pc' = [pc EXCEPT ![p] = "fence"]
        \/ pc' = [pc EXCEPT ![p] = "restart"]
        \/ pc' = [pc EXCEPT ![p] = "stop"]
    BY <1>16, JoinPc
  <2> QED
    BY <2>1, <2>2, ReduceFrame DEF MainType
<1>17. ASSUME NEW p \in Procs, WinFence(p)
      PROVE  ReduceInv'
  <2>1. UNCHANGED reduceVars /\ \A q \in Procs : pc'[q] = "reduce" <=> pc[q] = "reduce"
    BY <1>17 DEF WinFence, Calls, Return, MainType
  <2> QED
    BY <2>1, ReduceFrame
<1>18. ASSUME NEW p \in Procs, RestartThread(p)
      PROVE  ReduceInv'
  <2>1. UNCHANGED reduceVars /\ \A q \in Procs : pc'[q] = "reduce" <=> pc[q] = "reduce"
    BY <1>18 DEF RestartThread, Calls, MainType
  <2> QED
    BY <2>1, ReduceFrame
<1>19. ASSUME NEW p \in Procs, LeaveBarrier(p)
      PROVE  ReduceInv'
  <2>1. UNCHANGED reduceVars /\ \A q \in Procs : pc'[q] = "reduce" <=> pc[q] = "reduce"
    BY <1>19 DEF LeaveBarrier, Return, MainType
  <2> QED
    BY <2>1, ReduceFrame
<1>20. ASSUME NEW p \in Procs, WinFreeClear(p)
      PROVE  ReduceInv'
  <2>1. UNCHANGED reduceVars /\ \A q \in Procs : pc'[q] = "reduce" <=> pc[q] = "reduce"
    BY <1>20 DEF WinFreeClear, Calls, MainType
  <2> QED
    BY <2>1, ReduceFrame
<1>21. ASSUME NEW p \in Procs, WinFree(p)
      PROVE  ReduceInv'
  <2>1. UNCHANGED reduceVars /\ \A q \in Procs : pc'[q] = "reduce" <=> pc[q] = "reduce"
    BY <1>21 DEF WinFree, Calls, MainType
  <2> QED
    BY <2>1, ReduceFrame
<1>22. CASE UNCHANGED vars
  <2>1. UNCHANGED reduceVars /\ \A q \in Procs : pc'[q] = "reduce" <=> pc[q] = "reduce"
    BY <1>22 DEF vars, mainVars
  <2> QED
    BY <2>1, ReduceFrame
<1> QED
  BY <1>2, <1>3, <1>4, <1>5, <1>6, <1>7, <1>8, <1>9, <1>10, <1>11, <1>12, <1>13, <1>14,
     <1>15, <1>16, <1>17, <1>18, <1>19, <1>20, <1>21, <1>22
  DEF Next, User, Call, CheckThread, Finished

-----------------------------------------------------------------------------
(* Who may send to whom. *)

(* A well-formed program only ever frees the window at its end. *)
LEMMA ProgramFacts ==
  ASSUME ProgramsWellFormed, TypeInv
  PROVE  /\ prog \in Seq(SyncCall) /\ WellFormed(prog) /\ Len(prog) \in Nat
         /\ \A k \in 1 .. Len(prog) :
              prog[k] \in SyncCall /\ (prog[k] = "free" => k = Len(prog))
<1>1. prog \in Seq(SyncCall) /\ WellFormed(prog)
  BY AnalyzerAssumption DEF ProgramsWellFormed, TypeInv, TypeOK, MainType
<1>2. Len(prog) \in Nat /\ \A k \in 1 .. Len(prog) : prog[k] \in SyncCall
  BY <1>1
<1>3. \A k \in 1 .. Len(prog) : prog[k] = "free" => k = Len(prog)
  BY <1>1 DEF WellFormed
<1> QED
  BY <1>1, <1>2, <1>3

(* The last call made inside an epoch has started its thread, and the next *)
(* one, unless it frees the window, ends it with reductions.               *)
LEMMA OpenEpoch ==
  ASSUME ProgramsWellFormed, TypeInv, NEW k \in 0 .. Len(prog), OpenAfter(prog, k)
  PROVE  /\ k > 0
         /\ k < Len(prog) => /\ Starts(prog, k)
                             /\ \A j \in 0 .. k - 1 : EpochAt(prog, j) < EpochAt(prog, k)
         /\ k < Len(prog) /\ prog[k + 1] # "free" =>
              Ends(prog, k + 1) /\ RoundAt(prog, k + 1) = RoundAt(prog, k) + 1
<1>0. k \in Nat /\ Len(prog) \in Nat
  BY ProgramFacts
<1>1. k > 0
  BY <1>0, NothingBefore
<1>2. ASSUME k < Len(prog)
      PROVE  Starts(prog, k) /\ \A j \in 0 .. k - 1 : EpochAt(prog, j) < EpochAt(prog, k)
  <2>1. k \in 1 .. Len(prog) /\ k - 1 \in Nat /\ (k - 1) + 1 = k /\ k # Len(prog)
    BY <1>0, <1>1, <1>2
  <2>2. prog[k] \in SyncCall /\ prog[k] # "free"
    BY <2>1, ProgramFacts
  <2>3. \/ prog[k] \in {"lock_all", "fence"}
        \/ prog[k] # "unlock_all" /\ OpenAfter(prog, k - 1)
    BY <2>1, OpenStep
  <2>4. Starts(prog, k)
    BY <2>2, <2>3 DEF Starts, SyncCall
  <2>5. /\ EpochAt(prog, k - 1) \in Nat /\ EpochAt(prog, k) = EpochAt(prog, k - 1) + 1
        /\ \A j \in 0 .. k - 1 : EpochAt(prog, j) <= EpochAt(prog, k - 1)
    BY <2>1, <2>4, EpochStep
  <2>6. \A j \in 0 .. k - 1 : EpochAt(prog, j) \in Nat
    BY <2>1, EpochStep
  <2> QED
    BY <2>4, <2>5, <2>6
<1>3. ASSUME k < Len(prog), prog[k + 1] # "free"
      PROVE  Ends(prog, k + 1) /\ RoundAt(prog, k + 1) = RoundAt(prog, k) + 1
  <2>1. k + 1 \in 1 .. Len(prog) /\ (k + 1) - 1 = k
    BY <1>0, <1>3
  <2>2. /\ prog[k + 1] \in SyncCall
        /\ prog[k + 1] # "lock_all"
        /\ prog[k + 1] = "fence" => Fenced(prog, k)
    BY <2>1, ProgramFacts DEF WellFormed
  <2>3. Ends(prog, k + 1)
    BY <1>3, <2>1, <2>2 DEF Ends, SyncCall
  <2> QED
    BY <1>0, <2>3, RoundStep
<1> QED
  BY <1>1, <1>2, <1>3

(* A process that may communicate has a synchronisation call left that     *)
(* ends its epoch with reductions.                                         *)
LEMMA SenderPosition ==
  ASSUME ProgramsWellFormed, TypeInv, NEW q \in Procs, InEpoch(q)
  PROVE  /\ pos[q] \in 0 .. Len(prog) - 1 /\ OpenAfter(prog, pos[q])
         /\ prog[pos[q] + 1] # "free"
<1>1. pos[q] \in Nat /\ Len(prog) \in Nat
  BY ProgramFacts DEF TypeInv, TypeOK, MainType
<1>2. PICK k \in pos[q] + 1 .. Len(prog) : prog[k] \in {"unlock_all", "fence"}
  BY DEF InEpoch
<1>3. pos[q] \in 0 .. Len(prog) - 1 /\ pos[q] + 1 \in 1 .. Len(prog)
  BY <1>1, <1>2
<1>4. prog[pos[q] + 1] # "free"
  <2> SUFFICES ASSUME prog[pos[q] + 1] = "free" PROVE FALSE
    OBVIOUS
  <2>1. pos[q] + 1 = Len(prog)
    BY <1>3, ProgramFacts
  <2>2. k = pos[q] + 1
    BY <1>1, <1>2, <2>1
  <2> QED
    BY <1>2, <2>2
<1> QED
  BY <1>3, <1>4 DEF InEpoch, EpochOpen

(* A process that has gone through the reductions of a round is in a later *)
(* epoch than the one these ended.                                         *)
LEMMA LaterEpoch ==
  ASSUME ProgramsWellFormed, TypeInv, ProgramInv, NEW q \in Procs,
         pc[q] = "user", InEpoch(q),
         NEW k \in 0 .. Len(prog) - 1, reduces[q] > RoundAt(prog, k)
  PROVE  count_epoch[q] > EpochAt(prog, k)
<1>1. /\ pos[q] \in 0 .. Len(prog) - 1 /\ OpenAfter(prog, pos[q])
      /\ Len(prog) \in Nat
  BY SenderPosition, ProgramFacts
<1>2. reduces[q] = RoundAt(prog, pos[q]) /\ count_epoch[q] = EpochAt(prog, pos[q])
  BY DEF ProgramInv, Counters
<1>3. pos[q] > k
  <2> SUFFICES ASSUME pos[q] \in 0 .. k PROVE FALSE
    BY <1>1
  <2>0. k \in Nat /\ pos[q] \in Nat
    BY <1>1
  <2>1. RoundAt(prog, k) \in Nat /\ RoundAt(prog, pos[q]) \in Nat
    BY <2>0, RoundStep
  <2>2. RoundAt(prog, pos[q]) <= RoundAt(prog, k)
    BY <2>0, RoundStep
  <2> QED
    BY <1>2, <2>1, <2>2
<1>4. EpochAt(prog, k) < EpochAt(prog, pos[q])
  BY <1>1, <1>3, OpenEpoch
<1>5. EpochAt(prog, k) \in Nat /\ EpochAt(prog, pos[q]) \in Nat
  <2>1. k \in Nat /\ pos[q] \in Nat
    BY <1>1
  <2> QED
    BY <2>1, EpochStep
<1> QED
  BY <1>2, <1>4, <1>5

(* Nobody sends an access of the epoch p is ending once p knows how many   *)
(* there are.                                                              *)
LEMMA ClosedEpoch ==
  ASSUME ProgramsWellFormed, TypeInv, ProgramInv, ReduceInv,
         NEW p \in Procs, NEW q \in Procs,
         pc[q] = "user", InEpoch(q),
         pc[p] = "join" \/ (pc[p] = "reduce" /\ redIdx[p] > p)
  PROVE  count_epoch[q] # count_epoch[p]
<1>1. /\ pos[q] \in 0 .. Len(prog) - 1 /\ OpenAfter(prog, pos[q])
      /\ prog[pos[q] + 1] # "free" /\ Len(prog) \in Nat
  BY SenderPosition, ProgramFacts
<1>2. /\ pos[p] \in 0 .. Len(prog) - 1
      /\ count_epoch[p] = EpochAt(prog, pos[p])
      /\ RoundAt(prog, pos[p]) \in Nat /\ EpochAt(prog, pos[p]) \in Nat
  <2>1. pos[p] < Len(prog) /\ pos[p] \in 0 .. Len(prog)
    BY DEF ProgramInv, Phase
  <2>2. count_epoch[p] = EpochAt(prog, pos[p])
    BY DEF ProgramInv, Counters
  <2> QED
    BY <1>1, <2>1, <2>2, NextPosition
<1>3. reduces[p] \in Nat /\ reduces[q] \in Nat /\ count_epoch[q] \in Nat
  BY DEF TypeInv, TypeOK, ReduceType, StateType
<1>4. ASSUME Contributed(p, p, RoundAt(prog, pos[p]))
      PROVE  count_epoch[q] # count_epoch[p]
  <2>1. Contributed(q, p, RoundAt(prog, pos[p]))
    BY <1>2, <1>4 DEF ReduceInv
  <2>2. reduces[q] > RoundAt(prog, pos[p])
    BY <2>1 DEF Contributed
  <2>3. count_epoch[q] > EpochAt(prog, pos[p])
    BY <1>2, <2>2, LaterEpoch
  <2> QED
    BY <1>2, <1>3, <2>3
<1>5. CASE pc[p] = "reduce" /\ redIdx[p] > p
  <2>1. reduces[p] = RoundAt(prog, pos[p])
    BY <1>5 DEF ProgramInv, Counters
  <2> QED
    BY <1>4, <1>5, <2>1 DEF Contributed
<1>6. CASE pc[p] = "join" /\ Ends(prog, pos[p] + 1)
  <2>1. reduces[p] = RoundAt(prog, pos[p] + 1)
    BY <1>6 DEF ProgramInv, Counters
  <2>2. reduces[p] = RoundAt(prog, pos[p]) + 1
    BY <1>6, <2>1, NextPosition
  <2> QED
    BY <1>2, <1>4, <2>2 DEF Contributed
<1>7. CASE pc[p] = "join" /\ prog[pos[p] + 1] = "free" /\ Fenced(prog, pos[p])
  <2>1. pos[p] < Len(prog)
    BY <1>1, <1>2
  <2>2. pos[p] + 1 = Len(prog) /\ OpenAfter(prog, pos[p])
    BY <1>7, <2>1, NextCall
  <2>3. pos[q] \in 0 .. pos[p] - 1
    BY <1>1, <1>2, <1>7, <2>2
  <2>4. EpochAt(prog, pos[q]) < EpochAt(prog, pos[p])
    BY <1>1, <1>2, <2>2, <2>3, OpenEpoch
  <2>5. count_epoch[q] = EpochAt(prog, pos[q])
    BY DEF ProgramInv, Counters
  <2> QED
    BY <1>2, <1>3, <2>4, <2>5
<1> QED
  BY <1>5, <1>6, <1>7 DEF ProgramInv, Phase

(* A message is sent to a process that is in the same epoch and still      *)
(* receives, or that has yet to start that epoch.                          *)
LEMMA TargetReceives ==
  ASSUME ProgramsWellFormed, TypeInv, ProgramInv, ReduceInv,
         NEW p \in Procs, NEW q \in Procs, pc[q] = "user", InEpoch(q)
  PROVE  \/ count_epoch[q] > count_epoch[p]
         \/ count_epoch[q] = count_epoch[p] /\ thread[p] \in {"test", "probe", "save"}
<1> DEFINE k == pos[q]
<1>1. /\ k \in 0 .. Len(prog) - 1 /\ OpenAfter(prog, k)
      /\ prog[k + 1] # "free" /\ Len(prog) \in Nat
  BY SenderPosition, ProgramFacts
<1>2. reduces[q] = RoundAt(prog, k) /\ count_epoch[q] = EpochAt(prog, k)
  BY DEF ProgramInv, Counters
<1>3. /\ reduces[p] \in Nat /\ reduces[q] \in Nat
      /\ count_epoch[p] \in Nat /\ count_epoch[q] \in Nat
  BY DEF TypeInv, TypeOK, ReduceType, StateType
<1>4. reduces[p] <= reduces[q]
  <2> SUFFICES ASSUME reduces[p] > reduces[q] PROVE FALSE
    BY <1>3
  <2>1. Contributed(p, p, reduces[q])
    BY DEF Contributed
  <2>2. Contributed(q, p, reduces[q])
    BY <1>3, <2>1 DEF ReduceInv
  <2> QED
    BY <1>3, <2>2 DEF Contributed
<1>5. /\ k > 0 /\ k < Len(prog)
      /\ \A j \in 0 .. k - 1 : EpochAt(prog, j) < EpochAt(prog, k)
      /\ RoundAt(prog, k + 1) = RoundAt(prog, k) + 1
  BY <1>1, OpenEpoch
<1>6. ASSUME NEW i \in Nat, RoundAt(prog, i) <= RoundAt(prog, k)
      PROVE  i <= k
  <2> SUFFICES ASSUME i > k PROVE FALSE
    BY <1>1
  <2>1. k + 1 \in 0 .. i /\ k \in Nat
    BY <1>1
  <2>2. RoundAt(prog, k + 1) <= RoundAt(prog, i) /\ RoundAt(prog, i) \in Nat
    BY <2>1, RoundStep
  <2>3. RoundAt(prog, k) \in Nat
    BY <2>1, RoundStep
  <2> QED
    BY <1>5, <1>6, <2>2, <2>3
<1>7. ASSUME active_epoch[p] = 1, pc[p] # "join"
      PROVE  thread[p] \in {"test", "probe", "save"}
  BY <1>7 DEF ProgramInv, Flags, TypeInv, TypeOK, ThreadType
<1>8. pos[p] \in Nat /\ pos[p] \in 0 .. Len(prog)
  BY DEF ProgramInv, Phase, TypeInv, TypeOK, MainType
<1>9. CASE pc[p] = "barrier"
  <2>1. /\ reduces[p] = RoundAt(prog, pos[p] + 1)
        /\ count_epoch[p] = EpochAt(prog, pos[p] + 1)
        /\ prog[pos[p] + 1] = "barrier"
    BY <1>9 DEF ProgramInv, Counters, Phase
  <2>2. pos[p] + 1 <= k
    BY <1>2, <1>4, <1>6, <1>8, <2>1
  <2>3. CASE pos[p] + 1 = k
    <3>1. OpenAfter(prog, pos[p])
      BY <1>1, <2>1, <2>3, NextPosition
    <3>2. active_epoch[p] = 1
      BY <1>9, <3>1 DEF ProgramInv, Flags
    <3> QED
      BY <1>2, <1>7, <1>9, <2>1, <2>3, <3>2
  <2>4. CASE pos[p] + 1 < k
    <3>1. pos[p] + 1 \in 0 .. k - 1
      BY <1>1, <1>8, <2>4
    <3> QED
      BY <1>2, <1>3, <1>5, <2>1, <3>1
  <2> QED
    BY <1>1, <1>8, <2>2, <2>3, <2>4
<1>10. CASE pc[p] # "barrier"
  <2>1. count_epoch[p] = EpochAt(prog, pos[p])
    BY <1>10 DEF ProgramInv, Counters
  <2>2. CASE pos[p] < k
    <3>1. pos[p] \in 0 .. k - 1
      BY <1>1, <1>8, <2>2
    <3> QED
      BY <1>2, <1>3, <1>5, <2>1, <3>1
  <2>3. CASE ~ (pos[p] < k)
    <3>1. CASE pc[p] \in {"join", "fence", "restart", "stop"}
      <4>1. reduces[p] = RoundAt(prog, pos[p] + 1)
        BY <3>1 DEF ProgramInv, Counters
      <4>2. pos[p] + 1 <= k
        BY <1>2, <1>4, <1>6, <1>8, <4>1
      <4> QED
        BY <1>1, <1>8, <2>3, <4>2
    <3>2. CASE pc[p] \notin {"join", "fence", "restart", "stop"}
      <4>1. reduces[p] = RoundAt(prog, pos[p])
        BY <1>10, <3>2 DEF ProgramInv, Counters
      <4>2. pos[p] = k
        BY <1>1, <1>2, <1>4, <1>6, <1>8, <2>3, <4>1
      <4>3. pc[p] # "done"
        <5>1. k \in 1 .. Len(prog) /\ k # Len(prog)
          BY <1>1, <1>5
        <5>2. prog[k] # "free"
          BY <5>1, ProgramFacts
        <5> QED
          BY <4>2, <5>2 DEF ProgramInv, Phase
      <4>4. active_epoch[p] = 1
        BY <1>1, <3>2, <4>2, <4>3 DEF ProgramInv, Flags
      <4> QED
        BY <1>2, <1>7, <2>1, <3>2, <4>2, <4>4
    <3> QED
      BY <3>1, <3>2
  <2> QED
    BY <2>2, <2>3
<1> QED
  BY <1>9, <1>10

-----------------------------------------------------------------------------
(* What has been sent. *)

Sending(q) == pc[q] \in {"sentItv", "sentStr"}

(* A step that sends, counts and starts nothing keeps the account. *)
LEMMA SentFrame ==
  ASSUME TypeInv, SentInv, UNCHANGED <<prog, sent, out, array, count_epoch>>,
         \A q \in Procs : Sending(q)' <=> Sending(q)
  PROVE  SentInv'
<1>1. \A m \in sent : m.src \in Procs
  BY DEF TypeInv, TypeOK, NetType, Message
<1> QED
  BY <1>1 DEF SentInv, Sending, SentTo

(* rma_analyzer_init_comm_check_thread resets the numbers of messages sent *)
(* as it begins an epoch in which none has been sent.                      *)
LEMMA SentInit ==
  ASSUME TypeInv, SentInv, NEW p \in Procs, ~ Sending(p),
         array' = [array EXCEPT ![p] = [q \in Procs |-> 0]],
         count_epoch' = [count_epoch EXCEPT ![p] = @ + 1],
         UNCHANGED <<prog, sent, out>>,
         \A q \in Procs : Sending(q)' <=> Sending(q)
  PROVE  SentInv'
<1>0. /\ \A m \in sent : m.src \in Procs /\ m.dst \in Procs /\ m.epoch \in Nat
      /\ count_epoch \in [Procs -> Nat] /\ array \in [Procs -> [Procs -> Nat]]
  BY DEF TypeInv, TypeOK, NetType, StateType, Message
<1>1. /\ count_epoch'[p] = count_epoch[p] + 1
      /\ \A q \in Procs : q # p => count_epoch'[q] = count_epoch[q] /\ array'[q] = array[q]
      /\ \A q \in Procs : array'[p][q] = 0
  BY <1>0
<1>2. \A m \in sent : m.epoch <= count_epoch'[m.src]
  BY <1>0, <1>1 DEF SentInv
<1>3. \A m \in sent : \/ m.epoch < count_epoch'[m.src]
                      \/ m.n < array'[m.src][m.dst]
                      \/ Sending(m.src)' /\ m = out'[m.src]
  <2> SUFFICES ASSUME NEW m \in sent
               PROVE  \/ m.epoch < count_epoch'[m.src]
                      \/ m.n < array'[m.src][m.dst]
                      \/ Sending(m.src)' /\ m = out'[m.src]
    OBVIOUS
  <2>1. CASE m.src = p
    BY <1>0, <1>1, <2>1 DEF SentInv
  <2>2. CASE m.src # p
    BY <1>0, <1>1, <2>2 DEF SentInv, Sending
  <2> QED
    BY <2>1, <2>2
<1>4. ASSUME NEW q \in Procs, NEW t \in Procs
      PROVE  array'[q][t] + (IF Sending(q)' /\ out'[q].dst = t THEN 1 ELSE 0)
               = Cardinality(SentTo(q, t, count_epoch[q]))'
  <2>1. CASE q = p
    <3>1. SentTo(p, t, count_epoch[p])' = {}
      BY <1>0, <1>1 DEF SentTo, SentInv
    <3> QED
      BY <1>1, <2>1, <3>1, FS_EmptySet
  <2>2. CASE q # p
    <3>1. SentTo(q, t, count_epoch[q])' = SentTo(q, t, count_epoch[q])
      BY <1>1, <2>2 DEF SentTo
    <3> QED
      BY <1>1, <2>2, <3>1 DEF SentInv, Sending
  <2> QED
    BY <2>1, <2>2
<1>5. ASSUME NEW q \in Procs, Sending(q)'
      PROVE  /\ out'[q] \in sent'
             /\ out'[q].src = q /\ out'[q].epoch = count_epoch'[q]
             /\ out'[q].n = array'[q][out'[q].dst]
  <2>1. q # p /\ Sending(q)
    BY <1>5
  <2> QED
    BY <1>1, <2>1 DEF SentInv, Sending
<1> QED
  BY <1>2, <1>3, <1>4, <1>5 DEF SentInv, Sending

(* Every step keeps the account of the messages sent. *)
LEMMA SentStep ==
  ASSUME ProgramsWellFormed, TypeInv, ProgramInv, SentInv, [Next]_vars
  PROVE  SentInv'
<1>0. MainType /\ ReduceType /\ StateType /\ NetType /\ MessageInv
  BY DEF TypeInv, TypeOK
<1> USE <1>0
<1>1. ASSUME NEW p \in Procs, NEW Acc, Abort(p, Acc)
      PROVE  SentInv'
  <2>1. /\ UNCHANGED <<prog, sent, out, array, count_epoch>>
        /\ \A q \in Procs : Sending(q)' <=> Sending(q)
    BY <1>1 DEF Abort, mainVars, netVars, stateVars, Sending
  <2> QED
    BY <2>1, SentFrame
<1>2. ASSUME NEW p \in Procs, NEW Acc \in LocalOps, LoadStore(p, Acc)
      PROVE  SentInv'
  <2>1. CASE ~ Abort(p, Acc)
    <3>1. /\ UNCHANGED <<prog, sent, out, array, count_epoch>>
          /\ \A q \in Procs : Sending(q)' <=> Sending(q)
      BY <1>2, <2>1 DEF LoadStore, mainVars, netVars, Sending
    <3> QED
      BY <3>1, SentFrame
  <2> QED
    BY <1>1, <2>1
<1>3. ASSUME NEW p \in Procs, NEW q \in Procs, NEW op \in RmaOps, Communicate(p, q, op)
      PROVE  SentInv'
  <2> DEFINE local == [Itv |-> op.origin, Type |-> OriginType(op.kind)]
             m == [src |-> p, dst |-> q, epoch |-> count_epoch[p], n |-> array[p][q],
                   file |-> op.file,
                   acc |-> [Itv |-> op.target, Type |-> TargetType(op.kind)]]
  <2>1. CASE Abort(p, local)
    BY <1>1, <2>1
  <2>2. CASE ~ Abort(p, local)
    <3>1. /\ pc[p] = "user" /\ InEpoch(p)
          /\ sent' = sent \cup {m}
          /\ out' = [out EXCEPT ![p] = m]
          /\ pc' = [pc EXCEPT ![p] = "sentItv"]
          /\ UNCHANGED <<prog, array, count_epoch>>
      BY <1>3, <2>2 DEF Communicate
    <3>2. m.src = p /\ m.dst = q /\ m.epoch = count_epoch[p] /\ m.n = array[p][q]
      OBVIOUS
    <3> HIDE DEF m
    <3>3. /\ out'[p] = m /\ pc'[p] = "sentItv"
          /\ \A r \in Procs : r # p => out'[r] = out[r] /\ pc'[r] = pc[r]
      BY <3>1 DEF MainType
    <3>4. /\ \A r \in Procs : Sending(r)' <=> Sending(r) \/ r = p
          /\ ~ Sending(p)
      BY <3>1, <3>3 DEF Sending
    <3>5. \A s \in sent : s.src \in Procs /\ s.dst \in Procs /\ s.epoch \in Nat /\ s.n \in Nat
      BY DEF NetType, Message
    <3>6. count_epoch[p] \in Nat /\ array[p][q] \in Nat
      BY DEF StateType
    <3>7. m \notin sent
      BY <3>2, <3>4, <3>5, <3>6 DEF SentInv, Sending
    <3>8. IsFiniteSet(sent')
      BY <3>1, FS_AddElement DEF SentInv
    <3>9. ASSUME NEW s \in sent'
          PROVE  /\ s.epoch <= count_epoch[s.src]
                 /\ \E k \in 0 .. Len(prog) - 1 :
                      /\ s.epoch = EpochAt(prog, k)
                      /\ OpenAfter(prog, k)
                      /\ prog[k + 1] # "free"
      <4>1. CASE s = m
        <5>1. count_epoch[p] = EpochAt(prog, pos[p])
          BY <3>1 DEF ProgramInv, Counters
        <5> QED
          BY <3>1, <3>2, <3>6, <4>1, <5>1, SenderPosition
      <4>2. CASE s \in sent
        BY <4>2 DEF SentInv
      <4> QED
        BY <3>1, <4>1, <4>2
    <3>10. ASSUME NEW r \in Procs, Sending(r)'
           PROVE  /\ out'[r] \in sent'
                  /\ out'[r].src = r /\ out'[r].epoch = count_epoch[r]
                  /\ out'[r].n = array[r][out'[r].dst]
      BY <3>1, <3>2, <3>3, <3>4, <3>10 DEF SentInv, Sending
    <3>11. ASSUME NEW s \in sent'
           PROVE  \/ s.epoch < count_epoch[s.src]
                  \/ s.n < array[s.src][s.dst]
                  \/ Sending(s.src)' /\ s = out'[s.src]
      <4>1. CASE s = m
        BY <3>2, <3>3, <3>4, <4>1
      <4>2. CASE s \in sent
        BY <3>3, <3>4, <3>5, <4>2 DEF SentInv, Sending
      <4> QED
        BY <3>1, <4>1, <4>2
    <3>12. ASSUME NEW r \in Procs, NEW t \in Procs
           PROVE  array[r][t] + (IF Sending(r)' /\ out'[r].dst = t THEN 1 ELSE 0)
                    = Cardinality(SentTo(r, t, count_epoch[r]))'
      <4>0. array[r][t] \in Nat
        BY DEF StateType
      <4>1. CASE r = p /\ t = q
        <5>1. SentTo(p, q, count_epoch[p])' = SentTo(p, q, count_epoch[p]) \cup {m}
          BY <3>1, <3>2 DEF SentTo
        <5>2. IsFiniteSet(SentTo(p, q, count_epoch[p])) /\ m \notin SentTo(p, q, count_epoch[p])
          BY <3>7, FS_Subset DEF SentTo, SentInv
        <5>3. Cardinality(SentTo(p, q, count_epoch[p])) = array[p][q]
          BY <3>4, <3>6 DEF SentInv, Sending
        <5>4. Cardinality(SentTo(p, q, count_epoch[p]) \cup {m}) = array[p][q] + 1
          BY <5>2, <5>3, FS_AddElement
        <5>5. Cardinality(SentTo(p, q, count_epoch[p]))' = array[p][q] + 1
          BY <5>1, <5>4
        <5>6. Sending(p)' /\ out'[p].dst = q
          BY <3>2, <3>3, <3>4
        <5> QED
          BY <4>1, <5>5, <5>6
      <4>2. CASE ~ (r = p /\ t = q)
        <5>1. SentTo(r, t, count_epoch[r])' = SentTo(r, t, count_epoch[r])
          BY <3>1, <3>2, <4>2 DEF SentTo
        <5>2. Cardinality(SentTo(r, t, count_epoch[r])) =
                array[r][t] + (IF Sending(r) /\ out[r].dst = t THEN 1 ELSE 0)
          BY DEF SentInv, Sending
        <5> QED
          BY <3>2, <3>3, <3>4, <4>2, <5>1, <5>2
      <4> QED
        BY <4>1, <4>2
    <3> QED
      BY <3>1, <3>8, <3>9, <3>10, <3>11, <3>12 DEF SentInv, Sending
  <2> QED
    BY <2>1, <2>2
<1>4. ASSUME NEW p \in Procs, SendString(p)
      PROVE  SentInv'
  <2>1. /\ UNCHANGED <<prog, sent, out, array, count_epoch>>
        /\ \A q \in Procs : Sending(q)' <=> Sending(q)
    BY <1>4 DEF SendString, stateVars, MainType, Sending
  <2> QED
    BY <2>1, SentFrame
<1>5. ASSUME NEW p \in Procs, CountSend(p)
      PROVE  SentInv'
  <2> DEFINE d == out[p].dst
  <2>1. /\ pc[p] = "sentStr" /\ pc' = [pc EXCEPT ![p] = "user"]
        /\ array' = [array EXCEPT ![p][d] = @ + 1]
        /\ out' = [out EXCEPT ![p] = NoMsg]
        /\ UNCHANGED <<prog, sent, count_epoch>>
    BY <1>5 DEF CountSend, netVars
  <2>2. /\ out[p] \in sent /\ out[p].src = p /\ out[p].epoch = count_epoch[p]
        /\ out[p].n = array[p][d]
    BY <2>1 DEF SentInv
  <2>3. d \in Procs /\ \A s \in sent : s.src \in Procs /\ s.dst \in Procs /\ s.n \in Nat
    BY <2>2 DEF NetType, Message
  <2>4. /\ ~ Sending(p)' /\ Sending(p)
        /\ \A r \in Procs : r # p => (Sending(r)' <=> Sending(r)) /\ out'[r] = out[r]
    BY <2>1 DEF MainType, Sending
  <2> HIDE DEF d
  <2>5. \A r \in Procs, t \in Procs :
          /\ array[r][t] \in Nat
          /\ array'[r][t] = IF r = p /\ t = d THEN array[p][d] + 1 ELSE array[r][t]
    BY <2>1, <2>3 DEF StateType
  <2>6. ASSUME NEW r \in Procs, Sending(r)'
        PROVE  /\ out'[r] \in sent'
               /\ out'[r].src = r /\ out'[r].epoch = count_epoch'[r]
               /\ out'[r].n = array'[r][out'[r].dst]
    <3>1. r # p /\ Sending(r) /\ out'[r] = out[r]
      BY <2>4, <2>6
    <3>2. out[r] \in sent /\ out[r].dst \in Procs
      BY <2>3, <3>1 DEF SentInv, Sending
    <3> QED
      BY <2>1, <2>5, <3>1, <3>2 DEF SentInv, Sending
  <2>7. ASSUME NEW s \in sent
        PROVE  \/ s.epoch < count_epoch'[s.src]
               \/ s.n < array'[s.src][s.dst]
               \/ Sending(s.src)' /\ s = out'[s.src]
    <3>1. \/ s.epoch < count_epoch[s.src]
          \/ s.n < array[s.src][s.dst]
          \/ Sending(s.src) /\ s = out[s.src]
      BY DEF SentInv, Sending
    <3>2. CASE s.n < array[s.src][s.dst]
      BY <2>3, <2>5, <3>2
    <3>3. CASE Sending(s.src) /\ s = out[s.src]
      <4>1. CASE s.src = p
        BY <2>2, <2>3, <2>5, <3>3, <4>1 DEF d
      <4>2. CASE s.src # p
        BY <2>3, <2>4, <3>3, <4>2
      <4> QED
        BY <4>1, <4>2
    <3> QED
      BY <2>1, <3>1, <3>2, <3>3
  <2>8. ASSUME NEW r \in Procs, NEW t \in Procs
        PROVE  array'[r][t] + (IF Sending(r)' /\ out'[r].dst = t THEN 1 ELSE 0)
                 = Cardinality(SentTo(r, t, count_epoch[r]))'
    <3>1. SentTo(r, t, count_epoch[r])' = SentTo(r, t, count_epoch[r])
      BY <2>1 DEF SentTo
    <3>2. Cardinality(SentTo(r, t, count_epoch[r])) =
            array[r][t] + (IF Sending(r) /\ out[r].dst = t THEN 1 ELSE 0)
      BY DEF SentInv, Sending
    <3> QED
      BY <2>4, <2>5, <3>1, <3>2 DEF d
  <2> QED
    BY <2>1, <2>6, <2>7, <2>8 DEF SentInv, Sending
<1>6. ASSUME NEW p \in Procs, ReceiveInterval(p)
      PROVE  SentInv'
  <2>1. /\ UNCHANGED <<prog, sent, out, array, count_epoch>>
        /\ \A q \in Procs : Sending(q)' <=> Sending(q)
    BY <1>6 DEF ReceiveInterval, mainVars, MainType, Sending
  <2> QED
    BY <2>1, SentFrame
<1>7. ASSUME NEW p \in Procs, ReceiveString(p)
      PROVE  SentInv'
  <2>1. /\ UNCHANGED <<prog, sent, out, array, count_epoch>>
        /\ \A q \in Procs : Sending(q)' <=> Sending(q)
    BY <1>7 DEF ReceiveString, mainVars, stateVars, MainType, Sending
  <2> QED
    BY <2>1, SentFrame
<1>8. ASSUME NEW p \in Procs, SaveReceived(p)
      PROVE  SentInv'
  <2>1. CASE Abort(p, AtTarget(cur[p]))
    BY <1>1, <2>1
  <2>2. CASE ~ Abort(p, AtTarget(cur[p]))
    <3>1. /\ UNCHANGED <<prog, sent, out, array, count_epoch>>
          /\ \A q \in Procs : Sending(q)' <=> Sending(q)
      BY <1>8, <2>2 DEF SaveReceived, mainVars, netVars, Sending
    <3> QED
      BY <3>1, SentFrame
  <2> QED
    BY <2>1, <2>2
<1>9. ASSUME NEW p \in Procs, ExitThread(p)
      PROVE  SentInv'
  <2>1. /\ UNCHANGED <<prog, sent, out, array, count_epoch>>
        /\ \A q \in Procs : Sending(q)' <=> Sending(q)
    BY <1>9 DEF ExitThread, mainVars, netVars, MainType, Sending
  <2> QED
    BY <2>1, SentFrame
<1>10. ASSUME NEW p \in Procs, WinLockAll(p)
      PROVE  SentInv'
  <2>1. InitCommCheckThread(p) /\ UNCHANGED <<prog, sent, out>>
    BY <1>10 DEF WinLockAll, netVars
  <2>2. ~ Sending(p) /\ \A q \in Procs : Sending(q)' <=> Sending(q)
    BY <1>10 DEF WinLockAll, Calls, Return, MainType, Sending
  <2> QED
    BY <2>1, <2>2, SentInit DEF InitCommCheckThread
<1>11. ASSUME NEW p \in Procs, BeginClear(p)
      PROVE  SentInv'
  <2>1. /\ UNCHANGED <<prog, sent, out, array, count_epoch>>
        /\ \A q \in Procs : Sending(q)' <=> Sending(q)
    BY <1>11 DEF BeginClear, Calls, netVars, stateVars, MainType, Sending
  <2> QED
    BY <2>1, SentFrame
<1>12. ASSUME NEW p \in Procs, Contribute(p)
      PROVE  SentInv'
  <2>1. /\ UNCHANGED <<prog, sent, out, array, count_epoch>>
        /\ \A q \in Procs : Sending(q)' <=> Sending(q)
    BY <1>12 DEF Contribute, mainVars, netVars, stateVars, MainType, Sending
  <2> QED
    BY <2>1, SentFrame
<1>13. ASSUME NEW p \in Procs, Combine(p)
      PROVE  SentInv'
  <2>1. /\ UNCHANGED <<prog, sent, out, array, count_epoch>>
        /\ \A q \in Procs : Sending(q)' <=> Sending(q)
    BY <1>13 DEF Combine, mainVars, netVars, stateVars, MainType, Sending
  <2> QED
    BY <2>1, SentFrame
<1>14. ASSUME NEW p \in Procs, ReduceReturns(p)
      PROVE  SentInv'
  <2>1. /\ UNCHANGED <<prog, sent, out, array, count_epoch>>
        /\ \A q \in Procs : Sending(q)' <=> Sending(q)
    BY <1>14 DEF ReduceReturns, mainVars, netVars, MainType, Sending
  <2> QED
    BY <2>1, SentFrame
<1>15. ASSUME NEW p \in Procs, EndThread(p)
      PROVE  SentInv'
  <2>1. /\ UNCHANGED <<prog, sent, out, array, count_epoch>>
        /\ \A q \in Procs : Sending(q)' <=> Sending(q)
    BY <1>15 DEF EndThread, netVars, MainType, Sending
  <2> QED
    BY <2>1, SentFrame
<1>16. ASSUME NEW p \in Procs, Join(p)
      PROVE  SentInv'
  <2>1. UNCHANGED <<prog, sent, out, array, count_epoch>> /\ pc[p] = "join"
    BY <1>16 DEF Join, netVars
  <2>2. \/ pc' = [pc EXCEPT ![p] = "user"]
        \/ pc' = [pc EXCEPT ![p] = "fence"]
        \/ pc' = [pc EXCEPT ![p] = "restart"]
        \/ pc' = [pc EXCEPT ![p] = "stop"]
    BY <1>16, JoinPc
  <2>3. \A q \in Procs : Sending(q)' <=> Sending(q)
    BY <2>1, <2>2 DEF MainType, Sending
  <2> QED
    BY <2>1, <2>3, SentFrame
<1>17. ASSUME NEW p \in Procs, WinFence(p)
      PROVE  SentInv'
  <2>1. InitCommCheckThread(p) /\ UNCHANGED <<prog, sent, out>>
    BY <1>17 DEF WinFence, netVars
  <2>2. ~ Sending(p) /\ \A q \in Procs : Sending(q)' <=> Sending(q)
    BY <1>17 DEF WinFence, Calls, Return, MainType, Sending
  <2> QED
    BY <2>1, <2>2, SentInit DEF InitCommCheckThread
<1>18. ASSUME NEW p \in Procs, RestartThread(p)
      PROVE  SentInv'
  <2>1. UNCHANGED <<prog, sent, out>>
    BY <1>18 DEF RestartThread, netVars
  <2>2. ~ Sending(p) /\ \A q \in Procs : Sending(q)' <=> Sending(q)
    BY <1>18 DEF RestartThread, Calls, MainType, Sending
  <2>3. CASE NeedsRestart(p)
    <3>1. InitCommCheckThread(p)
      BY <1>18, <2>3 DEF RestartThread
    <3> QED
      BY <2>1, <2>2, <3>1, SentInit DEF InitCommCheckThread
  <2>4. CASE ~ NeedsRestart(p)
    <3>1. UNCHANGED <<array, count_epoch>>
      BY <1>18, <2>4 DEF RestartThread
    <3> QED
      BY <2>1, <2>2, <3>1, SentFrame
  <2> QED
    BY <2>3, <2>4
<1>19. ASSUME NEW p \in Procs, LeaveBarrier(p)
      PROVE  SentInv'
  <2>1. /\ UNCHANGED <<prog, sent, out, array, count_epoch>>
        /\ \A q \in Procs : Sending(q)' <=> Sending(q)
    BY <1>19 DEF LeaveBarrier, Return, netVars, stateVars, MainType, Sending
  <2> QED
    BY <2>1, SentFrame
<1>20. ASSUME NEW p \in Procs, WinFreeClear(p)
      PROVE  SentInv'
  <2>1. /\ UNCHANGED <<prog, sent, out, array, count_epoch>>
        /\ \A q \in Procs : Sending(q)' <=> Sending(q)
    BY <1>20 DEF WinFreeClear, Calls, netVars, MainType, Sending
  <2> QED
    BY <2>1, SentFrame
<1>21. ASSUME NEW p \in Procs, WinFree(p)
      PROVE  SentInv'
  <2>1. /\ UNCHANGED <<prog, sent, out, array, count_epoch>>
        /\ \A q \in Procs : Sending(q)' <=> Sending(q)
    BY <1>21 DEF WinFree, Calls, netVars, stateVars, MainType, Sending
  <2> QED
    BY <2>1, SentFrame
<1>22. CASE UNCHANGED vars
  <2>1. /\ UNCHANGED <<prog, sent, out, array, count_epoch>>
        /\ \A q \in Procs : Sending(q)' <=> Sending(q)
    BY <1>22 DEF vars, mainVars, netVars, stateVars, Sending
  <2> QED
    BY <2>1, SentFrame
<1> QED
  BY <1>2, <1>3, <1>4, <1>5, <1>6, <1>7, <1>8, <1>9, <1>10, <1>11, <1>12, <1>13, <1>14,
     <1>15, <1>16, <1>17, <1>18, <1>19, <1>20, <1>21, <1>22
  DEF Next, User, Call, CheckThread, Finished

-----------------------------------------------------------------------------
(* What the reductions compute. *)

(* The root has the number of messages to expect. *)
Known(q) == pc[q] = "join" \/ (pc[q] = "reduce" /\ redIdx[q] > q)

(* MPI_SUM of sizes is the size of the union: the senders differ. *)
LEMMA DisjointUnion ==
  ASSUME NEW A, NEW B, IsFiniteSet(A), IsFiniteSet(B), A \cap B = {}
  PROVE  Cardinality(A \cup B) = Cardinality(A) + Cardinality(B)
<1>1. Cardinality(A) \in Nat /\ Cardinality(B) \in Nat
  BY FS_CardinalityType
<1>2. Cardinality(A \cup B) = Cardinality(A) + Cardinality(B) - Cardinality(A \cap B)
  BY FS_Union
<1>3. Cardinality(A \cap B) = 0
  BY FS_EmptySet
<1> QED
  BY <1>1, <1>2, <1>3

(* Each round of reductions belongs to one call of the program. *)
LEMMA RoundUnique ==
  ASSUME NEW P, NEW j \in Nat, NEW k \in Nat, Ends(P, j + 1), Ends(P, k + 1),
         RoundAt(P, j) = RoundAt(P, k)
  PROVE  j = k
<1>1. ASSUME NEW a \in Nat, NEW b \in Nat, Ends(P, a + 1), a < b,
             RoundAt(P, a) = RoundAt(P, b)
      PROVE  FALSE
  <2>1. a + 1 \in 0 .. b
    BY <1>1
  <2>2. RoundAt(P, a) \in Nat /\ RoundAt(P, a + 1) = RoundAt(P, a) + 1
    BY <1>1, RoundStep
  <2>3. RoundAt(P, a + 1) <= RoundAt(P, b) /\ RoundAt(P, b) \in Nat
    BY <2>1, RoundStep
  <2> QED
    BY <1>1, <2>2, <2>3
<1> QED
  BY <1>1

(* A step that touches nothing the totals are made of, and lets no process *)
(* know a new one, keeps them.                                             *)
LEMMA TotalFrame ==
  ASSUME TotalInv, UNCHANGED <<prog, sent, contrib, got, partial, count_epoch, value>>,
         \A q \in Procs : Known(q)' => Known(q)
  PROVE  TotalInv'
<1>1. \A q \in Procs : EpochMessages(q)' = EpochMessages(q)
  BY DEF EpochMessages
<1>2. \A q \in Procs :
        /\ partial[q] = Cardinality({m \in EpochMessages(q) : m.src \in got[q]})
        /\ Known(q) => value[q] = Cardinality(EpochMessages(q))
  BY DEF TotalInv, Known
<1>3. ASSUME NEW c \in contrib', NEW k \in 0 .. Len(prog') - 1,
             Ends(prog', k + 1), RoundAt(prog', k) = c.round
      PROVE  c.n = Cardinality(SentTo(c.src, c.root, EpochAt(prog, k)))'
  BY <1>3 DEF TotalInv, SentTo
<1>4. \A q \in Procs : partial'[q] = Cardinality({m \in EpochMessages(q) : m.src \in got[q]})'
  BY <1>1, <1>2
<1>5. \A q \in Procs : Known(q)' => value'[q] = Cardinality(EpochMessages(q))'
  BY <1>1, <1>2
<1> QED
  BY <1>3, <1>4, <1>5 DEF TotalInv, Known

(* A new epoch begins with no total. *)
LEMMA TotalInit ==
  ASSUME TypeInv, TotalInv, NEW p \in Procs, got[p] = {},
         count_epoch' = [count_epoch EXCEPT ![p] = @ + 1],
         UNCHANGED <<prog, sent, contrib, got, partial, value>>,
         ~ Known(p)', \A q \in Procs : q # p => (Known(q)' => Known(q))
  PROVE  TotalInv'
<1>1. \A q \in Procs : q # p => count_epoch'[q] = count_epoch[q]
  BY DEF TypeInv, TypeOK, StateType
<1>2. \A q \in Procs : q # p => EpochMessages(q)' = EpochMessages(q)
  BY <1>1 DEF EpochMessages
<1>3. ASSUME NEW q \in Procs
      PROVE  partial'[q] = Cardinality({m \in EpochMessages(q) : m.src \in got[q]})'
  <2>1. CASE q = p
    <3>1. {m \in EpochMessages(p) : m.src \in got[p]} = {}
      OBVIOUS
    <3>2. {m \in EpochMessages(p) : m.src \in got[p]}' = {}
      OBVIOUS
    <3>3. partial[p] = Cardinality({m \in EpochMessages(p) : m.src \in got[p]})
      BY DEF TotalInv
    <3> QED
      BY <2>1, <3>1, <3>2, <3>3
  <2>2. CASE q # p
    BY <1>2, <2>2 DEF TotalInv
  <2> QED
    BY <2>1, <2>2
<1>4. ASSUME NEW q \in Procs, Known(q)'
      PROVE  value'[q] = Cardinality(EpochMessages(q)')
  BY <1>2, <1>4 DEF TotalInv, Known
<1>5. ASSUME NEW c \in contrib', NEW k \in 0 .. Len(prog') - 1,
             Ends(prog', k + 1), RoundAt(prog', k) = c.round
      PROVE  c.n = Cardinality(SentTo(c.src, c.root, EpochAt(prog, k)))'
  BY <1>5 DEF TotalInv, SentTo
<1> QED
  BY <1>3, <1>4, <1>5 DEF TotalInv, Known

(* Every step keeps the totals right. *)
LEMMA TotalStep ==
  ASSUME ProgramsWellFormed, TypeInv, ProgramInv, ReduceInv, SentInv, TotalInv, [Next]_vars
  PROVE  TotalInv'
<1>0. MainType /\ ReduceType /\ StateType /\ NetType
  BY DEF TypeInv, TypeOK
<1> USE <1>0
<1>a. ASSUME NEW q \in Procs
      PROVE  IsFiniteSet(EpochMessages(q)) /\ EpochMessages(q) \subseteq sent
  BY FS_Subset DEF EpochMessages, SentInv
<1>b. \A m \in sent : m.src \in Procs /\ m.dst \in Procs
  BY DEF NetType, Message
<1>1. ASSUME NEW p \in Procs, NEW Acc, Abort(p, Acc)
      PROVE  TotalInv'
  <2>1. /\ UNCHANGED <<prog, sent, contrib, got, partial, count_epoch, value>>
        /\ \A q \in Procs : Known(q)' => Known(q)
    BY <1>1 DEF Abort, mainVars, netVars, stateVars, reduceVars, Known
  <2> QED
    BY <2>1, TotalFrame
<1>2. ASSUME NEW p \in Procs, NEW Acc \in LocalOps, LoadStore(p, Acc)
      PROVE  TotalInv'
  <2>1. CASE ~ Abort(p, Acc)
    <3>1. /\ UNCHANGED <<prog, sent, contrib, got, partial, count_epoch, value>>
          /\ \A q \in Procs : Known(q)' => Known(q)
      BY <1>2, <2>1 DEF LoadStore, mainVars, netVars, reduceVars, Known
    <3> QED
      BY <3>1, TotalFrame
  <2> QED
    BY <1>1, <2>1
<1>3. ASSUME NEW p \in Procs, NEW q \in Procs, NEW op \in RmaOps, Communicate(p, q, op)
      PROVE  TotalInv'
  <2> DEFINE local == [Itv |-> op.origin, Type |-> OriginType(op.kind)]
             m == [src |-> p, dst |-> q, epoch |-> count_epoch[p], n |-> array[p][q],
                   file |-> op.file,
                   acc |-> [Itv |-> op.target, Type |-> TargetType(op.kind)]]
  <2>1. CASE Abort(p, local)
    BY <1>1, <2>1
  <2>2. CASE ~ Abort(p, local)
    <3>1. /\ pc[p] = "user" /\ InEpoch(p)
          /\ sent' = sent \cup {m}
          /\ pc' = [pc EXCEPT ![p] = "sentItv"]
          /\ UNCHANGED <<prog, reduceVars, value, count_epoch>>
      BY <1>3, <2>2 DEF Communicate
    <3>2. m.src = p /\ m.dst = q /\ m.epoch = count_epoch[p]
      OBVIOUS
    <3> HIDE DEF m
    <3>3. UNCHANGED <<contrib, got, partial, redIdx>> /\ \A r \in Procs : Known(r)' => Known(r)
      BY <3>1 DEF reduceVars, MainType, Known
    <3>4. ASSUME NEW c \in contrib, NEW k \in 0 .. Len(prog) - 1,
                 Ends(prog, k + 1), RoundAt(prog, k) = c.round
          PROVE  c.n = Cardinality(SentTo(c.src, c.root, EpochAt(prog, k))')
      <4>1. m.src = c.src => m.epoch # EpochAt(prog, k)
        <5> SUFFICES ASSUME c.src = p PROVE count_epoch[p] # EpochAt(prog, k)
          BY <3>2
        <5>1. Contributed(p, c.root, c.round)
          BY DEF ReduceInv
        <5>2. reduces[p] > RoundAt(prog, k)
          BY <3>1, <3>4, <5>1 DEF Contributed
        <5>3. count_epoch[p] > EpochAt(prog, k)
          BY <3>1, <5>2, LaterEpoch
        <5>4. count_epoch[p] \in Nat
          BY DEF StateType
        <5> QED
          BY <5>3, <5>4
      <4>2. SentTo(c.src, c.root, EpochAt(prog, k))' = SentTo(c.src, c.root, EpochAt(prog, k))
        BY <3>1, <4>1 DEF SentTo
      <4> QED
        BY <3>4, <4>2 DEF TotalInv
    <3>5. ASSUME NEW r \in Procs
          PROVE  partial[r] = Cardinality({s \in EpochMessages(r) : s.src \in got[r]}')
      <4>1. m.src \in got[r] => m.epoch # count_epoch[r]
        <5> SUFFICES ASSUME p \in got[r] PROVE count_epoch[p] # count_epoch[r]
          BY <3>2
        <5>1. Contributed(p, r, reduces[r]) /\ pc[r] = "reduce"
          BY DEF ReduceInv
        <5>2. reduces[p] > reduces[r]
          BY <3>1, <5>1 DEF Contributed
        <5>3. /\ reduces[r] = RoundAt(prog, pos[r]) /\ count_epoch[r] = EpochAt(prog, pos[r])
              /\ pos[r] \in 0 .. Len(prog) /\ pos[r] < Len(prog)
          BY <5>1 DEF ProgramInv, Counters, Phase
        <5>4. pos[r] \in 0 .. Len(prog) - 1
          BY <5>3, ProgramFacts
        <5>5. count_epoch[p] > EpochAt(prog, pos[r])
          BY <3>1, <5>2, <5>3, <5>4, LaterEpoch
        <5>6. count_epoch[p] \in Nat
          BY DEF StateType
        <5> QED
          BY <5>3, <5>5, <5>6
      <4>2. {s \in EpochMessages(r) : s.src \in got[r]}' = {s \in EpochMessages(r) : s.src \in got[r]}
        BY <3>1, <3>3, <4>1 DEF EpochMessages
      <4> QED
        BY <4>2 DEF TotalInv
    <3>6. ASSUME NEW r \in Procs, Known(r)
          PROVE  value[r] = Cardinality(EpochMessages(r)')
      <4>1. count_epoch[p] # count_epoch[r]
        BY <3>1, <3>6, ClosedEpoch DEF Known
      <4>2. EpochMessages(r)' = EpochMessages(r)
        BY <3>1, <3>2, <4>1 DEF EpochMessages
      <4> QED
        BY <3>6, <4>2 DEF TotalInv, Known
    <3> QED
      BY <3>1, <3>3, <3>4, <3>5, <3>6 DEF TotalInv, Known
  <2> QED
    BY <2>1, <2>2
<1>4. ASSUME NEW p \in Procs, SendString(p)
      PROVE  TotalInv'
  <2>1. /\ UNCHANGED <<prog, sent, contrib, got, partial, count_epoch, value>>
        /\ \A q \in Procs : Known(q)' => Known(q)
    BY <1>4 DEF SendString, stateVars, reduceVars, MainType, Known
  <2> QED
    BY <2>1, TotalFrame
<1>5. ASSUME NEW p \in Procs, CountSend(p)
      PROVE  TotalInv'
  <2>1. /\ UNCHANGED <<prog, sent, contrib, got, partial, count_epoch, value>>
        /\ \A q \in Procs : Known(q)' => Known(q)
    BY <1>5 DEF CountSend, netVars, reduceVars, MainType, Known
  <2> QED
    BY <2>1, TotalFrame
<1>6. ASSUME NEW p \in Procs, ReceiveInterval(p)
      PROVE  TotalInv'
  <2>1. /\ UNCHANGED <<prog, sent, contrib, got, partial, count_epoch, value>>
        /\ \A q \in Procs : Known(q)' => Known(q)
    BY <1>6 DEF ReceiveInterval, mainVars, reduceVars, MainType, Known
  <2> QED
    BY <2>1, TotalFrame
<1>7. ASSUME NEW p \in Procs, ReceiveString(p)
      PROVE  TotalInv'
  <2>1. /\ UNCHANGED <<prog, sent, contrib, got, partial, count_epoch, value>>
        /\ \A q \in Procs : Known(q)' => Known(q)
    BY <1>7 DEF ReceiveString, mainVars, stateVars, reduceVars, MainType, Known
  <2> QED
    BY <2>1, TotalFrame
<1>8. ASSUME NEW p \in Procs, SaveReceived(p)
      PROVE  TotalInv'
  <2>1. CASE Abort(p, AtTarget(cur[p]))
    BY <1>1, <2>1
  <2>2. CASE ~ Abort(p, AtTarget(cur[p]))
    <3>1. /\ UNCHANGED <<prog, sent, contrib, got, partial, count_epoch, value>>
          /\ \A q \in Procs : Known(q)' => Known(q)
      BY <1>8, <2>2 DEF SaveReceived, mainVars, netVars, reduceVars, Known
    <3> QED
      BY <3>1, TotalFrame
  <2> QED
    BY <2>1, <2>2
<1>9. ASSUME NEW p \in Procs, ExitThread(p)
      PROVE  TotalInv'
  <2>1. /\ UNCHANGED <<prog, sent, contrib, got, partial, count_epoch, value>>
        /\ \A q \in Procs : Known(q)' => Known(q)
    BY <1>9 DEF ExitThread, mainVars, netVars, reduceVars, MainType, Known
  <2> QED
    BY <2>1, TotalFrame
<1>10. ASSUME NEW p \in Procs, WinLockAll(p)
      PROVE  TotalInv'
  <2>1. InitCommCheckThread(p) /\ UNCHANGED <<prog, sent, contrib, got, partial, value>>
    BY <1>10 DEF WinLockAll, netVars, reduceVars, InitCommCheckThread
  <2>2. pc[p] # "reduce" /\ ~ Known(p)' /\ \A q \in Procs : q # p => (Known(q)' => Known(q))
    BY <1>10 DEF WinLockAll, Calls, Return, reduceVars, MainType, Known
  <2>3. got[p] = {}
    BY <2>2 DEF ReduceInv
  <2> QED
    BY <2>1, <2>2, <2>3, TotalInit DEF InitCommCheckThread
<1>11. ASSUME NEW p \in Procs, BeginClear(p)
      PROVE  TotalInv'
  <2>1. /\ UNCHANGED <<prog, sent, contrib, got, partial, count_epoch, value>>
        /\ pc' = [pc EXCEPT ![p] = "reduce"] /\ redIdx' = [redIdx EXCEPT ![p] = 0]
    BY <1>11 DEF BeginClear, netVars, stateVars
  <2>2. ~ (0 > p)
    BY DEF Procs
  <2>3. \A q \in Procs : Known(q)' => Known(q)
    BY <2>1, <2>2 DEF Known, MainType, ReduceType
  <2> QED
    BY <2>1, <2>3, TotalFrame
<1>c. ASSUME NEW p \in Procs, pc[p] = "reduce"
      PROVE  /\ pos[p] \in 0 .. Len(prog) - 1 /\ pos[p] \in Nat /\ Ends(prog, pos[p] + 1)
             /\ reduces[p] = RoundAt(prog, pos[p]) /\ count_epoch[p] = EpochAt(prog, pos[p])
  <2>1. /\ pos[p] \in 0 .. Len(prog) /\ pos[p] < Len(prog) /\ Ends(prog, pos[p] + 1)
        /\ reduces[p] = RoundAt(prog, pos[p]) /\ count_epoch[p] = EpochAt(prog, pos[p])
    BY <1>c DEF ProgramInv, Phase, Counters
  <2> QED
    BY <2>1, ProgramFacts
<1>12. ASSUME NEW p \in Procs, Contribute(p)
      PROVE  TotalInv'
  <2> DEFINE root == redIdx[p]
             d == [src |-> p, root |-> root, round |-> reduces[p], n |-> array[p][root]]
  <2>1. /\ pc[p] = "reduce" /\ root < N /\ root # p
        /\ contrib' = contrib \cup {d}
        /\ redIdx' = [redIdx EXCEPT ![p] = @ + 1]
        /\ UNCHANGED <<prog, pc, sent, got, partial, count_epoch, value>>
    BY <1>12 DEF Contribute, mainVars, netVars, stateVars
  <2>2. d.src = p /\ d.root = root /\ d.round = reduces[p] /\ d.n = array[p][root]
    OBVIOUS
  <2> HIDE DEF d
  <2>3. root \in Procs
    <3>1. root \in 0 .. N /\ N \in Nat
      BY AnalyzerAssumption DEF ReduceType
    <3> QED
      BY <2>1, <3>1 DEF Procs
  <2>4. \A q \in Procs : Known(q)' => Known(q)
    <3>1. root \in Int /\ p \in Int
      BY <2>3 DEF Procs
    <3>2. root + 1 > p => root > p
      BY <2>1, <3>1
    <3> QED
      BY <2>1, <3>2 DEF Known, ReduceType
  <2>5. array[p][root] = Cardinality(SentTo(p, root, count_epoch[p]))
    <3>1. array[p][root] + (IF pc[p] \in {"sentItv", "sentStr"} /\ out[p].dst = root THEN 1 ELSE 0)
            = Cardinality(SentTo(p, root, count_epoch[p]))
      BY <2>3 DEF SentInv
    <3>2. array[p][root] \in Nat
      BY <2>3 DEF StateType
    <3> QED
      BY <2>1, <3>1, <3>2
  <2>6. ASSUME NEW c \in contrib', NEW k \in 0 .. Len(prog) - 1,
               Ends(prog, k + 1), RoundAt(prog, k) = c.round
        PROVE  c.n = Cardinality(SentTo(c.src, c.root, EpochAt(prog, k)))
    <3>1. CASE c = d
      <4>1. k = pos[p]
        BY <1>c, <2>1, <2>2, <2>6, <3>1, RoundUnique
      <4> QED
        BY <1>c, <2>1, <2>2, <2>5, <3>1, <4>1
    <3>2. CASE c \in contrib
      BY <2>6, <3>2 DEF TotalInv
    <3> QED
      BY <2>1, <3>1, <3>2
  <2>7. \A q \in Procs : EpochMessages(q)' = EpochMessages(q)
    BY <2>1 DEF EpochMessages
  <2> QED
    BY <2>1, <2>4, <2>6, <2>7 DEF TotalInv, Known, SentTo
<1>13. ASSUME NEW p \in Procs, Combine(p)
      PROVE  TotalInv'
  <2>1. PICK c \in contrib :
          /\ c.root = p /\ c.round = reduces[p]
          /\ got' = [got EXCEPT ![p] = @ \cup {c.src}]
          /\ partial' = [partial EXCEPT ![p] = @ + c.n]
          /\ contrib' = contrib \ {c}
    BY <1>13 DEF Combine
  <2>2. /\ pc[p] = "reduce"
        /\ UNCHANGED <<prog, pc, redIdx, sent, count_epoch, value>>
    BY <1>13 DEF Combine, mainVars, netVars, stateVars
  <2>3. \A q \in Procs : EpochMessages(q)' = EpochMessages(q)
    BY <2>2 DEF EpochMessages
  <2>4. ASSUME NEW q \in Procs
        PROVE  partial'[q] = Cardinality({m \in EpochMessages(q) : m.src \in got'[q]})
    <3>1. CASE q = p
      <4> DEFINE A == {m \in EpochMessages(p) : m.src \in got[p]}
                 B == SentTo(c.src, p, count_epoch[p])
      <4>1. got'[p] = got[p] \cup {c.src} /\ partial'[p] = partial[p] + c.n
        BY <2>1 DEF ReduceType
      <4>2. c.n = Cardinality(B)
        BY <1>c, <2>1, <2>2 DEF TotalInv
      <4>3. c.src \notin got[p]
        BY <2>1 DEF ReduceInv
      <4>4. /\ {m \in EpochMessages(p) : m.src \in got'[p]} = A \cup B
            /\ A \cap B = {}
        BY <4>1, <4>3 DEF EpochMessages, SentTo
      <4>5. IsFiniteSet(A) /\ IsFiniteSet(B)
        BY FS_Subset DEF SentInv, EpochMessages, SentTo
      <4>6. partial[p] = Cardinality(A)
        BY DEF TotalInv
      <4> HIDE DEF A, B
      <4>7. Cardinality(A \cup B) = Cardinality(A) + Cardinality(B)
        BY <4>4, <4>5, DisjointUnion
      <4> QED
        BY <3>1, <4>1, <4>2, <4>4, <4>6, <4>7
    <3>2. CASE q # p
      BY <2>1, <3>2 DEF TotalInv, ReduceType
    <3> QED
      BY <3>1, <3>2
  <2> QED
    BY <2>1, <2>2, <2>3, <2>4 DEF TotalInv, SentTo
<1>14. ASSUME NEW p \in Procs, ReduceReturns(p)
      PROVE  TotalInv'
  <2>1. /\ pc[p] = "reduce" /\ redIdx[p] = p /\ got[p] = Procs \ {p}
        /\ value' = [value EXCEPT ![p] = partial[p] + array[p][p]]
        /\ got' = [got EXCEPT ![p] = {}]
        /\ partial' = [partial EXCEPT ![p] = 0]
        /\ redIdx' = [redIdx EXCEPT ![p] = @ + 1]
        /\ UNCHANGED <<prog, pc, contrib, sent, count_epoch>>
    BY <1>14 DEF ReduceReturns, Expected, mainVars, netVars
  <2>2. \A q \in Procs : EpochMessages(q)' = EpochMessages(q)
    BY <2>1 DEF EpochMessages
  <2>3. ASSUME NEW q \in Procs
        PROVE  partial'[q] = Cardinality({m \in EpochMessages(q) : m.src \in got'[q]})
    <3>1. CASE q = p
      <4>1. {m \in EpochMessages(q) : m.src \in got'[q]} = {} /\ partial'[p] = 0
        BY <2>1, <3>1 DEF ReduceType
      <4> QED
        BY <3>1, <4>1, FS_EmptySet
    <3>2. CASE q # p
      BY <2>1, <3>2 DEF TotalInv, ReduceType
    <3> QED
      BY <3>1, <3>2
  <2>4. partial[p] + array[p][p] = Cardinality(EpochMessages(p))
    <3> DEFINE A == {m \in EpochMessages(p) : m.src \in got[p]}
               B == SentTo(p, p, count_epoch[p])
    <3>1. array[p][p] = Cardinality(B)
      <4>1. array[p][p] + (IF pc[p] \in {"sentItv", "sentStr"} /\ out[p].dst = p THEN 1 ELSE 0)
              = Cardinality(B)
        BY DEF SentInv
      <4>2. array[p][p] \in Nat
        BY DEF StateType
      <4> QED
        BY <2>1, <4>1, <4>2
    <3>2. EpochMessages(p) = A \cup B /\ A \cap B = {}
      BY <1>b, <2>1 DEF EpochMessages, SentTo
    <3>3. IsFiniteSet(A) /\ IsFiniteSet(B)
      BY FS_Subset DEF SentInv, EpochMessages, SentTo
    <3>4. partial[p] = Cardinality(A)
      BY DEF TotalInv
    <3> HIDE DEF A, B
    <3>5. Cardinality(A \cup B) = Cardinality(A) + Cardinality(B)
      BY <3>2, <3>3, DisjointUnion
    <3> QED
      BY <3>1, <3>2, <3>4, <3>5
  <2>5. ASSUME NEW q \in Procs, Known(q)'
        PROVE  value'[q] = Cardinality(EpochMessages(q))
    <3>1. CASE q = p
      BY <2>1, <2>4, <3>1 DEF StateType
    <3>2. CASE q # p
      BY <2>1, <2>5, <3>2 DEF TotalInv, Known, StateType, ReduceType
    <3> QED
      BY <3>1, <3>2
  <2> QED
    BY <2>1, <2>2, <2>3, <2>5 DEF TotalInv, Known, SentTo
<1>15. ASSUME NEW p \in Procs, EndThread(p)
      PROVE  TotalInv'
  <2>1. /\ pc[p] = "reduce" /\ redIdx[p] = N /\ pc' = [pc EXCEPT ![p] = "join"]
        /\ UNCHANGED <<prog, sent, contrib, got, partial, redIdx, count_epoch, value>>
    BY <1>15 DEF EndThread, netVars
  <2>2. N > p
    BY AnalyzerAssumption DEF Procs
  <2>3. \A q \in Procs : Known(q)' => Known(q)
    BY <2>1, <2>2 DEF Known, MainType
  <2> QED
    BY <2>1, <2>3, TotalFrame
<1>16. ASSUME NEW p \in Procs, Join(p)
      PROVE  TotalInv'
  <2>1. /\ UNCHANGED <<prog, sent, contrib, got, partial, redIdx, count_epoch, value>>
        /\ pc[p] = "join"
    BY <1>16 DEF Join, netVars, reduceVars
  <2>2. \/ pc' = [pc EXCEPT ![p] = "user"]
        \/ pc' = [pc EXCEPT ![p] = "fence"]
        \/ pc' = [pc EXCEPT ![p] = "restart"]
        \/ pc' = [pc EXCEPT ![p] = "stop"]
    BY <1>16, JoinPc
  <2>3. \A q \in Procs : Known(q)' => Known(q)
    BY <2>1, <2>2 DEF MainType, Known
  <2> QED
    BY <2>1, <2>3, TotalFrame
<1>17. ASSUME NEW p \in Procs, WinFence(p)
      PROVE  TotalInv'
  <2>1. InitCommCheckThread(p) /\ UNCHANGED <<prog, sent, contrib, got, partial, value>>
    BY <1>17 DEF WinFence, netVars, reduceVars, InitCommCheckThread
  <2>2. pc[p] # "reduce" /\ ~ Known(p)' /\ \A q \in Procs : q # p => (Known(q)' => Known(q))
    BY <1>17 DEF WinFence, Calls, Return, reduceVars, MainType, Known
  <2>3. got[p] = {}
    BY <2>2 DEF ReduceInv
  <2> QED
    BY <2>1, <2>2, <2>3, TotalInit DEF InitCommCheckThread
<1>18. ASSUME NEW p \in Procs, RestartThread(p)
      PROVE  TotalInv'
  <2>1. UNCHANGED <<prog, sent, contrib, got, partial, redIdx, value>>
    BY <1>18 DEF RestartThread, InitCommCheckThread, netVars, reduceVars
  <2>2. pc[p] # "reduce" /\ ~ Known(p)' /\ \A q \in Procs : q # p => (Known(q)' => Known(q))
    BY <1>18, <2>1 DEF RestartThread, Calls, MainType, Known
  <2>3. got[p] = {}
    BY <2>2 DEF ReduceInv
  <2>4. CASE NeedsRestart(p)
    <3>1. InitCommCheckThread(p)
      BY <1>18, <2>4 DEF RestartThread
    <3> QED
      BY <2>1, <2>2, <2>3, <3>1, TotalInit DEF InitCommCheckThread
  <2>5. CASE ~ NeedsRestart(p)
    <3>1. UNCHANGED count_epoch
      BY <1>18, <2>5 DEF RestartThread
    <3> QED
      BY <2>1, <2>2, <3>1, TotalFrame
  <2> QED
    BY <2>4, <2>5
<1>19. ASSUME NEW p \in Procs, LeaveBarrier(p)
      PROVE  TotalInv'
  <2>1. /\ UNCHANGED <<prog, sent, contrib, got, partial, count_epoch, value>>
        /\ \A q \in Procs : Known(q)' => Known(q)
    BY <1>19 DEF LeaveBarrier, Return, netVars, stateVars, reduceVars, MainType, Known
  <2> QED
    BY <2>1, TotalFrame
<1>20. ASSUME NEW p \in Procs, WinFreeClear(p)
      PROVE  TotalInv'
  <2>1. /\ pc[p] = "user" /\ pos[p] < Len(prog) /\ prog[pos[p] + 1] = "free"
        /\ count_fence[p] > 0
        /\ value' = [value EXCEPT ![p] = 0]
        /\ pc' = [pc EXCEPT ![p] = "join"]
        /\ UNCHANGED <<prog, sent, contrib, got, partial, redIdx, count_epoch>>
    BY <1>20 DEF WinFreeClear, Calls, netVars, reduceVars
  <2>2. /\ pos[p] + 1 = Len(prog) /\ OpenAfter(prog, pos[p])
        /\ pos[p] \in 0 .. Len(prog) /\ Len(prog) \in Nat
        /\ count_epoch[p] = EpochAt(prog, pos[p])
    <3>1. Fenced(prog, pos[p]) /\ count_epoch[p] = EpochAt(prog, pos[p])
      BY <2>1 DEF ProgramInv, Flags, Counters
    <3>2. Len(prog) \in Nat /\ pos[p] \in Nat
      BY <2>1, NextCall
    <3>3. pos[p] + 1 = Len(prog) /\ OpenAfter(prog, pos[p])
      BY <2>1, <3>1, NextCall
    <3> QED
      BY <3>1, <3>2, <3>3
  <2>3. EpochMessages(p) = {}
    <3> SUFFICES ASSUME NEW m \in EpochMessages(p) PROVE FALSE
      OBVIOUS
    <3>1. PICK k \in 0 .. Len(prog) - 1 :
            m.epoch = EpochAt(prog, k) /\ prog[k + 1] # "free"
      BY DEF EpochMessages, SentInv
    <3>2. k \in 0 .. pos[p] - 1
      BY <2>1, <2>2, <3>1
    <3>3. EpochAt(prog, k) < EpochAt(prog, pos[p])
      BY <2>1, <2>2, <3>2, OpenEpoch
    <3>4. EpochAt(prog, pos[p]) \in Nat
      BY NextPosition
    <3> QED
      BY <2>2, <3>1, <3>3, <3>4 DEF EpochMessages
  <2>4. \A q \in Procs : EpochMessages(q)' = EpochMessages(q)
    BY <2>1 DEF EpochMessages
  <2>5. ASSUME NEW q \in Procs, Known(q)'
        PROVE  value'[q] = Cardinality(EpochMessages(q))
    <3>1. CASE q = p
      BY <2>1, <2>3, <3>1, FS_EmptySet DEF StateType
    <3>2. CASE q # p
      BY <2>1, <2>5, <3>2 DEF TotalInv, Known, StateType, MainType
    <3> QED
      BY <3>1, <3>2
  <2>6. ASSUME NEW c \in contrib', NEW k \in 0 .. Len(prog') - 1,
               Ends(prog', k + 1), RoundAt(prog', k) = c.round
        PROVE  c.n = Cardinality(SentTo(c.src, c.root, EpochAt(prog, k)))'
    BY <2>1, <2>6 DEF TotalInv, SentTo
  <2>7. \A q \in Procs : partial'[q] = Cardinality({m \in EpochMessages(q) : m.src \in got[q]})'
    BY <2>1, <2>4 DEF TotalInv
  <2>8. \A q \in Procs : Known(q)' => value'[q] = Cardinality(EpochMessages(q))'
    BY <2>4, <2>5
  <2> QED
    BY <2>6, <2>7, <2>8 DEF TotalInv, Known
<1>21. ASSUME NEW p \in Procs, WinFree(p)
      PROVE  TotalInv'
  <2>1. /\ UNCHANGED <<prog, sent, contrib, got, partial, count_epoch, value>>
        /\ \A q \in Procs : Known(q)' => Known(q)
    BY <1>21 DEF WinFree, Calls, netVars, stateVars, reduceVars, MainType, Known
  <2> QED
    BY <2>1, TotalFrame
<1>22. CASE UNCHANGED vars
  <2>1. /\ UNCHANGED <<prog, sent, contrib, got, partial, count_epoch, value>>
        /\ \A q \in Procs : Known(q)' => Known(q)
    BY <1>22 DEF vars, mainVars, netVars, stateVars, reduceVars, Known
  <2> QED
    BY <2>1, TotalFrame
<1> QED
  BY <1>2, <1>3, <1>4, <1>5, <1>6, <1>7, <1>8, <1>9, <1>10, <1>11, <1>12, <1>13, <1>14,
     <1>15, <1>16, <1>17, <1>18, <1>19, <1>20, <1>21, <1>22
  DEF Next, User, Call, CheckThread, Finished

-----------------------------------------------------------------------------
(* What the checking thread receives. *)

Receiving == {"test", "probe", "save"}

(* The part of the invariant about what is sent to p. *)
Delivery(p) ==
  /\ \A m \in net : m.dst = p =>
       \/ m.epoch > count_epoch[p]
       \/ m.epoch = count_epoch[p] /\ thread[p] \in Receiving
  /\ \A m \in sent : m.dst = p /\ m.epoch > count_epoch[p] => m \in net
  /\ thread[p] \in Receiving => count[p] = Cardinality(Received(p))
  /\ thread[p] = "off" => count[p] = 0
  /\ thread[p] \in {"test", "exit"} => landed[p] = Received(p)
  /\ thread[p] \in {"probe", "save"} =>
       /\ cur[p] \in Received(p)
       /\ landed[p] \cup {cur[p]} = Received(p)
  /\ thread[p] = "exit" => landed[p] = EpochMessages(p)

Deliveries == net \subseteq sent /\ \A p \in Procs : Delivery(p)

(* The three invariants about deliveries, one process at a time. *)
LEMMA DeliveryParts ==
  NetType => (ReceivedInv /\ NoStaleInterval /\ EpochComplete <=> Deliveries)
<1> SUFFICES ASSUME NetType
             PROVE  ReceivedInv /\ NoStaleInterval /\ EpochComplete <=> Deliveries
  OBVIOUS
<1>1. \A m \in sent : m.dst \in Procs
  BY DEF NetType, Message
<1>2. \A m \in net : m.dst \in Procs
  BY DEF NetType, Message
<1>3. ASSUME ReceivedInv, NoStaleInterval, EpochComplete, NEW p \in Procs
      PROVE  Delivery(p)
  BY <1>3 DEF ReceivedInv, NoStaleInterval, EpochComplete, Delivery, Receiving
<1>4. ASSUME net \subseteq sent, \A p \in Procs : Delivery(p)
      PROVE  ReceivedInv
  BY <1>1, <1>4 DEF ReceivedInv, Delivery, Receiving
<1>5. ASSUME \A p \in Procs : Delivery(p)
      PROVE  NoStaleInterval
  BY <1>2, <1>5 DEF NoStaleInterval, Delivery, Receiving
<1>6. ASSUME \A p \in Procs : Delivery(p)
      PROVE  EpochComplete
  BY <1>6 DEF EpochComplete, Delivery
<1>7. ReceivedInv => net \subseteq sent
  BY DEF ReceivedInv
<1> QED
  BY <1>3, <1>4, <1>5, <1>6, <1>7 DEF Deliveries

(* What a step leaves alone for q, and for the messages to q. *)
SameDelivery(q) ==
  /\ count_epoch'[q] = count_epoch[q] /\ thread'[q] = thread[q]
  /\ count'[q] = count[q] /\ landed'[q] = landed[q] /\ cur'[q] = cur[q]
  /\ \A m : m.dst = q => (m \in net' <=> m \in net) /\ (m \in sent' <=> m \in sent)

(* A step of another process keeps the deliveries of q. *)
LEMMA DeliveryFrame ==
  ASSUME NEW q \in Procs, Delivery(q), SameDelivery(q)
  PROVE  Delivery(q)'
<1>1. EpochMessages(q)' = EpochMessages(q)
  BY DEF EpochMessages, SameDelivery
<1>2. Received(q)' = Received(q)
  BY <1>1 DEF Received, EpochMessages, SameDelivery
<1> QED
  BY <1>1, <1>2 DEF Delivery, SameDelivery

(* A checking thread starts on a window to which nothing of the new epoch  *)
(* has been delivered.                                                     *)
LEMMA DeliveryInit ==
  ASSUME TypeInv, NEW p \in Procs, \A q \in Procs : Delivery(q), net \subseteq sent,
         InitCommCheckThread(p), status' # "terminated", UNCHANGED <<net, sent>>
  PROVE  net' \subseteq sent' /\ \A q \in Procs : Delivery(q)'
<1>0. StateType /\ ThreadType /\ NetType
  BY DEF TypeInv, TypeOK
<1>1. /\ thread[p] = "off"
      /\ count_epoch' = [count_epoch EXCEPT ![p] = @ + 1]
      /\ thread' = [thread EXCEPT ![p] = "test"]
      /\ landed' = [landed EXCEPT ![p] = {}]
      /\ UNCHANGED <<count, cur>>
  BY DEF InitCommCheckThread
<1>2. /\ count_epoch'[p] = count_epoch[p] + 1 /\ thread'[p] = "test" /\ landed'[p] = {}
      /\ count_epoch[p] \in Nat
      /\ \A q \in Procs : q # p => /\ count_epoch'[q] = count_epoch[q]
                                   /\ thread'[q] = thread[q] /\ landed'[q] = landed[q]
  BY <1>0, <1>1 DEF StateType, ThreadType
<1>3. \A m \in sent : m.epoch \in Nat
  BY <1>0 DEF NetType, Message
<1>4. ASSUME NEW q \in Procs, q # p
      PROVE  Delivery(q)'
  BY <1>1, <1>2, <1>4, DeliveryFrame DEF SameDelivery
<1>5. Delivery(p)'
  <2>1. Received(p)' = {}
    <3> SUFFICES ASSUME NEW m \in Received(p)' PROVE FALSE
      OBVIOUS
    <3>1. m \in sent /\ m.dst = p /\ m.epoch = count_epoch[p] + 1 /\ m \notin net
      BY <1>2 DEF Received, EpochMessages
    <3>2. m.epoch > count_epoch[p]
      BY <1>2, <3>1
    <3> QED
      BY <3>1, <3>2 DEF Delivery
  <2>2. count'[p] = 0
    BY <1>1 DEF Delivery
  <2>3. \A m \in net' : m.dst = p => m.epoch > count_epoch'[p] \/ m.epoch = count_epoch'[p]
    BY <1>1, <1>2, <1>3 DEF Delivery, Receiving
  <2>4. \A m \in sent' : m.dst = p /\ m.epoch > count_epoch'[p] => m \in net'
    BY <1>2, <1>3 DEF Delivery
  <2>5. count'[p] = Cardinality(Received(p)')
    BY <2>1, <2>2, FS_EmptySet
  <2> QED
    BY <1>2, <2>1, <2>3, <2>4, <2>5 DEF Delivery, Receiving
<1> QED
  BY <1>4, <1>5

(* Every step keeps what is received in order. *)
LEMMA ReceivedStep ==
  ASSUME ProgramsWellFormed, TypeInv, ProgramInv, ReduceInv, SentInv, TotalInv,
         net \subseteq sent, \A q \in Procs : Delivery(q),
         [Next]_vars, status' # "terminated"
  PROVE  net' \subseteq sent' /\ \A q \in Procs : Delivery(q)'
<1> DEFINE Goal == net' \subseteq sent' /\ \A q \in Procs : Delivery(q)'
<1>0. MainType /\ ThreadType /\ StateType /\ NetType
  BY DEF TypeInv, TypeOK
<1> USE <1>0
<1>a. ASSUME NEW q \in Procs
      PROVE  /\ IsFiniteSet(EpochMessages(q)) /\ EpochMessages(q) \subseteq sent
             /\ IsFiniteSet(Received(q)) /\ Received(q) \subseteq EpochMessages(q)
  BY FS_Subset DEF EpochMessages, Received, SentInv
<1>b. \A m \in sent : m.src \in Procs /\ m.dst \in Procs /\ m.epoch \in Nat
  BY DEF NetType, Message
<1>c. ASSUME UNCHANGED <<net, sent, count_epoch, thread, count, landed, cur>>
      PROVE  Goal
  BY <1>c, DeliveryFrame DEF SameDelivery
<1>1. ASSUME NEW p \in Procs, NEW Acc, Abort(p, Acc)
      PROVE  Goal
  BY <1>1, <1>c DEF Abort, netVars, stateVars, threadVars
<1>2. ASSUME NEW p \in Procs, NEW Acc \in LocalOps, LoadStore(p, Acc)
      PROVE  Goal
  <2>1. CASE ~ Abort(p, Acc)
    BY <1>2, <1>c, <2>1 DEF LoadStore, netVars, threadVars
  <2> QED
    BY <1>1, <2>1
<1>3. ASSUME NEW p \in Procs, NEW q \in Procs, NEW op \in RmaOps, Communicate(p, q, op)
      PROVE  Goal
  <2> DEFINE local == [Itv |-> op.origin, Type |-> OriginType(op.kind)]
             m == [src |-> p, dst |-> q, epoch |-> count_epoch[p], n |-> array[p][q],
                   file |-> op.file,
                   acc |-> [Itv |-> op.target, Type |-> TargetType(op.kind)]]
  <2>1. CASE Abort(p, local)
    BY <1>1, <2>1
  <2>2. CASE ~ Abort(p, local)
    <3>1. /\ pc[p] = "user" /\ InEpoch(p)
          /\ sent' = sent \cup {m} /\ net' = net \cup {m}
          /\ UNCHANGED <<threadVars, count, count_epoch>>
      BY <1>3, <2>2 DEF Communicate
    <3>2. m.src = p /\ m.dst = q /\ m.epoch = count_epoch[p] /\ m.n = array[p][q]
      OBVIOUS
    <3> HIDE DEF m
    <3>3. UNCHANGED <<count_epoch, thread, count, landed, cur>>
      BY <3>1 DEF threadVars
    <3>4. m \notin sent
      <4>1. \A s \in sent : s.n \in Nat
        BY DEF NetType, Message
      <4>2. count_epoch[p] \in Nat /\ array[p][q] \in Nat
        BY DEF StateType
      <4> QED
        BY <3>1, <3>2, <4>1, <4>2 DEF SentInv
    <3>5. ASSUME NEW r \in Procs, r # q
          PROVE  Delivery(r)'
      BY <3>1, <3>2, <3>3, <3>5, DeliveryFrame DEF SameDelivery
    <3>6. Delivery(q)'
      <4>1. Received(q)' = Received(q)
        BY <3>1, <3>3, <3>4 DEF Received, EpochMessages
      <4>2. \/ count_epoch[p] > count_epoch[q]
            \/ count_epoch[p] = count_epoch[q] /\ thread[q] \in Receiving
        BY <3>1, TargetReceives DEF Receiving
      <4>3. \A s \in net' : s.dst = q =>
              \/ s.epoch > count_epoch'[q]
              \/ s.epoch = count_epoch'[q] /\ thread'[q] \in Receiving
        BY <3>1, <3>2, <3>3, <4>2 DEF Delivery
      <4>4. \A s \in sent' : s.dst = q /\ s.epoch > count_epoch'[q] => s \in net'
        BY <3>1, <3>3 DEF Delivery
      <4>5. ASSUME thread'[q] = "exit"
            PROVE  landed'[q] = EpochMessages(q)'
        <5>1. pc[q] = "join"
          BY <3>3, <4>5 DEF ProgramInv, Flags
        <5>2. count_epoch[p] # count_epoch[q]
          BY <3>1, <5>1, ClosedEpoch
        <5>3. EpochMessages(q)' = EpochMessages(q)
          BY <3>1, <3>2, <3>3, <5>2 DEF EpochMessages
        <5> QED
          BY <3>3, <4>5, <5>3 DEF Delivery
      <4> QED
        BY <3>3, <4>1, <4>3, <4>4, <4>5 DEF Delivery
    <3> QED
      BY <3>1, <3>5, <3>6
  <2> QED
    BY <2>1, <2>2
<1>4. ASSUME NEW p \in Procs, SendString(p)
      PROVE  Goal
  BY <1>4, <1>c DEF SendString, threadVars, stateVars
<1>5. ASSUME NEW p \in Procs, CountSend(p)
      PROVE  Goal
  BY <1>5, <1>c DEF CountSend, threadVars, netVars
<1>6. ASSUME NEW p \in Procs, ReceiveInterval(p)
      PROVE  Goal
  <2>1. PICK m \in net : /\ MatchesTag(p, m) /\ net' = net \ {m}
                         /\ cur' = [cur EXCEPT ![p] = m]
    BY <1>6 DEF ReceiveInterval
  <2>2. /\ thread[p] = "test"
        /\ count' = [count EXCEPT ![p] = @ + 1]
        /\ thread' = [thread EXCEPT ![p] = "probe"]
        /\ UNCHANGED <<landed, sent, count_epoch>>
    BY <1>6 DEF ReceiveInterval
  <2>3. m.dst = p /\ m.epoch = count_epoch[p] /\ m \in sent /\ count_epoch[p] \in Nat
    BY <2>1 DEF MatchesTag, StateType
  <2>4. /\ count'[p] = count[p] + 1 /\ thread'[p] = "probe" /\ cur'[p] = m
        /\ \A r \in Procs : r # p => /\ count'[r] = count[r] /\ thread'[r] = thread[r]
                                     /\ cur'[r] = cur[r]
    BY <2>1, <2>2 DEF StateType, ThreadType
  <2>5. ASSUME NEW r \in Procs, r # p
        PROVE  Delivery(r)'
    BY <2>1, <2>2, <2>3, <2>4, <2>5, DeliveryFrame DEF SameDelivery
  <2>6. Delivery(p)'
    <3>1. m \notin Received(p)
      BY DEF Received
    <3>2. Received(p)' = Received(p) \cup {m}
      BY <2>1, <2>2, <2>3 DEF Received, EpochMessages
    <3>3. count[p] = Cardinality(Received(p)) /\ landed[p] = Received(p)
      BY <2>2 DEF Delivery, Receiving
    <3>4. Cardinality(Received(p) \cup {m}) = Cardinality(Received(p)) + 1
      BY <1>a, <3>1, FS_AddElement
    <3>5. count'[p] = Cardinality(Received(p)')
      BY <2>4, <3>2, <3>3, <3>4
    <3>6. \A s \in net' : s.dst = p => s.epoch > count_epoch'[p] \/ s.epoch = count_epoch'[p]
      BY <2>1, <2>2 DEF Delivery
    <3>7. \A s \in sent' : s.dst = p /\ s.epoch > count_epoch'[p] => s \in net'
      BY <2>1, <2>2, <2>3 DEF Delivery
    <3>8. cur'[p] \in Received(p)' /\ landed'[p] \cup {cur'[p]} = Received(p)'
      BY <2>2, <2>4, <3>2, <3>3
    <3> QED
      BY <2>4, <3>5, <3>6, <3>7, <3>8 DEF Delivery, Receiving
  <2> QED
    BY <2>1, <2>2, <2>5, <2>6
<1>7. ASSUME NEW p \in Procs, ReceiveString(p)
      PROVE  Goal
  <2>1. /\ thread[p] = "probe" /\ thread' = [thread EXCEPT ![p] = "save"]
        /\ UNCHANGED <<cur, landed, net, sent, count, count_epoch>>
    BY <1>7 DEF ReceiveString, stateVars
  <2>2. /\ thread'[p] = "save"
        /\ \A r \in Procs : r # p => thread'[r] = thread[r]
    BY <2>1 DEF ThreadType
  <2>3. ASSUME NEW r \in Procs, r # p
        PROVE  Delivery(r)'
    BY <2>1, <2>2, <2>3, DeliveryFrame DEF SameDelivery
  <2>4. Delivery(p)'
    <3>1. Received(p)' = Received(p)
      BY <2>1 DEF Received, EpochMessages
    <3> QED
      BY <2>1, <2>2, <3>1 DEF Delivery, Receiving
  <2> QED
    BY <2>1, <2>3, <2>4
<1>8. ASSUME NEW p \in Procs, SaveReceived(p)
      PROVE  Goal
  <2>1. CASE Abort(p, AtTarget(cur[p]))
    BY <1>1, <2>1
  <2>2. CASE ~ Abort(p, AtTarget(cur[p]))
    <3>1. /\ thread[p] = "save" /\ thread' = [thread EXCEPT ![p] = "test"]
          /\ landed' = [landed EXCEPT ![p] = @ \cup {cur[p]}]
          /\ UNCHANGED <<cur, net, sent, count, count_epoch>>
      BY <1>8, <2>2 DEF SaveReceived, netVars
    <3>2. /\ thread'[p] = "test" /\ landed'[p] = landed[p] \cup {cur[p]}
          /\ \A r \in Procs : r # p => thread'[r] = thread[r] /\ landed'[r] = landed[r]
      BY <3>1 DEF ThreadType
    <3>3. ASSUME NEW r \in Procs, r # p
          PROVE  Delivery(r)'
      BY <3>1, <3>2, <3>3, DeliveryFrame DEF SameDelivery
    <3>4. Delivery(p)'
      <4>1. Received(p)' = Received(p)
        BY <3>1 DEF Received, EpochMessages
      <4> QED
        BY <3>1, <3>2, <4>1 DEF Delivery, Receiving
    <3> QED
      BY <3>1, <3>3, <3>4
  <2> QED
    BY <2>1, <2>2
<1>9. ASSUME NEW p \in Procs, ExitThread(p)
      PROVE  Goal
  <2>1. /\ thread[p] = "test" /\ thread_end[p] = 1 /\ count[p] = value[p]
        /\ count' = [count EXCEPT ![p] = 0]
        /\ thread' = [thread EXCEPT ![p] = "exit"]
        /\ UNCHANGED <<cur, landed, net, sent, count_epoch>>
    BY <1>9 DEF ExitThread, AllReceived, netVars
  <2>2. /\ thread'[p] = "exit"
        /\ \A r \in Procs : r # p => thread'[r] = thread[r] /\ count'[r] = count[r]
    BY <2>1 DEF ThreadType, StateType
  <2>3. ASSUME NEW r \in Procs, r # p
        PROVE  Delivery(r)'
    BY <2>1, <2>2, <2>3, DeliveryFrame DEF SameDelivery
  <2>4. Received(p) = EpochMessages(p)
    <3>1. pc[p] = "join"
      BY <2>1 DEF ProgramInv, Flags
    <3>2. value[p] = Cardinality(EpochMessages(p))
      BY <3>1 DEF TotalInv
    <3>3. count[p] = Cardinality(Received(p))
      BY <2>1 DEF Delivery, Receiving
    <3> QED
      BY <1>a, <2>1, <3>2, <3>3, FS_Subset
  <2>5. Delivery(p)'
    <3>1. Received(p)' = Received(p) /\ EpochMessages(p)' = EpochMessages(p)
      BY <2>1 DEF Received, EpochMessages
    <3>2. \A s \in net : s.dst = p => s.epoch # count_epoch[p]
      BY <2>4 DEF Received, EpochMessages
    <3>3. landed[p] = Received(p)
      BY <2>1 DEF Delivery
    <3>4. \A s \in net' : s.dst = p => s.epoch > count_epoch'[p]
      BY <2>1, <3>2 DEF Delivery
    <3>5. \A s \in sent' : s.dst = p /\ s.epoch > count_epoch'[p] => s \in net'
      BY <2>1 DEF Delivery
    <3>6. landed'[p] = Received(p)' /\ landed'[p] = EpochMessages(p)'
      BY <2>1, <2>4, <3>1, <3>3
    <3> QED
      BY <2>2, <3>4, <3>5, <3>6 DEF Delivery, Receiving
  <2> QED
    BY <2>1, <2>3, <2>5
<1>10. ASSUME NEW p \in Procs, WinLockAll(p)
      PROVE  Goal
  BY <1>10, DeliveryInit DEF WinLockAll, netVars
<1>11. ASSUME NEW p \in Procs, BeginClear(p)
      PROVE  Goal
  BY <1>11, <1>c DEF BeginClear, threadVars, netVars, stateVars
<1>12. ASSUME NEW p \in Procs, Contribute(p)
      PROVE  Goal
  BY <1>12, <1>c DEF Contribute, threadVars, netVars, stateVars
<1>13. ASSUME NEW p \in Procs, Combine(p)
      PROVE  Goal
  BY <1>13, <1>c DEF Combine, threadVars, netVars, stateVars
<1>14. ASSUME NEW p \in Procs, ReduceReturns(p)
      PROVE  Goal
  BY <1>14, <1>c DEF ReduceReturns, threadVars, netVars
<1>15. ASSUME NEW p \in Procs, EndThread(p)
      PROVE  Goal
  BY <1>15, <1>c DEF EndThread, threadVars, netVars
<1>16. ASSUME NEW p \in Procs, Join(p)
      PROVE  Goal
  <2>1. /\ thread[p] = "exit" /\ thread' = [thread EXCEPT ![p] = "off"]
        /\ landed' = [landed EXCEPT ![p] = {}]
        /\ count' = [count EXCEPT ![p] = 0]
        /\ UNCHANGED <<cur, net, sent, count_epoch>>
    BY <1>16 DEF Join, netVars
  <2>2. /\ thread'[p] = "off" /\ count'[p] = 0
        /\ \A r \in Procs : r # p => /\ thread'[r] = thread[r] /\ count'[r] = count[r]
                                     /\ landed'[r] = landed[r]
    BY <2>1 DEF ThreadType, StateType
  <2>3. ASSUME NEW r \in Procs, r # p
        PROVE  Delivery(r)'
    BY <2>1, <2>2, <2>3, DeliveryFrame DEF SameDelivery
  <2>4. Delivery(p)'
    BY <2>1, <2>2 DEF Delivery, Receiving
  <2> QED
    BY <2>1, <2>3, <2>4
<1>17. ASSUME NEW p \in Procs, WinFence(p)
      PROVE  Goal
  <2>1. InitCommCheckThread(p) /\ UNCHANGED <<net, sent>>
    BY <1>17 DEF WinFence, netVars
  <2> QED
    BY <2>1, DeliveryInit
<1>18. ASSUME NEW p \in Procs, RestartThread(p)
      PROVE  Goal
  <2>1. UNCHANGED <<net, sent>>
    BY <1>18 DEF RestartThread, netVars
  <2>2. CASE NeedsRestart(p)
    <3>1. InitCommCheckThread(p)
      BY <1>18, <2>2 DEF RestartThread
    <3> QED
      BY <2>1, <3>1, DeliveryInit
  <2>3. CASE ~ NeedsRestart(p)
    BY <1>18, <1>c, <2>1, <2>3 DEF RestartThread, threadVars
  <2> QED
    BY <2>2, <2>3
<1>19. ASSUME NEW p \in Procs, LeaveBarrier(p)
      PROVE  Goal
  BY <1>19, <1>c DEF LeaveBarrier, threadVars, netVars, stateVars
<1>20. ASSUME NEW p \in Procs, WinFreeClear(p)
      PROVE  Goal
  BY <1>20, <1>c DEF WinFreeClear, threadVars, netVars
<1>21. ASSUME NEW p \in Procs, WinFree(p)
      PROVE  Goal
  BY <1>21, <1>c DEF WinFree, threadVars, netVars, stateVars
<1>22. CASE UNCHANGED vars
  BY <1>22, <1>c DEF vars, threadVars, netVars, stateVars
<1> QED
  BY <1>2, <1>3, <1>4, <1>5, <1>6, <1>7, <1>8, <1>9, <1>10, <1>11, <1>12, <1>13, <1>14,
     <1>15, <1>16, <1>17, <1>18, <1>19, <1>20, <1>21, <1>22
  DEF Next, User, Call, CheckThread, Finished

-----------------------------------------------------------------------------
(* The initial states, and the theorems. *)

(* No call made, no message sent, no thread started. *)
LEMMA EpochInit ==
  ASSUME Init
  PROVE  EpochInv
<1>1. /\ prog \in Seq(SyncCall) /\ Len(prog) \in Nat /\ status = "running"
      /\ \A p \in Procs :
           /\ pos[p] = 0 /\ pc[p] = "user" /\ got[p] = {} /\ partial[p] = 0
           /\ thread[p] = "off" /\ reduces[p] = 0 /\ count[p] = 0
           /\ thread_end[p] = 0 /\ count_epoch[p] = 0 /\ count_fence[p] = 0
           /\ active_epoch[p] = 0 /\ from_sync[p] = 0
      /\ \A p, q \in Procs : array[p][q] = 0
      /\ net = {} /\ sent = {} /\ contrib = {}
  BY AnalyzerAssumption DEF Init
<1>2. /\ ~ OpenAfter(prog, 0) /\ ~ Fenced(prog, 0)
      /\ EpochAt(prog, 0) = 0 /\ RoundAt(prog, 0) = 0
  BY NothingBefore
<1>3. ProgramInv
  BY <1>1, <1>2 DEF ProgramInv, Phase, Flags, Counters
<1>4. ReduceInv
  BY <1>1 DEF ReduceInv, Contributed
<1>5. SentInv
  <2>1. \A q, p \in Procs : SentTo(q, p, count_epoch[q]) = {}
    BY <1>1 DEF SentTo
  <2>2. IsFiniteSet(sent) /\ Cardinality({}) = 0
    BY <1>1, FS_EmptySet
  <2>3. \A q, p \in Procs : Cardinality(SentTo(q, p, count_epoch[q])) = 0
    BY <2>1, <2>2
  <2> QED
    BY <1>1, <2>2, <2>3 DEF SentInv
<1>6. TotalInv
  <2>1. \A p \in Procs : {m \in EpochMessages(p) : m.src \in got[p]} = {}
    BY <1>1
  <2> QED
    BY <1>1, <2>1, FS_EmptySet DEF TotalInv
<1>7. ReceivedInv /\ NoStaleInterval /\ EpochComplete /\ NeverTerminated
  BY <1>1 DEF ReceivedInv, NoStaleInterval, EpochComplete, NeverTerminated
<1> QED
  BY <1>3, <1>4, <1>5, <1>6, <1>7 DEF EpochInv

(* Every step keeps the invariant. *)
LEMMA EpochStepInv ==
  ASSUME ProgramsWellFormed, TypeInv, EpochInv, [Next]_vars
  PROVE  EpochInv'
<1>0. /\ ProgramInv /\ ReduceInv /\ SentInv /\ TotalInv /\ ReceivedInv
      /\ NoStaleInterval /\ EpochComplete /\ NeverTerminated
  BY DEF EpochInv
<1>1. ProgramInv' /\ NeverTerminated'
  BY <1>0, ProgramStep
<1>2. ReduceInv'
  BY <1>0, ReduceStep
<1>3. SentInv'
  BY <1>0, SentStep
<1>4. TotalInv'
  BY <1>0, TotalStep
<1>5. Deliveries
  BY <1>0, DeliveryParts DEF TypeInv, TypeOK
<1>6. Deliveries'
  BY <1>0, <1>1, <1>5, ReceivedStep DEF NeverTerminated, Deliveries
<1>7. TypeInv'
  BY TypeStep
<1>8. NetType'
  BY <1>7 DEF TypeInv, TypeOK
<1>9. (ReceivedInv /\ NoStaleInterval /\ EpochComplete)'
  BY <1>6, <1>8, DeliveryParts, PTL
<1> QED
  BY <1>1, <1>2, <1>3, <1>4, <1>9 DEF EpochInv

(* For well-formed programs the invariant holds in every reachable state. *)
THEOREM EpochInvariant ==
  ASSUME ProgramsWellFormed
  PROVE  Spec => [](TypeInv /\ EpochInv)
<1>1. Init => TypeInv
  BY InitType
<1>2. Init => EpochInv
  BY EpochInit
<1>3. TypeInv /\ EpochInv /\ [Next]_vars => (TypeInv /\ EpochInv)'
  BY TypeStep, EpochStepInv
<1> QED
  BY <1>1, <1>2, <1>3, PTL DEF Spec

(* EpochComplete for any number of processes and communications: whichever *)
(* way sends, reductions and the two threads of each process interleave,   *)
(* comparing count with value lets the checking thread go exactly when it  *)
(* has saved all the accesses made to the window in the epoch.             *)
THEOREM EpochsComplete ==
  ASSUME ProgramsWellFormed
  PROVE  Spec => []EpochComplete
<1>1. EpochInv => EpochComplete
  BY DEF EpochInv
<1> QED
  BY <1>1, EpochInvariant, PTL

(* NoStaleInterval likewise: an interval message never outlives the epoch  *)
(* whose tag it carries, nor reaches a process that has left that epoch.   *)
THEOREM NoIntervalIsStale ==
  ASSUME ProgramsWellFormed
  PROVE  Spec => []NoStaleInterval
<1>1. EpochInv => NoStaleInterval
  BY DEF EpochInv
<1> QED
  BY <1>1, EpochInvariant, PTL

(* NeverTerminated likewise: the flags active_epoch, count_fence and       *)
(* from_sync keep std::thread from being assigned or destroyed while       *)
(* joinable and from being joined when it is not.                          *)
THEOREM ThreadsManaged ==
  ASSUME ProgramsWellFormed
  PROVE  Spec => []NeverTerminated
<1>1. EpochInv => NeverTerminated
  BY DEF EpochInv
<1> QED
  BY <1>1, EpochInvariant, PTL

-----------------------------------------------------------------------------
(* Races, for accesses of one size: the walk of getIntersectingIntervals   *)
(* passes over nothing then (RmaAccessListProofs has what it passes over   *)
(* in general).                                                            *)

(* A search that finds nothing means that nothing saved conflicts.         *)
LEMMA SearchFindsAll ==
  ASSUME NEW s \in Nat, NEW S \in SUBSET Access, NEW A \in Access, HasSize(A.Itv, s),
         \A x \in S : HasSize(x.Itv, s), getConflictingIntervals(S, A) = {}
  PROVE  \A x \in S : ~ conflictsWith(x, A)
<1> SUFFICES ASSUME NEW x \in S, conflictsWith(x, A)
             PROVE  FALSE
  OBVIOUS
<1>1. \A y \in S : y.Itv.Low \in Int /\ y.Itv.Up \in Int /\ y.Itv.Up = y.Itv.Low + s
  BY WordAssumption DEF Access, Interval, Address, HasSize
<1>2. A.Itv.Low \in Int /\ A.Itv.Up \in Int /\ A.Itv.Up = A.Itv.Low + s
  BY WordAssumption DEF Access, Interval, Address, HasSize
<1>3. x.Itv.Low <= A.Itv.Up /\ A.Itv.Low <= x.Itv.Up
  BY <1>1, <1>2 DEF conflictsWith, intersects
<1>4. CASE Before(A.Itv, x.Itv)
  <2>1. ASSUME NEW y \in Above(S, A), ~ Before(x.Itv, y.Itv)
        PROVE  intersects(y.Itv, A.Itv)
    <3>1. y \in S /\ A.Itv.Low <= y.Itv.Low /\ y.Itv.Low <= x.Itv.Low
      BY <1>1, <1>2, <2>1 DEF Above, Before
    <3> QED
      BY <1>1, <1>2, <1>3, <3>1 DEF intersects
  <2> QED
    BY <1>4, <2>1 DEF ScanUp, Above, getConflictingIntervals, getIntersectingIntervals
<1>5. CASE ~ Before(A.Itv, x.Itv)
  <2>1. ASSUME NEW y \in Below(S, A), ~ Before(y.Itv, x.Itv)
        PROVE  intersects(y.Itv, A.Itv)
    <3>1. y \in S /\ y.Itv.Low <= A.Itv.Low /\ x.Itv.Low <= y.Itv.Low
      BY <1>1, <1>2, <2>1 DEF Above, Below, Before
    <3> QED
      BY <1>1, <1>2, <1>3, <3>1 DEF intersects
  <2> QED
    BY <1>5, <2>1 DEF ScanDown, Above, Below, getConflictingIntervals,
                      getIntersectingIntervals
<1> QED
  BY <1>4, <1>5

(* It does not matter which of two accesses is saved first.                *)
LEMMA ConflictSymmetric ==
  ASSUME NEW A \in Access, NEW B \in Access
  PROVE  conflictsWith(A, B) <=> conflictsWith(B, A)
<1>1. /\ A.Itv.Low \in Int /\ A.Itv.Up \in Int
      /\ B.Itv.Low \in Int /\ B.Itv.Up \in Int
  BY WordAssumption DEF Access, Interval, Address
<1> QED
  BY <1>1 DEF conflictsWith, intersects, TypesConflict

(* What is in the list of p and what has been received for it. *)
NoRace(p) ==
  /\ \A x, y \in Intervals[p] : x # y => ~ conflictsWith(x, y)
  /\ \A m \in landed[p] : AtTarget(m) \in Intervals[p]
  /\ \A m1, m2 \in landed[p] : m1 # m2 => ~ conflictsWith(AtTarget(m1), AtTarget(m2))

RaceInv(s) ==
  /\ \A p \in Procs : NoRace(p) /\ \A x \in Intervals[p] : HasSize(x.Itv, s)
  /\ \A m \in sent : HasSize(AtTarget(m).Itv, s)

(* rma_analyzer_save_interval that finds nothing keeps the list of p free  *)
(* of conflicts.                                                           *)
LEMMA InsertKeeps ==
  ASSUME NEW s \in Nat, TypeInv, RaceInv(s), NEW p \in Procs, NEW A \in Access,
         HasSize(A.Itv, s), Insert(p, A)
  PROVE  /\ Intervals'[p] = Intervals[p] \cup {A}
         /\ \A q \in Procs : q # p => Intervals'[q] = Intervals[q]
         /\ \A q \in Procs : \A x \in Intervals'[q] : HasSize(x.Itv, s)
         /\ \A x \in Intervals[p] : ~ conflictsWith(x, A)
         /\ \A x, y \in Intervals'[p] : x # y => ~ conflictsWith(x, y)
<1>1. Intervals \in [Procs -> SUBSET Access]
  BY DEF TypeInv, TypeOK, StateType
<1>2. /\ Intervals'[p] = Intervals[p] \cup {A}
      /\ \A q \in Procs : q # p => Intervals'[q] = Intervals[q]
  BY <1>1 DEF Insert
<1>3. getConflictingIntervals(Intervals[p], A) = {}
  BY DEF Insert, Conflicts
<1>4. Intervals[p] \in SUBSET Access /\ \A x \in Intervals[p] : HasSize(x.Itv, s)
  BY <1>1 DEF RaceInv
<1>5. \A x \in Intervals[p] : ~ conflictsWith(x, A)
  BY <1>3, <1>4, SearchFindsAll
<1>6. \A x \in Intervals[p] : ~ conflictsWith(A, x)
  BY <1>4, <1>5, ConflictSymmetric
<1>7. \A x, y \in Intervals'[p] : x # y => ~ conflictsWith(x, y)
  BY <1>2, <1>5, <1>6 DEF RaceInv, NoRace
<1>8. \A q \in Procs : \A x \in Intervals'[q] : HasSize(x.Itv, s)
  BY <1>2 DEF RaceInv
<1> QED
  BY <1>2, <1>5, <1>7, <1>8

(* The application thread saves an access: nothing received meanwhile      *)
(* conflicts with it.                                                      *)
LEMMA InsertOwn ==
  ASSUME NEW s \in Nat, TypeInv, RaceInv(s), NEW p \in Procs, NEW A \in Access,
         HasSize(A.Itv, s), Insert(p, A), UNCHANGED landed,
         \A m \in sent' : HasSize(AtTarget(m).Itv, s)
  PROVE  RaceInv(s)'
<1>1. /\ Intervals'[p] = Intervals[p] \cup {A}
      /\ \A q \in Procs : q # p => Intervals'[q] = Intervals[q]
      /\ \A q \in Procs : \A x \in Intervals'[q] : HasSize(x.Itv, s)
      /\ \A x, y \in Intervals'[p] : x # y => ~ conflictsWith(x, y)
  BY InsertKeeps
<1>2. ASSUME NEW q \in Procs
      PROVE  NoRace(q)'
  <2>1. CASE q = p
    BY <1>1, <2>1 DEF RaceInv, NoRace, AtTarget
  <2>2. CASE q # p
    BY <1>1, <2>2 DEF RaceInv, NoRace, AtTarget
  <2> QED
    BY <2>1, <2>2
<1> QED
  BY <1>1, <1>2 DEF RaceInv, AtTarget

(* A checking thread starts with nothing received. *)
LEMMA RaceInit ==
  ASSUME NEW s \in Nat, TypeInv, RaceInv(s), NEW p \in Procs,
         InitCommCheckThread(p), UNCHANGED sent
  PROVE  RaceInv(s)'
<1>1. /\ landed'[p] = {} /\ \A q \in Procs : q # p => landed'[q] = landed[q]
      /\ UNCHANGED Intervals
  BY DEF InitCommCheckThread, TypeInv, TypeOK, ThreadType
<1>2. ASSUME NEW q \in Procs
      PROVE  NoRace(q)'
  BY <1>1 DEF RaceInv, NoRace, AtTarget
<1> QED
  BY <1>1, <1>2 DEF RaceInv, AtTarget

(* Whichever of the two threads saves second finds what the other saved.   *)
LEMMA RaceStep ==
  ASSUME NEW s \in Nat, UniformAccesses(s), TypeInv, RaceInv(s),
         net \subseteq sent, \A q \in Procs : Delivery(q), [Next]_vars
  PROVE  RaceInv(s)'
<1>0. MainType /\ ThreadType /\ StateType /\ NetType
  BY DEF TypeInv, TypeOK
<1> USE <1>0
<1>c. ASSUME UNCHANGED <<sent, landed, Intervals>>
      PROVE  RaceInv(s)'
  BY <1>c DEF RaceInv, NoRace, AtTarget
<1>1. ASSUME NEW p \in Procs, NEW Acc, Abort(p, Acc)
      PROVE  RaceInv(s)'
  BY <1>1, <1>c DEF Abort, netVars, stateVars, threadVars
<1>2. ASSUME NEW p \in Procs, NEW Acc \in LocalOps, LoadStore(p, Acc)
      PROVE  RaceInv(s)'
  <2>1. CASE ~ Abort(p, Acc)
    <3>1. Insert(p, Acc) /\ UNCHANGED <<sent, landed>>
      BY <1>2, <2>1 DEF LoadStore, netVars, threadVars
    <3>2. Acc \in Access /\ HasSize(Acc.Itv, s)
      BY AnalyzerAssumption DEF Access, AccessType, UniformAccesses
    <3>3. \A m \in sent' : HasSize(AtTarget(m).Itv, s)
      BY <3>1 DEF RaceInv
    <3> QED
      BY <3>1, <3>2, <3>3, InsertOwn
  <2> QED
    BY <1>1, <2>1
<1>3. ASSUME NEW p \in Procs, NEW q \in Procs, NEW op \in RmaOps, Communicate(p, q, op)
      PROVE  RaceInv(s)'
  <2> DEFINE local == [Itv |-> op.origin, Type |-> OriginType(op.kind)]
             m == [src |-> p, dst |-> q, epoch |-> count_epoch[p], n |-> array[p][q],
                   file |-> op.file,
                   acc |-> [Itv |-> op.target, Type |-> TargetType(op.kind)]]
  <2>1. CASE Abort(p, local)
    BY <1>1, <2>1
  <2>2. CASE ~ Abort(p, local)
    <3>1. Insert(p, local) /\ sent' = sent \cup {m} /\ UNCHANGED threadVars
      BY <1>3, <2>2 DEF Communicate
    <3>2. local \in Access /\ HasSize(local.Itv, s)
      BY AnalyzerAssumption DEF OriginType, Access, AccessType, UniformAccesses
    <3>3. HasSize(AtTarget(m).Itv, s)
      <4>1. AtTarget(m).Itv = fixForWindow(op.target, Base[q], DispUnit[q])
        BY DEF AtTarget
      <4> QED
        BY <4>1 DEF UniformAccesses
    <3> HIDE DEF m, local
    <3>4. \A x \in sent' : HasSize(AtTarget(x).Itv, s)
      BY <3>1, <3>3 DEF RaceInv
    <3>5. UNCHANGED landed
      BY <3>1 DEF threadVars
    <3> QED
      BY <3>1, <3>2, <3>4, <3>5, InsertOwn
  <2> QED
    BY <2>1, <2>2
<1>4. ASSUME NEW p \in Procs, SendString(p)
      PROVE  RaceInv(s)'
  BY <1>4, <1>c DEF SendString, netVars, threadVars, stateVars
<1>5. ASSUME NEW p \in Procs, CountSend(p)
      PROVE  RaceInv(s)'
  BY <1>5, <1>c DEF CountSend, netVars, threadVars
<1>6. ASSUME NEW p \in Procs, ReceiveInterval(p)
      PROVE  RaceInv(s)'
  BY <1>6, <1>c DEF ReceiveInterval
<1>7. ASSUME NEW p \in Procs, ReceiveString(p)
      PROVE  RaceInv(s)'
  BY <1>7, <1>c DEF ReceiveString, stateVars
<1>8. ASSUME NEW p \in Procs, SaveReceived(p)
      PROVE  RaceInv(s)'
  <2> DEFINE A == AtTarget(cur[p])
  <2>1. CASE Abort(p, A)
    BY <1>1, <2>1
  <2>2. CASE ~ Abort(p, A)
    <3>1. /\ thread[p] = "save" /\ Insert(p, A) /\ UNCHANGED sent
          /\ landed' = [landed EXCEPT ![p] = @ \cup {cur[p]}]
      BY <1>8, <2>2 DEF SaveReceived, netVars
    <3>2. cur[p] \in sent
      BY <3>1 DEF Delivery, Received, EpochMessages
    <3>3. A \in Access /\ HasSize(A.Itv, s)
      BY <3>2, AtTargetType DEF NetType, RaceInv
    <3>4. /\ landed'[p] = landed[p] \cup {cur[p]}
          /\ \A q \in Procs : q # p => landed'[q] = landed[q]
      BY <3>1 DEF ThreadType
    <3>5. /\ Intervals'[p] = Intervals[p] \cup {A}
          /\ \A q \in Procs : q # p => Intervals'[q] = Intervals[q]
          /\ \A q \in Procs : \A x \in Intervals'[q] : HasSize(x.Itv, s)
          /\ \A x \in Intervals[p] : ~ conflictsWith(x, A)
          /\ \A x, y \in Intervals'[p] : x # y => ~ conflictsWith(x, y)
      BY <3>1, <3>3, InsertKeeps
    <3>6. \A m \in landed[p] : AtTarget(m) \in Intervals[p]
      BY DEF RaceInv, NoRace
    <3>7. \A m \in landed[p] : ~ conflictsWith(AtTarget(m), A) /\ ~ conflictsWith(A, AtTarget(m))
      BY <3>3, <3>5, <3>6, ConflictSymmetric DEF StateType
    <3>8. \A m \in landed'[p] : AtTarget(m) \in Intervals'[p]
      BY <3>4, <3>5, <3>6
    <3>9. \A m1, m2 \in landed'[p] : m1 # m2 => ~ conflictsWith(AtTarget(m1), AtTarget(m2))
      BY <3>4, <3>7 DEF RaceInv, NoRace
    <3>10. ASSUME NEW q \in Procs
           PROVE  NoRace(q)'
      <4>1. CASE q = p
        BY <3>5, <3>8, <3>9, <4>1 DEF NoRace, AtTarget
      <4>2. CASE q # p
        BY <3>4, <3>5, <4>2 DEF RaceInv, NoRace, AtTarget
      <4> QED
        BY <4>1, <4>2
    <3> QED
      BY <3>1, <3>5, <3>10 DEF RaceInv, AtTarget
  <2> QED
    BY <2>1, <2>2
<1>9. ASSUME NEW p \in Procs, ExitThread(p)
      PROVE  RaceInv(s)'
  BY <1>9, <1>c DEF ExitThread, netVars
<1>10. ASSUME NEW p \in Procs, WinLockAll(p)
      PROVE  RaceInv(s)'
  BY <1>10, RaceInit DEF WinLockAll, netVars
<1>11. ASSUME NEW p \in Procs, BeginClear(p)
      PROVE  RaceInv(s)'
  BY <1>11, <1>c DEF BeginClear, netVars, threadVars, stateVars
<1>12. ASSUME NEW p \in Procs, Contribute(p)
      PROVE  RaceInv(s)'
  BY <1>12, <1>c DEF Contribute, netVars, threadVars, stateVars
<1>13. ASSUME NEW p \in Procs, Combine(p)
      PROVE  RaceInv(s)'
  BY <1>13, <1>c DEF Combine, netVars, threadVars, stateVars
<1>14. ASSUME NEW p \in Procs, ReduceReturns(p)
      PROVE  RaceInv(s)'
  BY <1>14, <1>c DEF ReduceReturns, netVars, threadVars
<1>15. ASSUME NEW p \in Procs, EndThread(p)
      PROVE  RaceInv(s)'
  BY <1>15, <1>c DEF EndThread, netVars, threadVars
<1>16. ASSUME NEW p \in Procs, Join(p)
      PROVE  RaceInv(s)'
  <2>1. /\ landed' = [landed EXCEPT ![p] = {}]
        /\ Intervals' = [Intervals EXCEPT ![p] = {}]
        /\ UNCHANGED sent
    BY <1>16 DEF Join, netVars
  <2>2. /\ landed'[p] = {} /\ Intervals'[p] = {}
        /\ \A q \in Procs : q # p => landed'[q] = landed[q] /\ Intervals'[q] = Intervals[q]
    BY <2>1 DEF ThreadType, StateType
  <2>3. ASSUME NEW q \in Procs
        PROVE  NoRace(q)'
    BY <2>2 DEF RaceInv, NoRace, AtTarget
  <2> QED
    BY <2>1, <2>2, <2>3 DEF RaceInv, AtTarget
<1>17. ASSUME NEW p \in Procs, WinFence(p)
      PROVE  RaceInv(s)'
  <2>1. InitCommCheckThread(p) /\ UNCHANGED sent
    BY <1>17 DEF WinFence, netVars
  <2> QED
    BY <2>1, RaceInit
<1>18. ASSUME NEW p \in Procs, RestartThread(p)
      PROVE  RaceInv(s)'
  <2>1. UNCHANGED sent
    BY <1>18 DEF RestartThread, netVars
  <2>2. CASE NeedsRestart(p)
    <3>1. InitCommCheckThread(p)
      BY <1>18, <2>2 DEF RestartThread
    <3> QED
      BY <2>1, <3>1, RaceInit
  <2>3. CASE ~ NeedsRestart(p)
    BY <1>18, <1>c, <2>1, <2>3 DEF RestartThread, threadVars
  <2> QED
    BY <2>2, <2>3
<1>19. ASSUME NEW p \in Procs, LeaveBarrier(p)
      PROVE  RaceInv(s)'
  BY <1>19, <1>c DEF LeaveBarrier, netVars, threadVars, stateVars
<1>20. ASSUME NEW p \in Procs, WinFreeClear(p)
      PROVE  RaceInv(s)'
  BY <1>20, <1>c DEF WinFreeClear, netVars, threadVars
<1>21. ASSUME NEW p \in Procs, WinFree(p)
      PROVE  RaceInv(s)'
  BY <1>21, <1>c DEF WinFree, netVars, threadVars, stateVars
<1>22. CASE UNCHANGED vars
  BY <1>22, <1>c DEF vars, threadVars, netVars, stateVars
<1> QED
  BY <1>2, <1>3, <1>4, <1>5, <1>6, <1>7, <1>8, <1>9, <1>10, <1>11, <1>12, <1>13, <1>14,
     <1>15, <1>16, <1>17, <1>18, <1>19, <1>20, <1>21, <1>22
  DEF Next, User, Call, CheckThread, Finished

(* RacesCaught for any number of processes and of communications and any   *)
(* accesses of one size: when rma_analyzer_clear_comm_check_thread joins   *)
(* the checking thread, every access made to the window is in its list,    *)
(* and had two of the epoch conflicted the program would have stopped.     *)
THEOREM RacesAreCaught ==
  ASSUME ProgramsWellFormed, NEW s \in Nat, UniformAccesses(s)
  PROVE  Spec => []RacesCaught
<1>1. Init => RaceInv(s)
  BY DEF Init, RaceInv, NoRace
<1>2. TypeInv /\ EpochInv /\ RaceInv(s) /\ [Next]_vars => RaceInv(s)'
  <2> SUFFICES ASSUME TypeInv, EpochInv, RaceInv(s), [Next]_vars
               PROVE  RaceInv(s)'
    OBVIOUS
  <2>1. net \subseteq sent /\ \A q \in Procs : Delivery(q)
    BY DeliveryParts DEF EpochInv, TypeInv, TypeOK, Deliveries
  <2> QED
    BY <2>1, RaceStep
<1>3. EpochInv /\ RaceInv(s) => RacesCaught
  BY DEF EpochInv, EpochComplete, RaceInv, NoRace, RacesCaught
<1> QED
  BY <1>1, <1>2, <1>3, EpochInvariant, PTL DEF Spec
=============================================================================
