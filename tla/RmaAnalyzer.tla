----------------------------- MODULE RmaAnalyzer ----------------------------
(***************************************************************************)
(* The epoch protocol of the RMA analyzer for one window shared by N       *)
(* processes (src/instrumentation/rma).  On each process the application   *)
(* thread runs the instrumented program and, inside an epoch, a            *)
(* communication checking thread receives the accesses other processes     *)
(* make to the window.  An access travels as two messages: the interval,   *)
(* tagged with the sender's epoch number, and the file name, with one tag  *)
(* for all epochs.  An epoch ends when every process knows, from a         *)
(* reduction of the numbers of messages sent, how many its thread must     *)
(* receive, and the thread has received that many.                         *)
(*                                                                         *)
(* The instrumented program is a sequence of synchronisation calls, the    *)
(* same on every process, with any loads, stores and one-sided             *)
(* communications in its epochs.  MPI itself is external: point-to-point   *)
(* messages do not overtake one another on one (source, target, tag).      *)
(***************************************************************************)
EXTENDS RmaIntervals, FiniteSets, Sequences

CONSTANTS N,          \* size_comm
          Programs,   \* sequences of SyncCall
          LocalOps,   \* accesses made by loads and stores
          Files,      \* names of the program's source files
          RmaOps,     \* one-sided calls: kind, file, origin and target intervals
          Base,       \* win_base of each process
          DispUnit,   \* disp_unit of each process
          Buffered,   \* may MPI_Send return before it is matched?
          MaxComms    \* bound: one-sided calls of a process in one epoch

Procs == 0 .. N - 1

SyncCall == {"lock_all", "unlock_all", "fence", "barrier", "free"}

ASSUME AnalyzerAssumption ==
  /\ N \in Nat \ {0}
  /\ Programs \subseteq Seq(SyncCall)
  /\ LocalOps \subseteq [Itv : Interval, Type : {LOCAL_READ, LOCAL_WRITE}]
  /\ RmaOps \subseteq
       [kind : {"put", "get", "accumulate"}, file : Files,
        origin : Interval, target : Interval]
  /\ Base \in [Procs -> Nat]
  /\ DispUnit \in [Procs -> Nat]
  /\ Buffered \in BOOLEAN
  /\ MaxComms \in Nat

VARIABLES
  status,        \* "running", "aborted" (MPI_Abort) or "terminated" (std::terminate)
  prog, pos,     \* the program, and how many of its calls each process completed
  pc,            \* the application thread
  redIdx,        \* rank whose reduction the application thread is in
  got, partial,  \* contributions a root has combined so far
  thread,        \* the communication checking thread
  out,           \* message the application thread is sending
  cur, name,     \* interval and file name the checking thread received
  net, strs,     \* interval and file name messages in flight
  contrib,       \* contributions to reductions in flight
  reduces,       \* reduction rounds each process has completed
  entered,       \* PMPI_Barrier and PMPI_Win_fence calls each process entered
  array, value, thread_end, count, count_epoch, count_fence,
  active_epoch, from_sync, Intervals,   \* rma_analyzer_state
  sent,          \* history: every interval message ever sent
  landed         \* history: messages saved by the current checking thread

mainVars   == <<prog, pos, pc, out, entered>>
reduceVars == <<redIdx, got, partial, contrib, reduces>>
threadVars == <<thread, cur, name, landed>>
netVars    == <<net, strs, sent>>
stateVars  == <<array, value, thread_end, count, count_epoch, count_fence,
                active_epoch, from_sync, Intervals>>
vars == <<status, mainVars, reduceVars, threadVars, netVars, stateVars>>

NoMsg == [src |-> -1, dst |-> -1, epoch |-> 0, n |-> 0]

Access == [Itv : Interval, Type : AccessType]

(* One access sent by src to dst: the n-th of its epoch, as a displacement *)
(* interval, and the file it was made in.                                  *)
Message == [src : Procs, dst : Procs, epoch : Nat, n : Nat, file : Files,
            acc : Access]

MainType ==
  /\ prog \in Programs
  /\ pos \in [Procs -> Nat]
  /\ pc \in [Procs -> {"user", "sentItv", "sentStr", "reduce", "join",
                       "fence", "restart", "barrier", "stop", "done"}]
  /\ out \in [Procs -> Message \cup {NoMsg}]
  /\ entered \in [Procs -> Nat]

ReduceType ==
  /\ redIdx \in [Procs -> 0 .. N]
  /\ got \in [Procs -> SUBSET Procs]
  /\ partial \in [Procs -> Nat]
  /\ contrib \subseteq [src : Procs, root : Procs, round : Nat, n : Nat]
  /\ reduces \in [Procs -> Nat]

ThreadType ==
  /\ thread \in [Procs -> {"off", "test", "probe", "save", "exit"}]
  /\ cur \in [Procs -> Message \cup {NoMsg}]
  /\ name \in [Procs -> Message \cup {NoMsg}]
  /\ landed \in [Procs -> SUBSET Message]

NetType == net \subseteq Message /\ strs \subseteq Message /\ sent \subseteq Message

StateType ==
  /\ array \in [Procs -> [Procs -> Nat]]
  /\ value \in [Procs -> Nat]
  /\ thread_end \in [Procs -> 0 .. 1]
  /\ count \in [Procs -> Nat]
  /\ count_epoch \in [Procs -> Nat]
  /\ count_fence \in [Procs -> Nat]
  /\ active_epoch \in [Procs -> 0 .. 1]
  /\ from_sync \in [Procs -> 0 .. 1]
  /\ Intervals \in [Procs -> SUBSET Access]

TypeOK ==
  /\ status \in {"running", "aborted", "terminated"}
  /\ MainType /\ ReduceType /\ ThreadType /\ NetType /\ StateType

(* rma_analyzer_start: a value-initialised state for the new window. *)
Init ==
  /\ status = "running"
  /\ prog \in Programs
  /\ pos = [p \in Procs |-> 0]
  /\ pc = [p \in Procs |-> "user"]
  /\ redIdx = [p \in Procs |-> 0]
  /\ got = [p \in Procs |-> {}]
  /\ partial = [p \in Procs |-> 0]
  /\ thread = [p \in Procs |-> "off"]
  /\ out = [p \in Procs |-> NoMsg]
  /\ cur = [p \in Procs |-> NoMsg]
  /\ name = [p \in Procs |-> NoMsg]
  /\ net = {} /\ strs = {} /\ sent = {} /\ contrib = {}
  /\ reduces = [p \in Procs |-> 0]
  /\ entered = [p \in Procs |-> 0]
  /\ array = [p \in Procs |-> [q \in Procs |-> 0]]
  /\ value = [p \in Procs |-> 0]
  /\ thread_end = [p \in Procs |-> 0]
  /\ count = [p \in Procs |-> 0]
  /\ count_epoch = [p \in Procs |-> 0]
  /\ count_fence = [p \in Procs |-> 0]
  /\ active_epoch = [p \in Procs |-> 0]
  /\ from_sync = [p \in Procs |-> 0]
  /\ Intervals = [p \in Procs |-> {}]
  /\ landed = [p \in Procs |-> {}]

-----------------------------------------------------------------------------
(* The program. *)

(* The next synchronisation call of p is c. *)
Calls(p, c) ==
  /\ status = "running"
  /\ pc[p] = "user"
  /\ pos[p] < Len(prog)
  /\ prog[pos[p] + 1] = c

(* After k calls, an epoch of program P has been opened and not closed. *)
OpenAfter(P, k) ==
  \E i \in 1 .. k :
    /\ P[i] \in {"lock_all", "fence"}
    /\ \A j \in i + 1 .. k : P[j] # "unlock_all"

EpochOpen(p) == OpenAfter(prog, pos[p])

(* MPI allows one-sided communication after an opening call and before the *)
(* call that completes it.                                                 *)
InEpoch(p) ==
  /\ EpochOpen(p)
  /\ \E k \in pos[p] + 1 .. Len(prog) : prog[k] \in {"unlock_all", "fence"}

Return(p) ==
  /\ pc' = [pc EXCEPT ![p] = "user"]
  /\ pos' = [pos EXCEPT ![p] = @ + 1]

-----------------------------------------------------------------------------
(* Saving accesses. *)

(* Mutant: loads and stores are saved without a search. *)
Conflicts_SkipLocal(p, Acc) ==
  /\ Acc.Type \in {RMA_READ, RMA_WRITE}
  /\ getConflictingIntervals(Intervals[p], Acc) # {}

Conflicts(p, Acc) == getConflictingIntervals(Intervals[p], Acc) # {}

(* rma_analyzer_save_interval, under ListMutex: insert, or report and end  *)
(* the program.                                                            *)
Insert(p, Acc) ==
  /\ ~ Conflicts(p, Acc)
  /\ Intervals' = [Intervals EXCEPT ![p] = @ \cup {Acc}]
  /\ UNCHANGED status

Abort(p, Acc) ==
  /\ Conflicts(p, Acc)
  /\ status' = "aborted"
  /\ UNCHANGED <<mainVars, reduceVars, threadVars, netVars, stateVars>>

(* parcoach_rma_load and parcoach_rma_store: saved only in an epoch. *)
LoadStore(p, Acc) ==
  /\ status = "running"
  /\ pc[p] = "user"
  /\ active_epoch[p] > 0
  /\ \/ Abort(p, Acc)
     \/ /\ Insert(p, Acc)
        /\ UNCHANGED <<mainVars, reduceVars, threadVars, netVars, array, value,
                       thread_end, count, count_epoch, count_fence,
                       active_epoch, from_sync>>

(* A put and an accumulate read their origin and write their target, a get *)
(* does the converse.                                                      *)
OriginType(kind) == IF kind = "get" THEN RMA_WRITE ELSE RMA_READ
TargetType(kind) == IF kind = "get" THEN RMA_READ ELSE RMA_WRITE

(* rma_analyzer_update_on_comm_send, up to the first MPI_Send: the origin  *)
(* access is saved, the target access is sent as displacements.            *)
Communicate(p, q, op) ==
  LET local == [Itv |-> op.origin, Type |-> OriginType(op.kind)]
      m == [src |-> p, dst |-> q, epoch |-> count_epoch[p], n |-> array[p][q],
            file |-> op.file,
            acc |-> [Itv |-> op.target, Type |-> TargetType(op.kind)]]
  IN  /\ status = "running"
      /\ pc[p] = "user"
      /\ InEpoch(p)
      /\ Cardinality({s \in sent : s.src = p /\ s.epoch = count_epoch[p]}) < MaxComms
      /\ \/ Abort(p, local)
         \/ /\ Insert(p, local)
            /\ net' = net \cup {m}
            /\ sent' = sent \cup {m}
            /\ out' = [out EXCEPT ![p] = m]
            /\ pc' = [pc EXCEPT ![p] = "sentItv"]
            /\ UNCHANGED <<prog, pos, entered, reduceVars, threadVars, strs,
                           array, value, thread_end, count, count_epoch,
                           count_fence, active_epoch, from_sync>>

(* The first MPI_Send returns and the file name is sent. *)
SendString(p) ==
  /\ status = "running"
  /\ pc[p] = "sentItv"
  /\ Buffered \/ out[p] \notin net
  /\ strs' = strs \cup {out[p]}
  /\ pc' = [pc EXCEPT ![p] = "sentStr"]
  /\ UNCHANGED <<status, prog, pos, out, entered, reduceVars, threadVars, net,
                 sent, stateVars>>

(* The second MPI_Send returns and the message is counted. *)
CountSend(p) ==
  /\ status = "running"
  /\ pc[p] = "sentStr"
  /\ Buffered \/ out[p] \notin strs
  /\ array' = [array EXCEPT ![p][out[p].dst] = @ + 1]
  /\ out' = [out EXCEPT ![p] = NoMsg]
  /\ pc' = [pc EXCEPT ![p] = "user"]
  /\ UNCHANGED <<status, prog, pos, entered, reduceVars, threadVars, netVars,
                 value, thread_end, count, count_epoch, count_fence,
                 active_epoch, from_sync, Intervals>>

-----------------------------------------------------------------------------
(* The communication checking thread. *)

(* The tag of the posted receive is mpi_tag + count_epoch. *)
MatchesTag(p, m) == m.dst = p /\ m.epoch = count_epoch[p]

(* In rma_analyzer_check_communication, MPI_Test completes the receive of  *)
(* the oldest interval some process sent with the tag of this epoch.       *)
ReceiveInterval(p) ==
  /\ status = "running"
  /\ thread[p] = "test"
  /\ \E m \in net :
       /\ MatchesTag(p, m)
       /\ \A m2 \in net : m2.src = m.src /\ m2.dst = p /\ m2.epoch = m.epoch
                            => m.n <= m2.n
       /\ net' = net \ {m}
       /\ cur' = [cur EXCEPT ![p] = m]
  /\ count' = [count EXCEPT ![p] = @ + 1]
  /\ thread' = [thread EXCEPT ![p] = "probe"]
  /\ UNCHANGED <<status, mainVars, reduceVars, name, landed, strs, sent, array,
                 value, thread_end, count_epoch, count_fence, active_epoch,
                 from_sync, Intervals>>

(* MPI_Probe and MPI_Recv with MPI_ANY_SOURCE and the one string tag: the  *)
(* oldest file name of any process, of any epoch.                          *)
ReceiveString(p) ==
  /\ status = "running"
  /\ thread[p] = "probe"
  /\ \E s \in strs :
       /\ s.dst = p
       /\ \A s2 \in strs : s2.src = s.src /\ s2.dst = p
            => s.epoch < s2.epoch \/ (s.epoch = s2.epoch /\ s.n <= s2.n)
       /\ strs' = strs \ {s}
       /\ name' = [name EXCEPT ![p] = s]
  /\ thread' = [thread EXCEPT ![p] = "save"]
  /\ UNCHANGED <<status, mainVars, reduceVars, cur, landed, net, sent, stateVars>>

(* The access as the target process sees it. *)
AtTarget(m) ==
  [Itv |-> fixForWindow(m.acc.Itv, Base[m.dst], DispUnit[m.dst]),
   Type |-> m.acc.Type]

(* rma_analyzer_comm_check_thread saves what it received. *)
SaveReceived(p) ==
  /\ status = "running"
  /\ thread[p] = "save"
  /\ \/ Abort(p, AtTarget(cur[p]))
     \/ /\ Insert(p, AtTarget(cur[p]))
        /\ thread' = [thread EXCEPT ![p] = "test"]
        /\ landed' = [landed EXCEPT ![p] = @ \cup {cur[p]}]
        /\ UNCHANGED <<mainVars, reduceVars, cur, name, netVars, array, value,
                       thread_end, count, count_epoch, count_fence,
                       active_epoch, from_sync>>

(* Mutants: the thread leaves as soon as it is told to end, or only once   *)
(* there are too many messages.                                            *)
AllReceived_EndOnly(p) == thread_end[p] = 1
AllReceived_OffByOne(p) == thread_end[p] = 1 /\ count[p] > value[p]

AllReceived(p) == thread_end[p] = 1 /\ count[p] = value[p]

(* Told to end, and everything expected has come: the posted receive is    *)
(* cancelled.                                                              *)
ExitThread(p) ==
  /\ status = "running"
  /\ thread[p] = "test"
  /\ AllReceived(p)
  /\ count' = [count EXCEPT ![p] = 0]
  /\ thread' = [thread EXCEPT ![p] = "exit"]
  /\ UNCHANGED <<status, mainVars, reduceVars, cur, name, landed, netVars,
                 array, value, thread_end, count_epoch, count_fence,
                 active_epoch, from_sync, Intervals>>

-----------------------------------------------------------------------------
(* Starting and ending epochs. *)

(* rma_analyzer_init_comm_check_thread.  Assigning to a std::thread that   *)
(* is still joinable calls std::terminate.                                 *)
InitCommCheckThread(p) ==
  /\ array' = [array EXCEPT ![p] = [q \in Procs |-> 0]]
  /\ thread_end' = [thread_end EXCEPT ![p] = 0]
  /\ count_epoch' = [count_epoch EXCEPT ![p] = @ + 1]
  /\ active_epoch' = [active_epoch EXCEPT ![p] = 1]
  /\ thread' = [thread EXCEPT ![p] = "test"]
  /\ landed' = [landed EXCEPT ![p] = {}]
  /\ status' = IF thread[p] = "off" THEN status ELSE "terminated"
  /\ UNCHANGED <<value, count, Intervals, cur, name>>

(* MPI_Win_lock_all, and MPI_Win_lock when every process calls it. *)
WinLockAll(p) ==
  /\ Calls(p, "lock_all")
  /\ InitCommCheckThread(p)
  /\ Return(p)
  /\ UNCHANGED <<prog, out, entered, reduceVars, netVars, count_fence, from_sync>>

(* The calls that begin with rma_analyzer_clear_comm_check_thread with a   *)
(* reduction: the end of an epoch, a fence that is not the first one, and  *)
(* a barrier inside an epoch.                                              *)
BeginClear(p) ==
  /\ \/ Calls(p, "unlock_all")
     \/ Calls(p, "fence") /\ count_fence[p] > 0
     \/ Calls(p, "barrier") /\ active_epoch[p] > 0
  /\ pc' = [pc EXCEPT ![p] = "reduce"]
  /\ redIdx' = [redIdx EXCEPT ![p] = 0]
  /\ UNCHANGED <<status, prog, pos, out, entered, got, partial, contrib,
                 reduces, threadVars, netVars, stateVars>>

(* MPI_Reduce to another root: the contribution is on its way. *)
Contribute(p) ==
  /\ status = "running"
  /\ pc[p] = "reduce"
  /\ redIdx[p] < N /\ redIdx[p] # p
  /\ contrib' = contrib \cup {[src |-> p, root |-> redIdx[p],
                               round |-> reduces[p], n |-> array[p][redIdx[p]]]}
  /\ redIdx' = [redIdx EXCEPT ![p] = @ + 1]
  /\ UNCHANGED <<status, mainVars, got, partial, reduces, threadVars, netVars,
                 stateVars>>

(* MPI_Reduce at the root: MPI_SUM combines the contributions of the same  *)
(* round one after the other.                                              *)
Combine(p) ==
  /\ status = "running"
  /\ pc[p] = "reduce"
  /\ redIdx[p] = p
  /\ \E c \in contrib :
       /\ c.root = p /\ c.round = reduces[p]
       /\ got' = [got EXCEPT ![p] = @ \cup {c.src}]
       /\ partial' = [partial EXCEPT ![p] = @ + c.n]
       /\ contrib' = contrib \ {c}
  /\ UNCHANGED <<status, mainVars, redIdx, reduces, threadVars, netVars, stateVars>>

(* Mutants: the root forgets its own contribution, or subtracts it. *)
Expected_OthersOnly(p) == partial[p]
Expected_Difference(p) == partial[p] - array[p][p]

(* What MPI_SUM leaves in the value of the root. *)
Expected(p) == partial[p] + array[p][p]

(* The root's MPI_Reduce returns with the number of messages to expect. *)
ReduceReturns(p) ==
  /\ status = "running"
  /\ pc[p] = "reduce"
  /\ redIdx[p] = p
  /\ got[p] = Procs \ {p}
  /\ value' = [value EXCEPT ![p] = Expected(p)]
  /\ got' = [got EXCEPT ![p] = {}]
  /\ partial' = [partial EXCEPT ![p] = 0]
  /\ redIdx' = [redIdx EXCEPT ![p] = @ + 1]
  /\ UNCHANGED <<status, mainVars, contrib, reduces, threadVars, netVars, array,
                 thread_end, count, count_epoch, count_fence, active_epoch,
                 from_sync, Intervals>>

(* All reductions done: the thread is told to end, and joined. *)
EndThread(p) ==
  /\ status = "running"
  /\ pc[p] = "reduce"
  /\ redIdx[p] = N
  /\ thread_end' = [thread_end EXCEPT ![p] = 1]
  /\ reduces' = [reduces EXCEPT ![p] = @ + 1]
  /\ pc' = [pc EXCEPT ![p] = "join"]
  /\ UNCHANGED <<status, prog, pos, out, entered, redIdx, got, partial, contrib,
                 threadVars, netVars, array, value, count, count_epoch,
                 count_fence, active_epoch, from_sync, Intervals>>

(* Thread.join() returns and the state is cleared.  A std::thread that is  *)
(* not joinable throws, and nothing catches.                               *)
Join(p) ==
  /\ status = "running"
  /\ pc[p] = "join"
  /\ thread[p] \in {"exit", "off"}
  /\ status' = IF thread[p] = "exit" THEN status ELSE "terminated"
  /\ thread' = [thread EXCEPT ![p] = "off"]
  /\ landed' = [landed EXCEPT ![p] = {}]
  /\ count' = [count EXCEPT ![p] = 0]
  /\ active_epoch' = [active_epoch EXCEPT ![p] = 0]
  /\ Intervals' = [Intervals EXCEPT ![p] = {}]
  /\ CASE prog[pos[p] + 1] = "unlock_all" ->
            Return(p) /\ UNCHANGED <<entered, from_sync>>
       [] prog[pos[p] + 1] = "fence" ->
            /\ pc' = [pc EXCEPT ![p] = "fence"]
            /\ entered' = [entered EXCEPT ![p] = @ + 1]
            /\ UNCHANGED <<pos, from_sync>>
       [] prog[pos[p] + 1] = "barrier" ->
            /\ pc' = [pc EXCEPT ![p] = "restart"]
            /\ from_sync' = [from_sync EXCEPT ![p] = 1]
            /\ UNCHANGED <<pos, entered>>
       [] prog[pos[p] + 1] = "free" ->
            /\ pc' = [pc EXCEPT ![p] = "stop"]
            /\ UNCHANGED <<pos, entered, from_sync>>
  /\ UNCHANGED <<prog, out, reduceVars, cur, name, netVars, array, value,
                 thread_end, count_epoch, count_fence>>

(* Every process has entered the PMPI barrier p is in. *)
BarrierReached(p) == \A q \in Procs : entered[q] >= entered[p]

(* MPI_Win_fence: the first one only starts an epoch, a later one does so  *)
(* once every process has left the previous epoch.  The final              *)
(* PMPI_Win_fence(assert) is not taken to synchronise.                     *)
WinFence(p) ==
  /\ \/ Calls(p, "fence") /\ count_fence[p] = 0
     \/ status = "running" /\ pc[p] = "fence" /\ BarrierReached(p)
  /\ count_fence' = [count_fence EXCEPT ![p] = @ + 1]
  /\ InitCommCheckThread(p)
  /\ Return(p)
  /\ UNCHANGED <<prog, out, entered, reduceVars, netVars, from_sync>>

(* Mutant: every window without an active epoch is restarted. *)
NeedsRestart_AnyWindow(p) == active_epoch[p] = 0

(* The test of rma_analyzer_init_comm_check_thread_all_wins. *)
NeedsRestart(p) == active_epoch[p] = 0 /\ from_sync[p] = 1

(* MPI_Barrier after the windows in an epoch have been cleared:            *)
(* rma_analyzer_init_comm_check_thread_all_wins, then PMPI_Barrier.        *)
RestartThread(p) ==
  /\ \/ Calls(p, "barrier") /\ active_epoch[p] = 0
     \/ status = "running" /\ pc[p] = "restart"
  /\ IF NeedsRestart(p)
     THEN InitCommCheckThread(p)
     ELSE UNCHANGED <<status, threadVars, array, value, thread_end, count,
                      count_epoch, active_epoch, Intervals>>
  /\ pc' = [pc EXCEPT ![p] = "barrier"]
  /\ entered' = [entered EXCEPT ![p] = @ + 1]
  /\ UNCHANGED <<prog, pos, out, reduceVars, netVars, count_fence, from_sync>>

LeaveBarrier(p) ==
  /\ status = "running"
  /\ pc[p] = "barrier"
  /\ BarrierReached(p)
  /\ Return(p)
  /\ UNCHANGED <<status, prog, out, entered, reduceVars, threadVars, netVars,
                 stateVars>>

(* MPI_Win_free after a fence clears the last thread without a reduction. *)
WinFreeClear(p) ==
  /\ Calls(p, "free")
  /\ count_fence[p] > 0
  /\ value' = [value EXCEPT ![p] = 0]
  /\ thread_end' = [thread_end EXCEPT ![p] = 1]
  /\ pc' = [pc EXCEPT ![p] = "join"]
  /\ UNCHANGED <<status, prog, pos, out, entered, reduceVars, threadVars, netVars,
                 array, count, count_epoch, count_fence, active_epoch,
                 from_sync, Intervals>>

(* rma_analyzer_stop erases the state; destroying a joinable std::thread   *)
(* calls std::terminate.                                                   *)
WinFree(p) ==
  /\ \/ Calls(p, "free") /\ count_fence[p] = 0
     \/ status = "running" /\ pc[p] = "stop"
  /\ status' = IF thread[p] = "off" THEN status ELSE "terminated"
  /\ pc' = [pc EXCEPT ![p] = "done"]
  /\ pos' = [pos EXCEPT ![p] = @ + 1]
  /\ UNCHANGED <<prog, out, entered, reduceVars, threadVars, netVars, stateVars>>

-----------------------------------------------------------------------------
User(p) ==
  \/ \E Acc \in LocalOps : LoadStore(p, Acc)
  \/ \E q \in Procs, op \in RmaOps : Communicate(p, q, op)

(* What the application thread does inside a call it has made. *)
Call(p) ==
  \/ SendString(p) \/ CountSend(p)
  \/ WinLockAll(p) \/ BeginClear(p) \/ Contribute(p) \/ Combine(p)
  \/ ReduceReturns(p) \/ EndThread(p) \/ Join(p)
  \/ WinFence(p) \/ RestartThread(p) \/ LeaveBarrier(p)
  \/ WinFreeClear(p) \/ WinFree(p)

CheckThread(p) ==
  \/ ReceiveInterval(p) \/ ReceiveString(p) \/ SaveReceived(p) \/ ExitThread(p)

(* The program is over: stopped, or finished on every process. *)
Finished ==
  /\ status # "running" \/ \A p \in Procs : pc[p] = "done"
  /\ UNCHANGED vars

Next ==
  \/ \E p \in Procs : User(p) \/ Call(p) \/ CheckThread(p)
  \/ Finished

Spec == Init /\ [][Next]_vars

(* The operating system runs both threads of every process, and the        *)
(* program goes on making its synchronisation calls.                       *)
FairSpec ==
  /\ Spec
  /\ \A p \in Procs : WF_vars(Call(p)) /\ WF_vars(CheckThread(p))

-----------------------------------------------------------------------------
Fenced(P, k) == \E i \in 1 .. k : P[i] = "fence"

(* The programs the analyzer is written for.  lock_all and the first fence *)
(* come when no epoch is open, unlock_all and the later fences when one    *)
(* is; the window is freed last, in the epoch the last fence opened or,    *)
(* without fences, outside an epoch; and no barrier outside an epoch       *)
(* follows one inside an epoch, as from_sync is never reset.               *)
WellFormed(P) ==
  \A k \in 1 .. Len(P) :
    /\ P[k] = "lock_all" => ~ OpenAfter(P, k - 1)
    /\ P[k] = "unlock_all" => OpenAfter(P, k - 1)
    /\ P[k] = "fence" => (OpenAfter(P, k - 1) <=> Fenced(P, k - 1))
    /\ P[k] = "barrier" =>
         \/ OpenAfter(P, k - 1)
         \/ \A j \in 1 .. k - 1 : P[j] = "barrier" => ~ OpenAfter(P, j - 1)
    /\ P[k] = "free" =>
         k = Len(P) /\ (OpenAfter(P, k - 1) <=> Fenced(P, k - 1))

(* The accesses made to p's window in p's current epoch by the program. *)
EpochMessages(p) == {m \in sent : m.dst = p /\ m.epoch = count_epoch[p]}

(* The thread that rma_analyzer_clear_comm_check_thread joins has saved    *)
(* every access that any process made to this window in the epoch, though  *)
(* it only compared two counters, and the receive it cancels could not     *)
(* have matched anything.                                                  *)
EpochComplete ==
  \A p \in Procs : thread[p] = "exit" => landed[p] = EpochMessages(p)

(* An interval in flight is for the running epoch of its target or for one *)
(* the target has yet to start: none is left behind by a finished epoch    *)
(* and none can be taken for an access of a later one.                     *)
NoStaleInterval ==
  \A m \in net :
    \/ m.epoch > count_epoch[m.dst]
    \/ m.epoch = count_epoch[m.dst] /\ thread[m.dst] \in {"test", "probe", "save"}

(* No race of an epoch goes unreported: when the checking thread ends, all *)
(* the accesses other processes made to the window are in the list, and    *)
(* neither two of them nor one of them and a load or store conflict; a     *)
(* conflict would have stopped the program whichever thread came second.   *)
RacesCaught ==
  \A p \in Procs : thread[p] = "exit" =>
    /\ \A m1, m2 \in EpochMessages(p) :
         m1 # m2 => ~ conflictsWith(AtTarget(m1), AtTarget(m2))
    /\ \A m \in EpochMessages(p) : AtTarget(m) \in Intervals[p]
    /\ \A x, y \in Intervals[p] : x # y => ~ conflictsWith(x, y)

(* All accesses have one size, at the origin and at the target, and wrap   *)
(* around the end of no address space, as when a program accesses the      *)
(* elements of arrays of one type one at a time.                           *)
HasSize(I, s) == I.Up = I.Low + s

UniformAccesses(s) ==
  /\ \A A \in LocalOps : HasSize(A.Itv, s)
  /\ \A op \in RmaOps :
       /\ HasSize(op.origin, s)
       /\ \A q \in Procs : HasSize(fixForWindow(op.target, Base[q], DispUnit[q]), s)

(* A std::thread is never assigned or destroyed while joinable, nor joined *)
(* when it is not.                                                         *)
NeverTerminated == status # "terminated"

(* The file name that ends up in the debug information of a received       *)
(* access is the one its sender sent with it.                              *)
FilenameOfAccess ==
  \A p \in Procs : thread[p] = "save" => name[p].file = cur[p].file

(* When a barrier has restarted the checking thread, the epoch had not     *)
(* been really stopped: the program is inside one.                         *)
RestartOnlyInEpoch ==
  \A p \in Procs : pc[p] = "barrier" /\ thread[p] = "test" => EpochOpen(p)

(* Every process finishes its program, whatever the interleaving of        *)
(* threads and messages, unless the program is stopped.                    *)
Termination == <>(status # "running" \/ \A p \in Procs : pc[p] = "done")
=============================================================================
