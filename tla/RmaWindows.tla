----------------------------- MODULE RmaWindows -----------------------------
(***************************************************************************)
(* The RMA analyzer with several windows (rma_analyzer.cpp and the Fortran *)
(* wrappers, whose control is that of the C ones).  Each process keeps a   *)
(* std::map of window states ordered by MPI_Win handle and a table of the  *)
(* tag ranges it has given to its windows; both are local, while the tags  *)
(* and the order of the reductions have to be the same on all processes.   *)
(*                                                                         *)
(* One epoch of one window is modelled in detail in RmaAnalyzer.  Here an  *)
(* access is one message, the reductions to all ranks are one step, and    *)
(* the lists of accesses are left out.  Tags are counted from              *)
(* RMA_ANALYZER_BASE_MPI_TAG.                                              *)
(***************************************************************************)
EXTENDS Integers, FiniteSets, FiniteSetsExt, Sequences, Functions

CONSTANTS Members,    \* communicators: the processes of each
          CommOf,     \* the windows: the communicator of each
          Programs,   \* sequences of collective calls
          Handles,    \* MPI_Win handles of the windows, on each process
          MaxWin,     \* RMA_ANALYZER_MAX_WIN
          MaxEpoch,   \* RMA_ANALYZER_MAX_EPOCH_NUMBER
          MaxComms    \* bound: one-sided calls of a process in the program

Comms == DOMAIN Members
Wins  == DOMAIN CommOf
Procs == UNION Range(Members)

Call == [op : {"create", "lock_all", "unlock_all", "free"}, on : Wins]
          \cup [op : {"barrier"}, on : Comms]

(* The call i of P is op on x. *)
Is(P, i, op, x) == P[i].op = op /\ P[i].on = x

(* After the first i calls of P, w is a window. *)
Exists(P, w, i) ==
  /\ \E j \in 1 .. i : Is(P, j, "create", w)
  /\ \A j \in 1 .. i : ~ Is(P, j, "free", w)

(* After the first i calls of P, w is in an epoch. *)
InEpoch(P, w, i) ==
  \E j \in 1 .. i : /\ Is(P, j, "lock_all", w)
                    /\ \A k \in j + 1 .. i : ~ Is(P, k, "unlock_all", w)

(* What MPI asks of a program: windows (which stand for themselves, not    *)
(* for handles that come back) are used while they exist, epochs are       *)
(* closed before they are opened again and before the window is freed.     *)
ProgramOK(P) ==
  \A i \in DOMAIN P :
    LET op == P[i].op
        w  == P[i].on
    IN  /\ op = "create" => \A j \in 1 .. i - 1 : ~ Is(P, j, "create", w)
        /\ op \in {"lock_all", "unlock_all", "free"} =>
             /\ Exists(P, w, i - 1)
             /\ InEpoch(P, w, i - 1) <=> op = "unlock_all"

ASSUME WindowsAssumption ==
  /\ IsFiniteSet(Wins) /\ CommOf \in [Wins -> Comms]
  /\ Programs \subseteq Seq(Call) /\ \A P \in Programs : ProgramOK(P)
  /\ Handles \subseteq [Procs -> [Wins -> Nat]]
  /\ \A h \in Handles, p \in Procs : IsInjective(h[p])
  /\ MaxWin \in Nat \ {0} /\ MaxEpoch \in Nat \ {0} /\ MaxComms \in Nat

VARIABLES
  prog, handle,    \* the program and the handles MPI gives to its windows
  pos, pc, todo,   \* application threads: calls made, place, windows left to clear
  win_mpi_tag_id,  \* tag ranges in use, on each process
  States,          \* window states, on each process
  net,             \* accesses in flight
  reduced, rounds, \* reductions of each communicator, and how many each process made
  entered,         \* synchronising PMPI calls entered, by communicator
  crashed,         \* std::terminate was called
  sent,            \* history: every access sent
  given,           \* history: the tags given to each window
  agreed           \* history: one tag for each window, and epochs in their range

vars == <<prog, handle, pos, pc, todo, win_mpi_tag_id, States, net, reduced,
          rounds, entered, crashed, sent, given, agreed>>

Message == [src : Procs, dst : Procs, win : Wins, epoch : Nat, n : Nat, tag : Int]

(* rma_analyzer_state; landed is a history of what its thread received. *)
State == [mpi_tag : Int, count_epoch : Nat, active_epoch : 0 .. 1,
          from_sync : 0 .. 1, thread : {"off", "test", "exit"},
          thread_end : 0 .. 1, count : Nat, value : Nat,
          array : [Procs -> Nat], landed : SUBSET Message]

TypeOK ==
  /\ prog \in Programs /\ handle \in Handles
  /\ pos \in [Procs -> Nat]
  /\ pc \in [Procs -> {"user", "sweep", "reduce", "join", "sync"}]
  /\ todo \in [Procs -> SUBSET Wins]
  /\ win_mpi_tag_id \in [Procs -> [0 .. MaxWin - 1 -> 0 .. 1]]
  /\ DOMAIN States = Procs
  /\ \A p \in Procs : DOMAIN States[p] \subseteq Wins /\ Range(States[p]) \subseteq State
  /\ net \subseteq sent /\ sent \subseteq Message
  /\ DOMAIN reduced \subseteq Comms \X Nat
  /\ Range(reduced) \subseteq [from : SUBSET Procs, sum : [Procs -> Nat]]
  /\ rounds \in [Procs -> [Comms -> Nat]] /\ entered \in [Procs -> [Comms -> Nat]]
  /\ crashed \in BOOLEAN /\ given \in [Wins -> SUBSET Int] /\ agreed \in BOOLEAN

Init ==
  /\ prog \in Programs /\ handle \in Handles
  /\ pos = [p \in Procs |-> 0]
  /\ pc = [p \in Procs |-> "user"]
  /\ todo = [p \in Procs |-> {}]
  /\ win_mpi_tag_id = [p \in Procs |-> [i \in 0 .. MaxWin - 1 |-> 0]]
  /\ States = [p \in Procs |-> << >>]
  /\ net = {} /\ reduced = << >> /\ sent = {}
  /\ rounds = [p \in Procs |-> [c \in Comms |-> 0]]
  /\ entered = [p \in Procs |-> [c \in Comms |-> 0]]
  /\ crashed = FALSE /\ given = [w \in Wins |-> {}] /\ agreed = TRUE

-----------------------------------------------------------------------------
(* The program: every process makes the calls on the windows and the       *)
(* communicators it is a member of, in the same order.                     *)
CommOfCall(call) == IF call.op = "barrier" THEN call.on ELSE CommOf[call.on]

Concerns(call, p) == p \in Members[CommOfCall(call)]

Calls(p, op) ==
  /\ ~ crashed /\ pc[p] = "user"
  /\ pos[p] < Len(prog)
  /\ prog[pos[p] + 1].op = op
  /\ Concerns(prog[pos[p] + 1], p)

Arg(p) == prog[pos[p] + 1].on

SkipCall(p) ==
  /\ ~ crashed /\ pc[p] = "user" /\ pos[p] < Len(prog)
  /\ ~ Concerns(prog[pos[p] + 1], p)
  /\ pos' = [pos EXCEPT ![p] = @ + 1]
  /\ UNCHANGED <<prog, handle, pc, todo, win_mpi_tag_id, States, net, reduced,
                 rounds, entered, crashed, sent, given, agreed>>

Return(p) ==
  /\ pc' = [pc EXCEPT ![p] = "user"]
  /\ pos' = [pos EXCEPT ![p] = @ + 1]

(* PMPI_Barrier and PMPI_Win_free return when every process of the         *)
(* communicator has called them.                                           *)
EnterSync(p) ==
  /\ pc' = [pc EXCEPT ![p] = "sync"]
  /\ entered' = [entered EXCEPT ![p][CommOfCall(prog[pos[p] + 1])] = @ + 1]

LeaveSync(p) ==
  LET c == CommOfCall(prog[pos[p] + 1])
  IN  /\ ~ crashed /\ pc[p] = "sync"
      /\ \A q \in Members[c] : entered[q][c] >= entered[p][c]
      /\ Return(p)
      /\ UNCHANGED <<prog, handle, todo, win_mpi_tag_id, States, net, reduced,
                     rounds, entered, crashed, sent, given, agreed>>

-----------------------------------------------------------------------------
(* Tag ranges. *)

(* The first free range, or -1. *)
get_tag_range_id(used) ==
  IF \E i \in DOMAIN used : used[i] = 0
  THEN Min({i \in DOMAIN used : used[i] = 0})
  ELSE -1

(* The table after a range is given, or given back; a write at -1 is       *)
(* outside of the table.                                                   *)
MarkRange(used, id, v) == IF id \in DOMAIN used THEN [used EXCEPT ![id] = v] ELSE used

(* Mutant: the range after the one of the tag is given back. *)
RangeOf_Next(tag) == (tag + MaxEpoch) \div MaxEpoch

RangeOf(tag) == tag \div MaxEpoch

-----------------------------------------------------------------------------
(* Creating and freeing windows. *)

(* MPI_Win_create and rma_analyzer_start: a range that was not found is    *)
(* only reported.                                                          *)
WinCreate(p) ==
  LET w  == Arg(p)
      id == get_tag_range_id(win_mpi_tag_id[p])
      S  == [mpi_tag |-> MaxEpoch * id, count_epoch |-> 0, active_epoch |-> 0,
             from_sync |-> 0, thread |-> "off", thread_end |-> 0, count |-> 0,
             value |-> 0, array |-> [q \in Procs |-> 0], landed |-> {}]
  IN  /\ Calls(p, "create")
      /\ win_mpi_tag_id' = [win_mpi_tag_id EXCEPT ![p] = MarkRange(@, id, 1)]
      /\ States' = [States EXCEPT ![p] = [v \in DOMAIN @ \cup {w} |->
                                            IF v = w THEN S ELSE @[v]]]
      /\ given' = [given EXCEPT ![w] = @ \cup {S.mpi_tag}]
      /\ agreed' = (agreed /\ id >= 0 /\ given[w] \subseteq {S.mpi_tag})
      /\ Return(p)
      /\ UNCHANGED <<prog, handle, todo, net, reduced, rounds, entered, crashed, sent>>

(* MPI_Win_free and rma_analyzer_stop: destroying a joinable std::thread   *)
(* calls std::terminate.  The programs of this module have no fence, so    *)
(* count_fence is 0; RmaAnalyzer has the branch that joins the thread of   *)
(* the last fence.                                                         *)
WinFree(p) ==
  LET w == Arg(p)
  IN  /\ Calls(p, "free")
      /\ win_mpi_tag_id' = [win_mpi_tag_id EXCEPT ![p] =
                              MarkRange(@, RangeOf(States[p][w].mpi_tag), 0)]
      /\ crashed' = (States[p][w].thread # "off")
      /\ States' = [States EXCEPT ![p] = Restrict(@, DOMAIN @ \ {w})]
      /\ EnterSync(p)
      /\ UNCHANGED <<prog, handle, pos, todo, net, reduced, rounds, sent, given, agreed>>

-----------------------------------------------------------------------------
(* Epochs. *)

(* rma_analyzer_init_comm_check_thread. *)
Started(S) ==
  [S EXCEPT !.array = [q \in Procs |-> 0], !.thread_end = 0, !.count_epoch = @ + 1,
            !.active_epoch = 1, !.thread = "test", !.landed = {}]

(* The windows W of p start an epoch. *)
StartEpochs(p, W) ==
  /\ States' = [States EXCEPT ![p] = [w \in DOMAIN @ |->
                                        IF w \in W THEN Started(@[w]) ELSE @[w]]]
  /\ crashed' = \E w \in W : States[p][w].thread # "off"
  /\ agreed' = (agreed /\ \A w \in W : States[p][w].count_epoch < MaxEpoch)

WinLockAll(p) ==
  /\ Calls(p, "lock_all")
  /\ StartEpochs(p, {Arg(p)})
  /\ Return(p)
  /\ UNCHANGED <<prog, handle, todo, win_mpi_tag_id, net, reduced, rounds, entered, sent, given>>

(* MPI_Put, MPI_Get and MPI_Accumulate: rma_analyzer_update_on_comm_send.  *)
(* The program communicates inside the epochs it opened.                   *)
Communicate(p, w, q) ==
  LET S == States[p][w]
      m == [src |-> p, dst |-> q, win |-> w, epoch |-> S.count_epoch,
            n |-> Cardinality(sent), tag |-> S.mpi_tag + S.count_epoch]
  IN  /\ ~ crashed /\ pc[p] = "user"
      /\ w \in DOMAIN States[p] /\ S.active_epoch = 1
      /\ q \in Members[CommOf[w]]
      /\ Cardinality({s \in sent : s.src = p}) < MaxComms
      /\ net' = net \cup {m} /\ sent' = sent \cup {m}
      /\ States' = [States EXCEPT ![p][w].array[q] = @ + 1]
      /\ UNCHANGED <<prog, handle, pos, pc, todo, win_mpi_tag_id, reduced, rounds,
                     entered, crashed, given, agreed>>

(* rma_analyzer_check_communication: the oldest access with the tag of the *)
(* window's epoch that some process of its communicator sent.              *)
Receive(p, w) ==
  LET S == States[p][w]
      Matching == {m \in net : /\ m.dst = p /\ CommOf[m.win] = CommOf[w]
                               /\ m.tag = S.mpi_tag + S.count_epoch}
  IN  /\ ~ crashed /\ S.thread = "test"
      /\ \E m \in Matching :
           /\ \A m2 \in Matching : m2.src = m.src => m.n <= m2.n
           /\ net' = net \ {m}
           /\ States' = [States EXCEPT ![p][w] = [S EXCEPT !.count = @ + 1,
                                                           !.landed = @ \cup {m}]]
      /\ UNCHANGED <<prog, handle, pos, pc, todo, win_mpi_tag_id, reduced, rounds,
                     entered, crashed, sent, given, agreed>>

(* Mutants: the number of accesses is not looked at, or off by one. *)
AllReceived_EndOnly(S) == S.thread_end = 1
AllReceived_OffByOne(S) == S.thread_end = 1 /\ S.count > S.value

AllReceived(S) == S.thread_end = 1 /\ S.count = S.value

ExitThread(p, w) ==
  /\ ~ crashed
  /\ States[p][w].thread = "test"
  /\ AllReceived(States[p][w])
  /\ States' = [States EXCEPT ![p][w] = [@ EXCEPT !.thread = "exit", !.count = 0]]
  /\ UNCHANGED <<prog, handle, pos, pc, todo, win_mpi_tag_id, net, reduced, rounds,
                 entered, crashed, sent, given, agreed>>

-----------------------------------------------------------------------------
(* rma_analyzer_clear_comm_check_thread, for the window of an unlock_all   *)
(* and for the windows a barrier sweeps, in the order of the map.          *)

WinUnlockAll(p) ==
  /\ Calls(p, "unlock_all")
  /\ todo' = [todo EXCEPT ![p] = {Arg(p)}]
  /\ pc' = [pc EXCEPT ![p] = "sweep"]
  /\ UNCHANGED <<prog, handle, pos, win_mpi_tag_id, States, net, reduced, rounds,
                 entered, crashed, sent, given, agreed>>

(* The windows rma_analyzer_clear_comm_check_thread_all_wins clears: those *)
(* in an epoch, *)
Sweep(p) == {w \in DOMAIN States[p] : States[p][w].active_epoch = 1}

(* from the first of the map on. *)
IsNext(p, w) == w \in todo[p] /\ \A v \in todo[p] : handle[p][w] <= handle[p][v]

Barrier(p) ==
  /\ Calls(p, "barrier")
  /\ todo' = [todo EXCEPT ![p] = Sweep(p)]
  /\ pc' = [pc EXCEPT ![p] = "sweep"]
  /\ UNCHANGED <<prog, handle, pos, win_mpi_tag_id, States, net, reduced, rounds,
                 entered, crashed, sent, given, agreed>>

(* MPI matches the reductions of a communicator by their order alone.      *)
(* What a process contributes to one is added to what others have.         *)
Added(x, p, array) ==
  [from |-> x.from \cup {p}, sum |-> [q \in Procs |-> x.sum[q] + array[q]]]

NothingYet == [from |-> {}, sum |-> [q \in Procs |-> 0]]

Contribute(k, p, array) ==
  reduced' = [x \in DOMAIN reduced \cup {k} |->
                IF x # k THEN reduced[x]
                ELSE Added(IF k \in DOMAIN reduced THEN reduced[k] ELSE NothingYet, p, array)]

Reduce(p) ==
  /\ ~ crashed /\ pc[p] = "sweep"
  /\ \E w \in todo[p] :
       /\ IsNext(p, w)
       /\ Contribute(<<CommOf[w], rounds[p][CommOf[w]]>>, p, States[p][w].array)
  /\ pc' = [pc EXCEPT ![p] = "reduce"]
  /\ UNCHANGED <<prog, handle, pos, todo, win_mpi_tag_id, States, net, rounds,
                 entered, crashed, sent, given, agreed>>

ReduceReturns(p) ==
  /\ ~ crashed /\ pc[p] = "reduce"
  /\ \E w \in todo[p] :
       LET c == CommOf[w]
           x == reduced[<<c, rounds[p][c]>>]
       IN  /\ IsNext(p, w)
           /\ x.from = Members[c]
           /\ States' = [States EXCEPT ![p][w] = [@ EXCEPT !.value = x.sum[p], !.thread_end = 1]]
           /\ rounds' = [rounds EXCEPT ![p][c] = @ + 1]
  /\ pc' = [pc EXCEPT ![p] = "join"]
  /\ UNCHANGED <<prog, handle, pos, todo, win_mpi_tag_id, net, reduced, entered,
                 crashed, sent, given, agreed>>

(* Mutant: the thread is detached. *)
Joinable_Any(S) == TRUE

Joinable(S) == S.thread \in {"exit", "off"}

(* What rma_analyzer_clear_comm_check_thread_all_wins leaves in a window   *)
(* it cleared.                                                             *)
Synced(S) == [S EXCEPT !.from_sync = 1]

(* The join of a thread that was not started throws.  A barrier sets       *)
(* from_sync and goes on with the next window.                             *)
Join(p) ==
  LET inBarrier == prog[pos[p] + 1].op = "barrier" IN
  /\ ~ crashed /\ pc[p] = "join"
  /\ \E w \in todo[p] :
       LET S == [States[p][w] EXCEPT !.thread = IF @ = "exit" THEN "off" ELSE @,
                                     !.count = 0, !.active_epoch = 0]
       IN  /\ IsNext(p, w)
           /\ Joinable(States[p][w])
           /\ crashed' = (States[p][w].thread = "off")
           /\ States' = [States EXCEPT ![p][w] = IF inBarrier THEN Synced(S) ELSE S]
           /\ todo' = [todo EXCEPT ![p] = @ \ {w}]
  /\ IF inBarrier
     THEN pc' = [pc EXCEPT ![p] = "sweep"] /\ UNCHANGED pos
     ELSE Return(p)
  /\ UNCHANGED <<prog, handle, win_mpi_tag_id, net, reduced, rounds, entered,
                 sent, given, agreed>>

(* rma_analyzer_init_comm_check_thread_all_wins, then PMPI_Barrier. *)
Restart(p) ==
  /\ ~ crashed /\ pc[p] = "sweep" /\ todo[p] = {}
  /\ StartEpochs(p, {w \in DOMAIN States[p] : /\ States[p][w].active_epoch = 0
                                              /\ States[p][w].from_sync = 1})
  /\ EnterSync(p)
  /\ UNCHANGED <<prog, handle, pos, todo, win_mpi_tag_id, net, reduced, rounds, sent, given>>

-----------------------------------------------------------------------------
App(p) ==
  \/ SkipCall(p) \/ WinCreate(p) \/ WinFree(p) \/ WinLockAll(p) \/ WinUnlockAll(p)
  \/ Barrier(p) \/ Reduce(p) \/ ReduceReturns(p) \/ Join(p) \/ Restart(p)
  \/ LeaveSync(p)

CheckThread(p, w) == w \in DOMAIN States[p] /\ (Receive(p, w) \/ ExitThread(p, w))

Done == \A p \in Procs : pc[p] = "user" /\ pos[p] = Len(prog)

Next ==
  \/ \E p \in Procs : App(p) \/ \E w \in Wins, q \in Procs : Communicate(p, w, q)
  \/ \E p \in Procs, w \in Wins : CheckThread(p, w)

(* The operating system runs every thread, and the program goes on making  *)
(* its calls.                                                              *)
Spec ==
  /\ Init /\ [][Next]_vars
  /\ \A p \in Procs : WF_vars(App(p)) /\ \A w \in Wins : WF_vars(CheckThread(p, w))

-----------------------------------------------------------------------------
(* The map of every process lists the windows in the same order. *)
SameOrder ==
  \A p, q \in Procs, v, w \in Wins :
    handle[p][v] < handle[p][w] <=> handle[q][v] < handle[q][w]

(* A barrier of P is called by every process of w. *)
Covers(P, w, i) == P[i].op = "barrier" /\ Members[CommOf[w]] \subseteq Members[P[i].on]

(* Some barrier was called in an epoch of w: from now on all of them start *)
(* a thread, since from_sync is not reset at the end of the epoch.         *)
Synchronized(P, w, i) == \E k \in 1 .. i : Covers(P, w, k) /\ InEpoch(P, w, k - 1)

(* Every barrier of the program that ends or starts an epoch of a window   *)
(* on some of its processes does so on all.                                *)
BarriersCover ==
  \A i \in DOMAIN prog, w \in Wins :
    /\ prog[i].op = "barrier" /\ Exists(prog, w, i)
    /\ InEpoch(prog, w, i - 1) \/ Synchronized(prog, w, i - 1)
    /\ Members[CommOf[w]] \cap Members[prog[i].on] # {}
    => Covers(prog, w, i)

(* Collective calls are matched with those of the same window. *)
Matched == SameOrder /\ BarriersCover

(* rma_analyzer_check_communication takes no access of another window or   *)
(* another epoch for one of its own, though windows share communicators    *)
(* and tag ranges are reused, as long as the processes agree on the tags   *)
(* and end each epoch together.                                            *)
RightWindow ==
  agreed /\ Matched => \A p \in Procs : \A w \in DOMAIN States[p] :
    \A m \in States[p][w].landed : m.win = w /\ m.epoch = States[p][w].count_epoch

(* With several windows open, rma_analyzer_clear_comm_check_thread still   *)
(* joins a thread only when every access of the epoch has landed: each     *)
(* reduction is matched with that of the same window.                      *)
ClearedWhenComplete ==
  agreed /\ Matched =>
    \A p \in Procs : \A w \in DOMAIN States[p] : States[p][w].thread = "exit" =>
      States[p][w].landed = {m \in sent : /\ m.dst = p /\ m.win = w
                                          /\ m.epoch = States[p][w].count_epoch}

(* A barrier outside of the epochs of w, after one inside, starts a thread *)
(* for w: from_sync is still set.  Then w is locked again or freed.        *)
LockedOverThread(P) ==
  \E w \in Wins, i, k \in DOMAIN P :
    /\ i < k
    /\ Is(P, k, "lock_all", w) \/ Is(P, k, "free", w)
    /\ Covers(P, w, i) /\ Exists(P, w, i) /\ ~ InEpoch(P, w, i)
    /\ Synchronized(P, w, i - 1)

(* However the windows' threads, barriers and epochs interleave, a         *)
(* std::thread is assigned, joined and destroyed only when it may be: the  *)
(* process is not ended by std::terminate, in                              *)
(* rma_analyzer_init_comm_check_thread, in                                 *)
(* rma_analyzer_clear_comm_check_thread or in rma_analyzer_stop, except by *)
(* a program that locks or frees a window after a barrier outside of its   *)
(* epochs has started its thread again.                                    *)
TerminatedOnlyOverThread == crashed /\ Matched => LockedOverThread(prog)

(* Every process finishes its program, unless the processes disagree on    *)
(* the tags or on the order of their maps, a barrier leaves out some       *)
(* processes of a window it clears, or the program locks or frees a window *)
(* whose thread a barrier has started outside of its epochs.  That the     *)
(* process is terminated is not an end.                                    *)
Termination == <>(Done \/ ~ agreed \/ ~ Matched \/ LockedOverThread(prog))
=============================================================================
