-------------------------- MODULE RmaWindowsProofs --------------------------
(***************************************************************************)
(* Proofs about RmaWindows, for any number of processes, communicators and *)
(* windows and for every program that ProgramOK admits.                    *)
(*                                                                         *)
(* What the analyzer keeps of a window (active_epoch, from_sync,           *)
(* count_epoch) is, on each of its processes, a function of how far the    *)
(* process is in the program.  When barriers cover the windows they clear  *)
(* and the maps have the same order, so is the list of the reductions of a *)
(* communicator: the one that comes r-th ends the same epoch of the same   *)
(* window everywhere.  From there the number that a process waits for is   *)
(* the number of accesses the others have sent it in this epoch, and none  *)
(* is left behind when it goes on.                                         *)
(***************************************************************************)
EXTENDS RmaWindows, CommonLemmas

(* The calls of the program that p has made, counting a synchronising PMPI *)
(* call it is in.                                                          *)
At(p) == IF pc[p] = "sync" THEN pos[p] + 1 ELSE pos[p]

Clearing == {"sweep", "reduce", "join"}

(* active_epoch, from_sync and count_epoch of w after i calls of P. *)
Touched(P, w, i) == InEpoch(P, w, i) \/ Synchronized(P, w, i)

Active(P, w, i) ==
  \/ InEpoch(P, w, i)
  \/ \E k \in 1 .. i : /\ Covers(P, w, k) /\ Synchronized(P, w, k - 1)
                       /\ \A j \in k + 1 .. i : ~ Is(P, j, "unlock_all", w)

Starts(P, w) ==
  {k \in DOMAIN P : \/ Is(P, k, "lock_all", w)
                    \/ Covers(P, w, k) /\ Exists(P, w, k) /\ Touched(P, w, k - 1)}

Epoch(P, w, i) == Cardinality(1 .. i \cap Starts(P, w))

(* The calls that end an epoch of w, each with one reduction. *)
Ends(P, w, i) ==
  \/ Is(P, i, "unlock_all", w)
  \/ Covers(P, w, i) /\ Exists(P, w, i) /\ Active(P, w, i - 1)

(* The reductions of c, and those that come before x on q. *)
Reductions(P, c) == {x \in (DOMAIN P) \X Wins : CommOf[x[2]] = c /\ Ends(P, x[2], x[1])}

Before(P, h, c, x) ==
  {y \in Reductions(P, c) : y[1] < x[1] \/ (y[1] = x[1] /\ h[y[2]] < h[x[2]])}

(* The synchronising PMPI calls of c. *)
Syncs(P, c) == {k \in DOMAIN P : P[k].op \in {"barrier", "free"} /\ CommOfCall(P[k]) = c}

-----------------------------------------------------------------------------
(* The invariant.  Where the processes are. *)
PositionOK(p) ==
  LET call == prog[pos[p] + 1] IN
  /\ pos[p] <= Len(prog)
  /\ pc[p] # "user" => pos[p] < Len(prog) /\ Concerns(call, p)
  /\ pc[p] \in Clearing => call.op \in {"unlock_all", "barrier"}
  /\ pc[p] = "sync" => call.op \in {"barrier", "free"}
  /\ pc[p] \in Clearing /\ call.op = "unlock_all" => todo[p] = {call.on}
  /\ pc[p] \notin Clearing => todo[p] = {}
  /\ todo[p] \subseteq DOMAIN States[p]

KnownOK(p) ==
  \A w \in Wins : w \in DOMAIN States[p] <=> p \in Members[CommOf[w]] /\ Exists(prog, w, At(p))

EnteredOK(p) ==
  \A c \in Comms : p \in Members[c] => entered[p][c] = Cardinality(1 .. At(p) \cap Syncs(prog, c))

WaitingOK(p) ==
  \A w \in Wins : pc[p] = "reduce" /\ IsNext(p, w) =>
                    <<CommOf[w], rounds[p][CommOf[w]]>> \in DOMAIN reduced

PlaceOK(p) == PositionOK(p) /\ KnownOK(p) /\ EnteredOK(p) /\ WaitingOK(p)

SyncOK ==
  \A c \in Comms : \A p, q \in Members[c] : \A k \in Syncs(prog, c) : k <= pos[p] => k <= At(q)

(* A window has a tag when some process has created it. *)
CreatedOK ==
  \A w \in Wins : given[w] # {} <=>
    \E p \in Members[CommOf[w]] : \E j \in 1 .. pos[p] : Is(prog, j, "create", w)

(* The threads of p: w has been swept by the barrier p is in. *)
InBarrier(p) == pc[p] \in Clearing /\ prog[pos[p] + 1].op = "barrier"

Swept(p, w) == InBarrier(p) /\ w \notin todo[p]

ThreadOK(p, w) ==
  LET S == States[p][w] IN
  /\ S.thread # "off" <=> S.active_epoch = 1
  /\ S.active_epoch = 1 /\ ~ (pc[p] = "join" /\ IsNext(p, w)) => S.thread = "test" /\ S.thread_end = 0
  /\ S.active_epoch = 1 => S.from_sync = 1 \/ InEpoch(prog, w, At(p))
  /\ InEpoch(prog, w, At(p)) => S.active_epoch = 1 \/ (Swept(p, w) /\ S.from_sync = 1)
  /\ InBarrier(p) => (w \in todo[p] <=> S.active_epoch = 1)

ThreadsOK(p) == \A w \in DOMAIN States[p] : ThreadOK(p, w)

HistoryOK == IsFiniteSet(sent) /\ \A m \in sent : m.n < Cardinality(sent)

PlacesInvariant ==
  /\ TypeOK /\ HistoryOK /\ SyncOK /\ CreatedOK
  /\ \A p \in Procs : PlaceOK(p)
  /\ ~ crashed => \A p \in Procs : ThreadsOK(p)

(* What p keeps of w, from the place p is at. *)
Now(p, w) == Epoch(prog, w, At(p))

StateOK(p, w) ==
  LET S == States[p][w] IN
  /\ S.active_epoch = 1 <=> Active(prog, w, At(p)) /\ ~ Swept(p, w)
  /\ S.from_sync = 1 <=> Synchronized(prog, w, At(p)) \/ (Active(prog, w, At(p)) /\ Swept(p, w))
  /\ S.count_epoch = Now(p, w)
  /\ Swept(p, w) /\ Active(prog, w, At(p)) => \A v \in todo[p] : handle[p][w] < handle[p][v]

(* The reductions p has made. *)
Made(p, c) ==
  {x \in Reductions(prog, c) :
     \/ x[1] <= At(p)
     \/ /\ x[1] = pos[p] + 1 /\ pc[p] \in Clearing
        /\ x[2] \notin todo[p] \/ (pc[p] = "join" /\ IsNext(p, x[2]))}

RoundsOK(p) == \A c \in Comms : p \in Members[c] => rounds[p][c] = Cardinality(Made(p, c))

(* The epochs of w that p has left, and those it sends nothing more in. *)
Open(p, w) == w \in DOMAIN States[p] /\ States[p][w].active_epoch = 1
Left(p, w) == Now(p, w) - (IF Open(p, w) THEN 1 ELSE 0)
Closed(p, w) == IF pc[p] \in {"reduce", "join"} /\ IsNext(p, w) THEN Now(p, w) ELSE Left(p, w)

(* Accesses. *)
SentTo(p, w, e) == {m \in sent : m.dst = p /\ m.win = w /\ m.epoch = e}
SentBy(Q, p, w, e) == {m \in SentTo(p, w, e) : m.src \in Q}

ArrayOK(p, w) == \A q \in Procs : States[p][w].array[q] = Cardinality(SentBy({p}, q, w, Now(p, w)))

AccessOK(m) ==
  /\ m.src \in Members[CommOf[m.win]] /\ m.dst \in Members[CommOf[m.win]]
  /\ 1 <= m.epoch /\ m.epoch <= Now(m.src, m.win)

(* Each reduction adds up what its processes sent in one epoch. *)
SumsUp(k, x) ==
  LET w == x[2]
      e == Epoch(prog, w, x[1] - 1)
  IN  /\ \A q \in Procs : Cardinality(Before(prog, handle[q], k[1], x)) = k[2]
      /\ \A q \in reduced[k].from : q \in Members[k[1]] /\ e <= Closed(q, w)
      /\ \A q \in Procs : reduced[k].sum[q] = Cardinality(SentBy(reduced[k].from, q, w, e))

ReductionsOK == \A k \in DOMAIN reduced : \E x \in Reductions(prog, k[1]) : SumsUp(k, x)

EndOK(p, w) ==
  pc[p] = "join" /\ IsNext(p, w) =>
    /\ States[p][w].value = Cardinality(SentTo(p, w, Now(p, w)))
    /\ \A q \in Members[CommOf[w]] : Now(p, w) <= Closed(q, w)

(* No process leaves an epoch before all have closed it. *)
Together == \A w \in Wins : \A p, q \in Members[CommOf[w]] : Left(p, w) <= Closed(q, w)

MatchedOK ==
  /\ \A p \in Procs : RoundsOK(p)
  /\ \A p \in Procs : \A w \in DOMAIN States[p] : StateOK(p, w)
  /\ \A p \in Procs : \A w \in DOMAIN States[p] : ArrayOK(p, w)
  /\ \A p \in Procs : \A w \in DOMAIN States[p] : EndOK(p, w)
  /\ ReductionsOK /\ Together
  /\ \A m \in sent : AccessOK(m)

(* Tags: ranges are given to one window of a process at a time, and to     *)
(* windows that exist together never the same.                             *)
GivenOK ==
  /\ \A w \in Wins : /\ \A t \in given[w] : \E id \in 0 .. MaxWin - 1 : t = MaxEpoch * id
                     /\ \A t, u \in given[w] : t = u
  /\ \A v, w \in Wins : \A i \in DOMAIN prog :
       v # w /\ CommOf[v] = CommOf[w] /\ Is(prog, i, "create", w) /\ Exists(prog, v, i)
         => given[v] \cap given[w] = {}

RangesOK(p) ==
  \A w \in DOMAIN States[p] :
    /\ States[p][w].mpi_tag \in given[w] /\ States[p][w].count_epoch <= MaxEpoch
    /\ \A id \in 0 .. MaxWin - 1 : States[p][w].mpi_tag = MaxEpoch * id => win_mpi_tag_id[p][id] = 1
    /\ \A v \in DOMAIN States[p] : v # w => States[p][v].mpi_tag # States[p][w].mpi_tag

TagOK(m) == m.epoch <= MaxEpoch /\ \E t \in given[m.win] : m.tag = t + m.epoch

TagsOK == GivenOK /\ (\A p \in Procs : RangesOK(p)) /\ \A m \in sent : TagOK(m)

(* What has landed. *)
LandedOK(p, w) ==
  LET S == States[p][w] IN
  /\ S.landed = SentTo(p, w, Now(p, w)) \ net
  /\ S.count = IF S.thread = "test" THEN Cardinality(S.landed) ELSE 0
  /\ S.thread = "exit" => S.landed = SentTo(p, w, Now(p, w))

FlightOK(m) == IF m \in net THEN Left(m.dst, m.win) < m.epoch ELSE m.epoch <= Now(m.dst, m.win)

LandingOK ==
  /\ \A p \in Procs : \A w \in DOMAIN States[p] : LandedOK(p, w)
  /\ \A m \in sent : FlightOK(m)

WindowsInvariant ==
  /\ PlacesInvariant
  /\ ~ crashed /\ Matched => MatchedOK
  /\ agreed => TagsOK
  /\ ~ crashed /\ Matched /\ agreed => LandingOK
  /\ RightWindow /\ ClearedWhenComplete

-----------------------------------------------------------------------------
(* Programs. *)

LEMMA ProgramFacts ==
  ASSUME NEW P \in Programs
  PROVE  /\ P \in Seq(Call) /\ Len(P) \in Nat /\ DOMAIN P = 1 .. Len(P) /\ ProgramOK(P)
         /\ \A i \in DOMAIN P :
              /\ P[i].op \in {"create", "lock_all", "unlock_all", "free", "barrier"}
              /\ P[i].op # "barrier" => P[i].on \in Wins
              /\ P[i].op = "barrier" => P[i].on \in Comms
              /\ CommOfCall(P[i]) \in Comms
<1>1. P \in Seq(Call) /\ ProgramOK(P) /\ CommOf \in [Wins -> Comms]
  BY WindowsAssumption
<1>2. Len(P) \in Nat /\ DOMAIN P = 1 .. Len(P) /\ \A i \in DOMAIN P : P[i] \in Call
  BY <1>1
<1>3. ASSUME NEW c \in Call
      PROVE  /\ c.op \in {"create", "lock_all", "unlock_all", "free", "barrier"}
             /\ c.op # "barrier" => c.on \in Wins
             /\ c.op = "barrier" => c.on \in Comms
  BY DEF Call
<1>4. ASSUME NEW c \in Call PROVE CommOfCall(c) \in Comms
  BY <1>1, <1>3 DEF CommOfCall
<1> QED
  BY <1>1, <1>2, <1>3, <1>4

(* What one more call changes. *)
LEMMA InEpochStep ==
  ASSUME NEW P, NEW w, NEW n \in Nat
  PROVE  InEpoch(P, w, n + 1) <=>
           Is(P, n + 1, "lock_all", w) \/ (InEpoch(P, w, n) /\ ~ Is(P, n + 1, "unlock_all", w))
<1>1. \A j \in 1 .. n + 1 : j = n + 1 \/ j \in 1 .. n
  OBVIOUS
<1>2. \A j \in 1 .. n : j \in 1 .. n + 1 /\ n + 1 \in j + 1 .. n + 1
  OBVIOUS
<1>3. \A j \in 1 .. n : \A k \in j + 1 .. n + 1 : k = n + 1 \/ k \in j + 1 .. n
  OBVIOUS
<1>4. \A j \in 1 .. n : \A k \in j + 1 .. n : k \in j + 1 .. n + 1
  OBVIOUS
<1>5. n + 1 \in 1 .. n + 1 /\ (n + 1) + 1 .. n + 1 = {}
  OBVIOUS
<1> QED
  BY <1>1, <1>2, <1>3, <1>4, <1>5 DEF InEpoch

LEMMA SynchronizedStep ==
  ASSUME NEW P, NEW w, NEW n \in Nat
  PROVE  Synchronized(P, w, n + 1) <=>
           Synchronized(P, w, n) \/ (Covers(P, w, n + 1) /\ InEpoch(P, w, n))
<1>1. 1 .. n + 1 = 1 .. n \cup {n + 1} /\ (n + 1) - 1 = n
  OBVIOUS
<1> QED
  BY <1>1 DEF Synchronized

LEMMA SynchronizedStays ==
  ASSUME NEW P, NEW w, NEW j \in Nat, NEW k \in Nat, j <= k, Synchronized(P, w, j)
  PROVE  Synchronized(P, w, k)
<1>1. 1 .. j \subseteq 1 .. k
  OBVIOUS
<1> QED
  BY <1>1 DEF Synchronized

LEMMA ActiveTouched ==
  ASSUME NEW P, NEW w, NEW n \in Nat, Active(P, w, n)
  PROVE  Touched(P, w, n)
<1>1. ASSUME NEW k \in 1 .. n, Synchronized(P, w, k - 1) PROVE Synchronized(P, w, n)
  BY <1>1, SynchronizedStays
<1> QED
  BY <1>1 DEF Active, Touched

LEMMA ActiveStep ==
  ASSUME NEW P, NEW w, NEW n \in Nat
  PROVE  Active(P, w, n + 1) <=> \/ Is(P, n + 1, "lock_all", w)
                                 \/ Active(P, w, n) /\ ~ Is(P, n + 1, "unlock_all", w)
                                 \/ Covers(P, w, n + 1) /\ Synchronized(P, w, n)
<1> DEFINE Restarted(i) ==
             \E k \in 1 .. i : /\ Covers(P, w, k) /\ Synchronized(P, w, k - 1)
                               /\ \A j \in k + 1 .. i : ~ Is(P, j, "unlock_all", w)
<1>1. \A k \in 1 .. n + 1 : k = n + 1 \/ k \in 1 .. n
  OBVIOUS
<1>2. \A k \in 1 .. n : k \in 1 .. n + 1 /\ n + 1 \in k + 1 .. n + 1
  OBVIOUS
<1>3. \A j \in 1 .. n : \A k \in j + 1 .. n + 1 : k = n + 1 \/ k \in j + 1 .. n
  OBVIOUS
<1>4. \A j \in 1 .. n : \A k \in j + 1 .. n : k \in j + 1 .. n + 1
  OBVIOUS
<1>5. n + 1 \in 1 .. n + 1 /\ (n + 1) + 1 .. n + 1 = {} /\ (n + 1) - 1 = n
  OBVIOUS
<1>6. Restarted(n + 1) <=> \/ Covers(P, w, n + 1) /\ Synchronized(P, w, n)
                           \/ Restarted(n) /\ ~ Is(P, n + 1, "unlock_all", w)
  BY <1>1, <1>2, <1>3, <1>4, <1>5
<1>7. \A i : Active(P, w, i) <=> InEpoch(P, w, i) \/ Restarted(i)
  BY DEF Active
<1> HIDE DEF Restarted
<1> QED
  BY <1>6, <1>7, InEpochStep

(* A window is created once, and freed when it exists. *)
LEMMA CreatedOnce ==
  ASSUME NEW P \in Programs, NEW i \in DOMAIN P, NEW j \in DOMAIN P, NEW w,
         Is(P, i, "create", w), Is(P, j, "create", w)
  PROVE  i = j
<1>1. DOMAIN P = 1 .. Len(P) /\ Len(P) \in Nat /\ ProgramOK(P)
  BY ProgramFacts
<1>2. P[i].op = "create" /\ P[i].on = w /\ P[j].op = "create" /\ P[j].on = w
  BY DEF Is
<1>3. \A k \in 1 .. i - 1 : ~ Is(P, k, "create", w)
  BY <1>1, <1>2 DEF ProgramOK
<1>4. \A k \in 1 .. j - 1 : ~ Is(P, k, "create", w)
  BY <1>1, <1>2 DEF ProgramOK
<1> QED
  BY <1>1, <1>3, <1>4

LEMMA FreedAfter ==
  ASSUME NEW P \in Programs, NEW f \in DOMAIN P, NEW w, Is(P, f, "free", w)
  PROVE  \E j \in 1 .. f - 1 : Is(P, j, "create", w)
<1>1. P[f].op = "free" /\ P[f].on = w /\ ProgramOK(P)
  BY ProgramFacts DEF Is
<1>2. Exists(P, w, f - 1)
  BY <1>1 DEF ProgramOK
<1> QED
  BY <1>2 DEF Exists

LEMMA ExistsStep ==
  ASSUME NEW P \in Programs, NEW w, NEW n \in Nat, n < Len(P)
  PROVE  Exists(P, w, n + 1) <=>
           (Exists(P, w, n) \/ Is(P, n + 1, "create", w)) /\ ~ Is(P, n + 1, "free", w)
<1>1. DOMAIN P = 1 .. Len(P) /\ Len(P) \in Nat
  BY ProgramFacts
<1>2. 1 .. n + 1 = 1 .. n \cup {n + 1}
  OBVIOUS
<1>3. ASSUME Is(P, n + 1, "create", w), NEW f \in 1 .. n, Is(P, f, "free", w) PROVE FALSE
  <2>0. f \in DOMAIN P /\ n + 1 \in DOMAIN P
    BY <1>1
  <2>1. PICK j \in 1 .. f - 1 : Is(P, j, "create", w)
    BY <1>3, <2>0, FreedAfter
  <2>2. j \in DOMAIN P /\ j # n + 1
    BY <1>1
  <2> QED
    BY <1>3, <2>0, <2>1, <2>2, CreatedOnce
<1> QED
  BY <1>2, <1>3 DEF Exists

(* A window that does not exist any more never will. *)
LEMMA ExistsBetween ==
  ASSUME NEW P \in Programs, NEW w, NEW i \in Nat, NEW j \in Nat, NEW k \in Nat,
         i <= j, j <= k, \E l \in 1 .. i : Is(P, l, "create", w), Exists(P, w, k)
  PROVE  Exists(P, w, j)
<1>1. 1 .. i \subseteq 1 .. j /\ 1 .. j \subseteq 1 .. k
  OBVIOUS
<1> QED
  BY <1>1 DEF Exists

(* Epochs are counted. *)
LEMMA EpochFacts ==
  ASSUME NEW P \in Programs, NEW w, NEW n \in Nat
  PROVE  /\ Epoch(P, w, n) \in Nat
         /\ Epoch(P, w, n + 1) = Epoch(P, w, n) + IF n + 1 \in Starts(P, w) THEN 1 ELSE 0
         /\ \A k \in Nat : n <= k => Epoch(P, w, n) <= Epoch(P, w, k)
<1>1. /\ Cardinality(1 .. n \cap Starts(P, w)) \in Nat
      /\ Cardinality(1 .. n + 1 \cap Starts(P, w)) =
           Cardinality(1 .. n \cap Starts(P, w)) + IF n + 1 \in Starts(P, w) THEN 1 ELSE 0
  BY CountStep
<1>2. \A k \in Nat : n <= k =>
        Cardinality(1 .. n \cap Starts(P, w)) <= Cardinality(1 .. k \cap Starts(P, w))
  BY CountMonotone
<1> QED
  BY <1>1, <1>2 DEF Epoch

(* An epoch that starts after i calls is not among those of the first i. *)
LEMMA EpochLater ==
  ASSUME NEW P \in Programs, NEW w, NEW i \in Nat, NEW k \in Nat, NEW j \in Nat,
         i < k, k <= j, k \in Starts(P, w)
  PROVE  Epoch(P, w, i) < Epoch(P, w, j)
<1>1. k - 1 \in Nat /\ (k - 1) + 1 = k /\ i <= k - 1
  OBVIOUS
<1>2. Epoch(P, w, k) = Epoch(P, w, k - 1) + 1
  BY <1>1, EpochFacts
<1>3. Epoch(P, w, i) <= Epoch(P, w, k - 1) /\ Epoch(P, w, k) <= Epoch(P, w, j)
  BY <1>1, EpochFacts
<1>4. Epoch(P, w, i) \in Nat /\ Epoch(P, w, k - 1) \in Nat /\ Epoch(P, w, k) \in Nat /\ Epoch(P, w, j) \in Nat
  BY <1>1, EpochFacts
<1> QED
  BY <1>2, <1>3, <1>4

(* A window in an epoch is in one that a call started. *)
LEMMA ActiveStarted ==
  ASSUME NEW P \in Programs, NEW w, NEW j \in Nat, j <= Len(P), Active(P, w, j), Exists(P, w, j)
  PROVE  \E k \in 1 .. j : /\ k \in Starts(P, w)
                           /\ \A l \in k + 1 .. j : ~ Is(P, l, "unlock_all", w)
<1>1. DOMAIN P = 1 .. Len(P) /\ Len(P) \in Nat /\ ProgramOK(P)
  BY ProgramFacts
<1>2. CASE InEpoch(P, w, j)
  <2>1. PICK k \in 1 .. j : Is(P, k, "lock_all", w) /\ \A l \in k + 1 .. j : ~ Is(P, l, "unlock_all", w)
    BY <1>2 DEF InEpoch
  <2>2. k \in Starts(P, w)
    BY <1>1, <2>1 DEF Starts
  <2> QED
    BY <2>1, <2>2
<1>3. CASE ~ InEpoch(P, w, j)
  <2>1. PICK k \in 1 .. j : /\ Covers(P, w, k) /\ Synchronized(P, w, k - 1)
                            /\ \A l \in k + 1 .. j : ~ Is(P, l, "unlock_all", w)
    BY <1>3 DEF Active
  <2>2. PICK b \in 1 .. k - 1 : InEpoch(P, w, b - 1)
    BY <2>1 DEF Synchronized
  <2>3. PICK l \in 1 .. b - 1 : Is(P, l, "lock_all", w)
    BY <2>2 DEF InEpoch
  <2>4. l \in DOMAIN P /\ P[l].op = "lock_all" /\ P[l].on = w
    BY <1>1, <2>3 DEF Is
  <2>5. Exists(P, w, l - 1)
    BY <1>1, <2>4 DEF ProgramOK
  <2>6. \E c \in 1 .. l - 1 : Is(P, c, "create", w)
    BY <2>5 DEF Exists
  <2>7. Exists(P, w, k)
    BY <2>6, ExistsBetween
  <2>8. k \in Starts(P, w)
    BY <1>1, <2>1, <2>7 DEF Starts, Touched
  <2> QED
    BY <2>1, <2>8
<1> QED
  BY <1>2, <1>3

(* After an epoch has ended, the next one has another number. *)
LEMMA EndedBefore ==
  ASSUME NEW P \in Programs, NEW w, NEW i \in DOMAIN P, NEW j \in Nat, i <= j, j <= Len(P),
         Ends(P, w, i), Active(P, w, j), Exists(P, w, j)
  PROVE  Epoch(P, w, i - 1) < Epoch(P, w, j)
<1>1. DOMAIN P = 1 .. Len(P) /\ Len(P) \in Nat
  BY ProgramFacts
<1>2. i \in Nat /\ i - 1 \in Nat /\ i - 1 < i
  BY <1>1
<1>3. CASE Is(P, i, "unlock_all", w)
  <2>1. PICK k \in 1 .. j : k \in Starts(P, w) /\ \A l \in k + 1 .. j : ~ Is(P, l, "unlock_all", w)
    BY ActiveStarted
  <2>2. i \notin k + 1 .. j
    BY <1>3, <2>1
  <2>3. i - 1 < k
    BY <1>2, <2>1, <2>2
  <2> QED
    BY <1>2, <2>1, <2>3, EpochLater
<1>4. CASE Covers(P, w, i) /\ Exists(P, w, i) /\ Active(P, w, i - 1)
  <2>1. i \in Starts(P, w)
    BY <1>2, <1>4, ActiveTouched DEF Starts
  <2> QED
    BY <1>2, <2>1, EpochLater
<1> QED
  BY <1>3, <1>4 DEF Ends

LEMMA ActiveEpoch ==
  ASSUME NEW P \in Programs, NEW w, NEW j \in Nat, j <= Len(P), Active(P, w, j), Exists(P, w, j)
  PROVE  1 <= Epoch(P, w, j)
<1>1. PICK k \in 1 .. j : k \in Starts(P, w)
  BY ActiveStarted
<1>2. Epoch(P, w, 0) < Epoch(P, w, j)
  BY <1>1, EpochLater
<1> QED
  BY <1>2, EpochFacts

(* A window has no epochs after it is freed. *)
LEMMA FreedEpoch ==
  ASSUME NEW P \in Programs, NEW w, NEW f \in DOMAIN P, Is(P, f, "free", w),
         NEW a \in Nat, NEW b \in Nat, f <= a, a <= b
  PROVE  Epoch(P, w, a) = Epoch(P, w, b)
<1>1. DOMAIN P = 1 .. Len(P) /\ Len(P) \in Nat /\ ProgramOK(P)
  BY ProgramFacts
<1>2. ASSUME NEW k \in Starts(P, w) PROVE k <= f
  <2>1. k \in DOMAIN P /\ (Is(P, k, "lock_all", w) \/ Exists(P, w, k))
    BY DEF Starts
  <2>2. Is(P, k, "lock_all", w) => Exists(P, w, k - 1)
    BY <1>1, <2>1 DEF ProgramOK, Is
  <2>3. \A n : Exists(P, w, n) => f \notin 1 .. n
    BY DEF Exists
  <2> QED
    BY <1>1, <2>1, <2>2, <2>3
<1>3. 1 .. a \cap Starts(P, w) = 1 .. b \cap Starts(P, w)
  BY <1>1, <1>2 DEF Starts
<1> QED
  BY <1>3 DEF Epoch

-----------------------------------------------------------------------------
(* What the actions do.  An action of p leaves the others alone. *)
Frame(p) ==
  /\ ~ crashed /\ prog' = prog /\ handle' = handle
  /\ \A q \in Procs : q # p =>
       /\ pos'[q] = pos[q] /\ pc'[q] = pc[q] /\ todo'[q] = todo[q]
       /\ States'[q] = States[q] /\ win_mpi_tag_id'[q] = win_mpi_tag_id[q]
       /\ rounds'[q] = rounds[q] /\ entered'[q] = entered[q]

LEMMA MemberFacts ==
  /\ \A c \in Comms : Members[c] \subseteq Procs
  /\ \A w \in Wins : CommOf[w] \in Comms /\ Members[CommOf[w]] \subseteq Procs
<1>1. \A c \in Comms : Members[c] \subseteq Procs
  BY DEF Procs, Comms, Range
<1>2. \A w \in Wins : CommOf[w] \in Comms
  BY WindowsAssumption
<1> QED
  BY <1>1, <1>2

LEMMA HandleFacts ==
  ASSUME TypeOK, NEW p \in Procs
  PROVE  /\ \A w \in Wins : handle[p][w] \in Nat
         /\ \A v, w \in Wins : handle[p][v] = handle[p][w] => v = w
<1>1. handle \in [Procs -> [Wins -> Nat]] /\ IsInjective(handle[p])
  BY WindowsAssumption DEF TypeOK
<1>2. DOMAIN handle[p] = Wins
  BY <1>1
<1> QED
  BY <1>1, <1>2 DEF IsInjective

LEMMA StateFacts ==
  ASSUME TypeOK, NEW p \in Procs
  PROVE  /\ DOMAIN States[p] \subseteq Wins
         /\ \A w \in DOMAIN States[p] :
              LET S == States[p][w] IN
              /\ S \in State
              /\ S.mpi_tag \in Int /\ S.count_epoch \in Nat /\ S.active_epoch \in 0 .. 1
              /\ S.from_sync \in 0 .. 1 /\ S.thread \in {"off", "test", "exit"}
              /\ S.thread_end \in 0 .. 1 /\ S.count \in Nat /\ S.value \in Nat
              /\ S.array \in [Procs -> Nat] /\ S.landed \subseteq Message
<1>1. DOMAIN States[p] \subseteq Wins /\ \A w \in DOMAIN States[p] : States[p][w] \in State
  BY DEF TypeOK, Range
<1>2. ASSUME NEW S \in State
      PROVE  /\ S.mpi_tag \in Int /\ S.count_epoch \in Nat /\ S.active_epoch \in 0 .. 1
             /\ S.from_sync \in 0 .. 1 /\ S.thread \in {"off", "test", "exit"}
             /\ S.thread_end \in 0 .. 1 /\ S.count \in Nat /\ S.value \in Nat
             /\ S.array \in [Procs -> Nat] /\ S.landed \subseteq Message
  BY DEF State
<1> QED
  BY <1>1, <1>2

LEMMA SkipCallEffect ==
  ASSUME TypeOK, NEW p \in Procs, SkipCall(p)
  PROVE  /\ Frame(p) /\ pc[p] = "user" /\ pos[p] < Len(prog) /\ ~ Concerns(prog[pos[p] + 1], p)
         /\ pos'[p] = pos[p] + 1
         /\ UNCHANGED <<pc, todo, States, win_mpi_tag_id, net, reduced, rounds, entered,
                        crashed, sent, given, agreed>>
BY DEF SkipCall, Frame, TypeOK

LEMMA WinCreateEffect ==
  ASSUME TypeOK, NEW p \in Procs, WinCreate(p)
  PROVE  LET w  == Arg(p)
             id == get_tag_range_id(win_mpi_tag_id[p])
         IN  /\ Frame(p) /\ Calls(p, "create") /\ w \in Wins
             /\ pos'[p] = pos[p] + 1 /\ pc'[p] = "user" /\ todo' = todo
             /\ win_mpi_tag_id'[p] = MarkRange(win_mpi_tag_id[p], id, 1)
             /\ DOMAIN States'[p] = DOMAIN States[p] \cup {w}
             /\ \A v \in DOMAIN States[p] : v # w => States'[p][v] = States[p][v]
             /\ States'[p][w] =
                  [mpi_tag |-> MaxEpoch * id, count_epoch |-> 0, active_epoch |-> 0,
                   from_sync |-> 0, thread |-> "off", thread_end |-> 0, count |-> 0,
                   value |-> 0, array |-> [q \in Procs |-> 0], landed |-> {}]
             /\ given'[w] = given[w] \cup {MaxEpoch * id}
             /\ \A v \in Wins : v # w => given'[v] = given[v]
             /\ agreed' = (agreed /\ id >= 0 /\ given[w] \subseteq {MaxEpoch * id})
             /\ UNCHANGED <<net, reduced, rounds, entered, crashed, sent>>
<1> DEFINE w  == Arg(p)
           id == get_tag_range_id(win_mpi_tag_id[p])
           S  == [mpi_tag |-> MaxEpoch * id, count_epoch |-> 0, active_epoch |-> 0,
                  from_sync |-> 0, thread |-> "off", thread_end |-> 0, count |-> 0,
                  value |-> 0, array |-> [q \in Procs |-> 0], landed |-> {}]
<1>1. S.mpi_tag = MaxEpoch * id
  OBVIOUS
<1>2. /\ Calls(p, "create") /\ Return(p)
      /\ win_mpi_tag_id' = [win_mpi_tag_id EXCEPT ![p] = MarkRange(win_mpi_tag_id[p], id, 1)]
      /\ States' = [States EXCEPT ![p] = [v \in DOMAIN States[p] \cup {w} |->
                                            IF v = w THEN S ELSE States[p][v]]]
      /\ given' = [given EXCEPT ![w] = given[w] \cup {S.mpi_tag}]
      /\ agreed' = (agreed /\ id >= 0 /\ given[w] \subseteq {S.mpi_tag})
      /\ UNCHANGED <<prog, handle, todo, net, reduced, rounds, entered, crashed, sent>>
  BY DEF WinCreate
<1>3. w \in Wins
  <2>1. prog \in Programs /\ pos[p] \in Nat /\ pos[p] < Len(prog) /\ prog[pos[p] + 1].op = "create"
    BY <1>2 DEF Calls, TypeOK
  <2>2. pos[p] + 1 \in DOMAIN prog
    BY <2>1, ProgramFacts
  <2> QED
    BY <2>1, <2>2, ProgramFacts DEF Arg
<1>4. Frame(p) /\ pos'[p] = pos[p] + 1 /\ pc'[p] = "user"
  BY <1>2 DEF Frame, Calls, Return, TypeOK
<1> HIDE DEF S, w, id
<1>5. States'[p] = [v \in DOMAIN States[p] \cup {w} |-> IF v = w THEN S ELSE States[p][v]]
  BY <1>2 DEF TypeOK
<1>6. given'[w] = given[w] \cup {S.mpi_tag} /\ \A v \in Wins : v # w => given'[v] = given[v]
  BY <1>2, <1>3 DEF TypeOK
<1>7. win_mpi_tag_id'[p] = MarkRange(win_mpi_tag_id[p], id, 1)
  BY <1>2 DEF TypeOK
<1>8. /\ DOMAIN States'[p] = DOMAIN States[p] \cup {w}
      /\ \A v \in DOMAIN States[p] : v # w => States'[p][v] = States[p][v]
      /\ States'[p][w] = S
  BY <1>5
<1> QED
  BY <1>1, <1>2, <1>3, <1>4, <1>6, <1>7, <1>8 DEF S, w, id

LEMMA WinFreeEffect ==
  ASSUME TypeOK, NEW p \in Procs, WinFree(p)
  PROVE  LET w == Arg(p) IN
         /\ Frame(p) /\ Calls(p, "free")
         /\ pc'[p] = "sync" /\ pos' = pos /\ todo' = todo
         /\ win_mpi_tag_id'[p] = MarkRange(win_mpi_tag_id[p], RangeOf(States[p][w].mpi_tag), 0)
         /\ crashed' = (States[p][w].thread # "off")
         /\ DOMAIN States'[p] = DOMAIN States[p] \ {w}
         /\ \A v \in DOMAIN States'[p] : States'[p][v] = States[p][v]
         /\ entered' = [entered EXCEPT ![p][CommOfCall(prog[pos[p] + 1])] = @ + 1]
         /\ UNCHANGED <<net, reduced, rounds, sent, given, agreed>>
<1> DEFINE w == Arg(p)
<1>2. /\ Calls(p, "free") /\ EnterSync(p)
      /\ win_mpi_tag_id' = [win_mpi_tag_id EXCEPT ![p] =
                              MarkRange(win_mpi_tag_id[p], RangeOf(States[p][w].mpi_tag), 0)]
      /\ crashed' = (States[p][w].thread # "off")
      /\ States' = [States EXCEPT ![p] = Restrict(States[p], DOMAIN States[p] \ {w})]
      /\ UNCHANGED <<prog, handle, pos, todo, net, reduced, rounds, sent, given, agreed>>
  BY DEF WinFree
<1>4. Frame(p) /\ pc'[p] = "sync"
  BY <1>2 DEF Frame, Calls, EnterSync, TypeOK
<1>e. entered' = [entered EXCEPT ![p][CommOfCall(prog[pos[p] + 1])] = @ + 1]
  BY <1>2 DEF EnterSync
<1> HIDE DEF w
<1>5. States'[p] = Restrict(States[p], DOMAIN States[p] \ {w})
  BY <1>2 DEF TypeOK
<1>6. /\ DOMAIN States'[p] = DOMAIN States[p] \ {w}
      /\ \A v \in DOMAIN States'[p] : States'[p][v] = States[p][v]
  BY <1>5 DEF Restrict
<1>7. win_mpi_tag_id'[p] = MarkRange(win_mpi_tag_id[p], RangeOf(States[p][w].mpi_tag), 0)
  BY <1>2 DEF TypeOK
<1> QED
  BY <1>2, <1>4, <1>e, <1>6, <1>7 DEF w

(* The windows W of p start an epoch. *)
LEMMA StartEffect ==
  ASSUME TypeOK, NEW p \in Procs, NEW W, StartEpochs(p, W)
  PROVE  /\ DOMAIN States' = Procs /\ \A q \in Procs : q # p => States'[q] = States[q]
         /\ DOMAIN States'[p] = DOMAIN States[p]
         /\ \A w \in DOMAIN States[p] : w \in W => States'[p][w] = Started(States[p][w])
         /\ \A w \in DOMAIN States[p] : w \notin W => States'[p][w] = States[p][w]
<1> QED
  BY DEF StartEpochs, TypeOK

LEMMA WinLockAllEffect ==
  ASSUME TypeOK, NEW p \in Procs, WinLockAll(p)
  PROVE  /\ Frame(p) /\ Calls(p, "lock_all") /\ StartEpochs(p, {Arg(p)})
         /\ pos'[p] = pos[p] + 1 /\ pc'[p] = "user"
         /\ UNCHANGED <<todo, win_mpi_tag_id, net, reduced, rounds, entered, sent, given>>
<1>1. /\ Calls(p, "lock_all") /\ StartEpochs(p, {Arg(p)}) /\ Return(p)
      /\ UNCHANGED <<prog, handle, todo, win_mpi_tag_id, net, reduced, rounds, entered, sent, given>>
  BY DEF WinLockAll
<1>2. \A q \in Procs : q # p => States'[q] = States[q]
  BY <1>1, StartEffect
<1> QED
  BY <1>1, <1>2 DEF Frame, Calls, Return, TypeOK

LEMMA WinUnlockAllEffect ==
  ASSUME TypeOK, NEW p \in Procs, WinUnlockAll(p)
  PROVE  /\ Frame(p) /\ Calls(p, "unlock_all")
         /\ todo'[p] = {Arg(p)} /\ pc'[p] = "sweep"
         /\ UNCHANGED <<pos, win_mpi_tag_id, States, net, reduced, rounds, entered, crashed,
                        sent, given, agreed>>
BY DEF WinUnlockAll, Calls, Frame, TypeOK

LEMMA BarrierEffect ==
  ASSUME TypeOK, NEW p \in Procs, Barrier(p)
  PROVE  /\ Frame(p) /\ Calls(p, "barrier")
         /\ todo'[p] = Sweep(p) /\ pc'[p] = "sweep"
         /\ UNCHANGED <<pos, win_mpi_tag_id, States, net, reduced, rounds, entered, crashed,
                        sent, given, agreed>>
BY DEF Barrier, Calls, Frame, TypeOK

LEMMA ReduceEffect ==
  ASSUME TypeOK, NEW p \in Procs, Reduce(p)
  PROVE  /\ Frame(p) /\ pc[p] = "sweep" /\ pc'[p] = "reduce"
         /\ \E w \in todo[p] :
              /\ w \in Wins /\ IsNext(p, w)
              /\ Contribute(<<CommOf[w], rounds[p][CommOf[w]]>>, p, States[p][w].array)
         /\ UNCHANGED <<pos, todo, win_mpi_tag_id, States, net, rounds, entered, crashed,
                        sent, given, agreed>>
<1>1. todo[p] \subseteq Wins
  BY DEF TypeOK
<1> QED
  BY <1>1 DEF Reduce, Frame, TypeOK

LEMMA ReduceReturnsEffect ==
  ASSUME TypeOK, NEW p \in Procs, ReduceReturns(p), todo[p] \subseteq DOMAIN States[p]
  PROVE  /\ Frame(p) /\ pc[p] = "reduce" /\ pc'[p] = "join"
         /\ \E w \in todo[p] :
              LET c == CommOf[w]
                  x == reduced[<<c, rounds[p][c]>>]
              IN  /\ w \in Wins /\ IsNext(p, w) /\ x.from = Members[c]
                  /\ DOMAIN States'[p] = DOMAIN States[p]
                  /\ States'[p][w] = [States[p][w] EXCEPT !.value = x.sum[p], !.thread_end = 1]
                  /\ \A v \in DOMAIN States[p] : v # w => States'[p][v] = States[p][v]
                  /\ rounds'[p][c] = rounds[p][c] + 1
                  /\ \A d \in Comms : d # c => rounds'[p][d] = rounds[p][d]
         /\ DOMAIN States' = Procs /\ rounds' \in [Procs -> [Comms -> Nat]]
         /\ UNCHANGED <<pos, todo, win_mpi_tag_id, net, reduced, entered, crashed, sent, given, agreed>>
<1>1. PICK w \in todo[p] :
        LET c == CommOf[w]
            x == reduced[<<c, rounds[p][c]>>]
        IN  /\ IsNext(p, w)
            /\ x.from = Members[c]
            /\ States' = [States EXCEPT ![p][w] = [States[p][w] EXCEPT !.value = x.sum[p], !.thread_end = 1]]
            /\ rounds' = [rounds EXCEPT ![p][c] = @ + 1]
  BY DEF ReduceReturns
<1>2. w \in Wins /\ w \in DOMAIN States[p] /\ CommOf[w] \in Comms /\ DOMAIN States = Procs
  BY MemberFacts DEF TypeOK
<1> DEFINE T == [States[p][w] EXCEPT !.value = reduced[<<CommOf[w], rounds[p][CommOf[w]]>>].sum[p],
                                     !.thread_end = 1]
<1>3. States' = [States EXCEPT ![p][w] = T]
  BY <1>1
<1>4. rounds' = [rounds EXCEPT ![p][CommOf[w]] = @ + 1] /\ rounds \in [Procs -> [Comms -> Nat]]
  BY <1>1 DEF TypeOK
<1>5. /\ rounds'[p][CommOf[w]] = rounds[p][CommOf[w]] + 1
      /\ \A d \in Comms : d # CommOf[w] => rounds'[p][d] = rounds[p][d]
      /\ \A q \in Procs : q # p => rounds'[q] = rounds[q]
  BY <1>2, <1>4
<1>5a. rounds' \in [Procs -> [Comms -> Nat]]
  <2>1. rounds[p] \in [Comms -> Nat]
    BY <1>4
  <2>2. [rounds[p] EXCEPT ![CommOf[w]] = @ + 1] \in [Comms -> Nat]
    BY <1>2, <2>1
  <2> QED
    BY <1>4, <2>2
<1> HIDE DEF T
<1>6. /\ DOMAIN States' = Procs /\ DOMAIN States'[p] = DOMAIN States[p] /\ States'[p][w] = T
      /\ \A v \in DOMAIN States[p] : v # w => States'[p][v] = States[p][v]
      /\ \A q \in Procs : q # p => States'[q] = States[q]
  BY <1>2, <1>3
<1>7. /\ ~ crashed /\ pc[p] = "reduce" /\ pc' = [pc EXCEPT ![p] = "join"]
      /\ UNCHANGED <<prog, handle, pos, todo, win_mpi_tag_id, net, reduced, entered, crashed, sent, given, agreed>>
  BY DEF ReduceReturns
<1>8. Frame(p) /\ pc'[p] = "join"
  BY <1>5, <1>6, <1>7 DEF Frame, TypeOK
<1> QED
  BY <1>1, <1>2, <1>5, <1>5a, <1>6, <1>7, <1>8 DEF T

(* The state of a window after its thread was joined. *)
Joined(S) ==
  [S EXCEPT !.thread = IF @ = "exit" THEN "off" ELSE @, !.count = 0, !.active_epoch = 0]

LEMMA JoinEffect ==
  ASSUME TypeOK, NEW p \in Procs, Join(p), todo[p] \subseteq DOMAIN States[p]
  PROVE  LET inBarrier == prog[pos[p] + 1].op = "barrier" IN
         /\ Frame(p) /\ pc[p] = "join"
         /\ inBarrier => pc'[p] = "sweep" /\ pos'[p] = pos[p]
         /\ ~ inBarrier => pc'[p] = "user" /\ pos'[p] = pos[p] + 1
         /\ \E w \in todo[p] :
              /\ w \in Wins /\ IsNext(p, w) /\ Joinable(States[p][w])
              /\ crashed' = (States[p][w].thread = "off")
              /\ DOMAIN States'[p] = DOMAIN States[p]
              /\ States'[p][w] = IF inBarrier THEN Synced(Joined(States[p][w]))
                                 ELSE Joined(States[p][w])
              /\ \A v \in DOMAIN States[p] : v # w => States'[p][v] = States[p][v]
              /\ todo'[p] = todo[p] \ {w}
         /\ DOMAIN States' = Procs /\ todo' \in [Procs -> SUBSET Wins]
         /\ UNCHANGED <<win_mpi_tag_id, net, reduced, rounds, entered, sent, given, agreed>>
<1> DEFINE inBarrier == prog[pos[p] + 1].op = "barrier"
<1>1. PICK w \in todo[p] :
        /\ IsNext(p, w) /\ Joinable(States[p][w])
        /\ crashed' = (States[p][w].thread = "off")
        /\ States' = [States EXCEPT ![p][w] = IF inBarrier THEN Synced(Joined(States[p][w]))
                                              ELSE Joined(States[p][w])]
        /\ todo' = [todo EXCEPT ![p] = todo[p] \ {w}]
  BY DEF Join, Joined
<1>2. w \in Wins /\ w \in DOMAIN States[p] /\ DOMAIN States = Procs
  BY DEF TypeOK
<1> DEFINE T == IF inBarrier THEN Synced(Joined(States[p][w])) ELSE Joined(States[p][w])
<1>3. States' = [States EXCEPT ![p][w] = T]
  BY <1>1
<1>4. /\ ~ crashed /\ pc[p] = "join"
      /\ inBarrier => pc' = [pc EXCEPT ![p] = "sweep"] /\ UNCHANGED pos
      /\ ~ inBarrier => Return(p)
      /\ UNCHANGED <<prog, handle, win_mpi_tag_id, net, reduced, rounds, entered, sent, given, agreed>>
  BY DEF Join
<1> HIDE DEF T, inBarrier
<1>6. /\ DOMAIN States' = Procs /\ DOMAIN States'[p] = DOMAIN States[p] /\ States'[p][w] = T
      /\ \A v \in DOMAIN States[p] : v # w => States'[p][v] = States[p][v]
      /\ \A q \in Procs : q # p => States'[q] = States[q]
  BY <1>2, <1>3
<1>7. /\ inBarrier => pc'[p] = "sweep" /\ pos'[p] = pos[p]
      /\ ~ inBarrier => pc'[p] = "user" /\ pos'[p] = pos[p] + 1
      /\ \A q \in Procs : q # p => pc'[q] = pc[q] /\ pos'[q] = pos[q]
  BY <1>4 DEF Return, TypeOK
<1>8. todo'[p] = todo[p] \ {w} /\ (\A q \in Procs : q # p => todo'[q] = todo[q]) /\ todo' \in [Procs -> SUBSET Wins]
  BY <1>1 DEF TypeOK
<1>9. Frame(p)
  BY <1>4, <1>6, <1>7, <1>8 DEF Frame
<1> QED
  BY <1>1, <1>2, <1>4, <1>6, <1>7, <1>8, <1>9 DEF T, inBarrier

LEMMA RestartEffect ==
  ASSUME TypeOK, NEW p \in Procs, Restart(p)
  PROVE  /\ Frame(p) /\ pc[p] = "sweep" /\ todo[p] = {} /\ pc'[p] = "sync"
         /\ StartEpochs(p, {w \in DOMAIN States[p] : /\ States[p][w].active_epoch = 0
                                                     /\ States[p][w].from_sync = 1})
         /\ entered' = [entered EXCEPT ![p][CommOfCall(prog[pos[p] + 1])] = @ + 1]
         /\ UNCHANGED <<pos, todo, win_mpi_tag_id, net, reduced, rounds, sent, given>>
<1> DEFINE W == {w \in DOMAIN States[p] : /\ States[p][w].active_epoch = 0
                                          /\ States[p][w].from_sync = 1}
<1>1. /\ ~ crashed /\ pc[p] = "sweep" /\ todo[p] = {} /\ StartEpochs(p, W) /\ EnterSync(p)
      /\ UNCHANGED <<prog, handle, pos, todo, win_mpi_tag_id, net, reduced, rounds, sent, given>>
  BY DEF Restart
<1> HIDE DEF W
<1>2. \A q \in Procs : q # p => States'[q] = States[q]
  BY <1>1, StartEffect
<1>3. pc' = [pc EXCEPT ![p] = "sync"] /\ entered' = [entered EXCEPT ![p][CommOfCall(prog[pos[p] + 1])] = @ + 1]
  BY <1>1 DEF EnterSync
<1>4. Frame(p) /\ pc'[p] = "sync"
  BY <1>1, <1>2, <1>3 DEF Frame, TypeOK
<1> QED
  BY <1>1, <1>3, <1>4 DEF W

LEMMA LeaveSyncEffect ==
  ASSUME TypeOK, NEW p \in Procs, LeaveSync(p)
  PROVE  LET c == CommOfCall(prog[pos[p] + 1]) IN
         /\ Frame(p) /\ pc[p] = "sync" /\ pc'[p] = "user" /\ pos'[p] = pos[p] + 1
         /\ \A q \in Members[c] : entered[q][c] >= entered[p][c]
         /\ UNCHANGED <<todo, win_mpi_tag_id, States, net, reduced, rounds, entered, crashed,
                        sent, given, agreed>>
BY DEF LeaveSync, Return, Frame, TypeOK

LEMMA CommunicateEffect ==
  ASSUME TypeOK, NEW p \in Procs, NEW w \in Wins, NEW q \in Procs, Communicate(p, w, q)
  PROVE  LET S == States[p][w]
             m == [src |-> p, dst |-> q, win |-> w, epoch |-> S.count_epoch,
                   n |-> Cardinality(sent), tag |-> S.mpi_tag + S.count_epoch]
         IN  /\ Frame(p) /\ pc[p] = "user" /\ w \in DOMAIN States[p] /\ S.active_epoch = 1
             /\ q \in Members[CommOf[w]]
             /\ net' = net \cup {m} /\ sent' = sent \cup {m}
             /\ DOMAIN States' = Procs /\ DOMAIN States'[p] = DOMAIN States[p]
             /\ States'[p][w] = [S EXCEPT !.array = [S.array EXCEPT ![q] = @ + 1]]
             /\ \A v \in DOMAIN States[p] : v # w => States'[p][v] = States[p][v]
             /\ UNCHANGED <<pos, pc, todo, win_mpi_tag_id, reduced, rounds, entered, crashed,
                            given, agreed>>
<1> DEFINE S == States[p][w]
           m == [src |-> p, dst |-> q, win |-> w, epoch |-> S.count_epoch,
                 n |-> Cardinality(sent), tag |-> S.mpi_tag + S.count_epoch]
           T == [S EXCEPT !.array = [S.array EXCEPT ![q] = @ + 1]]
<1>1. /\ ~ crashed /\ pc[p] = "user" /\ w \in DOMAIN States[p] /\ S.active_epoch = 1
      /\ q \in Members[CommOf[w]] /\ net' = net \cup {m} /\ sent' = sent \cup {m}
      /\ States' = [States EXCEPT ![p][w].array[q] = @ + 1]
      /\ UNCHANGED <<prog, handle, pos, pc, todo, win_mpi_tag_id, reduced, rounds, entered, crashed,
                     given, agreed>>
  BY DEF Communicate
<1>2. States' = [States EXCEPT ![p] = [States[p] EXCEPT ![w] = T]]
  BY <1>1
<1> HIDE DEF T, m, S
<1>3. /\ DOMAIN States' = Procs /\ DOMAIN States'[p] = DOMAIN States[p] /\ States'[p][w] = T
      /\ \A v \in DOMAIN States[p] : v # w => States'[p][v] = States[p][v]
      /\ \A r \in Procs : r # p => States'[r] = States[r]
  BY <1>1, <1>2 DEF TypeOK
<1>4. Frame(p)
  BY <1>1, <1>3 DEF Frame
<1> QED
  BY <1>1, <1>3, <1>4 DEF T, m, S

LEMMA ReceiveEffect ==
  ASSUME TypeOK, NEW p \in Procs, NEW w \in DOMAIN States[p], Receive(p, w)
  PROVE  LET S == States[p][w] IN
         /\ Frame(p) /\ S.thread = "test"
         /\ \E m \in net :
              /\ m.dst = p /\ CommOf[m.win] = CommOf[w] /\ m.tag = S.mpi_tag + S.count_epoch
              /\ net' = net \ {m}
              /\ States'[p][w] = [S EXCEPT !.count = @ + 1, !.landed = @ \cup {m}]
         /\ DOMAIN States' = Procs /\ DOMAIN States'[p] = DOMAIN States[p]
         /\ \A v \in DOMAIN States[p] : v # w => States'[p][v] = States[p][v]
         /\ UNCHANGED <<pos, pc, todo, win_mpi_tag_id, reduced, rounds, entered, crashed,
                        sent, given, agreed>>
<1> DEFINE S == States[p][w]
<1>1. PICK m \in net :
        /\ m.dst = p /\ CommOf[m.win] = CommOf[w] /\ m.tag = S.mpi_tag + S.count_epoch
        /\ net' = net \ {m}
        /\ States' = [States EXCEPT ![p][w] = [S EXCEPT !.count = @ + 1, !.landed = @ \cup {m}]]
  BY DEF Receive
<1>2. /\ ~ crashed /\ S.thread = "test"
      /\ UNCHANGED <<prog, handle, pos, pc, todo, win_mpi_tag_id, reduced, rounds, entered, crashed,
                     sent, given, agreed>>
  BY DEF Receive
<1> DEFINE T == [S EXCEPT !.count = @ + 1, !.landed = @ \cup {m}]
<1>3. States' = [States EXCEPT ![p][w] = T]
  BY <1>1
<1> HIDE DEF T, S
<1>4. /\ DOMAIN States' = Procs /\ DOMAIN States'[p] = DOMAIN States[p] /\ States'[p][w] = T
      /\ \A v \in DOMAIN States[p] : v # w => States'[p][v] = States[p][v]
      /\ \A r \in Procs : r # p => States'[r] = States[r]
  BY <1>3 DEF TypeOK
<1>5. Frame(p)
  BY <1>2, <1>4 DEF Frame
<1> QED
  BY <1>1, <1>2, <1>4, <1>5 DEF T, S

LEMMA ExitThreadEffect ==
  ASSUME TypeOK, NEW p \in Procs, NEW w \in DOMAIN States[p], ExitThread(p, w)
  PROVE  LET S == States[p][w] IN
         /\ Frame(p) /\ S.thread = "test" /\ S.thread_end = 1 /\ S.count = S.value
         /\ DOMAIN States' = Procs /\ DOMAIN States'[p] = DOMAIN States[p]
         /\ States'[p][w] = [S EXCEPT !.thread = "exit", !.count = 0]
         /\ \A v \in DOMAIN States[p] : v # w => States'[p][v] = States[p][v]
         /\ UNCHANGED <<pos, pc, todo, win_mpi_tag_id, net, reduced, rounds, entered, crashed,
                        sent, given, agreed>>
<1> DEFINE S == States[p][w]
           T == [S EXCEPT !.thread = "exit", !.count = 0]
<1>1. /\ ~ crashed /\ S.thread = "test" /\ S.thread_end = 1 /\ S.count = S.value
      /\ States' = [States EXCEPT ![p][w] = T]
      /\ UNCHANGED <<prog, handle, pos, pc, todo, win_mpi_tag_id, net, reduced, rounds, entered, crashed,
                     sent, given, agreed>>
  BY DEF ExitThread, AllReceived
<1> HIDE DEF T, S
<1>2. /\ DOMAIN States' = Procs /\ DOMAIN States'[p] = DOMAIN States[p] /\ States'[p][w] = T
      /\ \A v \in DOMAIN States[p] : v # w => States'[p][v] = States[p][v]
      /\ \A r \in Procs : r # p => States'[r] = States[r]
  BY <1>1 DEF TypeOK
<1>3. Frame(p)
  BY <1>1, <1>2 DEF Frame
<1> QED
  BY <1>1, <1>2, <1>3 DEF T, S

-----------------------------------------------------------------------------
(* Types. *)
StatesOK ==
  /\ DOMAIN States = Procs
  /\ \A p \in Procs : DOMAIN States[p] \subseteq Wins /\ Range(States[p]) \subseteq State

LEMMA StatesStep ==
  ASSUME TypeOK, NEW p \in Procs, Frame(p), DOMAIN States' = Procs,
         DOMAIN States'[p] \subseteq Wins,
         \A w \in DOMAIN States'[p] : States'[p][w] \in State
  PROVE  StatesOK'
<1>1. \A q \in Procs : DOMAIN States[q] \subseteq Wins /\ Range(States[q]) \subseteq State
  BY DEF TypeOK
<1>2. Range(States'[p]) \subseteq State
  BY DEF Range
<1> QED
  BY <1>1, <1>2 DEF StatesOK, Frame

LEMMA StartedFacts ==
  ASSUME NEW S \in State
  PROVE  LET T == Started(S) IN
         /\ T \in State
         /\ T.mpi_tag = S.mpi_tag /\ T.count_epoch = S.count_epoch + 1 /\ T.active_epoch = 1
         /\ T.from_sync = S.from_sync /\ T.thread = "test" /\ T.thread_end = 0
         /\ T.count = S.count /\ T.value = S.value /\ T.array = [q \in Procs |-> 0]
         /\ T.landed = {}
<1>0. /\ S.count_epoch + 1 \in Nat /\ [q \in Procs |-> 0] \in [Procs -> Nat]
      /\ 0 \in 0 .. 1 /\ 1 \in 0 .. 1 /\ {} \in SUBSET Message
  BY DEF State
<1>1. Started(S) \in State
  BY <1>0, Zenon DEF Started, State
<1>2. LET T == Started(S) IN
      /\ T.mpi_tag = S.mpi_tag /\ T.count_epoch = S.count_epoch + 1 /\ T.active_epoch = 1
      /\ T.from_sync = S.from_sync /\ T.thread = "test" /\ T.thread_end = 0
  BY DEF Started, State
<1>3. LET T == Started(S) IN
      /\ T.count = S.count /\ T.value = S.value /\ T.array = [q \in Procs |-> 0]
      /\ T.landed = {}
  BY DEF Started, State
<1> QED
  BY <1>1, <1>2, <1>3

LEMMA JoinedFacts ==
  ASSUME NEW S \in State, NEW T, T = Joined(S) \/ T = Synced(Joined(S))
  PROVE  /\ T \in State
         /\ T.mpi_tag = S.mpi_tag /\ T.count_epoch = S.count_epoch /\ T.active_epoch = 0
         /\ T = Joined(S) => T.from_sync = S.from_sync
         /\ T = Synced(Joined(S)) => T.from_sync = 1
         /\ T.thread = (IF S.thread = "exit" THEN "off" ELSE S.thread)
         /\ T.thread_end = S.thread_end /\ T.count = 0 /\ T.array = S.array
         /\ T.landed = S.landed
<1> DEFINE J == Joined(S)
<1>1. J \in State
  <2>1. 0 \in Nat /\ 0 \in 0 .. 1 /\ (IF S.thread = "exit" THEN "off" ELSE S.thread) \in {"off", "test", "exit"}
    BY DEF State
  <2> QED
    BY <2>1, Zenon DEF Joined, State
<1>2. /\ J.mpi_tag = S.mpi_tag /\ J.count_epoch = S.count_epoch /\ J.active_epoch = 0
      /\ J.from_sync = S.from_sync /\ J.thread = (IF S.thread = "exit" THEN "off" ELSE S.thread)
      /\ J.thread_end = S.thread_end /\ J.count = 0 /\ J.array = S.array /\ J.landed = S.landed
  BY DEF Joined, State
<1> HIDE DEF J
<1>3. /\ Synced(J) \in State /\ Synced(J).from_sync = 1
      /\ Synced(J).mpi_tag = J.mpi_tag /\ Synced(J).count_epoch = J.count_epoch
      /\ Synced(J).active_epoch = J.active_epoch /\ Synced(J).thread = J.thread
      /\ Synced(J).thread_end = J.thread_end /\ Synced(J).count = J.count
      /\ Synced(J).array = J.array /\ Synced(J).landed = J.landed
  BY <1>1 DEF Synced, State
<1>4. T = J \/ T = Synced(J)
  BY DEF J
<1> QED
  BY <1>1, <1>2, <1>3, <1>4 DEF J

LEMMA RangeIdFacts ==
  ASSUME TypeOK, NEW p \in Procs
  PROVE  LET id == get_tag_range_id(win_mpi_tag_id[p]) IN
         /\ id \in Int
         /\ id >= 0 => id \in 0 .. MaxWin - 1 /\ win_mpi_tag_id[p][id] = 0
<1> DEFINE used == win_mpi_tag_id[p]
           Free == {i \in DOMAIN used : used[i] = 0}
<1>1. used \in [0 .. MaxWin - 1 -> 0 .. 1] /\ MaxWin \in Nat
  BY WindowsAssumption DEF TypeOK
<1>2. CASE Free = {}
  BY <1>2 DEF get_tag_range_id
<1>3. CASE Free # {}
  <2>1. Free \subseteq Nat
    BY <1>1
  <2> HIDE DEF Free, used
  <2>3. \E x \in Free : \A y \in Free : x <= y
    BY <1>3, <2>1, LeastNatural
  <2>4. Min(Free) \in Free
    BY <2>3 DEF Min
  <2>5. get_tag_range_id(used) = Min(Free)
    BY <1>3 DEF get_tag_range_id, Free
  <2> QED
    BY <1>1, <2>4, <2>5 DEF Free, used
<1> QED
  BY <1>2, <1>3

LEMMA MarkRangeFacts ==
  ASSUME NEW used \in [0 .. MaxWin - 1 -> 0 .. 1], NEW id, NEW v \in 0 .. 1
  PROVE  /\ MarkRange(used, id, v) \in [0 .. MaxWin - 1 -> 0 .. 1]
         /\ \A i \in 0 .. MaxWin - 1 : MarkRange(used, id, v)[i] = IF i = id THEN v ELSE used[i]
BY DEF MarkRange

LEMMA ContributeFacts ==
  ASSUME TypeOK, NEW k \in Comms \X Nat, NEW p \in Procs, NEW array \in [Procs -> Nat],
         Contribute(k, p, array)
  PROVE  /\ DOMAIN reduced' = DOMAIN reduced \cup {k}
         /\ \A x \in DOMAIN reduced : x # k => reduced'[x] = reduced[x]
         /\ k \notin DOMAIN reduced => reduced'[k].from = {p} /\ \A q \in Procs : reduced'[k].sum[q] = array[q]
         /\ k \in DOMAIN reduced =>
              /\ reduced'[k].from = reduced[k].from \cup {p}
              /\ \A q \in Procs : reduced'[k].sum[q] = reduced[k].sum[q] + array[q]
         /\ Range(reduced') \subseteq [from : SUBSET Procs, sum : [Procs -> Nat]]
<1> DEFINE R == [from : SUBSET Procs, sum : [Procs -> Nat]]
           old == IF k \in DOMAIN reduced THEN reduced[k] ELSE NothingYet
           new == Added(old, p, array)
<1>1. \A x \in DOMAIN reduced : reduced[x] \in R
  BY DEF TypeOK, Range
<1>2. NothingYet \in R /\ NothingYet.from = {} /\ \A q \in Procs : NothingYet.sum[q] = 0
  BY DEF NothingYet
<1>3. old \in R
  BY <1>1, <1>2
<1>4. old.from \in SUBSET Procs /\ old.sum \in [Procs -> Nat]
  BY <1>3
<1>5. new.from = old.from \cup {p} /\ \A q \in Procs : new.sum[q] = old.sum[q] + array[q]
  BY DEF Added
<1>6. new \in R
  BY <1>4 DEF Added
<1>7. reduced' = [x \in DOMAIN reduced \cup {k} |-> IF x # k THEN reduced[x] ELSE new]
  BY DEF Contribute
<1> HIDE DEF new, R
<1>8. /\ DOMAIN reduced' = DOMAIN reduced \cup {k} /\ reduced'[k] = new
      /\ \A x \in DOMAIN reduced : x # k => reduced'[x] = reduced[x]
  BY <1>7
<1>9. Range(reduced') \subseteq R
  BY <1>1, <1>6, <1>8 DEF Range
<1>10. CASE k \in DOMAIN reduced
  BY <1>5, <1>8, <1>9, <1>10 DEF R
<1>11. CASE k \notin DOMAIN reduced
  <2>1. old = NothingYet
    BY <1>11
  <2>2. \A q \in Procs : new.sum[q] = 0 + array[q]
    BY <1>2, <1>5, <2>1
  <2> QED
    BY <1>2, <1>5, <1>8, <1>9, <1>11, <2>1, <2>2 DEF R
<1> QED
  BY <1>10, <1>11

LEMMA TypeStep ==
  ASSUME TypeOK, HistoryOK, \A p \in Procs : PlaceOK(p), [Next]_vars
  PROVE  TypeOK'
<1> DEFINE Rest == /\ prog \in Programs /\ handle \in Handles
                   /\ pos \in [Procs -> Nat]
                   /\ pc \in [Procs -> {"user", "sweep", "reduce", "join", "sync"}]
                   /\ todo \in [Procs -> SUBSET Wins]
                   /\ win_mpi_tag_id \in [Procs -> [0 .. MaxWin - 1 -> 0 .. 1]]
                   /\ net \subseteq sent /\ sent \subseteq Message
                   /\ DOMAIN reduced \subseteq Comms \X Nat
                   /\ Range(reduced) \subseteq [from : SUBSET Procs, sum : [Procs -> Nat]]
                   /\ rounds \in [Procs -> [Comms -> Nat]] /\ entered \in [Procs -> [Comms -> Nat]]
                   /\ crashed \in BOOLEAN /\ given \in [Wins -> SUBSET Int] /\ agreed \in BOOLEAN
<1>0. (TypeOK <=> Rest /\ StatesOK) /\ (TypeOK' <=> Rest' /\ StatesOK')
  BY DEF TypeOK, StatesOK
<1>r. Rest /\ StatesOK
  BY <1>0
<1>s. \A q \in Procs : todo[q] \subseteq DOMAIN States[q]
  BY DEF PlaceOK, PositionOK
<1>u. ASSUME UNCHANGED States PROVE StatesOK'
  BY <1>r, <1>u DEF StatesOK
<1>m. MaxEpoch \in Nat
  BY WindowsAssumption
<1>e. ASSUME NEW p \in Procs, pos[p] < Len(prog),
             entered' = [entered EXCEPT ![p][CommOfCall(prog[pos[p] + 1])] = @ + 1]
      PROVE  entered' \in [Procs -> [Comms -> Nat]]
  <2>1. prog \in Programs /\ pos[p] \in Nat /\ pos[p] + 1 \in DOMAIN prog
    BY <1>r, <1>e, ProgramFacts
  <2>2. CommOfCall(prog[pos[p] + 1]) \in Comms
    BY <2>1, ProgramFacts
  <2> QED
    BY <1>r, <1>e, <2>2
<1>t. ASSUME NEW p \in Procs, NEW W, StartEpochs(p, W), Frame(p)
      PROVE  StatesOK' /\ crashed' \in BOOLEAN /\ agreed' \in BOOLEAN
  <2>1. /\ DOMAIN States' = Procs /\ DOMAIN States'[p] = DOMAIN States[p]
        /\ \A w \in DOMAIN States[p] : States'[p][w] = Started(States[p][w]) \/ States'[p][w] = States[p][w]
    BY <1>t, StartEffect
  <2>2. \A w \in DOMAIN States[p] : States[p][w] \in State /\ Started(States[p][w]) \in State
    BY StateFacts, StartedFacts
  <2>3. StatesOK'
    BY <1>t, <2>1, <2>2, StateFacts, StatesStep
  <2> QED
    BY <1>t, <2>3 DEF StartEpochs
<1>1. ASSUME NEW p \in Procs, SkipCall(p) PROVE TypeOK'
  BY <1>0, <1>r, <1>u, <1>1 DEF SkipCall
<1>2. ASSUME NEW p \in Procs, WinCreate(p) PROVE TypeOK'
  <2> DEFINE id == get_tag_range_id(win_mpi_tag_id[p])
  <2>1. /\ Frame(p) /\ Arg(p) \in Wins /\ DOMAIN States'[p] = DOMAIN States[p] \cup {Arg(p)}
        /\ \A v \in DOMAIN States[p] : v # Arg(p) => States'[p][v] = States[p][v]
        /\ States'[p][Arg(p)] =
             [mpi_tag |-> MaxEpoch * id, count_epoch |-> 0, active_epoch |-> 0,
              from_sync |-> 0, thread |-> "off", thread_end |-> 0, count |-> 0,
              value |-> 0, array |-> [q \in Procs |-> 0], landed |-> {}]
    BY <1>2, WinCreateEffect
  <2>2. MaxEpoch * id \in Int
    BY <1>m, RangeIdFacts
  <2> HIDE DEF id
  <2>3. States'[p][Arg(p)] \in State
    BY <2>1, <2>2 DEF State
  <2>4. DOMAIN States' = Procs
    BY <1>r, <1>2 DEF WinCreate, StatesOK
  <2>5. StatesOK'
    BY <2>1, <2>3, <2>4, StatesStep, StateFacts
  <2>6. win_mpi_tag_id' = [win_mpi_tag_id EXCEPT ![p] = MarkRange(win_mpi_tag_id[p], id, 1)]
    BY <1>2 DEF WinCreate, id
  <2>7. win_mpi_tag_id' \in [Procs -> [0 .. MaxWin - 1 -> 0 .. 1]]
    <3>0. win_mpi_tag_id[p] \in [0 .. MaxWin - 1 -> 0 .. 1] /\ 1 \in 0 .. 1
      BY <1>r
    <3>1. MarkRange(win_mpi_tag_id[p], id, 1) \in [0 .. MaxWin - 1 -> 0 .. 1]
      BY <3>0, MarkRangeFacts
    <3> QED
      BY <1>r, <2>6, <3>1
  <2>8. given' = [given EXCEPT ![Arg(p)] = @ \cup {MaxEpoch * id}]
    BY <1>2 DEF WinCreate, id
  <2>9. given' \in [Wins -> SUBSET Int]
    BY <1>r, <2>1, <2>2, <2>8
  <2>10. /\ agreed' \in BOOLEAN
         /\ pc' = [pc EXCEPT ![p] = "user"] /\ pos' = [pos EXCEPT ![p] = @ + 1]
         /\ UNCHANGED <<prog, handle, todo, net, reduced, rounds, entered, crashed, sent>>
    BY <1>2 DEF WinCreate, Return
  <2> QED
    BY <1>0, <1>r, <2>5, <2>7, <2>9, <2>10
<1>3. ASSUME NEW p \in Procs, WinFree(p) PROVE TypeOK'
  <2>1. /\ Frame(p) /\ pos[p] < Len(prog)
        /\ DOMAIN States'[p] \subseteq DOMAIN States[p]
        /\ \A v \in DOMAIN States'[p] : States'[p][v] = States[p][v]
        /\ entered' = [entered EXCEPT ![p][CommOfCall(prog[pos[p] + 1])] = @ + 1]
    BY <1>3, WinFreeEffect DEF Calls
  <2>2. DOMAIN States' = Procs
    BY <1>r, <1>3 DEF WinFree, StatesOK
  <2>3. StatesOK'
    BY <2>1, <2>2, StatesStep, StateFacts
  <2>4. PICK id : win_mpi_tag_id' = [win_mpi_tag_id EXCEPT ![p] = MarkRange(win_mpi_tag_id[p], id, 0)]
    BY <1>3 DEF WinFree
  <2>5. win_mpi_tag_id' \in [Procs -> [0 .. MaxWin - 1 -> 0 .. 1]]
    <3>0. win_mpi_tag_id[p] \in [0 .. MaxWin - 1 -> 0 .. 1] /\ 0 \in 0 .. 1
      BY <1>r
    <3>1. MarkRange(win_mpi_tag_id[p], id, 0) \in [0 .. MaxWin - 1 -> 0 .. 1]
      BY <3>0, MarkRangeFacts
    <3> QED
      BY <1>r, <2>4, <3>1
  <2>6. /\ crashed' \in BOOLEAN /\ pc' = [pc EXCEPT ![p] = "sync"]
        /\ UNCHANGED <<prog, handle, pos, todo, net, reduced, rounds, sent, given, agreed>>
    BY <1>3 DEF WinFree, EnterSync
  <2> QED
    BY <1>0, <1>r, <1>e, <2>1, <2>3, <2>5, <2>6
<1>4. ASSUME NEW p \in Procs, WinLockAll(p) PROVE TypeOK'
  <2>1. Frame(p) /\ StartEpochs(p, {Arg(p)})
    BY <1>4, WinLockAllEffect
  <2>2. /\ pc' = [pc EXCEPT ![p] = "user"] /\ pos' = [pos EXCEPT ![p] = @ + 1]
        /\ UNCHANGED <<prog, handle, todo, win_mpi_tag_id, net, reduced, rounds, entered, sent, given>>
    BY <1>4 DEF WinLockAll, Return
  <2> QED
    BY <1>0, <1>r, <1>t, <2>1, <2>2
<1>5. ASSUME NEW p \in Procs, WinUnlockAll(p) PROVE TypeOK'
  <2>1. Arg(p) \in Wins
    <3>1. prog \in Programs /\ pos[p] \in Nat /\ pos[p] < Len(prog) /\ prog[pos[p] + 1].op = "unlock_all"
      BY <1>r, <1>5 DEF WinUnlockAll, Calls
    <3>2. pos[p] + 1 \in DOMAIN prog
      BY <3>1, ProgramFacts
    <3> QED
      BY <3>1, <3>2, ProgramFacts DEF Arg
  <2> QED
    BY <1>0, <1>r, <1>u, <1>5, <2>1 DEF WinUnlockAll
<1>6. ASSUME NEW p \in Procs, Barrier(p) PROVE TypeOK'
  <2>1. Sweep(p) \subseteq Wins
    BY StateFacts DEF Sweep
  <2> QED
    BY <1>0, <1>r, <1>u, <1>6, <2>1 DEF Barrier
<1>7. ASSUME NEW p \in Procs, Reduce(p) PROVE TypeOK'
  <2>1. PICK w \in todo[p] :
          /\ w \in Wins
          /\ Contribute(<<CommOf[w], rounds[p][CommOf[w]]>>, p, States[p][w].array)
    BY <1>7, ReduceEffect
  <2>2. <<CommOf[w], rounds[p][CommOf[w]]>> \in Comms \X Nat
    BY <1>r, <2>1, MemberFacts
  <2>3. States[p][w].array \in [Procs -> Nat]
    BY <1>s, StateFacts
  <2>4. /\ DOMAIN reduced' = DOMAIN reduced \cup {<<CommOf[w], rounds[p][CommOf[w]]>>}
        /\ Range(reduced') \subseteq [from : SUBSET Procs, sum : [Procs -> Nat]]
    BY <2>1, <2>2, <2>3, ContributeFacts
  <2>5. /\ pc' = [pc EXCEPT ![p] = "reduce"]
        /\ UNCHANGED <<prog, handle, pos, todo, win_mpi_tag_id, States, net, rounds, entered, crashed,
                       sent, given, agreed>>
    BY <1>7 DEF Reduce
  <2>6. Rest'
    BY <1>r, <2>2, <2>4, <2>5
  <2> QED
    BY <1>0, <1>u, <2>5, <2>6
<1>8. ASSUME NEW p \in Procs, ReduceReturns(p) PROVE TypeOK'
  <2>1. /\ Frame(p) /\ pc[p] = "reduce" /\ DOMAIN States' = Procs /\ rounds' \in [Procs -> [Comms -> Nat]]
        /\ \E w \in todo[p] :
             LET c == CommOf[w]
                 x == reduced[<<c, rounds[p][c]>>]
             IN  /\ w \in Wins /\ IsNext(p, w)
                 /\ DOMAIN States'[p] = DOMAIN States[p]
                 /\ States'[p][w] = [States[p][w] EXCEPT !.value = x.sum[p], !.thread_end = 1]
                 /\ \A v \in DOMAIN States[p] : v # w => States'[p][v] = States[p][v]
    BY <1>s, <1>8, ReduceReturnsEffect
  <2>2. PICK w \in todo[p] :
             LET c == CommOf[w]
                 x == reduced[<<c, rounds[p][c]>>]
             IN  /\ w \in Wins /\ IsNext(p, w)
                 /\ DOMAIN States'[p] = DOMAIN States[p]
                 /\ States'[p][w] = [States[p][w] EXCEPT !.value = x.sum[p], !.thread_end = 1]
                 /\ \A v \in DOMAIN States[p] : v # w => States'[p][v] = States[p][v]
    BY <2>1
  <2> DEFINE k == <<CommOf[w], rounds[p][CommOf[w]]>>
  <2>3. k \in DOMAIN reduced
    BY <2>1, <2>2 DEF PlaceOK, WaitingOK
  <2>4. reduced[k] \in [from : SUBSET Procs, sum : [Procs -> Nat]]
    BY <1>r, <2>3 DEF Range
  <2>5. reduced[k].sum[p] \in Nat
    BY <2>4
  <2>6. States[p][w] \in State
    BY <1>s, StateFacts
  <2>7. States'[p][w] = [States[p][w] EXCEPT !.value = reduced[k].sum[p], !.thread_end = 1]
    BY <2>2
  <2> HIDE DEF k
  <2>8. States'[p][w] \in State
    <3>1. 1 \in 0 .. 1
      OBVIOUS
    <3> QED
      BY <2>5, <2>6, <2>7, <3>1, Zenon DEF State
  <2>9. \A v \in DOMAIN States'[p] : States'[p][v] \in State
    BY <2>2, <2>8, StateFacts
  <2>10. StatesOK'
    BY <2>1, <2>2, <2>9, StateFacts, StatesStep
  <2>11. /\ pc' = [pc EXCEPT ![p] = "join"]
         /\ UNCHANGED <<prog, handle, pos, todo, win_mpi_tag_id, net, reduced, entered, crashed, sent, given, agreed>>
    BY <1>8 DEF ReduceReturns
  <2> QED
    BY <1>0, <1>r, <2>1, <2>10, <2>11
<1>9. ASSUME NEW p \in Procs, Join(p) PROVE TypeOK'
  <2>1. /\ Frame(p) /\ pc[p] = "join" /\ DOMAIN States' = Procs /\ todo' \in [Procs -> SUBSET Wins]
        /\ \E w \in todo[p] :
              /\ w \in Wins /\ crashed' = (States[p][w].thread = "off")
              /\ DOMAIN States'[p] = DOMAIN States[p]
              /\ States'[p][w] = Synced(Joined(States[p][w])) \/ States'[p][w] = Joined(States[p][w])
              /\ \A v \in DOMAIN States[p] : v # w => States'[p][v] = States[p][v]
        /\ UNCHANGED <<win_mpi_tag_id, net, reduced, rounds, entered, sent, given, agreed>>
    BY <1>s, <1>9, JoinEffect
  <2>2. PICK w \in todo[p] :
              /\ w \in Wins /\ crashed' = (States[p][w].thread = "off")
              /\ DOMAIN States'[p] = DOMAIN States[p]
              /\ States'[p][w] = Synced(Joined(States[p][w])) \/ States'[p][w] = Joined(States[p][w])
              /\ \A v \in DOMAIN States[p] : v # w => States'[p][v] = States[p][v]
    BY <2>1
  <2>3. States[p][w] \in State
    BY <1>s, StateFacts
  <2>4. States'[p][w] \in State
    BY <2>2, <2>3, JoinedFacts
  <2>5. \A v \in DOMAIN States'[p] : States'[p][v] \in State
    BY <2>2, <2>4, StateFacts
  <2>6. StatesOK'
    BY <2>1, <2>2, <2>5, StateFacts, StatesStep
  <2>7. /\ pc' \in [Procs -> {"user", "sweep", "reduce", "join", "sync"}] /\ pos' \in [Procs -> Nat]
        /\ UNCHANGED <<prog, handle>>
    <3>1. \/ pc' = [pc EXCEPT ![p] = "sweep"] /\ UNCHANGED pos
          \/ pc' = [pc EXCEPT ![p] = "user"] /\ pos' = [pos EXCEPT ![p] = @ + 1]
      BY <1>9 DEF Join, Return
    <3>2. UNCHANGED <<prog, handle>>
      BY <2>1 DEF Frame
    <3> QED
      <4>1. CASE pc' = [pc EXCEPT ![p] = "sweep"] /\ UNCHANGED pos
        BY <1>r, <3>2, <4>1
      <4>2. CASE pc' = [pc EXCEPT ![p] = "user"] /\ pos' = [pos EXCEPT ![p] = @ + 1]
        BY <1>r, <3>2, <4>2
      <4> QED
        BY <3>1, <4>1, <4>2
  <2>8. crashed' \in BOOLEAN
    BY <2>2
  <2> QED
    BY <1>0, <1>r, <2>1, <2>6, <2>7, <2>8
<1>10. ASSUME NEW p \in Procs, Restart(p) PROVE TypeOK'
  <2>1. /\ Frame(p) /\ \E W : StartEpochs(p, W)
        /\ pc[p] # "user"
        /\ entered' = [entered EXCEPT ![p][CommOfCall(prog[pos[p] + 1])] = @ + 1]
    BY <1>10, RestartEffect
  <2>2. /\ pc' = [pc EXCEPT ![p] = "sync"]
        /\ UNCHANGED <<prog, handle, pos, todo, win_mpi_tag_id, net, reduced, rounds, sent, given>>
    BY <1>10 DEF Restart, EnterSync
  <2>3. pos[p] < Len(prog)
    BY <2>1 DEF PlaceOK, PositionOK
  <2> QED
    BY <1>0, <1>r, <1>t, <1>e, <2>1, <2>2, <2>3
<1>11. ASSUME NEW p \in Procs, LeaveSync(p) PROVE TypeOK'
  BY <1>0, <1>r, <1>u, <1>11 DEF LeaveSync, Return
<1>12. ASSUME NEW p \in Procs, NEW w \in Wins, NEW q \in Procs, Communicate(p, w, q) PROVE TypeOK'
  <2> DEFINE S == States[p][w]
             m == [src |-> p, dst |-> q, win |-> w, epoch |-> S.count_epoch,
                   n |-> Cardinality(sent), tag |-> S.mpi_tag + S.count_epoch]
  <2>1. /\ Frame(p) /\ w \in DOMAIN States[p]
        /\ net' = net \cup {m} /\ sent' = sent \cup {m}
        /\ DOMAIN States' = Procs /\ DOMAIN States'[p] = DOMAIN States[p]
        /\ States'[p][w] = [S EXCEPT !.array = [S.array EXCEPT ![q] = @ + 1]]
        /\ \A v \in DOMAIN States[p] : v # w => States'[p][v] = States[p][v]
        /\ UNCHANGED <<pos, pc, todo, win_mpi_tag_id, reduced, rounds, entered, crashed, given, agreed>>
    BY <1>12, CommunicateEffect
  <2>2. S \in State /\ S.array \in [Procs -> Nat] /\ S.count_epoch \in Nat /\ S.mpi_tag \in Int
    BY <2>1, StateFacts
  <2>2a. Cardinality(sent) \in Nat
    BY FS_CardinalityType DEF HistoryOK
  <2>3. m \in Message
    BY <2>2, <2>2a DEF Message
  <2> HIDE DEF m
  <2>4. [S.array EXCEPT ![q] = @ + 1] \in [Procs -> Nat]
    BY <2>2
  <2>5. States'[p][w] \in State
    BY <2>1, <2>2, <2>4, Zenon DEF State
  <2>6. StatesOK'
    BY <2>1, <2>5, StateFacts, StatesStep
  <2>7. prog' = prog /\ handle' = handle
    BY <2>1 DEF Frame
  <2> QED
    BY <1>0, <1>r, <2>1, <2>3, <2>6, <2>7
<1>13. ASSUME NEW p \in Procs, NEW w \in Wins, CheckThread(p, w) PROVE TypeOK'
  <2>1. w \in DOMAIN States[p] /\ (Receive(p, w) \/ ExitThread(p, w))
    BY <1>13 DEF CheckThread
  <2>2. /\ Frame(p) /\ DOMAIN States' = Procs /\ DOMAIN States'[p] = DOMAIN States[p]
        /\ \A v \in DOMAIN States[p] : v # w => States'[p][v] = States[p][v]
        /\ UNCHANGED <<pos, pc, todo, win_mpi_tag_id, reduced, rounds, entered, crashed, sent, given, agreed>>
        /\ net' \subseteq net
    BY <2>1, ReceiveEffect, ExitThreadEffect
  <2>3. States[p][w] \in State /\ net \subseteq Message
    BY <1>r, <2>1, StateFacts
  <2>4. States'[p][w] \in State
    <3>1. CASE Receive(p, w)
      <4>1. PICK m \in net : States'[p][w] = [States[p][w] EXCEPT !.count = @ + 1, !.landed = @ \cup {m}]
        BY <2>1, <3>1, ReceiveEffect
      <4>2. States[p][w].count + 1 \in Nat /\ States[p][w].landed \cup {m} \in SUBSET Message
        BY <2>1, <2>3, StateFacts
      <4> QED
        BY <2>3, <4>1, <4>2, Zenon DEF State
    <3>2. CASE ExitThread(p, w)
      <4>1. States'[p][w] = [States[p][w] EXCEPT !.thread = "exit", !.count = 0]
        BY <2>1, <3>2, ExitThreadEffect
      <4>2. 0 \in Nat
        OBVIOUS
      <4> QED
        BY <2>3, <4>1, <4>2, Zenon DEF State
    <3> QED
      BY <2>1, <3>1, <3>2
  <2>5. StatesOK'
    BY <2>2, <2>4, StateFacts, StatesStep
  <2>6. prog' = prog /\ handle' = handle
    BY <2>2 DEF Frame
  <2> QED
    BY <1>0, <1>r, <2>2, <2>5, <2>6
<1>14. CASE UNCHANGED vars
  BY <1>0, <1>r, <1>u, <1>14 DEF vars
<1> QED
  BY <1>1, <1>2, <1>3, <1>4, <1>5, <1>6, <1>7, <1>8, <1>9, <1>10, <1>11, <1>12, <1>13, <1>14
  DEF Next, App

(* Each access has a number of its own. *)
LEMMA HistoryStep ==
  ASSUME TypeOK, HistoryOK, \A p \in Procs : PlaceOK(p), [Next]_vars
  PROVE  /\ HistoryOK'
         /\ \A p, q \in Procs, w \in Wins : Communicate(p, w, q) =>
              \A m \in sent' \ sent : m.n = Cardinality(sent)
<1>s. \A q \in Procs : todo[q] \subseteq DOMAIN States[q]
  BY DEF PlaceOK, PositionOK
<1>1. ASSUME NEW p \in Procs, NEW q \in Procs, NEW w \in Wins, Communicate(p, w, q)
      PROVE  HistoryOK' /\ \A m \in sent' \ sent : m.n = Cardinality(sent)
  <2> DEFINE m == [src |-> p, dst |-> q, win |-> w, epoch |-> States[p][w].count_epoch,
                   n |-> Cardinality(sent), tag |-> States[p][w].mpi_tag + States[p][w].count_epoch]
  <2>1. sent' = sent \cup {m} /\ m.n = Cardinality(sent)
    BY <1>1 DEF Communicate
  <2> HIDE DEF m
  <2>2. m \notin sent
    BY <2>1, FS_CardinalityType DEF HistoryOK
  <2>3. IsFiniteSet(sent') /\ Cardinality(sent') = Cardinality(sent) + 1 /\ Cardinality(sent) \in Nat
    BY <2>1, <2>2, FS_AddElement, FS_CardinalityType DEF HistoryOK
  <2>4. \A x \in sent : x.n \in Nat /\ x.n < Cardinality(sent)
    BY DEF TypeOK, Message, HistoryOK
  <2>5. \A x \in sent' : x.n < Cardinality(sent')
    BY <2>1, <2>3, <2>4
  <2> QED
    BY <2>1, <2>3, <2>5 DEF HistoryOK
<1>2. CASE UNCHANGED sent
  BY <1>1, <1>2 DEF HistoryOK
<1>3. CASE \E p, q \in Procs, w \in Wins : Communicate(p, w, q)
  BY <1>1, <1>3
<1>4. UNCHANGED sent \/ \E p, q \in Procs, w \in Wins : Communicate(p, w, q)
  BY DEF Next, App, vars, CheckThread, SkipCall, WinCreate, WinFree, WinLockAll, WinUnlockAll,
         Barrier, Reduce, ReduceReturns, Join, Restart, LeaveSync, Receive, ExitThread
<1> QED
  BY <1>1, <1>2, <1>3, <1>4

-----------------------------------------------------------------------------
(* Places.  What holds of a process while another one makes a step. *)
LEMMA PlaceFrame ==
  ASSUME TypeOK, NEW p \in Procs, NEW q \in Procs, q # p, Frame(p),
         DOMAIN reduced \subseteq DOMAIN reduced', PlaceOK(q)
  PROVE  PlaceOK(q)'
<1>1. /\ prog' = prog /\ handle' = handle /\ pos'[q] = pos[q] /\ pc'[q] = pc[q]
      /\ todo'[q] = todo[q] /\ States'[q] = States[q] /\ rounds'[q] = rounds[q]
      /\ entered'[q] = entered[q]
  BY DEF Frame
<1>2. PositionOK(q)'
  BY <1>1 DEF PlaceOK, PositionOK
<1>3. At(q)' = At(q)
  BY <1>1 DEF At
<1>4. KnownOK(q)' /\ EnteredOK(q)'
  BY <1>1, <1>3 DEF PlaceOK, KnownOK, EnteredOK
<1>5. WaitingOK(q)'
  BY <1>1 DEF PlaceOK, WaitingOK, IsNext
<1> QED
  BY <1>2, <1>4, <1>5 DEF PlaceOK

(* The call p is at. *)
LEMMA CallFacts ==
  ASSUME TypeOK, NEW p \in Procs, PlaceOK(p)
  PROVE  LET i    == pos[p]
             call == prog[i + 1]
         IN  /\ prog \in Programs /\ i \in Nat /\ Len(prog) \in Nat /\ DOMAIN prog = 1 .. Len(prog)
             /\ At(p) \in Nat /\ At(p) <= Len(prog)
             /\ i < Len(prog) =>
                  /\ i + 1 \in DOMAIN prog
                  /\ call.op \in {"create", "lock_all", "unlock_all", "free", "barrier"}
                  /\ call.op # "barrier" => call.on \in Wins
                  /\ call.op = "barrier" => call.on \in Comms
                  /\ CommOfCall(call) \in Comms
                  /\ \A w : Is(prog, i + 1, call.op, w) <=> w = call.on
                  /\ \A w, op : op # call.op => ~ Is(prog, i + 1, op, w)
<1>1. prog \in Programs /\ pos[p] \in Nat /\ pos[p] <= Len(prog) /\ (pc[p] # "user" => pos[p] < Len(prog))
  BY DEF TypeOK, PlaceOK, PositionOK
<1>2. Len(prog) \in Nat /\ DOMAIN prog = 1 .. Len(prog)
  BY <1>1, ProgramFacts
<1>3. At(p) \in Nat /\ At(p) <= Len(prog)
  BY <1>1, <1>2 DEF At
<1>4. ASSUME pos[p] < Len(prog)
      PROVE  LET call == prog[pos[p] + 1] IN
             /\ pos[p] + 1 \in DOMAIN prog
             /\ call.op \in {"create", "lock_all", "unlock_all", "free", "barrier"}
             /\ call.op # "barrier" => call.on \in Wins
             /\ call.op = "barrier" => call.on \in Comms
             /\ CommOfCall(call) \in Comms
  BY <1>1, <1>2, <1>4, ProgramFacts
<1> QED
  BY <1>1, <1>2, <1>3, <1>4 DEF Is

(* A synchronising call is counted when it is entered. *)
LEMMA EnteredStep ==
  ASSUME TypeOK, NEW p \in Procs, PlaceOK(p), prog' = prog, pos[p] < Len(prog),
         At(p) = pos[p], At(p)' = pos[p] + 1,
         \A c \in Comms : p \in Members[c] =>
           entered'[p][c] = entered[p][c] + IF pos[p] + 1 \in Syncs(prog, c) THEN 1 ELSE 0
  PROVE  EnteredOK(p)'
<1> SUFFICES ASSUME NEW c \in Comms, p \in Members[c]
             PROVE  entered'[p][c] = Cardinality(1 .. At(p)' \cap Syncs(prog', c))
  BY DEF EnteredOK
<1>1. pos[p] \in Nat
  BY CallFacts
<1>2. Cardinality(1 .. pos[p] + 1 \cap Syncs(prog, c)) =
        Cardinality(1 .. pos[p] \cap Syncs(prog, c)) + IF pos[p] + 1 \in Syncs(prog, c) THEN 1 ELSE 0
  BY <1>1, CountStep
<1>3. entered[p][c] = Cardinality(1 .. pos[p] \cap Syncs(prog, c))
  BY DEF PlaceOK, EnteredOK
<1> QED
  BY <1>2, <1>3

LEMMA EnterSyncCounts ==
  ASSUME TypeOK, NEW p \in Procs, PlaceOK(p), pos[p] < Len(prog),
         prog[pos[p] + 1].op \in {"barrier", "free"},
         entered' = [entered EXCEPT ![p][CommOfCall(prog[pos[p] + 1])] = @ + 1]
  PROVE  \A c \in Comms :
           entered'[p][c] = entered[p][c] + IF pos[p] + 1 \in Syncs(prog, c) THEN 1 ELSE 0
<1>1. CommOfCall(prog[pos[p] + 1]) \in Comms /\ entered \in [Procs -> [Comms -> Nat]]
  BY CallFacts DEF TypeOK
<1>2. \A c \in Comms : entered'[p][c] = IF c = CommOfCall(prog[pos[p] + 1]) THEN entered[p][c] + 1 ELSE entered[p][c]
  BY <1>1
<1>3. \A c \in Comms : pos[p] + 1 \in Syncs(prog, c) <=> c = CommOfCall(prog[pos[p] + 1])
  BY CallFacts DEF Syncs
<1>4. \A c \in Comms : entered[p][c] \in Nat
  BY <1>1
<1> QED
  BY <1>2, <1>3, <1>4

(* A call that neither creates nor frees a window of p and does not        *)
(* synchronise leaves what p knows.                                        *)
LEMMA PlainCall ==
  ASSUME TypeOK, NEW p \in Procs, PlaceOK(p), prog' = prog, pos[p] < Len(prog),
         At(p) = pos[p], At(p)' = pos[p] + 1, DOMAIN States'[p] = DOMAIN States[p],
         entered'[p] = entered[p],
         LET call == prog[pos[p] + 1] IN
         call.op \in {"lock_all", "unlock_all"} \/ ~ Concerns(call, p)
  PROVE  KnownOK(p)' /\ EnteredOK(p)'
<1> DEFINE call == prog[pos[p] + 1]
<1>1. prog \in Programs /\ pos[p] \in Nat
  BY CallFacts
<1>2. ASSUME NEW w \in Wins, p \in Members[CommOf[w]]
      PROVE  ~ Is(prog, pos[p] + 1, "create", w) /\ ~ Is(prog, pos[p] + 1, "free", w)
  BY <1>2 DEF Is, Concerns, CommOfCall
<1>3. ASSUME NEW w \in Wins, p \in Members[CommOf[w]]
      PROVE  Exists(prog, w, pos[p] + 1) <=> Exists(prog, w, pos[p])
  BY <1>1, <1>2, <1>3, ExistsStep
<1>4. KnownOK(p)'
  BY <1>3 DEF KnownOK, PlaceOK
<1>5. \A c \in Comms : p \in Members[c] => pos[p] + 1 \notin Syncs(prog, c)
  BY DEF Syncs, Concerns
<1>6. \A c \in Comms : entered[p][c] \in Nat
  BY DEF TypeOK
<1>7. EnteredOK(p)'
  BY <1>5, <1>6, EnteredStep
<1> QED
  BY <1>4, <1>7

LEMMA SkipCallPlace ==
  ASSUME TypeOK, NEW p \in Procs, PlaceOK(p), SkipCall(p)
  PROVE  PlaceOK(p)' /\ At(p) = pos[p] /\ At(p)' = pos[p] + 1
<1>1. /\ Frame(p) /\ pc[p] = "user" /\ pos[p] < Len(prog) /\ ~ Concerns(prog[pos[p] + 1], p)
      /\ pos'[p] = pos[p] + 1 /\ UNCHANGED <<prog, pc, todo, States, entered>>
  BY SkipCallEffect DEF Frame
<1>2. At(p) = pos[p] /\ At(p)' = pos[p] + 1
  BY <1>1 DEF At
<1>3. KnownOK(p)' /\ EnteredOK(p)'
  BY <1>1, <1>2, PlainCall
<1>4. pos[p] \in Nat /\ Len(prog) \in Nat /\ PositionOK(p)
  BY CallFacts DEF PlaceOK
<1>5. PositionOK(p)' /\ WaitingOK(p)'
  BY <1>1, <1>4 DEF PositionOK, WaitingOK, Clearing
<1> QED
  BY <1>2, <1>3, <1>5 DEF PlaceOK

LEMMA WinCreatePlace ==
  ASSUME TypeOK, NEW p \in Procs, PlaceOK(p), WinCreate(p)
  PROVE  PlaceOK(p)' /\ At(p) = pos[p] /\ At(p)' = pos[p] + 1
<1>1. /\ Frame(p) /\ Calls(p, "create") /\ Arg(p) \in Wins
      /\ pos'[p] = pos[p] + 1 /\ pc'[p] = "user" /\ todo' = todo
      /\ DOMAIN States'[p] = DOMAIN States[p] \cup {Arg(p)} /\ entered' = entered
  BY WinCreateEffect
<1>2. /\ prog' = prog /\ pc[p] = "user" /\ pos[p] < Len(prog)
      /\ prog[pos[p] + 1].op = "create" /\ Concerns(prog[pos[p] + 1], p)
  BY <1>1 DEF Calls, Frame
<1>3. At(p) = pos[p] /\ At(p)' = pos[p] + 1
  BY <1>1, <1>2 DEF At
<1>4. pos[p] \in Nat /\ Len(prog) \in Nat /\ PositionOK(p) /\ prog \in Programs
  BY CallFacts DEF PlaceOK
<1>5. PositionOK(p)' /\ WaitingOK(p)'
  BY <1>1, <1>2, <1>4 DEF PositionOK, WaitingOK, Clearing
<1>6. p \in Members[CommOf[Arg(p)]]
  BY <1>2 DEF Concerns, CommOfCall, Arg
<1>7. \A w \in Wins : Exists(prog, w, pos[p] + 1) <=> Exists(prog, w, pos[p]) \/ w = Arg(p)
  <2>1. \A w : /\ ~ Is(prog, pos[p] + 1, "free", w)
               /\ Is(prog, pos[p] + 1, "create", w) <=> w = Arg(p)
    BY <1>2, CallFacts DEF Arg
  <2> QED
    BY <1>2, <1>4, <2>1, ExistsStep
<1>8. KnownOK(p)'
  BY <1>1, <1>2, <1>3, <1>6, <1>7 DEF KnownOK, PlaceOK
<1>9. \A c \in Comms : pos[p] + 1 \notin Syncs(prog, c) /\ entered[p][c] \in Nat
  BY <1>2 DEF Syncs, TypeOK
<1>10. EnteredOK(p)'
  BY <1>1, <1>2, <1>3, <1>9, EnteredStep
<1> QED
  BY <1>3, <1>5, <1>8, <1>10 DEF PlaceOK

LEMMA WinFreePlace ==
  ASSUME TypeOK, NEW p \in Procs, PlaceOK(p), WinFree(p)
  PROVE  PlaceOK(p)' /\ At(p) = pos[p] /\ At(p)' = pos[p] + 1 /\ Arg(p) \in DOMAIN States[p]
<1>1. /\ Frame(p) /\ Calls(p, "free") /\ pc'[p] = "sync" /\ pos' = pos /\ todo' = todo
      /\ DOMAIN States'[p] = DOMAIN States[p] \ {Arg(p)}
      /\ entered' = [entered EXCEPT ![p][CommOfCall(prog[pos[p] + 1])] = @ + 1]
  BY WinFreeEffect
<1>2. /\ prog' = prog /\ pc[p] = "user" /\ pos[p] < Len(prog)
      /\ prog[pos[p] + 1].op = "free" /\ Concerns(prog[pos[p] + 1], p)
  BY <1>1 DEF Calls, Frame
<1>3. At(p) = pos[p] /\ At(p)' = pos[p] + 1
  BY <1>1, <1>2 DEF At
<1>4. pos[p] \in Nat /\ Len(prog) \in Nat /\ PositionOK(p) /\ prog \in Programs
  BY CallFacts DEF PlaceOK
<1>5. PositionOK(p)' /\ WaitingOK(p)'
  BY <1>1, <1>2, <1>4 DEF PositionOK, WaitingOK, Clearing
<1>6. p \in Members[CommOf[Arg(p)]] /\ Arg(p) \in Wins
  BY <1>2, CallFacts DEF Concerns, CommOfCall, Arg
<1>7. \A w \in Wins : Exists(prog, w, pos[p] + 1) <=> Exists(prog, w, pos[p]) /\ w # Arg(p)
  <2>1. \A w : /\ ~ Is(prog, pos[p] + 1, "create", w)
               /\ Is(prog, pos[p] + 1, "free", w) <=> w = Arg(p)
    BY <1>2, CallFacts DEF Arg
  <2> QED
    BY <1>2, <1>4, <2>1, ExistsStep
<1>8. KnownOK(p)'
  BY <1>1, <1>2, <1>3, <1>6, <1>7 DEF KnownOK, PlaceOK
<1>9. EnteredOK(p)'
  BY <1>1, <1>2, <1>3, EnteredStep, EnterSyncCounts
<1>10. Arg(p) \in DOMAIN States[p]
  <2>1. pos[p] + 1 \in DOMAIN prog /\ ProgramOK(prog)
    BY <1>2, <1>4, CallFacts, ProgramFacts
  <2>2. Exists(prog, Arg(p), pos[p])
    BY <1>2, <1>4, <2>1 DEF ProgramOK, Arg
  <2> QED
    BY <1>3, <1>6, <2>2 DEF PlaceOK, KnownOK
<1> QED
  BY <1>3, <1>5, <1>8, <1>9, <1>10 DEF PlaceOK

LEMMA WinLockAllPlace ==
  ASSUME TypeOK, NEW p \in Procs, PlaceOK(p), WinLockAll(p)
  PROVE  PlaceOK(p)' /\ At(p) = pos[p] /\ At(p)' = pos[p] + 1 /\ Arg(p) \in DOMAIN States[p]
<1>1. /\ Frame(p) /\ Calls(p, "lock_all") /\ pc'[p] = "user" /\ pos'[p] = pos[p] + 1
      /\ todo' = todo /\ entered' = entered /\ StartEpochs(p, {Arg(p)})
  BY WinLockAllEffect
<1>1a. DOMAIN States'[p] = DOMAIN States[p]
  BY <1>1, StartEffect
<1>2. /\ prog' = prog /\ pc[p] = "user" /\ pos[p] < Len(prog)
      /\ prog[pos[p] + 1].op = "lock_all" /\ Concerns(prog[pos[p] + 1], p)
  BY <1>1 DEF Calls, Frame
<1>3. At(p) = pos[p] /\ At(p)' = pos[p] + 1
  BY <1>1, <1>2 DEF At
<1>4. pos[p] \in Nat /\ Len(prog) \in Nat /\ PositionOK(p) /\ prog \in Programs
  BY CallFacts DEF PlaceOK
<1>5. PositionOK(p)' /\ WaitingOK(p)'
  BY <1>1, <1>1a, <1>2, <1>4 DEF PositionOK, WaitingOK, Clearing
<1>6. KnownOK(p)' /\ EnteredOK(p)'
  BY <1>1, <1>1a, <1>2, <1>3, PlainCall
<1>7. Arg(p) \in DOMAIN States[p]
  <2>1. pos[p] + 1 \in DOMAIN prog /\ ProgramOK(prog)
    BY <1>2, <1>4, CallFacts, ProgramFacts
  <2>2. Exists(prog, Arg(p), pos[p])
    BY <1>2, <1>4, <2>1 DEF ProgramOK, Arg
  <2>3. p \in Members[CommOf[Arg(p)]] /\ Arg(p) \in Wins
    BY <1>2, CallFacts DEF Concerns, CommOfCall, Arg
  <2> QED
    BY <1>3, <2>2, <2>3 DEF PlaceOK, KnownOK
<1> QED
  BY <1>3, <1>5, <1>6, <1>7 DEF PlaceOK

LEMMA WinUnlockAllPlace ==
  ASSUME TypeOK, NEW p \in Procs, PlaceOK(p), WinUnlockAll(p)
  PROVE  PlaceOK(p)' /\ At(p) = pos[p] /\ At(p)' = At(p) /\ Arg(p) \in DOMAIN States[p]
<1>1. /\ Frame(p) /\ Calls(p, "unlock_all") /\ pc'[p] = "sweep" /\ todo'[p] = {Arg(p)}
      /\ UNCHANGED <<pos, States, entered>>
  BY WinUnlockAllEffect
<1>2. /\ prog' = prog /\ pc[p] = "user" /\ pos[p] < Len(prog)
      /\ prog[pos[p] + 1].op = "unlock_all" /\ Concerns(prog[pos[p] + 1], p)
  BY <1>1 DEF Calls, Frame
<1>3. At(p) = pos[p] /\ At(p)' = At(p)
  BY <1>1, <1>2 DEF At
<1>4. pos[p] \in Nat /\ Len(prog) \in Nat /\ PositionOK(p) /\ prog \in Programs
  BY CallFacts DEF PlaceOK
<1>5. Arg(p) \in DOMAIN States[p]
  <2>1. pos[p] + 1 \in DOMAIN prog /\ ProgramOK(prog)
    BY <1>2, <1>4, CallFacts, ProgramFacts
  <2>2. Exists(prog, Arg(p), pos[p])
    BY <1>2, <1>4, <2>1 DEF ProgramOK, Arg
  <2>3. p \in Members[CommOf[Arg(p)]] /\ Arg(p) \in Wins
    BY <1>2, CallFacts DEF Concerns, CommOfCall, Arg
  <2> QED
    BY <1>3, <2>2, <2>3 DEF PlaceOK, KnownOK
<1>6. PositionOK(p)' /\ WaitingOK(p)'
  BY <1>1, <1>2, <1>4, <1>5 DEF PositionOK, WaitingOK, Clearing, Arg
<1>7. KnownOK(p)' /\ EnteredOK(p)'
  BY <1>1, <1>2, <1>3 DEF PlaceOK, KnownOK, EnteredOK
<1> QED
  BY <1>3, <1>5, <1>6, <1>7 DEF PlaceOK

LEMMA BarrierPlace ==
  ASSUME TypeOK, NEW p \in Procs, PlaceOK(p), Barrier(p)
  PROVE  PlaceOK(p)' /\ At(p) = pos[p] /\ At(p)' = At(p)
<1>1. /\ Frame(p) /\ Calls(p, "barrier") /\ pc'[p] = "sweep" /\ todo'[p] = Sweep(p)
      /\ UNCHANGED <<pos, States, entered>>
  BY BarrierEffect
<1>2. /\ prog' = prog /\ pc[p] = "user" /\ pos[p] < Len(prog)
      /\ prog[pos[p] + 1].op = "barrier" /\ Concerns(prog[pos[p] + 1], p)
  BY <1>1 DEF Calls, Frame
<1>3. At(p) = pos[p] /\ At(p)' = At(p)
  BY <1>1, <1>2 DEF At
<1>4. pos[p] \in Nat /\ Len(prog) \in Nat /\ PositionOK(p) /\ Sweep(p) \subseteq DOMAIN States[p]
  BY CallFacts DEF PlaceOK, Sweep
<1>5. PositionOK(p)' /\ WaitingOK(p)'
  BY <1>1, <1>2, <1>4 DEF PositionOK, WaitingOK, Clearing
<1>6. KnownOK(p)' /\ EnteredOK(p)'
  BY <1>1, <1>2, <1>3 DEF PlaceOK, KnownOK, EnteredOK
<1> QED
  BY <1>3, <1>5, <1>6 DEF PlaceOK

(* The window that is cleared next is one. *)
LEMMA NextUnique ==
  ASSUME TypeOK, NEW p \in Procs, NEW v, NEW w, IsNext(p, v), IsNext(p, w)
  PROVE  v = w
<1>1. v \in Wins /\ w \in Wins /\ handle[p][v] <= handle[p][w] /\ handle[p][w] <= handle[p][v]
  BY DEF IsNext, TypeOK
<1> QED
  BY <1>1, HandleFacts

LEMMA ReducePlace ==
  ASSUME TypeOK, NEW p \in Procs, PlaceOK(p), Reduce(p)
  PROVE  PlaceOK(p)' /\ At(p) = pos[p] /\ At(p)' = At(p) /\ DOMAIN reduced \subseteq DOMAIN reduced'
<1>1. /\ Frame(p) /\ pc[p] = "sweep" /\ pc'[p] = "reduce" /\ UNCHANGED <<pos, todo, States, rounds, entered>>
  BY ReduceEffect
<1>1a. PICK w \in todo[p] :
         /\ w \in Wins /\ IsNext(p, w)
         /\ Contribute(<<CommOf[w], rounds[p][CommOf[w]]>>, p, States[p][w].array)
  BY ReduceEffect
<1>2. prog' = prog /\ handle' = handle
  BY <1>1 DEF Frame
<1>3. At(p) = pos[p] /\ At(p)' = At(p)
  BY <1>1 DEF At
<1>4. PositionOK(p)'
  BY <1>1, <1>2 DEF PlaceOK, PositionOK, Clearing
<1>5. DOMAIN reduced' = DOMAIN reduced \cup {<<CommOf[w], rounds[p][CommOf[w]]>>}
  BY <1>1a DEF Contribute
<1>6. WaitingOK(p)'
  <2> SUFFICES ASSUME NEW v \in Wins, IsNext(p, v)'
               PROVE  <<CommOf[v], rounds'[p][CommOf[v]]>> \in DOMAIN reduced'
    BY DEF WaitingOK
  <2>1. IsNext(p, v)
    BY <1>1, <1>2 DEF IsNext
  <2>2. v = w
    BY <1>1a, <2>1, NextUnique
  <2> QED
    BY <1>1, <1>5, <2>2
<1>7. KnownOK(p)' /\ EnteredOK(p)'
  BY <1>1, <1>2, <1>3 DEF PlaceOK, KnownOK, EnteredOK
<1> QED
  BY <1>3, <1>4, <1>5, <1>6, <1>7 DEF PlaceOK

LEMMA ReduceReturnsPlace ==
  ASSUME TypeOK, NEW p \in Procs, PlaceOK(p), ReduceReturns(p)
  PROVE  PlaceOK(p)' /\ At(p) = pos[p] /\ At(p)' = At(p)
<1>0. todo[p] \subseteq DOMAIN States[p]
  BY DEF PlaceOK, PositionOK
<1>1. /\ Frame(p) /\ pc[p] = "reduce" /\ pc'[p] = "join" /\ UNCHANGED <<pos, todo, entered>>
      /\ DOMAIN States'[p] = DOMAIN States[p]
  BY <1>0, ReduceReturnsEffect
<1>2. prog' = prog
  BY <1>1 DEF Frame
<1>3. At(p) = pos[p] /\ At(p)' = At(p)
  BY <1>1 DEF At
<1>4. PositionOK(p)' /\ WaitingOK(p)'
  BY <1>1, <1>2 DEF PlaceOK, PositionOK, Clearing, WaitingOK
<1>5. KnownOK(p)' /\ EnteredOK(p)'
  BY <1>1, <1>2, <1>3 DEF PlaceOK, KnownOK, EnteredOK
<1> QED
  BY <1>3, <1>4, <1>5 DEF PlaceOK

LEMMA JoinPlace ==
  ASSUME TypeOK, NEW p \in Procs, PlaceOK(p), Join(p)
  PROVE  /\ PlaceOK(p)' /\ At(p) = pos[p]
         /\ prog[pos[p] + 1].op = "barrier" => At(p)' = At(p)
         /\ prog[pos[p] + 1].op # "barrier" => /\ At(p)' = pos[p] + 1 /\ prog[pos[p] + 1].op = "unlock_all"
                                               /\ todo[p] = {prog[pos[p] + 1].on}
<1>0. todo[p] \subseteq DOMAIN States[p] /\ PositionOK(p)
  BY DEF PlaceOK, PositionOK
<1> DEFINE inBarrier == prog[pos[p] + 1].op = "barrier"
<1>1. /\ Frame(p) /\ pc[p] = "join" /\ entered' = entered /\ DOMAIN States'[p] = DOMAIN States[p]
      /\ inBarrier => pc'[p] = "sweep" /\ pos'[p] = pos[p]
      /\ ~ inBarrier => pc'[p] = "user" /\ pos'[p] = pos[p] + 1
      /\ \E w \in todo[p] : todo'[p] = todo[p] \ {w}
  BY <1>0, JoinEffect
<1>2. prog' = prog
  BY <1>1 DEF Frame
<1>3. /\ pos[p] < Len(prog) /\ Concerns(prog[pos[p] + 1], p)
      /\ prog[pos[p] + 1].op \in {"unlock_all", "barrier"}
      /\ prog[pos[p] + 1].op = "unlock_all" => todo[p] = {prog[pos[p] + 1].on}
  BY <1>0, <1>1 DEF PositionOK, Clearing
<1>4. At(p) = pos[p] /\ pos[p] \in Nat /\ Len(prog) \in Nat
  BY <1>1, CallFacts DEF At
<1>5. CASE inBarrier
  <2>1. At(p)' = At(p)
    BY <1>1, <1>4, <1>5 DEF At
  <2>2. PositionOK(p)' /\ WaitingOK(p)'
    BY <1>0, <1>1, <1>2, <1>3, <1>5 DEF PositionOK, WaitingOK, Clearing
  <2>3. KnownOK(p)' /\ EnteredOK(p)'
    BY <1>1, <1>2, <2>1 DEF PlaceOK, KnownOK, EnteredOK
  <2> QED
    BY <1>4, <1>5, <2>1, <2>2, <2>3 DEF PlaceOK
<1>6. CASE ~ inBarrier
  <2>1. At(p)' = pos[p] + 1
    BY <1>1, <1>6 DEF At
  <2>2. PositionOK(p)' /\ WaitingOK(p)'
    BY <1>0, <1>1, <1>2, <1>3, <1>4, <1>6 DEF PositionOK, WaitingOK, Clearing
  <2>3. KnownOK(p)' /\ EnteredOK(p)'
    BY <1>1, <1>2, <1>3, <1>4, <1>6, <2>1, PlainCall
  <2> QED
    BY <1>3, <1>4, <1>6, <2>1, <2>2, <2>3 DEF PlaceOK
<1> QED
  BY <1>5, <1>6

LEMMA RestartPlace ==
  ASSUME TypeOK, NEW p \in Procs, PlaceOK(p), Restart(p)
  PROVE  /\ PlaceOK(p)' /\ At(p) = pos[p] /\ At(p)' = pos[p] + 1
         /\ prog[pos[p] + 1].op = "barrier" /\ Concerns(prog[pos[p] + 1], p) /\ pos[p] < Len(prog)
<1>1. /\ Frame(p) /\ pc[p] = "sweep" /\ todo[p] = {} /\ pc'[p] = "sync" /\ UNCHANGED <<pos, todo>>
      /\ entered' = [entered EXCEPT ![p][CommOfCall(prog[pos[p] + 1])] = @ + 1]
      /\ \E W : StartEpochs(p, W)
  BY RestartEffect
<1>1a. DOMAIN States'[p] = DOMAIN States[p]
  BY <1>1, StartEffect
<1>2. prog' = prog /\ At(p) = pos[p] /\ At(p)' = pos[p] + 1
  BY <1>1 DEF Frame, At
<1>3. pos[p] < Len(prog) /\ Concerns(prog[pos[p] + 1], p) /\ prog[pos[p] + 1].op = "barrier" /\ PositionOK(p)
  BY <1>1 DEF PlaceOK, PositionOK, Clearing
<1>4. pos[p] \in Nat /\ Len(prog) \in Nat /\ prog \in Programs
  BY CallFacts
<1>5. PositionOK(p)' /\ WaitingOK(p)'
  BY <1>1, <1>1a, <1>2, <1>3 DEF PositionOK, WaitingOK, Clearing
<1>6. \A w \in Wins : Exists(prog, w, pos[p] + 1) <=> Exists(prog, w, pos[p])
  <2>1. \A w : ~ Is(prog, pos[p] + 1, "create", w) /\ ~ Is(prog, pos[p] + 1, "free", w)
    BY <1>3 DEF Is
  <2> QED
    BY <1>3, <1>4, <2>1, ExistsStep
<1>7. KnownOK(p)'
  BY <1>1a, <1>2, <1>6 DEF KnownOK, PlaceOK
<1>8. EnteredOK(p)'
  BY <1>1, <1>2, <1>3, EnteredStep, EnterSyncCounts
<1> QED
  BY <1>2, <1>3, <1>5, <1>7, <1>8 DEF PlaceOK

LEMMA LeaveSyncPlace ==
  ASSUME TypeOK, NEW p \in Procs, PlaceOK(p), LeaveSync(p)
  PROVE  PlaceOK(p)' /\ At(p) = pos[p] + 1 /\ At(p)' = At(p)
<1>1. /\ Frame(p) /\ pc[p] = "sync" /\ pc'[p] = "user" /\ pos'[p] = pos[p] + 1
      /\ UNCHANGED <<todo, States, entered>>
  BY LeaveSyncEffect
<1>2. prog' = prog /\ At(p) = pos[p] + 1 /\ At(p)' = At(p)
  BY <1>1 DEF Frame, At
<1>3. pos[p] \in Nat /\ Len(prog) \in Nat /\ PositionOK(p)
  BY CallFacts DEF PlaceOK
<1>4. PositionOK(p)' /\ WaitingOK(p)'
  BY <1>1, <1>2, <1>3 DEF PositionOK, WaitingOK, Clearing
<1>5. KnownOK(p)' /\ EnteredOK(p)'
  BY <1>1, <1>2 DEF PlaceOK, KnownOK, EnteredOK
<1> QED
  BY <1>2, <1>4, <1>5 DEF PlaceOK

(* What leaves the place of p and its windows leaves PlaceOK. *)
LEMMA PlaceStays ==
  ASSUME TypeOK, NEW p \in Procs, PlaceOK(p), Frame(p), DOMAIN States'[p] = DOMAIN States[p],
         UNCHANGED <<pos, pc, todo, rounds, entered, reduced>>
  PROVE  PlaceOK(p)' /\ At(p)' = At(p)
<1>1. prog' = prog /\ handle' = handle /\ At(p)' = At(p)
  BY DEF Frame, At
<1> QED
  BY <1>1 DEF PlaceOK, PositionOK, KnownOK, EnteredOK, WaitingOK, IsNext

(* Every step is one of some process. *)
LEMMA PlaceStep ==
  ASSUME TypeOK, \A q \in Procs : PlaceOK(q), NEW p \in Procs,
         App(p) \/ (\E w \in Wins, q \in Procs : Communicate(p, w, q)) \/ \E w \in Wins : CheckThread(p, w)
  PROVE  /\ Frame(p) /\ DOMAIN reduced \subseteq DOMAIN reduced'
         /\ \A q \in Procs : PlaceOK(q)'
         /\ \A q \in Procs : q # p => At(q)' = At(q)
         /\ At(p)' = At(p) \/ (At(p) = pos[p] /\ At(p)' = pos[p] + 1)
<1>1. ASSUME Frame(p), DOMAIN reduced \subseteq DOMAIN reduced', PlaceOK(p)'
      PROVE  \A q \in Procs : PlaceOK(q)'
  BY <1>1, PlaceFrame
<1>2. ASSUME Frame(p), NEW q \in Procs, q # p PROVE At(q)' = At(q)
  BY <1>2 DEF Frame, At
<1>3. /\ Frame(p) /\ DOMAIN reduced \subseteq DOMAIN reduced' /\ PlaceOK(p)'
      /\ At(p)' = At(p) \/ (At(p) = pos[p] /\ At(p)' = pos[p] + 1)
  <2>0. todo[p] \subseteq DOMAIN States[p] /\ PlaceOK(p)
    BY DEF PlaceOK, PositionOK
  <2>1. CASE SkipCall(p)
    BY <2>0, <2>1, SkipCallEffect, SkipCallPlace
  <2>2. CASE WinCreate(p)
    <3>1. Frame(p) /\ reduced' = reduced
      BY <2>2, WinCreateEffect
    <3> QED
      BY <2>0, <2>2, <3>1, WinCreatePlace
  <2>3. CASE WinFree(p)
    <3>1. Frame(p) /\ reduced' = reduced
      BY <2>3, WinFreeEffect
    <3> QED
      BY <2>0, <2>3, <3>1, WinFreePlace
  <2>4. CASE WinLockAll(p)
    BY <2>0, <2>4, WinLockAllEffect, WinLockAllPlace
  <2>5. CASE WinUnlockAll(p)
    BY <2>0, <2>5, WinUnlockAllEffect, WinUnlockAllPlace
  <2>6. CASE Barrier(p)
    BY <2>0, <2>6, BarrierEffect, BarrierPlace
  <2>7. CASE Reduce(p)
    BY <2>0, <2>7, ReduceEffect, ReducePlace
  <2>8. CASE ReduceReturns(p)
    <3>1. Frame(p) /\ reduced' = reduced
      BY <2>0, <2>8, ReduceReturnsEffect
    <3> QED
      BY <2>0, <2>8, <3>1, ReduceReturnsPlace
  <2>9. CASE Join(p)
    <3>1. Frame(p) /\ reduced' = reduced
      BY <2>0, <2>9, JoinEffect
    <3> QED
      BY <2>0, <2>9, <3>1, JoinPlace
  <2>10. CASE Restart(p)
    BY <2>0, <2>10, RestartEffect, RestartPlace
  <2>11. CASE LeaveSync(p)
    <3>1. Frame(p) /\ reduced' = reduced
      BY <2>11, LeaveSyncEffect
    <3> QED
      BY <2>0, <2>11, <3>1, LeaveSyncPlace
  <2>12. ASSUME NEW w \in Wins, NEW q \in Procs, Communicate(p, w, q)
         PROVE  /\ Frame(p) /\ DOMAIN reduced \subseteq DOMAIN reduced' /\ PlaceOK(p)' /\ At(p)' = At(p)
    <3>1. Frame(p) /\ DOMAIN States'[p] = DOMAIN States[p] /\ UNCHANGED <<pos, pc, todo, rounds, entered, reduced>>
      BY <2>12, CommunicateEffect
    <3> QED
      BY <2>0, <3>1, PlaceStays
  <2>13. ASSUME NEW w \in Wins, CheckThread(p, w)
         PROVE  /\ Frame(p) /\ DOMAIN reduced \subseteq DOMAIN reduced' /\ PlaceOK(p)' /\ At(p)' = At(p)
    <3>1. Frame(p) /\ DOMAIN States'[p] = DOMAIN States[p] /\ UNCHANGED <<pos, pc, todo, rounds, entered, reduced>>
      BY <2>13, ReceiveEffect, ExitThreadEffect DEF CheckThread
    <3> QED
      BY <2>0, <3>1, PlaceStays
  <2> QED
    BY <2>1, <2>2, <2>3, <2>4, <2>5, <2>6, <2>7, <2>8, <2>9, <2>10, <2>11, <2>12, <2>13 DEF App
<1> QED
  BY <1>1, <1>2, <1>3

(* A call that p has just made. *)
LEMMA PosStep ==
  ASSUME TypeOK, \A q \in Procs : PlaceOK(q), NEW p \in Procs,
         App(p) \/ (\E w \in Wins, q \in Procs : Communicate(p, w, q)) \/ \E w \in Wins : CheckThread(p, w)
  PROVE  LET call == prog[pos[p] + 1] IN
         /\ pos'[p] = pos[p] \/ (pos'[p] = pos[p] + 1 /\ pos[p] < Len(prog))
         /\ pos'[p] # pos[p] => \/ ~ Concerns(call, p)
                                \/ call.op \in {"lock_all", "unlock_all"}
                                \/ WinCreate(p) \/ LeaveSync(p)
         /\ WinCreate(p) \/ given' = given
<1> DEFINE call == prog[pos[p] + 1]
           Goal == /\ pos'[p] = pos[p] \/ (pos'[p] = pos[p] + 1 /\ pos[p] < Len(prog))
                   /\ pos'[p] # pos[p] => \/ ~ Concerns(call, p)
                                          \/ call.op \in {"lock_all", "unlock_all"}
                                          \/ WinCreate(p) \/ LeaveSync(p)
                   /\ WinCreate(p) \/ given' = given
<1>0. /\ todo[p] \subseteq DOMAIN States[p]
      /\ pc[p] # "user" => pos[p] < Len(prog)
      /\ pc[p] \in Clearing => call.op \in {"unlock_all", "barrier"}
  BY DEF PlaceOK, PositionOK
<1>1. CASE SkipCall(p)
  BY <1>1, SkipCallEffect
<1>2. CASE WinCreate(p)
  <2>1. pos'[p] = pos[p] + 1 /\ Calls(p, "create")
    BY <1>2, WinCreateEffect
  <2> QED
    BY <1>2, <2>1 DEF Calls
<1>3. CASE WinFree(p)
  <2>1. pos' = pos /\ given' = given
    BY <1>3, WinFreeEffect
  <2> QED
    BY <2>1
<1>4. CASE WinLockAll(p)
  <2>1. pos'[p] = pos[p] + 1 /\ Calls(p, "lock_all") /\ given' = given
    BY <1>4, WinLockAllEffect
  <2> QED
    BY <2>1 DEF Calls
<1>5. CASE WinUnlockAll(p)
  BY <1>5, WinUnlockAllEffect
<1>6. CASE Barrier(p)
  BY <1>6, BarrierEffect
<1>7. CASE Reduce(p)
  BY <1>7, ReduceEffect
<1>8. CASE ReduceReturns(p)
  <2>1. pos' = pos /\ given' = given
    BY <1>0, <1>8, ReduceReturnsEffect
  <2> QED
    BY <2>1
<1>9. CASE Join(p)
  <2>1. /\ pc[p] = "join" /\ given' = given
        /\ call.op = "barrier" => pos'[p] = pos[p]
        /\ call.op # "barrier" => pos'[p] = pos[p] + 1
    BY <1>0, <1>9, JoinEffect
  <2> QED
    BY <1>0, <2>1 DEF Clearing
<1>10. CASE Restart(p)
  BY <1>10, RestartEffect
<1>11. CASE LeaveSync(p)
  <2>1. pos'[p] = pos[p] + 1 /\ pc[p] = "sync" /\ given' = given
    BY <1>11, LeaveSyncEffect
  <2> QED
    BY <1>0, <1>11, <2>1
<1>12. ASSUME NEW w \in Wins, NEW q \in Procs, Communicate(p, w, q) PROVE Goal
  <2>1. pos' = pos /\ given' = given
    BY <1>12, CommunicateEffect
  <2> QED
    BY <2>1
<1>13. ASSUME NEW w \in Wins, CheckThread(p, w) PROVE Goal
  <2>1. pos' = pos /\ given' = given
    BY <1>13, ReceiveEffect, ExitThreadEffect DEF CheckThread
  <2> QED
    BY <2>1
<1> QED
  BY <1>1, <1>2, <1>3, <1>4, <1>5, <1>6, <1>7, <1>8, <1>9, <1>10, <1>11, <1>12, <1>13 DEF App

(* No process leaves a synchronising call that another has not entered. *)
LEMMA SyncStep ==
  ASSUME TypeOK, SyncOK, \A q \in Procs : PlaceOK(q), NEW p \in Procs,
         App(p) \/ (\E w \in Wins, q \in Procs : Communicate(p, w, q)) \/ \E w \in Wins : CheckThread(p, w)
  PROVE  SyncOK'
<1>1. /\ Frame(p) /\ prog' = prog
      /\ \A q \in Procs : q # p => At(q)' = At(q) /\ pos'[q] = pos[q]
      /\ At(p)' = At(p) \/ (At(p) = pos[p] /\ At(p)' = pos[p] + 1)
  BY PlaceStep DEF Frame
<1>2. \A q \in Procs : At(q) \in Nat /\ At(q)' \in Nat /\ At(q) <= At(q)' /\ pos[q] \in Nat
  <2>1. \A q \in Procs : At(q) \in Nat /\ pos[q] \in Nat
    BY CallFacts
  <2> QED
    BY <1>1, <2>1
<1> SUFFICES ASSUME NEW c \in Comms, NEW r \in Members[c], NEW q \in Members[c],
                    NEW k \in Syncs(prog, c), k <= pos'[r]
             PROVE  k <= At(q)'
  BY <1>1 DEF SyncOK
<1>3. r \in Procs /\ q \in Procs /\ k \in Nat
  BY MemberFacts, CallFacts DEF Syncs
<1>4. CASE k <= pos[r]
  <2>1. k <= At(q)
    BY <1>4 DEF SyncOK
  <2> QED
    BY <1>2, <1>3, <2>1
<1>5. CASE ~ (k <= pos[r])
  <2>1. r = p
    BY <1>1, <1>3, <1>5
  <2>2. k = pos[p] + 1 /\ pos'[p] # pos[p]
    BY <1>2, <1>3, <1>5, <2>1, PosStep
  <2>3. prog[k].op \in {"barrier", "free"} /\ CommOfCall(prog[k]) = c /\ Concerns(prog[k], p)
    BY <2>1 DEF Syncs, Concerns
  <2>4. LeaveSync(p)
    <3>1. ~ WinCreate(p)
      BY <2>2, <2>3 DEF WinCreate, Calls
    <3> QED
      BY <2>2, <2>3, <3>1, PosStep
  <2>5. entered[q][c] >= entered[p][c]
    BY <2>2, <2>3, <2>4, LeaveSyncEffect
  <2>6. At(p) = k
    BY <2>2, <2>4, LeaveSyncPlace
  <2>7. entered[p][c] = Cardinality(1 .. k \cap Syncs(prog, c)) /\ entered[q][c] = Cardinality(1 .. At(q) \cap Syncs(prog, c))
    BY <1>3, <2>1, <2>6 DEF PlaceOK, EnteredOK
  <2>8. /\ Cardinality(1 .. pos[p] + 1 \cap Syncs(prog, c)) = Cardinality(1 .. pos[p] \cap Syncs(prog, c)) + 1
        /\ Cardinality(1 .. pos[p] \cap Syncs(prog, c)) \in Nat
    BY <1>2, <2>2, CountStep
  <2>9. ASSUME At(q) <= pos[p] PROVE FALSE
    <3>1. Cardinality(1 .. At(q) \cap Syncs(prog, c)) <= Cardinality(1 .. pos[p] \cap Syncs(prog, c))
      BY <1>2, <1>3, <2>9, CountMonotone
    <3>2. Cardinality(1 .. At(q) \cap Syncs(prog, c)) \in Nat
      BY <1>2, <1>3, CountStep
    <3> QED
      BY <2>2, <2>5, <2>7, <2>8, <3>1, <3>2
  <2> QED
    BY <1>2, <1>3, <2>2, <2>9
<1> QED
  BY <1>4, <1>5

LEMMA CreatedStep ==
  ASSUME TypeOK, CreatedOK, \A q \in Procs : PlaceOK(q), NEW p \in Procs,
         App(p) \/ (\E w \in Wins, q \in Procs : Communicate(p, w, q)) \/ \E w \in Wins : CheckThread(p, w)
  PROVE  CreatedOK'
<1>1. prog' = prog /\ \A q \in Procs : q # p => pos'[q] = pos[q]
  BY PlaceStep DEF Frame
<1>2. \A q \in Procs : pos[q] \in Nat
  BY CallFacts
<1> SUFFICES ASSUME NEW w \in Wins
             PROVE  given'[w] # {} <=>
                      \E q \in Members[CommOf[w]] : \E j \in 1 .. pos'[q] : Is(prog, j, "create", w)
  BY <1>1 DEF CreatedOK
<1>3. Members[CommOf[w]] \subseteq Procs
  BY MemberFacts
<1>4. given[w] # {} <=> \E q \in Members[CommOf[w]] : \E j \in 1 .. pos[q] : Is(prog, j, "create", w)
  BY DEF CreatedOK
<1>5. CASE WinCreate(p) /\ w = Arg(p)
  <2>1. given'[w] # {} /\ Calls(p, "create") /\ pos'[p] = pos[p] + 1
    <3>1. given'[Arg(p)] = given[Arg(p)] \cup {MaxEpoch * get_tag_range_id(win_mpi_tag_id[p])}
      BY <1>5, WinCreateEffect
    <3>2. Calls(p, "create") /\ pos'[p] = pos[p] + 1
      BY <1>5, WinCreateEffect
    <3> QED
      BY <1>5, <3>1, <3>2
  <2>2. p \in Members[CommOf[w]] /\ Is(prog, pos[p] + 1, "create", w)
    BY <1>5, <2>1 DEF Calls, Concerns, CommOfCall, Arg, Is
  <2>3. pos[p] + 1 \in 1 .. pos'[p]
    BY <1>2, <2>1
  <2> QED
    BY <2>1, <2>2, <2>3
<1>6. CASE ~ (WinCreate(p) /\ w = Arg(p))
  <2>1. given'[w] = given[w]
    <3>1. CASE WinCreate(p)
      BY <1>6, <3>1, WinCreateEffect
    <3>2. CASE ~ WinCreate(p)
      BY <3>2, PosStep
    <3> QED
      BY <3>1, <3>2
  <2>2. ASSUME p \in Members[CommOf[w]], pos'[p] # pos[p], Is(prog, pos[p] + 1, "create", w)
        PROVE  FALSE
    <3>1. Concerns(prog[pos[p] + 1], p) /\ prog[pos[p] + 1].op = "create" /\ Arg(p) = w
      BY <2>2 DEF Is, Concerns, CommOfCall, Arg
    <3>2. LeaveSync(p)
      BY <1>6, <2>2, <3>1, PosStep
    <3>3. pc[p] = "sync"
      BY <3>2, LeaveSyncEffect
    <3> QED
      BY <3>1, <3>3 DEF PlaceOK, PositionOK
  <2>3. pos'[p] = pos[p] \/ pos'[p] = pos[p] + 1
    BY PosStep
  <2>4. ASSUME NEW q \in Members[CommOf[w]]
        PROVE  (\E j \in 1 .. pos'[q] : Is(prog, j, "create", w)) <=>
                 (\E j \in 1 .. pos[q] : Is(prog, j, "create", w))
    <3>1. CASE pos'[q] = pos[q]
      BY <3>1
    <3>2. CASE pos'[q] # pos[q]
      <4>1. q = p /\ pos'[p] = pos[p] + 1 /\ ~ Is(prog, pos[p] + 1, "create", w)
        BY <1>1, <1>3, <2>2, <2>3, <3>2
      <4>2. 1 .. pos[p] + 1 = 1 .. pos[p] \cup {pos[p] + 1}
        BY <1>2
      <4> QED
        BY <4>1, <4>2
    <3> QED
      BY <3>1, <3>2
  <2> QED
    BY <1>4, <2>1, <2>4
<1> QED
  BY <1>5, <1>6

-----------------------------------------------------------------------------
(* Threads. *)
LEMMA ThreadFrame ==
  ASSUME NEW p \in Procs, NEW q \in Procs, q # p, Frame(p), ThreadsOK(q)
  PROVE  ThreadsOK(q)'
<1>1. /\ prog' = prog /\ handle' = handle /\ pos'[q] = pos[q] /\ pc'[q] = pc[q]
      /\ todo'[q] = todo[q] /\ States'[q] = States[q]
  BY DEF Frame
<1>2. At(q)' = At(q)
  BY <1>1 DEF At
<1>3. \A w : (IsNext(q, w)' <=> IsNext(q, w)) /\ (InBarrier(q)' <=> InBarrier(q))
  BY <1>1 DEF IsNext, InBarrier
<1> QED
  BY <1>1, <1>2, <1>3 DEF ThreadsOK, ThreadOK, Swept

(* The call after i leaves the epochs of w unless it locks or unlocks it.  *)
LEMMA InEpochSame ==
  ASSUME NEW P, NEW w, NEW i \in Nat, ~ Is(P, i + 1, "lock_all", w), ~ Is(P, i + 1, "unlock_all", w)
  PROVE  InEpoch(P, w, i + 1) <=> InEpoch(P, w, i)
BY InEpochStep

(* Calls that leave the threads of p alone. *)
LEMMA ThreadKept ==
  ASSUME TypeOK, NEW p \in Procs, PlaceOK(p), NEW w \in DOMAIN States[p], ThreadOK(p, w),
         pc[p] # "join", ~ InBarrier(p), prog' = prog, States'[p][w] = States[p][w],
         pc'[p] \notin Clearing,
         InEpoch(prog, w, At(p)') <=> InEpoch(prog, w, At(p))
  PROVE  ThreadOK(p, w)'
<1>1. ~ InBarrier(p)' /\ pc'[p] # "join" /\ ~ Swept(p, w) /\ ~ Swept(p, w)'
  BY DEF InBarrier, Swept, Clearing
<1> QED
  BY <1>1 DEF ThreadOK

LEMMA WinLockAllThreads ==
  ASSUME TypeOK, NEW p \in Procs, PlaceOK(p), ThreadsOK(p), WinLockAll(p)
  PROVE  ThreadsOK(p)'
<1> PICK a : a = Arg(p)
  OBVIOUS
<1>1. /\ Frame(p) /\ Calls(p, "lock_all") /\ StartEpochs(p, {a}) /\ pc'[p] = "user"
  BY WinLockAllEffect
<1>2. At(p) = pos[p] /\ At(p)' = pos[p] + 1 /\ a \in DOMAIN States[p]
  BY WinLockAllPlace
<1>3. /\ prog' = prog /\ pc[p] = "user" /\ pos[p] < Len(prog) /\ pos[p] \in Nat
      /\ \A w : Is(prog, pos[p] + 1, "lock_all", w) <=> w = a
      /\ \A w : ~ Is(prog, pos[p] + 1, "unlock_all", w)
  BY <1>1, CallFacts DEF Calls, Frame, Arg
<1>4. /\ DOMAIN States'[p] = DOMAIN States[p] /\ States'[p][a] = Started(States[p][a])
      /\ \A w \in DOMAIN States[p] : w # a => States'[p][w] = States[p][w]
  BY <1>1, <1>2, StartEffect
<1>5. ~ InBarrier(p) /\ ~ InBarrier(p)' /\ pc'[p] # "join" /\ pc'[p] \notin Clearing
  BY <1>1, <1>3 DEF InBarrier, Clearing
<1>6. ASSUME NEW w \in DOMAIN States[p], w # a PROVE ThreadOK(p, w)'
  <2>1. InEpoch(prog, w, At(p)') <=> InEpoch(prog, w, At(p))
    BY <1>2, <1>3, <1>6, InEpochSame
  <2> QED
    BY <1>3, <1>4, <1>5, <1>6, <2>1, ThreadKept DEF ThreadsOK
<1>7. ThreadOK(p, a)'
  <2>1. InEpoch(prog, a, At(p)')
    BY <1>2, <1>3, InEpochStep
  <2>2. /\ States'[p][a].active_epoch = 1 /\ States'[p][a].thread = "test"
        /\ States'[p][a].thread_end = 0
    BY <1>2, <1>4, StateFacts, StartedFacts
  <2> QED
    BY <1>3, <1>5, <2>1, <2>2 DEF ThreadOK, Swept
<1> QED
  BY <1>4, <1>6, <1>7 DEF ThreadsOK

(* A call of p that does not start or end an epoch. *)
LEMMA CallThreads ==
  ASSUME TypeOK, NEW p \in Procs, PlaceOK(p), ThreadsOK(p), Frame(p), pc[p] = "user",
         pos[p] < Len(prog), At(p)' = pos[p] + 1, pc'[p] \in {"user", "sync"},
         LET call == prog[pos[p] + 1] IN
         call.op \in {"create", "free"} \/ ~ Concerns(call, p),
         NEW w \in DOMAIN States[p], States'[p][w] = States[p][w]
  PROVE  ThreadOK(p, w)'
<1>1. At(p) = pos[p] /\ pos[p] \in Nat /\ prog' = prog
  BY CallFacts DEF At, Frame
<1>2. w \in Wins /\ p \in Members[CommOf[w]]
  BY StateFacts DEF PlaceOK, KnownOK
<1>3. ~ Is(prog, pos[p] + 1, "lock_all", w) /\ ~ Is(prog, pos[p] + 1, "unlock_all", w)
  BY <1>2 DEF Is, Concerns, CommOfCall
<1>4. InEpoch(prog, w, At(p)') <=> InEpoch(prog, w, At(p))
  BY <1>1, <1>3, InEpochSame
<1>5. ~ InBarrier(p) /\ pc[p] # "join" /\ pc'[p] \notin Clearing
  BY DEF InBarrier, Clearing
<1> QED
  BY <1>1, <1>4, <1>5, ThreadKept DEF ThreadsOK

LEMMA WinCreateThreads ==
  ASSUME TypeOK, NEW p \in Procs, PlaceOK(p), ThreadsOK(p), WinCreate(p)
  PROVE  ThreadsOK(p)'
<1> PICK a : a = Arg(p)
  OBVIOUS
<1>1. /\ Frame(p) /\ Calls(p, "create") /\ pc'[p] = "user" /\ a \in Wins
      /\ DOMAIN States'[p] = DOMAIN States[p] \cup {a}
      /\ \A v \in DOMAIN States[p] : v # a => States'[p][v] = States[p][v]
      /\ States'[p][a].thread = "off" /\ States'[p][a].active_epoch = 0
  <2>1. /\ Frame(p) /\ Calls(p, "create") /\ pc'[p] = "user" /\ Arg(p) \in Wins
        /\ DOMAIN States'[p] = DOMAIN States[p] \cup {Arg(p)}
        /\ \A v \in DOMAIN States[p] : v # Arg(p) => States'[p][v] = States[p][v]
        /\ States'[p][Arg(p)] =
             [mpi_tag |-> MaxEpoch * get_tag_range_id(win_mpi_tag_id[p]), count_epoch |-> 0,
              active_epoch |-> 0, from_sync |-> 0, thread |-> "off", thread_end |-> 0, count |-> 0,
              value |-> 0, array |-> [q \in Procs |-> 0], landed |-> {}]
    BY WinCreateEffect
  <2>2. States'[p][Arg(p)].thread = "off" /\ States'[p][Arg(p)].active_epoch = 0
    BY <2>1
  <2> QED
    BY <2>1, <2>2
<1>2. At(p) = pos[p] /\ At(p)' = pos[p] + 1
  BY WinCreatePlace
<1>3. /\ prog' = prog /\ pc[p] = "user" /\ pos[p] < Len(prog) /\ prog[pos[p] + 1].op = "create"
      /\ Is(prog, pos[p] + 1, "create", a)
  BY <1>1 DEF Calls, Frame, Arg, Is
<1>4. ASSUME NEW w \in DOMAIN States[p], w # a PROVE ThreadOK(p, w)'
  BY <1>1, <1>2, <1>3, <1>4, CallThreads
<1>5. ThreadOK(p, a)'
  <2>1. ~ InEpoch(prog, a, pos[p] + 1)
    <3>1. prog \in Programs /\ pos[p] \in Nat /\ pos[p] + 1 \in DOMAIN prog /\ DOMAIN prog = 1 .. Len(prog)
      BY <1>3, CallFacts
    <3>2. ASSUME InEpoch(prog, a, pos[p]) PROVE FALSE
      <4>1. PICK j \in 1 .. pos[p] : Is(prog, j, "lock_all", a)
        BY <3>2 DEF InEpoch
      <4>2. j \in DOMAIN prog /\ prog[j].op = "lock_all" /\ prog[j].on = a /\ ProgramOK(prog)
        BY <3>1, <4>1, ProgramFacts DEF Is
      <4>3. Exists(prog, a, j - 1)
        BY <4>2 DEF ProgramOK
      <4>4. PICK k \in 1 .. j - 1 : Is(prog, k, "create", a)
        BY <4>3 DEF Exists
      <4>5. k \in DOMAIN prog /\ k # pos[p] + 1
        BY <3>1
      <4> QED
        BY <1>3, <3>1, <4>4, <4>5, CreatedOnce
    <3> QED
      BY <1>3, <3>1, <3>2, InEpochStep DEF Is
  <2>2. ~ InBarrier(p)'
    BY <1>1 DEF InBarrier, Clearing
  <2> QED
    BY <1>1, <1>2, <1>3, <2>1, <2>2 DEF ThreadOK
<1> QED
  BY <1>1, <1>4, <1>5 DEF ThreadsOK

LEMMA ClearingThreads ==
  ASSUME TypeOK, NEW p \in Procs, PlaceOK(p), ThreadsOK(p), WinUnlockAll(p) \/ Barrier(p)
  PROVE  ThreadsOK(p)'
<1>1. /\ Frame(p) /\ pc[p] = "user" /\ pc'[p] = "sweep" /\ UNCHANGED <<pos, States>>
      /\ prog[pos[p] + 1].op \in {"unlock_all", "barrier"}
      /\ prog[pos[p] + 1].op = "barrier" => todo'[p] = Sweep(p)
  BY WinUnlockAllEffect, BarrierEffect DEF Calls
<1>2. prog' = prog /\ At(p)' = At(p) /\ ~ InBarrier(p)
  BY <1>1 DEF Frame, At, InBarrier, Clearing
<1>3. ASSUME NEW w \in DOMAIN States[p] PROVE ThreadOK(p, w)'
  <2>1. InBarrier(p)' => (w \in todo'[p] <=> States[p][w].active_epoch = 1)
    BY <1>1, <1>2 DEF InBarrier, Sweep
  <2>2. ThreadOK(p, w) /\ ~ Swept(p, w)
    BY <1>2 DEF ThreadsOK, Swept
  <2> QED
    BY <1>1, <1>2, <2>1, <2>2 DEF ThreadOK, Swept
<1> QED
  BY <1>1, <1>3 DEF ThreadsOK

LEMMA ReduceThreads ==
  ASSUME TypeOK, NEW p \in Procs, PlaceOK(p), ThreadsOK(p), Reduce(p)
  PROVE  ThreadsOK(p)'
<1>1. /\ Frame(p) /\ pc[p] = "sweep" /\ pc'[p] = "reduce" /\ UNCHANGED <<pos, States, todo>>
  BY ReduceEffect
<1>2. prog' = prog /\ At(p)' = At(p) /\ (InBarrier(p)' <=> InBarrier(p))
  BY <1>1 DEF Frame, At, InBarrier, Clearing
<1> QED
  BY <1>1, <1>2 DEF ThreadsOK, ThreadOK, Swept

LEMMA ReduceReturnsThreads ==
  ASSUME TypeOK, NEW p \in Procs, PlaceOK(p), ThreadsOK(p), ReduceReturns(p)
  PROVE  ThreadsOK(p)'
<1>0. todo[p] \subseteq DOMAIN States[p]
  BY DEF PlaceOK, PositionOK
<1>1. Frame(p) /\ pc[p] = "reduce" /\ pc'[p] = "join" /\ UNCHANGED <<pos, todo>>
  BY <1>0, ReduceReturnsEffect
<1>2. PICK w \in todo[p] :
        /\ IsNext(p, w) /\ DOMAIN States'[p] = DOMAIN States[p]
        /\ States'[p][w] = [States[p][w] EXCEPT
                              !.value = reduced[<<CommOf[w], rounds[p][CommOf[w]]>>].sum[p],
                              !.thread_end = 1]
        /\ \A v \in DOMAIN States[p] : v # w => States'[p][v] = States[p][v]
  BY <1>0, ReduceReturnsEffect
<1>3. prog' = prog /\ handle' = handle /\ At(p)' = At(p) /\ (InBarrier(p)' <=> InBarrier(p))
  BY <1>1 DEF Frame, At, InBarrier, Clearing
<1>4. /\ States'[p][w].thread = States[p][w].thread /\ States'[p][w].from_sync = States[p][w].from_sync
      /\ States'[p][w].active_epoch = States[p][w].active_epoch
  <2>1. States[p][w] \in State
    BY <1>0, StateFacts
  <2> QED
    BY <1>2, <2>1 DEF State
<1>5. IsNext(p, w)'
  BY <1>1, <1>2, <1>3 DEF IsNext
<1>6. ASSUME NEW v \in DOMAIN States[p], v # w PROVE ThreadOK(p, v)'
  BY <1>1, <1>2, <1>3, <1>6 DEF ThreadsOK, ThreadOK, Swept
<1>7. ThreadOK(p, w)'
  BY <1>0, <1>1, <1>3, <1>4, <1>5 DEF ThreadsOK, ThreadOK, Swept
<1> QED
  BY <1>2, <1>6, <1>7 DEF ThreadsOK

LEMMA JoinThreads ==
  ASSUME TypeOK, NEW p \in Procs, PlaceOK(p), ThreadsOK(p), Join(p), ~ crashed'
  PROVE  ThreadsOK(p)'
<1>0. todo[p] \subseteq DOMAIN States[p]
  BY DEF PlaceOK, PositionOK
<1> DEFINE inBarrier == prog[pos[p] + 1].op = "barrier"
<1>1. /\ Frame(p) /\ pc[p] = "join"
      /\ inBarrier => pc'[p] = "sweep" /\ pos'[p] = pos[p]
      /\ ~ inBarrier => pc'[p] = "user" /\ pos'[p] = pos[p] + 1
  BY <1>0, JoinEffect
<1>2. PICK w \in todo[p] :
        /\ IsNext(p, w) /\ Joinable(States[p][w])
        /\ crashed' = (States[p][w].thread = "off")
        /\ DOMAIN States'[p] = DOMAIN States[p]
        /\ States'[p][w] = IF inBarrier THEN Synced(Joined(States[p][w]))
                           ELSE Joined(States[p][w])
        /\ \A v \in DOMAIN States[p] : v # w => States'[p][v] = States[p][v]
        /\ todo'[p] = todo[p] \ {w}
  BY <1>0, JoinEffect
<1>3. /\ At(p) = pos[p] /\ (inBarrier => At(p)' = At(p))
      /\ ~ inBarrier => At(p)' = pos[p] + 1 /\ prog[pos[p] + 1].op = "unlock_all"
                        /\ todo[p] = {prog[pos[p] + 1].on}
  BY JoinPlace
<1>4. prog' = prog /\ pos[p] \in Nat /\ w \in DOMAIN States[p] /\ States[p][w] \in State
  BY <1>0, <1>1, StateFacts, CallFacts DEF Frame
<1>5. States[p][w].thread = "exit"
  BY <1>2 DEF Joinable
<1>6. /\ States'[p][w].thread = "off" /\ States'[p][w].active_epoch = 0
      /\ inBarrier => States'[p][w].from_sync = 1
  BY <1>2, <1>4, <1>5, JoinedFacts
<1>7. ASSUME NEW v \in DOMAIN States[p], v # w
      PROVE  /\ ThreadOK(p, v) /\ States'[p][v] = States[p][v] /\ ~ IsNext(p, v)
             /\ States[p][v].active_epoch = 1 => States[p][v].thread = "test" /\ States[p][v].thread_end = 0
  <2>1. ~ IsNext(p, v)
    BY <1>2, <1>7, NextUnique
  <2> QED
    BY <1>2, <1>7, <2>1 DEF ThreadsOK, ThreadOK
<1>8. CASE inBarrier
  <2>1. InBarrier(p) /\ InBarrier(p)' /\ pc'[p] = "sweep" /\ At(p)' = At(p)
    BY <1>1, <1>3, <1>4, <1>8 DEF InBarrier, Clearing
  <2>2. ThreadOK(p, w)'
    BY <1>2, <1>4, <1>6, <1>8, <2>1 DEF ThreadOK, Swept
  <2>3. ASSUME NEW v \in DOMAIN States[p], v # w PROVE ThreadOK(p, v)'
    <3>1. v \in todo'[p] <=> v \in todo[p]
      BY <1>2, <2>3
    <3> QED
      BY <1>4, <1>7, <2>1, <2>3, <3>1 DEF ThreadOK, Swept
  <2> QED
    BY <1>2, <2>2, <2>3 DEF ThreadsOK
<1>9. CASE ~ inBarrier
  <2>1. ~ InBarrier(p) /\ ~ InBarrier(p)' /\ pc'[p] = "user" /\ At(p)' = pos[p] + 1 /\ At(p) = pos[p]
    BY <1>1, <1>3, <1>9 DEF InBarrier, Clearing
  <2>2. Is(prog, pos[p] + 1, "unlock_all", w) /\ \A v : v # w => ~ Is(prog, pos[p] + 1, "unlock_all", v)
    BY <1>3, <1>9 DEF Is
  <2>3. \A v : ~ Is(prog, pos[p] + 1, "lock_all", v)
    BY <1>3, <1>9 DEF Is
  <2>4. ThreadOK(p, w)'
    <3>1. ~ InEpoch(prog, w, At(p)')
      BY <1>4, <2>1, <2>2, <2>3, InEpochStep
    <3> QED
      BY <1>4, <1>6, <2>1, <3>1 DEF ThreadOK, Swept
  <2>5. ASSUME NEW v \in DOMAIN States[p], v # w PROVE ThreadOK(p, v)'
    <3>1. InEpoch(prog, v, At(p)') <=> InEpoch(prog, v, At(p))
      BY <1>4, <2>1, <2>2, <2>3, <2>5, InEpochSame
    <3> QED
      BY <1>4, <1>7, <2>1, <2>5, <3>1 DEF ThreadOK, Swept
  <2> QED
    BY <1>2, <2>4, <2>5 DEF ThreadsOK
<1> QED
  BY <1>8, <1>9

LEMMA RestartThreads ==
  ASSUME TypeOK, NEW p \in Procs, PlaceOK(p), ThreadsOK(p), Restart(p)
  PROVE  ThreadsOK(p)'
<1> DEFINE W == {w \in DOMAIN States[p] : /\ States[p][w].active_epoch = 0
                                          /\ States[p][w].from_sync = 1}
<1>1. Frame(p) /\ pc[p] = "sweep" /\ todo[p] = {} /\ pc'[p] = "sync" /\ UNCHANGED pos /\ StartEpochs(p, W)
  BY RestartEffect
<1>2. At(p) = pos[p] /\ At(p)' = pos[p] + 1 /\ prog[pos[p] + 1].op = "barrier" /\ prog' = prog
  BY <1>1, RestartPlace DEF Frame
<1>3. InBarrier(p) /\ ~ InBarrier(p)' /\ pc'[p] # "join"
  BY <1>1, <1>2 DEF InBarrier, Clearing
<1>4. DOMAIN States'[p] = DOMAIN States[p]
  BY <1>1, StartEffect
<1>5. ASSUME NEW w \in DOMAIN States[p] PROVE ThreadOK(p, w)'
  <2>1. InEpoch(prog, w, At(p)') <=> InEpoch(prog, w, At(p))
    <3>1. ~ Is(prog, pos[p] + 1, "lock_all", w) /\ ~ Is(prog, pos[p] + 1, "unlock_all", w)
      BY <1>2 DEF Is
    <3> QED
      BY <1>2, <3>1, InEpochSame, CallFacts
  <2>2. ThreadOK(p, w) /\ States[p][w] \in State /\ States[p][w].active_epoch \in 0 .. 1 /\ States[p][w].from_sync \in 0 .. 1
    BY StateFacts DEF ThreadsOK
  <2>3. States[p][w].active_epoch = 0
    BY <1>1, <1>3, <2>2 DEF ThreadOK
  <2>4. CASE w \in W
    <3>1. States'[p][w] = Started(States[p][w])
      BY <1>1, <2>4, StartEffect
    <3>2. /\ States'[p][w].active_epoch = 1 /\ States'[p][w].thread = "test"
          /\ States'[p][w].thread_end = 0 /\ States'[p][w].from_sync = 1
      BY <2>2, <2>4, <3>1, StartedFacts
    <3> QED
      BY <1>3, <3>2 DEF ThreadOK, Swept
  <2>5. CASE w \notin W
    <3>1. States'[p][w] = States[p][w] /\ States[p][w].from_sync # 1
      BY <1>1, <2>3, <2>5, StartEffect
    <3>2. ~ InEpoch(prog, w, At(p))
      BY <2>2, <2>3, <3>1 DEF ThreadOK
    <3> QED
      BY <1>2, <1>3, <2>1, <2>2, <2>3, <3>1, <3>2 DEF ThreadOK, Swept
  <2> QED
    BY <2>4, <2>5
<1> QED
  BY <1>4, <1>5 DEF ThreadsOK

LEMMA LeaveSyncThreads ==
  ASSUME TypeOK, NEW p \in Procs, PlaceOK(p), ThreadsOK(p), LeaveSync(p)
  PROVE  ThreadsOK(p)'
<1>1. /\ Frame(p) /\ pc[p] = "sync" /\ pc'[p] = "user" /\ States' = States
  BY LeaveSyncEffect
<1>2. prog' = prog /\ At(p)' = At(p) /\ ~ InBarrier(p) /\ pc'[p] \notin Clearing
  BY <1>1, LeaveSyncPlace DEF Frame, InBarrier, Clearing
<1> QED
  BY <1>1, <1>2, ThreadKept DEF ThreadsOK

(* What changes neither the place of p nor the fields ThreadOK is about. *)
LEMMA ThreadStays ==
  ASSUME NEW p \in Procs, Frame(p), UNCHANGED <<pos, pc, todo>>,
         NEW w \in DOMAIN States[p], ThreadOK(p, w),
         States'[p][w].active_epoch = States[p][w].active_epoch,
         States'[p][w].from_sync = States[p][w].from_sync,
         States'[p][w].thread_end = States[p][w].thread_end,
         \/ States'[p][w].thread = States[p][w].thread
         \/ States'[p][w].thread = "exit" /\ States[p][w].thread = "test" /\ States[p][w].thread_end = 1
  PROVE  ThreadOK(p, w)'
<1>1. prog' = prog /\ handle' = handle /\ At(p)' = At(p) /\ (InBarrier(p)' <=> InBarrier(p)) /\ (IsNext(p, w)' <=> IsNext(p, w))
  BY DEF Frame, At, InBarrier, IsNext
<1>2. Swept(p, w)' <=> Swept(p, w)
  BY <1>1 DEF Swept
<1>3. CASE States'[p][w].thread = States[p][w].thread
  BY <1>1, <1>2, <1>3 DEF ThreadOK
<1>4. CASE States'[p][w].thread = "exit" /\ States[p][w].thread = "test" /\ States[p][w].thread_end = 1
  <2>1. pc[p] = "join" /\ IsNext(p, w)
    BY <1>4 DEF ThreadOK
  <2> QED
    BY <1>1, <1>2, <1>4, <2>1 DEF ThreadOK
<1> QED
  BY <1>3, <1>4

(* The step of a thread of the application or of a checking thread. *)
LEMMA ThreadStep ==
  ASSUME TypeOK, \A q \in Procs : PlaceOK(q), \A q \in Procs : ThreadsOK(q), NEW p \in Procs, ~ crashed',
         App(p) \/ (\E w \in Wins, q \in Procs : Communicate(p, w, q)) \/ \E w \in Wins : CheckThread(p, w)
  PROVE  \A q \in Procs : ThreadsOK(q)'
<1>0. PlaceOK(p) /\ ThreadsOK(p) /\ Frame(p)
  BY PlaceStep
<1>1. ASSUME ThreadsOK(p)' PROVE \A q \in Procs : ThreadsOK(q)'
  BY <1>0, <1>1, ThreadFrame
<1>2. ThreadsOK(p)'
  <2>1. CASE SkipCall(p)
    <3>1. /\ pc[p] = "user" /\ pos[p] < Len(prog) /\ ~ Concerns(prog[pos[p] + 1], p)
          /\ pc' = pc /\ States' = States /\ At(p)' = pos[p] + 1
      BY <1>0, <2>1, SkipCallEffect, SkipCallPlace
    <3>2. \A w \in DOMAIN States[p] : ThreadOK(p, w)'
      BY <1>0, <3>1, CallThreads
    <3> QED
      BY <3>1, <3>2 DEF ThreadsOK
  <2>2. CASE WinCreate(p)
    BY <1>0, <2>2, WinCreateThreads
  <2>3. CASE WinFree(p)
    <3>1. /\ Calls(p, "free") /\ pc'[p] = "sync" /\ DOMAIN States'[p] \subseteq DOMAIN States[p]
          /\ \A v \in DOMAIN States'[p] : States'[p][v] = States[p][v]
      BY <2>3, WinFreeEffect
    <3>2. At(p)' = pos[p] + 1
      BY <1>0, <2>3, WinFreePlace
    <3>3. \A w \in DOMAIN States'[p] : ThreadOK(p, w)'
      BY <1>0, <3>1, <3>2, CallThreads DEF Calls
    <3> QED
      BY <3>3 DEF ThreadsOK
  <2>4. CASE WinLockAll(p)
    BY <1>0, <2>4, WinLockAllThreads
  <2>5. CASE WinUnlockAll(p) \/ Barrier(p)
    BY <1>0, <2>5, ClearingThreads
  <2>6. CASE Reduce(p)
    BY <1>0, <2>6, ReduceThreads
  <2>7. CASE ReduceReturns(p)
    BY <1>0, <2>7, ReduceReturnsThreads
  <2>8. CASE Join(p)
    BY <1>0, <2>8, JoinThreads
  <2>9. CASE Restart(p)
    BY <1>0, <2>9, RestartThreads
  <2>10. CASE LeaveSync(p)
    BY <1>0, <2>10, LeaveSyncThreads
  <2>11. ASSUME NEW w \in Wins, NEW q \in Procs, Communicate(p, w, q) PROVE ThreadsOK(p)'
    <3>1. /\ UNCHANGED <<pos, pc, todo>> /\ w \in DOMAIN States[p] /\ DOMAIN States'[p] = DOMAIN States[p]
          /\ States'[p][w] = [States[p][w] EXCEPT !.array = [States[p][w].array EXCEPT ![q] = @ + 1]]
          /\ \A v \in DOMAIN States[p] : v # w => States'[p][v] = States[p][v]
      BY <2>11, CommunicateEffect
    <3>2. States[p][w] \in State
      BY <3>1, StateFacts
    <3>3. /\ States'[p][w].active_epoch = States[p][w].active_epoch
          /\ States'[p][w].from_sync = States[p][w].from_sync
          /\ States'[p][w].thread_end = States[p][w].thread_end
          /\ States'[p][w].thread = States[p][w].thread
      BY <3>1, <3>2 DEF State
    <3>4. ASSUME NEW v \in DOMAIN States[p] PROVE ThreadOK(p, v)'
      BY <1>0, <3>1, <3>3, ThreadStays DEF ThreadsOK
    <3> QED
      BY <3>1, <3>4 DEF ThreadsOK
  <2>12. ASSUME NEW w \in Wins, CheckThread(p, w) PROVE ThreadsOK(p)'
    <3>0. w \in DOMAIN States[p] /\ (Receive(p, w) \/ ExitThread(p, w))
      BY <2>12 DEF CheckThread
    <3>1. /\ UNCHANGED <<pos, pc, todo>> /\ DOMAIN States'[p] = DOMAIN States[p]
          /\ \A v \in DOMAIN States[p] : v # w => States'[p][v] = States[p][v]
      BY <3>0, ReceiveEffect, ExitThreadEffect
    <3>2. States[p][w] \in State
      BY <3>0, StateFacts
    <3>3. /\ States'[p][w].active_epoch = States[p][w].active_epoch
          /\ States'[p][w].from_sync = States[p][w].from_sync
          /\ States'[p][w].thread_end = States[p][w].thread_end
          /\ \/ States'[p][w].thread = States[p][w].thread
             \/ States'[p][w].thread = "exit" /\ States[p][w].thread = "test" /\ States[p][w].thread_end = 1
      <4>1. CASE Receive(p, w)
        <5>1. \E m : States'[p][w] = [States[p][w] EXCEPT !.count = @ + 1, !.landed = @ \cup {m}]
          BY <3>0, <4>1, ReceiveEffect
        <5> QED
          BY <3>2, <5>1 DEF State
      <4>2. CASE ExitThread(p, w)
        <5>1. /\ States'[p][w] = [States[p][w] EXCEPT !.thread = "exit", !.count = 0]
              /\ States[p][w].thread = "test" /\ States[p][w].thread_end = 1
          BY <3>0, <4>2, ExitThreadEffect
        <5> QED
          BY <3>2, <5>1 DEF State
      <4> QED
        BY <3>0, <4>1, <4>2
    <3>4. ASSUME NEW v \in DOMAIN States[p] PROVE ThreadOK(p, v)'
      <4>1. CASE v = w
        BY <1>0, <3>1, <3>3, <4>1, ThreadStays DEF ThreadsOK
      <4>2. CASE v # w
        BY <1>0, <3>1, <4>2, ThreadStays DEF ThreadsOK
      <4> QED
        BY <4>1, <4>2
    <3> QED
      BY <3>1, <3>4 DEF ThreadsOK
  <2> QED
    BY <2>1, <2>2, <2>3, <2>4, <2>5, <2>6, <2>7, <2>8, <2>9, <2>10, <2>11, <2>12 DEF App
<1> QED
  BY <1>1, <1>2

-----------------------------------------------------------------------------
(* Places and threads: the invariant, and what follows from it alone. *)
LEMMA PlacesInit ==
  ASSUME Init
  PROVE  PlacesInvariant
<1>1. /\ prog \in Programs /\ handle \in Handles
      /\ pos = [p \in Procs |-> 0]
      /\ pc = [p \in Procs |-> "user"]
      /\ todo = [p \in Procs |-> {}]
      /\ win_mpi_tag_id = [p \in Procs |-> [i \in 0 .. MaxWin - 1 |-> 0]]
      /\ States = [p \in Procs |-> << >>]
      /\ net = {} /\ reduced = << >> /\ sent = {}
      /\ rounds = [p \in Procs |-> [c \in Comms |-> 0]]
      /\ entered = [p \in Procs |-> [c \in Comms |-> 0]]
      /\ crashed = FALSE /\ given = [w \in Wins |-> {}] /\ agreed = TRUE
  BY DEF Init
<1>2. DOMAIN << >> = {}
  OBVIOUS
<1>3. \A p \in Procs : DOMAIN States[p] = {} /\ Range(States[p]) = {}
  BY <1>1, <1>2 DEF Range
<1>4. DOMAIN reduced = {} /\ Range(reduced) = {}
  BY <1>1, <1>2 DEF Range
<1>5. TypeOK
  <2>1. [i \in 0 .. MaxWin - 1 |-> 0] \in [0 .. MaxWin - 1 -> 0 .. 1] /\ [c \in Comms |-> 0] \in [Comms -> Nat]
    OBVIOUS
  <2>2. /\ win_mpi_tag_id \in [Procs -> [0 .. MaxWin - 1 -> 0 .. 1]]
        /\ rounds \in [Procs -> [Comms -> Nat]] /\ entered \in [Procs -> [Comms -> Nat]]
    BY <1>1, <2>1
  <2>3. /\ pos \in [Procs -> Nat] /\ todo \in [Procs -> SUBSET Wins] /\ given \in [Wins -> SUBSET Int]
        /\ pc \in [Procs -> {"user", "sweep", "reduce", "join", "sync"}] /\ DOMAIN States = Procs
    BY <1>1
  <2> QED
    BY <1>1, <1>3, <1>4, <2>2, <2>3 DEF TypeOK
<1>6. IsFiniteSet(sent) /\ HistoryOK
  BY <1>1, FS_EmptySet DEF HistoryOK
<1>7. Len(prog) \in Nat
  BY <1>1, ProgramFacts
<1>8. \A p \in Procs : At(p) = 0 /\ pos[p] = 0
  BY <1>1 DEF At
<1>9. SyncOK
  <2>1. \A c \in Comms : \A k \in Syncs(prog, c) : k \in 1 .. Len(prog)
    BY <1>1, ProgramFacts DEF Syncs
  <2> QED
    BY <1>8, <2>1, MemberFacts DEF SyncOK
<1>10. CreatedOK
  BY <1>1, <1>8, MemberFacts DEF CreatedOK
<1>11. ASSUME NEW p \in Procs PROVE PlaceOK(p) /\ ThreadsOK(p)
  <2>1. PositionOK(p)
    BY <1>1, <1>3, <1>7 DEF PositionOK, Clearing
  <2>2. KnownOK(p)
    BY <1>3, <1>8 DEF KnownOK, Exists
  <2>3. EnteredOK(p)
    <3>1. \A c : 1 .. 0 \cap Syncs(prog, c) = {}
      OBVIOUS
    <3>2. Cardinality({}) = 0
      BY FS_EmptySet
    <3> QED
      BY <1>1, <1>8, <3>1, <3>2 DEF EnteredOK
  <2>4. WaitingOK(p)
    BY <1>1 DEF WaitingOK
  <2> QED
    BY <1>3, <2>1, <2>2, <2>3, <2>4 DEF PlaceOK, ThreadsOK
<1> QED
  BY <1>5, <1>6, <1>9, <1>10, <1>11 DEF PlacesInvariant

LEMMA PlacesNext ==
  ASSUME PlacesInvariant, Next
  PROVE  PlacesInvariant'
<1>1. PICK p \in Procs : \/ App(p) \/ \E w \in Wins, q \in Procs : Communicate(p, w, q)
                         \/ \E w \in Wins : CheckThread(p, w)
  BY DEF Next
<1>2. TypeOK /\ HistoryOK /\ SyncOK /\ CreatedOK /\ \A q \in Procs : PlaceOK(q)
  BY DEF PlacesInvariant
<1>3. TypeOK' /\ HistoryOK'
  BY <1>2, TypeStep, HistoryStep
<1>4. Frame(p) /\ \A q \in Procs : PlaceOK(q)'
  BY <1>1, <1>2, PlaceStep
<1>5. SyncOK' /\ CreatedOK'
  BY <1>1, <1>2, SyncStep, CreatedStep
<1>6. ~ crashed /\ \A q \in Procs : ThreadsOK(q)
  BY <1>4 DEF PlacesInvariant, Frame
<1>7. ~ crashed' => \A q \in Procs : ThreadsOK(q)'
  BY <1>1, <1>2, <1>6, ThreadStep
<1> QED
  BY <1>3, <1>4, <1>5, <1>7 DEF PlacesInvariant

LEMMA PlacesStutter ==
  ASSUME PlacesInvariant, UNCHANGED vars
  PROVE  PlacesInvariant'
<1>1. UNCHANGED <<prog, handle, pos, pc, todo, win_mpi_tag_id, States, net, reduced,
                  rounds, entered, crashed, sent, given, agreed>>
  BY DEF vars
<1>2. TypeOK' <=> TypeOK
  BY <1>1 DEF TypeOK
<1>3. (SyncOK' <=> SyncOK) /\ (CreatedOK' <=> CreatedOK) /\ (HistoryOK' <=> HistoryOK)
  BY <1>1 DEF SyncOK, CreatedOK, HistoryOK, At
<1>4. ASSUME NEW p \in Procs PROVE PlaceOK(p)' <=> PlaceOK(p)
  BY <1>1 DEF PlaceOK, PositionOK, KnownOK, EnteredOK, WaitingOK, At, IsNext
<1>5. ASSUME NEW p \in Procs PROVE ThreadsOK(p)' <=> ThreadsOK(p)
  BY <1>1 DEF ThreadsOK, ThreadOK, At, IsNext, InBarrier, Swept
<1> QED
  BY <1>1, <1>2, <1>3, <1>4, <1>5 DEF PlacesInvariant

(* The states of the processes stay well formed, whatever the program and  *)
(* the handles MPI gives to its windows.                                   *)
THEOREM WindowsTypes == Spec => []TypeOK
<1>1. Init => PlacesInvariant
  BY PlacesInit
<1>2. PlacesInvariant /\ [Next]_vars => PlacesInvariant'
  BY PlacesNext, PlacesStutter
<1>3. PlacesInvariant => TypeOK
  BY DEF PlacesInvariant
<1> QED
  BY <1>1, <1>2, <1>3, PTL DEF Spec

-----------------------------------------------------------------------------
(* What the states say of the place in the program.  A call that neither   *)
(* starts nor ends an epoch of w leaves where w is.                        *)
SameWindow(P, w, i, j) ==
  /\ InEpoch(P, w, i) <=> InEpoch(P, w, j)
  /\ Synchronized(P, w, i) <=> Synchronized(P, w, j)
  /\ Active(P, w, i) <=> Active(P, w, j)
  /\ Epoch(P, w, i) = Epoch(P, w, j)

LEMMA SameWindowCall ==
  ASSUME NEW P \in Programs, NEW w, NEW i \in Nat, i < Len(P),
         ~ Is(P, i + 1, "lock_all", w), ~ Is(P, i + 1, "unlock_all", w), ~ Covers(P, w, i + 1)
  PROVE  SameWindow(P, w, i + 1, i) /\ i + 1 \notin Starts(P, w)
<1>1. i + 1 \notin Starts(P, w)
  BY DEF Starts
<1>2. Epoch(P, w, i + 1) = Epoch(P, w, i)
  BY <1>1, EpochFacts
<1> QED
  BY <1>1, <1>2, InEpochStep, SynchronizedStep, ActiveStep DEF SameWindow

(* Calls of p that leave a window of p where it is. *)
LEMMA SameWindowAt ==
  ASSUME TypeOK, NEW p \in Procs, PlaceOK(p), NEW w \in Wins, p \in Members[CommOf[w]],
         pos[p] < Len(prog),
         LET call == prog[pos[p] + 1] IN
         \/ ~ Concerns(call, p)
         \/ call.op \in {"create", "free"}
         \/ call.op \in {"lock_all", "unlock_all"} /\ call.on # w
  PROVE  SameWindow(prog, w, pos[p] + 1, pos[p])
<1>1. prog \in Programs /\ pos[p] \in Nat
  BY CallFacts
<1>2. ~ Is(prog, pos[p] + 1, "lock_all", w) /\ ~ Is(prog, pos[p] + 1, "unlock_all", w)
  BY DEF Is, Concerns, CommOfCall
<1>3. ~ Covers(prog, w, pos[p] + 1)
  BY DEF Covers, Concerns, CommOfCall
<1> QED
  BY <1>1, <1>2, <1>3, SameWindowCall

(* A window that is not created yet. *)
LEMMA NotYet ==
  ASSUME NEW P \in Programs, NEW w, NEW n \in Nat, n <= Len(P),
         \A j \in 1 .. n : ~ Is(P, j, "create", w)
  PROVE  /\ ~ InEpoch(P, w, n) /\ ~ Synchronized(P, w, n) /\ ~ Active(P, w, n)
         /\ Epoch(P, w, n) = 0
<1>1. DOMAIN P = 1 .. Len(P) /\ Len(P) \in Nat /\ ProgramOK(P)
  BY ProgramFacts
<1>2. ASSUME NEW j \in 1 .. n PROVE ~ Is(P, j, "lock_all", w)
  <2>1. SUFFICES ASSUME Is(P, j, "lock_all", w) PROVE FALSE
    OBVIOUS
  <2>2. j \in DOMAIN P /\ P[j].op = "lock_all" /\ P[j].on = w
    BY <1>1, <2>1 DEF Is
  <2>3. Exists(P, w, j - 1)
    BY <1>1, <2>2 DEF ProgramOK
  <2>4. PICK k \in 1 .. j - 1 : Is(P, k, "create", w)
    BY <2>3 DEF Exists
  <2> QED
    BY <2>4
<1>3. ASSUME NEW k \in 0 .. n PROVE ~ InEpoch(P, w, k)
  BY <1>2 DEF InEpoch
<1>4. ASSUME NEW k \in 0 .. n PROVE ~ Synchronized(P, w, k)
  BY <1>3 DEF Synchronized
<1>5. ~ Active(P, w, n)
  BY <1>3, <1>4, ActiveTouched DEF Touched
<1>6. 1 .. n \cap Starts(P, w) = {}
  <2>1. ASSUME NEW k \in 1 .. n, k \in Starts(P, w) PROVE FALSE
    <3>1. ~ Touched(P, w, k - 1)
      BY <1>3, <1>4 DEF Touched
    <3> QED
      BY <1>2, <2>1, <3>1 DEF Starts
  <2> QED
    BY <2>1
<1>7. Epoch(P, w, n) = 0
  BY <1>6, FS_EmptySet DEF Epoch
<1> QED
  BY <1>3, <1>4, <1>5, <1>7

(* A window that a program creates has had no epochs. *)
LEMMA CreatedFresh ==
  ASSUME NEW P \in Programs, NEW w, NEW i \in Nat, i < Len(P), Is(P, i + 1, "create", w)
  PROVE  /\ ~ InEpoch(P, w, i) /\ ~ Synchronized(P, w, i) /\ ~ Active(P, w, i) /\ Epoch(P, w, i) = 0
         /\ SameWindow(P, w, i + 1, i)
<1>1. DOMAIN P = 1 .. Len(P) /\ Len(P) \in Nat /\ ProgramOK(P) /\ i + 1 \in DOMAIN P /\ (i + 1) - 1 = i
  BY ProgramFacts
<1>2. P[i + 1].op = "create" /\ P[i + 1].on = w
  BY DEF Is
<1>3. \A j \in 1 .. i : ~ Is(P, j, "create", w)
  BY <1>1, <1>2 DEF ProgramOK
<1>4. ~ Is(P, i + 1, "lock_all", w) /\ ~ Is(P, i + 1, "unlock_all", w) /\ ~ Covers(P, w, i + 1)
  BY <1>2 DEF Is, Covers
<1> QED
  BY <1>1, <1>3, <1>4, NotYet, SameWindowCall

WindowsOK(p) == \A w \in DOMAIN States[p] : StateOK(p, w)

LEMMA WindowsFrame ==
  ASSUME NEW p \in Procs, NEW q \in Procs, q # p, Frame(p), WindowsOK(q)
  PROVE  WindowsOK(q)'
<1>1. /\ prog' = prog /\ handle' = handle /\ pos'[q] = pos[q] /\ pc'[q] = pc[q]
      /\ todo'[q] = todo[q] /\ States'[q] = States[q]
  BY DEF Frame
<1>2. At(q)' = At(q)
  BY <1>1 DEF At
<1>3. InBarrier(q)' <=> InBarrier(q)
  BY <1>1 DEF InBarrier
<1> QED
  BY <1>1, <1>2, <1>3 DEF WindowsOK, StateOK, Swept, Now

(* A window of p that a step leaves alone, outside of barriers. *)
LEMMA WindowKept ==
  ASSUME NEW p \in Procs, NEW w, StateOK(p, w), prog' = prog, ~ InBarrier(p), ~ InBarrier(p)',
         SameWindow(prog, w, At(p)', At(p)),
         States'[p][w].active_epoch = States[p][w].active_epoch,
         States'[p][w].from_sync = States[p][w].from_sync,
         States'[p][w].count_epoch = States[p][w].count_epoch
  PROVE  StateOK(p, w)'
BY DEF StateOK, Swept, Now, SameWindow

LEMMA SkipCallWindows ==
  ASSUME TypeOK, NEW p \in Procs, PlaceOK(p), WindowsOK(p), SkipCall(p)
  PROVE  WindowsOK(p)'
<1>1. /\ Frame(p) /\ pc[p] = "user" /\ pos[p] < Len(prog) /\ ~ Concerns(prog[pos[p] + 1], p)
      /\ pc' = pc /\ States' = States
  BY SkipCallEffect
<1>2. At(p) = pos[p] /\ At(p)' = pos[p] + 1
  BY SkipCallPlace
<1>3. prog' = prog /\ ~ InBarrier(p) /\ ~ InBarrier(p)'
  BY <1>1 DEF Frame, InBarrier, Clearing
<1>4. ASSUME NEW w \in DOMAIN States[p] PROVE StateOK(p, w)'
  <2>1. w \in Wins /\ p \in Members[CommOf[w]]
    BY StateFacts DEF PlaceOK, KnownOK
  <2>2. SameWindow(prog, w, At(p)', At(p))
    BY <1>1, <1>2, <2>1, SameWindowAt
  <2> QED
    BY <1>1, <1>3, <2>2, WindowKept DEF WindowsOK
<1> QED
  BY <1>1, <1>4 DEF WindowsOK

LEMMA WinCreateWindows ==
  ASSUME TypeOK, NEW p \in Procs, PlaceOK(p), WindowsOK(p), WinCreate(p)
  PROVE  WindowsOK(p)'
<1> PICK a : a = Arg(p)
  OBVIOUS
<1>1. /\ Frame(p) /\ Calls(p, "create") /\ pc'[p] = "user" /\ Arg(p) \in Wins
      /\ DOMAIN States'[p] = DOMAIN States[p] \cup {Arg(p)}
      /\ \A v \in DOMAIN States[p] : v # Arg(p) => States'[p][v] = States[p][v]
      /\ States'[p][Arg(p)] =
           [mpi_tag |-> MaxEpoch * get_tag_range_id(win_mpi_tag_id[p]), count_epoch |-> 0,
            active_epoch |-> 0, from_sync |-> 0, thread |-> "off", thread_end |-> 0, count |-> 0,
            value |-> 0, array |-> [q \in Procs |-> 0], landed |-> {}]
  BY WinCreateEffect
<1>2. /\ States'[p][a].active_epoch = 0 /\ States'[p][a].from_sync = 0 /\ States'[p][a].count_epoch = 0
  BY <1>1
<1>3. At(p) = pos[p] /\ At(p)' = pos[p] + 1
  BY WinCreatePlace
<1>4. /\ prog' = prog /\ pc[p] = "user" /\ pos[p] < Len(prog) /\ prog[pos[p] + 1].op = "create"
      /\ Is(prog, pos[p] + 1, "create", a) /\ ~ InBarrier(p) /\ ~ InBarrier(p)'
  BY <1>1 DEF Calls, Frame, Arg, Is, InBarrier, Clearing
<1>5. ASSUME NEW w \in DOMAIN States[p], w # a PROVE StateOK(p, w)'
  <2>1. w \in Wins /\ p \in Members[CommOf[w]]
    BY StateFacts DEF PlaceOK, KnownOK
  <2>2. SameWindow(prog, w, At(p)', At(p))
    BY <1>3, <1>4, <2>1, SameWindowAt
  <2>3. States'[p][w] = States[p][w] /\ StateOK(p, w)
    BY <1>1, <1>5 DEF WindowsOK
  <2> QED
    BY <1>4, <2>2, <2>3, WindowKept
<1>6. StateOK(p, a)'
  <2>1. prog \in Programs /\ pos[p] \in Nat
    BY CallFacts
  <2>2. /\ ~ Active(prog, a, pos[p] + 1) /\ ~ Synchronized(prog, a, pos[p] + 1) /\ Epoch(prog, a, pos[p] + 1) = 0
    BY <1>4, <2>1, CreatedFresh DEF SameWindow
  <2> QED
    BY <1>2, <1>3, <1>4, <2>2 DEF StateOK, Now
<1> QED
  BY <1>1, <1>5, <1>6 DEF WindowsOK

LEMMA WinFreeWindows ==
  ASSUME TypeOK, NEW p \in Procs, PlaceOK(p), WindowsOK(p), WinFree(p)
  PROVE  WindowsOK(p)'
<1>1. /\ Frame(p) /\ Calls(p, "free") /\ pc'[p] = "sync"
      /\ DOMAIN States'[p] \subseteq DOMAIN States[p]
      /\ \A v \in DOMAIN States'[p] : States'[p][v] = States[p][v]
  BY WinFreeEffect
<1>2. At(p) = pos[p] /\ At(p)' = pos[p] + 1
  BY WinFreePlace
<1>3. /\ prog' = prog /\ pc[p] = "user" /\ pos[p] < Len(prog) /\ prog[pos[p] + 1].op = "free"
      /\ ~ InBarrier(p) /\ ~ InBarrier(p)'
  BY <1>1 DEF Calls, Frame, InBarrier, Clearing
<1>4. ASSUME NEW w \in DOMAIN States'[p] PROVE StateOK(p, w)'
  <2>1. w \in DOMAIN States[p] /\ w \in Wins /\ p \in Members[CommOf[w]]
    BY <1>1, StateFacts DEF PlaceOK, KnownOK
  <2>2. SameWindow(prog, w, At(p)', At(p))
    BY <1>2, <1>3, <2>1, SameWindowAt
  <2>3. States'[p][w] = States[p][w] /\ StateOK(p, w)
    BY <1>1, <2>1 DEF WindowsOK
  <2> QED
    BY <1>3, <2>2, <2>3, WindowKept
<1> QED
  BY <1>4 DEF WindowsOK

LEMMA WinLockAllWindows ==
  ASSUME TypeOK, NEW p \in Procs, PlaceOK(p), WindowsOK(p), WinLockAll(p)
  PROVE  WindowsOK(p)'
<1> PICK a : a = Arg(p)
  OBVIOUS
<1>1. /\ Frame(p) /\ Calls(p, "lock_all") /\ StartEpochs(p, {a}) /\ pc'[p] = "user"
  BY WinLockAllEffect
<1>2. At(p) = pos[p] /\ At(p)' = pos[p] + 1 /\ a \in DOMAIN States[p]
  BY WinLockAllPlace
<1>3. /\ prog' = prog /\ pc[p] = "user" /\ pos[p] < Len(prog) /\ prog[pos[p] + 1].op = "lock_all"
      /\ prog[pos[p] + 1].on = a /\ ~ InBarrier(p) /\ ~ InBarrier(p)'
  BY <1>1 DEF Calls, Frame, InBarrier, Clearing, Arg
<1>4. /\ DOMAIN States'[p] = DOMAIN States[p] /\ States'[p][a] = Started(States[p][a])
      /\ \A w \in DOMAIN States[p] : w # a => States'[p][w] = States[p][w]
  BY <1>1, <1>2, StartEffect
<1>5. ASSUME NEW w \in DOMAIN States[p], w # a PROVE StateOK(p, w)'
  <2>1. w \in Wins /\ p \in Members[CommOf[w]]
    BY StateFacts DEF PlaceOK, KnownOK
  <2>2. SameWindow(prog, w, At(p)', At(p))
    BY <1>2, <1>3, <1>5, <2>1, SameWindowAt
  <2>3. States'[p][w] = States[p][w] /\ StateOK(p, w)
    BY <1>4, <1>5 DEF WindowsOK
  <2> QED
    BY <1>3, <2>2, <2>3, WindowKept
<1>6. StateOK(p, a)'
  <2>1. prog \in Programs /\ pos[p] \in Nat /\ pos[p] + 1 \in DOMAIN prog
    BY <1>3, CallFacts
  <2>2. Is(prog, pos[p] + 1, "lock_all", a) /\ ~ Covers(prog, a, pos[p] + 1)
    BY <1>3 DEF Is, Covers
  <2>3. Active(prog, a, pos[p] + 1)
    BY <2>1, <2>2, ActiveStep
  <2>4. Synchronized(prog, a, pos[p] + 1) <=> Synchronized(prog, a, pos[p])
    BY <2>1, <2>2, SynchronizedStep
  <2>5. Epoch(prog, a, pos[p] + 1) = Epoch(prog, a, pos[p]) + 1
    BY <2>1, <2>2, EpochFacts DEF Starts
  <2>6. StateOK(p, a) /\ States[p][a] \in State
    BY <1>2, StateFacts DEF WindowsOK
  <2>7. /\ States'[p][a].active_epoch = 1 /\ States'[p][a].from_sync = States[p][a].from_sync
        /\ States'[p][a].count_epoch = States[p][a].count_epoch + 1
    BY <1>4, <2>6, StartedFacts
  <2> QED
    BY <1>2, <1>3, <2>3, <2>4, <2>5, <2>6, <2>7 DEF StateOK, Now, Swept
<1> QED
  BY <1>4, <1>5, <1>6 DEF WindowsOK

LEMMA ClearingWindows ==
  ASSUME TypeOK, NEW p \in Procs, PlaceOK(p), WindowsOK(p), WinUnlockAll(p) \/ Barrier(p)
  PROVE  WindowsOK(p)'
<1>1. /\ Frame(p) /\ pc[p] = "user" /\ pc'[p] = "sweep" /\ UNCHANGED <<pos, States>>
      /\ prog[pos[p] + 1].op \in {"unlock_all", "barrier"}
      /\ prog[pos[p] + 1].op = "barrier" => todo'[p] = Sweep(p)
  BY WinUnlockAllEffect, BarrierEffect DEF Calls
<1>2. prog' = prog /\ At(p)' = At(p) /\ ~ InBarrier(p)
  BY <1>1 DEF Frame, At, InBarrier, Clearing
<1>3. ASSUME NEW w \in DOMAIN States[p] PROVE StateOK(p, w)'
  <2>1. StateOK(p, w) /\ ~ Swept(p, w)
    BY <1>2 DEF WindowsOK, Swept
  <2>2. Swept(p, w)' => States[p][w].active_epoch # 1
    BY <1>1, <1>2 DEF Swept, InBarrier, Sweep
  <2>3. Swept(p, w)' => ~ Active(prog, w, At(p))
    BY <2>1, <2>2 DEF StateOK
  <2> QED
    BY <1>1, <1>2, <2>1, <2>3 DEF StateOK, Now
<1> QED
  BY <1>1, <1>3 DEF WindowsOK

LEMMA ReduceWindows ==
  ASSUME TypeOK, NEW p \in Procs, PlaceOK(p), WindowsOK(p), Reduce(p) \/ ReduceReturns(p)
  PROVE  WindowsOK(p)'
<1>0. todo[p] \subseteq DOMAIN States[p]
  BY DEF PlaceOK, PositionOK
<1>1. /\ Frame(p) /\ pc[p] \in Clearing /\ pc'[p] \in Clearing /\ UNCHANGED <<pos, todo>>
      /\ pc[p] # "sync" /\ pc'[p] # "sync"
  BY <1>0, ReduceEffect, ReduceReturnsEffect DEF Clearing
<1>2. /\ DOMAIN States'[p] = DOMAIN States[p]
      /\ \A w \in DOMAIN States[p] :
           /\ States'[p][w].active_epoch = States[p][w].active_epoch
           /\ States'[p][w].from_sync = States[p][w].from_sync
           /\ States'[p][w].count_epoch = States[p][w].count_epoch
  <2>1. CASE Reduce(p)
    BY <2>1, ReduceEffect
  <2>2. CASE ReduceReturns(p)
    <3>1. PICK w \in todo[p] :
            /\ DOMAIN States'[p] = DOMAIN States[p]
            /\ States'[p][w] = [States[p][w] EXCEPT
                                  !.value = reduced[<<CommOf[w], rounds[p][CommOf[w]]>>].sum[p],
                                  !.thread_end = 1]
            /\ \A v \in DOMAIN States[p] : v # w => States'[p][v] = States[p][v]
      BY <1>0, <2>2, ReduceReturnsEffect
    <3>2. States[p][w] \in State
      BY <1>0, StateFacts
    <3>3. /\ States'[p][w].active_epoch = States[p][w].active_epoch
          /\ States'[p][w].from_sync = States[p][w].from_sync
          /\ States'[p][w].count_epoch = States[p][w].count_epoch
      BY <3>1, <3>2 DEF State
    <3> QED
      BY <3>1, <3>3
  <2> QED
    BY <2>1, <2>2
<1>3. prog' = prog /\ handle' = handle /\ At(p)' = At(p) /\ (InBarrier(p)' <=> InBarrier(p))
  BY <1>1 DEF Frame, At, InBarrier
<1> QED
  BY <1>1, <1>2, <1>3 DEF WindowsOK, StateOK, Swept, Now

(* A barrier that finds a window in an epoch covers it. *)
LEMMA BarrierCovers ==
  ASSUME TypeOK, Matched, NEW p \in Procs, PlaceOK(p), NEW w \in DOMAIN States[p], At(p) = pos[p],
         pos[p] < Len(prog), prog[pos[p] + 1].op = "barrier", Concerns(prog[pos[p] + 1], p),
         Touched(prog, w, pos[p]) \/ Active(prog, w, pos[p])
  PROVE  Covers(prog, w, pos[p] + 1) /\ Exists(prog, w, pos[p] + 1)
<1>1. prog \in Programs /\ pos[p] \in Nat /\ pos[p] + 1 \in DOMAIN prog /\ (pos[p] + 1) - 1 = pos[p]
  BY CallFacts
<1>2. w \in Wins /\ p \in Members[CommOf[w]] /\ Exists(prog, w, pos[p])
  BY StateFacts DEF PlaceOK, KnownOK
<1>3. Exists(prog, w, pos[p] + 1)
  <2>1. ~ Is(prog, pos[p] + 1, "free", w)
    BY DEF Is
  <2> QED
    BY <1>1, <1>2, <2>1, ExistsStep
<1>4. InEpoch(prog, w, pos[p]) \/ Synchronized(prog, w, pos[p])
  BY <1>1, ActiveTouched DEF Touched
<1>5. Members[CommOf[w]] \cap Members[prog[pos[p] + 1].on] # {}
  BY <1>2 DEF Concerns, CommOfCall
<1>6. BarriersCover
  BY DEF Matched
<1> QED
  BY <1>1, <1>2, <1>3, <1>4, <1>5, <1>6 DEF BarriersCover

LEMMA JoinWindows ==
  ASSUME TypeOK, NEW p \in Procs, PlaceOK(p), ThreadsOK(p), WindowsOK(p), Join(p), ~ crashed'
  PROVE  WindowsOK(p)'
<1>0. todo[p] \subseteq DOMAIN States[p]
  BY DEF PlaceOK, PositionOK
<1> DEFINE inBarrier == prog[pos[p] + 1].op = "barrier"
<1>1. /\ Frame(p) /\ pc[p] = "join"
      /\ inBarrier => pc'[p] = "sweep" /\ pos'[p] = pos[p]
      /\ ~ inBarrier => pc'[p] = "user" /\ pos'[p] = pos[p] + 1
  BY <1>0, JoinEffect
<1>2. PICK w \in todo[p] :
        /\ w \in Wins /\ IsNext(p, w) /\ crashed' = (States[p][w].thread = "off")
        /\ DOMAIN States'[p] = DOMAIN States[p]
        /\ States'[p][w] = IF inBarrier THEN Synced(Joined(States[p][w]))
                           ELSE Joined(States[p][w])
        /\ \A v \in DOMAIN States[p] : v # w => States'[p][v] = States[p][v]
        /\ todo'[p] = todo[p] \ {w}
  BY <1>0, JoinEffect
<1>3. /\ At(p) = pos[p] /\ (inBarrier => At(p)' = At(p))
      /\ ~ inBarrier => At(p)' = pos[p] + 1 /\ prog[pos[p] + 1].op = "unlock_all"
                        /\ todo[p] = {prog[pos[p] + 1].on}
  BY JoinPlace
<1>4. prog' = prog /\ handle' = handle /\ w \in DOMAIN States[p] /\ States[p][w] \in State
  BY <1>0, <1>1, StateFacts DEF Frame
<1>4a. prog \in Programs /\ pos[p] \in Nat /\ pos[p] < Len(prog)
  BY <1>1, CallFacts DEF PlaceOK, PositionOK
<1>5. States[p][w].active_epoch = 1
  BY <1>2, <1>4 DEF ThreadsOK, ThreadOK
<1>6. /\ States'[p][w].active_epoch = 0 /\ States'[p][w].count_epoch = States[p][w].count_epoch
      /\ inBarrier => States'[p][w].from_sync = 1
      /\ ~ inBarrier => States'[p][w].from_sync = States[p][w].from_sync
  BY <1>2, <1>4, JoinedFacts
<1>7. StateOK(p, w) /\ Active(prog, w, At(p))
  BY <1>4, <1>5 DEF WindowsOK, StateOK
<1>8. CASE inBarrier
  <2>1. InBarrier(p) /\ InBarrier(p)' /\ At(p)' = At(p) /\ Swept(p, w)'
    BY <1>1, <1>2, <1>3, <1>4, <1>8 DEF InBarrier, Clearing, Swept
  <2>2. ASSUME NEW v \in todo'[p] PROVE handle[p][w] < handle[p][v]
    <3>1. v \in todo[p] /\ v # w /\ v \in Wins /\ handle[p][w] <= handle[p][v]
      BY <1>2 DEF IsNext, TypeOK
    <3> QED
      BY <1>2, <3>1, HandleFacts
  <2>3. StateOK(p, w)'
    BY <1>4, <1>6, <1>7, <1>8, <2>1, <2>2 DEF StateOK, Now
  <2>4. ASSUME NEW v \in DOMAIN States[p], v # w PROVE StateOK(p, v)'
    <3>1. (Swept(p, v)' <=> Swept(p, v)) /\ States'[p][v] = States[p][v] /\ StateOK(p, v) /\ todo'[p] \subseteq todo[p]
      BY <1>2, <2>1, <2>4 DEF Swept, WindowsOK
    <3> QED
      BY <1>4, <2>1, <3>1 DEF StateOK, Now
  <2> QED
    BY <1>2, <2>3, <2>4 DEF WindowsOK
<1>9. CASE ~ inBarrier
  <2>1. ~ InBarrier(p) /\ ~ InBarrier(p)' /\ At(p)' = pos[p] + 1 /\ At(p) = pos[p]
    BY <1>1, <1>3, <1>9 DEF InBarrier, Clearing
  <2>2. prog[pos[p] + 1].op = "unlock_all" /\ prog[pos[p] + 1].on = w
    BY <1>3, <1>9
  <2>3. StateOK(p, w)'
    <3>1. /\ Is(prog, pos[p] + 1, "unlock_all", w) /\ ~ Is(prog, pos[p] + 1, "lock_all", w)
          /\ ~ Covers(prog, w, pos[p] + 1)
      BY <2>2 DEF Is, Covers
    <3>2. ~ Active(prog, w, pos[p] + 1) /\ (Synchronized(prog, w, pos[p] + 1) <=> Synchronized(prog, w, pos[p]))
      BY <1>4a, <3>1, ActiveStep, SynchronizedStep
    <3>3. Epoch(prog, w, pos[p] + 1) = Epoch(prog, w, pos[p])
      BY <1>4a, <3>1, EpochFacts DEF Starts
    <3> QED
      BY <1>4, <1>6, <1>7, <1>9, <2>1, <3>2, <3>3 DEF StateOK, Now, Swept
  <2>4. ASSUME NEW v \in DOMAIN States[p], v # w PROVE StateOK(p, v)'
    <3>1. v \in Wins /\ p \in Members[CommOf[v]]
      BY StateFacts DEF PlaceOK, KnownOK
    <3>2. SameWindow(prog, v, At(p)', At(p))
      BY <1>4a, <2>1, <2>2, <2>4, <3>1, SameWindowAt
    <3>3. States'[p][v] = States[p][v] /\ StateOK(p, v)
      BY <1>2, <2>4 DEF WindowsOK
    <3> QED
      BY <1>4, <2>1, <3>2, <3>3, WindowKept
  <2> QED
    BY <1>2, <2>3, <2>4 DEF WindowsOK
<1> QED
  BY <1>8, <1>9

LEMMA RestartWindows ==
  ASSUME TypeOK, Matched, NEW p \in Procs, PlaceOK(p), ThreadsOK(p), WindowsOK(p), Restart(p)
  PROVE  WindowsOK(p)'
<1> DEFINE W == {w \in DOMAIN States[p] : /\ States[p][w].active_epoch = 0
                                          /\ States[p][w].from_sync = 1}
<1>1. Frame(p) /\ pc[p] = "sweep" /\ todo[p] = {} /\ pc'[p] = "sync" /\ StartEpochs(p, W)
  BY RestartEffect
<1>2. /\ At(p) = pos[p] /\ At(p)' = pos[p] + 1 /\ prog[pos[p] + 1].op = "barrier" /\ prog' = prog
      /\ Concerns(prog[pos[p] + 1], p) /\ pos[p] < Len(prog)
  BY <1>1, RestartPlace DEF Frame
<1>2a. prog \in Programs /\ pos[p] \in Nat /\ pos[p] + 1 \in DOMAIN prog /\ (pos[p] + 1) - 1 = pos[p]
  BY <1>2, CallFacts
<1>3. InBarrier(p) /\ ~ InBarrier(p)'
  BY <1>1, <1>2 DEF InBarrier, Clearing
<1>4. DOMAIN States'[p] = DOMAIN States[p]
  BY <1>1, StartEffect
<1>5. ASSUME NEW w \in DOMAIN States[p] PROVE StateOK(p, w)'
  <2>1. /\ StateOK(p, w) /\ ThreadOK(p, w) /\ States[p][w] \in State
        /\ States[p][w].active_epoch \in 0 .. 1
    BY StateFacts DEF WindowsOK, ThreadsOK
  <2>2. States[p][w].active_epoch = 0 /\ Swept(p, w)
    BY <1>1, <1>3, <2>1 DEF ThreadOK, Swept
  <2>3. States[p][w].from_sync = 1 <=> Synchronized(prog, w, pos[p]) \/ Active(prog, w, pos[p])
    BY <1>2, <2>1, <2>2 DEF StateOK
  <2>4. ~ Is(prog, pos[p] + 1, "lock_all", w) /\ ~ Is(prog, pos[p] + 1, "unlock_all", w)
    BY <1>2 DEF Is
  <2>5. CASE w \in W
    <3>1. Covers(prog, w, pos[p] + 1) /\ Exists(prog, w, pos[p] + 1)
      BY <1>2, <2>3, <2>5, BarrierCovers DEF Touched
    <3>2. Touched(prog, w, pos[p])
      BY <1>2a, <2>3, <2>5, ActiveTouched DEF Touched
    <3>3. Synchronized(prog, w, pos[p] + 1)
      BY <1>2a, <3>1, <3>2, SynchronizedStep DEF Touched
    <3>4. Active(prog, w, pos[p] + 1)
      BY <1>2a, <2>3, <2>4, <2>5, <3>1, ActiveStep
    <3>5. Epoch(prog, w, pos[p] + 1) = Epoch(prog, w, pos[p]) + 1
      <4>1. pos[p] + 1 \in Starts(prog, w)
        BY <1>2a, <3>1, <3>2 DEF Starts
      <4> QED
        BY <1>2a, <4>1, EpochFacts
    <3>6. States'[p][w] = Started(States[p][w])
      BY <1>1, <2>5, StartEffect
    <3>7. /\ States'[p][w].active_epoch = 1 /\ States'[p][w].from_sync = 1
          /\ States'[p][w].count_epoch = States[p][w].count_epoch + 1
      BY <2>1, <2>5, <3>6, StartedFacts
    <3> QED
      BY <1>2, <1>3, <2>1, <3>3, <3>4, <3>5, <3>7 DEF StateOK, Now, Swept
  <2>6. CASE w \notin W
    <3>1. States'[p][w] = States[p][w] /\ States[p][w].from_sync # 1
      BY <1>1, <2>2, <2>6, StartEffect
    <3>2. ~ Synchronized(prog, w, pos[p]) /\ ~ Active(prog, w, pos[p]) /\ ~ InEpoch(prog, w, pos[p])
      BY <2>3, <3>1 DEF Active
    <3>3. ~ Synchronized(prog, w, pos[p] + 1) /\ ~ Active(prog, w, pos[p] + 1)
      BY <1>2a, <2>4, <3>2, SynchronizedStep, ActiveStep
    <3>4. Epoch(prog, w, pos[p] + 1) = Epoch(prog, w, pos[p])
      <4>1. pos[p] + 1 \notin Starts(prog, w)
        BY <1>2a, <2>4, <3>2 DEF Starts, Touched
      <4> QED
        BY <1>2a, <4>1, EpochFacts
    <3> QED
      BY <1>2, <1>3, <2>1, <2>2, <3>1, <3>3, <3>4 DEF StateOK, Now, Swept
  <2> QED
    BY <2>5, <2>6
<1> QED
  BY <1>4, <1>5 DEF WindowsOK

LEMMA LeaveSyncWindows ==
  ASSUME TypeOK, NEW p \in Procs, PlaceOK(p), WindowsOK(p), LeaveSync(p)
  PROVE  WindowsOK(p)'
<1>1. /\ Frame(p) /\ pc[p] = "sync" /\ pc'[p] = "user" /\ States' = States
  BY LeaveSyncEffect
<1>2. prog' = prog /\ At(p)' = At(p) /\ ~ InBarrier(p) /\ ~ InBarrier(p)'
  BY <1>1, LeaveSyncPlace DEF Frame, InBarrier, Clearing
<1>3. \A w : SameWindow(prog, w, At(p)', At(p))
  BY <1>2 DEF SameWindow
<1> QED
  BY <1>1, <1>2, <1>3, WindowKept DEF WindowsOK

LEMMA WindowsStay ==
  ASSUME NEW p \in Procs, WindowsOK(p), Frame(p), UNCHANGED <<pos, pc, todo>>,
         DOMAIN States'[p] = DOMAIN States[p],
         \A w \in DOMAIN States[p] :
           /\ States'[p][w].active_epoch = States[p][w].active_epoch
           /\ States'[p][w].from_sync = States[p][w].from_sync
           /\ States'[p][w].count_epoch = States[p][w].count_epoch
  PROVE  WindowsOK(p)'
<1>1. prog' = prog /\ handle' = handle /\ At(p)' = At(p) /\ (InBarrier(p)' <=> InBarrier(p))
  BY DEF Frame, At, InBarrier
<1> QED
  BY <1>1 DEF WindowsOK, StateOK, Swept, Now

(* Accesses and checking threads do not touch the epochs of p. *)
LEMMA QuietFields ==
  ASSUME TypeOK, NEW p \in Procs,
         (\E w \in Wins, q \in Procs : Communicate(p, w, q)) \/ \E w \in Wins : CheckThread(p, w)
  PROVE  /\ Frame(p) /\ DOMAIN States'[p] = DOMAIN States[p]
         /\ UNCHANGED <<pos, pc, todo, win_mpi_tag_id, reduced, rounds, entered, crashed, given, agreed>>
         /\ \A w \in DOMAIN States[p] :
              /\ States'[p][w].mpi_tag = States[p][w].mpi_tag
              /\ States'[p][w].active_epoch = States[p][w].active_epoch
              /\ States'[p][w].from_sync = States[p][w].from_sync
              /\ States'[p][w].count_epoch = States[p][w].count_epoch
              /\ States'[p][w].value = States[p][w].value
<1> DEFINE Goal == /\ Frame(p) /\ DOMAIN States'[p] = DOMAIN States[p]
                   /\ UNCHANGED <<pos, pc, todo, win_mpi_tag_id, reduced, rounds, entered, crashed, given, agreed>>
                   /\ \A w \in DOMAIN States[p] :
                        /\ States'[p][w].mpi_tag = States[p][w].mpi_tag
                        /\ States'[p][w].active_epoch = States[p][w].active_epoch
                        /\ States'[p][w].from_sync = States[p][w].from_sync
                        /\ States'[p][w].count_epoch = States[p][w].count_epoch
                        /\ States'[p][w].value = States[p][w].value
<1>1. ASSUME NEW w \in Wins, NEW q \in Procs, Communicate(p, w, q) PROVE Goal
  <2>1. /\ Frame(p) /\ UNCHANGED <<pos, pc, todo, win_mpi_tag_id, reduced, rounds, entered, crashed, given, agreed>>
        /\ w \in DOMAIN States[p] /\ DOMAIN States'[p] = DOMAIN States[p]
        /\ States'[p][w] = [States[p][w] EXCEPT !.array = [States[p][w].array EXCEPT ![q] = @ + 1]]
        /\ \A v \in DOMAIN States[p] : v # w => States'[p][v] = States[p][v]
    BY <1>1, CommunicateEffect
  <2>2. States[p][w] \in State
    BY <2>1, StateFacts
  <2>3. /\ States'[p][w].mpi_tag = States[p][w].mpi_tag
        /\ States'[p][w].active_epoch = States[p][w].active_epoch
        /\ States'[p][w].from_sync = States[p][w].from_sync
        /\ States'[p][w].count_epoch = States[p][w].count_epoch
        /\ States'[p][w].value = States[p][w].value
    BY <2>1, <2>2 DEF State
  <2> QED
    BY <2>1, <2>3
<1>2. ASSUME NEW w \in Wins, CheckThread(p, w) PROVE Goal
  <2>0. w \in DOMAIN States[p] /\ (Receive(p, w) \/ ExitThread(p, w))
    BY <1>2 DEF CheckThread
  <2>1. /\ Frame(p) /\ UNCHANGED <<pos, pc, todo, win_mpi_tag_id, reduced, rounds, entered, crashed, given, agreed>>
        /\ DOMAIN States'[p] = DOMAIN States[p]
        /\ \A v \in DOMAIN States[p] : v # w => States'[p][v] = States[p][v]
    BY <2>0, ReceiveEffect, ExitThreadEffect
  <2>2. States[p][w] \in State
    BY <2>0, StateFacts
  <2>3. /\ States'[p][w].mpi_tag = States[p][w].mpi_tag
        /\ States'[p][w].active_epoch = States[p][w].active_epoch
        /\ States'[p][w].from_sync = States[p][w].from_sync
        /\ States'[p][w].count_epoch = States[p][w].count_epoch
        /\ States'[p][w].value = States[p][w].value
    <3>1. CASE Receive(p, w)
      <4>1. \E m : States'[p][w] = [States[p][w] EXCEPT !.count = @ + 1, !.landed = @ \cup {m}]
        BY <2>0, <3>1, ReceiveEffect
      <4> QED
        BY <2>2, <4>1 DEF State
    <3>2. CASE ExitThread(p, w)
      <4>1. States'[p][w] = [States[p][w] EXCEPT !.thread = "exit", !.count = 0]
        BY <2>0, <3>2, ExitThreadEffect
      <4> QED
        BY <2>2, <4>1 DEF State
    <3> QED
      BY <2>0, <3>1, <3>2
  <2> QED
    BY <2>1, <2>3
<1> QED
  BY <1>1, <1>2

LEMMA WindowsStep ==
  ASSUME TypeOK, Matched, \A q \in Procs : PlaceOK(q), \A q \in Procs : ThreadsOK(q),
         \A q \in Procs : WindowsOK(q), NEW p \in Procs, ~ crashed',
         App(p) \/ (\E w \in Wins, q \in Procs : Communicate(p, w, q)) \/ \E w \in Wins : CheckThread(p, w)
  PROVE  \A q \in Procs : WindowsOK(q)'
<1>0. PlaceOK(p) /\ ThreadsOK(p) /\ WindowsOK(p) /\ Frame(p)
  BY PlaceStep
<1>1. ASSUME WindowsOK(p)' PROVE \A q \in Procs : WindowsOK(q)'
  BY <1>0, <1>1, WindowsFrame
<1>2. CASE (\E w \in Wins, q \in Procs : Communicate(p, w, q)) \/ \E w \in Wins : CheckThread(p, w)
  <2>1. WindowsOK(p)'
    BY <1>0, <1>2, QuietFields, WindowsStay
  <2> QED
    BY <1>1, <2>1
<1>3. CASE App(p)
  <2>1. WindowsOK(p)'
    BY <1>0, <1>3, SkipCallWindows, WinCreateWindows, WinFreeWindows, WinLockAllWindows, ClearingWindows,
       ReduceWindows, JoinWindows, RestartWindows, LeaveSyncWindows DEF App
  <2> QED
    BY <1>1, <2>1
<1> QED
  BY <1>2, <1>3

-----------------------------------------------------------------------------
(* Epochs that a process leaves and closes. *)
Closing(p, w) == pc[p] \in {"reduce", "join"} /\ IsNext(p, w)

LEMMA ClosedFacts ==
  ASSUME TypeOK, NEW p \in Procs, PlaceOK(p), NEW w
  PROVE  /\ Now(p, w) \in Nat /\ Left(p, w) \in Int /\ Closed(p, w) \in Int
         /\ Left(p, w) <= Closed(p, w) /\ Closed(p, w) <= Now(p, w)
         /\ Closed(p, w) = IF Closing(p, w) THEN Now(p, w) ELSE Left(p, w)
         /\ Left(p, w) = IF Open(p, w) THEN Now(p, w) - 1 ELSE Now(p, w)
<1>1. Now(p, w) \in Nat
  BY CallFacts, EpochFacts DEF Now
<1> QED
  BY <1>1 DEF Left, Closed, Closing

(* The epoch of a window that does not exist. *)
LEMMA AbsentStays ==
  ASSUME NEW P \in Programs, NEW w, NEW i \in Nat, i < Len(P), ~ Exists(P, w, i)
  PROVE  i + 1 \notin Starts(P, w) /\ Epoch(P, w, i + 1) = Epoch(P, w, i)
<1>1. DOMAIN P = 1 .. Len(P) /\ Len(P) \in Nat /\ ProgramOK(P) /\ i + 1 \in DOMAIN P /\ (i + 1) - 1 = i
  BY ProgramFacts
<1>2. ~ Is(P, i + 1, "lock_all", w)
  BY <1>1 DEF ProgramOK, Is
<1>3. ~ (Covers(P, w, i + 1) /\ Exists(P, w, i + 1))
  BY <1>1, ExistsStep DEF Covers, Is
<1>4. i + 1 \notin Starts(P, w)
  BY <1>2, <1>3 DEF Starts
<1> QED
  BY <1>4, EpochFacts

(* A step of p takes it further. *)
Further(p, w) ==
  /\ Now(p, w) <= Now(p, w)' /\ Closed(p, w) <= Closed(p, w)'
  /\ Left(p, w)' = Left(p, w) \/ (Join(p) /\ IsNext(p, w) /\ Left(p, w)' = Now(p, w))

(* A window that p keeps, its epoch and active_epoch left alone or started. *)
LEMMA FurtherKept ==
  ASSUME TypeOK, NEW p \in Procs, PlaceOK(p), PlaceOK(p)', TypeOK', WindowsOK(p), WindowsOK(p)', NEW w \in DOMAIN States[p],
         w \in DOMAIN States'[p], Closing(p, w) => Closing(p, w)',
         \/ /\ States'[p][w].active_epoch = States[p][w].active_epoch
            /\ States'[p][w].count_epoch = States[p][w].count_epoch
         \/ /\ States'[p][w].active_epoch = 1 /\ States[p][w].active_epoch # 1
            /\ States'[p][w].count_epoch = States[p][w].count_epoch + 1
  PROVE  Further(p, w)
<1>1. Now(p, w) = States[p][w].count_epoch /\ Now(p, w)' = States'[p][w].count_epoch
  BY DEF WindowsOK, StateOK
<1>2. States[p][w].count_epoch \in Nat
  BY StateFacts
<1>3. Left(p, w)' = Left(p, w) /\ Now(p, w) <= Now(p, w)' /\ (Left(p, w) = Now(p, w) \/ Left(p, w) = Now(p, w) - 1)
  BY <1>1, <1>2 DEF Left, Open
<1>4. Left(p, w)' <= Now(p, w)'
  BY <1>1, <1>2, <1>3
<1>5. Closed(p, w) <= Closed(p, w)'
  BY <1>1, <1>2, <1>3, <1>4 DEF Closed, Closing
<1> QED
  BY <1>3, <1>5 DEF Further

(* A window that p does not have before and after the step. *)
LEMMA FurtherAbsent ==
  ASSUME TypeOK, NEW p \in Procs, PlaceOK(p), NEW w \in Wins, ~ Open(p, w), ~ Open(p, w)',
         ~ Closing(p, w), ~ Closing(p, w)', Now(p, w)' = Now(p, w)
  PROVE  Further(p, w)
<1>1. Now(p, w) \in Nat
  BY ClosedFacts
<1> QED
  BY <1>1 DEF Further, Left, Closed, Closing

LEMMA FurtherStep ==
  ASSUME TypeOK, TypeOK', Matched, \A q \in Procs : PlaceOK(q), \A q \in Procs : ThreadsOK(q),
         \A q \in Procs : WindowsOK(q), NEW p \in Procs, ~ crashed',
         App(p) \/ (\E w \in Wins, q \in Procs : Communicate(p, w, q)) \/ \E w \in Wins : CheckThread(p, w),
         NEW w \in Wins, p \in Members[CommOf[w]]
  PROVE  Further(p, w)
<1>0. PlaceOK(p) /\ ThreadsOK(p) /\ WindowsOK(p) /\ Frame(p) /\ PlaceOK(p)' /\ WindowsOK(p)'
  BY PlaceStep, WindowsStep
<1>0a. prog' = prog /\ handle' = handle /\ prog \in Programs /\ pos[p] \in Nat /\ todo[p] \subseteq DOMAIN States[p]
  BY <1>0, CallFacts DEF Frame, PlaceOK, PositionOK
<1>k. /\ w \in DOMAIN States[p] <=> Exists(prog, w, At(p))
      /\ w \in DOMAIN States'[p] <=> Exists(prog, w, At(p)')
  BY <1>0, <1>0a DEF PlaceOK, KnownOK
<1>c. ASSUME w \notin DOMAIN States[p] PROVE ~ Open(p, w) /\ ~ Closing(p, w)
  BY <1>0a, <1>c DEF Open, Closing, IsNext
<1>u. ASSUME pc[p] = "user" \/ pc[p] = "sync" PROVE ~ Closing(p, w)
  BY <1>u DEF Closing
<1>a. ASSUME w \notin DOMAIN States[p], w \notin DOMAIN States'[p] PROVE Further(p, w)
  <2>1. ~ Open(p, w) /\ ~ Closing(p, w) /\ ~ Open(p, w)' /\ ~ Closing(p, w)'
    BY <1>0, <1>a, <1>c DEF Open, Closing, IsNext, PlaceOK, PositionOK
  <2>2. Now(p, w)' = Now(p, w)
    <3>1. CASE At(p)' = At(p)
      BY <1>0a, <3>1 DEF Now
    <3>2. CASE At(p) = pos[p] /\ At(p)' = pos[p] + 1
      <4>1. ~ Exists(prog, w, pos[p])
        BY <1>a, <1>k, <3>2
      <4>2. pos[p] < Len(prog)
        <5>1. At(p)' <= Len(prog)
          <6>1. pos'[p] <= Len(prog) /\ (pc'[p] # "user" => pos'[p] < Len(prog)) /\ pos'[p] \in Nat
            BY <1>0, <1>0a DEF PlaceOK, PositionOK, TypeOK
          <6> QED
            BY <1>0a, <6>1, CallFacts DEF At
        <5> QED
          BY <1>0a, <3>2, <5>1, CallFacts
      <4> QED
        BY <1>0a, <3>2, <4>1, <4>2, AbsentStays DEF Now
    <3> QED
      BY <3>1, <3>2, PlaceStep
  <2> QED
    BY <1>0, <2>1, <2>2, FurtherAbsent
<1>s. ASSUME NEW W, StartEpochs(p, W), w \in DOMAIN States[p], ~ Closing(p, w) PROVE Further(p, w)
  <2>1. /\ DOMAIN States'[p] = DOMAIN States[p]
        /\ w \in W => States'[p][w] = Started(States[p][w]) /\ States[p][w].thread = "off"
        /\ w \notin W => States'[p][w] = States[p][w]
    BY <1>s, StartEffect DEF StartEpochs
  <2>2. States[p][w] \in State /\ (States[p][w].thread # "off" <=> States[p][w].active_epoch = 1)
    BY <1>0, <1>s, StateFacts DEF ThreadsOK, ThreadOK
  <2>3. CASE w \in W
    <3>1. /\ States'[p][w].active_epoch = 1 /\ States[p][w].active_epoch # 1
          /\ States'[p][w].count_epoch = States[p][w].count_epoch + 1
      BY <2>1, <2>2, <2>3, StartedFacts
    <3> QED
      BY <1>0, <1>s, <2>1, <3>1, FurtherKept
  <2>4. CASE w \notin W
    BY <1>0, <1>s, <2>1, <2>4, FurtherKept
  <2> QED
    BY <2>3, <2>4
<1>1. CASE SkipCall(p)
  <2>1. States' = States /\ pc[p] = "user"
    BY <1>1, SkipCallEffect
  <2> QED
    BY <1>0, <1>a, <1>u, <2>1, FurtherKept
<1>2. CASE WinCreate(p)
  <2>0. PICK a : a = Arg(p)
    OBVIOUS
  <2>1. /\ Calls(p, "create") /\ pc'[p] = "user" /\ Arg(p) \in Wins
        /\ DOMAIN States'[p] = DOMAIN States[p] \cup {Arg(p)}
        /\ \A v \in DOMAIN States[p] : v # Arg(p) => States'[p][v] = States[p][v]
        /\ States'[p][Arg(p)] =
             [mpi_tag |-> MaxEpoch * get_tag_range_id(win_mpi_tag_id[p]), count_epoch |-> 0,
              active_epoch |-> 0, from_sync |-> 0, thread |-> "off", thread_end |-> 0, count |-> 0,
              value |-> 0, array |-> [q \in Procs |-> 0], landed |-> {}]
    BY <1>2, WinCreateEffect
  <2>2. States'[p][a].active_epoch = 0 /\ pc[p] = "user" /\ pos[p] < Len(prog) /\ Is(prog, pos[p] + 1, "create", a)
    BY <2>0, <2>1 DEF Calls, Is, Arg
  <2>3. At(p) = pos[p] /\ At(p)' = pos[p] + 1
    BY <1>0, <1>2, WinCreatePlace
  <2>4. CASE w = a
    <3>1. ~ Closing(p, w) /\ ~ Closing(p, w)' /\ ~ Open(p, w)'
      BY <2>1, <2>2, <2>4 DEF Closing, Open
    <3>2. ~ Open(p, w)
      <4>1. ~ Exists(prog, a, pos[p])
        <5>1. pos[p] + 1 \in DOMAIN prog /\ ProgramOK(prog) /\ (pos[p] + 1) - 1 = pos[p]
          BY <1>0, <1>0a, <2>2, CallFacts, ProgramFacts
        <5>2. \A j \in 1 .. pos[p] : ~ Is(prog, j, "create", a)
          BY <2>2, <5>1 DEF ProgramOK, Is
        <5> QED
          BY <5>2 DEF Exists
      <4> QED
        BY <1>c, <1>k, <2>3, <2>4, <4>1
    <3>3. Now(p, w)' = Now(p, w)
      BY <1>0a, <2>2, <2>3, <2>4, CreatedFresh DEF Now, SameWindow
    <3> QED
      BY <1>0, <3>1, <3>2, <3>3, FurtherAbsent
  <2>5. CASE w # a
    <3>1. CASE w \in DOMAIN States[p]
      BY <1>0, <1>u, <2>0, <2>1, <2>2, <2>5, <3>1, FurtherKept
    <3>2. CASE w \notin DOMAIN States[p]
      BY <1>a, <2>0, <2>1, <2>5, <3>2
    <3> QED
      BY <3>1, <3>2
  <2> QED
    BY <2>4, <2>5
<1>3. CASE WinFree(p)
  <2>0. PICK a : a = Arg(p)
    OBVIOUS
  <2>1. /\ Calls(p, "free") /\ pc'[p] = "sync" /\ crashed' = (States[p][a].thread # "off")
        /\ DOMAIN States'[p] = DOMAIN States[p] \ {a}
        /\ \A v \in DOMAIN States'[p] : States'[p][v] = States[p][v]
    BY <1>3, <2>0, WinFreeEffect
  <2>2. At(p) = pos[p] /\ At(p)' = pos[p] + 1 /\ a \in DOMAIN States[p]
    BY <1>0, <1>3, <2>0, WinFreePlace
  <2>3. pc[p] = "user" /\ pos[p] < Len(prog) /\ prog[pos[p] + 1].op = "free"
    BY <2>1 DEF Calls
  <2>4. CASE w = a
    <3>1. ~ Closing(p, w) /\ ~ Closing(p, w)' /\ ~ Open(p, w)'
      BY <2>1, <2>3, <2>4 DEF Closing, Open
    <3>2. ~ Open(p, w)
      BY <1>0, <2>1, <2>2, <2>4 DEF Open, ThreadsOK, ThreadOK
    <3>3. Now(p, w)' = Now(p, w)
      BY <1>0, <1>0a, <2>2, <2>3, SameWindowAt DEF Now, SameWindow
    <3> QED
      BY <1>0, <3>1, <3>2, <3>3, FurtherAbsent
  <2>5. CASE w # a
    <3>1. CASE w \in DOMAIN States[p]
      BY <1>0, <1>u, <2>1, <2>3, <2>5, <3>1, FurtherKept
    <3>2. CASE w \notin DOMAIN States[p]
      BY <1>a, <2>1, <3>2
    <3> QED
      BY <3>1, <3>2
  <2> QED
    BY <2>4, <2>5
<1>4. CASE WinLockAll(p)
  <2>1. StartEpochs(p, {Arg(p)}) /\ pc[p] = "user"
    BY <1>4, WinLockAllEffect DEF Calls
  <2>2. DOMAIN States'[p] = DOMAIN States[p]
    BY <2>1, StartEffect
  <2> QED
    BY <1>a, <1>s, <1>u, <2>1, <2>2
<1>5. CASE WinUnlockAll(p) \/ Barrier(p) \/ LeaveSync(p)
  <2>1. States' = States /\ (pc[p] = "user" \/ pc[p] = "sync")
    BY <1>5, WinUnlockAllEffect, BarrierEffect, LeaveSyncEffect DEF Calls
  <2> QED
    BY <1>0, <1>a, <1>u, <2>1, FurtherKept
<1>6. CASE Reduce(p)
  <2>1. States' = States /\ pc[p] = "sweep"
    BY <1>6, ReduceEffect
  <2>2. ~ Closing(p, w)
    BY <2>1 DEF Closing
  <2> QED
    BY <1>0, <1>a, <2>1, <2>2, FurtherKept
<1>7. CASE ReduceReturns(p)
  <2>1. pc'[p] = "join" /\ todo' = todo
    BY <1>0a, <1>7, ReduceReturnsEffect
  <2>2. PICK a \in todo[p] :
          /\ DOMAIN States'[p] = DOMAIN States[p]
          /\ States'[p][a] = [States[p][a] EXCEPT
                                !.value = reduced[<<CommOf[a], rounds[p][CommOf[a]]>>].sum[p],
                                !.thread_end = 1]
          /\ \A v \in DOMAIN States[p] : v # a => States'[p][v] = States[p][v]
    BY <1>0a, <1>7, ReduceReturnsEffect
  <2>3. States[p][a] \in State
    BY <1>0a, StateFacts
  <2>4. /\ States'[p][a].active_epoch = States[p][a].active_epoch
        /\ States'[p][a].count_epoch = States[p][a].count_epoch
    BY <2>2, <2>3 DEF State
  <2>5. Closing(p, w) => Closing(p, w)'
    BY <1>0a, <2>1 DEF Closing, IsNext
  <2>6. CASE w \in DOMAIN States[p]
    <3>1. /\ States'[p][w].active_epoch = States[p][w].active_epoch
          /\ States'[p][w].count_epoch = States[p][w].count_epoch
      BY <2>2, <2>4, <2>6
    <3> QED
      BY <1>0, <2>2, <2>5, <2>6, <3>1, FurtherKept
  <2>7. CASE w \notin DOMAIN States[p]
    BY <1>a, <2>2, <2>7
  <2> QED
    BY <2>6, <2>7
<1>8. CASE Join(p)
  <2> DEFINE inBarrier == prog[pos[p] + 1].op = "barrier"
  <2>1. pc[p] = "join" /\ pc'[p] \notin {"reduce", "join"}
    BY <1>0a, <1>8, JoinEffect
  <2>2. PICK a \in todo[p] :
          /\ a \in Wins /\ IsNext(p, a) /\ DOMAIN States'[p] = DOMAIN States[p]
          /\ States'[p][a] = IF inBarrier THEN Synced(Joined(States[p][a]))
                             ELSE Joined(States[p][a])
          /\ \A v \in DOMAIN States[p] : v # a => States'[p][v] = States[p][v]
    BY <1>0a, <1>8, JoinEffect
  <2>3. States[p][a] \in State /\ a \in DOMAIN States[p]
    BY <1>0a, StateFacts
  <2>4. States'[p][a].active_epoch = 0 /\ States'[p][a].count_epoch = States[p][a].count_epoch
    BY <2>2, <2>3, JoinedFacts
  <2>5. CASE w = a
    <3>1. Now(p, w) = States[p][w].count_epoch /\ Now(p, w)' = States'[p][w].count_epoch
      BY <1>0, <2>2, <2>3, <2>5 DEF WindowsOK, StateOK
    <3>2. Now(p, w)' = Now(p, w) /\ ~ Open(p, w)' /\ ~ Closing(p, w)' /\ Now(p, w) \in Nat
      BY <1>0, <2>1, <2>4, <2>5, <3>1, ClosedFacts DEF Open, Closing
    <3>3. Left(p, w)' = Now(p, w) /\ Closed(p, w)' = Now(p, w)
      BY <3>2 DEF Left, Closed, Closing
    <3>4. Closed(p, w) <= Now(p, w)
      BY <1>0, ClosedFacts
    <3> QED
      BY <1>8, <2>2, <2>5, <3>2, <3>3, <3>4 DEF Further
  <2>6. CASE w # a
    <3>1. ~ Closing(p, w)
      BY <2>2, <2>6, NextUnique DEF Closing
    <3>2. CASE w \in DOMAIN States[p]
      BY <1>0, <2>2, <2>6, <3>1, <3>2, FurtherKept
    <3>3. CASE w \notin DOMAIN States[p]
      BY <1>a, <2>2, <3>3
    <3> QED
      BY <3>2, <3>3
  <2> QED
    BY <2>5, <2>6
<1>9. CASE Restart(p)
  <2>1. pc[p] = "sweep" /\ \E W : StartEpochs(p, W)
    BY <1>9, RestartEffect
  <2>2. DOMAIN States'[p] = DOMAIN States[p]
    BY <2>1, StartEffect
  <2>3. ~ Closing(p, w)
    BY <2>1 DEF Closing
  <2> QED
    BY <1>a, <1>s, <2>1, <2>2, <2>3
<1>10. CASE (\E v \in Wins, q \in Procs : Communicate(p, v, q)) \/ \E v \in Wins : CheckThread(p, v)
  <2>1. /\ DOMAIN States'[p] = DOMAIN States[p] /\ UNCHANGED <<pos, pc, todo>>
        /\ \A v \in DOMAIN States[p] :
             /\ States'[p][v].active_epoch = States[p][v].active_epoch
             /\ States'[p][v].count_epoch = States[p][v].count_epoch
    BY <1>10, QuietFields
  <2>2. Closing(p, w) => Closing(p, w)'
    BY <1>0a, <2>1 DEF Closing, IsNext
  <2>3. CASE w \in DOMAIN States[p]
    BY <1>0, <2>1, <2>2, <2>3, FurtherKept
  <2>4. CASE w \notin DOMAIN States[p]
    BY <1>a, <2>1, <2>4
  <2> QED
    BY <2>3, <2>4
<1> QED
  BY <1>1, <1>2, <1>3, <1>4, <1>5, <1>6, <1>7, <1>8, <1>9, <1>10 DEF App

-----------------------------------------------------------------------------
(* What all the lemmas below start from. *)
Step(p) ==
  App(p) \/ (\E w \in Wins, q \in Procs : Communicate(p, w, q)) \/ \E w \in Wins : CheckThread(p, w)

Regular ==
  /\ TypeOK /\ HistoryOK /\ Matched /\ ~ crashed
  /\ \A q \in Procs : PlaceOK(q) /\ ThreadsOK(q) /\ WindowsOK(q)

LEMMA RegularStep ==
  ASSUME Regular, NEW p \in Procs, Step(p), ~ crashed'
  PROVE  /\ Regular' /\ Frame(p)
         /\ \A w \in Wins : p \in Members[CommOf[w]] => Further(p, w)
<1>1. /\ TypeOK /\ HistoryOK /\ Matched /\ \A q \in Procs : PlaceOK(q)
      /\ \A q \in Procs : ThreadsOK(q) /\ \A r \in Procs : WindowsOK(r)
  BY DEF Regular
<1>2. Next
  BY DEF Step, Next
<1>3. TypeOK' /\ HistoryOK'
  BY <1>1, <1>2, TypeStep, HistoryStep
<1>4. Frame(p) /\ \A q \in Procs : PlaceOK(q)'
  BY <1>1, PlaceStep DEF Step
<1>5. \A q \in Procs : ThreadsOK(q)'
  BY <1>1, ThreadStep DEF Step
<1>6. \A q \in Procs : WindowsOK(q)'
  BY <1>1, WindowsStep DEF Step
<1>7. Matched'
  <2>1. UNCHANGED <<prog, handle>>
    BY <1>4 DEF Frame
  <2> QED
    BY <1>1, <2>1 DEF Matched, SameOrder, BarriersCover
<1>8. \A w \in Wins : p \in Members[CommOf[w]] => Further(p, w)
  BY <1>1, <1>3, FurtherStep DEF Step
<1> QED
  BY <1>3, <1>4, <1>5, <1>6, <1>7, <1>8 DEF Regular

(* Reductions of a communicator come one after the other. *)
LEMMA ReductionsFinite ==
  ASSUME NEW P \in Programs, NEW c, NEW T \in SUBSET Reductions(P, c)
  PROVE  IsFiniteSet(T) /\ Cardinality(T) \in Nat
<1>1. Len(P) \in Nat /\ DOMAIN P = 1 .. Len(P) /\ IsFiniteSet(Wins)
  BY ProgramFacts, WindowsAssumption
<1>2. IsFiniteSet(1 .. Len(P))
  BY <1>1, FS_Interval
<1>3. IsFiniteSet((DOMAIN P) \X Wins)
  BY <1>1, <1>2, FS_Product
<1>4. T \in SUBSET ((DOMAIN P) \X Wins)
  BY DEF Reductions
<1>5. IsFiniteSet(T)
  BY <1>3, <1>4, FS_Subset
<1> QED
  BY <1>5, FS_CardinalityType

LEMMA ReductionFacts ==
  ASSUME NEW P \in Programs, NEW c, NEW x \in Reductions(P, c)
  PROVE  /\ x = <<x[1], x[2]>> /\ x[1] \in DOMAIN P /\ x[1] \in Nat /\ x[1] >= 1 /\ x[1] <= Len(P)
         /\ x[2] \in Wins /\ CommOf[x[2]] = c /\ Ends(P, x[2], x[1])
<1>1. Len(P) \in Nat /\ DOMAIN P = 1 .. Len(P)
  BY ProgramFacts
<1> QED
  BY <1>1 DEF Reductions

LEMMA RankLess ==
  ASSUME NEW P \in Programs, NEW h, \A w \in Wins : h[w] \in Nat, NEW c,
         NEW x \in Reductions(P, c), NEW y \in Reductions(P, c), x \in Before(P, h, c, y)
  PROVE  Cardinality(Before(P, h, c, x)) < Cardinality(Before(P, h, c, y))
<1> DEFINE X == Before(P, h, c, x)
           Y == Before(P, h, c, y)
<1>1. x[1] \in Nat /\ y[1] \in Nat /\ h[x[2]] \in Nat /\ h[y[2]] \in Nat
  BY ReductionFacts
<1>2. x[1] < y[1] \/ (x[1] = y[1] /\ h[x[2]] < h[y[2]])
  BY DEF Before
<1>3. x \notin X
  BY <1>1 DEF Before
<1>4. ASSUME NEW z \in X PROVE z \in Y
  <2>1. z \in Reductions(P, c) /\ (z[1] < x[1] \/ (z[1] = x[1] /\ h[z[2]] < h[x[2]]))
    BY <1>4 DEF Before
  <2>2. z[1] \in Nat /\ h[z[2]] \in Nat
    BY <2>1, ReductionFacts
  <2>3. z[1] < y[1] \/ (z[1] = y[1] /\ h[z[2]] < h[y[2]])
    BY <1>1, <1>2, <2>1, <2>2
  <2> QED
    BY <2>1, <2>3 DEF Before
<1>5. X \cup {x} \subseteq Y /\ X \subseteq Reductions(P, c) /\ Y \subseteq Reductions(P, c)
  BY <1>4 DEF Before
<1>6. IsFiniteSet(X) /\ IsFiniteSet(Y) /\ Cardinality(X) \in Nat /\ Cardinality(Y) \in Nat
  BY <1>5, ReductionsFinite
<1> HIDE DEF X, Y
<1>7. Cardinality(X \cup {x}) = Cardinality(X) + 1 /\ Cardinality(X \cup {x}) <= Cardinality(Y)
  BY <1>3, <1>5, <1>6, FS_AddElement, FS_Subset
<1>8. Cardinality(X) < Cardinality(Y)
  BY <1>6, <1>7
<1> QED
  BY <1>8 DEF X, Y

LEMMA RankUnique ==
  ASSUME NEW P \in Programs, NEW h, \A w \in Wins : h[w] \in Nat,
         \A v, w \in Wins : h[v] = h[w] => v = w, NEW c,
         NEW x \in Reductions(P, c), NEW y \in Reductions(P, c),
         Cardinality(Before(P, h, c, x)) = Cardinality(Before(P, h, c, y))
  PROVE  x = y
<1>1. /\ x = <<x[1], x[2]>> /\ y = <<y[1], y[2]>> /\ x[1] \in Nat /\ y[1] \in Nat
      /\ x[2] \in Wins /\ y[2] \in Wins /\ h[x[2]] \in Nat /\ h[y[2]] \in Nat
  BY ReductionFacts
<1>2. Cardinality(Before(P, h, c, x)) \in Nat
  BY ReductionsFinite DEF Before
<1>3. x \notin Before(P, h, c, y) /\ y \notin Before(P, h, c, x)
  BY <1>2, RankLess
<1>4. x[1] = y[1] /\ h[x[2]] = h[y[2]]
  BY <1>1, <1>3 DEF Before
<1> QED
  BY <1>1, <1>4

(* Maps with the same order give the same order to the reductions. *)
LEMMA BeforeSame ==
  ASSUME TypeOK, Matched, NEW p \in Procs, NEW q \in Procs, NEW c, NEW x \in Reductions(prog, c)
  PROVE  Before(prog, handle[p], c, x) = Before(prog, handle[q], c, x)
<1>1. prog \in Programs /\ SameOrder
  BY DEF TypeOK, Matched
<1>2. \A y \in Reductions(prog, c) : y[2] \in Wins
  BY <1>1, ReductionFacts
<1>3. \A y \in Reductions(prog, c) : handle[p][y[2]] < handle[p][x[2]] <=> handle[q][y[2]] < handle[q][x[2]]
  BY <1>1, <1>2 DEF SameOrder
<1> QED
  BY <1>3 DEF Before

(* A call that p makes ends an epoch of a window of p only if it is an     *)
(* unlock_all of it or a barrier, which p sweeps.                          *)
LEMMA EndsHere ==
  ASSUME Regular, NEW p \in Procs, pos[p] < Len(prog), At(p) = pos[p], NEW v \in Wins,
         p \in Members[CommOf[v]], Ends(prog, v, pos[p] + 1)
  PROVE  LET call == prog[pos[p] + 1] IN
         /\ Concerns(call, p)
         /\ \/ call.op = "unlock_all" /\ call.on = v
            \/ call.op = "barrier" /\ Active(prog, v, pos[p]) /\ v \in DOMAIN States[p]
<1> DEFINE call == prog[pos[p] + 1]
<1>1. TypeOK /\ PlaceOK(p) /\ prog \in Programs /\ pos[p] \in Nat /\ (pos[p] + 1) - 1 = pos[p]
  BY CallFacts DEF Regular
<1>2. CASE Is(prog, pos[p] + 1, "unlock_all", v)
  BY <1>2 DEF Is, Concerns, CommOfCall
<1>3. CASE ~ Is(prog, pos[p] + 1, "unlock_all", v)
  <2>1. Covers(prog, v, pos[p] + 1) /\ Exists(prog, v, pos[p] + 1) /\ Active(prog, v, pos[p])
    BY <1>1, <1>3 DEF Ends
  <2>2. call.op = "barrier" /\ Concerns(call, p)
    BY <2>1 DEF Covers, Concerns, CommOfCall
  <2>3. ~ Is(prog, pos[p] + 1, "create", v)
    BY <2>2 DEF Is
  <2>4. Exists(prog, v, pos[p])
    BY <1>1, <2>1, <2>3, ExistsStep
  <2>5. v \in DOMAIN States[p]
    BY <1>1, <2>4 DEF PlaceOK, KnownOK
  <2> QED
    BY <2>1, <2>2, <2>5
<1> QED
  BY <1>2, <1>3

(* What a process clears ends an epoch on all. *)
LEMMA NextEnds ==
  ASSUME Regular, NEW p \in Procs, pc[p] \in Clearing, NEW w \in todo[p]
  PROVE  /\ At(p) = pos[p] /\ pos[p] < Len(prog) /\ w \in DOMAIN States[p] /\ w \in Wins
         /\ p \in Members[CommOf[w]] /\ <<pos[p] + 1, w>> \in Reductions(prog, CommOf[w])
         /\ Open(p, w) /\ Active(prog, w, pos[p])
<1>1. TypeOK /\ PlaceOK(p) /\ ThreadsOK(p) /\ WindowsOK(p) /\ Matched
  BY DEF Regular
<1>2. /\ At(p) = pos[p] /\ pos[p] < Len(prog) /\ Concerns(prog[pos[p] + 1], p)
      /\ prog[pos[p] + 1].op \in {"unlock_all", "barrier"} /\ w \in DOMAIN States[p]
      /\ prog[pos[p] + 1].op = "unlock_all" => todo[p] = {prog[pos[p] + 1].on}
  BY <1>1 DEF Clearing, At, PlaceOK, PositionOK
<1>3. w \in Wins /\ p \in Members[CommOf[w]] /\ pos[p] + 1 \in DOMAIN prog /\ pos[p] \in Nat
      /\ (pos[p] + 1) - 1 = pos[p] /\ Exists(prog, w, pos[p]) /\ prog \in Programs
  BY <1>1, <1>2, StateFacts, CallFacts DEF PlaceOK, KnownOK
<1>4. CASE prog[pos[p] + 1].op = "unlock_all"
  <2>1. w = prog[pos[p] + 1].on
    BY <1>2, <1>4
  <2>2. Is(prog, pos[p] + 1, "unlock_all", w)
    BY <1>4, <2>1 DEF Is
  <2>3. Ends(prog, w, pos[p] + 1)
    BY <2>2 DEF Ends
  <2>4. InEpoch(prog, w, pos[p])
    <3>1. ProgramOK(prog)
      BY <1>3, ProgramFacts
    <3> QED
      BY <1>3, <1>4, <2>1, <3>1 DEF ProgramOK
  <2>5. Active(prog, w, pos[p])
    BY <2>4 DEF Active
  <2>6. ~ Swept(p, w)
    BY <1>4 DEF Swept, InBarrier
  <2>7. Open(p, w)
    BY <1>1, <1>2, <2>5, <2>6 DEF WindowsOK, StateOK, Open
  <2> QED
    BY <1>2, <1>3, <2>3, <2>5, <2>7 DEF Reductions
<1>5. CASE prog[pos[p] + 1].op = "barrier"
  <2>1. InBarrier(p)
    BY <1>5 DEF InBarrier
  <2>2. States[p][w].active_epoch = 1
    BY <1>1, <1>2, <2>1 DEF ThreadsOK, ThreadOK
  <2>3. Active(prog, w, pos[p])
    BY <1>1, <1>2, <2>2 DEF WindowsOK, StateOK
  <2>4. Covers(prog, w, pos[p] + 1) /\ Exists(prog, w, pos[p] + 1)
    BY <1>1, <1>2, <1>5, <2>3, BarrierCovers
  <2>5. Ends(prog, w, pos[p] + 1)
    BY <1>3, <2>3, <2>4 DEF Ends
  <2> QED
    BY <1>2, <1>3, <2>2, <2>3, <2>5 DEF Reductions, Open
<1> QED
  BY <1>2, <1>4, <1>5

(* The reductions p has made when it is at one. *)
LEMMA MadeBefore ==
  ASSUME Regular, NEW p \in Procs, pc[p] \in Clearing, NEW w, IsNext(p, w)
  PROVE  LET c == CommOf[w]
             x == <<pos[p] + 1, w>>
         IN  /\ c \in Comms /\ p \in Members[c] /\ x \in Reductions(prog, c)
             /\ pc[p] # "join" => Made(p, c) = Before(prog, handle[p], c, x)
             /\ pc[p] = "join" => Made(p, c) = Before(prog, handle[p], c, x) \cup {x}
             /\ x \notin Before(prog, handle[p], c, x)
<1> DEFINE c == CommOf[w]
           x == <<pos[p] + 1, w>>
           h == handle[p]
<1>1. TypeOK /\ PlaceOK(p) /\ ThreadsOK(p) /\ WindowsOK(p) /\ w \in todo[p] /\ \A v \in todo[p] : h[w] <= h[v]
  BY DEF Regular, IsNext
<1>2. /\ At(p) = pos[p] /\ pos[p] < Len(prog) /\ w \in DOMAIN States[p] /\ w \in Wins
      /\ p \in Members[c] /\ x \in Reductions(prog, c)
  BY <1>1, NextEnds
<1>3. c \in Comms /\ prog \in Programs /\ pos[p] \in Nat /\ todo[p] \subseteq Wins
  BY <1>1, <1>2, MemberFacts, CallFacts DEF TypeOK
<1>4. \A v \in Wins : h[v] \in Nat
  BY <1>1, HandleFacts
<1>5. x[1] = pos[p] + 1 /\ x[2] = w
  OBVIOUS
<1>6. ASSUME NEW y \in Reductions(prog, c)
      PROVE  /\ y \in Before(prog, h, c, x) <=> y[1] <= pos[p] \/ (y[1] = pos[p] + 1 /\ h[y[2]] < h[w])
             /\ y[1] \in Nat /\ y[2] \in Wins /\ CommOf[y[2]] = c /\ y = <<y[1], y[2]>>
             /\ y[1] = pos[p] + 1 => Ends(prog, y[2], pos[p] + 1)
  BY <1>3, <1>5, <1>6, ReductionFacts DEF Before
<1>7. ASSUME NEW y \in Reductions(prog, c), y[1] = pos[p] + 1
      PROVE  y[2] \notin todo[p] <=> h[y[2]] < h[w]
  <2>1. ASSUME h[y[2]] < h[w] PROVE y[2] \notin todo[p]
    BY <1>1, <1>3, <1>4, <2>1
  <2>2. ASSUME y[2] \notin todo[p] PROVE h[y[2]] < h[w]
    <3>1. p \in Members[CommOf[y[2]]] /\ y[2] \in Wins /\ Ends(prog, y[2], pos[p] + 1)
      BY <1>2, <1>6, <1>7
    <3>2. \/ prog[pos[p] + 1].op = "unlock_all" /\ prog[pos[p] + 1].on = y[2]
          \/ prog[pos[p] + 1].op = "barrier" /\ Active(prog, y[2], pos[p]) /\ y[2] \in DOMAIN States[p]
      BY <1>2, <3>1, EndsHere
    <3>3. prog[pos[p] + 1].op = "unlock_all" => todo[p] = {prog[pos[p] + 1].on}
      BY <1>1 DEF PlaceOK, PositionOK
    <3>4. prog[pos[p] + 1].op = "barrier" /\ Active(prog, y[2], pos[p]) /\ y[2] \in DOMAIN States[p]
      BY <2>2, <3>2, <3>3
    <3>5. Swept(p, y[2])
      BY <2>2, <3>4 DEF Swept, InBarrier
    <3> QED
      BY <1>1, <1>2, <3>4, <3>5 DEF WindowsOK, StateOK
  <2> QED
    BY <2>1, <2>2
<1>8. \A y \in Reductions(prog, c) : IsNext(p, y[2]) <=> y[2] = w
  BY <1>1, NextUnique
<1>9. \A y \in Reductions(prog, c) :
        y \in Made(p, c) <=> \/ y \in Before(prog, h, c, x)
                             \/ y[1] = pos[p] + 1 /\ pc[p] = "join" /\ y[2] = w
  BY <1>2, <1>6, <1>7, <1>8 DEF Made
<1>10. x \notin Before(prog, h, c, x)
  BY <1>4, <1>2, <1>3, <1>5, <1>6
<1>11. \A y \in Reductions(prog, c) : y[1] = pos[p] + 1 /\ y[2] = w <=> y = x
  BY <1>6
<1>12. Made(p, c) \subseteq Reductions(prog, c) /\ Before(prog, h, c, x) \subseteq Reductions(prog, c)
  BY DEF Made, Before
<1> HIDE DEF c, x, h
<1>13. /\ pc[p] # "join" => Made(p, c) = Before(prog, h, c, x)
       /\ pc[p] = "join" => Made(p, c) = Before(prog, h, c, x) \cup {x}
  BY <1>2, <1>9, <1>11, <1>12
<1> QED
  BY <1>2, <1>3, <1>10, <1>13 DEF c, x, h

(* A call that ends no epoch on p. *)
LEMMA MadeCall ==
  ASSUME Regular, Regular', NEW p \in Procs, Frame(p), At(p) = pos[p], At(p)' = pos[p] + 1, pos[p] < Len(prog),
         pc[p] \notin Clearing, pc'[p] \notin Clearing, NEW c \in Comms, p \in Members[c],
         LET call == prog[pos[p] + 1] IN
         call.op \in {"create", "free", "lock_all"} \/ ~ Concerns(call, p)
  PROVE  Made(p, c)' = Made(p, c)
<1>1. prog' = prog /\ prog \in Programs /\ pos[p] \in Nat
  BY CallFacts DEF Frame, Regular
<1>2. ASSUME NEW y \in Reductions(prog, c), y[1] = pos[p] + 1 PROVE FALSE
  <2>1. y[2] \in Wins /\ CommOf[y[2]] = c /\ Ends(prog, y[2], pos[p] + 1)
    BY <1>1, <1>2, ReductionFacts
  <2> QED
    BY <2>1, EndsHere
<1>3. \A y \in Reductions(prog, c) : y[1] <= pos[p] + 1 <=> y[1] <= pos[p]
  BY <1>1, <1>2, ReductionFacts
<1> QED
  BY <1>1, <1>3 DEF Made

(* p starts to clear: it has made none of the reductions of this call. *)
LEMMA MadeClearing ==
  ASSUME Regular, NEW p \in Procs, WinUnlockAll(p) \/ Barrier(p), NEW c \in Comms, p \in Members[c]
  PROVE  Made(p, c)' = Made(p, c)
<1>1. /\ Frame(p) /\ pos' = pos /\ pc[p] = "user" /\ pc'[p] = "sweep" /\ pos[p] < Len(prog)
      /\ WinUnlockAll(p) => todo'[p] = {Arg(p)} /\ prog[pos[p] + 1].op = "unlock_all"
      /\ Barrier(p) => todo'[p] = Sweep(p) /\ prog[pos[p] + 1].op = "barrier"
  BY WinUnlockAllEffect, BarrierEffect DEF Regular, Calls
<1>2. prog' = prog /\ prog \in Programs /\ pos[p] \in Nat /\ At(p) = pos[p] /\ At(p)' = pos[p]
  BY <1>1, CallFacts DEF Frame, Regular, At
<1>3. ASSUME NEW y \in Reductions(prog, c), y[1] = pos[p] + 1 PROVE y[2] \in todo'[p]
  <2>1. y[2] \in Wins /\ CommOf[y[2]] = c /\ Ends(prog, y[2], pos[p] + 1)
    BY <1>2, <1>3, ReductionFacts
  <2>2. \/ prog[pos[p] + 1].op = "unlock_all" /\ prog[pos[p] + 1].on = y[2]
        \/ prog[pos[p] + 1].op = "barrier" /\ Active(prog, y[2], pos[p]) /\ y[2] \in DOMAIN States[p]
    BY <1>1, <1>2, <2>1, EndsHere
  <2>3. CASE WinUnlockAll(p)
    BY <1>1, <2>2, <2>3 DEF Arg
  <2>4. CASE Barrier(p)
    <3>1. Active(prog, y[2], pos[p]) /\ y[2] \in DOMAIN States[p]
      BY <1>1, <2>2, <2>4
    <3>2. ~ Swept(p, y[2])
      BY <1>1 DEF Swept, InBarrier, Clearing
    <3>3. States[p][y[2]].active_epoch = 1
      BY <1>2, <3>1, <3>2 DEF Regular, WindowsOK, StateOK
    <3> QED
      BY <1>1, <2>4, <3>1, <3>3 DEF Sweep
  <2> QED
    BY <2>3, <2>4
<1>4. \A y \in Reductions(prog, c) : y \in Made(p, c)' <=> y \in Made(p, c)
  BY <1>1, <1>2, <1>3 DEF Made, Clearing
<1> QED
  BY <1>2, <1>4 DEF Made

LEMMA MadeJoin ==
  ASSUME Regular, NEW p \in Procs, Join(p), NEW c \in Comms, p \in Members[c]
  PROVE  Made(p, c)' = Made(p, c)
<1>0. TypeOK /\ PlaceOK(p) /\ todo[p] \subseteq DOMAIN States[p]
  BY DEF Regular, PlaceOK, PositionOK
<1>1. PICK w \in todo[p] : w \in Wins /\ IsNext(p, w) /\ todo'[p] = todo[p] \ {w}
  BY <1>0, JoinEffect
<1>2. /\ Frame(p) /\ pc[p] = "join"
      /\ prog[pos[p] + 1].op = "barrier" => pc'[p] = "sweep" /\ pos'[p] = pos[p]
      /\ prog[pos[p] + 1].op # "barrier" => pc'[p] = "user" /\ pos'[p] = pos[p] + 1
  BY <1>0, JoinEffect
<1>3. prog' = prog /\ prog \in Programs /\ pos[p] \in Nat /\ At(p) = pos[p]
  BY <1>0, <1>2, CallFacts DEF Frame, At
<1>4. \A v : IsNext(p, v) <=> v = w
  BY <1>0, <1>1, NextUnique
<1>5. \A y \in Reductions(prog, c) :
        y \in Made(p, c) <=> y[1] <= pos[p] \/ (y[1] = pos[p] + 1 /\ y[2] \notin todo[p] \ {w})
  BY <1>2, <1>3, <1>4 DEF Made, Clearing
<1>6. CASE prog[pos[p] + 1].op = "barrier"
  <2>1. At(p)' = pos[p] /\ pos'[p] = pos[p] /\ pc'[p] = "sweep"
    BY <1>2, <1>6 DEF At
  <2>2. \A y \in Reductions(prog, c) :
          y \in Made(p, c)' <=> y[1] <= pos[p] \/ (y[1] = pos[p] + 1 /\ y[2] \notin todo[p] \ {w})
    BY <1>1, <1>3, <2>1 DEF Made, Clearing
  <2> QED
    BY <1>3, <1>5, <2>2 DEF Made
<1>7. CASE prog[pos[p] + 1].op # "barrier"
  <2>1. At(p)' = pos[p] + 1 /\ pc'[p] = "user"
    BY <1>2, <1>7 DEF At
  <2>2. todo[p] \ {w} = {}
    BY <1>0, <1>1, <1>7, JoinPlace
  <2>3. \A y \in Reductions(prog, c) : y \in Made(p, c)' <=> y[1] <= pos[p] + 1
    BY <1>3, <2>1 DEF Made, Clearing
  <2>4. \A y \in Reductions(prog, c) : y[1] <= pos[p] + 1 <=> y[1] <= pos[p] \/ y[1] = pos[p] + 1
    BY <1>3, ReductionFacts
  <2> QED
    BY <1>3, <1>5, <2>2, <2>3, <2>4 DEF Made
<1> QED
  BY <1>6, <1>7

LEMMA MadeRestart ==
  ASSUME Regular, NEW p \in Procs, Restart(p) \/ LeaveSync(p), NEW c \in Comms, p \in Members[c]
  PROVE  Made(p, c)' = Made(p, c)
<1>0. TypeOK /\ PlaceOK(p) /\ prog \in Programs /\ pos[p] \in Nat
  BY CallFacts DEF Regular
<1>1. CASE Restart(p)
  <2>1. Frame(p) /\ pc[p] = "sweep" /\ todo[p] = {} /\ pc'[p] = "sync" /\ At(p) = pos[p] /\ At(p)' = pos[p] + 1
    BY <1>0, <1>1, RestartEffect, RestartPlace
  <2>2. prog' = prog
    BY <2>1 DEF Frame
  <2>3. \A y \in Reductions(prog, c) : y[1] <= pos[p] + 1 <=> y[1] <= pos[p] \/ y[1] = pos[p] + 1
    BY <1>0, ReductionFacts
  <2> QED
    BY <2>1, <2>2, <2>3 DEF Made, Clearing
<1>2. CASE LeaveSync(p)
  <2>1. Frame(p) /\ pc[p] = "sync" /\ pc'[p] = "user" /\ At(p)' = At(p)
    BY <1>0, <1>2, LeaveSyncEffect, LeaveSyncPlace
  <2>2. prog' = prog
    BY <2>1 DEF Frame
  <2> QED
    BY <2>1, <2>2 DEF Made, Clearing
<1> QED
  BY <1>1, <1>2

LEMMA RoundsStep ==
  ASSUME Regular, Regular', NEW p \in Procs, Step(p), \A q \in Procs : RoundsOK(q)
  PROVE  \A q \in Procs : RoundsOK(q)'
<1>0. TypeOK /\ PlaceOK(p) /\ Frame(p) /\ RoundsOK(p) /\ todo[p] \subseteq DOMAIN States[p]
  BY PlaceStep DEF Regular, Step, PlaceOK, PositionOK
<1>0a. prog' = prog /\ handle' = handle
  BY <1>0 DEF Frame
<1>1. ASSUME NEW q \in Procs, q # p PROVE RoundsOK(q)'
  <2>1. RoundsOK(q) /\ pos'[q] = pos[q] /\ pc'[q] = pc[q] /\ todo'[q] = todo[q] /\ rounds'[q] = rounds[q]
    BY <1>0, <1>1 DEF Frame
  <2>2. \A c : Made(q, c)' = Made(q, c)
    BY <1>0a, <2>1 DEF Made, At, IsNext
  <2> QED
    BY <2>1, <2>2 DEF RoundsOK
<1>s. SUFFICES RoundsOK(p)'
  BY <1>1
<1>2. ASSUME rounds' = rounds, \A c \in Comms : p \in Members[c] => Made(p, c)' = Made(p, c)
      PROVE  RoundsOK(p)'
  BY <1>0, <1>2 DEF RoundsOK
<1>3. CASE SkipCall(p) \/ WinCreate(p) \/ WinFree(p) \/ WinLockAll(p)
  <2>1. /\ pc[p] = "user" /\ pos[p] < Len(prog) /\ pc'[p] \in {"user", "sync"} /\ rounds' = rounds
        /\ prog[pos[p] + 1].op \in {"create", "free", "lock_all"} \/ ~ Concerns(prog[pos[p] + 1], p)
    BY <1>0, <1>3, SkipCallEffect, WinCreateEffect, WinFreeEffect, WinLockAllEffect DEF Calls
  <2>2. At(p) = pos[p] /\ At(p)' = pos[p] + 1
    BY <1>0, <1>3, SkipCallPlace, WinCreatePlace, WinFreePlace, WinLockAllPlace
  <2>3. pc[p] \notin Clearing /\ pc'[p] \notin Clearing
    BY <2>1 DEF Clearing
  <2>4. \A c \in Comms : p \in Members[c] => Made(p, c)' = Made(p, c)
    BY <1>0, <2>1, <2>2, <2>3, MadeCall
  <2> QED
    BY <1>2, <2>1, <2>4
<1>4. CASE WinUnlockAll(p) \/ Barrier(p)
  <2>1. rounds' = rounds
    BY <1>0, <1>4, WinUnlockAllEffect, BarrierEffect
  <2> QED
    BY <1>2, <1>4, <2>1, MadeClearing
<1>5. CASE Reduce(p)
  <2>1. pc[p] = "sweep" /\ pc'[p] = "reduce" /\ UNCHANGED <<pos, todo, rounds>>
    BY <1>0, <1>5, ReduceEffect
  <2>2. \A c : Made(p, c)' = Made(p, c)
    BY <1>0a, <2>1 DEF Made, At, Clearing
  <2> QED
    BY <1>2, <2>1, <2>2
<1>6. CASE ReduceReturns(p)
  <2>1. pc[p] = "reduce" /\ pc'[p] = "join" /\ UNCHANGED <<pos, todo>>
    BY <1>0, <1>6, ReduceReturnsEffect
  <2>2. PICK w \in todo[p] : /\ w \in Wins /\ IsNext(p, w)
                             /\ rounds'[p][CommOf[w]] = rounds[p][CommOf[w]] + 1
                             /\ \A d \in Comms : d # CommOf[w] => rounds'[p][d] = rounds[p][d]
    BY <1>0, <1>6, ReduceReturnsEffect
  <2> DEFINE x == <<pos[p] + 1, w>>
  <2>3. /\ CommOf[w] \in Comms /\ p \in Members[CommOf[w]] /\ x \in Reductions(prog, CommOf[w])
        /\ Made(p, CommOf[w]) = Before(prog, handle[p], CommOf[w], x)
        /\ x \notin Before(prog, handle[p], CommOf[w], x)
    BY <2>1, <2>2, MadeBefore DEF Clearing
  <2>4. \A v : IsNext(p, v)' <=> v = w
    <3>1. \A v : IsNext(p, v)' <=> IsNext(p, v)
      BY <1>0a, <2>1 DEF IsNext
    <3> QED
      BY <1>0, <2>2, <3>1, NextUnique
  <2>5. ASSUME NEW c \in Comms, NEW y \in Reductions(prog, c)
        PROVE  y \in Made(p, c)' <=> y \in Made(p, c) \/ (y[1] = pos[p] + 1 /\ y[2] = w)
    BY <1>0a, <2>1, <2>4 DEF Made, At, Clearing
  <2>6. \A c : Made(p, c) \subseteq Reductions(prog, c) /\ Made(p, c)' \subseteq Reductions(prog, c)
    BY <1>0a DEF Made
  <2>7. prog \in Programs
    BY <1>0 DEF TypeOK
  <2>8. ASSUME NEW c \in Comms, p \in Members[c] PROVE rounds'[p][c] = Cardinality(Made(p, c)')
    <3>1. rounds[p][c] = Cardinality(Made(p, c))
      BY <1>0, <2>8 DEF RoundsOK
    <3>2. \A y \in Reductions(prog, c) : y = <<y[1], y[2]>> /\ CommOf[y[2]] = c
      BY <2>7, ReductionFacts
    <3>3. CASE c = CommOf[w]
      <4>1. Made(p, c)' = Made(p, c) \cup {x} /\ x \notin Made(p, c)
        BY <2>3, <2>5, <2>6, <3>2, <3>3
      <4>2. IsFiniteSet(Made(p, c))
        BY <2>6, <2>7, ReductionsFinite
      <4>3. Cardinality(Made(p, c) \cup {x}) = Cardinality(Made(p, c)) + 1
        BY <4>1, <4>2, FS_AddElement
      <4> QED
        BY <2>2, <3>1, <3>3, <4>1, <4>3
    <3>4. CASE c # CommOf[w]
      <4>0. \A y \in Reductions(prog, c) : y \in Made(p, c)' <=> y \in Made(p, c)
        BY <2>5, <3>2, <3>4
      <4>1. Made(p, c)' = Made(p, c)
        BY <2>6, <4>0
      <4> QED
        BY <2>2, <3>1, <3>4, <4>1
    <3> QED
      BY <3>3, <3>4
  <2> QED
    BY <2>8 DEF RoundsOK
<1>7. CASE Join(p)
  <2>1. rounds' = rounds
    BY <1>0, <1>7, JoinEffect
  <2> QED
    BY <1>2, <1>7, <2>1, MadeJoin
<1>8. CASE Restart(p) \/ LeaveSync(p)
  <2>1. rounds' = rounds
    BY <1>0, <1>8, RestartEffect, LeaveSyncEffect
  <2> QED
    BY <1>2, <1>8, <2>1, MadeRestart
<1>9. CASE (\E v \in Wins, q \in Procs : Communicate(p, v, q)) \/ \E v \in Wins : CheckThread(p, v)
  <2>1. UNCHANGED <<pos, pc, todo, rounds>>
    BY <1>0, <1>9, QuietFields
  <2>2. \A c : Made(p, c)' = Made(p, c)
    BY <1>0a, <2>1 DEF Made, At, IsNext
  <2> QED
    BY <1>2, <2>1, <2>2
<1> QED
  BY <1>3, <1>4, <1>5, <1>6, <1>7, <1>8, <1>9 DEF Step, App

-----------------------------------------------------------------------------
(* What a step leaves of the others, and what it may do to a window. *)
LEMMA OthersStay ==
  ASSUME NEW p \in Procs, NEW q \in Procs, q # p, Frame(p), NEW w
  PROVE  /\ At(q)' = At(q) /\ Now(q, w)' = Now(q, w) /\ Left(q, w)' = Left(q, w)
         /\ Closed(q, w)' = Closed(q, w) /\ (IsNext(q, w)' <=> IsNext(q, w))
<1>1. /\ prog' = prog /\ handle' = handle /\ pos'[q] = pos[q] /\ pc'[q] = pc[q]
      /\ todo'[q] = todo[q] /\ States'[q] = States[q]
  BY DEF Frame
<1>2. At(q)' = At(q) /\ (IsNext(q, w)' <=> IsNext(q, w))
  BY <1>1 DEF At, IsNext
<1>3. Now(q, w)' = Now(q, w)
  BY <1>1, <1>2 DEF Now
<1>4. Left(q, w)' = Left(q, w)
  BY <1>1, <1>3 DEF Left, Open
<1> QED
  BY <1>1, <1>2, <1>3, <1>4 DEF Closed

LEMMA AllFurther ==
  ASSUME Regular, Regular', NEW p \in Procs, Step(p), NEW w \in Wins, NEW q \in Members[CommOf[w]]
  PROVE  /\ Now(q, w) \in Nat /\ Now(q, w)' \in Nat /\ Left(q, w) \in Int /\ Left(q, w)' \in Int
         /\ Closed(q, w) \in Int /\ Closed(q, w)' \in Int
         /\ Now(q, w) <= Now(q, w)' /\ Closed(q, w) <= Closed(q, w)'
         /\ \/ Left(q, w)' = Left(q, w)
            \/ q = p /\ Join(p) /\ IsNext(p, w) /\ Left(q, w)' = Now(q, w)
<1>1. q \in Procs /\ ~ crashed'
  BY MemberFacts DEF Regular
<1>2. Now(q, w) \in Nat /\ Left(q, w) \in Int /\ Closed(q, w) \in Int
  BY <1>1, ClosedFacts DEF Regular
<1>3. TypeOK' /\ PlaceOK(q)'
  BY <1>1 DEF Regular
<1>4. Now(q, w)' \in Nat /\ Left(q, w)' \in Int /\ Closed(q, w)' \in Int
  <2>1. TypeOK /\ PlaceOK(q) => Now(q, w) \in Nat /\ Left(q, w) \in Int /\ Closed(q, w) \in Int
    BY <1>1, ClosedFacts
  <2>2. Now(q, w)' \in Nat
    <3>1. At(q)' \in Nat /\ prog' \in Programs
      BY <1>1, <1>3 DEF At, TypeOK
    <3> QED
      BY <3>1, EpochFacts DEF Now
  <2> QED
    BY <2>2 DEF Left, Closed
<1>5. CASE q = p
  BY <1>1, <1>2, <1>4, <1>5, RegularStep DEF Further
<1>6. CASE q # p
  BY <1>1, <1>2, <1>4, <1>6, RegularStep, OthersStay
<1> QED
  BY <1>5, <1>6

LEMMA AppSends ==
  ASSUME NEW p \in Procs, App(p)
  PROVE  sent' = sent /\ net' = net
BY DEF App, SkipCall, WinCreate, WinFree, WinLockAll, WinUnlockAll, Barrier, Reduce, ReduceReturns, Join,
       Restart, LeaveSync

LEMMA CheckSends ==
  ASSUME NEW p \in Procs, NEW w \in Wins, CheckThread(p, w)
  PROVE  sent' = sent /\ net' \subseteq net
BY DEF CheckThread, Receive, ExitThread

(* What an application thread does to a window its process has after. *)
LEMMA StateStep ==
  ASSUME TypeOK, NEW p \in Procs, PlaceOK(p), App(p), NEW w \in DOMAIN States'[p]
  PROVE  LET T == States'[p][w]
             S == States[p][w]
         IN  \/ /\ WinCreate(p) /\ w = Arg(p) /\ T.mpi_tag = MaxEpoch * get_tag_range_id(win_mpi_tag_id[p])
                /\ T.count_epoch = 0 /\ T.active_epoch = 0 /\ T.thread = "off" /\ T.count = 0
                /\ T.array = [q \in Procs |-> 0] /\ T.landed = {}
             \/ /\ w \in DOMAIN States[p] /\ T = Started(S) /\ (WinLockAll(p) \/ Restart(p))
                /\ ~ crashed' => S.thread = "off"
                /\ agreed' => S.count_epoch < MaxEpoch
             \/ /\ w \in DOMAIN States[p] /\ T.mpi_tag = S.mpi_tag /\ T.count_epoch = S.count_epoch
                /\ T.array = S.array /\ T.landed = S.landed
                /\ \/ T.thread = S.thread /\ T.count = S.count /\ T.active_epoch = S.active_epoch
                   \/ /\ Join(p) /\ IsNext(p, w) /\ T.count = 0
                      /\ T.thread = IF S.thread = "exit" THEN "off" ELSE S.thread
<1> DEFINE T == States'[p][w]
           S == States[p][w]
           Fresh == /\ WinCreate(p) /\ w = Arg(p) /\ T.mpi_tag = MaxEpoch * get_tag_range_id(win_mpi_tag_id[p])
                    /\ T.count_epoch = 0 /\ T.active_epoch = 0 /\ T.thread = "off" /\ T.count = 0
                    /\ T.array = [q \in Procs |-> 0] /\ T.landed = {}
           Starts2 == /\ w \in DOMAIN States[p] /\ T = Started(S) /\ (WinLockAll(p) \/ Restart(p))
                      /\ ~ crashed' => S.thread = "off"
                      /\ agreed' => S.count_epoch < MaxEpoch
           Same == /\ w \in DOMAIN States[p] /\ T.mpi_tag = S.mpi_tag /\ T.count_epoch = S.count_epoch
                   /\ T.array = S.array /\ T.landed = S.landed
                   /\ \/ T.thread = S.thread /\ T.count = S.count /\ T.active_epoch = S.active_epoch
                      \/ /\ Join(p) /\ IsNext(p, w) /\ T.count = 0
                         /\ T.thread = IF S.thread = "exit" THEN "off" ELSE S.thread
<1>0. todo[p] \subseteq DOMAIN States[p]
  BY DEF PlaceOK, PositionOK
<1>e. ASSUME w \in DOMAIN States[p], T = S PROVE Same
  BY <1>e
<1>1. CASE SkipCall(p) \/ WinUnlockAll(p) \/ Barrier(p) \/ Reduce(p) \/ LeaveSync(p)
  <2>1. States' = States
    BY <1>1, SkipCallEffect, WinUnlockAllEffect, BarrierEffect, ReduceEffect, LeaveSyncEffect
  <2> QED
    BY <1>e, <2>1
<1>2. CASE WinCreate(p)
  <2>1. /\ DOMAIN States'[p] = DOMAIN States[p] \cup {Arg(p)}
        /\ \A v \in DOMAIN States[p] : v # Arg(p) => States'[p][v] = States[p][v]
        /\ States'[p][Arg(p)] =
             [mpi_tag |-> MaxEpoch * get_tag_range_id(win_mpi_tag_id[p]), count_epoch |-> 0,
              active_epoch |-> 0, from_sync |-> 0, thread |-> "off", thread_end |-> 0, count |-> 0,
              value |-> 0, array |-> [q \in Procs |-> 0], landed |-> {}]
    BY <1>2, WinCreateEffect
  <2>2. CASE w = Arg(p)
    <3>1. Fresh
      BY <1>2, <2>1, <2>2
    <3> QED
      BY <3>1
  <2>3. CASE w # Arg(p)
    BY <1>e, <2>1, <2>3
  <2> QED
    BY <2>2, <2>3
<1>3. CASE WinFree(p)
  <2>1. /\ DOMAIN States'[p] = DOMAIN States[p] \ {Arg(p)}
        /\ \A v \in DOMAIN States'[p] : States'[p][v] = States[p][v]
    BY <1>3, WinFreeEffect
  <2> QED
    BY <1>e, <2>1
<1>4. ASSUME NEW W, StartEpochs(p, W), WinLockAll(p) \/ Restart(p) PROVE Starts2 \/ Same
  <2>1. /\ w \in DOMAIN States[p]
        /\ w \in W => /\ T = Started(S) /\ (~ crashed' => S.thread = "off")
                      /\ (agreed' => S.count_epoch < MaxEpoch)
        /\ w \notin W => T = S
    BY <1>4, StartEffect DEF StartEpochs
  <2>2. CASE w \in W
    <3>1. Starts2
      BY <1>4, <2>1, <2>2
    <3> QED
      BY <3>1
  <2>3. CASE w \notin W
    <3>1. Same
      BY <1>e, <2>1, <2>3
    <3> QED
      BY <3>1
  <2> QED
    BY <2>2, <2>3
<1>5. CASE WinLockAll(p)
  BY <1>4, <1>5, WinLockAllEffect
<1>6. CASE Restart(p)
  BY <1>4, <1>6, RestartEffect
<1>7. CASE ReduceReturns(p)
  <2>2. PICK a \in todo[p] :
          /\ DOMAIN States'[p] = DOMAIN States[p]
          /\ States'[p][a] = [States[p][a] EXCEPT
                                !.value = reduced[<<CommOf[a], rounds[p][CommOf[a]]>>].sum[p],
                                !.thread_end = 1]
          /\ \A v \in DOMAIN States[p] : v # a => States'[p][v] = States[p][v]
    BY <1>0, <1>7, ReduceReturnsEffect
  <2>3. CASE w = a
    <3>1. S \in State
      BY <2>2, StateFacts
    <3>2. /\ T.mpi_tag = S.mpi_tag /\ T.count_epoch = S.count_epoch
          /\ T.array = S.array /\ T.landed = S.landed /\ T.thread = S.thread /\ T.count = S.count
          /\ T.active_epoch = S.active_epoch
      BY <2>2, <2>3, <3>1 DEF State
    <3> QED
      BY <2>2, <3>2
  <2>4. CASE w # a
    BY <1>e, <2>2, <2>4
  <2> QED
    BY <2>3, <2>4
<1>8. CASE Join(p)
  <2> DEFINE inBarrier == prog[pos[p] + 1].op = "barrier"
  <2>2. PICK a \in todo[p] :
          /\ a \in Wins /\ IsNext(p, a) /\ DOMAIN States'[p] = DOMAIN States[p]
          /\ States'[p][a] = IF inBarrier THEN Synced(Joined(States[p][a]))
                             ELSE Joined(States[p][a])
          /\ \A v \in DOMAIN States[p] : v # a => States'[p][v] = States[p][v]
    BY <1>0, <1>8, JoinEffect
  <2>3. CASE w = a
    <3>1. S \in State
      BY <2>2, StateFacts
    <3>2. /\ T.mpi_tag = S.mpi_tag /\ T.count_epoch = S.count_epoch
          /\ T.thread = (IF S.thread = "exit" THEN "off" ELSE S.thread)
          /\ T.count = 0 /\ T.array = S.array /\ T.landed = S.landed
      BY <2>2, <2>3, <3>1, JoinedFacts
    <3>3. Same
      BY <1>8, <2>2, <2>3, <3>2
    <3> QED
      BY <3>3
  <2>4. CASE w # a
    BY <1>e, <2>2, <2>4
  <2> QED
    BY <2>3, <2>4
<1>9. Fresh \/ Starts2 \/ Same
  BY <1>1, <1>2, <1>3, <1>5, <1>6, <1>7, <1>8 DEF App
<1> QED
  BY <1>9

(* A new access. *)
LEMMA NewAccess ==
  ASSUME Regular, NEW p \in Procs, NEW w \in Wins, NEW q \in Procs, Communicate(p, w, q)
  PROVE  \E m \in Message :
           /\ sent' = sent \cup {m} /\ net' = net \cup {m} /\ m \notin sent
           /\ m.src = p /\ m.dst = q /\ m.win = w /\ m.epoch = Now(p, w)
           /\ m.epoch = States[p][w].count_epoch /\ m.tag = States[p][w].mpi_tag + m.epoch
           /\ m.epoch \in Nat /\ 1 <= m.epoch /\ Left(p, w) < m.epoch /\ Closed(p, w) < m.epoch
           /\ p \in Members[CommOf[w]] /\ q \in Members[CommOf[w]] /\ w \in DOMAIN States[p]
<1> DEFINE S == States[p][w]
           m == [src |-> p, dst |-> q, win |-> w, epoch |-> S.count_epoch,
                 n |-> Cardinality(sent), tag |-> S.mpi_tag + S.count_epoch]
<1>1. TypeOK /\ HistoryOK /\ PlaceOK(p) /\ WindowsOK(p)
  BY DEF Regular
<1>2. /\ Frame(p) /\ pc[p] = "user" /\ w \in DOMAIN States[p] /\ S.active_epoch = 1
      /\ q \in Members[CommOf[w]] /\ net' = net \cup {m} /\ sent' = sent \cup {m}
  BY <1>1, CommunicateEffect
<1>3. S.count_epoch \in Nat /\ S.mpi_tag \in Int /\ Cardinality(sent) \in Nat
  BY <1>1, <1>2, StateFacts, FS_CardinalityType DEF HistoryOK
<1>4. m \in Message
  BY <1>3 DEF Message
<1>5. m \notin sent
  BY <1>1, <1>3 DEF HistoryOK
<1>6. S.count_epoch = Now(p, w) /\ Active(prog, w, At(p))
  BY <1>1, <1>2 DEF WindowsOK, StateOK
<1>7. p \in Members[CommOf[w]] /\ Exists(prog, w, At(p))
  BY <1>1, <1>2 DEF PlaceOK, KnownOK
<1>8. 1 <= Now(p, w)
  BY <1>1, <1>6, <1>7, CallFacts, ActiveEpoch DEF Now
<1>9. Left(p, w) < Now(p, w) /\ Closed(p, w) < Now(p, w)
  BY <1>2, <1>3, <1>6 DEF Left, Open, Closed
<1> QED
  BY <1>2, <1>3, <1>4, <1>5, <1>6, <1>7, <1>8, <1>9

(* The histories. *)
LEMMA SentFinite ==
  ASSUME HistoryOK, NEW T \in SUBSET sent
  PROVE  IsFiniteSet(T) /\ Cardinality(T) \in Nat
BY FS_Subset, FS_CardinalityType DEF HistoryOK

LEMMA SentStep ==
  ASSUME Regular, NEW p \in Procs, Step(p)
  PROVE  \/ sent' = sent
         \/ \E w \in Wins, q \in Procs : Communicate(p, w, q)
BY AppSends, CheckSends DEF Step

LEMMA AccessStep ==
  ASSUME Regular, Regular', NEW p \in Procs, Step(p), \A m \in sent : AccessOK(m)
  PROVE  \A m \in sent' : AccessOK(m)'
<1>0. sent \subseteq Message
  BY DEF Regular, TypeOK
<1>1. ASSUME NEW m \in sent PROVE AccessOK(m)'
  <2>1. AccessOK(m) /\ m.win \in Wins /\ m.src \in Procs /\ m.epoch \in Nat
    BY <1>0, <1>1 DEF Message
  <2>2. m.src \in Members[CommOf[m.win]]
    BY <2>1 DEF AccessOK
  <2>3. /\ Now(m.src, m.win) \in Nat /\ Now(m.src, m.win)' \in Nat
        /\ Now(m.src, m.win) <= Now(m.src, m.win)'
    BY <2>1, <2>2, AllFurther
  <2> QED
    BY <2>1, <2>3 DEF AccessOK
<1>2. CASE \E w \in Wins, q \in Procs : Communicate(p, w, q)
  <2>1. PICK w \in Wins, q \in Procs : Communicate(p, w, q)
    BY <1>2
  <2>2. PICK m \in Message :
          /\ sent' = sent \cup {m} /\ m.src = p /\ m.win = w /\ m.dst = q /\ m.epoch = Now(p, w)
          /\ 1 <= m.epoch /\ p \in Members[CommOf[w]] /\ q \in Members[CommOf[w]]
    BY <2>1, NewAccess
  <2>3. Now(p, w) <= Now(p, w)'
    BY <2>2, AllFurther
  <2>4. AccessOK(m)'
    BY <2>2, <2>3 DEF AccessOK
  <2> QED
    BY <1>1, <2>2, <2>4
<1> QED
  BY <1>1, <1>2, SentStep

(* The arrays count what was sent in the epoch. *)
LEMMA ArrayStep ==
  ASSUME Regular, Regular', NEW p \in Procs, Step(p), \A m \in sent : AccessOK(m),
         \A q \in Procs : \A w \in DOMAIN States[q] : ArrayOK(q, w)
  PROVE  \A q \in Procs : \A w \in DOMAIN States'[q] : ArrayOK(q, w)'
<1>0. TypeOK /\ HistoryOK /\ PlaceOK(p) /\ WindowsOK(p) /\ WindowsOK(p)' /\ Frame(p) /\ sent \subseteq Message
  BY RegularStep DEF Regular, TypeOK
<1>1. ASSUME NEW q \in Procs, q # p, NEW w \in DOMAIN States'[q] PROVE ArrayOK(q, w)'
  <2>1. States'[q] = States[q] /\ Now(q, w)' = Now(q, w) /\ w \in DOMAIN States[q]
    BY <1>0, <1>1, OthersStay DEF Frame
  <2>2. ArrayOK(q, w)
    BY <2>1
  <2>3. CASE sent' = sent
    BY <2>1, <2>2, <2>3 DEF ArrayOK, SentBy, SentTo
  <2>4. CASE \E v \in Wins, r \in Procs : Communicate(p, v, r)
    <3>1. PICK m \in Message : sent' = sent \cup {m} /\ m.src = p
      BY <2>4, NewAccess
    <3>2. \A r : SentBy({q}, r, w, Now(q, w))' = SentBy({q}, r, w, Now(q, w))
      BY <1>1, <2>1, <3>1 DEF SentBy, SentTo
    <3> QED
      BY <2>1, <2>2, <3>2 DEF ArrayOK
  <2> QED
    BY <2>3, <2>4, SentStep
<1>2. ASSUME NEW w \in DOMAIN States'[p] PROVE Now(p, w)' = States'[p][w].count_epoch
  BY <1>0, <1>2 DEF WindowsOK, StateOK
<1>3. ASSUME NEW w \in DOMAIN States[p] PROVE Now(p, w) = States[p][w].count_epoch /\ States[p][w].count_epoch \in Nat
  BY <1>0, <1>3, StateFacts DEF WindowsOK, StateOK
<1>4. ASSUME App(p), NEW w \in DOMAIN States'[p] PROVE ArrayOK(p, w)'
  <2> DEFINE T == States'[p][w]
             S == States[p][w]
  <2>1. sent' = sent
    BY <1>4, AppSends
  <2>2. ASSUME NEW q \in Procs, NEW e, \A m \in sent : m.src = p /\ m.win = w => m.epoch # e
        PROVE  Cardinality(SentBy({p}, q, w, e)) = 0
    <3>1. SentBy({p}, q, w, e) = {}
      BY <2>2 DEF SentBy, SentTo
    <3> QED
      BY <3>1, FS_EmptySet
  <2>3. CASE T.array = [q \in Procs |-> 0] /\ T.count_epoch = 0
    <3>1. \A m \in sent : m.src = p /\ m.win = w => m.epoch # 0
      BY DEF AccessOK
    <3>2. \A q \in Procs : Cardinality(SentBy({p}, q, w, 0)) = 0
      BY <2>2, <3>1
    <3>3. Now(p, w)' = 0 /\ \A q \in Procs : T.array[q] = 0
      BY <1>2, <1>4, <2>3
    <3>4. \A q \in Procs : SentBy({p}, q, w, Now(p, w))' = SentBy({p}, q, w, 0)
      BY <2>1, <3>3 DEF SentBy, SentTo
    <3> QED
      BY <3>2, <3>3, <3>4 DEF ArrayOK
  <2>4. CASE w \in DOMAIN States[p] /\ T = Started(S)
    <3>1. S \in State
      BY <1>0, <2>4, StateFacts
    <3>2. T.array = [q \in Procs |-> 0] /\ T.count_epoch = S.count_epoch + 1
      BY <2>4, <3>1, StartedFacts
    <3>3. Now(p, w) = S.count_epoch /\ S.count_epoch \in Nat /\ Now(p, w)' = S.count_epoch + 1
      BY <1>2, <1>3, <1>4, <2>4, <3>2
    <3>4. \A m \in sent : m.src = p /\ m.win = w => m.epoch # S.count_epoch + 1
      <4>1. \A m \in sent : m.epoch \in Nat
        BY <1>0 DEF Message
      <4> QED
        BY <3>3, <4>1 DEF AccessOK
    <3>5. \A q \in Procs : Cardinality(SentBy({p}, q, w, S.count_epoch + 1)) = 0
      BY <2>2, <3>4
    <3>6. \A q \in Procs : SentBy({p}, q, w, Now(p, w))' = SentBy({p}, q, w, S.count_epoch + 1)
      BY <2>1, <3>3 DEF SentBy, SentTo
    <3>7. \A q \in Procs : T.array[q] = 0
      BY <3>2
    <3> QED
      BY <3>5, <3>6, <3>7 DEF ArrayOK
  <2>5. CASE w \in DOMAIN States[p] /\ T.array = S.array /\ T.count_epoch = S.count_epoch
    <3>1. Now(p, w)' = Now(p, w) /\ ArrayOK(p, w)
      BY <1>2, <1>3, <1>4, <2>5
    <3>2. \A q \in Procs : SentBy({p}, q, w, Now(p, w))' = SentBy({p}, q, w, Now(p, w))
      BY <2>1, <3>1 DEF SentBy, SentTo
    <3> QED
      BY <2>5, <3>1, <3>2 DEF ArrayOK
  <2>6. \/ T.array = [q \in Procs |-> 0] /\ T.count_epoch = 0
        \/ w \in DOMAIN States[p] /\ T = Started(S)
        \/ w \in DOMAIN States[p] /\ T.array = S.array /\ T.count_epoch = S.count_epoch
    BY <1>0, <1>4, StateStep
  <2> QED
    BY <2>3, <2>4, <2>5, <2>6
<1>5. ASSUME NEW v \in Wins, CheckThread(p, v), NEW w \in DOMAIN States'[p] PROVE ArrayOK(p, w)'
  <2>1. sent' = sent
    BY <1>5, CheckSends
  <2>2. w \in DOMAIN States[p] /\ States'[p][w].array = States[p][w].array
    <3>1. v \in DOMAIN States[p] /\ (Receive(p, v) \/ ExitThread(p, v))
      BY <1>5 DEF CheckThread
    <3>2. States[p][v] \in State
      BY <1>0, <3>1, StateFacts
    <3>3. /\ DOMAIN States'[p] = DOMAIN States[p]
          /\ \A u \in DOMAIN States[p] : u # v => States'[p][u] = States[p][u]
      BY <1>0, <3>1, ReceiveEffect, ExitThreadEffect
    <3>4. States'[p][v].array = States[p][v].array
      <4>1. CASE Receive(p, v)
        <5>1. \E m : States'[p][v] = [States[p][v] EXCEPT !.count = @ + 1, !.landed = @ \cup {m}]
          BY <1>0, <3>1, <4>1, ReceiveEffect
        <5> QED
          BY <3>2, <5>1 DEF State
      <4>2. CASE ExitThread(p, v)
        <5>1. States'[p][v] = [States[p][v] EXCEPT !.thread = "exit", !.count = 0]
          BY <1>0, <3>1, <4>2, ExitThreadEffect
        <5> QED
          BY <3>2, <5>1 DEF State
      <4> QED
        BY <3>1, <4>1, <4>2
    <3> QED
      BY <1>5, <3>3, <3>4
  <2>3. States'[p][w].count_epoch = States[p][w].count_epoch
    BY <1>0, <1>5, <2>2, QuietFields
  <2>4. Now(p, w)' = Now(p, w) /\ ArrayOK(p, w)
    BY <1>2, <1>3, <1>5, <2>2, <2>3
  <2>5. \A q \in Procs : SentBy({p}, q, w, Now(p, w))' = SentBy({p}, q, w, Now(p, w))
    BY <2>1, <2>4 DEF SentBy, SentTo
  <2> QED
    BY <2>2, <2>4, <2>5 DEF ArrayOK
<1>6. ASSUME NEW v \in Wins, NEW r \in Procs, Communicate(p, v, r), NEW w \in DOMAIN States'[p]
      PROVE  ArrayOK(p, w)'
  <2>1. /\ DOMAIN States'[p] = DOMAIN States[p] /\ v \in DOMAIN States[p]
        /\ States'[p][v] = [States[p][v] EXCEPT !.array = [States[p][v].array EXCEPT ![r] = @ + 1]]
        /\ \A u \in DOMAIN States[p] : u # v => States'[p][u] = States[p][u]
    BY <1>0, <1>6, CommunicateEffect
  <2>2. PICK m \in Message : /\ sent' = sent \cup {m} /\ m \notin sent /\ m.src = p /\ m.dst = r /\ m.win = v
                             /\ m.epoch = Now(p, v)
    BY <1>6, NewAccess
  <2>3. States'[p][w].count_epoch = States[p][w].count_epoch /\ w \in DOMAIN States[p]
    BY <1>0, <1>6, <2>1, QuietFields
  <2>4. Now(p, w)' = Now(p, w) /\ ArrayOK(p, w)
    BY <1>2, <1>3, <1>6, <2>3
  <2>5. States[p][v] \in State /\ States[p][v].array \in [Procs -> Nat]
    BY <1>0, <2>1, StateFacts
  <2>6. States'[p][v].array = [States[p][v].array EXCEPT ![r] = @ + 1]
    BY <2>1, <2>5 DEF State
  <2>7. ASSUME NEW q \in Procs
        PROVE  States'[p][w].array[q] = Cardinality(SentBy({p}, q, w, Now(p, w))')
    <3>0. States[p][w].array[q] = Cardinality(SentBy({p}, q, w, Now(p, w)))
      BY <2>4 DEF ArrayOK
    <3>1. CASE w = v /\ q = r
      <4>1. SentBy({p}, q, w, Now(p, w))' = SentBy({p}, q, w, Now(p, w)) \cup {m} /\ m \notin SentBy({p}, q, w, Now(p, w))
        BY <2>2, <2>4, <3>1 DEF SentBy, SentTo
      <4>2. IsFiniteSet(SentBy({p}, q, w, Now(p, w)))
        BY <1>0, SentFinite DEF SentBy, SentTo
      <4>3. Cardinality(SentBy({p}, q, w, Now(p, w)) \cup {m}) = Cardinality(SentBy({p}, q, w, Now(p, w))) + 1
        BY <4>1, <4>2, FS_AddElement
      <4>4. States'[p][w].array[q] = States[p][w].array[q] + 1
        BY <2>5, <2>6, <3>1
      <4> QED
        BY <3>0, <4>1, <4>3, <4>4
    <3>2. CASE ~ (w = v /\ q = r)
      <4>1. SentBy({p}, q, w, Now(p, w))' = SentBy({p}, q, w, Now(p, w))
        BY <2>2, <2>4, <3>2 DEF SentBy, SentTo
      <4>2. States'[p][w].array[q] = States[p][w].array[q]
        BY <2>1, <2>3, <2>5, <2>6, <3>2
      <4> QED
        BY <3>0, <4>1, <4>2
    <3> QED
      BY <3>1, <3>2
  <2> QED
    BY <2>7 DEF ArrayOK
<1> QED
  BY <1>1, <1>4, <1>5, <1>6 DEF Step

-----------------------------------------------------------------------------
(* Reductions.  What a process adds is what it sent in the epoch it ends,  *)
(* and later accesses are of later epochs.                                 *)
LEMMA SumsSame ==
  ASSUME Regular, Regular', NEW p \in Procs, Step(p), NEW k \in DOMAIN reduced,
         NEW x \in Reductions(prog, k[1]), SumsUp(k, x), reduced'[k] = reduced[k]
  PROVE  x \in Reductions(prog', k[1]) /\ SumsUp(k, x)'
<1> DEFINE w == x[2]
           e == Epoch(prog, w, x[1] - 1)
           From == reduced[k].from
<1>0. TypeOK /\ Frame(p) /\ prog' = prog /\ handle' = handle /\ prog \in Programs
  BY RegularStep DEF Regular, Frame, TypeOK
<1>1. w \in Wins /\ CommOf[w] = k[1] /\ x[1] \in Nat /\ x[1] - 1 \in Nat
  BY <1>0, ReductionFacts
<1>2. /\ \A q \in Procs : Cardinality(Before(prog, handle[q], k[1], x)) = k[2]
      /\ \A q \in From : q \in Members[k[1]] /\ e <= Closed(q, w)
      /\ \A q \in Procs : reduced[k].sum[q] = Cardinality(SentBy(From, q, w, e))
  BY DEF SumsUp
<1>3. e \in Nat
  BY <1>0, <1>1, EpochFacts
<1>4. ASSUME NEW q \in From PROVE e <= Closed(q, w)'
  <2>1. Closed(q, w) \in Int /\ Closed(q, w)' \in Int /\ Closed(q, w) <= Closed(q, w)' /\ e <= Closed(q, w)
    BY <1>1, <1>2, AllFurther
  <2> QED
    BY <1>3, <2>1
<1>5. ASSUME NEW q \in Procs PROVE SentBy(From, q, w, e)' = SentBy(From, q, w, e)
  <2>0. (From)' = From /\ e' = e /\ w' = w
    BY <1>0
  <2>1. CASE sent' = sent
    BY <2>0, <2>1 DEF SentBy, SentTo
  <2>2. CASE \E v \in Wins, r \in Procs : Communicate(p, v, r)
    <3>1. PICK v \in Wins, r \in Procs : Communicate(p, v, r)
      BY <2>2
    <3>2. PICK m \in Message :
            /\ sent' = sent \cup {m} /\ m.src = p /\ m.win = v /\ m.epoch \in Nat /\ Closed(p, v) < m.epoch
            /\ p \in Members[CommOf[v]]
      BY <3>1, NewAccess
    <3>3. Closed(p, v) \in Int
      BY <3>2, AllFurther
    <3>4. ~ (m.src \in From /\ m.win = w /\ m.epoch = e)
      BY <1>2, <1>3, <3>2, <3>3
    <3> HIDE DEF w, e, From
    <3> QED
      BY <2>0, <3>2, <3>4 DEF SentBy, SentTo
  <2> QED
    BY <2>1, <2>2, SentStep
<1>6. /\ \A q \in Procs : Cardinality(Before(prog', handle'[q], k[1], x)) = k[2]
      /\ \A q \in reduced'[k].from : q \in Members[k[1]] /\ Epoch(prog', w, x[1] - 1) <= Closed(q, w)'
      /\ \A q \in Procs : reduced'[k].sum[q] = Cardinality(SentBy(reduced[k].from, q, w, e)')
  BY <1>0, <1>2, <1>4, <1>5
<1>7. \A q \in Procs : SentBy(reduced[k].from, q, w, e)' = SentBy(reduced[k].from, q, w, e)
  BY <1>5
<1>8. SumsUp(k, x)'
  BY <1>0, <1>6 DEF SumsUp
<1> QED
  BY <1>0, <1>8

LEMMA ReduceSums ==
  ASSUME Regular, Regular', NEW p \in Procs, Reduce(p), ReductionsOK, RoundsOK(p),
         \A w \in DOMAIN States[p] : ArrayOK(p, w)
  PROVE  ReductionsOK'
<1>0. TypeOK /\ HistoryOK /\ PlaceOK(p) /\ Step(p) /\ Frame(p) /\ prog' = prog /\ handle' = handle /\ prog \in Programs
  BY RegularStep DEF Regular, Step, App, Frame, TypeOK
<1>1. PICK w \in todo[p] :
        /\ w \in Wins /\ IsNext(p, w)
        /\ Contribute(<<CommOf[w], rounds[p][CommOf[w]]>>, p, States[p][w].array)
  BY <1>0, ReduceEffect
<1>2. pc[p] = "sweep" /\ pc'[p] = "reduce" /\ UNCHANGED <<pos, todo, States, sent>>
  BY <1>0, ReduceEffect
<1> DEFINE c == CommOf[w]
<1>d. PICK k, x, e : k = <<c, rounds[p][c]>> /\ x = <<pos[p] + 1, w>> /\ e = Now(p, w)
  OBVIOUS
<1>3. /\ c \in Comms /\ p \in Members[c] /\ x \in Reductions(prog, c)
      /\ Made(p, c) = Before(prog, handle[p], c, x)
  BY <1>1, <1>2, <1>d, MadeBefore DEF Clearing
<1>4. /\ At(p) = pos[p] /\ w \in DOMAIN States[p] /\ Open(p, w) /\ pos[p] \in Nat
  BY <1>0, <1>1, <1>2, NextEnds, CallFacts DEF Clearing
<1>5. rounds[p][c] \in Nat /\ k \in Comms \X Nat /\ k[1] = c /\ k[2] = rounds[p][c]
  BY <1>0, <1>3, <1>d DEF TypeOK
<1>6. \A q \in Procs : Cardinality(Before(prog, handle[q], c, x)) = k[2]
  <2>1. Cardinality(Before(prog, handle[p], c, x)) = k[2]
    BY <1>3, <1>5 DEF RoundsOK
  <2>2. \A q \in Procs : Before(prog, handle[q], c, x) = Before(prog, handle[p], c, x)
    BY <1>0, <1>3, BeforeSame DEF Regular
  <2> QED
    BY <2>1, <2>2
<1>7. x[1] = pos[p] + 1 /\ x[2] = w /\ Epoch(prog, w, x[1] - 1) = e
  BY <1>4, <1>d DEF Now
<1>8. /\ Closed(p, w)' = e /\ e \in Nat /\ Closed(p, w) = e - 1
  <2>1. IsNext(p, w)' /\ At(p)' = At(p)
    BY <1>0, <1>1, <1>2, <1>4 DEF IsNext, At
  <2>2. Now(p, w)' = Now(p, w)
    BY <1>0, <2>1 DEF Now
  <2>3. ~ Closing(p, w)
    BY <1>2 DEF Closing
  <2> QED
    BY <1>0, <1>2, <1>4, <1>d, <2>1, <2>2, <2>3, ClosedFacts DEF Closed
<1>9. \A q \in Procs : States[p][w].array[q] = Cardinality(SentBy({p}, q, w, e))
  BY <1>4, <1>d DEF ArrayOK
<1>10. \A From, q : SentBy(From, q, w, e)' = SentBy(From, q, w, e)
  BY <1>2 DEF SentBy, SentTo
<1>11. States[p][w].array \in [Procs -> Nat]
  BY <1>0, <1>4, StateFacts
<1>12. /\ DOMAIN reduced' = DOMAIN reduced \cup {k}
       /\ \A y \in DOMAIN reduced : y # k => reduced'[y] = reduced[y]
       /\ k \notin DOMAIN reduced =>
            reduced'[k].from = {p} /\ \A q \in Procs : reduced'[k].sum[q] = States[p][w].array[q]
       /\ k \in DOMAIN reduced =>
            /\ reduced'[k].from = reduced[k].from \cup {p}
            /\ \A q \in Procs : reduced'[k].sum[q] = reduced[k].sum[q] + States[p][w].array[q]
  <2>1. Contribute(k, p, States[p][w].array)
    BY <1>1, <1>d
  <2>2. PICK array : array = States[p][w].array
    OBVIOUS
  <2>3. k \in Comms \X Nat /\ array \in [Procs -> Nat] /\ Contribute(k, p, array) /\ TypeOK
    BY <1>0, <1>5, <1>11, <2>1, <2>2
  <2>4. /\ DOMAIN reduced' = DOMAIN reduced \cup {k}
        /\ \A y \in DOMAIN reduced : y # k => reduced'[y] = reduced[y]
        /\ k \notin DOMAIN reduced => reduced'[k].from = {p} /\ \A q \in Procs : reduced'[k].sum[q] = array[q]
        /\ k \in DOMAIN reduced =>
             /\ reduced'[k].from = reduced[k].from \cup {p}
             /\ \A q \in Procs : reduced'[k].sum[q] = reduced[k].sum[q] + array[q]
    BY <2>3, ContributeFacts
  <2> QED
    BY <2>2, <2>4
<1>13. ASSUME NEW y \in DOMAIN reduced, y # k PROVE \E z \in Reductions(prog', y[1]) : SumsUp(y, z)'
  <2>1. PICK z \in Reductions(prog, y[1]) : SumsUp(y, z)
    BY <1>13 DEF ReductionsOK
  <2>2. reduced'[y] = reduced[y]
    BY <1>12, <1>13
  <2>3. Step(p)
    BY <1>0
  <2>4. z \in Reductions(prog', y[1]) /\ SumsUp(y, z)'
    BY <2>1, <2>2, <2>3, SumsSame
  <2> QED
    BY <2>4
<1>14. /\ \A q \in reduced'[k].from : q \in Members[c] /\ e <= Closed(q, w)'
       /\ \A q \in Procs : reduced'[k].sum[q] = Cardinality(SentBy(reduced'[k].from, q, w, e))
  <2>1. CASE k \notin DOMAIN reduced
    <3>1. reduced'[k].from = {p} /\ \A q \in Procs : reduced'[k].sum[q] = States[p][w].array[q]
      BY <1>12, <2>1
    <3>2. \A q \in Procs : reduced'[k].sum[q] = Cardinality(SentBy({p}, q, w, e))
      BY <1>9, <3>1
    <3>3. p \in Members[c] /\ e <= Closed(p, w)'
      BY <1>3, <1>8
    <3> QED
      BY <3>1, <3>2, <3>3
  <2>2. CASE k \in DOMAIN reduced
    <3>1. PICK z \in Reductions(prog, c) : SumsUp(k, z)
      BY <1>5, <2>2 DEF ReductionsOK
    <3>2. Cardinality(Before(prog, handle[p], c, z)) = k[2]
      BY <1>5, <3>1 DEF SumsUp
    <3>3. z = x
      BY <1>0, <1>3, <1>6, <3>2, HandleFacts, RankUnique
    <3> DEFINE From == reduced[k].from
    <3>4. /\ \A q \in From : q \in Members[c] /\ e <= Closed(q, w)
          /\ \A q \in Procs : reduced[k].sum[q] = Cardinality(SentBy(From, q, w, e))
      BY <1>5, <1>7, <3>1, <3>3 DEF SumsUp
    <3>5. p \notin From
      BY <1>8, <3>4
    <3>6. \A q \in From : e <= Closed(q, w)'
      BY <3>4, <3>5, <1>0, <1>3, OthersStay, MemberFacts
    <3>7. ASSUME NEW q \in Procs
          PROVE  Cardinality(SentBy(From \cup {p}, q, w, e)) =
                   Cardinality(SentBy(From, q, w, e)) + Cardinality(SentBy({p}, q, w, e))
      <4> DEFINE A == SentBy(From, q, w, e)
                 B == SentBy({p}, q, w, e)
      <4>1. SentBy(From \cup {p}, q, w, e) = A \cup B
        BY DEF SentBy
      <4>2. A \cap B = {}
        BY <3>5 DEF SentBy
      <4>3. IsFiniteSet(A) /\ IsFiniteSet(B) /\ Cardinality(A) \in Nat /\ Cardinality(B) \in Nat
        BY <1>0, SentFinite DEF SentBy, SentTo
      <4> HIDE DEF A, B
      <4>4. Cardinality(A \cup B) = Cardinality(A) + Cardinality(B)
        <5>1. Cardinality(A \cup B) = Cardinality(A) + Cardinality(B) - Cardinality(A \cap B)
          BY <4>3, FS_Union
        <5>2. Cardinality(A \cap B) = 0
          BY <4>2, FS_EmptySet
        <5> QED
          BY <4>3, <5>1, <5>2
      <4> QED
        BY <4>1, <4>4 DEF A, B
    <3>8. reduced'[k].from = From \cup {p}
      BY <1>12, <2>2
    <3>9. ASSUME NEW q \in Procs PROVE reduced'[k].sum[q] = Cardinality(SentBy(From \cup {p}, q, w, e))
      <4>1. reduced'[k].sum[q] = reduced[k].sum[q] + States[p][w].array[q]
        BY <1>12, <2>2
      <4> QED
        BY <1>9, <3>4, <3>7, <4>1
    <3>10. \A q \in From \cup {p} : q \in Members[c] /\ e <= Closed(q, w)'
      BY <1>3, <1>8, <3>4, <3>6
    <3> HIDE DEF From
    <3> QED
      BY <3>8, <3>9, <3>10
  <2> QED
    BY <2>1, <2>2
<1>15. SumsUp(k, x)'
  <2>2. \A q \in Procs : Cardinality(Before(prog', handle'[q], k[1], x)) = k[2]
    BY <1>0, <1>5, <1>6
  <2>3. \A q \in reduced'[k].from : q \in Members[k[1]] /\ Epoch(prog', x[2], x[1] - 1) <= Closed(q, x[2])'
    BY <1>0, <1>5, <1>7, <1>14
  <2>4. \A q \in Procs : reduced'[k].sum[q] = Cardinality(SentBy(reduced'[k].from, q, w, e))
    BY <1>14
  <2> QED
    BY <1>0, <1>2, <1>7, <2>2, <2>3, <2>4 DEF SumsUp, SentBy, SentTo
<1> QED
  BY <1>0, <1>3, <1>5, <1>12, <1>13, <1>15 DEF ReductionsOK

LEMMA ReducedSame ==
  ASSUME Regular, NEW p \in Procs, Step(p), ~ Reduce(p)
  PROVE  reduced' = reduced
<1>1. TypeOK
  BY DEF Regular
<1>2. CASE App(p)
  BY <1>2 DEF App, SkipCall, WinCreate, WinFree, WinLockAll, WinUnlockAll, Barrier, ReduceReturns, Join,
              Restart, LeaveSync
<1>3. CASE (\E w \in Wins, q \in Procs : Communicate(p, w, q)) \/ \E w \in Wins : CheckThread(p, w)
  BY <1>1, <1>3, QuietFields
<1> QED
  BY <1>2, <1>3 DEF Step

LEMMA ReductionsStep ==
  ASSUME Regular, Regular', NEW p \in Procs, Step(p), ReductionsOK, RoundsOK(p),
         \A w \in DOMAIN States[p] : ArrayOK(p, w)
  PROVE  ReductionsOK'
<1>1. CASE Reduce(p)
  BY <1>1, ReduceSums
<1>2. CASE ~ Reduce(p)
  <2>1. reduced' = reduced
    BY <1>2, ReducedSame
  <2>2. ASSUME NEW y \in DOMAIN reduced PROVE \E z \in Reductions(prog', y[1]) : SumsUp(y, z)'
    <3>1. PICK z \in Reductions(prog, y[1]) : SumsUp(y, z)
      BY <2>2 DEF ReductionsOK
    <3>2. reduced'[y] = reduced[y]
      BY <2>1
    <3>3. z \in Reductions(prog', y[1]) /\ SumsUp(y, z)'
      BY <3>1, <3>2, SumsSame
    <3> QED
      BY <3>3
  <2> QED
    BY <2>1, <2>2 DEF ReductionsOK
<1> QED
  BY <1>1, <1>2

(* A process that is told how many accesses to wait for is told right. *)
LEMMA EndReached ==
  ASSUME Regular, Regular', NEW p \in Procs, ReduceReturns(p), ReductionsOK, RoundsOK(p),
         \A m \in sent : AccessOK(m), NEW w \in DOMAIN States'[p], IsNext(p, w)'
  PROVE  EndOK(p, w)'
<1>0. TypeOK /\ PlaceOK(p) /\ Step(p) /\ Frame(p) /\ prog' = prog /\ handle' = handle /\ prog \in Programs
  BY RegularStep DEF Regular, Step, App, Frame, TypeOK
<1>0a. todo[p] \subseteq DOMAIN States[p] /\ WaitingOK(p)
  BY <1>0 DEF PlaceOK, PositionOK
<1>1. pc[p] = "reduce" /\ pc'[p] = "join" /\ UNCHANGED <<pos, todo, sent>>
  BY <1>0, <1>0a, ReduceReturnsEffect
<1>2. PICK a \in todo[p] :
        /\ a \in Wins /\ IsNext(p, a) /\ reduced[<<CommOf[a], rounds[p][CommOf[a]]>>].from = Members[CommOf[a]]
        /\ DOMAIN States'[p] = DOMAIN States[p]
        /\ States'[p][a] = [States[p][a] EXCEPT
                              !.value = reduced[<<CommOf[a], rounds[p][CommOf[a]]>>].sum[p], !.thread_end = 1]
  BY <1>0, <1>0a, ReduceReturnsEffect
<1>3. IsNext(p, w) /\ At(p)' = At(p)
  BY <1>0, <1>1 DEF IsNext, At
<1>4. w = a
  BY <1>0, <1>2, <1>3, NextUnique
<1> DEFINE c == CommOf[w]
<1>d. PICK k, x, e : k = <<c, rounds[p][c]>> /\ x = <<pos[p] + 1, w>> /\ e = Now(p, w)
  OBVIOUS
<1>5. /\ c \in Comms /\ p \in Members[c] /\ x \in Reductions(prog, c)
      /\ Made(p, c) = Before(prog, handle[p], c, x)
  BY <1>1, <1>3, <1>d, MadeBefore DEF Clearing
<1>6. At(p) = pos[p] /\ w \in DOMAIN States[p] /\ w \in Wins /\ pos[p] \in Nat
  BY <1>0, <1>1, <1>2, <1>4, NextEnds, CallFacts DEF Clearing
<1>7. k \in DOMAIN reduced /\ k[1] = c /\ k[2] = rounds[p][c]
  BY <1>0a, <1>1, <1>3, <1>6, <1>d DEF WaitingOK
<1>8. PICK z \in Reductions(prog, c) : SumsUp(k, z)
  BY <1>7 DEF ReductionsOK
<1>9. Cardinality(Before(prog, handle[p], c, z)) = k[2] /\ Cardinality(Before(prog, handle[p], c, x)) = k[2]
  BY <1>5, <1>7, <1>8 DEF SumsUp, RoundsOK
<1>10. z = x
  BY <1>0, <1>5, <1>9, HandleFacts, RankUnique
<1>11. x[1] = pos[p] + 1 /\ x[2] = w /\ Epoch(prog, w, x[1] - 1) = e
  BY <1>6, <1>d DEF Now
<1>12. reduced[k].from = Members[c] /\ States'[p][w] = [States[p][w] EXCEPT !.value = reduced[k].sum[p], !.thread_end = 1]
  BY <1>2, <1>4, <1>d
<1>13. /\ \A q \in Members[c] : e <= Closed(q, w)
       /\ reduced[k].sum[p] = Cardinality(SentBy(Members[c], p, w, e))
  BY <1>7, <1>8, <1>10, <1>11, <1>12 DEF SumsUp
<1>14. SentBy(Members[c], p, w, e) = SentTo(p, w, e)
  BY DEF SentBy, SentTo, AccessOK
<1>15. States'[p][w].value = reduced[k].sum[p]
  <2>1. States[p][w] \in State
    BY <1>0, <1>6, StateFacts
  <2> QED
    BY <1>12, <2>1 DEF State
<1>16. Now(p, w)' = e
  BY <1>0, <1>3, <1>d DEF Now
<1>17. ASSUME NEW q \in Members[c] PROVE e <= Closed(q, w)'
  <2>1. Closed(q, w) \in Int /\ Closed(q, w)' \in Int /\ Closed(q, w) <= Closed(q, w)' /\ Now(p, w) \in Nat
    BY <1>0, <1>5, <1>6, AllFurther
  <2>2. e <= Closed(q, w) /\ e \in Nat
    BY <1>13, <1>d, <2>1
  <2> QED
    BY <2>1, <2>2
<1>18. States'[p][w].value = Cardinality(SentTo(p, w, e))
  BY <1>13, <1>14, <1>15
<1>19. SentTo(p, w, Now(p, w))' = SentTo(p, w, e)
  BY <1>1, <1>16 DEF SentTo
<1> QED
  BY <1>16, <1>17, <1>18, <1>19 DEF EndOK

(* What it was told stays right until it goes on. *)
LEMMA EndKept ==
  ASSUME Regular, Regular', NEW p \in Procs, Step(p), NEW q \in Procs, NEW w \in DOMAIN States[q],
         EndOK(q, w), pc[q] = "join", IsNext(q, w), Now(q, w)' = Now(q, w), pc'[q] = "join",
         States'[q][w].value = States[q][w].value
  PROVE  EndOK(q, w)'
<1>1. w \in Wins /\ q \in Members[CommOf[w]]
  BY StateFacts DEF Regular, PlaceOK, KnownOK
<1>2. PICK e : e = Now(q, w)
  OBVIOUS
<1>3. /\ States[q][w].value = Cardinality(SentTo(q, w, e))
      /\ \A r \in Members[CommOf[w]] : e <= Closed(r, w)
      /\ e \in Nat
  BY <1>1, <1>2, AllFurther DEF EndOK
<1>4. ASSUME NEW r \in Members[CommOf[w]] PROVE e <= Closed(r, w)'
  <2>1. Closed(r, w) \in Int /\ Closed(r, w)' \in Int /\ Closed(r, w) <= Closed(r, w)' /\ e <= Closed(r, w)
    BY <1>1, <1>3, AllFurther
  <2> QED
    BY <1>3, <2>1
<1>5. SentTo(q, w, e)' = SentTo(q, w, e)
  <2>1. CASE sent' = sent
    BY <2>1 DEF SentTo
  <2>2. CASE \E v \in Wins, r \in Procs : Communicate(p, v, r)
    <3>1. PICK v \in Wins, r \in Procs : Communicate(p, v, r)
      BY <2>2
    <3>2. PICK m \in Message :
            /\ sent' = sent \cup {m} /\ m.src = p /\ m.win = v /\ m.epoch \in Nat /\ Closed(p, v) < m.epoch
            /\ p \in Members[CommOf[v]]
      BY <3>1, NewAccess
    <3>3. Closed(p, v) \in Int
      BY <3>2, AllFurther
    <3>4. ~ (m.win = w /\ m.epoch = e)
      BY <1>3, <3>2, <3>3
    <3> QED
      BY <3>2, <3>4 DEF SentTo
  <2> QED
    BY <2>1, <2>2, SentStep
<1>6. SentTo(q, w, Now(q, w))' = SentTo(q, w, e)
  <2>1. SentTo(q, w, Now(q, w))' = SentTo(q, w, e)'
    BY <1>2 DEF SentTo
  <2> QED
    BY <1>5, <2>1
<1> QED
  BY <1>2, <1>3, <1>4, <1>6 DEF EndOK

LEMMA EndStep ==
  ASSUME Regular, Regular', NEW p \in Procs, Step(p), ReductionsOK, RoundsOK(p),
         \A m \in sent : AccessOK(m), \A q \in Procs : \A w \in DOMAIN States[q] : EndOK(q, w),
         NEW q \in Procs, NEW w \in DOMAIN States'[q]
  PROVE  EndOK(q, w)'
<1>0. TypeOK /\ PlaceOK(p) /\ Frame(p) /\ todo[p] \subseteq DOMAIN States[p] /\ prog' = prog /\ handle' = handle
  BY RegularStep DEF Regular, PlaceOK, PositionOK, Frame
<1> SUFFICES ASSUME pc'[q] = "join", IsNext(q, w)' PROVE EndOK(q, w)'
  BY DEF EndOK
<1>1. CASE q # p
  <2>1. /\ States'[q] = States[q] /\ pc'[q] = pc[q] /\ (IsNext(q, w)' <=> IsNext(q, w))
        /\ Now(q, w)' = Now(q, w)
    BY <1>0, <1>1, OthersStay DEF Frame
  <2>2. w \in DOMAIN States[q] /\ EndOK(q, w) /\ States'[q][w].value = States[q][w].value
    BY <2>1
  <2> QED
    BY <2>1, <2>2, EndKept
<1>2. CASE q = p
  <2>1. CASE ReduceReturns(p)
    BY <1>2, <2>1, EndReached
  <2>2. CASE App(p) /\ ~ ReduceReturns(p)
    <3>1. pc'[p] # "join"
      BY <1>0, <2>2, SkipCallEffect, WinCreateEffect, WinFreeEffect, WinLockAllEffect, WinUnlockAllEffect,
         BarrierEffect, ReduceEffect, JoinEffect, RestartEffect, LeaveSyncEffect DEF App
    <3> QED
      BY <1>2, <3>1
  <2>3. CASE (\E v \in Wins, r \in Procs : Communicate(p, v, r)) \/ \E v \in Wins : CheckThread(p, v)
    <3>1. /\ DOMAIN States'[p] = DOMAIN States[p] /\ UNCHANGED <<pos, pc, todo>>
          /\ \A v \in DOMAIN States[p] : States'[p][v].value = States[p][v].value
      BY <1>0, <2>3, QuietFields
    <3>2. /\ w \in DOMAIN States[p] /\ pc[p] = "join" /\ IsNext(p, w)
          /\ States'[p][w].value = States[p][w].value /\ Now(p, w)' = Now(p, w)
      BY <1>0, <1>2, <3>1 DEF IsNext, Now, At
    <3>3. EndOK(p, w)
      BY <3>2
    <3> QED
      BY <1>2, <3>2, <3>3, EndKept
  <2> QED
    BY <2>1, <2>2, <2>3 DEF Step
<1> QED
  BY <1>1, <1>2

LEMMA TogetherStep ==
  ASSUME Regular, Regular', NEW p \in Procs, Step(p), Together,
         \A w \in DOMAIN States[p] : EndOK(p, w)
  PROVE  Together'
<1>1. SUFFICES ASSUME NEW w \in Wins, NEW r \in Members[CommOf[w]], NEW q \in Members[CommOf[w]]
               PROVE  Left(r, w)' <= Closed(q, w)'
  BY DEF Together
<1>2. /\ Closed(q, w) \in Int /\ Closed(q, w)' \in Int /\ Closed(q, w) <= Closed(q, w)'
      /\ Left(r, w) \in Int /\ Left(r, w)' \in Int /\ Now(r, w) \in Nat
      /\ \/ Left(r, w)' = Left(r, w)
         \/ r = p /\ Join(p) /\ IsNext(p, w) /\ Left(r, w)' = Now(r, w)
  BY AllFurther
<1>3. CASE Left(r, w)' = Left(r, w)
  <2>1. Left(r, w) <= Closed(q, w)
    BY DEF Together
  <2> QED
    BY <1>2, <1>3, <2>1
<1>4. CASE r = p /\ Join(p) /\ IsNext(p, w) /\ Left(r, w)' = Now(r, w)
  <2>1. w \in DOMAIN States[p]
    BY <1>4 DEF IsNext, Regular, PlaceOK, PositionOK
  <2>2. pc[p] = "join"
    BY <1>4 DEF Join
  <2>3. Now(p, w) <= Closed(q, w)
    BY <1>4, <2>1, <2>2 DEF EndOK
  <2> QED
    BY <1>2, <1>4, <2>3
<1> QED
  BY <1>2, <1>3, <1>4

LEMMA MatchedStep ==
  ASSUME Regular, Regular', NEW p \in Procs, Step(p), MatchedOK
  PROVE  MatchedOK'
<1>1. /\ \A q \in Procs : RoundsOK(q)
      /\ \A q \in Procs : \A w \in DOMAIN States[q] : ArrayOK(q, w)
      /\ \A q \in Procs : \A w \in DOMAIN States[q] : EndOK(q, w)
      /\ ReductionsOK /\ Together
      /\ \A m \in sent : AccessOK(m)
  BY DEF MatchedOK
<1>2. \A q \in Procs : RoundsOK(q)'
  BY <1>1, RoundsStep
<1>3. \A q \in Procs : \A w \in DOMAIN States'[q] : StateOK(q, w)'
  BY DEF Regular, WindowsOK
<1>4. \A q \in Procs : \A w \in DOMAIN States'[q] : ArrayOK(q, w)'
  BY <1>1, ArrayStep
<1>5. \A q \in Procs : \A w \in DOMAIN States'[q] : EndOK(q, w)'
  BY <1>1, EndStep
<1>6. ReductionsOK' /\ Together'
  BY <1>1, ReductionsStep, TogetherStep
<1>7. \A m \in sent' : AccessOK(m)'
  BY <1>1, AccessStep
<1> QED
  BY <1>2, <1>3, <1>4, <1>5, <1>6, <1>7 DEF MatchedOK

-----------------------------------------------------------------------------
(* Tag ranges. *)
LEMMA RangeArithmetic ==
  ASSUME NEW M \in Nat \ {0}, NEW i \in Int, NEW j \in Int, NEW e \in 1 .. M, NEW f \in 1 .. M,
         M * i + e = M * j + f
  PROVE  i = j /\ e = f
<1>1. ASSUME NEW a \in Int, NEW b \in Int, a < b PROVE M * a + M <= M * b
  <2>1. PICK d \in Nat : b = a + 1 + d
    <3>1. b - a - 1 \in Nat /\ b = a + 1 + (b - a - 1)
      BY <1>1
    <3> QED
      BY <3>1
  <2>2. M * b = M * a + M + M * d
    BY <2>1
  <2>3. M * d \in Nat /\ M * a \in Int
    OBVIOUS
  <2> QED
    BY <2>2, <2>3
<1>2. M * i \in Int /\ M * j \in Int
  OBVIOUS
<1>3. ~ i < j
  BY <1>1, <1>2
<1>4. ~ j < i
  BY <1>1, <1>2
<1>5. i = j
  BY <1>3, <1>4
<1> QED
  BY <1>2, <1>5

LEMMA RangeOfTag ==
  ASSUME NEW id \in Nat
  PROVE  RangeOf(MaxEpoch * id) = id
<1>1. MaxEpoch \in Nat \ {0}
  BY WindowsAssumption
<1> QED
  BY <1>1 DEF RangeOf

LEMMA AgreedStays ==
  ASSUME TypeOK, NEW p \in Procs, Step(p), agreed'
  PROVE  agreed
<1>1. CASE App(p)
  BY <1>1 DEF App, SkipCall, WinCreate, WinFree, WinLockAll, WinUnlockAll, Barrier, Reduce, ReduceReturns,
              Join, Restart, LeaveSync, StartEpochs
<1>2. CASE (\E w \in Wins, q \in Procs : Communicate(p, w, q)) \/ \E w \in Wins : CheckThread(p, w)
  BY <1>2, QuietFields
<1> QED
  BY <1>1, <1>2 DEF Step

(* Ranges are marked by rma_analyzer_start and unmarked by                 *)
(* rma_analyzer_stop alone.                                                *)
LEMMA TableSame ==
  ASSUME TypeOK, NEW p \in Procs, Step(p), ~ WinCreate(p), ~ WinFree(p)
  PROVE  win_mpi_tag_id' = win_mpi_tag_id /\ given' = given
<1>1. CASE App(p)
  BY <1>1 DEF App, SkipCall, WinLockAll, WinUnlockAll, Barrier, Reduce, ReduceReturns, Join, Restart, LeaveSync
<1>2. CASE (\E w \in Wins, q \in Procs : Communicate(p, w, q)) \/ \E w \in Wins : CheckThread(p, w)
  BY <1>2, QuietFields
<1> QED
  BY <1>1, <1>2 DEF Step

LEMMA GivenGrows ==
  ASSUME TypeOK, NEW p \in Procs, Step(p), NEW w \in Wins
  PROVE  given[w] \subseteq given'[w]
<1>1. CASE WinCreate(p)
  BY <1>1, WinCreateEffect
<1>2. CASE WinFree(p)
  BY <1>2, WinFreeEffect
<1> QED
  BY <1>1, <1>2, TableSame

(* A tag given to a window, and the range it is the first of. *)
LEMMA GivenTag ==
  ASSUME TypeOK, GivenOK, NEW p \in Procs, RangesOK(p), NEW w \in DOMAIN States[p]
  PROVE  \E id \in 0 .. MaxWin - 1 :
           /\ States[p][w].mpi_tag = MaxEpoch * id /\ win_mpi_tag_id[p][id] = 1
           /\ given[w] = {States[p][w].mpi_tag}
<1>1. w \in Wins /\ States[p][w].mpi_tag \in given[w]
  BY StateFacts DEF RangesOK
<1>2. PICK id \in 0 .. MaxWin - 1 : States[p][w].mpi_tag = MaxEpoch * id
  BY <1>1 DEF GivenOK
<1>3. win_mpi_tag_id[p][id] = 1
  BY <1>2 DEF RangesOK
<1>4. given[w] = {States[p][w].mpi_tag}
  BY <1>1 DEF GivenOK
<1> QED
  BY <1>2, <1>3, <1>4

LEMMA RangesFrame ==
  ASSUME TypeOK, NEW p \in Procs, Step(p), Frame(p), NEW q \in Procs, q # p, RangesOK(q)
  PROVE  RangesOK(q)'
<1>1. States'[q] = States[q] /\ win_mpi_tag_id'[q] = win_mpi_tag_id[q]
  BY DEF Frame
<1>2. \A w \in DOMAIN States[q] : given[w] \subseteq given'[w]
  BY StateFacts, GivenGrows
<1> QED
  BY <1>1, <1>2 DEF RangesOK

LEMMA WinCreateRanges ==
  ASSUME TypeOK, NEW p \in Procs, WinCreate(p), agreed', GivenOK, RangesOK(p)
  PROVE  RangesOK(p)'
<1> DEFINE id == get_tag_range_id(win_mpi_tag_id[p])
<1>1. PICK w : w = Arg(p)
  OBVIOUS
<1>2. /\ w \in Wins /\ win_mpi_tag_id'[p] = MarkRange(win_mpi_tag_id[p], id, 1)
      /\ DOMAIN States'[p] = DOMAIN States[p] \cup {w}
      /\ \A v \in DOMAIN States[p] : v # w => States'[p][v] = States[p][v]
      /\ given'[w] = given[w] \cup {MaxEpoch * id}
      /\ agreed' = (agreed /\ id >= 0 /\ given[w] \subseteq {MaxEpoch * id})
  BY <1>1, WinCreateEffect
<1>3. States'[p][w] = [mpi_tag |-> MaxEpoch * id, count_epoch |-> 0, active_epoch |-> 0,
                       from_sync |-> 0, thread |-> "off", thread_end |-> 0, count |-> 0,
                       value |-> 0, array |-> [q \in Procs |-> 0], landed |-> {}]
  BY <1>1, WinCreateEffect
<1>4. States'[p][w].mpi_tag = MaxEpoch * id /\ States'[p][w].count_epoch = 0
  BY <1>3
<1>5. id \in 0 .. MaxWin - 1 /\ win_mpi_tag_id[p][id] = 0
  BY <1>2, RangeIdFacts
<1> HIDE DEF id
<1>6. MaxEpoch \in Nat \ {0} /\ MaxWin \in Nat \ {0}
  BY WindowsAssumption
<1>7. win_mpi_tag_id[p] \in [0 .. MaxWin - 1 -> 0 .. 1]
  BY DEF TypeOK
<1>8. \A i \in 0 .. MaxWin - 1 : win_mpi_tag_id'[p][i] = IF i = id THEN 1 ELSE win_mpi_tag_id[p][i]
  BY <1>2, <1>7, MarkRangeFacts
<1>9. ASSUME NEW v \in DOMAIN States[p], v # w
      PROVE  /\ States'[p][v].mpi_tag \in given'[v] /\ States'[p][v].count_epoch <= MaxEpoch
             /\ \A i \in 0 .. MaxWin - 1 : States'[p][v].mpi_tag = MaxEpoch * i => win_mpi_tag_id'[p][i] = 1
             /\ States'[p][v].mpi_tag # States'[p][w].mpi_tag
  <2>1. States'[p][v] = States[p][v] /\ v \in Wins
    BY <1>2, <1>9, StateFacts
  <2>2. /\ States[p][v].mpi_tag \in given[v] /\ States[p][v].count_epoch <= MaxEpoch
        /\ \A i \in 0 .. MaxWin - 1 : States[p][v].mpi_tag = MaxEpoch * i => win_mpi_tag_id[p][i] = 1
    BY <1>9 DEF RangesOK
  <2>3. given[v] \subseteq given'[v]
    BY <2>1, GivenGrows DEF Step, App
  <2>4. States[p][v].mpi_tag # MaxEpoch * id
    BY <1>5, <2>2
  <2> QED
    BY <1>4, <1>8, <2>1, <2>2, <2>3, <2>4
<1>10. \A i \in 0 .. MaxWin - 1 : MaxEpoch * id = MaxEpoch * i => i = id
  <2>1. ASSUME NEW i \in 0 .. MaxWin - 1, MaxEpoch * id = MaxEpoch * i PROVE i = id
    <3>1. i \in Int /\ id \in Int /\ 1 \in 1 .. MaxEpoch /\ MaxEpoch * id + 1 = MaxEpoch * i + 1
      BY <1>5, <1>6, <2>1
    <3> QED
      BY <1>6, <3>1, RangeArithmetic
  <2> QED
    BY <2>1
<1>11. ASSUME NEW u \in DOMAIN States'[p], NEW v \in DOMAIN States'[p], v # u
       PROVE  States'[p][v].mpi_tag # States'[p][u].mpi_tag
  <2>1. CASE u = w \/ v = w
    BY <1>2, <1>9, <1>11, <2>1
  <2>2. CASE u # w /\ v # w
    BY <1>2, <1>11, <2>2 DEF RangesOK
  <2> QED
    BY <2>1, <2>2
<1>12. /\ States'[p][w].mpi_tag \in given'[w] /\ States'[p][w].count_epoch <= MaxEpoch
       /\ \A i \in 0 .. MaxWin - 1 : States'[p][w].mpi_tag = MaxEpoch * i => win_mpi_tag_id'[p][i] = 1
  BY <1>2, <1>4, <1>6, <1>8, <1>10
<1> QED
  BY <1>2, <1>9, <1>11, <1>12 DEF RangesOK

LEMMA WinFreeRanges ==
  ASSUME TypeOK, NEW p \in Procs, PlaceOK(p), WinFree(p), GivenOK, RangesOK(p)
  PROVE  RangesOK(p)'
<1>1. PICK w : w = Arg(p)
  OBVIOUS
<1>2. /\ win_mpi_tag_id'[p] = MarkRange(win_mpi_tag_id[p], RangeOf(States[p][w].mpi_tag), 0)
      /\ DOMAIN States'[p] = DOMAIN States[p] \ {w}
      /\ \A v \in DOMAIN States'[p] : States'[p][v] = States[p][v]
      /\ given' = given
  BY <1>1, WinFreeEffect
<1>3. w \in DOMAIN States[p]
  BY <1>1, WinFreePlace
<1>4. PICK id \in 0 .. MaxWin - 1 : States[p][w].mpi_tag = MaxEpoch * id
  BY <1>3, GivenTag
<1>5. RangeOf(States[p][w].mpi_tag) = id
  <2>1. id \in Nat
    BY <1>4, WindowsAssumption
  <2> QED
    BY <1>4, <2>1, RangeOfTag
<1>6. win_mpi_tag_id[p] \in [0 .. MaxWin - 1 -> 0 .. 1]
  BY DEF TypeOK
<1>7. \A i \in 0 .. MaxWin - 1 : win_mpi_tag_id'[p][i] = IF i = id THEN 0 ELSE win_mpi_tag_id[p][i]
  BY <1>2, <1>5, <1>6, MarkRangeFacts
<1>8. ASSUME NEW v \in DOMAIN States'[p]
      PROVE  /\ States'[p][v] = States[p][v] /\ v \in DOMAIN States[p]
             /\ \A i \in 0 .. MaxWin - 1 : States'[p][v].mpi_tag = MaxEpoch * i => win_mpi_tag_id'[p][i] = 1
  <2>1. States'[p][v] = States[p][v] /\ v \in DOMAIN States[p] /\ v # w
    BY <1>2, <1>8
  <2>2. States[p][v].mpi_tag # MaxEpoch * id
    BY <1>3, <1>4, <2>1 DEF RangesOK
  <2> QED
    BY <1>7, <2>1, <2>2 DEF RangesOK
<1> QED
  BY <1>2, <1>8 DEF RangesOK

LEMMA RangesStep ==
  ASSUME TypeOK, NEW p \in Procs, PlaceOK(p), Frame(p), Step(p), agreed', GivenOK, RangesOK(p)
  PROVE  RangesOK(p)'
<1>1. CASE WinCreate(p)
  BY <1>1, WinCreateRanges
<1>2. CASE WinFree(p)
  BY <1>2, WinFreeRanges
<1>3. ASSUME given' = given, win_mpi_tag_id' = win_mpi_tag_id,
             \A w \in DOMAIN States'[p] :
               /\ w \in DOMAIN States[p] /\ States'[p][w].mpi_tag = States[p][w].mpi_tag
               /\ States'[p][w].count_epoch <= MaxEpoch
      PROVE  RangesOK(p)'
  BY <1>3 DEF RangesOK
<1>4. CASE App(p) /\ ~ WinCreate(p) /\ ~ WinFree(p)
  <2>1. given' = given /\ win_mpi_tag_id' = win_mpi_tag_id
    BY <1>4, TableSame
  <2>2. ASSUME NEW w \in DOMAIN States'[p]
        PROVE  /\ w \in DOMAIN States[p] /\ States'[p][w].mpi_tag = States[p][w].mpi_tag
               /\ States'[p][w].count_epoch <= MaxEpoch
    <3> DEFINE T == States'[p][w]
               S == States[p][w]
    <3>1. \/ w \in DOMAIN States[p] /\ T = Started(S) /\ S.count_epoch < MaxEpoch
          \/ w \in DOMAIN States[p] /\ T.mpi_tag = S.mpi_tag /\ T.count_epoch = S.count_epoch
      BY <1>4, <2>2, StateStep
    <3>2. S \in State /\ S.count_epoch \in Nat /\ S.count_epoch <= MaxEpoch /\ w \in DOMAIN States[p]
      BY <3>1, StateFacts DEF RangesOK
    <3>3. CASE T = Started(S) /\ S.count_epoch < MaxEpoch
      <4>1. T.mpi_tag = S.mpi_tag /\ T.count_epoch = S.count_epoch + 1 /\ MaxEpoch \in Nat
        BY <3>2, <3>3, StartedFacts, WindowsAssumption
      <4> QED
        BY <3>2, <3>3, <4>1
    <3> QED
      BY <3>1, <3>2, <3>3
  <2> QED
    BY <1>3, <2>1, <2>2
<1>5. CASE (\E w \in Wins, q \in Procs : Communicate(p, w, q)) \/ \E w \in Wins : CheckThread(p, w)
  <2>1. /\ DOMAIN States'[p] = DOMAIN States[p] /\ UNCHANGED <<win_mpi_tag_id, given>>
        /\ \A w \in DOMAIN States[p] :
             /\ States'[p][w].mpi_tag = States[p][w].mpi_tag
             /\ States'[p][w].count_epoch = States[p][w].count_epoch
    BY <1>5, QuietFields
  <2>2. \A w \in DOMAIN States[p] : States[p][w].count_epoch <= MaxEpoch
    BY DEF RangesOK
  <2> QED
    BY <1>3, <2>1, <2>2
<1> QED
  BY <1>1, <1>2, <1>4, <1>5 DEF Step

(* A window gets a tag that no window has that exists with it: on the      *)
(* process that is the first to create it, their ranges are in use.        *)
LEMMA GivenStep ==
  ASSUME PlacesInvariant, NEW p \in Procs, Step(p), agreed', GivenOK, RangesOK(p)
  PROVE  GivenOK'
<1>0. /\ TypeOK /\ CreatedOK /\ PlaceOK(p) /\ Frame(p) /\ prog' = prog /\ prog \in Programs
      /\ MaxEpoch \in Nat \ {0} /\ MaxWin \in Nat \ {0}
  BY PlaceStep, WindowsAssumption DEF PlacesInvariant, Step, Frame, TypeOK
<1>1. CASE given' = given
  BY <1>0, <1>1 DEF GivenOK
<1>2. CASE WinCreate(p) /\ given' # given
  <2> DEFINE id == get_tag_range_id(win_mpi_tag_id[p])
             t == MaxEpoch * id
             j == pos[p] + 1
  <2>1. PICK w : w = Arg(p)
    OBVIOUS
  <2>2. /\ w \in Wins /\ given'[w] = given[w] \cup {t} /\ Calls(p, "create")
        /\ \A v \in Wins : v # w => given'[v] = given[v]
        /\ agreed' = (agreed /\ id >= 0 /\ given[w] \subseteq {t})
    BY <1>0, <1>2, <2>1, WinCreateEffect
  <2>3. id \in 0 .. MaxWin - 1 /\ win_mpi_tag_id[p][id] = 0 /\ id \in Int
    BY <1>0, <2>2, RangeIdFacts
  <2> HIDE DEF id
  <2>4. given'[w] = {t} /\ (given[w] = {} \/ given[w] = {t})
    BY <2>2
  <2>5. given[w] = {}
    <3>1. ASSUME given[w] = {t} PROVE given' = given
      <4>1. given \in [Wins -> SUBSET Int] /\ given' = [given EXCEPT ![w] = @ \cup {t}]
        BY <1>0, <1>2, <2>1 DEF TypeOK, WinCreate, id
      <4> QED
        BY <2>2, <3>1, <4>1
    <3> QED
      BY <1>2, <2>4, <3>1
  <2>6. /\ pos[p] \in Nat /\ pos[p] < Len(prog) /\ j \in DOMAIN prog /\ Is(prog, j, "create", w)
        /\ DOMAIN prog = 1 .. Len(prog) /\ Len(prog) \in Nat /\ At(p) = pos[p] /\ p \in Members[CommOf[w]]
    BY <1>0, <2>1, <2>2, CallFacts DEF Calls, Is, Arg, At, Concerns, CommOfCall
  <2>7. /\ \A v \in Wins : \A u \in given'[v] : \E i \in 0 .. MaxWin - 1 : u = MaxEpoch * i
        /\ \A v \in Wins : \A u, s \in given'[v] : u = s
    BY <2>2, <2>3, <2>4 DEF GivenOK
  <2>8. ASSUME NEW v \in Wins, v # w, CommOf[v] = CommOf[w], Exists(prog, v, j)
        PROVE  t \notin given[v]
    <3>1. ~ Is(prog, j, "create", v)
      BY <2>6, <2>8 DEF Is
    <3>2. Exists(prog, v, pos[p])
      BY <1>0, <2>6, <2>8, <3>1, ExistsStep
    <3>3. v \in DOMAIN States[p]
      BY <1>0, <2>6, <2>8, <3>2 DEF PlaceOK, KnownOK
    <3>4. PICK i \in 0 .. MaxWin - 1 :
            /\ States[p][v].mpi_tag = MaxEpoch * i /\ win_mpi_tag_id[p][i] = 1
            /\ given[v] = {States[p][v].mpi_tag}
      BY <1>0, <3>3, GivenTag
    <3>5. i # id
      BY <2>3, <3>4
    <3>6. MaxEpoch * i # MaxEpoch * id
      <4>1. ASSUME MaxEpoch * i = MaxEpoch * id PROVE FALSE
        <5>1. i \in Int /\ id \in Int /\ 1 \in 1 .. MaxEpoch /\ MaxEpoch * i + 1 = MaxEpoch * id + 1
          BY <1>0, <2>3, <3>4, <4>1
        <5> QED
          BY <1>0, <3>5, <5>1, RangeArithmetic
      <4> QED
        BY <4>1
    <3> QED
      BY <3>4, <3>6
  <2>9. ASSUME NEW v \in Wins, v # w, CommOf[v] = CommOf[w], NEW i \in DOMAIN prog,
               Is(prog, i, "create", v), Exists(prog, w, i)
        PROVE  given[v] = {}
    <3>1. PICK l \in 1 .. i : Is(prog, l, "create", w)
      BY <2>9 DEF Exists
    <3>0. l \in DOMAIN prog
      BY <2>6
    <3>2. l = j
      BY <1>0, <2>6, <3>0, <3>1, CreatedOnce
    <3>3. j < i
      <4>1. j # i
        BY <2>6, <2>9 DEF Is
      <4> QED
        BY <2>6, <3>1, <3>2, <4>1
    <3>4. ASSUME given[v] # {} PROVE FALSE
      <4>1. PICK q \in Members[CommOf[v]] : \E k \in 1 .. pos[q] : Is(prog, k, "create", v)
        BY <1>0, <3>4 DEF CreatedOK
      <4>2. PICK k \in 1 .. pos[q] : Is(prog, k, "create", v)
        BY <4>1
      <4>3. q \in Procs /\ pos[q] \in Nat /\ pos[q] <= Len(prog)
        <5>1. q \in Procs
          BY <4>1, MemberFacts
        <5> QED
          BY <1>0, <5>1 DEF PlacesInvariant, PlaceOK, PositionOK, TypeOK
      <4>3a. k \in DOMAIN prog
        BY <2>6, <4>3
      <4>4. k = i
        BY <1>0, <2>9, <4>2, <4>3a, CreatedOnce
      <4>5. j \in 1 .. pos[q]
        BY <2>6, <3>3, <4>2, <4>3, <4>4
      <4> QED
        BY <1>0, <2>2, <2>5, <2>6, <2>9, <4>1, <4>5 DEF CreatedOK
    <3> QED
      BY <3>4
  <2>10. ASSUME NEW v \in Wins, NEW u \in Wins, NEW i \in DOMAIN prog, v # u, CommOf[v] = CommOf[u],
                Is(prog, i, "create", u), Exists(prog, v, i)
         PROVE  given'[v] \cap given'[u] = {}
    <3>1. CASE u = w
      <4>1. i = j
        BY <1>0, <2>6, <2>10, <3>1, CreatedOnce
      <4>2. t \notin given[v] /\ given'[v] = given[v]
        BY <2>2, <2>8, <2>10, <3>1, <4>1
      <4> QED
        BY <2>4, <3>1, <4>2
    <3>2. CASE v = w
      <4>1. given[u] = {} /\ given'[u] = given[u]
        BY <2>2, <2>9, <2>10, <3>2
      <4> QED
        BY <4>1
    <3>3. CASE u # w /\ v # w
      <4>1. given'[u] = given[u] /\ given'[v] = given[v]
        BY <2>2, <3>3
      <4> QED
        BY <2>10, <4>1 DEF GivenOK
    <3> QED
      BY <3>1, <3>2, <3>3
  <2> QED
    BY <1>0, <2>7, <2>10 DEF GivenOK
<1>3. WinCreate(p) \/ given' = given
  BY <1>0, PosStep DEF PlacesInvariant, Step
<1> QED
  BY <1>1, <1>2, <1>3

LEMMA TagsStep ==
  ASSUME PlacesInvariant, NEW p \in Procs, Step(p), agreed', TagsOK
  PROVE  TagsOK'
<1>0. /\ TypeOK /\ HistoryOK /\ PlaceOK(p) /\ Frame(p) /\ GivenOK /\ sent \subseteq Message
      /\ \A q \in Procs : RangesOK(q)
  BY PlaceStep DEF PlacesInvariant, Step, TagsOK, TypeOK
<1>1. GivenOK'
  BY <1>0, GivenStep
<1>2. ASSUME NEW q \in Procs PROVE RangesOK(q)'
  BY <1>0, RangesStep, RangesFrame
<1>3. ASSUME NEW m \in sent PROVE TagOK(m)'
  <2>1. TagOK(m) /\ m.win \in Wins
    BY <1>0, <1>3 DEF Message, TagsOK
  <2>2. given[m.win] \subseteq given'[m.win]
    BY <1>0, <2>1, GivenGrows
  <2> QED
    BY <2>1, <2>2 DEF TagOK
<1>4. ASSUME NEW w \in Wins, NEW q \in Procs, Communicate(p, w, q)
      PROVE  \A m \in sent' : TagOK(m)'
  <2> DEFINE S == States[p][w]
             m == [src |-> p, dst |-> q, win |-> w, epoch |-> S.count_epoch,
                   n |-> Cardinality(sent), tag |-> S.mpi_tag + S.count_epoch]
  <2>1. sent' = sent \cup {m} /\ w \in DOMAIN States[p] /\ given' = given
    BY <1>0, <1>4, CommunicateEffect
  <2>2. S.count_epoch <= MaxEpoch /\ S.mpi_tag \in given[w]
    BY <1>0, <2>1 DEF RangesOK
  <2>3. ASSUME NEW k \in {m} PROVE TagOK(k)'
    <3>1. k.epoch = S.count_epoch /\ k.win = w /\ k.tag = S.mpi_tag + S.count_epoch
      BY <2>3
    <3> QED
      BY <2>1, <2>2, <3>1 DEF TagOK
  <2> HIDE DEF m
  <2> QED
    BY <1>3, <2>1, <2>3
<1>5. \A m \in sent' : TagOK(m)'
  BY <1>3, <1>4, AppSends, CheckSends DEF Step
<1> QED
  BY <1>1, <1>2, <1>5 DEF TagsOK

-----------------------------------------------------------------------------
(* What lands.  An access with the tag of the window's epoch is of that    *)
(* window and that epoch.  A window that had the range before was freed    *)
(* when all its accesses had landed, and the next one to have it is        *)
(* created when all have freed this one.                                   *)
LEMMA TagTells ==
  ASSUME Regular, SyncOK, CreatedOK, MatchedOK, TagsOK, LandingOK,
         NEW p \in Procs, NEW w \in DOMAIN States[p], States[p][w].thread = "test",
         NEW m \in net, m.dst = p, CommOf[m.win] = CommOf[w],
         m.tag = States[p][w].mpi_tag + States[p][w].count_epoch
  PROVE  m.win = w /\ m.epoch = Now(p, w)
<1> DEFINE S == States[p][w]
           v == m.win
           c == CommOf[w]
<1>0. /\ TypeOK /\ PlaceOK(p) /\ ThreadsOK(p) /\ WindowsOK(p) /\ GivenOK /\ RangesOK(p) /\ prog \in Programs
      /\ MaxEpoch \in Nat \ {0} /\ MaxWin \in Nat \ {0} /\ Len(prog) \in Nat /\ DOMAIN prog = 1 .. Len(prog)
  BY WindowsAssumption, ProgramFacts DEF Regular, TypeOK, TagsOK
<1>1. m \in sent /\ m \in Message /\ v \in Wins /\ m.src \in Procs /\ m.epoch \in Nat
  BY <1>0 DEF TypeOK, Message
<1>2. AccessOK(m) /\ TagOK(m) /\ FlightOK(m)
  BY <1>1 DEF MatchedOK, TagsOK, LandingOK
<1>3. /\ w \in Wins /\ p \in Members[c] /\ Exists(prog, w, At(p)) /\ At(p) \in Nat /\ At(p) <= Len(prog)
      /\ S.count_epoch \in Nat /\ S.count_epoch = Now(p, w) /\ S.active_epoch = 1 /\ Active(prog, w, At(p))
  BY <1>0, StateFacts, CallFacts DEF PlaceOK, KnownOK, ThreadsOK, ThreadOK, WindowsOK, StateOK
<1>4. 1 <= S.count_epoch /\ S.count_epoch <= MaxEpoch
  BY <1>0, <1>3, ActiveEpoch DEF Now, RangesOK
<1>5. PICK i \in 0 .. MaxWin - 1 : S.mpi_tag = MaxEpoch * i /\ given[w] = {S.mpi_tag}
  BY <1>0, GivenTag
<1>6. PICK t \in given[v] : m.tag = t + m.epoch /\ m.epoch <= MaxEpoch
  BY <1>2 DEF TagOK
<1>7. PICK j \in 0 .. MaxWin - 1 : t = MaxEpoch * j
  BY <1>0, <1>1, <1>6 DEF GivenOK
<1>8. i = j /\ S.count_epoch = m.epoch
  <2>1. m.epoch \in 1 .. MaxEpoch /\ S.count_epoch \in 1 .. MaxEpoch
    BY <1>0, <1>1, <1>2, <1>3, <1>4, <1>6 DEF AccessOK
  <2>2. MaxEpoch * i + S.count_epoch = MaxEpoch * j + m.epoch
    BY <1>5, <1>6, <1>7
  <2>3. i \in Int /\ j \in Int
    BY <1>5, <1>7
  <2>4. PICK M, e, f : M = MaxEpoch /\ e = S.count_epoch /\ f = m.epoch
    OBVIOUS
  <2>5. M \in Nat \ {0} /\ e \in 1 .. M /\ f \in 1 .. M /\ M * i + e = M * j + f
    BY <1>0, <2>1, <2>2, <2>4
  <2>6. i = j /\ e = f
    BY <2>3, <2>5, RangeArithmetic
  <2> QED
    BY <2>4, <2>6
<1>9. given[v] \cap given[w] # {}
  BY <1>5, <1>6, <1>7, <1>8
<1>10. ASSUME v # w PROVE FALSE
  <2>1. PICK q \in Members[CommOf[v]] : \E l \in 1 .. pos[q] : Is(prog, l, "create", v)
    BY <1>1, <1>6 DEF CreatedOK
  <2>2. PICK b \in 1 .. pos[q] : Is(prog, b, "create", v)
    BY <2>1
  <2>3. q \in Procs /\ pos[q] \in Nat /\ pos[q] <= Len(prog)
    <3>1. q \in Procs
      BY <1>1, <2>1, MemberFacts
    <3> QED
      BY <1>0, <3>1 DEF Regular, PlaceOK, PositionOK, TypeOK
  <2>4. PICK a \in 1 .. At(p) : Is(prog, a, "create", w)
    BY <1>3 DEF Exists
  <2>5. a \in DOMAIN prog /\ b \in DOMAIN prog /\ a # b
    BY <1>0, <1>3, <1>10, <2>2, <2>3, <2>4 DEF Is
  <2>6. CASE b < a
    <3>1. ~ Exists(prog, v, a)
      BY <1>1, <1>3, <1>9, <1>10, <1>0, <2>4, <2>5 DEF GivenOK
    <3>2. PICK f \in 1 .. a : Is(prog, f, "free", v)
      BY <2>2, <2>5, <2>6, <3>1, <1>0 DEF Exists
    <3>3. f \in DOMAIN prog /\ f <= At(p) /\ f \in Nat /\ f \in 1 .. At(p)
      BY <1>0, <1>3, <2>4, <2>5
    <3>4. v \notin DOMAIN States[p]
      <4>1. ~ Exists(prog, v, At(p))
        BY <3>2, <3>3 DEF Exists
      <4> QED
        BY <1>0, <1>1, <4>1 DEF PlaceOK, KnownOK
    <3>5. Left(p, v) = Now(p, v)
      <4>1. Now(p, v) \in Nat
        BY <1>0, ClosedFacts
      <4> QED
        BY <3>4, <4>1 DEF Left, Open
    <3>6. At(m.src) \in Nat
      BY <1>0, <1>1, CallFacts DEF Regular
    <3>7. Now(m.src, v) <= Now(p, v)
      <4>1. CASE At(m.src) <= At(p)
        BY <1>0, <1>3, <3>6, <4>1, EpochFacts DEF Now
      <4>2. CASE At(p) <= At(m.src)
        <5>1. Epoch(prog, v, At(p)) = Epoch(prog, v, At(m.src))
          BY <1>0, <1>3, <3>2, <3>3, <3>6, <4>2, FreedEpoch
        <5>2. Epoch(prog, v, At(p)) \in Nat
          BY <1>0, <1>3, EpochFacts
        <5> QED
          BY <5>1, <5>2 DEF Now
      <4> QED
        BY <1>3, <3>6, <4>1, <4>2
    <3>8. Left(p, v) < m.epoch /\ m.epoch <= Now(m.src, v)
      BY <1>2 DEF FlightOK, AccessOK
    <3>9. Now(p, v) \in Nat /\ Now(m.src, v) \in Nat
      BY <1>0, <1>3, <3>6, EpochFacts DEF Now
    <3> QED
      BY <1>1, <3>5, <3>7, <3>8, <3>9
  <2>7. CASE a < b
    <3>1. ~ Exists(prog, w, b)
      BY <1>1, <1>3, <1>9, <1>10, <1>0, <2>2, <2>5 DEF GivenOK
    <3>2. PICK f \in 1 .. b : Is(prog, f, "free", w)
      BY <2>4, <2>5, <2>7, <3>1, <1>0 DEF Exists
    <3>3. f \in DOMAIN prog /\ f <= pos[q] /\ f \in Nat
      BY <1>0, <2>2, <2>3, <2>5
    <3>4. f \in Syncs(prog, c)
      BY <3>2, <3>3 DEF Syncs, Is, CommOfCall
    <3>5. q \in Members[c] /\ c \in Comms
      BY <1>3, <2>1, MemberFacts
    <3>6. f <= At(p)
      BY <1>3, <3>3, <3>4, <3>5 DEF SyncOK
    <3>7. f \in 1 .. At(p)
      BY <1>3, <3>2, <3>3, <3>6
    <3> QED
      BY <1>3, <3>2, <3>7 DEF Exists
  <2> QED
    BY <1>0, <2>5, <2>6, <2>7
<1> QED
  BY <1>3, <1>8, <1>10

(* A process whose thread has all its accesses is about to join it, and    *)
(* the others send no more in this epoch.                                  *)
LEMMA ExitEnds ==
  ASSUME Regular, NEW p \in Procs, NEW w \in DOMAIN States[p],
         States[p][w].thread = "exit" \/ States[p][w].thread_end = 1,
         States[p][w].thread # "off"
  PROVE  pc[p] = "join" /\ IsNext(p, w)
<1>1. ThreadOK(p, w) /\ States[p][w].thread \in {"off", "test", "exit"}
  BY StateFacts DEF Regular, ThreadsOK
<1> QED
  BY <1>1 DEF ThreadOK

LEMMA QuietStays ==
  ASSUME Regular, Regular', NEW p \in Procs, NEW q \in Procs, NEW w \in Wins,
         (\E v \in Wins, r \in Procs : Communicate(p, v, r)) \/ \E v \in Wins : CheckThread(p, v)
  PROVE  Now(q, w)' = Now(q, w) /\ Left(q, w)' = Left(q, w)
<1>1. /\ Frame(p) /\ DOMAIN States'[p] = DOMAIN States[p] /\ UNCHANGED <<pos, pc, todo>>
      /\ \A v \in DOMAIN States[p] : States'[p][v].active_epoch = States[p][v].active_epoch
  BY QuietFields DEF Regular
<1>2. prog' = prog
  BY <1>1 DEF Frame
<1>3. CASE q = p
  <2>1. Now(p, w)' = Now(p, w)
    BY <1>1, <1>2 DEF Now, At
  <2>2. Open(p, w)' <=> Open(p, w)
    BY <1>1 DEF Open
  <2> QED
    BY <1>3, <2>1, <2>2 DEF Left
<1>4. CASE q # p
  BY <1>1, <1>4, OthersStay
<1> QED
  BY <1>3, <1>4

LEMMA AppLanded ==
  ASSUME Regular, Regular', NEW p \in Procs, App(p), LandingOK, \A m \in sent : AccessOK(m),
         NEW q \in Procs, NEW w \in DOMAIN States'[q]
  PROVE  LandedOK(q, w)'
<1>0. /\ TypeOK /\ PlaceOK(p) /\ WindowsOK(p) /\ Frame(p) /\ WindowsOK(p)' /\ sent \subseteq Message
      /\ sent' = sent /\ net' = net
  BY RegularStep, AppSends DEF Regular, Step, TypeOK
<1>1. CASE q # p
  <2>1. States'[q] = States[q] /\ Now(q, w)' = Now(q, w) /\ w \in DOMAIN States[q]
    BY <1>0, <1>1, OthersStay DEF Frame
  <2>2. LandedOK(q, w)
    BY <2>1 DEF LandingOK
  <2> QED
    BY <1>0, <2>1, <2>2 DEF LandedOK, SentTo
<1>2. CASE q = p
  <2> DEFINE T == States'[p][w]
             S == States[p][w]
  <2>1. Now(p, w)' = T.count_epoch
    BY <1>0, <1>2 DEF WindowsOK, StateOK
  <2>2. \A e : SentTo(p, w, e)' = SentTo(p, w, e)
    BY <1>0 DEF SentTo
  <2>3. CASE T.count_epoch = 0 /\ T.thread = "off" /\ T.count = 0 /\ T.landed = {}
    <3>1. SentTo(p, w, 0) = {}
      BY DEF SentTo, AccessOK
    <3>2. SentTo(p, w, Now(p, w))' = {}
      BY <1>0, <2>1, <2>3, <3>1 DEF SentTo
    <3> QED
      BY <1>2, <2>3, <3>2 DEF LandedOK
  <2>4. CASE w \in DOMAIN States[p] /\ T = Started(S) /\ S.thread = "off"
    <3>1. S \in State /\ LandedOK(p, w) /\ S.count_epoch = Now(p, w) /\ S.count_epoch \in Nat /\ w \in Wins
      BY <1>0, <2>4, StateFacts DEF LandingOK, WindowsOK, StateOK
    <3>2. T.count_epoch = S.count_epoch + 1 /\ T.thread = "test" /\ T.count = S.count /\ T.landed = {}
      BY <2>4, <3>1, StartedFacts
    <3>3. S.count = 0
      BY <2>4, <3>1 DEF LandedOK
    <3>4. SentTo(p, w, S.count_epoch + 1) \ net = {}
      <4>1. ASSUME NEW m \in sent, m.dst = p, m.win = w, m \notin net PROVE m.epoch # S.count_epoch + 1
        <5>1. FlightOK(m) /\ m.epoch \in Nat
          BY <1>0, <4>1 DEF LandingOK, Message
        <5>2. m.epoch <= S.count_epoch
          BY <3>1, <4>1, <5>1 DEF FlightOK
        <5> QED
          BY <3>1, <5>1, <5>2
      <4> QED
        BY <4>1 DEF SentTo
    <3>5. (SentTo(p, w, Now(p, w)) \ net)' = {}
      BY <1>0, <2>1, <3>2, <3>4 DEF SentTo
    <3>6. Cardinality({}) = 0
      BY FS_EmptySet
    <3> QED
      BY <1>2, <3>2, <3>3, <3>5, <3>6 DEF LandedOK
  <2>5. CASE /\ w \in DOMAIN States[p] /\ T.count_epoch = S.count_epoch /\ T.landed = S.landed
             /\ \/ T.thread = S.thread /\ T.count = S.count
                \/ T.thread = "off" /\ T.count = 0
    <3>1. LandedOK(p, w) /\ Now(p, w)' = Now(p, w)
      BY <1>0, <2>1, <2>5 DEF LandingOK, WindowsOK, StateOK
    <3>2. SentTo(p, w, Now(p, w))' = SentTo(p, w, Now(p, w))
      BY <1>0, <3>1 DEF SentTo
    <3> QED
      BY <1>0, <1>2, <2>5, <3>1, <3>2 DEF LandedOK
  <2>6. \/ T.count_epoch = 0 /\ T.thread = "off" /\ T.count = 0 /\ T.landed = {}
        \/ w \in DOMAIN States[p] /\ T = Started(S) /\ S.thread = "off"
        \/ /\ w \in DOMAIN States[p] /\ T.count_epoch = S.count_epoch /\ T.landed = S.landed
           /\ \/ T.thread = S.thread /\ T.count = S.count
              \/ Join(p) /\ IsNext(p, w) /\ T.count = 0 /\ T.thread = IF S.thread = "exit" THEN "off" ELSE S.thread
    <3>1. ~ crashed' /\ w \in DOMAIN States'[p]
      BY <1>2 DEF Regular
    <3> QED
      BY <1>0, <3>1, StateStep
  <2>7. ASSUME Join(p), IsNext(p, w) PROVE S.thread = "exit"
    <3>1. todo[p] \subseteq DOMAIN States[p] /\ ~ crashed'
      BY <1>0 DEF PlaceOK, PositionOK, Regular
    <3>2. PICK a \in todo[p] : IsNext(p, a) /\ Joinable(States[p][a]) /\ crashed' = (States[p][a].thread = "off")
      BY <1>0, <2>7, <3>1, JoinEffect
    <3>3. a = w
      BY <1>0, <2>7, <3>2, NextUnique
    <3> QED
      BY <3>1, <3>2, <3>3 DEF Joinable
  <2> QED
    BY <2>3, <2>4, <2>5, <2>6, <2>7
<1> QED
  BY <1>1, <1>2

LEMMA JoinCleared ==
  ASSUME Regular, ~ crashed', NEW p \in Procs, Join(p), NEW w, IsNext(p, w), LandingOK
  PROVE  w \in DOMAIN States[p] /\ States[p][w].thread = "exit" /\ Left(p, w) = Now(p, w) - 1
<1>0. TypeOK /\ PlaceOK(p) /\ todo[p] \subseteq DOMAIN States[p] /\ pc[p] = "join"
  BY DEF Regular, PlaceOK, PositionOK, Join
<1>1. PICK a \in todo[p] : IsNext(p, a) /\ Joinable(States[p][a]) /\ crashed' = (States[p][a].thread = "off")
  BY <1>0, JoinEffect
<1>2. a = w
  BY <1>0, <1>1, NextUnique
<1>3. Open(p, w)
  BY <1>0, <1>1, <1>2, NextEnds DEF Clearing
<1> QED
  BY <1>0, <1>1, <1>2, <1>3 DEF Joinable, Left

LEMMA AppFlight ==
  ASSUME Regular, Regular', NEW p \in Procs, App(p), LandingOK, \A m \in sent : AccessOK(m),
         NEW m \in sent'
  PROVE  FlightOK(m)'
<1>0. /\ TypeOK /\ Frame(p) /\ sent \subseteq Message /\ sent' = sent /\ net' = net /\ Step(p) /\ ~ crashed'
  BY RegularStep, AppSends DEF Regular, Step, TypeOK
<1>1. /\ m \in sent /\ m.win \in Wins /\ m.dst \in Members[CommOf[m.win]] /\ m.epoch \in Nat /\ FlightOK(m)
  BY <1>0 DEF Message, AccessOK, LandingOK
<1> DEFINE d == m.dst
           w == m.win
<1>2. /\ Now(d, w) \in Nat /\ Now(d, w)' \in Nat /\ Now(d, w) <= Now(d, w)' /\ Left(d, w) \in Int
      /\ \/ Left(d, w)' = Left(d, w)
         \/ d = p /\ Join(p) /\ IsNext(p, w) /\ Left(d, w)' = Now(d, w)
  BY <1>0, <1>1, AllFurther
<1>3. CASE m \notin net
  <2>1. m.epoch <= Now(d, w)
    BY <1>1, <1>3 DEF FlightOK
  <2>2. m.epoch <= Now(d, w)'
    BY <1>1, <1>2, <2>1
  <2> QED
    BY <1>0, <1>3, <2>2 DEF FlightOK
<1>4. CASE m \in net /\ Left(d, w)' = Left(d, w)
  BY <1>0, <1>1, <1>4 DEF FlightOK
<1>5. CASE m \in net /\ d = p /\ Join(p) /\ IsNext(p, w) /\ Left(d, w)' = Now(d, w)
  <2>1. w \in DOMAIN States[p] /\ States[p][w].thread = "exit" /\ Left(p, w) = Now(p, w) - 1
    BY <1>0, <1>5, JoinCleared
  <2>2. LandedOK(p, w)
    BY <2>1 DEF LandingOK
  <2>3. SentTo(p, w, Now(p, w)) \ net = SentTo(p, w, Now(p, w))
    BY <2>1, <2>2 DEF LandedOK
  <2>4. m.epoch # Now(p, w)
    BY <1>1, <1>5, <2>3 DEF SentTo
  <2>5. Left(p, w) < m.epoch
    BY <1>1, <1>5 DEF FlightOK
  <2>6. Now(p, w) < m.epoch
    BY <1>1, <1>2, <1>5, <2>1, <2>4, <2>5
  <2>7. Left(d, w)' < m.epoch
    BY <1>5, <2>6
  <2> QED
    BY <1>0, <1>5, <2>7 DEF FlightOK
<1> QED
  BY <1>2, <1>3, <1>4, <1>5

(* An access that is sent finds its target still in the epoch, and no      *)
(* thread that has already counted the accesses of it.                     *)
LEMMA SendLanding ==
  ASSUME Regular, Regular', MatchedOK, LandingOK,
         NEW p \in Procs, NEW v \in Wins, NEW r \in Procs, Communicate(p, v, r)
  PROVE  LandingOK'
<1>0. TypeOK /\ net \subseteq sent /\ sent \subseteq Message /\ Frame(p)
  BY CommunicateEffect DEF Regular, TypeOK
<1>1. PICK a \in Message :
        /\ sent' = sent \cup {a} /\ net' = net \cup {a} /\ a \notin sent
        /\ a.src = p /\ a.dst = r /\ a.win = v /\ a.epoch = Now(p, v)
        /\ a.epoch \in Nat /\ Closed(p, v) < a.epoch
        /\ p \in Members[CommOf[v]] /\ r \in Members[CommOf[v]]
  BY NewAccess
<1>2. \A q \in Procs, w \in Wins : Now(q, w)' = Now(q, w) /\ Left(q, w)' = Left(q, w)
  BY QuietStays
<1>3. ASSUME NEW q \in Procs, NEW w \in DOMAIN States'[q] PROVE LandedOK(q, w)'
  <2>1. /\ w \in DOMAIN States[q] /\ States'[q][w].landed = States[q][w].landed
        /\ States'[q][w].count = States[q][w].count /\ States'[q][w].thread = States[q][w].thread
    <3>1. CASE q # p
      BY <1>0, <1>3, <3>1 DEF Frame
    <3>2. CASE q = p
      <4>1. /\ DOMAIN States'[p] = DOMAIN States[p] /\ v \in DOMAIN States[p]
            /\ States'[p][v] = [States[p][v] EXCEPT !.array = [States[p][v].array EXCEPT ![r] = @ + 1]]
            /\ \A u \in DOMAIN States[p] : u # v => States'[p][u] = States[p][u]
        BY <1>0, CommunicateEffect
      <4>2. States[p][v] \in State
        BY <1>0, <4>1, StateFacts
      <4>3. /\ States'[p][v].landed = States[p][v].landed
            /\ States'[p][v].count = States[p][v].count /\ States'[p][v].thread = States[p][v].thread
        BY <4>1, <4>2 DEF State
      <4> QED
        BY <1>3, <3>2, <4>1, <4>3
    <3> QED
      BY <3>1, <3>2
  <2>2. LandedOK(q, w) /\ w \in Wins /\ EndOK(q, w)
    BY <1>0, <2>1, StateFacts DEF LandingOK, MatchedOK
  <2>3. PICK e : e = Now(q, w)
    OBVIOUS
  <2>4. e = Now(q, w)'
    BY <1>2, <2>2, <2>3
  <2>5. SentTo(q, w, e)' \ net' = SentTo(q, w, e) \ net
    BY <1>0, <1>1 DEF SentTo
  <2>6. ASSUME States[q][w].thread = "exit" PROVE SentTo(q, w, e)' = SentTo(q, w, e)
    <3>1. pc[q] = "join" /\ IsNext(q, w)
      BY <2>1, <2>6, ExitEnds
    <3>2. ~ (a.dst = q /\ a.win = w /\ a.epoch = e)
      <4>1. ASSUME a.win = w, a.epoch = e PROVE FALSE
        <5>1. e <= Closed(p, v)
          BY <1>1, <2>2, <2>3, <3>1, <4>1 DEF EndOK
        <5>2. Closed(p, v) \in Int
          BY <1>0, ClosedFacts DEF Regular
        <5> QED
          BY <1>1, <4>1, <5>1, <5>2
      <4> QED
        BY <4>1
    <3> QED
      BY <1>1, <3>2 DEF SentTo
  <2>7. /\ States[q][w].landed = SentTo(q, w, e) \ net
        /\ States[q][w].count = IF States[q][w].thread = "test" THEN Cardinality(States[q][w].landed) ELSE 0
        /\ States[q][w].thread = "exit" => States[q][w].landed = SentTo(q, w, e)
    BY <2>2, <2>3 DEF LandedOK
  <2>8. SentTo(q, w, Now(q, w))' = SentTo(q, w, e)'
    BY <2>4 DEF SentTo
  <2> QED
    BY <2>1, <2>5, <2>6, <2>7, <2>8 DEF LandedOK
<1>4. ASSUME NEW m \in sent' PROVE FlightOK(m)'
  <2>1. CASE m \in sent
    <3>1. m.dst \in Procs /\ m.win \in Wins /\ FlightOK(m)
      BY <1>0, <2>1 DEF Message, LandingOK
    <3>2. m \in net' <=> m \in net
      BY <1>1, <2>1
    <3> QED
      BY <1>2, <3>1, <3>2 DEF FlightOK
  <2>2. CASE m = a
    <3>1. Left(r, v) <= Closed(p, v)
      BY <1>1 DEF MatchedOK, Together
    <3>2. Left(r, v) \in Int /\ Closed(p, v) \in Int
      BY <1>0, ClosedFacts DEF Regular
    <3>3. Left(m.dst, m.win)' < m.epoch
      BY <1>1, <1>2, <2>2, <3>1, <3>2
    <3> QED
      BY <1>1, <2>2, <3>3 DEF FlightOK
  <2> QED
    BY <1>1, <1>4, <2>1, <2>2
<1> QED
  BY <1>3, <1>4 DEF LandingOK

LEMMA ReceiveLanding ==
  ASSUME Regular, Regular', SyncOK, CreatedOK, MatchedOK, TagsOK, LandingOK,
         NEW p \in Procs, NEW v \in Wins, v \in DOMAIN States[p], Receive(p, v)
  PROVE  LandingOK'
<1>0. TypeOK /\ net \subseteq sent /\ sent \subseteq Message /\ Frame(p) /\ sent' = sent /\ CheckThread(p, v)
  BY ReceiveEffect DEF Regular, TypeOK, CheckThread
<1>1. PICK a \in net :
        /\ a.dst = p /\ CommOf[a.win] = CommOf[v]
        /\ a.tag = States[p][v].mpi_tag + States[p][v].count_epoch
        /\ net' = net \ {a}
        /\ States'[p][v] = [States[p][v] EXCEPT !.count = @ + 1, !.landed = @ \cup {a}]
  BY <1>0, ReceiveEffect
<1>2. \A q \in Procs, w \in Wins : Now(q, w)' = Now(q, w) /\ Left(q, w)' = Left(q, w)
  BY <1>0, QuietStays
<1>3. States[p][v].thread = "test"
  BY DEF Receive
<1>4. a.win = v /\ a.epoch = Now(p, v)
  BY <1>1, <1>3, TagTells
<1>5. /\ DOMAIN States'[p] = DOMAIN States[p]
      /\ \A u \in DOMAIN States[p] : u # v => States'[p][u] = States[p][u]
  BY <1>0, ReceiveEffect, ExitThreadEffect
<1>6. ASSUME NEW q \in Procs, NEW w \in DOMAIN States'[q], ~ (q = p /\ w = v) PROVE LandedOK(q, w)'
  <2>1. w \in DOMAIN States[q] /\ States'[q][w] = States[q][w]
    BY <1>0, <1>5, <1>6 DEF Frame
  <2>2. LandedOK(q, w) /\ w \in Wins
    BY <1>0, <2>1, StateFacts DEF LandingOK
  <2>3. PICK e : e = Now(q, w)
    OBVIOUS
  <2>4. e = Now(q, w)'
    BY <1>2, <2>2, <2>3
  <2>5. SentTo(q, w, e)' = SentTo(q, w, e)
    BY <1>0 DEF SentTo
  <2>6. a \notin SentTo(q, w, e)
    BY <1>1, <1>4, <1>6 DEF SentTo
  <2>7. SentTo(q, w, e) \ net' = SentTo(q, w, e) \ net
    BY <1>1, <2>6
  <2>8. SentTo(q, w, Now(q, w))' = SentTo(q, w, e)
    BY <2>4, <2>5 DEF SentTo
  <2> QED
    BY <2>1, <2>2, <2>3, <2>7, <2>8 DEF LandedOK
<1>7. LandedOK(p, v)'
  <2> DEFINE S == States[p][v]
             T == States'[p][v]
  <2>1. S \in State /\ S.count \in Nat /\ LandedOK(p, v)
    BY <1>0, StateFacts DEF LandingOK
  <2>2. T.count = S.count + 1 /\ T.landed = S.landed \cup {a} /\ T.thread = "test"
    BY <1>1, <1>3, <2>1 DEF State
  <2>3. PICK e : e = Now(p, v)
    OBVIOUS
  <2>4. S.landed = SentTo(p, v, e) \ net /\ S.count = Cardinality(S.landed)
    BY <1>3, <2>1, <2>3 DEF LandedOK
  <2>5. a \in SentTo(p, v, e) /\ SentTo(p, v, Now(p, v))' = SentTo(p, v, e)
    BY <1>0, <1>1, <1>2, <1>4, <2>3 DEF SentTo
  <2>6. T.landed = SentTo(p, v, e) \ net'
    BY <1>1, <2>2, <2>4, <2>5
  <2>7. Cardinality(T.landed) = Cardinality(S.landed) + 1
    <3>1. S.landed \subseteq sent /\ a \notin S.landed
      BY <2>4 DEF SentTo
    <3>2. IsFiniteSet(S.landed)
      BY <3>1, SentFinite DEF Regular
    <3> QED
      BY <2>2, <3>1, <3>2, FS_AddElement
  <2> QED
    BY <2>2, <2>4, <2>5, <2>6, <2>7 DEF LandedOK
<1>8. ASSUME NEW m \in sent PROVE FlightOK(m)'
  <2>1. m.dst \in Procs /\ m.win \in Wins /\ FlightOK(m)
    BY <1>0, <1>8 DEF Message, LandingOK
  <2>2. Now(p, v) \in Nat
    BY <1>0, ClosedFacts DEF Regular
  <2>3. CASE m = a
    BY <1>1, <1>2, <1>4, <2>1, <2>2, <2>3 DEF FlightOK
  <2>4. CASE m # a
    <3>1. m \in net' <=> m \in net
      BY <1>1, <2>4
    <3> QED
      BY <1>2, <2>1, <3>1 DEF FlightOK
  <2> QED
    BY <2>3, <2>4
<1> QED
  BY <1>0, <1>6, <1>7, <1>8 DEF LandingOK

(* A thread leaves when it has received as many accesses as were sent in   *)
(* the epoch, and those it received are among them.                        *)
LEMMA ExitLanding ==
  ASSUME Regular, Regular', MatchedOK, LandingOK,
         NEW p \in Procs, NEW v \in Wins, v \in DOMAIN States[p], ExitThread(p, v)
  PROVE  LandingOK'
<1>0. /\ TypeOK /\ net \subseteq sent /\ sent \subseteq Message /\ Frame(p) /\ sent' = sent /\ net' = net
      /\ CheckThread(p, v)
  BY ExitThreadEffect DEF Regular, TypeOK, CheckThread
<1>2. \A q \in Procs, w \in Wins : Now(q, w)' = Now(q, w) /\ Left(q, w)' = Left(q, w)
  BY <1>0, QuietStays
<1>3. /\ States[p][v].thread = "test" /\ States[p][v].thread_end = 1 /\ States[p][v].count = States[p][v].value
      /\ States'[p][v] = [States[p][v] EXCEPT !.thread = "exit", !.count = 0]
      /\ DOMAIN States'[p] = DOMAIN States[p]
      /\ \A u \in DOMAIN States[p] : u # v => States'[p][u] = States[p][u]
  BY <1>0, ExitThreadEffect
<1>4. ASSUME NEW q \in Procs, NEW w \in DOMAIN States'[q], ~ (q = p /\ w = v) PROVE LandedOK(q, w)'
  <2>1. w \in DOMAIN States[q] /\ States'[q][w] = States[q][w]
    BY <1>0, <1>3, <1>4 DEF Frame
  <2>2. LandedOK(q, w) /\ w \in Wins
    BY <1>0, <2>1, StateFacts DEF LandingOK
  <2>3. SentTo(q, w, Now(q, w))' = SentTo(q, w, Now(q, w))
    BY <1>0, <1>2, <2>2 DEF SentTo
  <2> QED
    BY <1>0, <2>1, <2>2, <2>3 DEF LandedOK
<1>5. LandedOK(p, v)'
  <2> DEFINE S == States[p][v]
             T == States'[p][v]
  <2>1. S \in State /\ LandedOK(p, v) /\ EndOK(p, v)
    BY <1>0, StateFacts DEF LandingOK, MatchedOK
  <2>2. T.count = 0 /\ T.landed = S.landed /\ T.thread = "exit"
    BY <1>3, <2>1 DEF State
  <2>3. pc[p] = "join" /\ IsNext(p, v)
    BY <1>3, ExitEnds
  <2>4. PICK A : A = SentTo(p, v, Now(p, v))
    OBVIOUS
  <2>5. S.landed = A \ net /\ S.count = Cardinality(S.landed) /\ S.value = Cardinality(A)
    BY <1>3, <2>1, <2>3, <2>4 DEF LandedOK, EndOK
  <2>6. A \subseteq sent /\ S.landed \subseteq A
    BY <2>4, <2>5 DEF SentTo
  <2>7. IsFiniteSet(A)
    BY <2>6, SentFinite DEF Regular
  <2>8. S.landed = A
    BY <1>3, <2>5, <2>6, <2>7, FS_Subset
  <2>9. SentTo(p, v, Now(p, v))' = A
    BY <1>0, <1>2, <2>4 DEF SentTo
  <2> QED
    BY <1>0, <2>2, <2>5, <2>8, <2>9 DEF LandedOK
<1>6. ASSUME NEW m \in sent PROVE FlightOK(m)'
  <2>1. m.dst \in Procs /\ m.win \in Wins /\ FlightOK(m)
    BY <1>0, <1>6 DEF Message, LandingOK
  <2> QED
    BY <1>0, <1>2, <2>1 DEF FlightOK
<1> QED
  BY <1>0, <1>4, <1>5, <1>6 DEF LandingOK

LEMMA LandingStep ==
  ASSUME Regular, Regular', SyncOK, CreatedOK, MatchedOK, TagsOK, LandingOK,
         NEW p \in Procs, Step(p)
  PROVE  LandingOK'
<1>1. CASE App(p)
  <2>1. \A m \in sent : AccessOK(m)
    BY DEF MatchedOK
  <2>2. \A q \in Procs : \A w \in DOMAIN States'[q] : LandedOK(q, w)'
    BY <1>1, <2>1, AppLanded
  <2>3. \A m \in sent' : FlightOK(m)'
    BY <1>1, <2>1, AppFlight
  <2> QED
    BY <2>2, <2>3 DEF LandingOK
<1>2. CASE \E w \in Wins, q \in Procs : Communicate(p, w, q)
  BY <1>2, SendLanding
<1>3. CASE \E w \in Wins : CheckThread(p, w)
  BY <1>3, ReceiveLanding, ExitLanding DEF CheckThread
<1> QED
  BY <1>1, <1>2, <1>3 DEF Step

-----------------------------------------------------------------------------
(* The invariant holds. *)

LEMMA LandingShows ==
  ASSUME Regular', LandingOK'
  PROVE  RightWindow' /\ ClearedWhenComplete'
<1>1. ASSUME NEW p \in Procs, NEW w \in DOMAIN States'[p]
      PROVE  /\ \A m \in States'[p][w].landed : m.win = w /\ m.epoch = States'[p][w].count_epoch
             /\ States'[p][w].thread = "exit" =>
                  States'[p][w].landed = {m \in sent' : /\ m.dst = p /\ m.win = w
                                                       /\ m.epoch = States'[p][w].count_epoch}
  <2>1. LandedOK(p, w)' /\ States'[p][w].count_epoch = Now(p, w)'
    BY DEF LandingOK, Regular, WindowsOK, StateOK
  <2> QED
    BY <2>1 DEF LandedOK, SentTo
<1> QED
  BY <1>1 DEF RightWindow, ClearedWhenComplete

(* A step that ends in std::terminate changes no list of what landed. *)
LEMMA CrashShows ==
  ASSUME PlacesInvariant, RightWindow, ClearedWhenComplete, NEW p \in Procs, Step(p), crashed'
  PROVE  RightWindow' /\ ClearedWhenComplete'
<1>0. TypeOK /\ PlaceOK(p) /\ Frame(p) /\ ~ crashed
  BY PlaceStep DEF PlacesInvariant, Step, Frame
<1>1. App(p)
  BY <1>0, QuietFields DEF Step
<1>2. sent' = sent
  BY <1>1, AppSends
<1>3. SUFFICES ASSUME agreed', Matched', NEW q \in Procs, NEW w \in DOMAIN States'[q]
               PROVE  /\ \A m \in States'[q][w].landed : m.win = w /\ m.epoch = States'[q][w].count_epoch
                      /\ States'[q][w].thread = "exit" =>
                           States'[q][w].landed = {m \in sent : /\ m.dst = q /\ m.win = w
                                                                /\ m.epoch = States'[q][w].count_epoch}
  BY <1>2 DEF RightWindow, ClearedWhenComplete
<1>4. agreed
  BY <1>0, <1>3, AgreedStays
<1>5. Matched
  BY <1>0, <1>3 DEF Frame, Matched, SameOrder, BarriersCover
<1>6. ASSUME NEW r \in Procs, NEW u \in DOMAIN States[r]
      PROVE  /\ \A m \in States[r][u].landed : m.win = u /\ m.epoch = States[r][u].count_epoch
             /\ States[r][u].thread = "exit" =>
                  States[r][u].landed = {m \in sent : /\ m.dst = r /\ m.win = u
                                                      /\ m.epoch = States[r][u].count_epoch}
  BY <1>4, <1>5, <1>6 DEF RightWindow, ClearedWhenComplete
<1>7. CASE q # p
  <2>1. States'[q] = States[q]
    BY <1>0, <1>7 DEF Frame
  <2> QED
    BY <1>3, <1>6, <2>1
<1>8. CASE q = p
  <2> DEFINE T == States'[p][w]
             S == States[p][w]
  <2>1. \/ T.landed = {} /\ T.thread = "off"
        \/ w \in DOMAIN States[p] /\ T = Started(S)
        \/ /\ w \in DOMAIN States[p] /\ T.count_epoch = S.count_epoch /\ T.landed = S.landed
           /\ T.thread = S.thread \/ T.thread = IF S.thread = "exit" THEN "off" ELSE S.thread
    BY <1>0, <1>1, <1>3, <1>8, StateStep
  <2>2. CASE T.landed = {} /\ T.thread = "off"
    BY <1>8, <2>2
  <2>3. CASE w \in DOMAIN States[p] /\ T = Started(S)
    <3>1. S \in State
      BY <1>0, <2>3, StateFacts
    <3>2. T.landed = {} /\ T.thread = "test"
      BY <2>3, <3>1, StartedFacts
    <3> QED
      BY <1>8, <3>2
  <2>4. CASE /\ w \in DOMAIN States[p] /\ T.count_epoch = S.count_epoch /\ T.landed = S.landed
             /\ T.thread = S.thread \/ T.thread = IF S.thread = "exit" THEN "off" ELSE S.thread
    <3>1. T.thread = "exit" => S.thread = "exit"
      BY <2>4
    <3> QED
      BY <1>6, <1>8, <2>4, <3>1
  <2> QED
    BY <2>1, <2>2, <2>3, <2>4
<1> QED
  BY <1>7, <1>8

LEMMA WindowsInit ==
  ASSUME Init
  PROVE  WindowsInvariant
<1>0. PlacesInvariant /\ TypeOK /\ prog \in Programs /\ DOMAIN prog \subseteq Nat \ {0}
  BY PlacesInit, ProgramFacts DEF PlacesInvariant, TypeOK
<1>1. \A p \in Procs : /\ pos[p] = 0 /\ pc[p] = "user" /\ At(p) = 0 /\ States[p] = << >>
                       /\ DOMAIN States[p] = {}
  BY DEF Init, At
<1>2. sent = {} /\ net = {} /\ DOMAIN reduced = {} /\ \A w \in Wins : given[w] = {}
  BY DEF Init
<1>3. ASSUME NEW p \in Procs PROVE RoundsOK(p)
  <2>1. ASSUME NEW c \in Comms PROVE Made(p, c) = {}
    <3>1. \A x \in Reductions(prog, c) : x[1] \in Nat \ {0}
      BY <1>0 DEF Reductions
    <3> QED
      BY <1>1, <3>1 DEF Made, Clearing
  <2>2. \A c \in Comms : rounds[p][c] = 0
    BY DEF Init
  <2>3. Cardinality({}) = 0
    BY FS_EmptySet
  <2> QED
    BY <2>1, <2>2, <2>3 DEF RoundsOK
<1>4. Together
  <2>1. ASSUME NEW w \in Wins, NEW p \in Procs PROVE Left(p, w) = 0 /\ Closed(p, w) = 0
    <3>1. Now(p, w) = 0
      <4>1. 1 .. 0 \cap Starts(prog, w) = {}
        OBVIOUS
      <4> QED
        BY <1>1, <4>1, FS_EmptySet DEF Now, Epoch
    <3>2. ~ Open(p, w)
      BY <1>1 DEF Open
    <3>3. Left(p, w) = 0
      BY <1>0, <3>1, <3>2, ClosedFacts DEF PlacesInvariant
    <3> QED
      BY <1>1, <3>3 DEF Closed
  <2>2. \A w \in Wins : Members[CommOf[w]] \subseteq Procs
    BY MemberFacts
  <2>3. ASSUME NEW w \in Wins, NEW p \in Members[CommOf[w]], NEW q \in Members[CommOf[w]]
        PROVE  Left(p, w) <= Closed(q, w)
    <3>1. p \in Procs /\ q \in Procs
      BY <2>2
    <3> QED
      BY <2>1, <3>1
  <2> QED
    BY <2>3 DEF Together
<1>5. MatchedOK
  BY <1>1, <1>2, <1>3, <1>4 DEF MatchedOK, ReductionsOK
<1>6. TagsOK
  BY <1>1, <1>2 DEF TagsOK, GivenOK, RangesOK
<1>7. LandingOK
  BY <1>1, <1>2 DEF LandingOK
<1>8. RightWindow /\ ClearedWhenComplete
  BY <1>1 DEF RightWindow, ClearedWhenComplete
<1> QED
  BY <1>0, <1>5, <1>6, <1>7, <1>8 DEF WindowsInvariant

LEMMA WindowsNext ==
  ASSUME WindowsInvariant, Next
  PROVE  WindowsInvariant'
<1>0. PlacesInvariant /\ PlacesInvariant' /\ RightWindow /\ ClearedWhenComplete
  BY PlacesNext DEF WindowsInvariant
<1>1. PICK p \in Procs : Step(p)
  BY DEF Next, Step
<1>2. TypeOK /\ SyncOK /\ CreatedOK /\ Frame(p) /\ ~ crashed
  BY <1>0, <1>1, PlaceStep DEF PlacesInvariant, Step, Frame
<1>3. Matched' <=> Matched
  BY <1>2 DEF Frame, Matched, SameOrder, BarriersCover
<1>4. ASSUME agreed' PROVE agreed /\ TagsOK /\ TagsOK'
  <2>1. agreed /\ TagsOK
    BY <1>1, <1>2, <1>4, AgreedStays DEF WindowsInvariant
  <2> QED
    BY <1>0, <1>1, <1>4, <2>1, TagsStep
<1>5. ASSUME ~ crashed', Matched' PROVE Regular /\ Regular' /\ MatchedOK /\ MatchedOK'
  <2>1. MatchedOK
    BY <1>2, <1>3, <1>5 DEF WindowsInvariant
  <2>2. Regular
    BY <1>0, <1>2, <1>3, <1>5, <2>1 DEF Regular, PlacesInvariant, MatchedOK, WindowsOK
  <2>3. Regular'
    BY <1>1, <1>5, <2>2, RegularStep
  <2> QED
    BY <1>1, <2>1, <2>2, <2>3, MatchedStep
<1>6. ASSUME ~ crashed', Matched', agreed' PROVE LandingOK'
  <2>1. LandingOK
    BY <1>2, <1>3, <1>4, <1>6 DEF WindowsInvariant
  <2> QED
    BY <1>1, <1>2, <1>4, <1>5, <1>6, <2>1, LandingStep
<1>7. RightWindow' /\ ClearedWhenComplete'
  <2>1. CASE crashed'
    BY <1>0, <1>1, <2>1, CrashShows
  <2>2. CASE ~ (Matched' /\ agreed')
    BY <2>2 DEF RightWindow, ClearedWhenComplete
  <2>3. CASE ~ crashed' /\ Matched' /\ agreed'
    BY <1>5, <1>6, <2>3, LandingShows
  <2> QED
    BY <2>1, <2>2, <2>3
<1> QED
  BY <1>0, <1>4, <1>5, <1>6, <1>7 DEF WindowsInvariant

LEMMA WindowsStutter ==
  ASSUME WindowsInvariant, UNCHANGED vars
  PROVE  WindowsInvariant'
<1>1. UNCHANGED <<prog, handle, pos, pc, todo, win_mpi_tag_id, States, net, reduced,
                  rounds, entered, crashed, sent, given, agreed>>
  BY DEF vars
<1>2. PlacesInvariant'
  BY PlacesStutter DEF WindowsInvariant
<1>3. \A p, w : /\ Now(p, w)' = Now(p, w) /\ Left(p, w)' = Left(p, w) /\ Closed(p, w)' = Closed(p, w)
                /\ At(p)' = At(p) /\ (IsNext(p, w)' <=> IsNext(p, w)) /\ (Swept(p, w)' <=> Swept(p, w))
  BY <1>1 DEF Now, Left, Closed, Open, At, IsNext, Swept, InBarrier
<1>4. ASSUME NEW p, NEW w
      PROVE  /\ StateOK(p, w)' <=> StateOK(p, w)
             /\ ArrayOK(p, w)' <=> ArrayOK(p, w)
             /\ EndOK(p, w)' <=> EndOK(p, w)
             /\ LandedOK(p, w)' <=> LandedOK(p, w)
  BY <1>1, <1>3 DEF StateOK, ArrayOK, EndOK, LandedOK, SentTo, SentBy
<1>5. ASSUME NEW p PROVE (RoundsOK(p)' <=> RoundsOK(p)) /\ (RangesOK(p)' <=> RangesOK(p))
  BY <1>1, <1>3 DEF RoundsOK, Made, RangesOK
<1>6. ASSUME NEW m
      PROVE  (AccessOK(m)' <=> AccessOK(m)) /\ (TagOK(m)' <=> TagOK(m)) /\ (FlightOK(m)' <=> FlightOK(m))
  BY <1>1, <1>3 DEF AccessOK, TagOK, FlightOK
<1>7. Together' <=> Together
  BY <1>3 DEF Together
<1>8. ReductionsOK' <=> ReductionsOK
  <2>1. ASSUME NEW k, NEW x PROVE SumsUp(k, x)' <=> SumsUp(k, x)
    BY <1>1, <1>3 DEF SumsUp, SentBy, SentTo
  <2> QED
    BY <1>1, <2>1 DEF ReductionsOK
<1>9. MatchedOK' <=> MatchedOK
  BY <1>1, <1>4, <1>5, <1>6, <1>7, <1>8 DEF MatchedOK
<1>10. TagsOK' <=> TagsOK
  BY <1>1, <1>5, <1>6 DEF TagsOK, GivenOK
<1>11. LandingOK' <=> LandingOK
  BY <1>1, <1>4, <1>6 DEF LandingOK
<1>12. Matched' <=> Matched
  BY <1>1 DEF Matched, SameOrder, BarriersCover
<1>13. (RightWindow' <=> RightWindow) /\ (ClearedWhenComplete' <=> ClearedWhenComplete)
  BY <1>1, <1>12 DEF RightWindow, ClearedWhenComplete
<1> QED
  BY <1>1, <1>2, <1>9, <1>10, <1>11, <1>12, <1>13 DEF WindowsInvariant

(* No access of another window or another epoch is ever taken for one of   *)
(* the window a thread checks, however many windows share a communicator   *)
(* and however often ranges of tags are reused.                            *)
THEOREM NoForeignAccess == Spec => []RightWindow
<1>1. Init => WindowsInvariant
  BY WindowsInit
<1>2. WindowsInvariant /\ [Next]_vars => WindowsInvariant'
  BY WindowsNext, WindowsStutter
<1>3. WindowsInvariant => RightWindow
  BY DEF WindowsInvariant
<1> QED
  BY <1>1, <1>2, <1>3, PTL DEF Spec

(* rma_analyzer_clear_comm_check_thread joins a thread only when every     *)
(* access sent to its process in this epoch of the window has landed, with *)
(* any number of windows open on any communicators.                        *)
THEOREM JoinedWhenComplete == Spec => []ClearedWhenComplete
<1>1. Init => WindowsInvariant
  BY WindowsInit
<1>2. WindowsInvariant /\ [Next]_vars => WindowsInvariant'
  BY WindowsNext, WindowsStutter
<1>3. WindowsInvariant => ClearedWhenComplete
  BY DEF WindowsInvariant
<1> QED
  BY <1>1, <1>2, <1>3, PTL DEF Spec

-----------------------------------------------------------------------------
(* A thread that runs outside of the epochs of its window was started by a *)
(* barrier.                                                                *)
LEMMA RunsAfterBarrier ==
  ASSUME NEW P \in Programs, NEW w \in Wins, NEW n \in Nat, n <= Len(P),
         Active(P, w, n), ~ InEpoch(P, w, n), Exists(P, w, n)
  PROVE  \E i \in 1 .. n : /\ Covers(P, w, i) /\ Exists(P, w, i)
                          /\ ~ InEpoch(P, w, i) /\ Synchronized(P, w, i - 1)
<1>1. PICK i \in 1 .. n : /\ Covers(P, w, i) /\ Synchronized(P, w, i - 1)
                          /\ \A j \in i + 1 .. n : ~ Is(P, j, "unlock_all", w)
  BY DEF Active
<1>2. ~ InEpoch(P, w, i)
  <2> SUFFICES ASSUME InEpoch(P, w, i) PROVE FALSE
    OBVIOUS
  <2>1. PICK j \in 1 .. i : /\ Is(P, j, "lock_all", w)
                            /\ \A k \in j + 1 .. i : ~ Is(P, k, "unlock_all", w)
    BY DEF InEpoch
  <2>2. j \in 1 .. n /\ \A k \in j + 1 .. n : k \in j + 1 .. i \/ k \in i + 1 .. n
    OBVIOUS
  <2> QED
    BY <1>1, <2>1, <2>2 DEF InEpoch
<1>3. Exists(P, w, i)
  <2>1. 1 .. i \subseteq 1 .. n
    OBVIOUS
  <2>2. \A j \in 1 .. i : ~ Is(P, j, "free", w)
    BY <2>1 DEF Exists
  <2>3. PICK k \in 1 .. i - 1 : InEpoch(P, w, k - 1)
    BY <1>1 DEF Synchronized
  <2>4. PICK j \in 1 .. k - 1 : Is(P, j, "lock_all", w)
    BY <2>3 DEF InEpoch
  <2>5. j \in DOMAIN P /\ ProgramOK(P)
    BY ProgramFacts
  <2>6. P[j].op = "lock_all" /\ P[j].on = w
    BY <2>4 DEF Is
  <2>7. Exists(P, w, j - 1)
    BY <2>5, <2>6 DEF ProgramOK
  <2>8. PICK c \in 1 .. j - 1 : Is(P, c, "create", w)
    BY <2>7 DEF Exists
  <2>9. c \in 1 .. i
    OBVIOUS
  <2> QED
    BY <2>2, <2>8, <2>9 DEF Exists
<1> QED
  BY <1>1, <1>2, <1>3

(* Where a thread is assigned or destroyed by MPI_Win_lock_all and         *)
(* MPI_Win_free.                                                           *)
LEMMA CallOverThread ==
  ASSUME Regular, NEW p \in Procs, Calls(p, "lock_all") \/ Calls(p, "free"),
         States[p][Arg(p)].thread # "off"
  PROVE  LockedOverThread(prog)
<1> DEFINE w == Arg(p)
           k == pos[p] + 1
<1>1. TypeOK /\ PlaceOK(p) /\ ThreadsOK(p) /\ WindowsOK(p) /\ pc[p] = "user" /\ At(p) = pos[p]
  BY DEF Regular, Calls, At
<1>2. /\ prog \in Programs /\ pos[p] \in Nat /\ pos[p] <= Len(prog) /\ k \in DOMAIN prog /\ w \in Wins
      /\ Is(prog, k, "lock_all", w) \/ Is(prog, k, "free", w)
      /\ p \in Members[CommOf[w]]
  BY <1>1, CallFacts DEF Calls, Arg, Is, Concerns, CommOfCall
<1>3. ProgramOK(prog) /\ k - 1 = pos[p]
  BY <1>2, ProgramFacts
<1>4. Exists(prog, w, pos[p]) /\ ~ InEpoch(prog, w, pos[p])
  BY <1>2, <1>3 DEF ProgramOK, Is
<1>5. w \in DOMAIN States[p]
  BY <1>1, <1>2, <1>4 DEF PlaceOK, KnownOK
<1>6. States[p][w].active_epoch = 1
  BY <1>1, <1>5 DEF ThreadsOK, ThreadOK
<1>7. Active(prog, w, pos[p])
  BY <1>1, <1>5, <1>6 DEF WindowsOK, StateOK
<1>8. PICK i \in 1 .. pos[p] : /\ Covers(prog, w, i) /\ Exists(prog, w, i)
                               /\ ~ InEpoch(prog, w, i) /\ Synchronized(prog, w, i - 1)
  BY <1>2, <1>4, <1>7, RunsAfterBarrier
<1>9. i < k /\ i \in DOMAIN prog
  BY <1>2, ProgramFacts
<1> HIDE DEF w, k
<1> QED
  BY <1>2, <1>8, <1>9 DEF LockedOverThread

(* What can end a process. *)
LEMMA CrashOverThread ==
  ASSUME Regular, NEW p \in Procs, App(p), crashed'
  PROVE  LockedOverThread(prog)
<1>1. TypeOK /\ PlaceOK(p) /\ ThreadsOK(p) /\ ~ crashed
  BY DEF Regular
<1>2. CASE WinFree(p)
  BY <1>2, <1>1, WinFreeEffect, CallOverThread
<1>3. CASE WinLockAll(p)
  BY <1>3, <1>1, WinLockAllEffect, CallOverThread DEF StartEpochs
<1>4. CASE Restart(p)
  <2>1. PICK w \in DOMAIN States[p] : States[p][w].active_epoch = 0 /\ States[p][w].thread # "off"
    BY <1>1, <1>4, RestartEffect DEF StartEpochs
  <2> QED
    BY <1>1, <2>1 DEF ThreadsOK, ThreadOK
<1>5. CASE Join(p)
  <2>1. todo[p] \subseteq DOMAIN States[p]
    BY <1>1 DEF PlaceOK, PositionOK
  <2>2. PICK w \in todo[p] : pc[p] = "join" /\ States[p][w].thread = "off"
    BY <1>1, <1>5, <2>1, JoinEffect
  <2>3. w \in DOMAIN States[p] /\ ThreadOK(p, w) /\ pc[p] \in Clearing /\ At(p) = pos[p]
    BY <1>1, <2>1, <2>2 DEF ThreadsOK, Clearing, At
  <2>4. prog[pos[p] + 1].op \in {"unlock_all", "barrier"} /\ pos[p] < Len(prog)
    BY <1>1, <2>2, <2>3 DEF PlaceOK, PositionOK
  <2>5. CASE prog[pos[p] + 1].op = "barrier"
    BY <2>2, <2>3, <2>5 DEF ThreadOK, InBarrier
  <2>6. CASE prog[pos[p] + 1].op = "unlock_all"
    <3>1. w = prog[pos[p] + 1].on
      BY <1>1, <2>2, <2>3, <2>6 DEF PlaceOK, PositionOK
    <3>2. prog \in Programs /\ pos[p] + 1 \in DOMAIN prog /\ pos[p] \in Nat
      BY <1>1, <2>4, CallFacts
    <3>3. ProgramOK(prog) /\ (pos[p] + 1) - 1 = pos[p]
      BY <3>2, ProgramFacts
    <3>4. InEpoch(prog, w, pos[p])
      BY <2>6, <3>1, <3>2, <3>3 DEF ProgramOK
    <3>5. ~ InBarrier(p)
      BY <2>6 DEF InBarrier
    <3> QED
      BY <2>2, <2>3, <3>4, <3>5 DEF ThreadOK, Swept
  <2> QED
    BY <2>4, <2>5, <2>6
<1>6. CASE SkipCall(p) \/ WinCreate(p) \/ WinUnlockAll(p) \/ Barrier(p) \/ Reduce(p)
             \/ ReduceReturns(p) \/ LeaveSync(p)
  <2>1. crashed' = crashed
    BY <1>6 DEF SkipCall, WinCreate, WinUnlockAll, Barrier, Reduce, ReduceReturns, LeaveSync
  <2> QED
    BY <1>1, <2>1
<1> QED
  BY <1>2, <1>3, <1>4, <1>5, <1>6 DEF App

(* Whatever the number of windows, barriers and epochs, std::terminate     *)
(* ends a process only when its program locks or frees a window whose      *)
(* thread a barrier outside of its epochs has started again.               *)
THEOREM ThreadsEndInOrder == Spec => []TerminatedOnlyOverThread
<1>1. Init => WindowsInvariant /\ TerminatedOnlyOverThread
  BY WindowsInit DEF Init, TerminatedOnlyOverThread
<1>2. WindowsInvariant /\ TerminatedOnlyOverThread /\ [Next]_vars
        => WindowsInvariant' /\ TerminatedOnlyOverThread'
  <2> SUFFICES ASSUME WindowsInvariant, TerminatedOnlyOverThread, [Next]_vars
               PROVE  WindowsInvariant' /\ TerminatedOnlyOverThread'
    OBVIOUS
  <2>1. WindowsInvariant'
    BY WindowsNext, WindowsStutter
  <2>2. CASE UNCHANGED vars
    <3>1. UNCHANGED <<prog, handle, crashed>>
      BY <2>2 DEF vars
    <3> QED
      BY <2>1, <3>1 DEF TerminatedOnlyOverThread, Matched, SameOrder, BarriersCover
  <2>3. CASE Next
    <3>1. PICK p \in Procs : Step(p)
      BY <2>3 DEF Next, Step
    <3>2. PlacesInvariant /\ TypeOK /\ Frame(p) /\ ~ crashed
      BY <3>1, PlaceStep DEF WindowsInvariant, PlacesInvariant, Step, Frame
    <3>3. ASSUME crashed', Matched' PROVE LockedOverThread(prog)'
      <4>1. Matched /\ prog' = prog
        BY <3>2, <3>3 DEF Frame, Matched, SameOrder, BarriersCover
      <4>2. Regular
        BY <3>2, <4>1 DEF WindowsInvariant, PlacesInvariant, Regular, MatchedOK, WindowsOK
      <4>3. App(p)
        BY <3>1, <3>2, <3>3, QuietFields DEF Step
      <4>4. LockedOverThread(prog)
        BY <3>3, <4>2, <4>3, CrashOverThread
      <4> QED
        BY <4>1, <4>4
    <3> QED
      BY <2>1, <3>3 DEF TerminatedOnlyOverThread
  <2> QED
    BY <2>2, <2>3
<1> QED
  BY <1>1, <1>2, PTL DEF Spec
=============================================================================
