----------------------------- MODULE RmaPasses ------------------------------
(***************************************************************************)
(* The compile-time passes of the RMA analysis on one function             *)
(* (src/rma): LocalConcurrencyAnalysis looks for accesses of the process   *)
(* itself that conflict with a communication in progress, then             *)
(* RMAInstrumentation replaces the RMA calls and inserts calls for the     *)
(* loads and stores of an epoch.  The function is one record:              *)
(*   succ   for each basic block (a number) its successors, without        *)
(*          repetition, in the order of the terminator                     *)
(*   code   for each block its memory accesses and RMA calls: [op, mem]    *)
(*   alias  pairs of pointers that may alias                               *)
(*   loops  its loops, inner loops first                                   *)
(* The alias analysis and the loops are LLVM's: external.                  *)
(***************************************************************************)
EXTENDS Cfg, Reachability, TLC

CONSTANT Programs   \* functions to analyse

VARIABLES
  prog,                 \* the function
  pc,                   \* "loops", "loop", "blocks", "start", "instrument" or "done"
  li,                   \* loops done
  Unvisited, ColorMap,
  LheaderMap, LlatchMap,   \* the blocks they map to true
  BBToMemAccess,        \* for each block, the access kept for each pointer
  Results,              \* conflicts, as pairs of instructions
  InEpoch,
  Inserted              \* how often a block was instrumented, and with what

vars == <<prog, pc, li, Unvisited, ColorMap, LheaderMap, LlatchMap,
          BBToMemAccess, Results, InEpoch, Inserted>>

Entry == 1

(* An instruction is a block and a position in it. *)
Insts == UNION {{<<b, i>> : i \in DOMAIN prog.code[b]} : b \in Blocks(prog)}
At(i) == prog.code[i[1]][i[2]]

(* InstrumentedFunctions.def: the calls that are replaced (those that make *)
(* and free windows are like "barrier").                                   *)
ChangesEpoch == {"fence", "lock_all", "unlock_all", "lock", "unlock"}
Calls == {"get", "put", "acc", "barrier", "flush"} \cup ChangesEpoch

IsRMA(i) == At(i).op \in {"get", "put"}
IsAccess(i) == At(i).op \in {"get", "put", "load", "store"}

(* getInstructionType: what a call does to the memory of the process. *)
IsWrite(i) == At(i).op \in {"get", "store"}

(* The calls that end all local accesses, as analyzeBB knows them. *)
Synchronizes(i) == At(i).op \in {"flush", "flush_all", "fence", "unlock_all"}

mayAlias(m, n) == m = n \/ <<m, n>> \in prog.alias \/ <<n, m>> \in prog.alias

-----------------------------------------------------------------------------
(* LLVM's natural loops of a graph, inner loops first; latch is 0 when     *)
(* there is not exactly one.                                               *)
Dominates(G, d, b) == d = b \/ b \notin ReachFrom(G, {Entry}, {d}) \ {d}

LoopOf(G, h) ==
  LET latches == {x \in Preds(G, h) \cap Reach(G, Entry) : Dominates(G, h, x)}
      reaches(b) == (latches \ {h}) \cap ReachFrom(G, {b}, {h}) # {}
  IN  [header |-> h,
       blocks |-> {h} \cup {b \in Reach(G, Entry) : reaches(b)},
       latch  |-> IF Cardinality(latches) = 1 THEN CHOOSE x \in latches : TRUE ELSE 0]

Loops(G) ==
  LET headers == {h \in Reach(G, Entry) :
                    \E x \in Preds(G, h) \cap Reach(G, Entry) : Dominates(G, h, x)}
  IN  SetToSortSeq({LoopOf(G, h) : h \in headers},
                   LAMBDA k, l : Cardinality(k.blocks) < Cardinality(l.blocks))

(* No jump leads into a loop: what is left without the edges back to       *)
(* headers has no cycle.                                                   *)
Reducible(G) ==
  LET forward == {<<x, y>> \in Blocks(G) \X Blocks(G) :
                    y \in Succs(G, x) /\ ~ Dominates(G, y, x)}
  IN  \A x \in Blocks(G) : x \notin ReachedFrom(forward, Successors(forward, {x}))

Inner(ls) ==
  {l \in ToSet(ls) : \E k \in ToSet(ls) : l.header # k.header /\ l.header \in k.blocks}

-----------------------------------------------------------------------------
Empty == [m \in {} |-> <<0, 0>>]

(* Mutant: a synchronisation does not end the accesses before it. *)
Analyze_NoClear(A, i) ==
  LET m == At(i).mem
      against == {n \in DOMAIN A.mem : IF m \in DOMAIN A.mem THEN n = m ELSE mayAlias(n, m)}
      found == {<<i, A.mem[n]>> : n \in {k \in against : IsWrite(A.mem[k]) \/ IsWrite(i)}}
  IN  IF IsAccess(i)
      THEN [mem |-> IF IsRMA(i) /\ (m \notin DOMAIN A.mem \/ found = {})
                    THEN (m :> i) @@ A.mem ELSE A.mem,
            found |-> A.found \cup found]
      ELSE A

(* The turn of analyzeBB for the instruction i, after the accesses kept    *)
(* before it in A.mem.  Of two reads of the same pointer the later one is  *)
(* kept, when it is a communication.                                       *)
Analyze(A, i) ==
  LET m == At(i).mem
      against == {n \in DOMAIN A.mem : IF m \in DOMAIN A.mem THEN n = m ELSE mayAlias(n, m)}
      found == {<<i, A.mem[n]>> : n \in {k \in against : IsWrite(A.mem[k]) \/ IsWrite(i)}}
  IN  CASE Synchronizes(i) -> [A EXCEPT !.mem = Empty]
        [] IsAccess(i) ->
             [mem |-> IF IsRMA(i) /\ (m \notin DOMAIN A.mem \/ found = {})
                      THEN (m :> i) @@ A.mem ELSE A.mem,
              found |-> A.found \cup found]
        [] OTHER -> A

analyzeBB(b) ==
  FoldLeft(LAMBDA A, k : Analyze(A, <<b, k>>), [mem |-> BBToMemAccess[b], found |-> Results],
           [k \in DOMAIN prog.code[b] |-> k])

(* Mutant: a predecessor that is in the queue is not waited for. *)
mustWait_White(b) == b \notin LheaderMap /\ \E p \in Preds(prog, b) : ColorMap[p] = "white"

(* Blocks wait for their predecessors, loop headers do not. *)
mustWait(b) == b \notin LheaderMap /\ \E p \in Preds(prog, b) : ColorMap[p] # "black"

(* Mutant: the latches of inner loops are waited for as well. *)
mustWaitLoop_Latches(b, L) ==
  b # L.header /\ \E p \in Preds(prog, b) \cap L.blocks : ColorMap[p] # "black"

mustWaitLoop(b, L) ==
  /\ b # L.header
  /\ \E p \in Preds(prog, b) \cap L.blocks :
       p # b /\ p \notin LlatchMap /\ ColorMap[p] # "black"

(* Analyse b and hand what is kept at its end on to its successors in B,   *)
(* apart from those along a back edge of a loop that is done.  What a      *)
(* successor already keeps for a pointer stays.                            *)
Visit(b, B) ==
  LET A == analyzeBB(b)
      next == {s \in Succs(prog, b) \cap B : ~ (b \in LlatchMap /\ s \in LheaderMap)}
      fresh == {s \in next : ColorMap[s] = "white"} \ {b}
  IN  /\ Results' = A.found
      /\ BBToMemAccess' = [c \in Blocks(prog) |->
           LET own == IF c = b THEN A.mem ELSE BBToMemAccess[c]
           IN  IF c \in next THEN own @@ A.mem ELSE own]
      /\ ColorMap' = [c \in Blocks(prog) |->
           IF c = b THEN "black" ELSE IF c \in fresh THEN "grey" ELSE ColorMap[c]]
      /\ Unvisited' = Tail(Unvisited) \o SelectSeq(prog.succ[b], LAMBDA s : s \in fresh)

(* One turn of the loop over Unvisited in bfsLoop and in analyze. *)
Turn(waits, B) ==
  LET b == Head(Unvisited) IN
  /\ Unvisited # <<>>
  /\ \/ /\ ColorMap[b] = "black" \/ waits
        /\ Unvisited' = IF ColorMap[b] = "black" THEN Tail(Unvisited)
                        ELSE Append(Tail(Unvisited), b)
        /\ UNCHANGED <<ColorMap, BBToMemAccess, Results>>
     \/ /\ ColorMap[b] # "black" /\ ~ waits
        /\ Visit(b, B)
  /\ UNCHANGED <<prog, pc, li, LheaderMap, LlatchMap, InEpoch, Inserted>>

L == prog.loops[li + 1]

Init ==
  /\ prog \in Programs
  /\ li = 0
  /\ Unvisited = <<>>
  /\ ColorMap = [b \in Blocks(prog) |-> "white"]
  /\ LheaderMap = {} /\ LlatchMap = {}
  /\ BBToMemAccess = [b \in Blocks(prog) |-> Empty]
  /\ Results = {}
  /\ InEpoch = FALSE
  /\ Inserted = [b \in Blocks(prog) |-> [times |-> 0, accesses |-> {}]]
  (* Without one-sided calls there is nothing to analyse: getTotalOneSided *)
  /\ pc = IF \E i \in Insts : At(i).op \in {"get", "put", "acc"} THEN "loops" ELSE "start"

StartLoop ==
  /\ pc = "loops" /\ li < Len(prog.loops)
  /\ Unvisited' = <<L.header>>
  /\ LheaderMap' = LheaderMap \cup {L.header}
  /\ pc' = "loop"
  /\ UNCHANGED <<prog, li, ColorMap, LlatchMap, BBToMemAccess, Results, InEpoch, Inserted>>

LoopTurn ==
  /\ pc = "loop" /\ Unvisited # <<>>
  /\ Turn(mustWaitLoop(Head(Unvisited), L), L.blocks)

(* The colours of the loop are reset, its accesses are kept. *)
EndLoop ==
  /\ pc = "loop" /\ Unvisited = <<>>
  /\ ColorMap' = [b \in Blocks(prog) |-> IF b \in L.blocks THEN "white" ELSE ColorMap[b]]
  /\ LlatchMap' = LlatchMap \cup {L.latch}
  /\ li' = li + 1
  /\ pc' = "loops"
  /\ UNCHANGED <<prog, Unvisited, LheaderMap, BBToMemAccess, Results, InEpoch, Inserted>>

StartBlocks ==
  /\ pc = "loops" /\ li = Len(prog.loops)
  /\ Unvisited' = <<Entry>>
  /\ pc' = "blocks"
  /\ UNCHANGED <<prog, li, ColorMap, LheaderMap, LlatchMap, BBToMemAccess, Results,
                 InEpoch, Inserted>>

BlockTurn ==
  /\ pc = "blocks" /\ Unvisited # <<>>
  /\ Turn(mustWait(Head(Unvisited)), Blocks(prog))

EndBlocks ==
  /\ pc = "blocks" /\ Unvisited = <<>>
  /\ pc' = "start"
  /\ UNCHANGED <<prog, li, Unvisited, ColorMap, LheaderMap, LlatchMap, BBToMemAccess,
                 Results, InEpoch, Inserted>>

-----------------------------------------------------------------------------
(* instrumentBb: what it inserts for the block b, and where it leaves the  *)
(* flag of the caller.  NewEpoch is that of the last RMA call before each  *)
(* instruction.                                                            *)
NewEpoch(b, k) ==
  LET calls == {i \in 1 .. k : prog.code[b][i].op \in Calls}
  IN  /\ calls # {}
      /\ prog.code[b][CHOOSE i \in calls : \A j \in calls : j <= i].op
           \in ChangesEpoch

InsertedIn(b, inEpoch) ==
  {k \in DOMAIN prog.code[b] :
     prog.code[b][k].op \in {"load", "store"} /\ (inEpoch \/ NewEpoch(b, k))}

EpochAfter(b, inEpoch) == IF NewEpoch(b, Len(prog.code[b])) THEN ~ inEpoch ELSE inEpoch

(* Instrument the blocks of the sequence s, in order. *)
instrumentBbs(s) ==
  LET I == FoldLeft(
             LAMBDA A, b : [flag |-> EpochAfter(b, A.flag),
                            ins |-> [A.ins EXCEPT ![b] =
                              [times |-> @.times + 1,
                               accesses |-> @.accesses \cup InsertedIn(b, A.flag)]]],
             [flag |-> InEpoch, ins |-> Inserted], s)
  IN  InEpoch' = I.flag /\ Inserted' = I.ins

(* instrumentMemAccessesIt *)
StartInstrument ==
  /\ pc = "start"
  /\ Unvisited' = <<Entry>>
  /\ instrumentBbs(<<Entry>>)
  /\ ColorMap' = [b \in Blocks(prog) |-> IF b = Entry THEN "grey" ELSE "white"]
  /\ pc' = "instrument"
  /\ UNCHANGED <<prog, li, LheaderMap, LlatchMap, BBToMemAccess, Results>>

Colored(b, S) == [c \in Blocks(prog) |-> IF c \in S THEN "grey" ELSE ColorMap[c]]

InstrumentTurn ==
  LET b == Head(Unvisited)
      white == SelectSeq(prog.succ[b], LAMBDA s : ColorMap[s] = "white")
  IN  /\ pc = "instrument" /\ Unvisited # <<>>
      /\ \/ /\ white # <<>>
            /\ Unvisited' = Reverse(white) \o Unvisited
            /\ instrumentBbs(white)
            /\ ColorMap' = Colored(b, ToSet(white))
         \/ /\ white = <<>>
            /\ Unvisited' = Tail(Unvisited)
            /\ ColorMap' = [ColorMap EXCEPT ![b] = "black"]
            /\ UNCHANGED <<InEpoch, Inserted>>
      /\ UNCHANGED <<prog, pc, li, LheaderMap, LlatchMap, BBToMemAccess, Results>>

EndInstrument ==
  /\ pc = "instrument" /\ Unvisited = <<>>
  /\ pc' = "done"
  /\ UNCHANGED <<prog, li, Unvisited, ColorMap, LheaderMap, LlatchMap, BBToMemAccess,
                 Results, InEpoch, Inserted>>

Done == pc = "done" /\ UNCHANGED vars

Next ==
  \/ StartLoop \/ LoopTurn \/ EndLoop \/ StartBlocks \/ BlockTurn \/ EndBlocks
  \/ StartInstrument \/ InstrumentTurn \/ EndInstrument \/ Done

Spec == Init /\ [][Next]_vars

(* The compiler is one thread that runs. *)
FairSpec == Spec /\ WF_vars(Next)
-----------------------------------------------------------------------------
(* What can be executed after an instruction, with no synchronisation in   *)
(* between: positions in the blocks, the one after the last instruction    *)
(* leading to the successors.                                              *)
Flow ==
  LET blocks == {b \in Blocks(prog) : b \in Reach(prog, Entry)}
  IN  {<<i, <<i[1], i[2] + 1>>>> : i \in {j \in Insts : ~ Synchronizes(j)}}
        \cup UNION {{<<<<b, Len(prog.code[b]) + 1>>, <<s, 1>>>> : s \in Succs(prog, b)} : b \in blocks}

After(i) == ReachedFrom(Flow, {<<i[1], i[2] + 1>>}) \cap Insts

(* j is an access to what the communication i is still working on. *)
Races ==
  {<<j, i>> \in Insts \X Insts :
     /\ i[1] \in Reach(prog, Entry) /\ IsRMA(i) /\ IsAccess(j)
     /\ mayAlias(At(i).mem, At(j).mem)
     /\ IsWrite(i) \/ IsWrite(j)
     /\ j \in After(i)}

TypeOK ==
  /\ pc \in {"loops", "loop", "blocks", "start", "instrument", "done"}
  /\ li \in 0 .. Len(prog.loops)
  /\ Unvisited \in Seq(Blocks(prog))
  /\ ColorMap \in [Blocks(prog) -> {"white", "grey", "black"}]
  /\ LheaderMap \subseteq Blocks(prog) /\ LlatchMap \subseteq Blocks(prog) \cup {0}
  /\ \A b \in Blocks(prog) : \A m \in DOMAIN BBToMemAccess[b] :
       IsRMA(BBToMemAccess[b][m]) /\ At(BBToMemAccess[b][m]).mem = m
  /\ Results \subseteq Insts \X Insts
  /\ InEpoch \in BOOLEAN

Analyzed == pc \in {"start", "instrument", "done"}

(* Communications on the same memory are of one kind. *)
OneKind ==
  \A i, j \in Insts :
    IsRMA(i) /\ IsRMA(j) /\ mayAlias(At(i).mem, At(j).mem) => At(i).op = At(j).op

(* Inner loops leave from their headers. *)
NoExitAtInnerLatch ==
  \A l \in Inner(prog.loops) : l.latch # 0 => Succs(prog, l.latch) = {l.header}

(* Loops are entered from one block, which is not the latch of another. *)
OneWayIn ==
  \A l \in ToSet(prog.loops) :
    \E p \in Blocks(prog) : /\ Preds(prog, l.header) \ l.blocks = {p}
                            /\ \A k \in ToSet(prog.loops) : k.latch # p

(* LocalConcurrencyAnalysis misses no access that conflicts with a         *)
(* communication in progress, around loops included, as long as the        *)
(* communications on one memory are all MPI_Get or all MPI_Put, loops are  *)
(* entered from one block outside of loops' ends and inner loops are left  *)
(* from their headers.                                                     *)
RacesReported ==
  Analyzed /\ OneKind /\ OneWayIn /\ NoExitAtInnerLatch =>
    \A r \in Races : \E s \in Results : s[1] = r[1]

(* Without loops, what LocalConcurrencyAnalysis reports are conflicts.     *)
ReportsReal == prog.loops = <<>> => Results \subseteq Races

(* Every block that is reached is instrumented once: no RMA call is left,  *)
(* none is replaced twice.                                                 *)
InstrumentedOnce == \A b \in Reach(prog, Entry) : Inserted[b].times = 1

(* Both passes end, although the analysis puts blocks that have to wait    *)
(* back in its queue, and every block has been instrumented once (bfsLoop, *)
(* analyze, instrumentMemAccessesIt).                                      *)
Termination == <>(pc = "done" /\ InstrumentedOnce)

(* The loads and stores in an epoch, on some path. *)
InAnEpoch ==
  LET step == {<<i, <<i[1], i[2] + 1>>>> : i \in Insts}
        \cup UNION {{<<<<b, Len(prog.code[b]) + 1>>, <<s, 1>>>> : s \in Succs(prog, b)} : b \in Blocks(prog)}
      ends == {i \in Insts : At(i).op \in {"unlock_all", "unlock"}}
      starts == {i \in Insts : At(i).op \in {"lock_all", "lock", "fence"}}
  IN  ReachedFrom({e \in step : e[1] \notin ends}, {<<i[1], i[2] + 1>> : i \in starts})

(* "DFS is used to instrument only in epochs". *)
OnlyInEpochs ==
  pc = "done" => \A b \in Blocks(prog) : \A k \in Inserted[b].accesses : <<b, k>> \in InAnEpoch

=============================================================================
