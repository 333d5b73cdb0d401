------------------------------ MODULE CollLists -----------------------------
(***************************************************************************)
(* The static analysis of collectives: for each communicator and each      *)
(* basic block, the list of collectives executed from that block to the    *)
(* end of its function, or NAVS ("not a valid set") where the paths        *)
(* disagree.  Two traversals of the control flow graph compute it for each *)
(* function, callees first:                                                *)
(*   LoopVisitor (CFGVisitors.h) with CollListLoopVisitor goes forward     *)
(*   through each loop, inner loops first, and finds the collectives of    *)
(*   one iteration and the successors of the loop as a whole;              *)
(*   CFGVisitor with CollListCFGVisitor goes backward from the exits and   *)
(*   treats each outermost loop as one node, its header.                   *)
(* Both put a block that is not ready back at the end of a queue.          *)
(***************************************************************************)
EXTENDS Cfg, TLC

CONSTANT Programs   \* programs to analyse: records of module Cfg, with order

VARIABLES
  prog,                 \* the module
  fi, li,               \* position in the call graph order, in its loops
  pc,                   \* "loops", "loop", "blocks", "done" or "undefined"
  Queue, Visited,
  HeaderToSuccessors, HeaderToIncoming, SuccessorToHeader,  \* LoopAggretationInfo
  LoopLists, Lists      \* CollListsPerComm of the two visitors

loopVars == <<HeaderToSuccessors, HeaderToIncoming, SuccessorToHeader>>
vars == <<prog, fi, li, pc, Queue, Visited, loopVars, LoopLists, Lists>>

-----------------------------------------------------------------------------
(* CollectiveList: elements, and the header of the loop they belong to.    *)
(* Two lists are equal when they print the same, which is when they are    *)
(* the same record.                                                        *)

NoHeader == 0
EmptyList == [header |-> NoHeader, list |-> <<>>]
Navs == <<"navs">>

(* CollectiveList::add: a list that stands for a loop is one element. *)
Elements(L) ==
  IF L.header # NoHeader /\ L.list # <<>>
  THEN << <<"loop", L.header, L.list>> >>
  ELSE L.list

(* Mutant: inserted at the end. *)
prependWith_End(L, M) == [L EXCEPT !.list = @ \o Elements(M)]

extendWith(L, M) == [L EXCEPT !.list = @ \o Elements(M)]
prependWith(L, M) == [L EXCEPT !.list = Elements(M) \o @]

(* CollectiveList::navs: the first element, and the first one inside it    *)
(* when it is a loop.                                                      *)
RECURSIVE NavsFirst(_)
NavsFirst(s) ==
  /\ s # <<>>
  /\ \/ Head(s) = Navs
     \/ Head(s)[1] = "loop" /\ NavsFirst(Head(s)[3])

navs(L) == NavsFirst(L.list)

(* DenseMap::operator[] and lookup. *)
Lookup(M, b) == IF b \in DOMAIN M THEN M[b] ELSE EmptyList

(* Mutant: only the first and the last neighbour are compared. *)
NeighborsAreNAVS_Ends(M, s) ==
  Len(s) > 2 /\ Lookup(M, s[1]) # Lookup(M, s[Len(s)])

NeighborsAreNAVS(M, s) ==
  \E i \in 1 .. Len(s) - 1 : Lookup(M, s[i]) # Lookup(M, s[i + 1])

(* A collective on another communicator is left out; MPI_Finalize has      *)
(* none, and is on every list.                                             *)
shouldIgnore(c, comm) ==
  comm # NoComm /\ c.comm # NoComm /\ c.comm # comm

(* CreateFromBB, without the collectives of the neighbours. *)
CreateFromBB(M, isNavs, b, comm) ==
  LET act(L, c) ==
        CASE IsColl(c) ->
               IF shouldIgnore(c, comm) THEN L
               ELSE [L EXCEPT !.list = Append(@, c.target)]
          [] OTHER -> extendWith(L, Lookup(M, c.target[2]))
  IN  IF isNavs THEN [EmptyList EXCEPT !.list = <<Navs>>]
      ELSE FoldLeft(act, EmptyList, prog.calls[b])

-----------------------------------------------------------------------------
F == prog.order[fi]
Loops == prog.loops[F]
L == Loops[li]

(* LI[b]: the innermost loop around b. *)
LoopsAround(f, b) == {i \in DOMAIN prog.loops[f] : b \in prog.loops[f][i].blocks}
LoopFor(f, b) ==
  prog.loops[f][CHOOSE i \in LoopsAround(f, b) : \A j \in LoopsAround(f, b) : i <= j]
IsHeader(f, b) == LoopsAround(f, b) # {} /\ LoopFor(f, b).header = b

(* MPICommAnalysis::run: the communicators of the collectives called. *)
CommsUsed ==
  {c \in {prog.calls[b][i].comm : <<b, i>> \in
            {<<x, k>> \in Blocks(prog) \X (1 .. 4) : k \in DOMAIN prog.calls[x]}} :
     c # NoComm}
Communicators == IF CommsUsed = {} THEN {NoComm} ELSE CommsUsed

(* Loop::getIncomingAndBackEdge succeeds: one edge into the header from    *)
(* outside and one from inside.                                            *)
Incoming(K) == Preds(prog, K.header) \ K.blocks
BackEdges(K) == Preds(prog, K.header) \cap K.blocks

(* Mutant: only loops with a single exiting block. *)
HasIncomingAndBackEdge_OneExit(K) ==
  /\ Cardinality(Incoming(K)) = 1 /\ Cardinality(BackEdges(K)) = 1
  /\ Cardinality({b \in K.blocks : ~ Succs(prog, b) \subseteq K.blocks}) = 1

HasIncomingAndBackEdge(K) ==
  Cardinality(Incoming(K)) = 1 /\ Cardinality(BackEdges(K)) = 1

TheBlock(S) == CHOOSE b \in S : TRUE

AllUnvisited == [b \in Blocks(prog) |-> "UNVISITED"]

Mark(V, s, state) == [b \in DOMAIN V |-> IF b \in ToSet(s) THEN state ELSE V[b]]

Unvisited(V, s) == SelectSeq(s, LAMBDA b : V[b] = "UNVISITED")

Without(f, x) == [y \in DOMAIN f \ {x} |-> f[y]]

Init ==
  /\ prog \in Programs
  /\ fi = 1 /\ li = 1
  /\ pc = "loops"
  /\ Queue = <<>>
  /\ Visited = AllUnvisited
  /\ HeaderToSuccessors = <<>> /\ HeaderToIncoming = <<>> /\ SuccessorToHeader = <<>>
  /\ LoopLists = [c \in Communicators |-> <<>>]
  /\ Lists = [c \in Communicators |-> <<>>]

-----------------------------------------------------------------------------
(* LoopVisitor::Visit(Loop).  A loop without exactly one incoming edge and *)
(* one back edge is registered, without successors, and left alone.        *)
StartLoop ==
  /\ pc = "loops" /\ li \in DOMAIN Loops
  /\ HeaderToSuccessors' = (L.header :> <<>>) @@ HeaderToSuccessors
  /\ IF HasIncomingAndBackEdge(L)
     THEN /\ HeaderToIncoming' = (L.header :> TheBlock(Incoming(L))) @@ HeaderToIncoming
          /\ Queue' = <<L.header>>
          /\ Visited' = [AllUnvisited EXCEPT ![L.header] = "PUSHED"]
          /\ pc' = "loop"
          /\ UNCHANGED li
     ELSE /\ li' = li + 1
          /\ UNCHANGED <<HeaderToIncoming, Queue, Visited, pc>>
  /\ UNCHANGED <<prog, fi, SuccessorToHeader, LoopLists, Lists>>

ReadyInLoop(b) ==
  \/ b \in DOMAIN HeaderToIncoming
  \/ \A p \in Preds(prog, b) : Visited[p] = "VISITED"

PostponeInLoop ==
  /\ pc = "loop" /\ Queue # <<>>
  /\ ~ ReadyInLoop(Head(Queue))
  /\ Queue' = Append(Tail(Queue), Head(Queue))
  /\ UNCHANGED <<prog, fi, li, pc, Visited, loopVars, LoopLists, Lists>>

(* CollListLoopVisitor::visitBB: the collectives since the loop header. *)
LoopList(M, b, comm) ==
  LET preds == SetToSeq(Preds(prog, b))
      isNavs == NeighborsAreNAVS(M, preds)
      Current == CreateFromBB(M, isNavs, b, comm)
  IN  IF isNavs THEN Current ELSE prependWith(Current, Lookup(M, preds[1]))

VisitInLoop ==
  LET BB == Head(Queue)
      V == [Visited EXCEPT ![BB] = "VISITED"]
      nested == BB # L.header /\ IsHeader(F, BB)
      next == Unvisited(V, IF nested THEN HeaderToSuccessors[BB] ELSE prog.succ[BB])
      inside == SelectSeq(next, LAMBDA b : b \in L.blocks)
      exits == SelectSeq(next, LAMBDA b : b \notin L.blocks
                                /\ b \notin ToSet(HeaderToSuccessors[L.header]))
      H == [HeaderToSuccessors EXCEPT ![L.header] = @ \o exits]
  IN  /\ pc = "loop" /\ Queue # <<>>
      /\ ReadyInLoop(BB)
      /\ Visited' = Mark(V, inside, "PUSHED")
      /\ Queue' = Tail(Queue) \o inside
      /\ HeaderToSuccessors' = IF nested THEN Without(H, BB) ELSE H
      /\ LoopLists' =
           [c \in Communicators |->
              CASE BB = L.header -> LoopLists[c] @@ (BB :> EmptyList)
                [] BB \in DOMAIN LoopLists[c] -> LoopLists[c]
                [] OTHER -> (BB :> LoopList(LoopLists[c], BB, c)) @@ LoopLists[c]]
      /\ UNCHANGED <<prog, fi, li, pc, HeaderToIncoming, SuccessorToHeader, Lists>>

(* CollListLoopVisitor::endOfLoop: the header gets the list of the block   *)
(* that closes the loop.                                                   *)
EndLoop ==
  /\ pc = "loop" /\ Queue = <<>>
  /\ LoopLists' =
       [c \in Communicators |->
          (L.header :> [header |-> L.header,
                        list |-> Lookup(LoopLists[c], TheBlock(BackEdges(L))).list])
            @@ LoopLists[c]]
  /\ li' = li + 1
  /\ pc' = "loops"
  /\ UNCHANGED <<prog, fi, Queue, Visited, loopVars, Lists>>

-----------------------------------------------------------------------------
(* ComputeReversedMap.  When a block follows two loops an assertion fails, *)
(* or without assertions the loop that DenseMap iterates over last stays.  *)
ReversedMaps ==
  LET after == UNION {ToSet(HeaderToSuccessors[h]) : h \in DOMAIN HeaderToSuccessors}
  IN  {m \in [after -> DOMAIN HeaderToSuccessors] :
         \A b \in after : b \in ToSet(HeaderToSuccessors[m[b]])}

(* The loops are done: CFGVisitor::Visit starts from the exits. *)
StartBlocks ==
  /\ pc = "loops" /\ li \notin DOMAIN Loops
  /\ SuccessorToHeader' \in ReversedMaps
  /\ Lists' = [c \in Communicators |-> Lists[c] @@ LoopLists[c]]
  /\ Queue' = SortSeq(SetToSeq(Exits(prog, F)), <)
  /\ Visited' = [b \in Blocks(prog) |->
                   IF b \in Exits(prog, F) THEN "PUSHED" ELSE "UNVISITED"]
  /\ pc' = "blocks"
  /\ UNCHANGED <<prog, fi, li, HeaderToSuccessors, HeaderToIncoming, LoopLists>>

IsLoopHeader(b) == b \in DOMAIN HeaderToSuccessors
Following(b) == IF IsLoopHeader(b) THEN HeaderToSuccessors[b] ELSE prog.succ[b]

AllDone(b) == \A s \in ToSet(Following(b)) : Visited[s] = "VISITED"

PostponeBlock ==
  /\ pc = "blocks" /\ Queue # <<>>
  /\ ~ AllDone(Head(Queue))
  /\ Queue' = Append(Tail(Queue), Head(Queue))
  /\ UNCHANGED <<prog, fi, li, pc, Visited, loopVars, LoopLists, Lists>>

(* CollListCFGVisitor::compute. *)
compute(M, b, comm) ==
  LET next == Following(b)
      isNavs == NeighborsAreNAVS(M, next)
      Current == IF IsLoopHeader(b) /\ ~ isNavs THEN extendWith(EmptyList, Lookup(M, b))
                 ELSE CreateFromBB(M, isNavs, b, comm)
  IN  IF isNavs \/ next = <<>> THEN Current
      ELSE extendWith(Current, Lookup(M, next[1]))

(* Mutant: the predecessors outside of the loop are forgotten. *)
Preceding_HeaderOnly(b) ==
  CASE IsLoopHeader(b) -> <<HeaderToIncoming[b]>>
    [] ~ IsLoopHeader(b) /\ b \in DOMAIN SuccessorToHeader -> <<SuccessorToHeader[b]>>
    [] OTHER -> SetToSeq(Preds(prog, b))

(* The blocks to visit after b: the block before the loop for a loop       *)
(* header, the loop header and the predecessors outside of the loop for a  *)
(* block that follows a loop, all predecessors otherwise.                  *)
Preceding(b) ==
  LET preds == SetToSeq(Preds(prog, b))
  IN  CASE IsLoopHeader(b) -> <<HeaderToIncoming[b]>>
        [] ~ IsLoopHeader(b) /\ b \in DOMAIN SuccessorToHeader ->
             LET h == SuccessorToHeader[b]
             IN  <<h>> \o SelectSeq(preds, LAMBDA p : p \notin LoopFor(F, h).blocks)
        [] OTHER -> preds

(* A header that LoopVisitor left alone has no incoming block in the map:  *)
(* the end iterator is dereferenced, and nothing is known from there on.   *)
VisitBlock ==
  LET BB == Head(Queue)
      V == [Visited EXCEPT ![BB] = "VISITED"]
  IN  /\ pc = "blocks" /\ Queue # <<>>
      /\ AllDone(BB)
      /\ Lists' = [c \in Communicators |->
                     (BB :> compute(Lists[c], BB, c)) @@ Lists[c]]
      /\ IF IsLoopHeader(BB) /\ BB \notin DOMAIN HeaderToIncoming
         THEN /\ pc' = "undefined"
              /\ UNCHANGED <<Visited, Queue>>
         ELSE /\ Visited' = Mark(V, Unvisited(V, Preceding(BB)), "PUSHED")
              /\ Queue' = Tail(Queue) \o Unvisited(V, Preceding(BB))
              /\ UNCHANGED pc
      /\ UNCHANGED <<prog, fi, li, loopVars, LoopLists>>

(* The next function of the call graph, with fresh loop information. *)
EndFunction ==
  /\ pc = "blocks" /\ Queue = <<>>
  /\ IF fi < Len(prog.order)
     THEN /\ fi' = fi + 1
          /\ li' = 1
          /\ pc' = "loops"
          /\ HeaderToSuccessors' = <<>> /\ HeaderToIncoming' = <<>>
          /\ SuccessorToHeader' = <<>>
          /\ LoopLists' = [c \in Communicators |-> <<>>]
     ELSE /\ pc' = "done"
          /\ UNCHANGED <<fi, li, loopVars, LoopLists>>
  /\ UNCHANGED <<prog, Queue, Visited, Lists>>

Finished == pc \in {"done", "undefined"} /\ UNCHANGED vars

Step ==
  \/ StartLoop \/ PostponeInLoop \/ VisitInLoop \/ EndLoop
  \/ StartBlocks \/ PostponeBlock \/ VisitBlock \/ EndFunction

Next == Step \/ Finished

Spec == Init /\ [][Next]_vars

(* The analysis is one thread that runs. *)
FairSpec == Spec /\ WF_vars(Step)

-----------------------------------------------------------------------------
BlockState == {"UNVISITED", "PUSHED", "VISITED"}

TypeOK ==
  /\ fi \in 1 .. Len(prog.order)
  /\ li \in 1 .. Len(prog.loops[F]) + 1
  /\ pc \in {"loops", "loop", "blocks", "done", "undefined"}
  /\ ToSet(Queue) \subseteq BlocksOf(prog, F)
  /\ Visited \in [Blocks(prog) -> BlockState]
  /\ DOMAIN HeaderToIncoming \subseteq {K.header : K \in ToSet(Loops)}
  /\ \A c \in Communicators : DOMAIN Lists[c] \subseteq Blocks(prog)

(* The traversals end. *)
Termination == <>(pc \in {"done", "undefined"})

(* A loop entered from two blocks, or closed by two: Visit(Loop) calls it  *)
(* dead and ignores it.                                                    *)
CalledDead(K) ==
  ~ \E p, q \in Preds(prog, K.header) :
      Preds(prog, K.header) = {p, q} /\ p \notin K.blocks /\ q \in K.blocks

(* The backward traversal, which says that a loop header "should have a    *)
(* single incoming edge", dereferences the end of the map of incoming      *)
(* blocks in a function with such a loop and in no other; and it does not  *)
(* get round the loop and leave lists of a function it did not cover.      *)
UndefinedIffCalledDead ==
  /\ pc = "undefined" => \E K \in ToSet(Loops) : CalledDead(K)
  /\ pc = "done" =>
       \A f \in ToSet(prog.order) : \A K \in ToSet(prog.loops[f]) : ~ CalledDead(K)

-----------------------------------------------------------------------------
(* The collectives on comm executed from b to the end of its function, one *)
(* sequence for each path; for functions without loops or recursion.       *)
RECURSIVE TracesOf(_, _, _)
RECURSIVE TracesThrough(_, _, _)
TracesThrough(G, calls, comm) ==
  IF calls = <<>> THEN {<<>>}
  ELSE LET c == Head(calls)
           here == CASE IsColl(c) -> {IF shouldIgnore(c, comm) THEN <<>> ELSE <<c.target>>}
                     [] OTHER -> TracesOf(G, c.target[2], comm)
       IN  {s \o t : s \in here, t \in TracesThrough(G, Tail(calls), comm)}
TracesOf(G, b, comm) ==
  LET after == IF Succs(G, b) = {} THEN {<<>>}
               ELSE UNION {TracesOf(G, s, comm) : s \in Succs(G, b)}
  IN  {s \o t : s \in TracesThrough(G, G.calls[b], comm), t \in after}

Loopless == \A f \in ToSet(prog.order) : prog.loops[f] = <<>>

(* Every block ends up with a list for each communicator, so that          *)
(* checkWarnings finds one whatever block it asks about; and without loops *)
(* the list is exact: it has NAVS in it when two paths from the block      *)
(* execute different collectives on the communicator, and is what every    *)
(* path executes when none do.                                             *)
ListsExact ==
  pc = "done" => \A c \in Communicators, f \in ToSet(prog.order) :
    \A b \in Reach(prog, prog.entry[f]) :
      /\ b \in DOMAIN Lists[c]
      /\ Loopless =>
           LET T == TracesOf(prog, b, c)
           IN  IF Navs \in ToSet(Lists[c][b].list) THEN Cardinality(T) > 1
               ELSE T = {Lists[c][b].list}

(* The blocks after the loop that starts at h. *)
AfterLoop(f, h) ==
  UNION {Succs(prog, b) : b \in LoopFor(f, h).blocks} \ LoopFor(f, h).blocks

(* The collectives of one iteration of loop K from b on, a loop inside     *)
(* being one step.                                                         *)
RECURSIVE IterationFrom(_, _, _, _)
IterationFrom(f, K, b, comm) ==
  LET inner == b # K.header /\ IsHeader(f, b)
      here == IF inner THEN {Elements(Lists[comm][b])}
              ELSE TracesThrough(prog, prog.calls[b], comm)
      next == (IF inner THEN AfterLoop(f, b) ELSE Succs(prog, b)) \cap K.blocks
      after == (IF K.header \in next THEN {<<>>} ELSE {})
                 \cup UNION {IterationFrom(f, K, s, comm) : s \in next \ {K.header}}
  IN  {s \o t : s \in here, t \in after}

OutermostLoops(f) ==
  {K \in ToSet(prog.loops[f]) :
     \A M \in ToSet(prog.loops[f]) : K.blocks \subseteq M.blocks => K = M}

(* What the list of an outermost loop header says of one iteration. *)
LoopElement(K, comm) ==
  LET s == Lists[comm][K.header].list
  IN  IF s # <<>> /\ s[1][1] = "loop" /\ s[1][2] = K.header THEN s[1][3] ELSE <<>>

(* A loop is on the list of its header with the collectives of an          *)
(* iteration, or with NAVS in it when iterations can differ, unless the    *)
(* header is itself NAVS because the ways out of the loop differ.          *)
LoopListsExact ==
  pc = "done" => \A c \in Communicators : \A f \in ToSet(prog.order) :
    \A K \in OutermostLoops(f) :
      \/ Lists[c][K.header].list = <<Navs>>
      \/ LET T == IterationFrom(f, K, K.header, c)
             E == LoopElement(K, c)
         IN  IF Navs \in ToSet(E) THEN Cardinality(T) > 1 ELSE T = {E}
=============================================================================
