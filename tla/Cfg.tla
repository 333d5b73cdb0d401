--------------------------------- MODULE Cfg --------------------------------
(***************************************************************************)
(* Control flow graphs as the collective analyses see them, and the        *)
(* post-dominance computations of src/aSSA/Utils.cpp.  The program is one  *)
(* record:                                                                 *)
(*   succ   for each basic block (a number) its successors, without        *)
(*          repetition, in the order of the terminator                     *)
(*   calls  for each block the functions its call instructions may call,   *)
(*          in order: a collective or a defined function, with the         *)
(*          communicator argument and whether the call is direct           *)
(*   fn     the function each block belongs to                             *)
(*   entry  the entry block of each function                               *)
(*   loops  for each function, the natural loops LLVM finds in it (header, *)
(*          blocks), inner loops before the loops around them              *)
(* Blocks, loops, dominator trees and call graph are LLVM's: external.     *)
(***************************************************************************)
EXTENDS Integers, FiniteSets, Sequences, SequencesExt

Blocks(G) == DOMAIN G.succ

BlocksOf(G, f) == {b \in Blocks(G) : G.fn[b] = f}

Succs(G, b) == ToSet(G.succ[b])

Preds(G, b) == {p \in Blocks(G) : b \in Succs(G, p)}

Exits(G, f) == {b \in BlocksOf(G, f) : Succs(G, b) = {}}

NoComm == "none"

Coll(kind, comm) == [target |-> <<"coll", kind>>, comm |-> comm, direct |-> TRUE]
CallTo(b) == [target |-> <<"fn", b>>, comm |-> NoComm, direct |-> TRUE]

IsColl(c) == c.target[1] = "coll"

(* Blocks that can be reached from b without passing through a block of B. *)
RECURSIVE ReachFrom(_, _, _)
ReachFrom(G, S, B) ==
  LET T == S \cup UNION {Succs(G, b) : b \in S \ B}
  IN  IF T = S THEN S ELSE ReachFrom(G, T, B)

Reach(G, b) == ReachFrom(G, {b}, {})

-----------------------------------------------------------------------------
(* The post-dominator tree: d post-dominates b when every path from b to   *)
(* the end of the function goes through d.                                 *)
PostDominates(G, d, b) ==
  Exits(G, G.fn[b]) \cap (ReachFrom(G, {b}, {d}) \ {d}) = {}

StrictPostDoms(G, b) ==
  {d \in BlocksOf(G, G.fn[b]) \ {b} : PostDominates(G, d, b)}

(* getIDom() in the tree; 0 is its virtual root. *)
IPDom(G, b) ==
  LET S == StrictPostDoms(G, b)
  IN  IF S = {} THEN 0
      ELSE CHOOSE d \in S : \A e \in S : e = d \/ PostDominates(G, e, d)

(* Mutant: the frontiers of the children are taken over unfiltered. *)
RECURSIVE postdominanceFrontier_NoFilter(_, _)
postdominanceFrontier_NoFilter(G, b) ==
  {p \in Preds(G, b) : IPDom(G, p) # b /\ p # b}
    \cup UNION {postdominanceFrontier_NoFilter(G, c) :
                  c \in {d \in Blocks(G) : IPDom(G, d) = b}}

(* postdominanceFrontier: the predecessors b does not immediately          *)
(* post-dominate, and what the children of b in the tree hand up.  b is    *)
(* never in its own frontier.                                              *)
RECURSIVE postdominanceFrontier(_, _)
postdominanceFrontier(G, b) ==
  LET kids == {c \in Blocks(G) : IPDom(G, c) = b}
  IN  {p \in Preds(G, b) : IPDom(G, p) # b /\ p # b}
        \cup {w \in UNION {postdominanceFrontier(G, c) : c \in kids} :
                IPDom(G, w) # b /\ w # b}

(* iterated_postdominance_frontier: closed under the frontiers of its      *)
(* members.                                                                *)
RECURSIVE CloseFrontier(_, _)
CloseFrontier(G, S) ==
  LET T == S \cup UNION {postdominanceFrontier(G, b) : b \in S}
  IN  IF T = S THEN S ELSE CloseFrontier(G, T)

iterated_postdominance_frontier(G, b) == CloseFrontier(G, postdominanceFrontier(G, b))

(* DepGraphDCF::getCallInterIPDF: the frontiers of the call site, of the   *)
(* call sites of its function, of theirs, ...                              *)
CallSites(G, f) ==
  {b \in Blocks(G) : \E i \in DOMAIN G.calls[b] :
                       G.calls[b][i].target = <<"fn", G.entry[f]>>}

RECURSIVE CloseCallers(_, _)
CloseCallers(G, S) ==
  LET T == S \cup UNION {CallSites(G, G.fn[b]) : b \in S}
  IN  IF T = S THEN S ELSE CloseCallers(G, T)

getCallInterIPDF(G, b) ==
  UNION {iterated_postdominance_frontier(G, s) : s \in CloseCallers(G, {b})}

(* The definition the recursion is to compute: b decides nothing about     *)
(* itself, and w is in the frontier when one way out of w surely reaches b *)
(* and another may avoid it.                                               *)
FrontierDefinition(G, b) ==
  {w \in BlocksOf(G, G.fn[b]) \ {b} :
     /\ \E s \in Succs(G, w) : PostDominates(G, b, s)
     /\ ~ PostDominates(G, b, w)}
=============================================================================
