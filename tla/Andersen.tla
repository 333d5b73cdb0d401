------------------------------ MODULE Andersen ------------------------------
(***************************************************************************)
(* The constraint solver of the pointer analysis (aSSA/andersen/           *)
(* ConstraintSolving.cpp).  Nodes that are known to have the same points-  *)
(* to set are merged: rep gives the node that stands for a node (the path  *)
(* of merge targets, followed to its end).  The graph has an edge for each *)
(* constraint; a load or a store adds copy edges as the points-to set of   *)
(* its pointer grows.  Nodes to look at again are in two work lists, in    *)
(* the order of their indices, which is the order in which the program     *)
(* mentions them: here a work list is a set and any node may come first.   *)
(***************************************************************************)
EXTENDS AndersenCollect, Reachability

CONSTANTS Programs,   \* programs to analyse, see AndersenCollect
          Options     \* values of enable-hcd and enable-lcd: [hcd, lcd]

VARIABLES
  prog, opt,         \* the program, and the options
  pc,                \* "collect", "iteration", "work", "done" or "undefined"
  g,                 \* rep, pts, copy, load, store: a record of functions of the nodes
  collapseMap,       \* OfflineCycleDetector: what to merge the targets of a node with
  curr, next,        \* currWorkList and nextWorkList
  cycleCandidates, checkedEdges,
  least              \* history: the least solution

vars == <<prog, opt, pc, g, collapseMap, curr, next, cycleCandidates, checkedEdges, least>>

Nodes(P) == 0 .. P.nodes - 1
Node == Nodes(prog)

(* Nodes, and the values that are not pointers. *)
Values(P) == Nodes(P) \cup {NoNode}

(* The nodes collectConstraintsForGlobals gives to globals and functions:  *)
(* an object with each address, and none for what a declaration takes and  *)
(* returns.                                                                *)
GlobalsOK(P) ==
  /\ \A x \in P.globals :
       /\ {x.val, x.obj} \cup x.init \subseteq Nodes(P)
       /\ x.kind \in {"extern", "zero", "init"} /\ (x.kind # "init" => x.init = {})
  /\ \A f \in DOMAIN P.fun :
       LET F == P.fun[f] IN
       /\ {F.val, F.obj, F.ret, F.va} \subseteq Values(P) /\ F.params \in Seq(Values(P))
       /\ F.val = NoNode <=> F.obj = NoNode
       /\ F.isDecl => F.ret = NoNode /\ \A k \in DOMAIN F.params : F.params[k] = NoNode
       /\ F.isDecl \/ ~ F.isVarArg => F.va = NoNode

(* The operands of an instruction; those the collection of constraints     *)
(* asserts to be pointers are nodes.                                       *)
InstructionOK(P, i) ==
  /\ i.op \in {"alloca", "load", "store", "copy", "ret", "va_arg", "call", "icall"}
  /\ i.op = "alloca" => {i.val, i.obj} \subseteq Nodes(P)
  /\ i.op = "load" => {i.val, i.ptr} \subseteq Values(P)
  /\ i.op = "store" => {i.src, i.ptr} \subseteq Values(P)
  /\ i.op = "copy" => {i.val} \cup i.srcs \subseteq Values(P)
  /\ i.op = "ret" => i.src \in Values(P) /\ i.fn \in DOMAIN P.fun
  /\ i.op = "va_arg" => i.val \in Values(P) /\ i.fn \in DOMAIN P.fun
  /\ i.op = "icall" => {i.val, i.ptr} \subseteq Values(P) /\ i.args \in Seq(Values(P))
  /\ i.op = "call" =>
       /\ i.val \in Values(P) /\ i.args \in Seq(Values(P)) /\ i.callee \in DOMAIN P.fun
       /\ P.fun[i.callee].lib = "malloc" /\ i.val # NoNode => i.obj \in Nodes(P)
       /\ P.fun[i.callee].lib = "memcpy" => i.tmp \in Nodes(P) /\ Len(i.args) >= 2

(* The constraints are about nodes of the program. *)
ASSUME ProgramsAssumption ==
  \A P \in Programs :
    /\ P.nodes \in Nat
    /\ collectConstraints(P) \subseteq
         [type : {"addr_of", "copy", "load", "store"}, dest : Nodes(P), src : Nodes(P)]
    /\ GlobalsOK(P) /\ \A i \in P.insts : InstructionOK(P, i)

Everywhere(P, S) == [n \in Nodes(P) |-> S]

(* The graph of a program whose constraints are not collected yet. *)
EmptyGraph(P) ==
  [rep |-> [n \in Nodes(P) |-> n], pts |-> Everywhere(P, {}),
   copy |-> Everywhere(P, {}), load |-> Everywhere(P, {}), store |-> Everywhere(P, {})]

TypeOK ==
  /\ opt \in Options
  /\ pc \in {"collect", "iteration", "work", "done", "undefined"}
  /\ g \in [rep : [Node -> Node], pts : [Node -> SUBSET Node], copy : [Node -> SUBSET Node],
            load : [Node -> SUBSET Node], store : [Node -> SUBSET Node]]
  /\ \A n \in Node : g.rep[g.rep[n]] = g.rep[n]
  /\ curr \subseteq Node /\ next \subseteq Node
  /\ cycleCandidates \subseteq Node
  /\ checkedEdges \subseteq Node \X Node

-----------------------------------------------------------------------------
(* The solution, by chaotic iteration. *)

Flows(P, cs, S) ==
  [n \in Nodes(P) |-> S[n] \cup
     UNION {CASE c.type = "addr_of" -> IF c.dest = n THEN {c.src} ELSE {}
              [] c.type = "copy"    -> IF c.dest = n THEN S[c.src] ELSE {}
              [] c.type = "load"    -> IF c.dest = n THEN UNION {S[v] : v \in S[c.src]} ELSE {}
              [] c.type = "store"   -> IF n \in S[c.dest] THEN S[c.src] ELSE {} : c \in cs}]

LeastSolution(P, cs) ==
  LET closure[S \in [Nodes(P) -> SUBSET Nodes(P)]] ==
        LET T == Flows(P, cs, S) IN IF S = T THEN S ELSE closure[T]
  IN  closure[Everywhere(P, {})]

-----------------------------------------------------------------------------
(* Setting up. *)

(* collapseNodes, for every node n with into[n] # n: into[n] takes over    *)
(* its points-to set and its edges, and stands for it from now on.         *)
collapseNodes(h, into) ==
  LET moved(f) == [n \in DOMAIN f |-> UNION {f[m] : m \in {x \in DOMAIN f : into[x] = n}}]
  IN  [rep |-> [n \in DOMAIN h.rep |-> into[h.rep[n]]],
       pts |-> moved(h.pts), copy |-> moved(h.copy),
       load |-> moved(h.load), store |-> moved(h.store)]

(* The offline graph of hybrid cycle detection, where the node of *n is    *)
(* n + nodes.                                                              *)
RefNode(P, n) == n + P.nodes

buildOfflineConstraintGraph(P, cs) ==
  {CASE c.type = "load"  -> <<RefNode(P, c.src), c.dest>>
     [] c.type = "store" -> <<c.src, RefNode(P, c.dest)>>
     [] c.type = "copy"  -> <<c.src, c.dest>> : c \in {x \in cs : x.type # "addr_of"}}

OfflineCycles(P, cs) ==
  LET E == buildOfflineConstraintGraph(P, cs)
  IN  Cycles(E, {e[1] : e \in E})

First(c) == CHOOSE n \in c : \A m \in c : n <= m

(* OfflineCycleDetector::run: the variables of a cycle are merged with its *)
(* first node; what a pointer points to will be, when *pointer is on it.   *)
mergeOffline(P, cycles) ==
  [n \in Nodes(P) |->
     IF \E c \in cycles : n \in c THEN First(CHOOSE c \in cycles : n \in c) ELSE n]

collapseTargets(P, cycles) ==
  LET refs == {n \in Nodes(P) : \E c \in cycles : RefNode(P, n) \in c}
  IN  [n \in refs |-> First(CHOOSE c \in cycles : RefNode(P, n) \in c)]

(* buildConstraintGraph: the edges link the nodes that stand for others; a *)
(* points-to set holds the objects themselves.                             *)
buildConstraintGraph(P, cs, rep) ==
  LET sources(type, n) == {rep[c.src] : c \in {x \in cs : x.type = type /\ rep[x.dest] = n}}
      targets(type, n) == {rep[c.dest] : c \in {x \in cs : x.type = type /\ rep[x.src] = n}}
  IN  [rep |-> rep,
       pts |-> [n \in Nodes(P) |->
                  {c.src : c \in {x \in cs : x.type = "addr_of" /\ rep[x.dest] = n}}],
       copy |-> [n \in Nodes(P) |-> targets("copy", n)],
       load |-> [n \in Nodes(P) |-> targets("load", n)],
       store |-> [n \in Nodes(P) |-> sources("store", n)]]

HasEdges(h, n) == h.copy[n] \cup h.load[n] \cup h.store[n] # {}

Init ==
  /\ prog \in Programs
  /\ opt \in Options
  /\ pc = "collect"
  /\ g = EmptyGraph(prog)
  /\ collapseMap = <<>>
  /\ curr = {} /\ next = {}
  /\ cycleCandidates = {} /\ checkedEdges = {}
  /\ least = LeastSolution(prog, collectConstraints(prog))

(* solveConstraints, before its loop.  A node of the offline graph counts  *)
(* as a *n when its index is above the number of nodes: the one of the     *)
(* universal pointer, which is that number, is merged as a variable that   *)
(* does not exist.                                                         *)
SetUp ==
  /\ pc = "collect"
  /\ \E cs \in {collectConstraints(prog)} :
     \E cycles \in {IF opt.hcd THEN OfflineCycles(prog, cs) ELSE {}} :
     \E h \in {buildConstraintGraph(prog, cs, mergeOffline(prog, cycles))} :
       /\ g' = h
       /\ collapseMap' = collapseTargets(prog, cycles)
       /\ curr' = {n \in Node : h.pts[n] # {} /\ h.rep[n] = n /\ HasEdges(h, n)}
       /\ pc' = IF \E c \in cycles : RefNode(prog, UniversalPtr) \in c THEN "undefined"
                ELSE IF curr' = {} THEN "done" ELSE "iteration"
  /\ UNCHANGED <<prog, opt, next, cycleCandidates, checkedEdges, least>>

-----------------------------------------------------------------------------
(* One iteration. *)

CopyEdges(h) ==
  UNION {{<<n, h.rep[d]>> : d \in h.copy[n]} : n \in {m \in DOMAIN h.rep : h.rep[m] = m}}

(* Mutant: all that the search from the candidates meets is merged. *)
OnlineCycles_Weak(h, candidates) ==
  {ReachedFrom(CopyEdges(h), {h.rep[n] : n \in candidates})}

(* The cycles of copy edges that can be reached from the candidates. *)
OnlineCycles(h, candidates) ==
  Cycles(CopyEdges(h), ReachedFrom(CopyEdges(h), {h.rep[n] : n \in candidates}))

(* OnlineCycleDetector::run: each cycle is merged into the node where the  *)
(* search entered it.                                                      *)
DetectCycles ==
  LET cycles == OnlineCycles(g, cycleCandidates)
  IN  /\ pc = "iteration" /\ curr # {}
      /\ opt.lcd /\ cycleCandidates # {}
      /\ \E root \in {r \in [cycles -> Node] : \A c \in cycles : r[c] \in c} :
           g' = collapseNodes(g, [n \in Node |->
                  IF \E c \in cycles : n \in c
                  THEN root[CHOOSE c \in cycles : n \in c] ELSE n])
      /\ cycleCandidates' = {}
      /\ pc' = "work"
      /\ UNCHANGED <<prog, opt, collapseMap, curr, next, checkedEdges, least>>

NoCandidates ==
  /\ pc = "iteration" /\ curr # {}
  /\ ~ opt.lcd \/ cycleCandidates = {}
  /\ pc' = "work"
  /\ UNCHANGED <<prog, opt, g, collapseMap, curr, next, cycleCandidates, checkedEdges, least>>

(* The rest of the body of the inner loop, for a node that has edges and a *)
(* points-to set: add the copy edges of its loads and stores, then pass    *)
(* the points-to set along the copy edges.                                 *)
NewCopyEdges(h, node) ==
  {<<h.rep[v], h.rep[d]>> : v \in h.pts[node], d \in h.load[node]}
    \cup {<<h.rep[s], h.rep[v]>> : v \in h.pts[node], s \in h.store[node]}

(* Mutant: the source of a new copy edge is not looked at again. *)
EdgeSources_None(h, new) == {}

(* The sources of the copy edges that insertCopyEdge finds new. *)
EdgeSources(h, new) == {e[1] : e \in {x \in new : x[2] \notin h.copy[x[1]]}}

Propagate(h, node) ==
  LET new == NewCopyEdges(h, node)
      copy == [n \in Node |-> h.copy[n] \cup Successors(new, {n})]
      out == {d \in copy[node] : h.rep[d] # node}
      targets == {h.rep[d] : d \in out}
      changed == {t \in targets : ~ h.pts[node] \subseteq h.pts[t]}
      (* A target met again, through an edge to a node merged into it, is  *)
      (* not changed the second time.                                      *)
      unchanged == {t \in targets :
        t \notin changed \/ \E c, d \in out : c # d /\ h.rep[c] = t /\ h.rep[d] = t}
      suspects == {t \in unchanged :
        /\ opt.lcd
        /\ <<node, t>> \notin checkedEdges
        /\ h.pts[t] \subseteq h.pts[node]}
  IN  /\ g' = [h EXCEPT
           !.pts = [n \in Node |-> IF n \in targets THEN @[n] \cup h.pts[node] ELSE @[n]],
           !.copy = [copy EXCEPT ![node] =
                       {IF h.rep[d] = node THEN d ELSE h.rep[d] : d \in @}],
           !.load[node] = {h.rep[d] : d \in @},
           !.store[node] = {h.rep[d] : d \in @}]
      /\ next' = next \cup EdgeSources(h, new) \cup changed
      /\ checkedEdges' = checkedEdges \cup {<<node, t>> : t \in suspects}
      /\ cycleCandidates' = cycleCandidates \cup suspects

(* Hybrid cycle detection, when what node points to is to be merged with   *)
(* target.  If target is node itself, its points-to set grows while the    *)
(* loop goes through it: what is added may or may not be visited.          *)
Visited(node, target) ==
  IF target # node THEN {g.pts[node]}
  ELSE {X \in SUBSET UNION {g.pts[n] : n \in Node} :
          /\ g.pts[node] \subseteq X
          /\ X \subseteq g.pts[node] \cup UNION {g.pts[g.rep[x]] : x \in X}}

CollapseTargets(node) ==
  LET target == g.rep[collapseMap[node]] IN
  \E X \in Visited(node, target) :
    LET mergeSelf == target # node /\ \E v \in X : g.rep[v] = node
        merged == {g.rep[v] : v \in X} \ (IF mergeSelf THEN {} ELSE {node})
        h == collapseNodes(g, [n \in Node |-> IF n \in merged THEN target ELSE n])
    IN  IF mergeSelf
        THEN /\ g' = h
             /\ next' = next \cup {target}
             /\ UNCHANGED <<checkedEdges, cycleCandidates>>
        ELSE Propagate(h, node)

(* The inner loop takes n from the work list. *)
Process(n) ==
  LET node == g.rep[n] IN
  /\ pc = "work"
  /\ n \in curr
  /\ curr' = curr \ {n}
  /\ \/ /\ ~ HasEdges(g, node) \/ g.pts[node] = {}
        /\ UNCHANGED <<g, next, checkedEdges, cycleCandidates>>
     \/ /\ HasEdges(g, node) /\ g.pts[node] # {}
        /\ IF node \in DOMAIN collapseMap THEN CollapseTargets(node) ELSE Propagate(g, node)
  /\ UNCHANGED <<prog, opt, pc, collapseMap, least>>

Swap ==
  /\ pc = "work" /\ curr = {}
  /\ curr' = next /\ next' = {}
  /\ pc' = IF next = {} THEN "done" ELSE "iteration"
  /\ UNCHANGED <<prog, opt, g, collapseMap, cycleCandidates, checkedEdges, least>>

Terminated == pc \in {"done", "undefined"} /\ UNCHANGED vars

Next == SetUp \/ DetectCycles \/ NoCandidates \/ (\E n \in curr : Process(n)) \/ Swap \/ Terminated

Spec == Init /\ [][Next]_vars

(* The analysis is one thread that runs to the end. *)
FairSpec == Spec /\ WF_vars(Next)

-----------------------------------------------------------------------------
(* Properties. *)

Solution == [n \in Node |-> g.pts[g.rep[n]]]

(* Every edge of n carries its points-to set: nothing is left to do. *)
Satisfied(n) ==
  LET linked(a, b) == a = b \/ \E c \in g.copy[a] : g.rep[c] = b IN
  /\ \A d \in g.copy[n] : g.pts[n] \subseteq g.pts[g.rep[d]]
  /\ \A v \in g.pts[n], d \in g.load[n] : linked(g.rep[v], g.rep[d])
  /\ \A v \in g.pts[n], s \in g.store[n] : linked(g.rep[s], g.rep[v])

(* The nodes that hybrid cycle detection merges others into. *)
CollapsedInto == {g.rep[collapseMap[n]] : n \in DOMAIN collapseMap}

(* Between two nodes of the work list, and whatever cycle detection has    *)
(* merged, a node whose edges do not carry its points-to set stands for    *)
(* some node of a work list: solveConstraints forgets no change, except    *)
(* those of a node that hybrid cycle detection merged others into.         *)
NothingForgotten ==
  pc \in {"iteration", "work", "done"} =>
    \A n \in Node : g.rep[n] = n =>
      Satisfied(n) \/ n \in {g.rep[m] : m \in curr \cup next} \cup CollapsedInto

(* solveConstraints stops when a fixed point is reached: the result is the *)
(* least solution of the constraints.                                      *)
FixedPoint == pc = "done" => Solution = least

Abstract == INSTANCE PointsTo WITH sol <- Solution, exact <- ~ opt.hcd

(* The solver implements PointsTo, and is exact without hybrid cycle       *)
(* detection.                                                              *)
ImplementsPointsTo == Abstract!Spec

(* What a value holds; one that is no pointer holds nothing. *)
Held(E, v) == IF v = NoNode THEN {} ELSE E[v]

(* What is in the objects v may point to. *)
HeldBehind(E, v) == UNION {E[o] : o \in Held(E, v)}

(* What a call with the arguments of i hands to the node n of f. *)
PassedTo(i, f, E, n) ==
  UNION {Held(E, i.args[k]) : k \in {j \in DOMAIN i.args :
           n = IF j \in DOMAIN f.params THEN f.params[j] ELSE f.va}}

(* What an execution of the program can put in a node, read off the        *)
(* meaning of the instructions (loads, stores, copies, calls of functions  *)
(* of the program, allocation, memcpy), given what may be in each.         *)
Writes(P, i, E, n) ==
  CASE i.op = "alloca" -> IF n = i.val THEN {i.obj} ELSE {}
    [] i.op = "load"   -> IF n = i.val THEN HeldBehind(E, i.ptr) ELSE {}
    [] i.op = "store"  -> IF n \in Held(E, i.ptr) THEN Held(E, i.src) ELSE {}
    [] i.op = "copy"   -> IF n = i.val THEN UNION {Held(E, s) : s \in i.srcs} ELSE {}
    [] i.op = "ret"    -> IF n = P.fun[i.fn].ret THEN Held(E, i.src) ELSE {}
    [] i.op = "va_arg" -> IF n = i.val THEN Held(E, P.fun[i.fn].va) ELSE {}
    [] i.op = "icall"  -> UNION {PassedTo(i, P.fun[f], E, n) : f \in {h \in DOMAIN P.fun :
                             /\ P.fun[h].obj \in Held(E, i.ptr)
                             /\ Len(P.fun[h].params) = Len(i.args)}}
    [] i.op = "call" /\ ~ P.fun[i.callee].isDecl ->
         PassedTo(i, P.fun[i.callee], E, n)
           \cup (IF n = i.val THEN Held(E, P.fun[i.callee].ret) ELSE {})
    [] i.op = "call" /\ P.fun[i.callee].isDecl /\ P.fun[i.callee].lib = "malloc" ->
         IF n = i.val THEN {i.obj} ELSE {}
    [] i.op = "call" /\ P.fun[i.callee].isDecl /\ P.fun[i.callee].lib = "memcpy" ->
         (IF n \in Held(E, i.args[1]) THEN HeldBehind(E, i.args[2]) ELSE {})
           \cup (IF n = i.val THEN Held(E, i.args[1]) ELSE {})
    [] OTHER -> {}

Addresses(P) ==
  [n \in Nodes(P) |->
     {x.obj : x \in {y \in P.globals \cup {P.fun[f] : f \in DOMAIN P.fun} : y.val = n}}
       \cup UNION {x.init : x \in {y \in P.globals : y.obj = n}}]

Executed(P, E) ==
  [n \in Nodes(P) |-> E[n] \cup UNION {Writes(P, i, E, n) : i \in P.insts}]

(* What a node may hold after any number of instructions. *)
Reads(P) ==
  LET closure[E \in [Nodes(P) -> SUBSET Nodes(P)]] ==
        LET F == Executed(P, E) IN IF E = F THEN E ELSE closure[F]
  IN  closure[Addresses(P)]

(* Whatever order the instructions run in, an object a pointer holds in    *)
(* some execution is in the set Andersen::getPointsToSet returns for it.   *)
Sound ==
  pc = "done" /\ ~ opt.hcd =>
    LET E == Reads(prog) IN \A n \in Node : E[n] \subseteq Solution[n]
=============================================================================
