------------------------------ MODULE DepGraph ------------------------------
(***************************************************************************)
(* DepGraphDCF: which values may differ between the processes.  On the     *)
(* graph of module DepGraphBuild, memory phis whose operands are           *)
(* equivalent are eliminated, then the taint of the rank is spread, either *)
(* over the whole graph or (the default) function by function along a walk *)
(* of the call graph that taints a callee from its caller, the caller from *)
(* the callee, and forgets the taint of the callee.                        *)
(***************************************************************************)
EXTENDS DepGraphBuild

CONSTANTS
  Programs,   \* the programs analysed
  Modes       \* context insensitive or not: a subset of BOOLEAN

(* A program is finite, and its functions call functions it has. *)
ASSUME ProgramsAssumption ==
  \A P \in Programs :
    /\ IsFiniteSet(DOMAIN P) /\ "main" \in DOMAIN P /\ "none" \notin DOMAIN P
    /\ \A f \in DOMAIN P : Callees(P, f) \in Seq(DOMAIN P \cup {"none"})
    /\ IsFiniteSet(Edges(P)) /\ IsFiniteSet(SourcesOf(P))

VARIABLES
  prog, insensitive,
  pc,        \* "build", "phi", "flood", "walk" or "done"
  edges,     \* the four children maps and their inverses
  made,      \* the edges there ever were: the keys of those maps
  nodes,     \* funcToSSANodesMap and funcToLLVMNodesMap
  opsVar,    \* for each memory phi its operands
  todo,      \* the functions whose phis are still to be looked at
  tainted,   \* taintedSSANodes and taintedLLVMNodes
  conds,     \* taintedConditions
  S,         \* the stack of the walk
  visited,   \* Node2VisitedChildrenMap
  down,      \* GoingDown
  prev       \* Prev; "none" at first

vars == <<prog, insensitive, pc, edges, made, nodes, opsVar, todo, tainted, conds, S, visited,
          down, prev>>

Phis(f) == PhisOf(prog, f)

AllPhis == UNION {Phis(f) : f \in DOMAIN prog}

Empty == [x \in {} |-> x]

Init ==
  /\ prog \in Programs
  /\ insensitive \in Modes
  /\ pc = "build"
  /\ edges = {} /\ made = {} /\ nodes = Empty /\ opsVar = Empty /\ todo = {}
  /\ tainted = {} /\ conds = {}
  /\ S = <<>> /\ visited = Empty /\ down = TRUE /\ prev = "none"

(* buildFunction of every function that is reached. *)
Build ==
  /\ pc = "build"
  /\ edges' = Edges(prog)
  /\ made' = edges'
  /\ nodes' = [f \in Reachable(prog) |-> NodesOf(prog, f)]
  /\ opsVar' = [q \in {p.res : p \in AllPhis} |-> (CHOOSE p \in AllPhis : p.res = q).operands]
  /\ todo' = Reachable(prog)
  /\ pc' = "phi"
  /\ UNCHANGED <<prog, insensitive, tainted, conds, S, visited, down, prev>>

-----------------------------------------------------------------------------
(* Phi elimination *)

Children(E, n) == {e[2] : e \in {x \in E : x[1] = n}}
Parents(E, n) == {e[1] : e \in {x \in E : x[2] = n}}

Values(N) == {n \in N : IsValue(n)}

Reversed(E) == {<<e[2], e[1]>> : e \in E}

(* v and w have the same children along E.  A map without an entry and a   *)
(* map with an empty one are told apart: M has the edges ever made.        *)
SameNeighbours(E, M, v, w) ==
  LET vals(n) == Values(Children(M, n))
      ssa(n) == Children(M, n) \ vals(n)
  IN  /\ Children(E, v) = Children(E, w)
      /\ vals(v) = {} <=> vals(w) = {}
      /\ ssa(v) = {} <=> ssa(w) = {}

(* Mutant: what the operands are computed from is not compared. *)
areSSANodesEquivalent_ChildrenOnly(v, w) ==
  /\ v \notin DOMAIN opsVar /\ w \notin DOMAIN opsVar
  /\ SameNeighbours(edges, made, v, w)

areSSANodesEquivalent(v, w) ==
  /\ v \notin DOMAIN opsVar /\ w \notin DOMAIN opsVar
  /\ SameNeighbours(edges, made, v, w)
  /\ SameNeighbours(Reversed(edges), Reversed(made), v, w)

CanElim(f, p) ==
  /\ p.res \in nodes[f]
  /\ \A i \in 1..(Len(opsVar[p.res]) - 1) :
       areSSANodesEquivalent(opsVar[p.res][i], opsVar[p.res][i + 1])

(* The first operand of outer that is the phi q becomes op. *)
ReplaceFirst(operands, q, op) ==
  LET at == {i \in DOMAIN operands : operands[i] = q}
  IN  IF at = {} THEN operands
      ELSE [operands EXCEPT ![CHOOSE i \in at : \A j \in at : i <= j] = op]

(* The edges after p gave way to its operand op. *)
WithoutPhi(p, op) ==
  LET q == p.res
      gone == ToSet(opsVar[q]) \ {op}
      moved == edges \cup {<<op, k>> : k \in Children(edges, q)}
  IN  {e \in moved : e[1] \notin {q} \cup gone /\ e[2] \notin {q} \cup gone}

(* The function whose phis are looked at; the others follow. *)
Current == CHOOSE f \in todo : TRUE

(* eliminatePhi; the order of the operands is that of their addresses. *)
EliminatePhi ==
  /\ pc = "phi"
  /\ LET f == Current IN \E p \in Phis(f) :
       /\ CanElim(f, p)
       /\ \E op \in ToSet(opsVar[p.res]) :
            LET q == p.res
            IN  /\ edges' = WithoutPhi(p, op)
                /\ made' = made \cup edges'
                /\ nodes' = [nodes EXCEPT ![f] = @ \ ({q} \cup (ToSet(opsVar[q]) \ {op}))]
                /\ opsVar' = [x \in DOMAIN opsVar |->
                                IF x \in Children(edges, q) THEN ReplaceFirst(opsVar[x], q, op)
                                ELSE opsVar[x]]
  /\ UNCHANGED <<prog, insensitive, pc, todo, tainted, conds, S, visited, down, prev>>

(* No phi of the function changed in the last pass over its blocks. *)
NextFunction ==
  /\ pc = "phi"
  /\ \A p \in Phis(Current) : ~ CanElim(Current, p)
  /\ todo' = todo \ {Current}
  /\ pc' = IF todo' # {} THEN "phi" ELSE IF insensitive THEN "flood" ELSE "walk"
  /\ S' = IF pc' = "walk" THEN <<"main">> ELSE <<>>
  /\ visited' = [f \in DOMAIN prog |-> {}]
  /\ UNCHANGED <<prog, insensitive, edges, made, nodes, opsVar, tainted, conds, down, prev>>

-----------------------------------------------------------------------------
(* Taint *)

Spreading == LET resets == ResetsOf(prog) IN {e \in edges : e[1] \notin resets}

(* computeTaintedValuesContextInsensitive *)
FloodAll ==
  /\ pc = "flood"
  /\ tainted' = ReachedFrom(Spreading, SourcesOf(prog))
  /\ conds' = Values(tainted')
  /\ pc' = "done"
  /\ UNCHANGED <<prog, insensitive, edges, made, nodes, opsVar, todo, S, visited, down, prev>>

(* The results of calls of f that are the rank. *)
ValueSourcesIn(f) == SourcesOf(prog) \cap {Val(c.id) : c \in CallsOf(prog, f)}

(* floodFunction: from the sources and the tainted nodes of f, within f.   *)
(* A value source is tainted even when it is no node of f.                 *)
floodFunction(T, f) ==
  LET inside == {e \in Spreading : e[1] \in nodes[f] /\ e[2] \in nodes[f]}
  IN  T \cup ValueSourcesIn(f) \cup ReachedFrom(inside, (T \cup SourcesOf(prog)) \cap nodes[f])

(* floodFunctionFromFunction: the nodes of to whose parents in from are    *)
(* tainted.  A tainted node that is reset clears its children; the order   *)
(* of the addresses decides about a child of both kinds (kept).            *)
Cleared(T, to, from) == Successors(edges, T \cap nodes[from] \cap ResetsOf(prog)) \cap nodes[to]
Entered(T, to, from) == Successors(Spreading, T \cap nodes[from]) \cap nodes[to]

(* Mutant: only memory carries taint between functions. *)
floodFunctionFromFunction_NoValues(T, to, from, kept) ==
  LET memory == Successors({e \in Spreading : IsVar(e[1])}, T \cap nodes[from]) \cap nodes[to]
  IN  (T \ Cleared(T, to, from)) \cup (memory \ (Cleared(T, to, from) \ kept))

(* Mutant: a reset node lets the taint through to other functions. *)
floodFunctionFromFunction_NoReset(T, to, from, kept) ==
  T \cup (Successors(edges, T \cap nodes[from]) \cap nodes[to])

floodFunctionFromFunction(T, to, from, kept) ==
  LET values == Successors({e \in Spreading : IsValue(e[1])}, T \cap nodes[from]) \cap nodes[to]
  IN  (T \ Cleared(T, to, from)) \cup (Entered(T, to, from) \ (Cleared(T, to, from) \ kept)) \cup values

(* The calls of n to a function n did not descend into yet, and the first  *)
(* of them that leads to one.                                              *)
Unvisited(n) == {i \in DOMAIN Callees(prog, n) : Callees(prog, n)[i] \notin visited[n]}

Descends(n) ==
  LET next == {i \in Unvisited(n) : Callees(prog, n)[i] # "none"}
  IN  {i \in next : \A j \in next : i <= j}

(* Mutant: the function descended into is not marked. *)
Marked_NoFunction(n) ==
  {"none"} \cap {Callees(prog, n)[i] : i \in {j \in Unvisited(n) : \A k \in Descends(n) : j <= k}}

(* The callees marked in this turn. *)
Marked(n) ==
  {Callees(prog, n)[i] : i \in {j \in Unvisited(n) : \A k \in Descends(n) : j <= k}}

(* One turn of computeTaintedValuesCSForEntry for the function n on top:   *)
(* taint it from where the walk comes from, keep the tainted conditions of *)
(* its calls, forget the callee the walk returns from, and descend into    *)
(* the next callee or return.  The node without a function is marked but   *)
(* not descended into: then n has another turn.                            *)
Walk ==
  /\ pc = "walk"
  /\ LET n == Last(S)
     IN  /\ \E kept \in IF prev = "none" THEN {{}}
                        ELSE SUBSET (Cleared(tainted, n, prev) \cap Entered(tainted, n, prev)) :
              LET T == floodFunction(IF prev = "none" THEN tainted
                                     ELSE floodFunctionFromFunction(tainted, n, prev, kept), n)
              IN  /\ conds' = conds \cup (CallConds(prog, n) \cap T)
                  /\ tainted' = IF prev # "none" /\ ~ down THEN T \ nodes[prev] ELSE T
         /\ visited' = [visited EXCEPT ![n] = @ \cup Marked(n)]
         /\ S' = IF Descends(n) # {} THEN Append(S, Callees(prog, n)[CHOOSE k \in Descends(n) : TRUE])
                 ELSE IF Unvisited(n) # {} THEN S ELSE Front(S)
         /\ down' = (Unvisited(n) # {})
         /\ prev' = n
         /\ pc' = IF S' = <<>> THEN "done" ELSE "walk"
  /\ UNCHANGED <<prog, insensitive, edges, made, nodes, opsVar, todo>>

Done == pc = "done" /\ UNCHANGED vars

Next == Build \/ EliminatePhi \/ NextFunction \/ FloodAll \/ Walk \/ Done

Spec == Init /\ [][Next]_vars

-----------------------------------------------------------------------------
Ends(E) == {e[1] : e \in E} \cup {e[2] : e \in E}

(* Nodes taken out of the graph are not tainted and not connected, and the *)
(* walk only stands on functions that are reached.                         *)
TypeOK ==
  /\ edges \subseteq made
  /\ tainted \cup conds \subseteq Ends(made)
  /\ pc # "build" => ToSet(S) \subseteq DOMAIN nodes
  /\ \A f \in todo : Ends(edges) \cap (NodesOf(prog, f) \ UNION {nodes[g] : g \in DOMAIN nodes}) = {}

(* The sources flow to n along the edges E. *)
FlowsTo(E) ==
  LET resets == ResetsOf(prog) IN ReachedFrom({e \in E : e[1] \notin resets}, SourcesOf(prog))

(* Eliminating phis changes no data flow: apart from the conditions of the *)
(* phis that are gone, the rank reaches the nodes that are left exactly as *)
(* it does in the graph as built.                                          *)
ElimKeepsData ==
  pc # "build" =>
    LET left == UNION {nodes[f] : f \in DOMAIN nodes}
        gone == {p \in AllPhis : p.res \notin left}
        data == Edges(prog) \ UNION {{<<c, p.res>> : c \in p.conds} : p \in gone}
    IN  FlowsTo(data) \cap left = FlowsTo(edges) \cap left

(* The versions memory phis choose from and define. *)
Results(P) == {p.res : p \in UNION {PhisOf(P, f) : f \in DOMAIN P}}
Versions(P) ==
  Results(P) \cup UNION {ToSet(p.operands) : p \in UNION {PhisOf(P, f) : f \in DOMAIN P}}

(* What MemorySSA makes of a program: a version belongs to one function,   *)
(* a phi has an operand for each of two or more blocks before it, and      *)
(* nothing but the phi defines its result.                                 *)
SSAForm(P) ==
  /\ \A e \in Edges(P) : e = <<e[1], e[2]>>
  /\ \A f \in DOMAIN P \ Reachable(P) : P[f].decl
  /\ \A f \in Reachable(P) : \A n \in NodesOf(P, f) : n[1] = "mem" => n[4] = f
  /\ \A f \in DOMAIN P : \A p \in PhisOf(P, f) :
       /\ p.operands \in Seq(NodesOf(P, f)) /\ Len(p.operands) >= 2
       /\ \A n \in {p.res} \cup ToSet(p.operands) : n[1] = "mem"
       /\ \A c \in p.conds : IsValue(c)
       /\ \A e \in Edges(P) : e[2] = p.res => e[1] \in ToSet(p.operands) \cup p.conds
       /\ p.res \notin ResetsOf(P)
       /\ \A o \in PhisOf(P, f) : o.res = p.res => o = p

(* A version that a collective defines has a parent of its own: the exit   *)
(* chi of the call.                                                        *)
ResetsApart(P) ==
  \A a, b \in Versions(P) \ Results(P) :
    (a \in ResetsOf(P) <=> b \in ResetsOf(P))
      \/ Parents(Edges(P), a) \ Versions(P) # Parents(Edges(P), b) \ Versions(P)

(* The walk reports and taints nothing that the context insensitive flood  *)
(* does not: what it keeps of an earlier context is always justified by    *)
(* some flow from the rank that no collective resets.                      *)
WithinInsensitive ==
  pc \in {"walk", "done"} => tainted \cup conds \subseteq FlowsTo(edges)

-----------------------------------------------------------------------------
(* Programs the walk is complete for.  Each function that takes part in    *)
(* the graph has one call,                                                 *)
OneContext ==
  \A f \in Reachable(prog) : nodes[f] = {} \/ Cardinality(CallSites(prog, f)) <= 1

(* what a later callee leaves does not reach an earlier one, *)
FlowsForward ==
  LET spread == Spreading
      calls == UNION {{<<g, h>> : h \in ToSet(Callees(prog, g)) \ {"none"}} : g \in DOMAIN nodes}
      below == [f \in DOMAIN nodes |-> UNION {nodes[g] : g \in ReachedFrom(calls, {f})}]
      leaves == [f \in DOMAIN nodes |-> ReachedFrom(spread, below[f])]
  IN  \A f \in DOMAIN nodes :
        LET C == SelectSeq(Callees(prog, f), LAMBDA g : g # "none")
        IN  \A j \in DOMAIN C : \A i \in 1..(j - 1) :
              leaves[C[j]] \cap (below[C[i]] \ below[C[j]]) = {}

(* no function is handed both a reset and another version in one place,    *)
(* and what the rank flows to belongs to functions the walk visits.        *)
NoMixedReset ==
  \A f \in Reachable(prog) : \A n \in nodes[f] :
    LET from == Parents(edges, n) \ nodes[f]
        resets == ResetsOf(prog)
    IN  from \cap resets = {} \/ from \subseteq resets

Visible == FlowsTo(edges) \subseteq UNION {nodes[f] : f \in DOMAIN nodes}

(* For those programs the walk misses nothing: a condition that decides    *)
(* whether a call runs and that the rank flows to is reported.             *)
WalkComplete ==
  pc = "done" /\ ~ insensitive /\ OneContext /\ FlowsForward /\ NoMixedReset /\ Visible =>
    \A f \in Reachable(prog) : CallConds(prog, f) \cap FlowsTo(edges) \subseteq conds

(* The callees of f the walk may still descend into. *)
Left(f) == ToSet(Callees(prog, f)) \ visited[f]

Ahead == 2 * Cardinality({c \in (DOMAIN nodes) \X (DOMAIN nodes \cup {"none"}) : c[2] \in Left(c[1])}) + Len(S)

(* The walk comes to an end, also with recursion and with calls through    *)
(* pointers: every turn leaves less ahead.                                 *)
WalkProgresses == [][pc = "walk" => Ahead' < Ahead]_vars

(* What the comment on unknown external functions says: every input is     *)
(* connected to every output.  The values passed to it are inputs too.     *)
EveryInputConnected ==
  pc # "build" =>
    \A f \in Reachable(prog) : prog[f].decl /\ prog[f].kind = "other" =>
      \A c \in CallSites(prog, f) : \A i \in DOMAIN c.args :
        Outputs(prog, f, c) \subseteq ReachedFrom(edges, {c.args[i]})
=============================================================================
