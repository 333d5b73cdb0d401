--------------------------- MODULE DepGraphProofs ---------------------------
(***************************************************************************)
(* Proofs about the taint of the dependence graph, for every program.      *)
(*                                                                         *)
(* What flows from the rank is the least set that holds the sources and is *)
(* closed under the edges that spread taint.  Each of the two floods of    *)
(* the walk only follows such edges, so its taint stays in that set        *)
(* whatever the walk forgets in between.                                   *)
(*                                                                         *)
(* Phi elimination merges nodes: the graph that is left is a quotient of   *)
(* the one as built, without the conditions of the phis that are gone, so  *)
(* the rank reaches the same of the nodes that are left.                   *)
(***************************************************************************)
EXTENDS DepGraph, CommonLemmas, SequenceTheorems

-----------------------------------------------------------------------------
(* The inductive invariant. *)

Stages == {"build", "phi", "flood", "walk", "done"}

(* The graph, and the functions it is made of. *)
GraphInv ==
  /\ prog \in Programs /\ pc \in Stages
  /\ IsFiniteSet(edges)
  /\ pc # "build" => DOMAIN nodes = Reachable(prog)

(* The stack of the walk holds functions that are reached. *)
WalkInv ==
  pc = "walk" => /\ S \in Seq(Reachable(prog)) /\ S # <<>>
                 /\ visited \in [DOMAIN prog -> SUBSET (DOMAIN prog \cup {"none"})]

(* What is tainted is justified by the flow from the sources. *)
TaintInv ==
  /\ pc \in {"build", "phi", "flood"} => tainted = {} /\ conds = {}
  /\ pc \in {"walk", "done"} => tainted \cup conds \subseteq FlowsTo(edges)

DepGraphInv == GraphInv /\ WalkInv /\ TaintInv

-----------------------------------------------------------------------------
(* The call graph. *)

CallsIn(P) == UNION {{<<f, g>> : g \in ToSet(Callees(P, f)) \ {"none"}} : f \in DOMAIN P}

(* The functions that are reached are functions of the program, main is    *)
(* one of them, and so is what they call.                                  *)
LEMMA ReachableFacts ==
  ASSUME NEW P \in Programs
  PROVE  /\ Reachable(P) \subseteq DOMAIN P /\ "main" \in Reachable(P)
         /\ IsFiniteSet(Reachable(P)) /\ "none" \notin Reachable(P)
         /\ \A f \in Reachable(P) : ToSet(Callees(P, f)) \subseteq Reachable(P) \cup {"none"}
<1>1. /\ IsFiniteSet(DOMAIN P) /\ "main" \in DOMAIN P /\ "none" \notin DOMAIN P
      /\ \A f \in DOMAIN P : Callees(P, f) \in Seq(DOMAIN P \cup {"none"})
  BY ProgramsAssumption
<1>2. \A f \in DOMAIN P : ToSet(Callees(P, f)) \subseteq DOMAIN P \cup {"none"}
  BY <1>1 DEF ToSet
<1>3. CallsIn(P) \subseteq (DOMAIN P) \X (DOMAIN P)
  BY <1>2 DEF CallsIn
<1>4. IsFiniteSet(CallsIn(P)) /\ IsFiniteSet({"main"})
  BY <1>1, <1>3, FS_Product, FS_Subset, FS_Singleton
<1>5. Reachable(P) = ReachedFrom(CallsIn(P), {"main"})
  BY DEF Reachable, CallsIn
<1>6. /\ {"main"} \subseteq Reachable(P)
      /\ Reachable(P) \subseteq {"main"} \cup {e[2] : e \in CallsIn(P)}
      /\ Successors(CallsIn(P), Reachable(P)) \subseteq Reachable(P)
  BY <1>4, <1>5, ReachedIsLeast
<1>7. \A e \in CallsIn(P) : e[2] \in DOMAIN P
  BY <1>3
<1>8. Reachable(P) \subseteq DOMAIN P
  BY <1>1, <1>6, <1>7
<1>9. ASSUME NEW f \in Reachable(P), NEW g \in ToSet(Callees(P, f)), g # "none"
      PROVE  g \in Reachable(P)
  <2>1. <<f, g>> \in CallsIn(P)
    BY <1>8, <1>9 DEF CallsIn
  <2>2. <<f, g>> \in {x \in CallsIn(P) : x[1] \in Reachable(P)} /\ <<f, g>>[2] = g
    BY <2>1
  <2>3. g \in Successors(CallsIn(P), Reachable(P))
    BY <2>2 DEF Successors
  <2> QED
    BY <1>6, <2>3
<1> QED
  BY <1>1, <1>6, <1>8, <1>9, FS_Subset

-----------------------------------------------------------------------------
(* What flows from the rank. *)

(* The sources flow to themselves and along the edges that spread taint.   *)
LEMMA FlowFacts ==
  ASSUME prog \in Programs, IsFiniteSet(edges)
  PROVE  /\ FlowsTo(edges) = ReachedFrom(Spreading, SourcesOf(prog))
         /\ IsFiniteSet(Spreading) /\ IsFiniteSet(FlowsTo(edges))
         /\ SourcesOf(prog) \subseteq FlowsTo(edges)
         /\ Successors(Spreading, FlowsTo(edges)) \subseteq FlowsTo(edges)
<1>1. FlowsTo(edges) = ReachedFrom(Spreading, SourcesOf(prog))
  BY DEF FlowsTo, Spreading
<1>2. Spreading \subseteq edges
  BY DEF Spreading
<1>3. IsFiniteSet(Spreading) /\ IsFiniteSet(SourcesOf(prog))
  BY <1>2, FS_Subset, ProgramsAssumption
<1>4. /\ SourcesOf(prog) \subseteq FlowsTo(edges)
      /\ FlowsTo(edges) \subseteq SourcesOf(prog) \cup {e[2] : e \in Spreading}
      /\ Successors(Spreading, FlowsTo(edges)) \subseteq FlowsTo(edges)
  BY <1>1, <1>3, ReachedIsLeast
<1>5. IsFiniteSet({e[2] : e \in Spreading})
  BY <1>3, FiniteHeads
<1>6. IsFiniteSet(FlowsTo(edges))
  BY <1>3, <1>4, <1>5, FS_Union, FS_Subset
<1> QED
  BY <1>1, <1>3, <1>4, <1>6

(* A flood of one function stays within a set that holds the sources and   *)
(* is closed under the edges that spread taint,                            *)
LEMMA FloodWithin ==
  ASSUME prog \in Programs, IsFiniteSet(edges), NEW T \in SUBSET FlowsTo(edges), NEW f
  PROVE  floodFunction(T, f) \subseteq FlowsTo(edges)
<1> DEFINE F == FlowsTo(edges)
           inside == {e \in Spreading : e[1] \in nodes[f] /\ e[2] \in nodes[f]}
           from == (T \cup SourcesOf(prog)) \cap nodes[f]
<1>1. /\ IsFiniteSet(Spreading) /\ IsFiniteSet(F) /\ SourcesOf(prog) \subseteq F
      /\ Successors(Spreading, F) \subseteq F
  BY FlowFacts
<1>2. IsFiniteSet(inside) /\ IsFiniteSet(from) /\ from \subseteq F
  BY <1>1, FS_Subset
<1>3. Successors(inside, F) \subseteq F
  BY <1>1 DEF Successors
<1>4. floodFunction(T, f) = T \cup ValueSourcesIn(f) \cup ReachedFrom(inside, from)
  BY DEF floodFunction
<1>5. ValueSourcesIn(f) \subseteq F
  BY <1>1 DEF ValueSourcesIn
<1> HIDE DEF inside, from, F
<1>6. ReachedFrom(inside, from) \subseteq F
  BY <1>2, <1>3, ReachedIsLeast
<1> QED
  BY <1>4, <1>5, <1>6 DEF F

(* and so does the taint that enters a function from another. *)
LEMMA EnterWithin ==
  ASSUME prog \in Programs, IsFiniteSet(edges), NEW T \in SUBSET FlowsTo(edges), NEW to, NEW from, NEW kept
  PROVE  floodFunctionFromFunction(T, to, from, kept) \subseteq FlowsTo(edges)
<1> DEFINE F == FlowsTo(edges)
<1>1. Successors(Spreading, F) \subseteq F
  BY FlowFacts
<1>2. Entered(T, to, from) \subseteq F
  <2>1. Successors(Spreading, T \cap nodes[from]) \subseteq Successors(Spreading, F)
    BY DEF Successors
  <2> QED
    BY <1>1, <2>1 DEF Entered
<1>3. Successors({e \in Spreading : IsValue(e[1])}, T \cap nodes[from]) \subseteq F
  <2>1. Successors({e \in Spreading : IsValue(e[1])}, T \cap nodes[from]) \subseteq Successors(Spreading, F)
    BY DEF Successors
  <2> QED
    BY <1>1, <2>1
<1> QED
  BY <1>2, <1>3 DEF floodFunctionFromFunction

-----------------------------------------------------------------------------
(* The steps. *)

(* Taking a phi out of the graph leaves it finite. *)
LEMMA FiniteWithoutPhi ==
  ASSUME IsFiniteSet(edges), NEW p, NEW op
  PROVE  IsFiniteSet(WithoutPhi(p, op))
<1> DEFINE C == Children(edges, p.res)
           moved == edges \cup {<<op, k>> : k \in C}
<1>1. IsFiniteSet({x \in edges : x[1] = p.res})
  BY FS_Subset
<1>2. IsFiniteSet(C)
  BY <1>1, FiniteHeads DEF Children
<1>3. IsFiniteSet({op} \X C)
  BY <1>2, FS_Singleton, FS_Product
<1>4. {<<op, k>> : k \in C} \subseteq {op} \X C
  OBVIOUS
<1>5. IsFiniteSet(moved)
  BY <1>3, <1>4, FS_Subset, FS_Union
<1>6. WithoutPhi(p, op) \subseteq moved
  BY DEF WithoutPhi
<1> QED
  BY <1>5, <1>6, FS_Subset

(* Every step keeps the graph finite and the functions of its nodes. *)
LEMMA GraphStep ==
  ASSUME GraphInv, [Next]_vars
  PROVE  GraphInv'
<1>0. /\ prog \in Programs /\ pc \in Stages /\ IsFiniteSet(edges)
      /\ pc # "build" => DOMAIN nodes = Reachable(prog)
  BY DEF GraphInv
<1>p. prog' = prog /\ Reachable(prog)' = Reachable(prog)
  BY DEF Next, vars, Build, EliminatePhi, NextFunction, FloodAll, Walk, Done
<1>1. CASE Build
  <2>1. /\ edges' = Edges(prog) /\ pc' = "phi"
        /\ nodes' = [f \in Reachable(prog) |-> NodesOf(prog, f)]
    BY <1>1 DEF Build
  <2>2. IsFiniteSet(edges')
    BY <1>0, <2>1, ProgramsAssumption
  <2> QED
    BY <1>0, <1>p, <2>1, <2>2 DEF GraphInv, Stages
<1>2. CASE EliminatePhi
  <2>1. pc = "phi" /\ pc' = "phi"
    BY <1>2 DEF EliminatePhi
  <2>3. PICK p \in Phis(Current) : \E op \in ToSet(opsVar[p.res]) :
          /\ edges' = WithoutPhi(p, op)
          /\ nodes' = [nodes EXCEPT ![Current] = @ \ ({p.res} \cup (ToSet(opsVar[p.res]) \ {op}))]
    BY <1>2, Zenon DEF EliminatePhi
  <2>2. IsFiniteSet(edges') /\ DOMAIN nodes' = DOMAIN nodes
    BY <1>0, <2>3, FiniteWithoutPhi
  <2> QED
    BY <1>0, <1>p, <2>1, <2>2 DEF GraphInv
<1>3. CASE NextFunction \/ FloodAll \/ Walk \/ Done \/ UNCHANGED vars
  <2>1. UNCHANGED <<edges, nodes>> /\ pc' \in Stages /\ (pc' = "build" => pc = "build")
    <3>1. CASE NextFunction
      BY <3>1 DEF NextFunction, Stages
    <3>2. CASE FloodAll
      BY <3>2 DEF FloodAll, Stages
    <3>3. CASE Walk
      BY <3>3 DEF Walk, Stages
    <3>4. CASE Done \/ UNCHANGED vars
      BY <1>0, <3>4 DEF Done, vars
    <3> QED
      BY <1>3, <3>1, <3>2, <3>3, <3>4
  <2>2. IsFiniteSet(edges')
    BY <1>0, <2>1
  <2>n. nodes' = nodes /\ (pc' = "build" => pc = "build")
    BY <2>1
  <2>3. pc' # "build" => DOMAIN nodes' = Reachable(prog)'
    <3>1. CASE pc = "build"
      BY <1>3, <3>1 DEF NextFunction, FloodAll, Walk, Done, vars
    <3>2. CASE pc # "build"
      BY <1>0, <1>p, <2>n, <3>2, Zenon
    <3> QED
      BY <3>1, <3>2
  <2>4. prog' \in Programs /\ pc' \in Stages
    BY <1>0, <1>p, <2>1
  <2> QED
    BY <2>2, <2>3, <2>4, Zenon DEF GraphInv
<1> QED
  BY <1>1, <1>2, <1>3 DEF Next

(* One turn of the walk: where it goes, and the callee that it marks when  *)
(* it has one left.                                                        *)
LEMMA TurnFacts ==
  ASSUME GraphInv, WalkInv, Walk
  PROVE  LET n == S[Len(S)] IN
         /\ S \in Seq(Reachable(prog)) /\ Len(S) \in Nat \ {0} /\ n \in Reachable(prog)
         /\ visited' = [visited EXCEPT ![n] = @ \cup Marked(n)]
         /\ Marked(n) \subseteq ToSet(Callees(prog, n))
         /\ S' \in Seq(Reachable(prog))
         /\ \/ Len(S') <= Len(S) + 1 /\ Marked(n) \ visited[n] # {}
            \/ Len(S') = Len(S) - 1
<1> DEFINE n == S[Len(S)]
           C == Callees(prog, n)
<1>1. /\ prog \in Programs /\ pc = "walk" /\ S \in Seq(Reachable(prog)) /\ S # <<>>
  BY DEF GraphInv, WalkInv, Walk
<1>2. Len(S) \in Nat \ {0} /\ n \in Reachable(prog)
  BY <1>1
<1>3. Last(S) = n /\ Front(S) = SubSeq(S, 1, Len(S) - 1)
  BY DEF Last, Front
<1> HIDE DEF n
<1>4. /\ visited' = [visited EXCEPT ![n] = @ \cup Marked(n)]
      /\ S' = IF Descends(n) # {} THEN Append(S, C[CHOOSE k \in Descends(n) : TRUE])
              ELSE IF Unvisited(n) # {} THEN S ELSE Front(S)
  BY <1>3 DEF Walk
<1>5. Marked(n) \subseteq ToSet(C)
  BY DEF Marked, Unvisited, ToSet
<1>6. CASE Descends(n) # {}
  <2> DEFINE k == CHOOSE k \in Descends(n) : TRUE
  <2>1. k \in Descends(n)
    BY <1>6
  <2> HIDE DEF k
  <2>2. /\ k \in Unvisited(n) /\ C[k] # "none"
        /\ \A j \in Descends(n) : k <= j
    BY <2>1 DEF Descends
  <2>3. k \in DOMAIN C /\ C[k] \notin visited[n]
    BY <2>2 DEF Unvisited
  <2>4. C[k] \in Marked(n)
    BY <2>2 DEF Marked
  <2>5. C[k] \in Reachable(prog)
    <3>1. C[k] \in ToSet(C)
      BY <2>3 DEF ToSet
    <3> QED
      BY <1>1, <1>2, <2>2, <3>1, ReachableFacts
  <2>6. S' = Append(S, C[k])
    BY <1>4, <1>6 DEF k
  <2>7. S' \in Seq(Reachable(prog)) /\ Len(S') = Len(S) + 1
    BY <1>1, <2>5, <2>6
  <2> QED
    BY <1>1, <1>2, <1>4, <1>5, <2>3, <2>4, <2>7 DEF n
<1>7. CASE Descends(n) = {} /\ Unvisited(n) # {}
  <2>1. PICK i \in Unvisited(n) : TRUE
    BY <1>7
  <2>2. i \in DOMAIN C /\ C[i] \notin visited[n] /\ C[i] \in Marked(n)
    BY <1>7, <2>1 DEF Unvisited, Marked
  <2>3. S' = S
    BY <1>4, <1>7
  <2> QED
    BY <1>1, <1>2, <1>4, <1>5, <2>2, <2>3 DEF n
<1>8. CASE Descends(n) = {} /\ Unvisited(n) = {}
  <2>1. S' = SubSeq(S, 1, Len(S) - 1)
    BY <1>3, <1>4, <1>8
  <2>2. S' \in Seq(Reachable(prog)) /\ Len(S') = Len(S) - 1
    <3> DEFINE k == Len(S) - 1
    <3>1. k \in Nat /\ \A i \in 1 .. k : S[i] \in Reachable(prog)
      BY <1>1, <1>2
    <3>2. S' = SubSeq(S, 1, k)
      BY <2>1
    <3> HIDE DEF k
    <3>3. SubSeq(S, 1, k) \in Seq(Reachable(prog)) /\ Len(SubSeq(S, 1, k)) = IF 1 <= k THEN k - 1 + 1 ELSE 0
      BY <3>1, SubSeqProperties
    <3>4. ASSUME NEW l, l = IF 1 <= k THEN k - 1 + 1 ELSE 0 PROVE l = k
      <4>1. k \in Nat
        BY <3>1
      <4> QED
        BY <3>4, <4>1
    <3>5. Len(SubSeq(S, 1, k)) = k
      BY <3>3, <3>4, Zenon
    <3>7. Len(S') = k
      BY <3>2, <3>5, Zenon
    <3>8. S' \in Seq(Reachable(prog))
      BY <3>2, <3>3, Zenon
    <3>9. k = Len(S) - 1
      BY DEF k
    <3> QED
      BY <3>7, <3>8, <3>9, Zenon
  <2> QED
    BY <1>1, <1>2, <1>4, <1>5, <2>2 DEF n
<1> QED
  BY <1>6, <1>7, <1>8

(* The walk stays on functions that are reached. *)
LEMMA WalkStep ==
  ASSUME GraphInv, WalkInv, [Next]_vars
  PROVE  WalkInv'
<1>0. prog \in Programs
  BY DEF GraphInv
<1>p. prog' = prog /\ Reachable(prog)' = Reachable(prog)
  BY DEF Next, vars, Build, EliminatePhi, NextFunction, FloodAll, Walk, Done
<1>1. CASE Build \/ EliminatePhi \/ FloodAll \/ Done
  <2>1. pc' # "walk"
    BY <1>1 DEF Build, EliminatePhi, FloodAll, Done, vars
  <2> QED
    BY <2>1 DEF WalkInv
<1>2. CASE NextFunction
  <2>1. /\ pc' = "walk" => S' = <<"main">>
        /\ visited' = [f \in DOMAIN prog |-> {}]
    BY <1>2 DEF NextFunction
  <2>2. "main" \in Reachable(prog)
    BY <1>0, ReachableFacts
  <2>3. <<"main">> \in Seq(Reachable(prog)) /\ <<"main">> # <<>>
    BY <2>2
  <2> QED
    BY <1>p, <2>1, <2>3 DEF WalkInv
<1>3. CASE Walk
  <2>1. /\ S' \in Seq(Reachable(prog))
        /\ S[Len(S)] \in Reachable(prog)
        /\ visited' = [visited EXCEPT ![S[Len(S)]] = @ \cup Marked(S[Len(S)])]
        /\ Marked(S[Len(S)]) \subseteq ToSet(Callees(prog, S[Len(S)]))
    BY <1>3, TurnFacts
  <2>2. pc' = "walk" => S' # <<>>
    BY <1>3 DEF Walk
  <2>3. visited \in [DOMAIN prog -> SUBSET (DOMAIN prog \cup {"none"})]
    BY <1>3 DEF Walk, WalkInv
  <2>4. /\ S[Len(S)] \in DOMAIN prog
        /\ Marked(S[Len(S)]) \subseteq DOMAIN prog \cup {"none"}
    BY <1>0, <2>1, ReachableFacts
  <2>5. visited' \in [DOMAIN prog -> SUBSET (DOMAIN prog \cup {"none"})]
    BY <2>1, <2>3, <2>4
  <2> QED
    BY <1>p, <2>1, <2>2, <2>5 DEF WalkInv
<1>4. CASE UNCHANGED vars
  BY <1>4, <1>p DEF vars, WalkInv
<1> QED
  BY <1>1, <1>2, <1>3, <1>4 DEF Next

(* What is tainted stays justified. *)
LEMMA TaintStep ==
  ASSUME GraphInv, TaintInv, [Next]_vars
  PROVE  TaintInv'
<1>0. prog \in Programs /\ IsFiniteSet(edges)
  BY DEF GraphInv
<1>p. prog' = prog
  BY DEF Next, vars, Build, EliminatePhi, NextFunction, FloodAll, Walk, Done
<1>f. edges' = edges => FlowsTo(edges)' = FlowsTo(edges)
  BY <1>p DEF FlowsTo
<1>1. CASE Build \/ EliminatePhi
  <2>1. pc \in {"build", "phi"} /\ pc' = "phi" /\ UNCHANGED <<tainted, conds>>
    BY <1>1 DEF Build, EliminatePhi
  <2> QED
    BY <2>1 DEF TaintInv
<1>2. CASE NextFunction
  <2>1. pc = "phi" /\ UNCHANGED <<tainted, conds>>
    BY <1>2 DEF NextFunction
  <2> QED
    BY <2>1 DEF TaintInv
<1>3. CASE FloodAll
  <2>1. /\ pc' = "done" /\ edges' = edges
        /\ tainted' = ReachedFrom(Spreading, SourcesOf(prog)) /\ conds' \subseteq tainted'
    BY <1>3 DEF FloodAll, Values
  <2>2. tainted' = FlowsTo(edges)
    BY <2>1 DEF FlowsTo, Spreading
  <2> QED
    BY <1>f, <2>1, <2>2 DEF TaintInv
<1>4. CASE Walk
  <2> DEFINE n == Last(S)
  <2>1. /\ pc = "walk" /\ pc' \in {"walk", "done"} /\ edges' = edges
        /\ \E kept : LET T == floodFunction(IF prev = "none" THEN tainted
                                 ELSE floodFunctionFromFunction(tainted, n, prev, kept), n)
                     IN  /\ conds' = conds \cup (CallConds(prog, n) \cap T)
                         /\ tainted' = IF prev # "none" /\ ~ down THEN T \ nodes[prev] ELSE T
    BY <1>4 DEF Walk
  <2> HIDE DEF n
  <2>2. tainted \subseteq FlowsTo(edges) /\ conds \subseteq FlowsTo(edges)
    BY <2>1 DEF TaintInv
  <2>3. PICK kept :
          LET T == floodFunction(IF prev = "none" THEN tainted
                     ELSE floodFunctionFromFunction(tainted, n, prev, kept), n)
          IN  /\ conds' \subseteq conds \cup T
              /\ tainted' \subseteq T
    BY <2>1
  <2> DEFINE T0 == IF prev = "none" THEN tainted ELSE floodFunctionFromFunction(tainted, n, prev, kept)
  <2>4. T0 \subseteq FlowsTo(edges)
    BY <1>0, <2>2, EnterWithin
  <2>5. conds' \subseteq conds \cup floodFunction(T0, n) /\ tainted' \subseteq floodFunction(T0, n)
    BY <2>3
  <2> HIDE DEF T0
  <2>6. floodFunction(T0, n) \subseteq FlowsTo(edges)
    BY <1>0, <2>4, FloodWithin
  <2>7. tainted' \cup conds' \subseteq FlowsTo(edges)'
    BY <1>f, <2>1, <2>2, <2>5, <2>6
  <2> QED
    BY <2>1, <2>7 DEF TaintInv
<1>5. CASE Done \/ UNCHANGED vars
  <2>1. UNCHANGED <<pc, edges, tainted, conds>>
    BY <1>5 DEF Done, vars
  <2> QED
    BY <1>f, <2>1 DEF TaintInv
<1> QED
  BY <1>1, <1>2, <1>3, <1>4, <1>5 DEF Next

(* The invariant is inductive. *)
LEMMA DepGraphInvariant == Spec => []DepGraphInv
<1>1. Init => DepGraphInv
  <2> SUFFICES ASSUME Init PROVE DepGraphInv
    OBVIOUS
  <2>1. /\ prog \in Programs /\ pc = "build" /\ edges = {} /\ tainted = {} /\ conds = {}
    BY DEF Init
  <2> QED
    BY <2>1, FS_EmptySet DEF DepGraphInv, GraphInv, WalkInv, TaintInv, Stages
<1>2. DepGraphInv /\ [Next]_vars => DepGraphInv'
  BY GraphStep, WalkStep, TaintStep DEF DepGraphInv
<1> QED
  BY <1>1, <1>2, PTL DEF Spec

-----------------------------------------------------------------------------
(* The theorems. *)

(* In every program, whatever phis were eliminated and in whatever order   *)
(* the walk meets its functions, what it taints and the conditions it      *)
(* reports are among those the context insensitive flood finds.            *)
THEOREM WalkWithinFlow == Spec => []WithinInsensitive
<1>1. DepGraphInv => WithinInsensitive
  BY DEF DepGraphInv, TaintInv, WithinInsensitive
<1> QED
  BY <1>1, DepGraphInvariant, PTL

(* In every program, recursive or not, each turn of the walk leaves less   *)
(* ahead of it, so it takes finitely many.                                 *)
THEOREM WalkShrinks == Spec => WalkProgresses
<1>1. DepGraphInv /\ [Next]_vars => [pc = "walk" => Ahead' < Ahead]_vars
  <2> SUFFICES ASSUME DepGraphInv, Next, pc = "walk" PROVE Ahead' < Ahead
    BY DEF vars
  <2> DEFINE n == S[Len(S)]
             D == Reachable(prog)
             A == {c \in D \X (D \cup {"none"}) : c[2] \in Left(c[1])}
  <2>0. GraphInv /\ WalkInv /\ prog \in Programs /\ DOMAIN nodes = D
    BY DEF DepGraphInv, GraphInv
  <2>1. Walk
    BY DEF Next, Build, EliminatePhi, NextFunction, FloodAll, Done
  <2>2. /\ Len(S) \in Nat \ {0} /\ Len(S') \in Nat /\ n \in D
        /\ visited' = [visited EXCEPT ![n] = @ \cup Marked(n)]
        /\ Marked(n) \subseteq ToSet(Callees(prog, n))
        /\ \/ Len(S') <= Len(S) + 1 /\ Marked(n) \ visited[n] # {}
           \/ Len(S') = Len(S) - 1
    <3>1. S' \in Seq(D)
      BY <2>0, <2>1, TurnFacts
    <3> QED
      BY <2>0, <2>1, <3>1, TurnFacts
  <2>3. UNCHANGED <<prog, nodes>> /\ visited \in [DOMAIN prog -> SUBSET (DOMAIN prog \cup {"none"})]
    BY <2>0, <2>1 DEF Walk, WalkInv
  <2>4. /\ D \subseteq DOMAIN prog /\ IsFiniteSet(D)
        /\ \A f \in D : ToSet(Callees(prog, f)) \subseteq D \cup {"none"}
    BY <2>0, ReachableFacts
  <2>5. Ahead = 2 * Cardinality(A) + Len(S)
    BY <2>0 DEF Ahead
  <2> DEFINE B == {c \in D \X (D \cup {"none"}) : c[2] \in Left(c[1])'}
  <2>6. Ahead' = 2 * Cardinality(B) + Len(S')
    <3>1. DOMAIN nodes' = D
      BY <2>0, <2>3
    <3> HIDE DEF D
    <3> QED
      BY <3>1 DEF Ahead
  <2>7. \A f \in D : Left(f)' = IF f = n THEN Left(f) \ Marked(n) ELSE Left(f)
    <3>1. \A f \in D : visited'[f] = IF f = n THEN visited[f] \cup Marked(n) ELSE visited[f]
      BY <2>2, <2>3, <2>4
    <3> QED
      BY <2>3, <3>1 DEF Left
  <2>f. IsFiniteSet(D \X (D \cup {"none"}))
    BY <2>4, FS_Singleton, FS_Union, FS_Product
  <2> HIDE DEF n, D
  <2>8. B \subseteq A /\ IsFiniteSet(A)
    BY <2>7, <2>f, FS_Subset
  <2>9. Cardinality(B) <= Cardinality(A) /\ Cardinality(A) \in Nat /\ Cardinality(B) \in Nat
    BY <2>8, FS_Subset, FS_CardinalityType
  <2>10. CASE Len(S') = Len(S) - 1
    BY <2>2, <2>5, <2>6, <2>9, <2>10
  <2>11. CASE Len(S') <= Len(S) + 1 /\ Marked(n) \ visited[n] # {}
    <3>1. PICK x \in Marked(n) : x \notin visited[n]
      BY <2>11
    <3>0. PICK m \in D : m = n
      BY <2>2
    <3>2. x \in Left(m) /\ x \in D \cup {"none"}
      BY <2>2, <2>4, <3>0, <3>1 DEF Left
    <3>n. x \notin Left(m)'
      BY <2>7, <3>0, <3>1
    <3>3. <<m, x>> \in D \X (D \cup {"none"}) /\ <<m, x>>[1] = m /\ <<m, x>>[2] = x
      BY <3>2
    <3>4. <<m, x>> \in A /\ <<m, x>> \notin B
      BY <3>2, <3>3, <3>n
    <3> HIDE DEF A, B
    <3>5. Cardinality(B) < Cardinality(A)
      BY <2>8, <2>9, <3>4, FS_Subset
    <3> QED
      BY <2>2, <2>5, <2>6, <2>9, <2>11, <3>5
  <2> QED
    BY <2>2, <2>10, <2>11
<1> QED
  BY <1>1, DepGraphInvariant, PTL DEF Spec, WalkProgresses

-----------------------------------------------------------------------------
(* Phi elimination.                                                        *)
(*                                                                         *)
(* The graph g as built: its edges, its nodes, the versions that phis      *)
(* choose from and define, the results among them, the nodes that are      *)
(* reset, and the edges from the conditions of phis.                       *)
Built(P) ==
  [edges |-> Edges(P), nodes |-> Versions(P) \cup Ends(Edges(P)), versions |-> Versions(P),
   results |-> Results(P), resets |-> ResetsOf(P),
   conds |-> UNION {{<<c, p.res>> : c \in p.conds} : p \in UNION {PhisOf(P, f) : f \in DOMAIN P}}]

(* What memory SSA form means for it: a result is computed from versions   *)
(* and the conditions of its phi, and versions that have the same parents  *)
(* outside the versions are both reset or both not.                        *)
BuiltOK(g) ==
  /\ g.results \subseteq g.versions /\ g.versions \subseteq g.nodes
  /\ g.edges \subseteq g.nodes \X g.nodes
  /\ \A a, b : <<a, b>> \in g.conds => a \notin g.versions /\ b \in g.results
  /\ \A a, b : <<a, b>> \in g.edges /\ b \in g.results => a \in g.versions \/ <<a, b>> \in g.conds
  /\ g.results \cap g.resets = {}
  /\ \A a, b \in g.versions \ g.results :
       \/ a \in g.resets <=> b \in g.resets
       \/ \E n \in g.nodes \ g.versions : ~ (<<n, a>> \in g.edges <=> <<n, b>> \in g.edges)

(* The edges as built without the conditions of the phis that are gone. *)
Data(g, gone) == {e \in g.edges : ~ (e \in g.conds /\ e[2] \in gone)}

(* C holds what flows from it, whatever the conditions of phis. *)
Closed(g, C) == \A a, b : <<a, b>> \in g.edges \ g.conds /\ a \in C \ g.resets => b \in C

Flows(g, a, b) == \A C : Closed(g, C) /\ a \in C \ g.resets => b \in C

(* Each node has a node that stands for it: itself while it is left, then  *)
(* the operand that it was merged into.  The graph that is left, E, has    *)
(* the data edges between the nodes that stand for their ends, and every   *)
(* edge of it is an edge as built or made of such edges.                   *)
Merged(g, gone, E, rep) ==
  /\ gone \subseteq g.versions
  /\ E \subseteq (g.nodes \ gone) \X (g.nodes \ gone)
  /\ rep \in [g.nodes -> g.nodes]
  /\ \A n \in g.nodes : n \notin gone => rep[n] = n
  /\ \A n \in gone : rep[n] \in g.versions \ (g.results \cup gone)
  /\ \A n \in g.nodes \ g.versions : \A b \in g.nodes \ gone : <<n, b>> \in E <=> <<n, b>> \in g.edges
  /\ \A a, b : <<a, b>> \in Data(g, gone) =>
       <<rep[a], rep[b]>> \in E \/ (rep[a] = rep[b] /\ rep[a] \notin g.results)
  /\ \A a, b : <<a, b>> \in E => <<a, b>> \in g.edges \/ Flows(g, a, b)
  /\ \A a, b : <<a, b>> \in Data(g, gone) /\ b \in gone \cap g.results => rep[a] = rep[b]
  /\ \A n \in g.nodes \ g.results : n \in g.resets <=> rep[n] \in g.resets

(* What is left of the graph when the phi q and the operands O gave way to *)
(* op.                                                                     *)
Folded(E, q, O, op) ==
  {e \in E \cup {<<op, k>> : k \in Children(E, q)} :
     e[1] \notin {q} \cup (O \ {op}) /\ e[2] \notin {q} \cup (O \ {op})}

LEMMA FoldedPairs ==
  ASSUME NEW U, NEW E \in SUBSET (U \X U), NEW q, NEW O, NEW op \in U
  PROVE  /\ Folded(E, q, O, op) \subseteq U \X U
         /\ \A a, b : <<a, b>> \in Folded(E, q, O, op) <=>
              /\ <<a, b>> \in E \/ (a = op /\ <<q, b>> \in E)
              /\ a \notin {q} \cup (O \ {op}) /\ b \notin {q} \cup (O \ {op})
<1>1. \A k : k \in Children(E, q) <=> <<q, k>> \in E
  <2>1. \A k : k \in Children(E, q) <=> \E e \in E : e[1] = q /\ e[2] = k
    BY DEF Children
  <2>2. \A e \in E : e = <<e[1], e[2]>>
    OBVIOUS
  <2> QED
    BY <2>1, <2>2
<1>2. \A k \in Children(E, q) : k \in U
  <2>1. \A k : <<q, k>> \in E => <<q, k>> \in U \X U
    OBVIOUS
  <2> QED
    BY <1>1, <2>1
<1>3. Folded(E, q, O, op) \subseteq U \X U
  BY <1>2 DEF Folded
<1>4. \A a, b : <<a, b>> \in {<<op, k>> : k \in Children(E, q)} <=> a = op /\ <<q, b>> \in E
  BY <1>1
<1>5. \A a, b : <<a, b>>[1] = a /\ <<a, b>>[2] = b
  OBVIOUS
<1> QED
  BY <1>3, <1>4, <1>5 DEF Folded

(* Merging the operands of a phi, which have the same neighbours, keeps    *)
(* that relation: what stood for the phi or an operand is now op.          *)
LEMMA MergeStep ==
  ASSUME NEW g, BuiltOK(g), NEW gone, NEW E, NEW rep, Merged(g, gone, E, rep),
         NEW q \in g.results \ gone, NEW O \in SUBSET (g.versions \ (g.results \cup gone)),
         NEW op \in O,
         \A a \in O : <<a, q>> \in E,
         \A a \in g.versions : <<a, q>> \in E => a \in O,
         \A a \in O : \A k : <<a, k>> \in E <=> <<op, k>> \in E,
         \A a \in O : \A k : <<k, a>> \in E <=> <<k, op>> \in E
  PROVE  \E r : Merged(g, gone \cup {q} \cup (O \ {op}), Folded(E, q, O, op), r)
<1> DEFINE Z == {q} \cup O
           F == Folded(E, q, O, op)
           G == gone \cup {q} \cup (O \ {op})
           r == [n \in g.nodes |-> IF rep[n] \in Z THEN op ELSE rep[n]]
<1>b. /\ g.results \subseteq g.versions /\ g.versions \subseteq g.nodes
      /\ g.edges \subseteq g.nodes \X g.nodes
      /\ \A a, b : <<a, b>> \in g.conds => a \notin g.versions /\ b \in g.results
      /\ \A a, b : <<a, b>> \in g.edges /\ b \in g.results => a \in g.versions \/ <<a, b>> \in g.conds
      /\ g.results \cap g.resets = {}
  BY DEF BuiltOK
<1>m. /\ gone \subseteq g.versions
      /\ E \subseteq (g.nodes \ gone) \X (g.nodes \ gone)
      /\ rep \in [g.nodes -> g.nodes]
      /\ \A n \in g.nodes : n \notin gone => rep[n] = n
      /\ \A n \in gone : rep[n] \in g.versions \ (g.results \cup gone)
  BY DEF Merged
<1>e. /\ F \subseteq (g.nodes \ gone) \X (g.nodes \ gone)
      /\ \A a, b : <<a, b>> \in F <=>
           /\ <<a, b>> \in E \/ (a = op /\ <<q, b>> \in E)
           /\ a \notin {q} \cup (O \ {op}) /\ b \notin {q} \cup (O \ {op})
  <2>1. PICK U : U = g.nodes \ gone
    OBVIOUS
  <2>2. op \in U /\ E \in SUBSET (U \X U)
    BY <1>b, <1>m, <2>1
  <2> HIDE DEF F
  <2>3. /\ F \subseteq U \X U
        /\ \A a, b : <<a, b>> \in F <=>
             /\ <<a, b>> \in E \/ (a = op /\ <<q, b>> \in E)
             /\ a \notin {q} \cup (O \ {op}) /\ b \notin {q} \cup (O \ {op})
    BY <2>2, FoldedPairs DEF F
  <2> QED
    BY <2>1, <2>3
<1>r. /\ r \in [g.nodes -> g.nodes]
      /\ \A n \in g.nodes : rep[n] \in Z => r[n] = op
      /\ \A n \in g.nodes : rep[n] \notin Z => r[n] = rep[n]
  BY <1>b, <1>m
<1>z. q # op /\ q \in Z /\ op \in Z /\ O \subseteq Z /\ Z \cap gone = {} /\ Z \subseteq g.versions
  BY <1>b
<1>g. \A n : n \in G <=> n \in gone \/ (n \in Z /\ n # op)
  BY <1>z
<1>d. \A a, b : <<a, b>> \in Data(g, G) => <<a, b>> \in Data(g, gone)
  BY <1>g DEF Data
<1>n. \A a, b : <<a, b>> \in Data(g, gone) => a \in g.nodes /\ b \in g.nodes
  BY <1>b DEF Data
<1> HIDE DEF F, G, r, Z
<1>1. G \subseteq g.versions /\ F \subseteq (g.nodes \ G) \X (g.nodes \ G)
  <2>1. G \subseteq g.versions
    BY <1>g, <1>m, <1>z
  <2>2. ASSUME NEW x \in F
        PROVE  x \in (g.nodes \ G) \X (g.nodes \ G)
    <3>1. x = <<x[1], x[2]>> /\ x[1] \in g.nodes \ gone /\ x[2] \in g.nodes \ gone
      BY <1>e, <2>2
    <3>2. x[1] \notin {q} \cup (O \ {op}) /\ x[2] \notin {q} \cup (O \ {op})
      BY <2>2 DEF F, Folded
    <3> QED
      BY <3>1, <3>2 DEF G
  <2> QED
    BY <2>1, <2>2
<1>2. \A n \in g.nodes : n \notin G => r[n] = n
  <2>1. ASSUME NEW n \in g.nodes, n \notin G
        PROVE  r[n] = n
    <3>1. n \notin gone /\ rep[n] = n
      BY <1>g, <1>m, <2>1
    <3> QED
      BY <1>g, <1>r, <2>1, <3>1
  <2> QED
    BY <2>1
<1>3. \A n \in G : r[n] \in g.versions \ (g.results \cup G)
  <2>1. ASSUME NEW n \in G
        PROVE  r[n] \in g.versions \ (g.results \cup G)
    <3>0. n \in g.nodes
      BY <1>1, <1>b
    <3>1. CASE rep[n] \in Z
      <4>1. op \in g.versions \ (g.results \cup G)
        BY <1>g
      <4> QED
        BY <1>r, <3>0, <3>1, <4>1
    <3>2. CASE rep[n] \notin Z
      <4>1. n \in gone
        BY <1>g, <1>m, <3>0, <3>2
      <4> QED
        BY <1>g, <1>m, <1>r, <3>0, <3>2, <4>1
    <3> QED
      BY <3>1, <3>2
  <2> QED
    BY <2>1
<1>4. \A n \in g.nodes \ g.versions : \A b \in g.nodes \ G : <<n, b>> \in F <=> <<n, b>> \in g.edges
  <2>1. ASSUME NEW n \in g.nodes \ g.versions, NEW b \in g.nodes \ G
        PROVE  <<n, b>> \in F <=> <<n, b>> \in g.edges
    <3>1. n # op /\ n \notin {q} \cup (O \ {op}) /\ b \notin {q} \cup (O \ {op}) /\ b \notin gone
      BY <1>z, <1>g DEF Z
    <3>2. <<n, b>> \in E <=> <<n, b>> \in g.edges
      BY <3>1 DEF Merged
    <3> QED
      BY <1>e, <3>1, <3>2
  <2> QED
    BY <2>1
<1>5. ASSUME NEW a, NEW b, <<a, b>> \in Data(g, G)
      PROVE  <<r[a], r[b]>> \in F \/ (r[a] = r[b] /\ r[a] \notin g.results)
  <2>0. a \in g.nodes /\ b \in g.nodes /\ <<a, b>> \in Data(g, gone)
    BY <1>5, <1>d, <1>n
  <2>1. <<rep[a], rep[b]>> \in E \/ (rep[a] = rep[b] /\ rep[a] \notin g.results)
    BY <2>0 DEF Merged
  <2>o. op \notin g.results /\ op \notin gone
    OBVIOUS
  <2>2. CASE rep[a] = rep[b] /\ rep[a] \notin g.results
    BY <1>r, <2>0, <2>2, <2>o
  <2>3. CASE rep[a] \in Z /\ rep[b] \in Z
    BY <1>r, <2>0, <2>3, <2>o
  <2>4. CASE <<rep[a], rep[b]>> \in E /\ rep[a] \in Z /\ rep[b] \notin Z
    <3>1. <<op, rep[b]>> \in E \/ <<q, rep[b]>> \in E
      BY <2>4 DEF Z
    <3>2. op \notin {q} \cup (O \ {op}) /\ rep[b] \notin {q} \cup (O \ {op})
      BY <1>z, <2>4 DEF Z
    <3>3. <<op, rep[b]>> \in F
      BY <1>e, <3>1, <3>2
    <3> QED
      BY <1>r, <2>0, <2>4, <3>3
  <2>5. CASE <<rep[a], rep[b]>> \in E /\ rep[a] \notin Z /\ rep[b] \in O
    <3>1. <<rep[a], op>> \in E
      BY <2>5
    <3>2. rep[a] \notin {q} \cup (O \ {op}) /\ op \notin {q} \cup (O \ {op})
      BY <1>z, <2>5 DEF Z
    <3>3. <<rep[a], op>> \in F
      BY <1>e, <3>1, <3>2
    <3> QED
      BY <1>r, <1>z, <2>0, <2>5, <3>3
  <2>6. CASE <<rep[a], rep[b]>> \in E /\ rep[a] \notin Z /\ rep[b] = q
    <3>1. rep[a] \notin g.versions
      BY <2>6 DEF Z
    <3>2. a \notin gone /\ rep[a] = a
      BY <1>m, <2>0, <3>1
    <3>3. b \notin gone /\ b = q
      BY <1>m, <2>0, <2>6
    <3>4. <<a, q>> \in g.conds
      BY <1>b, <2>0, <3>1, <3>2, <3>3 DEF Data
    <3>5. q \in G
      BY <1>g, <1>z
    <3> QED
      BY <1>5, <3>3, <3>4, <3>5 DEF Data
  <2>7. CASE <<rep[a], rep[b]>> \in E /\ rep[a] \notin Z /\ rep[b] \notin Z
    <3>1. <<rep[a], rep[b]>> \in F
      BY <1>e, <2>7 DEF Z
    <3> QED
      BY <1>r, <2>0, <2>7, <3>1
  <2>8. rep[b] \in Z <=> rep[b] = q \/ rep[b] \in O
    BY DEF Z
  <2> QED
    BY <2>1, <2>2, <2>3, <2>4, <2>5, <2>6, <2>7, <2>8
<1>6. ASSUME NEW a, NEW b, <<a, b>> \in F
      PROVE  <<a, b>> \in g.edges \/ Flows(g, a, b)
  <2>1. CASE <<a, b>> \in E
    BY <2>1 DEF Merged
  <2>2. CASE a = op /\ <<q, b>> \in E
    <3>1. <<op, q>> \in g.edges \/ Flows(g, op, q)
      BY DEF Merged
    <3>2. <<q, b>> \in g.edges \/ Flows(g, q, b)
      BY <2>2 DEF Merged
    <3>3. <<op, q>> \notin g.conds /\ <<q, b>> \notin g.conds
      BY <1>b
    <3>4. ASSUME NEW C, Closed(g, C), op \in C \ g.resets
          PROVE  b \in C
      <4>1. q \in C \ g.resets
        BY <1>b, <3>1, <3>3, <3>4 DEF Closed, Flows
      <4> QED
        BY <3>2, <3>3, <3>4, <4>1 DEF Closed, Flows
    <3> QED
      BY <2>2, <3>4 DEF Flows
  <2> QED
    BY <1>6, <1>e, <2>1, <2>2
<1>7. ASSUME NEW a, NEW b, <<a, b>> \in Data(g, G), b \in G \cap g.results
      PROVE  r[a] = r[b]
  <2>0. a \in g.nodes /\ b \in g.nodes /\ <<a, b>> \in Data(g, gone)
    BY <1>7, <1>d, <1>n
  <2>1. CASE b \in gone
    <3>1. rep[a] = rep[b]
      BY <1>7, <2>0, <2>1 DEF Merged
    <3> QED
      BY <1>r, <2>0, <3>1
  <2>2. CASE b \notin gone
    <3>1. b = q /\ rep[b] = q
      BY <1>7, <1>g, <1>m, <2>0, <2>2 DEF Z
    <3>2. a \in g.versions
      BY <1>7, <1>b DEF Data
    <3>3. rep[a] \in g.versions
      BY <1>m, <2>0, <3>2
    <3>4. <<rep[a], rep[b]>> \in E \/ (rep[a] = rep[b] /\ rep[a] \notin g.results)
      BY <2>0 DEF Merged
    <3>5. rep[a] \in Z /\ rep[b] \in Z
      BY <1>z, <3>1, <3>3, <3>4
    <3> QED
      BY <1>r, <2>0, <3>5
  <2> QED
    BY <2>1, <2>2
<1>8. ASSUME NEW n \in g.nodes \ g.results
      PROVE  n \in g.resets <=> r[n] \in g.resets
  <2>1. n \in g.resets <=> rep[n] \in g.resets
    BY DEF Merged
  <2>2. CASE rep[n] \notin Z
    BY <1>r, <2>1, <2>2
  <2>3. CASE rep[n] \in Z
    <3>1. rep[n] # q
      BY <1>m
    <3>2. rep[n] \in O
      BY <2>3, <3>1 DEF Z
    <3>3. PICK o \in O : o = rep[n]
      BY <3>2
    <3>4. \A m \in g.nodes \ g.versions : <<m, o>> \in g.edges <=> <<m, op>> \in g.edges
      <4>1. ASSUME NEW m \in g.nodes \ g.versions
            PROVE  <<m, o>> \in g.edges <=> <<m, op>> \in g.edges
        <5>1. o \in g.nodes \ gone /\ op \in g.nodes \ gone
          BY <1>b
        <5>2. /\ <<m, o>> \in E <=> <<m, o>> \in g.edges
              /\ <<m, op>> \in E <=> <<m, op>> \in g.edges
          BY <5>1 DEF Merged
        <5> QED
          BY <5>2
      <4> QED
        BY <4>1
    <3>5. o \in g.resets <=> op \in g.resets
      BY <3>4 DEF BuiltOK
    <3> QED
      BY <1>r, <2>1, <2>3, <3>3, <3>5
  <2> QED
    BY <2>2, <2>3
<1>9. Merged(g, G, F, r)
  BY <1>1, <1>2, <1>3, <1>4, <1>5, <1>6, <1>7, <1>8, <1>r DEF Merged
<1> QED
  BY <1>9 DEF F, G

(* The successors of a set, for edges that are pairs. *)
LEMMA SuccessorOf ==
  ASSUME NEW E, NEW C, NEW a \in C, NEW b, <<a, b>> \in E
  PROVE  b \in Successors(E, C)
<1>1. <<a, b>> \in {x \in E : x[1] \in C} /\ <<a, b>>[2] = b
  OBVIOUS
<1> QED
  BY <1>1 DEF Successors

LEMMA SuccessorsWithin ==
  ASSUME NEW N, NEW E \in SUBSET (N \X N), NEW C,
         \A a, b : a \in C /\ <<a, b>> \in E => b \in C
  PROVE  Successors(E, C) \subseteq C
<1>1. ASSUME NEW e \in E, e[1] \in C
      PROVE  e[2] \in C
  <2>1. e = <<e[1], e[2]>>
    OBVIOUS
  <2> QED
    BY <1>1, <2>1
<1> QED
  BY <1>1 DEF Successors

(* Where nothing is merged yet, every node stands for itself. *)
LEMMA MergedAtFirst ==
  ASSUME NEW g, BuiltOK(g)
  PROVE  Merged(g, {}, g.edges, [n \in g.nodes |-> n])
<1> DEFINE r == [n \in g.nodes |-> n]
<1>1. g.edges \subseteq g.nodes \X g.nodes
  BY DEF BuiltOK
<1>2. r \in [g.nodes -> g.nodes] /\ \A n \in g.nodes : r[n] = n
  OBVIOUS
<1> HIDE DEF r
<1>3. \A a, b : <<a, b>> \in Data(g, {}) => <<a, b>> \in g.edges /\ r[a] = a /\ r[b] = b
  BY <1>1, <1>2 DEF Data
<1>4. Merged(g, {}, g.edges, r)
  BY <1>1, <1>2, <1>3 DEF Merged
<1> QED
  BY <1>4 DEF r

(* The nodes that are left are reached by the sources in the merged graph  *)
(* exactly as in the graph as built.                                       *)
LEMMA MergedFlow ==
  ASSUME NEW g, BuiltOK(g), IsFiniteSet(g.edges),
         NEW gone, NEW E, IsFiniteSet(E), NEW rep, Merged(g, gone, E, rep),
         NEW Src, IsFiniteSet(Src), Src \cap g.versions = {}
  PROVE  \A n : n \notin gone =>
           (n \in ReachedFrom({e \in Data(g, gone) : e[1] \notin g.resets}, Src)
              <=> n \in ReachedFrom({e \in E : e[1] \notin g.resets}, Src))
<1> DEFINE DS == {e \in Data(g, gone) : e[1] \notin g.resets}
           ES == {e \in E : e[1] \notin g.resets}
           FD == ReachedFrom(DS, Src)
           FE == ReachedFrom(ES, Src)
<1>b. /\ g.results \subseteq g.versions /\ g.versions \subseteq g.nodes
      /\ g.edges \subseteq g.nodes \X g.nodes
      /\ g.results \cap g.resets = {}
  BY DEF BuiltOK
<1>m. /\ gone \subseteq g.versions
      /\ E \subseteq (g.nodes \ gone) \X (g.nodes \ gone)
      /\ rep \in [g.nodes -> g.nodes]
      /\ \A n \in g.nodes : n \notin gone => rep[n] = n
  BY DEF Merged
<1>1. IsFiniteSet(DS) /\ IsFiniteSet(ES)
  <2>1. DS \subseteq g.edges /\ ES \subseteq E
    BY DEF Data
  <2> QED
    BY <2>1, FS_Subset
<1>d. /\ DS \subseteq g.nodes \X g.nodes
      /\ \A a, b : <<a, b>> \in DS <=> <<a, b>> \in Data(g, gone) /\ a \notin g.resets
  BY <1>b DEF Data
<1>x. /\ ES \subseteq g.nodes \X g.nodes
      /\ \A a, b : <<a, b>> \in ES <=> <<a, b>> \in E /\ a \notin g.resets
  BY <1>m
<1> HIDE DEF DS, ES
<1>2. /\ Src \subseteq FD /\ Successors(DS, FD) \subseteq FD
      /\ \A C : Src \subseteq C /\ Successors(DS, C) \subseteq C => FD \subseteq C
  BY <1>1, ReachedIsLeast
<1>3. /\ Src \subseteq FE /\ Successors(ES, FE) \subseteq FE
      /\ \A C : Src \subseteq C /\ Successors(ES, C) \subseteq C => FE \subseteq C
  BY <1>1, ReachedIsLeast
<1> HIDE DEF FD, FE
<1>4. \A a, b : a \in FD /\ <<a, b>> \in DS => b \in FD
  <2>1. \A a, b : a \in FD /\ <<a, b>> \in DS => b \in Successors(DS, FD)
    BY SuccessorOf
  <2> QED
    BY <1>2, <2>1
<1>5. \A a, b : a \in FE /\ <<a, b>> \in ES => b \in FE
  <2>1. \A a, b : a \in FE /\ <<a, b>> \in ES => b \in Successors(ES, FE)
    BY SuccessorOf
  <2> QED
    BY <1>3, <2>1
<1>6. FE \subseteq FD
  <2>1. Closed(g, FD)
    <3>1. ASSUME NEW a, NEW b, <<a, b>> \in g.edges \ g.conds, a \in FD \ g.resets
          PROVE  b \in FD
      <4>1. <<a, b>> \in Data(g, gone)
        BY <3>1 DEF Data
      <4> QED
        BY <1>4, <1>d, <3>1, <4>1
    <3> QED
      BY <3>1 DEF Closed
  <2>2. ASSUME NEW a, NEW b, a \in FD, <<a, b>> \in ES
        PROVE  b \in FD
    <3>1. <<a, b>> \in E /\ a \notin g.resets /\ b \notin gone
      BY <1>m, <1>x, <2>2
    <3>2. <<a, b>> \in g.edges \/ Flows(g, a, b)
      BY <3>1 DEF Merged
    <3>3. CASE <<a, b>> \in g.edges
      <4>1. <<a, b>> \in Data(g, gone)
        BY <3>1, <3>3 DEF Data
      <4> QED
        BY <1>4, <1>d, <2>2, <3>1, <4>1
    <3>4. CASE Flows(g, a, b)
      BY <2>1, <2>2, <3>1, <3>4 DEF Flows
    <3> QED
      BY <3>2, <3>3, <3>4
  <2>3. Successors(ES, FD) \subseteq FD
    BY <1>x, <2>2, SuccessorsWithin
  <2> QED
    BY <1>2, <1>3, <2>3
<1>7. ASSUME NEW n \in FD, n \notin gone
      PROVE  n \in FE
  <2> DEFINE X == (FE \ g.nodes) \cup
                    {k \in g.nodes : rep[k] \in FE /\ (rep[k] \in g.resets => k \in g.resets)}
  <2>1. Src \subseteq X
    <3>1. ASSUME NEW k \in Src
          PROVE  k \in X
      <4>1. k \in FE /\ (k \in g.nodes => rep[k] = k)
        BY <1>3, <1>m
      <4> QED
        BY <4>1
    <3> QED
      BY <3>1
  <2>2. ASSUME NEW a, NEW b, a \in X, <<a, b>> \in DS
        PROVE  b \in X
    <3>1. /\ a \in g.nodes /\ b \in g.nodes /\ a \notin g.resets /\ <<a, b>> \in Data(g, gone)
      BY <1>d, <2>2
    <3>2. rep[a] \in FE /\ rep[a] \notin g.resets
      BY <2>2, <3>1
    <3>3. CASE rep[a] = rep[b]
      BY <3>1, <3>2, <3>3
    <3>4. CASE rep[a] # rep[b]
      <4>1. <<rep[a], rep[b]>> \in E
        BY <3>1, <3>4 DEF Merged
      <4>2. rep[b] \in FE
        BY <1>5, <1>x, <3>2, <4>1
      <4>3. b \notin gone \cap g.results
        BY <3>1, <3>4 DEF Merged
      <4>4. rep[b] \in g.resets => b \in g.resets
        <5>1. CASE b \in g.results
          BY <1>m, <3>1, <4>3, <5>1
        <5>2. CASE b \notin g.results
          BY <3>1, <5>2 DEF Merged
        <5> QED
          BY <5>1, <5>2
      <4> QED
        BY <3>1, <4>2, <4>4
    <3> QED
      BY <3>3, <3>4
  <2> HIDE DEF X
  <2>3. Successors(DS, X) \subseteq X
    BY <1>d, <2>2, SuccessorsWithin
  <2>4. n \in X
    BY <1>2, <1>7, <2>1, <2>3
  <2> QED
    BY <1>7, <1>m, <2>4 DEF X
<1> QED
  BY <1>6, <1>7 DEF FD, FE, DS, ES

(* A phi of a function that is reached, and its versions. *)
LEMMA PhiFacts ==
  ASSUME NEW P \in Programs, SSAForm(P), NEW f \in DOMAIN P, NEW p \in PhisOf(P, f)
  PROVE  /\ f \in Reachable(P) /\ ~ P[f].decl
         /\ p.res \in NodesOf(P, f) /\ p.res \in Results(P)
         /\ \A o \in ToSet(p.operands) :
              o \in NodesOf(P, f) /\ o \in Versions(P) /\ <<o, p.res>> \in Edges(P)
         /\ \A n \in {p.res} \cup ToSet(p.operands) : n[1] = "mem" /\ n[4] = f
<1>1. ~ P[f].decl /\ p \in ToSet(P[f].code) /\ p.op = "phi"
  BY DEF PhisOf
<1>2. f \in Reachable(P)
  BY <1>1 DEF SSAForm
<1>3. InstructionNodes(P, p) = {p.res} \cup ToSet(p.operands) \cup p.conds
  BY <1>1 DEF InstructionNodes
<1>4. InstructionNodes(P, p) \subseteq NodesOf(P, f)
  BY <1>1 DEF NodesOf
<1>5. p.res \in NodesOf(P, f) /\ \A o \in ToSet(p.operands) : o \in NodesOf(P, f)
  BY <1>3, <1>4
<1>6. InstructionEdges(P, p) = {<<o, p.res>> : o \in ToSet(p.operands) \cup p.conds}
  BY <1>1 DEF InstructionEdges
<1>7. InstructionEdges(P, p) \subseteq Edges(P)
  BY <1>1, <1>2 DEF Edges
<1>8. \A o \in ToSet(p.operands) : <<o, p.res>> \in Edges(P)
  BY <1>6, <1>7
<1>9. p.res \in Results(P) /\ \A o \in ToSet(p.operands) : o \in Versions(P)
  BY DEF Results, Versions
<1>10. \A n \in {p.res} \cup ToSet(p.operands) : n[1] = "mem"
  BY DEF SSAForm
<1>11. \A n \in NodesOf(P, f) : n[1] = "mem" => n[4] = f
  BY <1>2 DEF SSAForm
<1>12. \A n \in {p.res} \cup ToSet(p.operands) : n[1] = "mem" /\ n[4] = f
  BY <1>5, <1>10, <1>11
<1> QED
  BY <1>1, <1>2, <1>5, <1>8, <1>9, <1>12

(* Each version is the result or an operand of a phi. *)
LEMMA VersionFacts ==
  ASSUME NEW P \in Programs, SSAForm(P)
  PROVE  /\ \A q \in Results(P) : \E f \in DOMAIN P : \E p \in PhisOf(P, f) : p.res = q
         /\ \A n \in Versions(P) : \E f \in DOMAIN P : \E p \in PhisOf(P, f) :
              n \in {p.res} \cup ToSet(p.operands)
         /\ \A n \in Versions(P) : n[1] = "mem" /\ ~ IsValue(n)
                                   /\ \E f \in Reachable(P) : n \in NodesOf(P, f)
         /\ SourcesOf(P) \cap Versions(P) = {}
<1>1. \A q \in Results(P) : \E f \in DOMAIN P : \E p \in PhisOf(P, f) : p.res = q
  BY DEF Results
<1>2. ASSUME NEW n \in Versions(P)
      PROVE  \E f \in DOMAIN P : \E p \in PhisOf(P, f) : n \in {p.res} \cup ToSet(p.operands)
  <2>1. CASE n \in Results(P)
    BY <1>1, <2>1
  <2>2. CASE n \notin Results(P)
    BY <2>2 DEF Versions
  <2> QED
    BY <2>1, <2>2
<1>3. ASSUME NEW n \in Versions(P)
      PROVE  n[1] = "mem" /\ \E f \in Reachable(P) : n \in NodesOf(P, f)
  <2>1. PICK f \in DOMAIN P : \E p \in PhisOf(P, f) : n \in {p.res} \cup ToSet(p.operands)
    BY <1>2
  <2>2. PICK p \in PhisOf(P, f) : n \in {p.res} \cup ToSet(p.operands)
    BY <2>1
  <2>3. /\ f \in Reachable(P) /\ p.res \in NodesOf(P, f)
        /\ \A o \in ToSet(p.operands) : o \in NodesOf(P, f)
        /\ \A k \in {p.res} \cup ToSet(p.operands) : k[1] = "mem"
    <3>1. /\ f \in Reachable(P) /\ p.res \in NodesOf(P, f)
          /\ \A o \in ToSet(p.operands) : o \in NodesOf(P, f)
      BY PhiFacts
    <3>2. \A k \in {p.res} \cup ToSet(p.operands) : k[1] = "mem"
      BY DEF SSAForm
    <3> QED
      BY <3>1, <3>2
  <2>4. n[1] = "mem" /\ n \in NodesOf(P, f)
    BY <2>2, <2>3
  <2> QED
    BY <2>3, <2>4
<1>4. \A n \in Versions(P) : ~ IsValue(n)
  BY <1>3 DEF IsValue
<1>5. \A n \in SourcesOf(P) : n[1] = "out" \/ n[1] = "val"
  <2>1. \A n \in SourcesOf(P) : \E f, c : n = ArgOut(f, c.id, P[f].source) \/ n = Val(c.id)
    BY DEF SourcesOf
  <2>2. \A f, x, i : ArgOut(f, x, i)[1] = "out" /\ Val(x)[1] = "val"
    BY DEF ArgOut, Val
  <2> QED
    BY <2>1, <2>2
<1>6. SourcesOf(P) \cap Versions(P) = {}
  BY <1>3, <1>5
<1> QED
  BY <1>1, <1>2, <1>3, <1>4, <1>6

(* A program in memory SSA form has a graph as it should be. *)
LEMMA BuiltFacts ==
  ASSUME NEW P \in Programs, SSAForm(P), ResetsApart(P)
  PROVE  BuiltOK(Built(P))
<1> DEFINE g == Built(P)
<1>0. /\ g.edges = Edges(P) /\ g.nodes = Versions(P) \cup Ends(Edges(P))
      /\ g.versions = Versions(P) /\ g.results = Results(P) /\ g.resets = ResetsOf(P)
      /\ g.conds = UNION {{<<c, p.res>> : c \in p.conds} : p \in UNION {PhisOf(P, f) : f \in DOMAIN P}}
  BY DEF Built
<1> HIDE DEF g
<1>1. g.results \subseteq g.versions /\ g.versions \subseteq g.nodes
  BY <1>0 DEF Versions
<1>2. g.edges \subseteq g.nodes \X g.nodes
  <2>1. ASSUME NEW e \in Edges(P)
        PROVE  e \in g.nodes \X g.nodes
    <3>1. e = <<e[1], e[2]>>
      BY DEF SSAForm
    <3>2. e[1] \in g.nodes /\ e[2] \in g.nodes
      BY <1>0 DEF Ends
    <3> QED
      BY <3>1, <3>2
  <2> QED
    BY <1>0, <2>1
<1>3. \A a, b : <<a, b>> \in g.conds <=>
        \E f \in DOMAIN P : \E p \in PhisOf(P, f) : a \in p.conds /\ b = p.res
  BY <1>0
<1>4. ASSUME NEW a, NEW b, <<a, b>> \in g.conds
      PROVE  a \notin g.versions /\ b \in g.results
  <2>1. PICK f \in DOMAIN P : \E p \in PhisOf(P, f) : a \in p.conds /\ b = p.res
    BY <1>3, <1>4
  <2>2. PICK p \in PhisOf(P, f) : a \in p.conds /\ b = p.res
    BY <2>1
  <2>3. IsValue(a)
    BY <2>2 DEF SSAForm
  <2>4. b \in Results(P)
    BY <2>2, PhiFacts
  <2> QED
    BY <1>0, <2>3, <2>4, VersionFacts
<1>5. ASSUME NEW a, NEW b, <<a, b>> \in g.edges, b \in g.results
      PROVE  a \in g.versions \/ <<a, b>> \in g.conds
  <2>1. PICK f \in DOMAIN P : \E p \in PhisOf(P, f) : p.res = b
    BY <1>0, <1>5, VersionFacts
  <2>2. PICK p \in PhisOf(P, f) : p.res = b
    BY <2>1
  <2>3. \A e \in Edges(P) : e[2] = p.res => e[1] \in ToSet(p.operands) \cup p.conds
    BY DEF SSAForm
  <2>4. <<a, b>>[1] = a /\ <<a, b>>[2] = b
    OBVIOUS
  <2>5. a \in ToSet(p.operands) \cup p.conds
    BY <1>0, <1>5, <2>2, <2>3, <2>4
  <2>6. a \in ToSet(p.operands) => a \in Versions(P)
    BY PhiFacts
  <2> QED
    BY <1>0, <1>3, <2>2, <2>5, <2>6
<1>6. g.results \cap g.resets = {}
  <2>1. ASSUME NEW q \in Results(P)
        PROVE  q \notin ResetsOf(P)
    <3>1. PICK f \in DOMAIN P : \E p \in PhisOf(P, f) : p.res = q
      BY VersionFacts
    <3> QED
      BY <3>1 DEF SSAForm
  <2> QED
    BY <1>0, <2>1
<1>7. ASSUME NEW a \in g.versions \ g.results, NEW b \in g.versions \ g.results
      PROVE  \/ a \in g.resets <=> b \in g.resets
             \/ \E n \in g.nodes \ g.versions : ~ (<<n, a>> \in g.edges <=> <<n, b>> \in g.edges)
  <2>1. CASE a \in g.resets <=> b \in g.resets
    BY <2>1
  <2>2. CASE Parents(Edges(P), a) \ Versions(P) # Parents(Edges(P), b) \ Versions(P)
    <3>1. \A n, k : n \in Parents(Edges(P), k) <=> <<n, k>> \in Edges(P)
      <4>1. \A n, k : n \in Parents(Edges(P), k) <=> \E e \in Edges(P) : e[2] = k /\ e[1] = n
        BY DEF Parents
      <4>2. \A e \in Edges(P) : e = <<e[1], e[2]>>
        BY DEF SSAForm
      <4> QED
        BY <4>1, <4>2
    <3>2. PICK n : ~ (n \in Parents(Edges(P), a) \ Versions(P) <=> n \in Parents(Edges(P), b) \ Versions(P))
      BY <2>2
    <3>3. n \notin Versions(P) /\ ~ (<<n, a>> \in Edges(P) <=> <<n, b>> \in Edges(P))
      BY <3>1, <3>2
    <3>4. n \in g.nodes
      BY <1>0, <1>2, <3>3
    <3> QED
      BY <1>0, <3>3, <3>4
  <2> QED
    BY <1>0, <1>7, <2>1, <2>2 DEF ResetsApart
<1> QED
  BY <1>1, <1>2, <1>4, <1>5, <1>6, <1>7 DEF BuiltOK, g

(* A sequence whose neighbours are equal is constant. *)
LEMMA ConstantSequence ==
  ASSUME NEW n \in Nat, NEW t, \A i \in 1 .. (n - 1) : t[i] = t[i + 1]
  PROVE  \A i, j \in 1 .. n : t[i] = t[j]
<1> DEFINE Bad == {k \in 1 .. n : t[k] # t[1]}
<1>1. ASSUME Bad # {} PROVE FALSE
  <2>1. Bad \in SUBSET Nat
    OBVIOUS
  <2>2. PICK k \in Bad : \A j \in Bad : k <= j
    BY <1>1, <2>1, LeastNatural
  <2>3. k \in 1 .. n /\ k # 1 /\ t[k] # t[1]
    OBVIOUS
  <2>4. k - 1 \in 1 .. (n - 1) /\ k - 1 \in 1 .. n /\ k - 1 + 1 = k
    BY <2>3
  <2>5. t[k - 1] = t[1]
    BY <2>2, <2>4
  <2> QED
    BY <2>3, <2>4, <2>5
<1> QED
  BY <1>1

(* Replacing an operand of a phi: the others stay. *)
LEMMA ReplaceFirstFacts ==
  ASSUME NEW W, NEW s \in Seq(W), NEW q, NEW op \in W
  PROVE  /\ ReplaceFirst(s, q, op) \in Seq(W) /\ Len(ReplaceFirst(s, q, op)) = Len(s)
         /\ \A a \in ToSet(s) : a # q => a \in ToSet(ReplaceFirst(s, q, op))
         /\ q \in ToSet(s) => op \in ToSet(ReplaceFirst(s, q, op))
<1> DEFINE at == {i \in DOMAIN s : s[i] = q}
           i == CHOOSE i \in at : \A j \in at : i <= j
<1>1. /\ \A a : a \in ToSet(s) <=> \E k \in DOMAIN s : s[k] = a
      /\ DOMAIN s = 1 .. Len(s) /\ Len(s) \in Nat
  BY DEF ToSet
<1>2. CASE at = {}
  <2>1. ReplaceFirst(s, q, op) = s
    BY <1>2 DEF ReplaceFirst
  <2>2. q \notin ToSet(s)
    BY <1>1, <1>2
  <2> QED
    BY <2>1, <2>2
<1>3. CASE at # {}
  <2>1. at \in SUBSET Nat
    BY <1>1
  <2>2. \E k \in at : \A j \in at : k <= j
    BY <1>3, <2>1, LeastNatural
  <2>3. i \in at
    BY <2>2
  <2> HIDE DEF i
  <2>4. i \in DOMAIN s /\ s[i] = q
    BY <2>3
  <2>5. ReplaceFirst(s, q, op) = [s EXCEPT ![i] = op]
    BY <1>3 DEF ReplaceFirst, i
  <2> DEFINE t == [s EXCEPT ![i] = op]
  <2>6. /\ DOMAIN t = DOMAIN s /\ t[i] = op
        /\ \A k \in DOMAIN s : k # i => t[k] = s[k]
    BY <2>4
  <2>7. t \in Seq(W) /\ Len(t) = Len(s)
    BY <1>1, <2>4
  <2> HIDE DEF t
  <2>8. \A a : a \in ToSet(t) <=> \E k \in DOMAIN s : t[k] = a
    BY <2>6 DEF ToSet
  <2>9. ASSUME NEW a \in ToSet(s), a # q
        PROVE  a \in ToSet(t)
    <3>1. PICK k \in DOMAIN s : s[k] = a
      BY <1>1
    <3> QED
      BY <2>4, <2>6, <2>8, <2>9, <3>1
  <2>10. op \in ToSet(t)
    BY <2>4, <2>6, <2>8
  <2> QED
    BY <2>5, <2>7, <2>9, <2>10 DEF t
<1> QED
  BY <1>2, <1>3

-----------------------------------------------------------------------------
(* The inductive invariant of phi elimination: the nodes of a function are *)
(* among those it was built with, the operands of a phi are versions of    *)
(* its function and hold every version with an edge to it, and what is     *)
(* left of the graph is the one as built, merged.                          *)

LeftNodes == UNION {nodes[f] : f \in DOMAIN nodes}

ElimInv ==
  pc # "build" =>
    /\ \A f \in Reachable(prog) : nodes[f] \subseteq NodesOf(prog, f)
    /\ DOMAIN opsVar = Results(prog)
    /\ \A q \in Results(prog) :
         /\ opsVar[q] \in Seq({n \in Versions(prog) : n[4] = q[4]}) /\ Len(opsVar[q]) >= 2
         /\ \A a \in Versions(prog) : <<a, q>> \in edges => a \in ToSet(opsVar[q])
    /\ \E rep : Merged(Built(prog), Versions(prog) \ LeftNodes, edges, rep)
    /\ pc = "phi" => todo # {} /\ todo \subseteq Reachable(prog)

(* The graph as built, *)
LEMMA ElimBuild ==
  ASSUME GraphInv, SSAForm(prog), ResetsApart(prog), Build
  PROVE  ElimInv'
<1>0. prog \in Programs
  BY DEF GraphInv
<1>1. /\ edges' = Edges(prog) /\ prog' = prog /\ todo' = Reachable(prog) /\ pc' = "phi"
      /\ nodes' = [f \in Reachable(prog) |-> NodesOf(prog, f)]
      /\ opsVar' = [q \in {p.res : p \in AllPhis} |-> (CHOOSE p \in AllPhis : p.res = q).operands]
  BY DEF Build
<1>2. \A p : p \in AllPhis <=> \E f \in DOMAIN prog : p \in PhisOf(prog, f)
  BY DEF AllPhis, Phis
<1>3. {p.res : p \in AllPhis} = Results(prog)
  BY DEF AllPhis, Phis, Results
<1>4. ASSUME NEW q \in Results(prog)
      PROVE  /\ opsVar'[q] \in Seq({n \in Versions(prog) : n[4] = q[4]}) /\ Len(opsVar'[q]) >= 2
             /\ \A a \in Versions(prog) : <<a, q>> \in Edges(prog) => a \in ToSet(opsVar'[q])
  <2>1. \E p \in AllPhis : p.res = q
    BY <1>0, <1>2, VersionFacts
  <2>2. PICK p : p = CHOOSE x \in AllPhis : x.res = q
    OBVIOUS
  <2>3. p \in AllPhis /\ p.res = q
    BY <2>1, <2>2
  <2>4. opsVar'[q] = p.operands
    BY <1>1, <1>3, <2>2
  <2>5. PICK f \in DOMAIN prog : p \in PhisOf(prog, f)
    BY <1>2, <2>3
  <2>6. /\ p.operands \in Seq(NodesOf(prog, f)) /\ Len(p.operands) >= 2
        /\ \A c \in p.conds : IsValue(c)
        /\ \A e \in Edges(prog) : e[2] = p.res => e[1] \in ToSet(p.operands) \cup p.conds
    BY <2>5 DEF SSAForm
  <2>7. \A o \in ToSet(p.operands) : o \in Versions(prog) /\ o[4] = q[4]
    <3>1. \A o \in ToSet(p.operands) : o \in Versions(prog)
      BY <1>0, <2>5, PhiFacts
    <3>2. \A n \in {p.res} \cup ToSet(p.operands) : n[4] = f
      BY <1>0, <2>5, PhiFacts
    <3> QED
      BY <2>3, <3>1, <3>2
  <2>8. p.operands \in Seq({n \in Versions(prog) : n[4] = q[4]})
    <3>1. DOMAIN p.operands = 1 .. Len(p.operands) /\ Len(p.operands) \in Nat
      BY <2>6
    <3>2. \A i \in DOMAIN p.operands : p.operands[i] \in ToSet(p.operands)
      BY DEF ToSet
    <3> QED
      BY <2>6, <2>7, <3>1, <3>2
  <2>9. ASSUME NEW a \in Versions(prog), <<a, q>> \in Edges(prog)
        PROVE  a \in ToSet(p.operands)
    <3>1. ~ IsValue(a)
      BY <1>0, VersionFacts
    <3>2. <<a, q>>[1] = a /\ <<a, q>>[2] = q
      OBVIOUS
    <3>3. a \in ToSet(p.operands) \cup p.conds
      BY <2>3, <2>6, <2>9, <3>2
    <3> QED
      BY <2>6, <3>1, <3>3
  <2> QED
    BY <2>4, <2>6, <2>8, <2>9
<1>5. \A f \in Reachable(prog) : nodes'[f] \subseteq NodesOf(prog, f)
  BY <1>1
<1>6. Versions(prog) \ LeftNodes' = {}
  <2>1. ASSUME NEW n \in Versions(prog)
        PROVE  n \in LeftNodes'
    <3>1. PICK f \in Reachable(prog) : n \in NodesOf(prog, f)
      BY <1>0, VersionFacts
    <3> QED
      BY <1>1, <3>1 DEF LeftNodes
  <2> QED
    BY <2>1
<1>7. \E rep : Merged(Built(prog), {}, Edges(prog), rep)
  <2>1. Built(prog).edges = Edges(prog)
    BY DEF Built
  <2> QED
    BY <1>0, <2>1, BuiltFacts, MergedAtFirst
<1>8. todo' # {} /\ todo' \subseteq Reachable(prog)
  BY <1>0, <1>1, ReachableFacts
<1>9. DOMAIN opsVar' = Results(prog)
  BY <1>1, <1>3
<1>10. \E rep : Merged(Built(prog), Versions(prog) \ LeftNodes', edges', rep)
  BY <1>1, <1>6, <1>7
<1> QED
  BY <1>1, <1>4, <1>5, <1>8, <1>9, <1>10 DEF ElimInv

(* Neighbours of equivalent operands, as edges. *)
LEMMA SameEdges ==
  ASSUME NEW U, NEW E \in SUBSET (U \X U), NEW a, NEW b,
         Children(E, a) = Children(E, b), Children(Reversed(E), a) = Children(Reversed(E), b)
  PROVE  /\ \A k : <<a, k>> \in E <=> <<b, k>> \in E
         /\ \A k : <<k, a>> \in E <=> <<k, b>> \in E
<1>1. \A e \in E : e = <<e[1], e[2]>>
  OBVIOUS
<1>2. \A n, k : k \in Children(E, n) <=> <<n, k>> \in E
  <2>1. \A n, k : k \in Children(E, n) <=> \E e \in E : e[1] = n /\ e[2] = k
    BY DEF Children
  <2> QED
    BY <1>1, <2>1
<1>3. \A n, k : k \in Children(Reversed(E), n) <=> <<k, n>> \in E
  <2>1. \A n, k : k \in Children(Reversed(E), n) <=> \E x \in Reversed(E) : x[1] = n /\ x[2] = k
    BY DEF Children
  <2>2. \A n, k : <<n, k>> \in Reversed(E) <=> <<k, n>> \in E
    <3>1. \A n, k : <<n, k>> \in Reversed(E) <=> \E e \in E : n = e[2] /\ k = e[1]
      BY DEF Reversed
    <3>2. ASSUME NEW n, NEW k
          PROVE  <<n, k>> \in Reversed(E) <=> <<k, n>> \in E
      <4>1. <<k, n>>[1] = k /\ <<k, n>>[2] = n
        OBVIOUS
      <4>2. <<k, n>> \in E => <<n, k>> \in Reversed(E)
        BY <3>1, <4>1
      <4>3. <<n, k>> \in Reversed(E) => <<k, n>> \in E
        BY <1>1, <3>1
      <4> QED
        BY <4>2, <4>3
    <3> QED
      BY <3>2
  <2>3. \A x \in Reversed(E) : x = <<x[1], x[2]>>
    BY DEF Reversed
  <2>4. ASSUME NEW n, NEW k
        PROVE  k \in Children(Reversed(E), n) <=> <<n, k>> \in Reversed(E)
    <3>1. <<n, k>>[1] = n /\ <<n, k>>[2] = k
      OBVIOUS
    <3>2. <<n, k>> \in Reversed(E) => k \in Children(Reversed(E), n)
      BY <2>1, <3>1
    <3>3. k \in Children(Reversed(E), n) => <<n, k>> \in Reversed(E)
      BY <2>1, <2>3
    <3> QED
      BY <3>2, <3>3
  <2> QED
    BY <2>2, <2>4
<1> QED
  BY <1>2, <1>3

(* The operands of a phi that can be eliminated are no phis, they are left *)
(* in the graph with an edge to it, and have the same neighbours.          *)
LEMMA CanElimFacts ==
  ASSUME GraphInv, SSAForm(prog), ElimInv, pc = "phi",
         NEW f \in Reachable(prog), NEW p \in Phis(f), CanElim(f, p)
  PROVE  LET q == p.res
             O == ToSet(opsVar[q])
             gone == Versions(prog) \ LeftNodes
         IN  /\ q \in Results(prog) \ gone
             /\ O \subseteq Versions(prog) \ (Results(prog) \cup gone)
             /\ \A a \in O : <<a, q>> \in edges
             /\ \A a, b \in O : /\ \A k : <<a, k>> \in edges <=> <<b, k>> \in edges
                                /\ \A k : <<k, a>> \in edges <=> <<k, b>> \in edges
<1> DEFINE q == p.res
           s == opsVar[q]
           O == ToSet(s)
           gone == Versions(prog) \ LeftNodes
           g == Built(prog)
<1>0. /\ prog \in Programs /\ DOMAIN nodes = Reachable(prog) /\ f \in DOMAIN prog
      /\ p \in PhisOf(prog, f)
  BY ReachableFacts DEF GraphInv, Phis
<1>1. q \in Results(prog) /\ q \in LeftNodes
  <2>1. q \in Results(prog)
    BY <1>0, PhiFacts
  <2>2. q \in nodes[f]
    BY DEF CanElim
  <2> QED
    BY <1>0, <2>1, <2>2 DEF LeftNodes
<1>2. /\ DOMAIN opsVar = Results(prog)
      /\ s \in Seq({n \in Versions(prog) : n[4] = q[4]}) /\ Len(s) >= 2
      /\ \A a \in Versions(prog) : <<a, q>> \in edges => a \in O
  BY <1>1 DEF ElimInv
<1>3. PICK rep : Merged(g, gone, edges, rep)
  BY DEF ElimInv
<1>4. /\ g.edges = Edges(prog) /\ g.nodes = Versions(prog) \cup Ends(Edges(prog))
      /\ g.versions = Versions(prog) /\ g.results = Results(prog)
  BY DEF Built
<1>5. /\ edges \subseteq (g.nodes \ gone) \X (g.nodes \ gone)
      /\ \A n \in g.nodes : n \notin gone => rep[n] = n
      /\ \A n \in gone : rep[n] \in g.versions \ (g.results \cup gone)
  BY <1>3 DEF Merged
<1>6. DOMAIN s = 1 .. Len(s) /\ Len(s) \in Nat
  BY <1>2
<1>7. \A i \in 1 .. (Len(s) - 1) : areSSANodesEquivalent(s[i], s[i + 1])
  BY DEF CanElim
<1> DEFINE t == [i \in 1 .. Len(s) |-> <<Children(edges, s[i]), Children(Reversed(edges), s[i])>>]
<1>8. \A i \in 1 .. (Len(s) - 1) : t[i] = t[i + 1]
  <2>1. ASSUME NEW i \in 1 .. (Len(s) - 1)
        PROVE  t[i] = t[i + 1]
    <3>1. i \in 1 .. Len(s) /\ i + 1 \in 1 .. Len(s)
      BY <1>6
    <3>2. /\ Children(edges, s[i]) = Children(edges, s[i + 1])
          /\ Children(Reversed(edges), s[i]) = Children(Reversed(edges), s[i + 1])
      BY <1>7 DEF areSSANodesEquivalent, SameNeighbours
    <3> QED
      BY <3>1, <3>2
  <2> QED
    BY <2>1
<1>t. \A i \in 1 .. Len(s) : t[i] = <<Children(edges, s[i]), Children(Reversed(edges), s[i])>>
  OBVIOUS
<1> HIDE DEF t
<1>9. \A i, j \in 1 .. Len(s) : t[i] = t[j]
  BY <1>6, <1>8, ConstantSequence
<1>o. \A a : a \in O <=> \E i \in 1 .. Len(s) : s[i] = a
  BY <1>6 DEF ToSet
<1> HIDE DEF s, O, gone, g, q
<1>10. ASSUME NEW a \in O, NEW b \in O
       PROVE  /\ \A k : <<a, k>> \in edges <=> <<b, k>> \in edges
              /\ \A k : <<k, a>> \in edges <=> <<k, b>> \in edges
  <2>1. PICK i \in 1 .. Len(s), j \in 1 .. Len(s) : s[i] = a /\ s[j] = b
    BY <1>o
  <2>2. /\ Children(edges, a) = Children(edges, b)
        /\ Children(Reversed(edges), a) = Children(Reversed(edges), b)
    BY <1>9, <1>t, <2>1
  <2>3. PICK U : U = g.nodes \ gone
    OBVIOUS
  <2>4. edges \in SUBSET (U \X U)
    BY <1>5, <2>3
  <2> QED
    BY <2>2, <2>4, SameEdges
<1>11. \A a \in O : a \in Versions(prog) /\ a \notin Results(prog)
  <2>1. ASSUME NEW i \in 1 .. Len(s)
        PROVE  s[i] \in Versions(prog) /\ s[i] \notin Results(prog)
    <3>1. s[i] \in Versions(prog)
      BY <1>2, <1>6
    <3>2. CASE i \in 1 .. (Len(s) - 1)
      BY <1>2, <1>7, <3>1, <3>2 DEF areSSANodesEquivalent
    <3>3. CASE i = Len(s)
      <4>1. Len(s) - 1 \in 1 .. (Len(s) - 1) /\ Len(s) - 1 + 1 = Len(s)
        BY <1>2, <1>6
      <4> QED
        BY <1>2, <1>7, <3>1, <3>3, <4>1 DEF areSSANodesEquivalent
    <3>l. Len(s) \in Nat
      BY <1>6
    <3>4. i \in 1 .. (Len(s) - 1) \/ i = Len(s)
      BY <3>l
    <3> QED
      BY <3>2, <3>3, <3>4
  <2> QED
    BY <1>o, <2>1
<1>12. q \in g.versions /\ q \in g.nodes /\ q \notin gone /\ rep[q] = q
  <2>1. q \in Versions(prog)
    BY <1>1 DEF Versions
  <2> QED
    BY <1>1, <1>4, <1>5, <2>1 DEF gone
<1>13. \E a \in O : <<a, q>> \in edges
  <2>1. /\ Len(p.operands) >= 2 /\ p.operands \in Seq(NodesOf(prog, f))
        /\ \A c \in p.conds : IsValue(c)
    BY <1>0 DEF SSAForm
  <2>2. p.operands[1] \in ToSet(p.operands)
    BY <2>1 DEF ToSet
  <2>3. PICK o \in ToSet(p.operands) : o \in Versions(prog) /\ <<o, q>> \in Edges(prog)
    BY <1>0, <2>2, PhiFacts DEF q
  <2>4. <<o, q>> \in Data(g, gone)
    BY <1>4, <1>12, <2>3 DEF Data
  <2>5. <<rep[o], rep[q]>> \in edges
    BY <1>1, <1>3, <1>4, <1>12, <2>4 DEF Merged
  <2>6. rep[o] \in Versions(prog)
    BY <1>4, <1>5, <2>3
  <2> QED
    BY <1>2, <1>12, <2>5, <2>6
<1>14. \A a \in O : <<a, q>> \in edges
  BY <1>10, <1>13
<1>15. \A a \in O : a \notin gone
  BY <1>5, <1>14
<1> QED
  BY <1>1, <1>10, <1>11, <1>12, <1>14, <1>15 DEF s, O, gone, q

(* and taking a phi out of it. *)
LEMMA ElimEliminate ==
  ASSUME GraphInv, SSAForm(prog), ResetsApart(prog), ElimInv, EliminatePhi
  PROVE  ElimInv'
<1>0. /\ prog \in Programs /\ DOMAIN nodes = Reachable(prog)
      /\ pc = "phi" /\ pc' = "phi" /\ prog' = prog /\ todo' = todo
  BY DEF GraphInv, EliminatePhi
<1>1. /\ \A h \in Reachable(prog) : nodes[h] \subseteq NodesOf(prog, h)
      /\ DOMAIN opsVar = Results(prog) /\ todo # {} /\ todo \subseteq Reachable(prog)
      /\ \A x \in Results(prog) :
           /\ opsVar[x] \in Seq({n \in Versions(prog) : n[4] = x[4]}) /\ Len(opsVar[x]) >= 2
           /\ \A a \in Versions(prog) : <<a, x>> \in edges => a \in ToSet(opsVar[x])
  BY <1>0 DEF ElimInv
<1>2. PICK f : f = Current
  OBVIOUS
<1>3. f \in Reachable(prog)
  BY <1>1, <1>2 DEF Current
<1>4. PICK p \in Phis(f) :
        /\ CanElim(f, p)
        /\ \E op \in ToSet(opsVar[p.res]) :
             /\ edges' = WithoutPhi(p, op)
             /\ nodes' = [nodes EXCEPT ![f] = @ \ ({p.res} \cup (ToSet(opsVar[p.res]) \ {op}))]
             /\ opsVar' = [x \in DOMAIN opsVar |->
                             IF x \in Children(edges, p.res) THEN ReplaceFirst(opsVar[x], p.res, op)
                             ELSE opsVar[x]]
  BY <1>2, Zenon DEF EliminatePhi
<1>5. PICK q, O, gone : q = p.res /\ O = ToSet(opsVar[q]) /\ gone = Versions(prog) \ LeftNodes
  OBVIOUS
<1>6. PICK op \in O :
        /\ edges' = WithoutPhi(p, op)
        /\ nodes' = [nodes EXCEPT ![f] = @ \ ({q} \cup (O \ {op}))]
        /\ opsVar' = [x \in DOMAIN opsVar |->
                        IF x \in Children(edges, q) THEN ReplaceFirst(opsVar[x], q, op)
                        ELSE opsVar[x]]
  BY <1>4, <1>5
<1>7. /\ q \in Results(prog) \ gone
      /\ O \subseteq Versions(prog) \ (Results(prog) \cup gone)
      /\ \A a \in O : <<a, q>> \in edges
      /\ \A a, b \in O : /\ \A k : <<a, k>> \in edges <=> <<b, k>> \in edges
                         /\ \A k : <<k, a>> \in edges <=> <<k, b>> \in edges
  BY <1>0, <1>3, <1>4, <1>5, CanElimFacts
<1>8. edges' = Folded(edges, q, O, op)
  BY <1>5, <1>6 DEF WithoutPhi, Folded
<1>9. PICK g, rep : g = Built(prog) /\ Merged(g, gone, edges, rep)
  BY <1>0, <1>5 DEF ElimInv
<1>10. /\ g.versions = Versions(prog) /\ g.results = Results(prog) /\ BuiltOK(g)
       /\ g.nodes = Versions(prog) \cup Ends(Edges(prog))
  BY <1>0, <1>9, BuiltFacts DEF Built
<1>11. /\ \A n \in {q} \cup O : n \in Versions(prog) /\ n[1] = "mem" /\ n[4] = f
       /\ op[4] = q[4]
  <2>1. f \in DOMAIN prog /\ p \in PhisOf(prog, f)
    BY <1>0, <1>3, ReachableFacts DEF Phis
  <2>2. q[4] = f
    BY <1>0, <1>5, <2>1, PhiFacts
  <2>3. \A n \in O : n \in Versions(prog) /\ n[4] = q[4]
    <3>1. opsVar[q] \in Seq({n \in Versions(prog) : n[4] = q[4]})
      BY <1>1, <1>7
    <3>2. \A n \in O : \E i \in DOMAIN opsVar[q] : n = opsVar[q][i]
      BY <1>5 DEF ToSet
    <3>3. \A i \in DOMAIN opsVar[q] : opsVar[q][i] \in {n \in Versions(prog) : n[4] = q[4]}
      BY <3>1
    <3> QED
      BY <3>2, <3>3
  <2>4. q \in Versions(prog)
    BY <1>7 DEF Versions
  <2> QED
    BY <1>0, <2>2, <2>3, <2>4, VersionFacts
<1>12. /\ \A h \in Reachable(prog) : h # f => nodes'[h] = nodes[h]
       /\ nodes'[f] = nodes[f] \ ({q} \cup (O \ {op})) /\ DOMAIN nodes' = DOMAIN nodes
  BY <1>0, <1>3, <1>6
<1>13. \A h \in Reachable(prog) : nodes'[h] \subseteq NodesOf(prog, h)
  BY <1>1, <1>12
<1>14. Versions(prog) \ LeftNodes' = gone \cup {q} \cup (O \ {op})
  <2>1. \A n : n \in LeftNodes <=> \E h \in Reachable(prog) : n \in nodes[h]
    BY <1>0 DEF LeftNodes
  <2>2. \A n : n \in LeftNodes' <=> \E h \in Reachable(prog) : n \in nodes'[h]
    BY <1>0, <1>12 DEF LeftNodes
  <2>3. \A h \in Reachable(prog) : \A n \in {q} \cup O : n \in nodes[h] => h = f
    <3>1. \A h \in Reachable(prog) : \A n \in NodesOf(prog, h) : n[1] = "mem" => n[4] = h
      BY DEF SSAForm
    <3> QED
      BY <1>1, <1>11, <3>1
  <2>4. \A n : n \in LeftNodes' <=> n \in LeftNodes /\ n \notin {q} \cup (O \ {op})
    BY <1>3, <1>12, <2>1, <2>2, <2>3
  <2> QED
    BY <1>5, <1>11, <2>4
<1>15. \E r : Merged(g, gone \cup {q} \cup (O \ {op}), edges', r)
  <2>1. \A a \in Versions(prog) : <<a, q>> \in edges => a \in O
    BY <1>1, <1>5, <1>7
  <2> QED
    BY <1>7, <1>8, <1>9, <1>10, <2>1, MergeStep
<1>16. ASSUME NEW x \in Results(prog)
       PROVE  /\ opsVar'[x] \in Seq({n \in Versions(prog) : n[4] = x[4]}) /\ Len(opsVar'[x]) >= 2
              /\ \A a \in Versions(prog) : <<a, x>> \in edges' => a \in ToSet(opsVar'[x])
  <2>1. PICK W : W = {n \in Versions(prog) : n[4] = x[4]}
    OBVIOUS
  <2>2. /\ opsVar[x] \in Seq(W) /\ Len(opsVar[x]) >= 2
        /\ \A a \in Versions(prog) : <<a, x>> \in edges => a \in ToSet(opsVar[x])
    BY <1>1, <2>1
  <2>3. edges \subseteq (g.nodes \ gone) \X (g.nodes \ gone)
    BY <1>9 DEF Merged
  <2>4. x \in Children(edges, q) <=> <<q, x>> \in edges
    <3>1. x \in Children(edges, q) <=> \E e \in edges : e[1] = q /\ e[2] = x
      BY DEF Children
    <3>2. \A e \in edges : e = <<e[1], e[2]>>
      BY <2>3
    <3> QED
      BY <3>1, <3>2
  <2>5. \A a : <<a, x>> \in edges' =>
          a # q /\ (<<a, x>> \in edges \/ (a = op /\ <<q, x>> \in edges))
    <3>1. PICK U : U = g.nodes \ gone
      OBVIOUS
    <3>2. edges \in SUBSET (U \X U) /\ op \in U
      BY <1>7, <1>10, <2>3, <3>1
    <3> QED
      BY <1>8, <3>2, FoldedPairs
  <2>6. CASE <<q, x>> \in edges
    <3>1. opsVar'[x] = ReplaceFirst(opsVar[x], q, op)
      BY <1>1, <1>6, <2>4, <2>6
    <3>2. q \in ToSet(opsVar[x])
      BY <1>11, <2>2, <2>6
    <3>3. q \in W
      BY <2>2, <3>2 DEF ToSet
    <3>4. op \in W
      BY <1>11, <2>1, <3>3
    <3>5. /\ opsVar'[x] \in Seq(W) /\ Len(opsVar'[x]) = Len(opsVar[x])
          /\ \A a \in ToSet(opsVar[x]) : a # q => a \in ToSet(opsVar'[x])
          /\ op \in ToSet(opsVar'[x])
      BY <2>2, <3>1, <3>2, <3>4, ReplaceFirstFacts
    <3> QED
      BY <2>1, <2>2, <2>5, <3>5
  <2>7. CASE <<q, x>> \notin edges
    <3>1. opsVar'[x] = opsVar[x]
      BY <1>1, <1>6, <2>4, <2>7
    <3> QED
      BY <2>1, <2>2, <2>5, <2>7, <3>1
  <2> QED
    BY <2>6, <2>7
<1>17. DOMAIN opsVar' = Results(prog)
  BY <1>1, <1>6
<1>18. \E r : Merged(Built(prog), Versions(prog) \ LeftNodes', edges', r)
  BY <1>9, <1>14, <1>15
<1> QED
  BY <1>0, <1>1, <1>13, <1>16, <1>17, <1>18 DEF ElimInv

(* The other steps leave the graph alone. *)
LEMMA ElimStep ==
  ASSUME GraphInv, SSAForm(prog), ResetsApart(prog), ElimInv, [Next]_vars
  PROVE  ElimInv'
<1>1. CASE Build
  BY <1>1, ElimBuild
<1>2. CASE EliminatePhi
  BY <1>2, ElimEliminate
<1>3. CASE NextFunction \/ FloodAll \/ Walk \/ Done \/ UNCHANGED vars
  <2>1. /\ UNCHANGED <<prog, edges, nodes, opsVar>> /\ (pc' = "build" <=> pc = "build")
        /\ pc' = "phi" => pc = "phi" /\ todo' \subseteq todo /\ (todo # {} => todo' # {})
    <3>1. CASE NextFunction
      BY <3>1 DEF NextFunction
    <3>2. CASE FloodAll
      BY <3>2 DEF FloodAll
    <3>3. CASE Walk
      BY <3>3 DEF Walk
    <3>4. CASE Done \/ UNCHANGED vars
      BY <3>4 DEF Done, vars
    <3> QED
      BY <1>3, <3>1, <3>2, <3>3, <3>4
  <2>2. CASE pc = "build"
    BY <2>1, <2>2 DEF ElimInv
  <2>3. CASE pc # "build"
    <3>1. /\ prog' = prog /\ edges' = edges /\ nodes' = nodes /\ opsVar' = opsVar
          /\ LeftNodes' = LeftNodes
      BY <2>1 DEF LeftNodes
    <3>2. pc' = "phi" => todo' # {} /\ todo' \subseteq Reachable(prog)
      BY <2>1, <2>3 DEF ElimInv
    <3>3. /\ \A f \in Reachable(prog) : nodes[f] \subseteq NodesOf(prog, f)
          /\ DOMAIN opsVar = Results(prog)
          /\ \A q \in Results(prog) :
               /\ opsVar[q] \in Seq({n \in Versions(prog) : n[4] = q[4]}) /\ Len(opsVar[q]) >= 2
               /\ \A a \in Versions(prog) : <<a, q>> \in edges => a \in ToSet(opsVar[q])
          /\ \E rep : Merged(Built(prog), Versions(prog) \ LeftNodes, edges, rep)
      BY <2>3 DEF ElimInv
    <3> QED
      BY <3>1, <3>2, <3>3, Zenon DEF ElimInv
  <2> QED
    BY <2>2, <2>3
<1> QED
  BY <1>1, <1>2, <1>3 DEF Next

(* The merged graph shows the data flow of the graph as built. *)
LEMMA ElimShows ==
  ASSUME GraphInv, SSAForm(prog), ResetsApart(prog), ElimInv
  PROVE  ElimKeepsData
<1> SUFFICES ASSUME pc # "build"
             PROVE  LET left == UNION {nodes[f] : f \in DOMAIN nodes}
                        gone == {p \in AllPhis : p.res \notin left}
                        data == Edges(prog) \ UNION {{<<c, p.res>> : c \in p.conds} : p \in gone}
                    IN  FlowsTo(data) \cap left = FlowsTo(edges) \cap left
  BY DEF ElimKeepsData
<1> DEFINE g == Built(prog)
           out == Versions(prog) \ LeftNodes
           gone == {p \in AllPhis : p.res \notin LeftNodes}
           data == Edges(prog) \ UNION {{<<c, p.res>> : c \in p.conds} : p \in gone}
<1>1. /\ prog \in Programs /\ IsFiniteSet(edges)
      /\ IsFiniteSet(Edges(prog)) /\ IsFiniteSet(SourcesOf(prog))
  BY ProgramsAssumption DEF GraphInv
<1>2. /\ g.edges = Edges(prog) /\ g.versions = Versions(prog) /\ g.resets = ResetsOf(prog)
      /\ g.conds = UNION {{<<c, p.res>> : c \in p.conds} : p \in AllPhis}
  BY DEF Built, AllPhis, Phis
<1>3. BuiltOK(g)
  BY <1>1, BuiltFacts
<1>4. PICK rep : Merged(g, out, edges, rep)
  BY DEF ElimInv
<1>5. data = Data(g, out)
  <2>1. \A a, b : <<a, b>> \in g.conds /\ b \in out <=>
          <<a, b>> \in UNION {{<<c, p.res>> : c \in p.conds} : p \in gone}
    <3>1. \A p \in AllPhis : p.res \in Versions(prog)
      BY DEF AllPhis, Phis, Versions, Results
    <3>2. \A a, b : <<a, b>> \in g.conds <=> \E p \in AllPhis : a \in p.conds /\ b = p.res
      BY <1>2
    <3>3. \A a, b : <<a, b>> \in UNION {{<<c, p.res>> : c \in p.conds} : p \in gone} <=>
            \E p \in AllPhis : p.res \notin LeftNodes /\ a \in p.conds /\ b = p.res
      OBVIOUS
    <3>4. \A b : b \in out <=> b \in Versions(prog) /\ b \notin LeftNodes
      OBVIOUS
    <3> HIDE DEF out, gone, g
    <3> DEFINE cut == UNION {{<<c, p.res>> : c \in p.conds} : p \in gone}
    <3>6. \A a, b : <<a, b>> \in cut <=>
            \E p \in AllPhis : p.res \notin LeftNodes /\ a \in p.conds /\ b = p.res
      BY <3>3
    <3> HIDE DEF cut
    <3>7. ASSUME NEW a, NEW b, <<a, b>> \in g.conds, b \in out
          PROVE  <<a, b>> \in cut
      <4>1. PICK p \in AllPhis : a \in p.conds /\ b = p.res
        BY <3>2, <3>7
      <4>2. p.res \notin LeftNodes
        BY <3>4, <3>7, <4>1
      <4> QED
        BY <3>6, <4>1, <4>2
    <3>8. ASSUME NEW a, NEW b, <<a, b>> \in cut
          PROVE  <<a, b>> \in g.conds /\ b \in out
      <4>1. PICK p \in AllPhis : p.res \notin LeftNodes /\ a \in p.conds /\ b = p.res
        BY <3>6, <3>8
      <4> QED
        BY <3>1, <3>2, <3>4, <4>1
    <3>9. \A a, b : <<a, b>> \in g.conds /\ b \in out <=> <<a, b>> \in cut
      BY <3>7, <3>8
    <3> QED
      BY <3>9 DEF cut
  <2>2. \A e \in Edges(prog) : e = <<e[1], e[2]>>
    BY DEF SSAForm
  <2>3. \A e \in Edges(prog) : e \in data <=> e \in Data(g, out)
    BY <1>2, <2>1, <2>2 DEF Data
  <2>4. data \subseteq Edges(prog) /\ Data(g, out) \subseteq Edges(prog)
    BY <1>2 DEF Data
  <2> QED
    BY <2>3, <2>4
<1>6. SourcesOf(prog) \cap g.versions = {}
  BY <1>1, <1>2, VersionFacts
<1>7. /\ FlowsTo(data) = ReachedFrom({e \in Data(g, out) : e[1] \notin g.resets}, SourcesOf(prog))
      /\ FlowsTo(edges) = ReachedFrom({e \in edges : e[1] \notin g.resets}, SourcesOf(prog))
  <2> HIDE DEF g, out, data
  <2> QED
    BY <1>2, <1>5 DEF FlowsTo
<1>8. PICK Src : Src = SourcesOf(prog)
  OBVIOUS
<1> HIDE DEF g, out, data
<1>9. \A n : n \notin out => (n \in FlowsTo(data) <=> n \in FlowsTo(edges))
  <2>1. /\ IsFiniteSet(Src) /\ Src \cap g.versions = {} /\ IsFiniteSet(g.edges)
    BY <1>1, <1>2, <1>6, <1>8
  <2>2. \A n : n \notin out =>
          (n \in ReachedFrom({e \in Data(g, out) : e[1] \notin g.resets}, Src)
             <=> n \in ReachedFrom({e \in edges : e[1] \notin g.resets}, Src))
    BY <1>1, <1>3, <1>4, <2>1, MergedFlow
  <2> QED
    BY <1>7, <1>8, <2>2
<1>10. \A n \in LeftNodes : n \notin out
  BY DEF out
<1>11. FlowsTo(data) \cap LeftNodes = FlowsTo(edges) \cap LeftNodes
  BY <1>9, <1>10
<1> QED
  BY <1>11 DEF data, LeftNodes

(* In programs in memory SSA form, and whatever phis were eliminated in    *)
(* whatever order with whichever operand kept, the rank reaches the nodes  *)
(* that are left exactly as it does in the graph as built, but for the     *)
(* conditions of the phis that are gone.                                   *)
THEOREM EliminationKeepsData ==
  (\A P \in Programs : SSAForm(P) /\ ResetsApart(P)) => (Spec => []ElimKeepsData)
<1> SUFFICES ASSUME \A P \in Programs : SSAForm(P) /\ ResetsApart(P)
             PROVE  Spec => []ElimKeepsData
  OBVIOUS
<1>1. Init => ElimInv
  BY DEF Init, ElimInv
<1>2. GraphInv => SSAForm(prog) /\ ResetsApart(prog)
  BY DEF GraphInv
<1>3. GraphInv /\ ElimInv /\ [Next]_vars => ElimInv'
  BY <1>2, ElimStep
<1>4. GraphInv /\ ElimInv => ElimKeepsData
  BY <1>2, ElimShows
<1>5. DepGraphInv => GraphInv
  BY DEF DepGraphInv
<1> QED
  BY <1>1, <1>3, <1>4, <1>5, DepGraphInvariant, PTL DEF Spec
=============================================================================
