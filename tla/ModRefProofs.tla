---------------------------- MODULE ModRefProofs ----------------------------
(***************************************************************************)
(* Proofs about the call graph and the mod/ref analysis, for every program *)
(* with finitely many functions.                                           *)
(*                                                                         *)
(* The work list of the search from main only holds what it has marked and *)
(* not expanded, so what is marked in the end is closed under calls.  The  *)
(* sets of a component are settled when a pass over it changes nothing,    *)
(* and stay so, since only sets of later components change after that.     *)
(* That the sets of all components are settled locally, along each call,   *)
(* gives the effects along any chain of calls.                             *)
(***************************************************************************)
EXTENDS ModRef, CommonLemmas

(* The call graph the program has, whatever has been built of it. *)
MayEdges == UNION {{<<f, g>> : g \in MayCall(f)} : f \in Functions}

(* What addToCallGraph makes the node of f call. *)
CalledBy(f) ==
  IF Fun(f).isDecl THEN {External}
  ELSE UNION {CalleeNodes(Fun(f).calls[i]) : i \in DOMAIN Fun(f).calls}

Entries == {f \in Functions : ~ Fun(f).isLocal \/ Fun(f).addressTaken}

-----------------------------------------------------------------------------
(* The inductive invariant. *)

TypeInv == TypeOK /\ prog \in Programs

(* The nodes of the call graph that have been built. *)
GraphInv ==
  LET built == IF pc = "build" THEN Functions \ todo ELSE Functions
  IN  /\ \A f \in built : called[f] = CalledBy(f)
      /\ called[Calling] = Entries \cap built

(* The search from main. *)
ReachInv ==
  /\ pc = "build" => Visited = {}
  /\ pc \notin {"build", "reach"} => ToVisit = {}
  /\ pc # "build" /\ HasMain => "main" \in Visited
  /\ \A n \in Visited \ ToVisit : n # External => called[n] \subseteq Visited
  /\ HasMain => Visited \ {External} \subseteq ReachedFrom(MayEdges, {"main"})

(* The sets of f hold those of its callees, but for what f kills. *)
Settled(f) ==
  \A g \in Callees(f) : mod[g] \ kill[f] \subseteq mod[f] /\ ref[g] \ kill[f] \subseteq ref[f]

(* The sets of f hold what f does itself, but for what it kills. *)
OwnEffects(f) == DirectMod(f) \ kill[f] \subseteq mod[f] /\ DirectRef(f) \ kill[f] \subseteq ref[f]

FramesBelow(f) == UNION {Fun(g).alloca : g \in Below(f)}

Early == pc \in {"build", "reach", "direct"}

(* Which component is where. *)
ComponentInv ==
  /\ Early => scc = {} /\ finished = {}
  /\ pc # "update" => scc = {}
  /\ scc \cap finished = {}
  /\ pc = "update" => todo \subseteq scc
  /\ \A f \in finished : Callees(f) \subseteq finished
  /\ \A f \in scc : Callees(f) \subseteq finished \cup scc
  /\ pc = "done" => ReachedFrom(CallEdges, Root) \subseteq finished

(* What is killed is the memory of frames that are gone. *)
KillInv ==
  /\ Early => \A f \in Functions : kill[f] = {}
  /\ \A f \in Functions : local[f] \subseteq Fun(f).alloca
  /\ \A f \in Functions : kill[f] \subseteq FramesBelow(f)
  /\ \A f \in scc \cup finished : (mod[f] \cup ref[f]) \cap kill[f] = {}

(* The sets that are complete. *)
SetsInv ==
  /\ \A f \in Functions : isReachableFromEntry(f) /\ ~ Early => OwnEffects(f)
  /\ \A f \in Functions : isReachableFromEntry(f) /\ pc = "direct" /\ f \notin todo => OwnEffects(f)
  /\ \A f \in finished : Settled(f)
  /\ ~ changed => \A f \in scc \ todo : Settled(f)

ModRefInv == GraphInv /\ ReachInv /\ ComponentInv /\ KillInv /\ SetsInv

-----------------------------------------------------------------------------
(* The program. *)

(* The functions an indirect call may reach, and what is called at all,    *)
(* are functions of the program.                                           *)
LEMMA CallsWithin ==
  ASSUME prog \in Programs, NEW f \in Functions
  PROVE  /\ MayCall(f) \subseteq Functions
         /\ CalledBy(f) \subseteq Functions \cup {External}
         /\ CalledBy(f) \ {External} = MayCall(f)
<1> DEFINE calls == Fun(f).calls
           may(c) == IF c.callee # Indirect THEN {c.callee}
                     ELSE {g \in c.targets : Fun(g).nargs <= Len(c.args)
                                              /\ (Fun(g).nargs < Len(c.args) => Fun(g).isVarArg)}
<1>1. /\ External \notin Functions /\ Indirect \notin Functions
      /\ Fun(f).isDecl => calls = <<>>
      /\ \A g \in Functions : Fun(g).nargs \in Nat
  BY ProgramsAssumption DEF Functions, Fun
<1>2. ASSUME NEW i \in DOMAIN calls
      PROVE  /\ calls[i].callee \in Functions \cup {Indirect}
             /\ calls[i].targets \subseteq Functions
             /\ Len(calls[i].args) \in Nat
  <2>1. /\ calls[i].callee \in Functions \cup {Indirect}
        /\ calls[i].targets \subseteq Functions
        /\ calls[i].args \in Seq(SUBSET RegionsOf(prog))
    BY ProgramsAssumption DEF Functions, Fun
  <2> QED
    BY <2>1
<1>3. ASSUME NEW i \in DOMAIN calls
      PROVE  /\ CalleeNodes(calls[i]) \ {External} = may(calls[i])
             /\ may(calls[i]) \subseteq Functions
  <2>1. Candidates(calls[i]) =
          {g \in calls[i].targets : Fun(g).nargs <= Len(calls[i].args)
                                      /\ (Fun(g).nargs < Len(calls[i].args) => Fun(g).isVarArg)}
    BY <1>1, <1>2 DEF Candidates
  <2> QED
    BY <1>1, <1>2, <2>1 DEF CalleeNodes
<1>4. MayCall(f) = UNION {may(calls[i]) : i \in DOMAIN calls}
  BY DEF MayCall
<1> HIDE DEF may
<1>5. MayCall(f) \subseteq Functions
  BY <1>3, <1>4
<1>6. CASE Fun(f).isDecl
  <2>1. calls = <<>>
    BY <1>1, <1>6
  <2>2. DOMAIN <<>> = {}
    OBVIOUS
  <2>3. MayCall(f) = {}
    BY <1>4, <2>1, <2>2
  <2> QED
    BY <1>6, <2>3 DEF CalledBy
<1>7. CASE ~ Fun(f).isDecl
  <2>1. CalledBy(f) = UNION {CalleeNodes(calls[i]) : i \in DOMAIN calls}
    BY <1>7 DEF CalledBy
  <2> HIDE DEF calls
  <2>2. CalledBy(f) \ {External} = MayCall(f)
    BY <1>3, <1>4, <2>1
  <2> QED
    BY <1>5, <2>2
<1> QED
  BY <1>5, <1>6, <1>7

(* The graph is finite. *)
LEMMA FiniteProgram ==
  ASSUME prog \in Programs
  PROVE  /\ IsFiniteSet(Functions) /\ IsFiniteSet(MayEdges)
         /\ External \notin Functions /\ Calling \notin Functions
         /\ MayEdges \subseteq Functions \X Functions
<1>1. /\ IsFiniteSet(Functions) /\ External \notin Functions /\ Calling \notin Functions
  BY ProgramsAssumption DEF Functions
<1>2. MayEdges \subseteq Functions \X Functions
  BY CallsWithin DEF MayEdges
<1>3. IsFiniteSet(Functions \X Functions)
  BY <1>1, FS_Product
<1> QED
  BY <1>1, <1>2, <1>3, FS_Subset

(* What f may end up calling. *)
Reach(f) == ReachedFrom(MayEdges, {f})

(* It is the least set around f that calls do not leave. *)
LEMMA ReachFacts ==
  ASSUME prog \in Programs, NEW f \in Functions
  PROVE  /\ f \in Reach(f) /\ Reach(f) \subseteq Functions
         /\ \A g \in Reach(f) : MayCall(g) \subseteq Reach(f)
         /\ \A C : f \in C /\ (\A g \in C \cap Functions : MayCall(g) \subseteq C) => Reach(f) \subseteq C
         /\ \A g \in Reach(f) : Reach(g) \subseteq Reach(f)
<1>1. /\ IsFiniteSet(MayEdges) /\ IsFiniteSet({f}) /\ MayEdges \subseteq Functions \X Functions
  BY FiniteProgram, FS_Singleton
<1>2. /\ {f} \subseteq Reach(f)
      /\ Reach(f) \subseteq {f} \cup {e[2] : e \in MayEdges}
      /\ Successors(MayEdges, Reach(f)) \subseteq Reach(f)
      /\ \A C : {f} \subseteq C /\ Successors(MayEdges, C) \subseteq C => Reach(f) \subseteq C
  BY <1>1, ReachedIsLeast DEF Reach
<1>3. \A e \in MayEdges : e[2] \in Functions
  BY <1>1
<1>4. Reach(f) \subseteq Functions
  BY <1>2, <1>3
<1>5. ASSUME NEW g \in Functions, NEW C, g \in C
      PROVE  MayCall(g) \subseteq Successors(MayEdges, C)
  <2> SUFFICES ASSUME NEW h \in MayCall(g) PROVE h \in Successors(MayEdges, C)
    OBVIOUS
  <2>1. <<g, h>> \in MayEdges /\ <<g, h>>[1] \in C
    BY <1>5 DEF MayEdges
  <2>2. <<g, h>> \in {x \in MayEdges : x[1] \in C} /\ <<g, h>>[2] = h
    BY <2>1
  <2> QED
    BY <2>2 DEF Successors
<1>6. ASSUME NEW C, \A g \in C \cap Functions : MayCall(g) \subseteq C
      PROVE  Successors(MayEdges, C) \subseteq C
  BY <1>6 DEF Successors, MayEdges
<1>7. \A g \in Reach(f) : MayCall(g) \subseteq Reach(f)
  BY <1>2, <1>4, <1>5
<1>8. ASSUME NEW C, f \in C, \A g \in C \cap Functions : MayCall(g) \subseteq C
      PROVE  Reach(f) \subseteq C
  BY <1>2, <1>6, <1>8
<1>9. ASSUME NEW g \in Reach(f) PROVE Reach(g) \subseteq Reach(f)
  <2>1. IsFiniteSet({g})
    BY FS_Singleton
  <2>2. \A C : {g} \subseteq C /\ Successors(MayEdges, C) \subseteq C => Reach(g) \subseteq C
    BY <1>1, <2>1, ReachedIsLeast DEF Reach
  <2> QED
    BY <1>2, <2>2
<1> QED
  BY <1>2, <1>4, <1>7, <1>8, <1>9

(* Once built, the call graph has the edges of the program. *)
LEMMA BuiltGraph ==
  ASSUME prog \in Programs, GraphInv, pc # "build"
  PROVE  /\ \A f \in Functions : Callees(f) = MayCall(f) /\ called[f] = CalledBy(f)
         /\ CallEdges = MayEdges
         /\ \A f \in Functions : /\ ReachedFrom(CallEdges, {f}) = Reach(f)
                                 /\ Below(f) = {g \in Reach(f) : f \notin Reach(g)}
                                 /\ SCC(CallEdges, f) = {g \in Reach(f) : f \in Reach(g)}
         /\ Root = Entries
<1>1. \A f \in Functions : called[f] = CalledBy(f) /\ called[Calling] = Entries
  BY DEF GraphInv, Entries
<1>2. \A f \in Functions : Callees(f) = MayCall(f)
  BY <1>1, CallsWithin DEF Callees
<1>3. CallEdges = MayEdges
  BY <1>2 DEF CallEdges, MayEdges
<1>4. ASSUME NEW f \in Functions
      PROVE  /\ ReachedFrom(CallEdges, {f}) = Reach(f)
             /\ SCC(CallEdges, f) = {g \in Reach(f) : f \in Reach(g)}
             /\ Below(f) = {g \in Reach(f) : f \notin Reach(g)}
  BY <1>3 DEF Reach, SCC, Below
<1>5. Root = Entries
  <2>1. called[Calling] = Entries
    BY DEF GraphInv, Entries
  <2>2. External \notin Entries
    BY FiniteProgram DEF Entries
  <2> QED
    BY <2>1, <2>2 DEF Root, Callees
<1> QED
  BY <1>1, <1>2, <1>3, <1>4, <1>5

(* What is below a function f reaches is below f. *)
LEMMA BelowDown ==
  ASSUME prog \in Programs, GraphInv, pc # "build", NEW f \in Functions, NEW g \in Reach(f)
  PROVE  Below(g) \subseteq Below(f) /\ FramesBelow(g) \subseteq FramesBelow(f)
<1>1. g \in Functions /\ Reach(g) \subseteq Reach(f)
  BY ReachFacts
<1>2. ASSUME NEW h \in Below(g) PROVE h \in Below(f)
  <2>1. h \in Reach(g) /\ g \notin Reach(h)
    BY <1>1, BuiltGraph
  <2>2. h \in Reach(f) /\ h \in Functions
    BY <1>1, <2>1, ReachFacts
  <2>3. f \in Reach(h) => Reach(f) \subseteq Reach(h)
    BY <2>2, ReachFacts
  <2> QED
    BY <2>1, <2>2, <2>3, BuiltGraph
<1> QED
  BY <1>2 DEF FramesBelow

(* The analysis does not change the program, *)
LEMMA ProgramFrame ==
  ASSUME UNCHANGED prog
  PROVE  /\ Functions' = Functions /\ MayEdges' = MayEdges /\ Entries' = Entries
         /\ HasMain' <=> HasMain
         /\ \A f : /\ Fun(f)' = Fun(f) /\ CalledBy(f)' = CalledBy(f)
                   /\ MayCall(f)' = MayCall(f) /\ Reach(f)' = Reach(f)
<1>1. Functions' = Functions /\ \A f : Fun(f)' = Fun(f)
  BY DEF Functions, Fun
<1>c. \A c : Candidates(c)' = Candidates(c)
  BY <1>1 DEF Candidates
<1>2. \A f : CalledBy(f)' = CalledBy(f)
  <2>1. \A c : CalleeNodes(c)' = CalleeNodes(c)
    BY <1>c DEF CalleeNodes
  <2> QED
    BY <1>1, <2>1 DEF CalledBy
<1>3. \A f : MayCall(f)' = MayCall(f)
  BY <1>1 DEF MayCall
<1>4. MayEdges' = MayEdges
  BY <1>1, <1>3 DEF MayEdges
<1>5. \A f : Reach(f)' = Reach(f)
  BY <1>4 DEF Reach
<1>6. Entries' = Entries
  BY <1>1 DEF Entries
<1>7. HasMain' <=> HasMain
  BY <1>1 DEF HasMain
<1> QED
  BY <1>1, <1>2, <1>3, <1>4, <1>5, <1>6, <1>7

(* nor the call graph once it is built. *)
LEMMA GraphFrame ==
  ASSUME UNCHANGED <<prog, called>>
  PROVE  /\ CallEdges' = CallEdges /\ (Root)' = Root
         /\ \A f : /\ Callees(f)' = Callees(f) /\ Below(f)' = Below(f)
                   /\ FramesBelow(f)' = FramesBelow(f)
<1>1. Functions' = Functions /\ (HasMain' <=> HasMain) /\ \A f : Fun(f)' = Fun(f)
  BY ProgramFrame
<1>2. \A f : Callees(f)' = Callees(f)
  BY DEF Callees
<1>3. CallEdges' = CallEdges
  BY <1>1, <1>2 DEF CallEdges
<1>4. \A f : Below(f)' = Below(f)
  BY <1>3 DEF Below
<1>5. \A f : FramesBelow(f)' = FramesBelow(f)
  BY <1>1, <1>4 DEF FramesBelow
<1> QED
  BY <1>1, <1>2, <1>3, <1>4, <1>5 DEF Root

(* What a function does itself is settled by then as well. *)
LEMMA DirectFrame ==
  ASSUME UNCHANGED <<prog, graphVars>>
  PROVE  \A f : /\ isReachableFromEntry(f)' <=> isReachableFromEntry(f)
                /\ DirectMod(f)' = DirectMod(f) /\ DirectRef(f)' = DirectRef(f)
<1>0. UNCHANGED <<prog, called, indirectCallMap, Visited>>
  BY DEF graphVars
<1>1. Functions' = Functions /\ (HasMain' <=> HasMain) /\ \A f : Fun(f)' = Fun(f)
  BY <1>0, ProgramFrame
<1>2. \A f : isReachableFromEntry(f)' <=> isReachableFromEntry(f)
  BY <1>0, <1>1 DEF isReachableFromEntry
<1>3. globalKillSet' = globalKillSet
  BY <1>1, <1>2 DEF globalKillSet
<1>4. \A f, i : ExternalCallees(f, i)' = ExternalCallees(f, i)
  BY <1>0, <1>1 DEF ExternalCallees
<1>5. \A f : ExternalRef(f)' = ExternalRef(f)
  BY <1>1, <1>4 DEF ExternalRef
<1>6. \A f : ExternalMod(f)' = ExternalMod(f)
  BY <1>1, <1>4 DEF ExternalMod, ArgIsMod
<1> QED
  BY <1>1, <1>2, <1>3, <1>5, <1>6 DEF DirectMod, DirectRef

(* What a function does itself is about regions of the program. *)
LEMMA DirectTypes ==
  ASSUME prog \in Programs, NEW f \in Functions
  PROVE  /\ DirectMod(f) \subseteq RegionsOf(prog) /\ DirectRef(f) \subseteq RegionsOf(prog)
         /\ Fun(f).alloca \subseteq RegionsOf(prog)
<1> DEFINE calls == Fun(f).calls
<1>1. /\ Fun(f).loads \subseteq RegionsOf(prog) /\ Fun(f).stores \subseteq RegionsOf(prog)
  BY ProgramsAssumption DEF Functions, Fun
<1>2. ASSUME NEW i \in DOMAIN calls
      PROVE  /\ \A k \in DOMAIN calls[i].args : calls[i].args[k] \subseteq RegionsOf(prog)
             /\ calls[i].ret \subseteq RegionsOf(prog)
  <2>1. calls[i].args \in Seq(SUBSET RegionsOf(prog)) /\ calls[i].ret \subseteq RegionsOf(prog)
    BY ProgramsAssumption DEF Functions, Fun
  <2> QED
    BY <2>1
<1>3. Fun(f).alloca \subseteq RegionsOf(prog)
  <2>1. f \in DOMAIN prog.fun
    BY DEF Functions
  <2>2. Fun(f).alloca \cup Fun(f).heap \in
          {prog.fun[g].alloca \cup prog.fun[g].heap : g \in DOMAIN prog.fun}
    BY <2>1 DEF Fun
  <2> QED
    BY <2>2 DEF RegionsOf
<1>4. ASSUME NEW x \in ExternalRef(f) PROVE x \in RegionsOf(prog)
  <2>1. PICK i \in DOMAIN calls :
          x \in IF ExternalCallees(f, i) = {} THEN {}
                ELSE (UNION {calls[i].args[k] : k \in DOMAIN calls[i].args}) \cup calls[i].ret
    BY <1>4 DEF ExternalRef
  <2> QED
    BY <1>2, <2>1
<1>5. ASSUME NEW x \in ExternalMod(f) PROVE x \in RegionsOf(prog)
  <2> DEFINE may(g, i) ==
               (UNION {calls[i].args[k] : k \in {j \in DOMAIN calls[i].args : ArgIsMod(g, j)}})
                 \cup (IF Fun(g).info.known /\ Fun(g).info.retIsMod THEN calls[i].ret ELSE {})
  <2>1. ExternalMod(f) = UNION {UNION {may(g, i) : g \in ExternalCallees(f, i)} : i \in DOMAIN calls}
    BY DEF ExternalMod
  <2>2. ASSUME NEW i \in DOMAIN calls, NEW g PROVE may(g, i) \subseteq RegionsOf(prog)
    BY <1>2
  <2> HIDE DEF may
  <2> QED
    BY <1>5, <2>1, <2>2
<1> QED
  BY <1>1, <1>3, <1>4, <1>5 DEF DirectMod, DirectRef

-----------------------------------------------------------------------------
(* Types. *)

(* Every step keeps the types. *)
LEMMA TypeStep ==
  ASSUME TypeInv, [Next]_vars
  PROVE  TypeInv'
<1>0. TypeOK /\ prog \in Programs
  BY DEF TypeInv
<1> USE <1>0
<1>u. CASE UNCHANGED vars
  BY <1>u DEF vars, graphVars, TypeInv, TypeOK, Functions
<1>p. UNCHANGED prog
  BY <1>u DEF Next, vars, AddToCallGraph, VisitFunction, UpdateFunction, Visit, StartReach,
     StartDirect, NextComponent, EndPass, Terminated
<1>q. Functions' = Functions /\ RegionsOf(prog)' = RegionsOf(prog)
  BY <1>p DEF Functions, RegionsOf
<1>s. /\ mod \in [Functions -> SUBSET RegionsOf(prog)]
      /\ ref \in [Functions -> SUBSET RegionsOf(prog)]
      /\ kill \in [Functions -> SUBSET RegionsOf(prog)]
      /\ local \in [Functions -> SUBSET RegionsOf(prog)]
  BY DEF TypeOK
<1>e. ASSUME /\ pc' \in {"build", "reach", "direct", "component", "update", "done"}
             /\ todo' \subseteq Functions /\ scc' \subseteq Functions /\ finished' \subseteq Functions
             /\ called' \in [Functions \cup {Calling} -> SUBSET (Functions \cup {External})]
             /\ Visited' \subseteq Functions \cup {External} /\ ToVisit' \subseteq Visited'
             /\ changed' \in BOOLEAN
             /\ mod' \in [Functions -> SUBSET RegionsOf(prog)]
             /\ ref' \in [Functions -> SUBSET RegionsOf(prog)]
             /\ kill' \in [Functions -> SUBSET RegionsOf(prog)]
             /\ local' \in [Functions -> SUBSET RegionsOf(prog)]
      PROVE  TypeInv'
  <2>1. \A m \in {mod', ref', kill', local'} : m \in [Functions' -> SUBSET RegionsOf(prog)']
    BY <1>e, <1>q
  <2>2. TypeOK'
    BY <1>e, <1>q, <2>1 DEF TypeOK
  <2> QED
    BY <1>p, <2>2 DEF TypeInv
<1>1. ASSUME NEW f \in todo, AddToCallGraph(f)
      PROVE  TypeInv'
  <2>1. f \in Functions /\ todo' \subseteq Functions
    BY <1>1 DEF TypeOK, AddToCallGraph
  <2> DEFINE A == IF Fun(f).isDecl THEN {External}
                  ELSE UNION {CalleeNodes(Fun(f).calls[i]) : i \in DOMAIN Fun(f).calls}
             B == called[Calling] \cup (IF Fun(f).isLocal /\ ~ Fun(f).addressTaken THEN {} ELSE {f})
  <2>2. A \subseteq Functions \cup {External}
    BY <2>1, CallsWithin DEF CalledBy
  <2>3. B \subseteq Functions \cup {External}
    BY <2>1 DEF TypeOK
  <2>4. called' = [called EXCEPT ![f] = A, ![Calling] = B]
    <3>1. Calling # f
      BY <2>1, FiniteProgram
    <3>2. called' = [called EXCEPT ![f] = A,
             ![Calling] = @ \cup (IF Fun(f).isLocal /\ ~ Fun(f).addressTaken THEN {} ELSE {f})]
      BY <1>1 DEF AddToCallGraph
    <3> HIDE DEF A
    <3> QED
      BY <2>1, <3>1, <3>2 DEF TypeOK
  <2> HIDE DEF A, B
  <2>5. called' \in [Functions \cup {Calling} -> SUBSET (Functions \cup {External})]
    BY <2>1, <2>2, <2>3, <2>4 DEF TypeOK
  <2>6. UNCHANGED <<pc, ToVisit, Visited, scc, finished, changed, mod, ref, kill, local>>
    BY <1>1 DEF AddToCallGraph
  <2> QED
    BY <1>e, <1>s, <2>1, <2>5, <2>6 DEF TypeOK
<1>2. CASE StartReach
  <2>1. ToVisit' \subseteq Visited' /\ Visited' \subseteq Functions \cup {External} /\ pc' = "reach"
    BY <1>2 DEF StartReach, HasMain
  <2>2. UNCHANGED <<todo, called, scc, finished, changed, mod, ref, kill, local>>
    BY <1>2 DEF StartReach
  <2> QED
    BY <1>e, <1>s, <2>1, <2>2 DEF TypeOK
<1>3. ASSUME NEW n \in ToVisit, Visit(n)
      PROVE  TypeInv'
  <2> DEFINE fresh == (IF n = External THEN {} ELSE called[n]) \ Visited
  <2>1. Visited' = Visited \cup fresh /\ ToVisit' = (ToVisit \ {n}) \cup fresh
    BY <1>3 DEF Visit
  <2>2. fresh \subseteq Functions \cup {External}
    BY <1>3 DEF TypeOK
  <2> HIDE DEF fresh
  <2>3. UNCHANGED <<pc, todo, called, scc, finished, changed, mod, ref, kill, local>>
    BY <1>3 DEF Visit
  <2> QED
    BY <1>e, <1>s, <2>1, <2>2, <2>3 DEF TypeOK
<1>4. CASE StartDirect
  <2>1. pc' = "direct" /\ todo' \subseteq Functions
    BY <1>4 DEF StartDirect
  <2>2. UNCHANGED <<called, ToVisit, Visited, scc, finished, changed, mod, ref, kill, local>>
    BY <1>4 DEF StartDirect, graphVars
  <2> QED
    BY <1>e, <1>s, <2>1, <2>2 DEF TypeOK
<1>5. ASSUME NEW f \in todo, VisitFunction(f)
      PROVE  TypeInv'
  <2>1. f \in Functions /\ todo' \subseteq Functions
    BY <1>5 DEF TypeOK, VisitFunction
  <2>2. pc' \in {"build", "reach", "direct", "component", "update", "done"}
    BY <1>5 DEF TypeOK, VisitFunction
  <2>3. /\ local' \in [Functions -> SUBSET RegionsOf(prog)]
        /\ mod' \in [Functions -> SUBSET RegionsOf(prog)]
        /\ ref' \in [Functions -> SUBSET RegionsOf(prog)]
    BY <1>5, <1>s, <2>1, DirectTypes DEF VisitFunction
  <2>4. UNCHANGED <<called, ToVisit, Visited, scc, finished, changed, kill>>
    BY <1>5 DEF VisitFunction, graphVars
  <2> QED
    BY <1>e, <1>s, <2>1, <2>2, <2>3, <2>4 DEF TypeOK
<1>6. ASSUME NEW f \in Functions, NextComponent(f)
      PROVE  TypeInv'
  <2> DEFINE S == SCC(CallEdges, f)
  <2>1. /\ scc' = S /\ todo' = S
        /\ kill' = [g \in Functions |-> IF g \in S THEN KillOf(g, S) ELSE kill[g]]
        /\ mod' = [g \in Functions |-> IF g \in S THEN mod[g] \ kill'[g] ELSE mod[g]]
        /\ ref' = [g \in Functions |-> IF g \in S THEN ref[g] \ kill'[g] ELSE ref[g]]
        /\ changed' = FALSE /\ pc' = "update"
        /\ UNCHANGED <<called, ToVisit, Visited, finished, local>>
    BY <1>6 DEF NextComponent, graphVars
  <2>2. CallEdges \subseteq Functions \X Functions
    BY DEF CallEdges, Callees, TypeOK
  <2>3. S \subseteq Functions
    <3>1. IsFiniteSet(CallEdges) /\ IsFiniteSet({f})
      BY <2>2, FiniteProgram, FS_Product, FS_Subset, FS_Singleton
    <3>2. ReachedFrom(CallEdges, {f}) \subseteq {f} \cup {e[2] : e \in CallEdges}
      BY <3>1, ReachedIsLeast
    <3> QED
      BY <2>2, <3>2 DEF SCC
  <2> HIDE DEF S
  <2>4. ASSUME NEW g \in Functions PROVE KillOf(g, S) \subseteq RegionsOf(prog)
    <3>1. Callees(g) \subseteq Functions
      BY DEF Callees, TypeOK
    <3> QED
      BY <1>s, <3>1 DEF KillOf
  <2>5. kill' \in [Functions -> SUBSET RegionsOf(prog)]
    BY <1>s, <2>1, <2>4
  <2>6. /\ mod' \in [Functions -> SUBSET RegionsOf(prog)]
        /\ ref' \in [Functions -> SUBSET RegionsOf(prog)]
    BY <1>s, <2>1
  <2> QED
    BY <1>e, <1>s, <2>1, <2>3, <2>5, <2>6 DEF TypeOK
<1>7. ASSUME NEW f \in todo, UpdateFunction(f)
      PROVE  TypeInv'
  <2>1. f \in Functions /\ todo' \subseteq Functions /\ Callees(f) \subseteq Functions
    BY <1>7 DEF TypeOK, UpdateFunction, Callees
  <2>2. /\ Inherited(mod, f) \subseteq RegionsOf(prog)
        /\ Inherited(ref, f) \subseteq RegionsOf(prog)
    BY <1>s, <2>1 DEF Inherited
  <2>3. /\ mod' \in [Functions -> SUBSET RegionsOf(prog)]
        /\ ref' \in [Functions -> SUBSET RegionsOf(prog)]
    BY <1>7, <1>s, <2>1, <2>2 DEF UpdateFunction
  <2>4. changed' \in BOOLEAN
    BY <1>7 DEF UpdateFunction
  <2>5. UNCHANGED <<pc, called, ToVisit, Visited, scc, finished, kill, local>>
    BY <1>7 DEF UpdateFunction, graphVars
  <2> QED
    BY <1>e, <1>s, <2>1, <2>3, <2>4, <2>5 DEF TypeOK
<1>8. CASE EndPass
  <2>1. /\ todo' \subseteq Functions /\ scc' \subseteq Functions /\ finished' \subseteq Functions
        /\ pc' \in {"build", "reach", "direct", "component", "update", "done"}
        /\ changed' \in BOOLEAN
    BY <1>8 DEF EndPass, TypeOK
  <2>2. UNCHANGED <<called, ToVisit, Visited, mod, ref, kill, local>>
    BY <1>8 DEF EndPass, graphVars
  <2> QED
    BY <1>e, <1>s, <2>1, <2>2 DEF TypeOK
<1> QED
  BY <1>u, <1>1, <1>2, <1>3, <1>4, <1>5, <1>6, <1>7, <1>8 DEF Next, Terminated

(* The types hold at the start. *)
LEMMA InitType ==
  ASSUME Init
  PROVE  TypeInv
<1>1. \A m \in {mod, ref, kill, local} : m = [f \in Functions |-> {}]
  BY DEF Init
<1>2. \A m \in {mod, ref, kill, local} : m \in [Functions -> SUBSET RegionsOf(prog)]
  BY <1>1
<1> QED
  BY <1>2 DEF Init, TypeInv, TypeOK

(* The call graph and the sets of regions keep their types: every callee   *)
(* is a function of the program or the external node, and every region one *)
(* of the program.                                                         *)
THEOREM TypeCorrect == Spec => []TypeOK
<1>1. Init => TypeInv
  BY InitType
<1>2. TypeInv /\ [Next]_vars => TypeInv'
  BY TypeStep
<1>3. TypeInv => TypeOK
  BY DEF TypeInv
<1> QED
  BY <1>1, <1>2, <1>3, PTL DEF Spec

-----------------------------------------------------------------------------
(* The call graph and the search from main. *)

(* The steps after the call graph is built leave it alone. *)
LEMMA LaterSteps ==
  ASSUME [Next]_vars
  PROVE  /\ UNCHANGED prog
         /\ UNCHANGED vars \/ (\E f \in todo : AddToCallGraph(f)) \/ StartReach
              \/ (\E n \in ToVisit : Visit(n)) \/ (UNCHANGED graphVars /\ pc # "build" /\ pc' # "build")
         /\ pc # "build" => UNCHANGED <<called, indirectCallMap>> /\ pc' # "build"
  BY DEF Next, vars, graphVars, AddToCallGraph, VisitFunction, UpdateFunction, Visit, StartReach,
     StartDirect, NextComponent, EndPass, Terminated

(* addToCallGraph makes the node of each function complete. *)
LEMMA GraphStep ==
  ASSUME TypeInv, GraphInv, [Next]_vars
  PROVE  GraphInv'
<1>0. TypeOK /\ prog \in Programs /\ UNCHANGED prog
  BY LaterSteps DEF TypeInv
<1>p. /\ Functions' = Functions /\ Entries' = Entries
      /\ \A f : CalledBy(f)' = CalledBy(f) /\ Fun(f)' = Fun(f)
  BY <1>0, ProgramFrame
<1>1. ASSUME NEW f \in todo, AddToCallGraph(f)
      PROVE  GraphInv'
  <2>1. /\ pc = "build" /\ pc' = "build" /\ todo' = todo \ {f}
        /\ f \in Functions /\ Calling \notin Functions
    BY <1>0, <1>1, FiniteProgram DEF AddToCallGraph, TypeOK
  <2>2. called' = [called EXCEPT
           ![f] = CalledBy(f),
           ![Calling] = @ \cup (IF Fun(f).isLocal /\ ~ Fun(f).addressTaken THEN {} ELSE {f})]
    BY <1>1 DEF AddToCallGraph, CalledBy
  <2>3. /\ called'[f] = CalledBy(f)
        /\ called'[Calling] =
             called[Calling] \cup (IF Fun(f).isLocal /\ ~ Fun(f).addressTaken THEN {} ELSE {f})
        /\ \A g \in Functions : g # f => called'[g] = called[g]
    BY <1>0, <2>1, <2>2 DEF TypeOK
  <2>4. ASSUME NEW g \in Functions \ todo' PROVE called'[g] = CalledBy(g)
    BY <2>1, <2>3, <2>4 DEF GraphInv
  <2>5. called'[Calling] = Entries \cap (Functions \ todo')
    <3>1. called[Calling] = Entries \cap (Functions \ todo)
      BY <2>1 DEF GraphInv
    <3>2. f \in Entries <=> ~ (Fun(f).isLocal /\ ~ Fun(f).addressTaken)
      BY <2>1 DEF Entries
    <3>3. Functions \ todo' = (Functions \ todo) \cup {f}
      BY <2>1
    <3> QED
      BY <2>3, <3>1, <3>2, <3>3
  <2> QED
    BY <1>p, <2>1, <2>4, <2>5 DEF GraphInv
<1>2. CASE StartReach
  <2>1. pc = "build" /\ pc' = "reach" /\ todo = {} /\ UNCHANGED called
    BY <1>2 DEF StartReach
  <2> QED
    BY <1>p, <2>1 DEF GraphInv
<1>3. CASE pc # "build"
  <2>1. UNCHANGED called /\ pc' # "build"
    BY <1>3, LaterSteps
  <2> QED
    BY <1>3, <1>p, <2>1 DEF GraphInv
<1>4. CASE UNCHANGED vars
  <2>1. UNCHANGED <<pc, todo, called>>
    BY <1>4 DEF vars, graphVars
  <2> QED
    BY <1>p, <2>1 DEF GraphInv
<1>5. ASSUME NEW n \in ToVisit, Visit(n) PROVE pc # "build"
  BY <1>5 DEF Visit
<1> QED
  BY <1>1, <1>2, <1>3, <1>4, <1>5, LaterSteps

(* The search marks only what main may end up calling, and has expanded    *)
(* what it marked and does not have on its list.                           *)
LEMMA ReachStep ==
  ASSUME TypeInv, GraphInv, ReachInv, [Next]_vars
  PROVE  ReachInv'
<1>0. TypeOK /\ prog \in Programs /\ UNCHANGED prog
  BY LaterSteps DEF TypeInv
<1>p. /\ Functions' = Functions /\ MayEdges' = MayEdges /\ (HasMain' <=> HasMain)
  BY <1>0, ProgramFrame
<1>m. HasMain => "main" \in Functions
  BY DEF HasMain
<1>1. ASSUME NEW f \in todo, AddToCallGraph(f)
      PROVE  ReachInv'
  <2>1. pc = "build" /\ pc' = "build" /\ UNCHANGED <<Visited, ToVisit>>
    BY <1>1 DEF AddToCallGraph
  <2>2. Visited = {}
    BY <2>1 DEF ReachInv
  <2> QED
    BY <1>p, <2>1, <2>2 DEF ReachInv
<1>2. CASE StartReach
  <2>1. /\ pc' = "reach" /\ Visited' = ToVisit'
        /\ Visited' = IF HasMain THEN {"main"} ELSE {}
    BY <1>2 DEF StartReach
  <2>2. HasMain => "main" \in Reach("main")
    BY <1>0, <1>m, ReachFacts
  <2> QED
    BY <1>p, <2>1, <2>2 DEF ReachInv, Reach
<1>3. ASSUME NEW n \in ToVisit, Visit(n)
      PROVE  ReachInv'
  <2> DEFINE fresh == (IF n = External THEN {} ELSE called[n]) \ Visited
  <2>1. /\ pc = "reach" /\ Visited' = Visited \cup fresh
        /\ ToVisit' = (ToVisit \ {n}) \cup fresh /\ UNCHANGED <<pc, called>>
    BY <1>3 DEF Visit
  <2>2. n \in Visited /\ ToVisit \subseteq Visited
    BY <1>0 DEF TypeOK
  <2>3. ASSUME NEW m \in Visited' \ ToVisit', m # External
        PROVE  called'[m] \subseteq Visited'
    <3>1. m \in Visited /\ (m = n \/ m \notin ToVisit)
      BY <2>1, <2>3
    <3>2. CASE m = n
      BY <2>1, <2>3, <3>2
    <3>3. CASE m # n
      BY <2>1, <2>3, <3>1, <3>3 DEF ReachInv
    <3> QED
      BY <3>2, <3>3
  <2>4. ASSUME HasMain
        PROVE  Visited' \ {External} \subseteq ReachedFrom(MayEdges, {"main"})
    <3>1. Visited \ {External} \subseteq Reach("main")
      BY <2>4 DEF ReachInv, Reach
    <3>2. ASSUME n # External
          PROVE  called[n] \ {External} \subseteq Reach("main")
      <4>1. n \in Reach("main") /\ n \in Functions
        BY <1>0, <1>m, <2>2, <2>4, <3>1, <3>2, ReachFacts
      <4>2. Callees(n) = MayCall(n) /\ MayCall(n) \subseteq Reach("main")
        BY <1>0, <1>m, <2>1, <2>4, <4>1, BuiltGraph, ReachFacts
      <4> QED
        BY <4>2 DEF Callees
    <3> QED
      BY <2>1, <3>1, <3>2 DEF Reach
  <2> HIDE DEF fresh
  <2> QED
    BY <1>p, <2>1, <2>2, <2>3, <2>4 DEF ReachInv
<1>4. CASE UNCHANGED graphVars /\ pc # "build" /\ pc' # "build"
  <2>1. UNCHANGED <<called, Visited, ToVisit>>
    BY <1>4 DEF graphVars
  <2>2. pc' # "reach" => pc # "reach" \/ ToVisit = {}
    <3>1. StartDirect => ToVisit = {}
      BY DEF StartDirect
    <3> QED
      BY <1>4, <3>1 DEF Next, vars, AddToCallGraph, VisitFunction, UpdateFunction, Visit, StartReach,
         NextComponent, EndPass, Terminated
  <2>3. pc' \notin {"build", "reach"} => ToVisit' = {}
    BY <1>4, <2>1, <2>2 DEF ReachInv
  <2> QED
    BY <1>4, <1>p, <2>1, <2>3 DEF ReachInv
<1>5. CASE UNCHANGED vars
  <2>1. UNCHANGED <<pc, called, Visited, ToVisit>>
    BY <1>5 DEF vars, graphVars
  <2> QED
    BY <1>p, <2>1 DEF ReachInv
<1> QED
  BY <1>1, <1>2, <1>3, <1>4, <1>5, LaterSteps

(* When the search is over, it has marked all that main may end up         *)
(* calling.                                                                *)
LEMMA SearchComplete ==
  ASSUME TypeInv, GraphInv, ReachInv, pc \notin {"build", "reach"}, HasMain
  PROVE  Visited \ {External} = Reach("main")
<1>0. prog \in Programs /\ "main" \in Functions /\ ToVisit = {} /\ "main" \in Visited
  BY DEF TypeInv, HasMain, ReachInv
<1>1. External \notin Functions
  BY <1>0, FiniteProgram
<1>2. ASSUME NEW g \in Visited \cap Functions PROVE MayCall(g) \subseteq Visited
  <2>1. g # External
    BY <1>1
  <2>2. called[g] \subseteq Visited
    BY <1>0, <2>1 DEF ReachInv
  <2>3. Callees(g) = MayCall(g)
    BY <1>0, BuiltGraph
  <2> QED
    BY <2>2, <2>3 DEF Callees
<1>3. Reach("main") \subseteq Visited /\ Reach("main") \subseteq Functions
  BY <1>0, <1>2, ReachFacts
<1> QED
  BY <1>1, <1>3 DEF ReachInv, Reach

-----------------------------------------------------------------------------
(* The components. *)

AnalysisInv == ComponentInv /\ KillInv /\ SetsInv

(* What the parts of the invariant are about, when the call graph and the  *)
(* search are over.                                                        *)
LEMMA AnalysisFrame ==
  ASSUME UNCHANGED <<prog, graphVars>>
  PROVE  /\ Functions' = Functions /\ CallEdges' = CallEdges /\ (Root)' = Root
         /\ \A f : /\ Fun(f)' = Fun(f) /\ Callees(f)' = Callees(f)
                   /\ FramesBelow(f)' = FramesBelow(f)
                   /\ isReachableFromEntry(f)' <=> isReachableFromEntry(f)
                   /\ DirectMod(f)' = DirectMod(f) /\ DirectRef(f)' = DirectRef(f)
<1>1. UNCHANGED <<prog, called>>
  BY DEF graphVars
<1> QED
  BY <1>1, ProgramFrame, GraphFrame, DirectFrame

(* No component is started before every function was looked at. *)
LEMMA AnalysisEarly ==
  ASSUME TypeInv, AnalysisInv, pc \in {"build", "reach"},
         UNCHANGED <<prog, scc, finished, changed, mod, ref, kill, local>>,
         pc' \in {"build", "reach"} \/ StartDirect
  PROVE  AnalysisInv'
<1>p. Functions' = Functions /\ \A f : Fun(f)' = Fun(f)
  BY ProgramFrame
<1>1. /\ pc' \in {"build", "reach", "direct"} /\ Early /\ Early'
  BY DEF StartDirect, Early
<1>2. /\ scc = {} /\ finished = {} /\ scc' = {} /\ finished' = {}
      /\ \A f \in Functions : kill[f] = {} /\ local[f] \subseteq Fun(f).alloca
  BY <1>1 DEF AnalysisInv, ComponentInv, KillInv
<1>3. ComponentInv'
  BY <1>1, <1>2 DEF ComponentInv
<1>4. KillInv'
  <2>1. \A f \in Functions' : kill'[f] = {} /\ local'[f] \subseteq Fun(f)'.alloca
    BY <1>p, <1>2
  <2> QED
    BY <1>1, <1>2, <2>1 DEF KillInv
<1>5. pc' = "direct" => \A f \in Functions' : isReachableFromEntry(f)' => f \in todo'
  <2>1. pc' = "direct" => StartDirect
    OBVIOUS
  <2>2. StartDirect => UNCHANGED <<prog, graphVars>> /\ todo' = {f \in Functions : isReachableFromEntry(f)}
    BY DEF StartDirect
  <2> QED
    BY <2>1, <2>2, AnalysisFrame
<1>6. SetsInv'
  BY <1>1, <1>2, <1>5 DEF SetsInv
<1> QED
  BY <1>3, <1>4, <1>6 DEF AnalysisInv

(* The visit of a function fills its sets. *)
LEMMA AnalysisVisit ==
  ASSUME TypeInv, AnalysisInv, NEW f \in todo, VisitFunction(f)
  PROVE  AnalysisInv'
<1>0. TypeOK /\ f \in Functions
  BY DEF TypeInv, TypeOK
<1>1. /\ pc = "direct" /\ pc' \in {"direct", "component"} /\ (pc' = "component" => todo' = {})
      /\ todo' = todo \ {f}
      /\ UNCHANGED <<prog, graphVars, scc, finished, changed, kill>>
  BY DEF VisitFunction
<1>2. /\ local' = [local EXCEPT ![f] = Fun(f).alloca]
      /\ mod' = [mod EXCEPT ![f] = DirectMod(f)]
      /\ ref' = [ref EXCEPT ![f] = DirectRef(f)]
  BY DEF VisitFunction
<1>t. /\ mod \in [Functions -> SUBSET RegionsOf(prog)]
      /\ ref \in [Functions -> SUBSET RegionsOf(prog)]
      /\ local \in [Functions -> SUBSET RegionsOf(prog)]
  BY <1>0 DEF TypeOK
<1>3. /\ local'[f] = Fun(f).alloca /\ mod'[f] = DirectMod(f) /\ ref'[f] = DirectRef(f)
      /\ \A g \in Functions : g # f => local'[g] = local[g] /\ mod'[g] = mod[g] /\ ref'[g] = ref[g]
  BY <1>0, <1>2, <1>t
<1>p. /\ Functions' = Functions
      /\ \A g : /\ Fun(g)' = Fun(g) /\ (isReachableFromEntry(g)' <=> isReachableFromEntry(g))
                /\ DirectMod(g)' = DirectMod(g) /\ DirectRef(g)' = DirectRef(g)
  BY <1>1, AnalysisFrame
<1>4. scc = {} /\ finished = {} /\ \A g \in Functions : kill[g] = {}
  BY <1>1 DEF AnalysisInv, ComponentInv, KillInv, Early
<1>n. scc' = {} /\ finished' = {} /\ kill' = kill
  BY <1>1, <1>4
<1>5. ComponentInv'
  BY <1>1, <1>4 DEF ComponentInv
<1>6. KillInv'
  <2>1. \A g \in Functions : local[g] \subseteq Fun(g).alloca
    BY DEF AnalysisInv, KillInv
  <2>2. \A g \in Functions' : kill'[g] = {} /\ local'[g] \subseteq Fun(g)'.alloca
    BY <1>1, <1>3, <1>4, <1>p, <2>1
  <2> QED
    BY <1>n, <2>2 DEF KillInv
<1>7. SetsInv'
  <2>1. \A g \in Functions : isReachableFromEntry(g) /\ g \notin todo => OwnEffects(g)
    BY <1>1 DEF AnalysisInv, SetsInv
  <2>2. \A g \in Functions : isReachableFromEntry(g) /\ g \notin todo' => OwnEffects(g)'
    <3> SUFFICES ASSUME NEW g \in Functions, isReachableFromEntry(g), g \notin todo'
                 PROVE  OwnEffects(g)'
      OBVIOUS
    <3>1. CASE g = f
      BY <1>3, <1>p, <3>1 DEF OwnEffects
    <3>2. CASE g # f
      <4>1. OwnEffects(g)
        BY <1>1, <2>1, <3>2
      <4> QED
        BY <1>1, <1>3, <1>p, <3>2, <4>1 DEF OwnEffects
    <3> QED
      BY <3>1, <3>2
  <2>3. ~ Early' => todo' = {}
    BY <1>1 DEF Early
  <2> QED
    BY <1>1, <1>n, <1>p, <2>2, <2>3 DEF SetsInv
<1> QED
  BY <1>5, <1>6, <1>7 DEF AnalysisInv

(* The component the iterator gives shares no function with those before   *)
(* it, and calls below it only functions of those.                         *)
LEMMA ComponentFacts ==
  ASSUME TypeInv, GraphInv, ComponentInv, pc # "build", NEW f \in Functions \ finished
  PROVE  LET S == SCC(CallEdges, f) IN
         /\ f \in S /\ S \subseteq Functions /\ S \cap finished = {}
         /\ \A g \in S : Callees(g) \ S \subseteq Below(g)
         /\ \A g \in S : \A h \in Callees(g) : h \in Reach(g)
<1> DEFINE S == SCC(CallEdges, f)
<1>0. prog \in Programs /\ f \in Functions
  BY DEF TypeInv
<1>1. \A g : g \in S <=> g \in Reach(f) /\ f \in Reach(g)
  BY <1>0, BuiltGraph
<1> HIDE DEF S
<1>2. f \in S /\ S \subseteq Functions
  BY <1>0, <1>1, ReachFacts
<1>3. ASSUME NEW g \in S, g \in finished PROVE FALSE
  <2>1. \A h \in finished \cap Functions : MayCall(h) \subseteq finished
    BY <1>0, BuiltGraph DEF ComponentInv
  <2>2. Reach(g) \subseteq finished
    BY <1>0, <1>2, <1>3, <2>1, ReachFacts
  <2> QED
    BY <1>1, <2>2
<1>4. ASSUME NEW g \in S PROVE \A h \in Callees(g) : h \in Reach(g)
  <2>1. g \in Functions
    BY <1>2
  <2>2. Callees(g) = MayCall(g) /\ g \in Reach(g)
    BY <1>0, <2>1, BuiltGraph, ReachFacts
  <2> QED
    BY <1>0, <2>1, <2>2, ReachFacts
<1>5. ASSUME NEW g \in S, NEW h \in Callees(g) \ S PROVE h \in Below(g)
  <2>1. g \in Functions /\ h \in Reach(g) /\ g \in Reach(f) /\ f \in Reach(g)
    BY <1>1, <1>2, <1>4
  <2>2. h \in Reach(f) /\ h \in Functions
    BY <1>0, <2>1, ReachFacts
  <2>3. ASSUME g \in Reach(h) PROVE FALSE
    <3>1. f \in Reach(h)
      BY <1>0, <2>1, <2>2, <2>3, ReachFacts
    <3> QED
      BY <1>1, <2>2, <3>1
  <2> QED
    BY <1>0, <2>1, <2>3, BuiltGraph
<1> QED
  BY <1>2, <1>3, <1>4, <1>5 DEF S

(* The next component: its functions kill the frames below them. *)
LEMMA AnalysisComponent ==
  ASSUME TypeInv, GraphInv, AnalysisInv, NEW f \in Functions, NextComponent(f)
  PROVE  AnalysisInv'
<1> DEFINE S == SCC(CallEdges, f)
<1>0. TypeOK /\ prog \in Programs /\ ComponentInv /\ KillInv /\ SetsInv
  BY DEF TypeInv, AnalysisInv
<1>1. /\ pc = "component" /\ pc' = "update" /\ f \notin finished
      /\ UNION {Callees(g) : g \in S} \subseteq finished \cup S
      /\ scc' = S /\ todo' = S
      /\ UNCHANGED <<prog, graphVars>> /\ UNCHANGED finished /\ UNCHANGED local
  BY DEF NextComponent
<1>2. /\ kill' = [g \in Functions |-> IF g \in S THEN KillOf(g, S) ELSE kill[g]]
      /\ mod' = [g \in Functions |-> IF g \in S THEN mod[g] \ kill'[g] ELSE mod[g]]
      /\ ref' = [g \in Functions |-> IF g \in S THEN ref[g] \ kill'[g] ELSE ref[g]]
  BY DEF NextComponent
<1>3. /\ f \in S /\ S \subseteq Functions /\ S \cap finished = {}
      /\ \A g \in S : Callees(g) \ S \subseteq Below(g)
      /\ \A g \in S : \A h \in Callees(g) : h \in Reach(g)
  BY <1>0, <1>1, ComponentFacts
<1> HIDE DEF S
<1>4. /\ \A g \in S : /\ kill'[g] = KillOf(g, S)
                      /\ mod'[g] = mod[g] \ kill'[g] /\ ref'[g] = ref[g] \ kill'[g]
      /\ \A g \in Functions \ S : kill'[g] = kill[g] /\ mod'[g] = mod[g] /\ ref'[g] = ref[g]
  BY <1>2, <1>3
<1>p. /\ Functions' = Functions
      /\ \A g : /\ Fun(g)' = Fun(g) /\ Callees(g)' = Callees(g) /\ FramesBelow(g)' = FramesBelow(g)
                /\ (isReachableFromEntry(g)' <=> isReachableFromEntry(g))
                /\ DirectMod(g)' = DirectMod(g) /\ DirectRef(g)' = DirectRef(g)
  BY <1>1, AnalysisFrame
<1>5. ComponentInv'
  <2>1. \A g \in S : Callees(g) \subseteq finished \cup S
    BY <1>1
  <2>2. \A g \in finished : Callees(g) \subseteq finished
    BY <1>0 DEF ComponentInv
  <2>3. ~ Early'
    BY <1>1 DEF Early
  <2> QED
    BY <1>1, <1>3, <1>p, <2>1, <2>2, <2>3 DEF ComponentInv
<1>6. KillInv'
  <2>1. ASSUME NEW g \in S, NEW x \in kill'[g] PROVE x \in FramesBelow(g)
    <3>1. x \in kill[g] \/ \E h \in Callees(g) \ S : x \in local[h] \cup kill[h]
      BY <1>4, <2>1 DEF KillOf
    <3>2. CASE x \in kill[g]
      BY <1>0, <1>3, <3>2 DEF KillInv
    <3>3. CASE \E h \in Callees(g) \ S : x \in local[h] \cup kill[h]
      <4>1. PICK h \in Callees(g) \ S : x \in local[h] \cup kill[h]
        BY <3>3
      <4>2. g \in Functions /\ h \in Below(g) /\ h \in Reach(g)
        BY <1>3
      <4>3. h \in Functions
        BY <1>0, <4>2, ReachFacts
      <4>4. local[h] \subseteq Fun(h).alloca /\ kill[h] \subseteq FramesBelow(h)
        BY <1>0, <4>3 DEF KillInv
      <4>5. FramesBelow(h) \subseteq FramesBelow(g)
        BY <1>0, <1>1, <4>2, BelowDown
      <4>6. Fun(h).alloca \subseteq FramesBelow(g)
        BY <4>2 DEF FramesBelow
      <4> QED
        BY <4>1, <4>4, <4>5, <4>6
    <3> QED
      BY <3>1, <3>2, <3>3
  <2>2. \A g \in Functions : kill'[g] \subseteq FramesBelow(g)
    BY <1>0, <1>4, <2>1 DEF KillInv
  <2>3. \A g \in S \cup finished : (mod'[g] \cup ref'[g]) \cap kill'[g] = {}
    <3>1. \A g \in finished : g \in Functions \ S /\ (mod[g] \cup ref[g]) \cap kill[g] = {}
      BY <1>0, <1>3 DEF KillInv, TypeOK
    <3> QED
      BY <1>4, <3>1
  <2>4. \A g \in Functions : local[g] \subseteq Fun(g).alloca
    BY <1>0 DEF KillInv
  <2>5. ~ Early'
    BY <1>1 DEF Early
  <2> QED
    BY <1>1, <1>p, <2>2, <2>3, <2>4, <2>5 DEF KillInv
<1>7. SetsInv'
  <2>1. ASSUME NEW g \in Functions, isReachableFromEntry(g) PROVE OwnEffects(g)'
    <3>1. DirectMod(g) \ kill[g] \subseteq mod[g] /\ DirectRef(g) \ kill[g] \subseteq ref[g]
      BY <1>0, <1>1, <2>1 DEF SetsInv, OwnEffects, Early
    <3>2. g \in S => kill[g] \subseteq kill'[g]
      BY <1>4 DEF KillOf
    <3>3. DirectMod(g) \ kill'[g] \subseteq mod'[g] /\ DirectRef(g) \ kill'[g] \subseteq ref'[g]
      BY <1>4, <3>1, <3>2
    <3> QED
      BY <1>p, <3>3 DEF OwnEffects
  <2>2. ASSUME NEW g \in finished PROVE Settled(g)'
    <3>1. /\ g \in Functions \ S /\ Callees(g) \subseteq finished
          /\ \A h \in finished : h \in Functions \ S
      BY <1>0, <1>3 DEF TypeOK, ComponentInv
    <3>2. \A h \in Callees(g) : mod[h] \ kill[g] \subseteq mod[g] /\ ref[h] \ kill[g] \subseteq ref[g]
      BY <1>0, <2>2 DEF SetsInv, Settled
    <3>3. \A h \in Callees(g) : mod'[h] \ kill'[g] \subseteq mod'[g] /\ ref'[h] \ kill'[g] \subseteq ref'[g]
      BY <1>4, <3>1, <3>2
    <3> QED
      BY <1>p, <3>3 DEF Settled
  <2> QED
    BY <1>1, <1>p, <2>1, <2>2 DEF SetsInv
<1> QED
  BY <1>5, <1>6, <1>7 DEF AnalysisInv

(* One function of the component takes what its callees have. *)
LEMMA AnalysisUpdate ==
  ASSUME TypeInv, AnalysisInv, NEW f \in todo, UpdateFunction(f)
  PROVE  AnalysisInv'
<1>0. TypeOK /\ ComponentInv /\ KillInv /\ SetsInv /\ f \in Functions
  BY DEF TypeInv, TypeOK, AnalysisInv
<1>1. /\ pc = "update" /\ pc' = "update" /\ todo' = todo \ {f}
      /\ UNCHANGED <<prog, graphVars>> /\ UNCHANGED <<scc, finished, kill, local>>
  BY DEF UpdateFunction
<1>2. /\ mod' = [mod EXCEPT ![f] = Inherited(mod, f)]
      /\ ref' = [ref EXCEPT ![f] = Inherited(ref, f)]
      /\ (changed' <=> (changed \/ mod' # mod \/ ref' # ref))
  BY DEF UpdateFunction
<1>t. /\ mod \in [Functions -> SUBSET RegionsOf(prog)]
      /\ ref \in [Functions -> SUBSET RegionsOf(prog)]
  BY <1>0 DEF TypeOK
<1>3. /\ mod'[f] = Inherited(mod, f) /\ ref'[f] = Inherited(ref, f)
      /\ \A g \in Functions : g # f => mod'[g] = mod[g] /\ ref'[g] = ref[g]
  BY <1>0, <1>2, <1>t
<1>4. /\ mod[f] \subseteq mod'[f] /\ ref[f] \subseteq ref'[f]
      /\ \A x \in mod'[f] : x \in mod[f] \/ x \notin kill[f]
      /\ \A x \in ref'[f] : x \in ref[f] \/ x \notin kill[f]
      /\ \A g \in Callees(f) : /\ mod[g] \ kill[f] \subseteq mod'[f]
                               /\ ref[g] \ kill[f] \subseteq ref'[f]
  BY <1>3 DEF Inherited
<1>p. /\ Functions' = Functions
      /\ \A g : /\ Fun(g)' = Fun(g) /\ Callees(g)' = Callees(g) /\ FramesBelow(g)' = FramesBelow(g)
                /\ (isReachableFromEntry(g)' <=> isReachableFromEntry(g))
                /\ DirectMod(g)' = DirectMod(g) /\ DirectRef(g)' = DirectRef(g)
  BY <1>1, AnalysisFrame
<1>q. /\ f \in scc /\ f \notin finished /\ todo \subseteq scc
      /\ scc \subseteq Functions /\ finished \subseteq Functions
  BY <1>0, <1>1 DEF ComponentInv, TypeOK
<1>5. ComponentInv'
  <2>1. ~ Early'
    BY <1>1 DEF Early
  <2> QED
    BY <1>0, <1>1, <1>p, <2>1 DEF ComponentInv
<1>6. KillInv'
  <2>1. \A g \in scc \cup finished : (mod'[g] \cup ref'[g]) \cap kill[g] = {}
    <3>1. \A g \in scc \cup finished : (mod[g] \cup ref[g]) \cap kill[g] = {}
      BY <1>0 DEF KillInv
    <3>2. (mod'[f] \cup ref'[f]) \cap kill[f] = {}
      BY <1>4, <1>q, <3>1
    <3> QED
      BY <1>3, <1>q, <3>1, <3>2
  <2>2. ~ Early'
    BY <1>1 DEF Early
  <2> QED
    BY <1>0, <1>1, <1>p, <2>1, <2>2 DEF KillInv
<1>7. SetsInv'
  <2>1. ASSUME NEW g \in Functions, isReachableFromEntry(g) PROVE OwnEffects(g)'
    <3>1. DirectMod(g) \ kill[g] \subseteq mod[g] /\ DirectRef(g) \ kill[g] \subseteq ref[g]
      BY <1>0, <1>1, <2>1 DEF SetsInv, OwnEffects, Early
    <3>2. mod[g] \subseteq mod'[g] /\ ref[g] \subseteq ref'[g]
      BY <1>3, <1>4
    <3> QED
      BY <1>1, <1>p, <3>1, <3>2 DEF OwnEffects
  <2>2. ASSUME NEW g \in finished PROVE Settled(g)'
    <3>1. /\ g \in Functions /\ g # f /\ \A h \in Callees(g) : h \in Functions /\ h # f
      BY <1>0, <1>q DEF ComponentInv
    <3>2. \A h \in Callees(g) : mod[h] \ kill[g] \subseteq mod[g] /\ ref[h] \ kill[g] \subseteq ref[g]
      BY <1>0, <2>2 DEF SetsInv, Settled
    <3>3. \A h \in Callees(g) : mod'[h] \ kill[g] \subseteq mod'[g] /\ ref'[h] \ kill[g] \subseteq ref'[g]
      BY <1>3, <3>1, <3>2
    <3> QED
      BY <1>1, <1>p, <3>3 DEF Settled
  <2>3. ASSUME ~ changed', NEW g \in scc \ todo' PROVE Settled(g)'
    <3>1. ~ changed /\ mod' = mod /\ ref' = ref
      BY <1>2, <2>3
    <3>2. \A h \in Callees(g) : mod[h] \ kill[g] \subseteq mod[g] /\ ref[h] \ kill[g] \subseteq ref[g]
      <4>1. CASE g = f
        BY <1>4, <3>1, <4>1
      <4>2. CASE g # f
        <5>1. g \in scc \ todo
          BY <1>1, <2>3, <4>2
        <5> QED
          BY <1>0, <3>1, <5>1 DEF SetsInv, Settled
      <4> QED
        BY <4>1, <4>2
    <3> QED
      BY <1>1, <1>p, <3>1, <3>2 DEF Settled
  <2> QED
    BY <1>1, <1>p, <2>1, <2>2, <2>3 DEF SetsInv
<1> QED
  BY <1>5, <1>6, <1>7 DEF AnalysisInv

(* A pass that changed nothing ends the component. *)
LEMMA AnalysisPass ==
  ASSUME TypeInv, AnalysisInv, EndPass
  PROVE  AnalysisInv'
<1>0. TypeOK /\ ComponentInv /\ KillInv /\ SetsInv
  BY DEF TypeInv, AnalysisInv
<1>1. /\ pc = "update" /\ todo = {}
      /\ UNCHANGED <<prog, graphVars>> /\ UNCHANGED <<mod, ref, kill, local>>
      /\ ~ Early
  BY DEF EndPass, Early
<1>2. \/ /\ changed /\ todo' = scc /\ UNCHANGED <<pc, scc, finished>>
      \/ /\ ~ changed /\ finished' = finished \cup scc /\ scc' = {} /\ todo' = {}
         /\ pc' \in {"done", "component"}
         /\ pc' = "done" => ReachedFrom(CallEdges, Root) \subseteq finished'
  BY DEF EndPass, Again
<1>p. /\ Functions' = Functions /\ CallEdges' = CallEdges /\ (Root)' = Root
      /\ \A g : /\ Fun(g)' = Fun(g) /\ Callees(g)' = Callees(g) /\ FramesBelow(g)' = FramesBelow(g)
                /\ (isReachableFromEntry(g)' <=> isReachableFromEntry(g))
                /\ DirectMod(g)' = DirectMod(g) /\ DirectRef(g)' = DirectRef(g)
  BY <1>1, AnalysisFrame
<1>3. ~ Early' /\ pc' # "direct" /\ scc' \cup finished' = scc \cup finished
  BY <1>1, <1>2 DEF Early
<1>4. ComponentInv'
  <2>1. CASE changed
    BY <1>0, <1>1, <1>2, <1>3, <1>p, <2>1 DEF ComponentInv
  <2>2. CASE ~ changed
    <3>1. finished' = finished \cup scc /\ scc' = {} /\ pc' # "update"
      BY <1>2, <2>2
    <3>2. \A g \in finished' : Callees(g) \subseteq finished'
      BY <1>0, <3>1 DEF ComponentInv
    <3> QED
      BY <1>2, <1>3, <1>p, <2>2, <3>1, <3>2 DEF ComponentInv
  <2> QED
    BY <2>1, <2>2
<1>5. KillInv'
  BY <1>0, <1>1, <1>3, <1>p DEF KillInv
<1>6. \A g : (Settled(g)' <=> Settled(g)) /\ (OwnEffects(g)' <=> OwnEffects(g))
  BY <1>1, <1>p DEF Settled, OwnEffects
<1>7. SetsInv'
  <2>1. \A g \in Functions' : isReachableFromEntry(g)' => OwnEffects(g)'
    BY <1>0, <1>1, <1>6, <1>p DEF SetsInv
  <2>2. \A g \in finished' : Settled(g)'
    BY <1>0, <1>1, <1>2, <1>6 DEF SetsInv
  <2>3. scc' \ todo' = {}
    BY <1>2
  <2> QED
    BY <1>3, <2>1, <2>2, <2>3 DEF SetsInv
<1> QED
  BY <1>4, <1>5, <1>7 DEF AnalysisInv

(* Every step keeps the invariant of the analysis. *)
LEMMA AnalysisStep ==
  ASSUME TypeInv, GraphInv, AnalysisInv, [Next]_vars
  PROVE  AnalysisInv'
<1>1. ASSUME NEW f \in todo, AddToCallGraph(f) PROVE AnalysisInv'
  <2>1. /\ pc = "build" /\ pc' = "build"
        /\ UNCHANGED <<prog, scc, finished, changed, mod, ref, kill, local>>
    BY <1>1 DEF AddToCallGraph
  <2> QED
    BY <2>1, AnalysisEarly
<1>2. CASE StartReach
  <2>1. /\ pc = "build" /\ pc' = "reach"
        /\ UNCHANGED <<prog, scc, finished, changed, mod, ref, kill, local>>
    BY <1>2 DEF StartReach
  <2> QED
    BY <2>1, AnalysisEarly
<1>3. ASSUME NEW n \in ToVisit, Visit(n) PROVE AnalysisInv'
  <2>1. /\ pc = "reach" /\ pc' = "reach"
        /\ UNCHANGED <<prog, scc, finished, changed, mod, ref, kill, local>>
    BY <1>3 DEF Visit
  <2> QED
    BY <2>1, AnalysisEarly
<1>4. CASE StartDirect
  <2>1. /\ pc = "reach" /\ UNCHANGED <<prog, scc, finished, changed, mod, ref, kill, local>>
    BY <1>4 DEF StartDirect
  <2> QED
    BY <1>4, <2>1, AnalysisEarly
<1>5. CASE UNCHANGED vars
  <2>1. /\ UNCHANGED <<prog, graphVars>>
        /\ UNCHANGED <<pc, todo, scc, finished, changed, mod, ref, kill, local>>
    BY <1>5 DEF vars
  <2>2. /\ Functions' = Functions /\ CallEdges' = CallEdges /\ (Root)' = Root
        /\ \A g : /\ Fun(g)' = Fun(g) /\ Callees(g)' = Callees(g) /\ FramesBelow(g)' = FramesBelow(g)
                  /\ (isReachableFromEntry(g)' <=> isReachableFromEntry(g))
                  /\ DirectMod(g)' = DirectMod(g) /\ DirectRef(g)' = DirectRef(g)
    BY <2>1, AnalysisFrame
  <2>3. \A g : (Settled(g)' <=> Settled(g)) /\ (OwnEffects(g)' <=> OwnEffects(g))
    BY <2>1, <2>2 DEF Settled, OwnEffects
  <2>4. Early' <=> Early
    BY <2>1 DEF Early
  <2>5. ComponentInv'
    BY <2>1, <2>2, <2>4 DEF AnalysisInv, ComponentInv
  <2>6. KillInv'
    BY <2>1, <2>2, <2>4 DEF AnalysisInv, KillInv
  <2>7. SetsInv'
    BY <2>1, <2>2, <2>3, <2>4 DEF AnalysisInv, SetsInv
  <2> QED
    BY <2>5, <2>6, <2>7 DEF AnalysisInv
<1> QED
  BY <1>1, <1>2, <1>3, <1>4, <1>5, AnalysisVisit, AnalysisComponent, AnalysisUpdate, AnalysisPass
     DEF Next, Terminated

-----------------------------------------------------------------------------
(* The theorems. *)

(* The invariant holds at the start. *)
LEMMA InitModRef ==
  ASSUME Init
  PROVE  ModRefInv
<1>1. /\ pc = "build" /\ todo = Functions /\ Visited = {} /\ ToVisit = {} /\ scc = {} /\ finished = {}
      /\ called = [f \in Functions \cup {Calling} |-> {}]
      /\ kill = [f \in Functions |-> {}] /\ local = [f \in Functions |-> {}]
  BY DEF Init
<1>2. GraphInv
  BY <1>1 DEF GraphInv
<1>3. ReachInv
  BY <1>1 DEF ReachInv
<1>4. ComponentInv
  BY <1>1 DEF ComponentInv, Early
<1>5. KillInv
  BY <1>1 DEF KillInv
<1>6. SetsInv
  BY <1>1 DEF SetsInv, Early
<1> QED
  BY <1>2, <1>3, <1>4, <1>5, <1>6 DEF ModRefInv

(* The invariant is inductive. *)
LEMMA ModRefInvariant == Spec => [](TypeInv /\ ModRefInv)
<1>1. Init => TypeInv /\ ModRefInv
  BY InitType, InitModRef
<1>2. TypeInv /\ ModRefInv /\ [Next]_vars => TypeInv' /\ ModRefInv'
  <2> SUFFICES ASSUME TypeInv, ModRefInv, [Next]_vars PROVE TypeInv' /\ ModRefInv'
    OBVIOUS
  <2>1. GraphInv /\ ReachInv /\ AnalysisInv
    BY DEF ModRefInv, AnalysisInv
  <2>2. TypeInv' /\ GraphInv' /\ ReachInv' /\ AnalysisInv'
    BY <2>1, TypeStep, GraphStep, ReachStep, AnalysisStep
  <2> QED
    BY <2>2 DEF ModRefInv, AnalysisInv
<1> QED
  BY <1>1, <1>2, PTL DEF Spec

(* In every program, the search from main finds the functions that main,   *)
(* or code it may call, calls directly or through a pointer that may point *)
(* to them, and no other.                                                  *)
THEOREM ReachableIsExact == Spec => []ReachableExact
<1>1. TypeInv /\ ModRefInv => ReachableExact
  <2> SUFFICES ASSUME TypeInv, ModRefInv, pc = "direct", HasMain
               PROVE  Visited \ {External} = ReachedFrom(MayEdges, {"main"})
    BY DEF ReachableExact, MayEdges
  <2> QED
    BY SearchComplete DEF ModRefInv, Reach
<1> QED
  BY <1>1, ModRefInvariant, PTL

(* In every program, recursive or not, nothing that a function kills is in *)
(* its mod or ref set, from the time its component is taken.               *)
THEOREM KilledNeverReturn == Spec => []KilledStayOut
<1>1. ModRefInv => KilledStayOut
  BY DEF ModRefInv, KillInv, KilledStayOut
<1> QED
  BY <1>1, ModRefInvariant, PTL

(* Every function the analysis has to say something about is in a          *)
(* component it has taken, once it is done.                                *)
LEMMA AllFinished ==
  ASSUME TypeInv, ModRefInv, NoDeadStatic, pc = "done", NEW f \in Functions, isReachableFromEntry(f)
  PROVE  f \in finished
<1>0. prog \in Programs /\ GraphInv /\ ReachInv /\ ComponentInv
  BY DEF TypeInv, ModRefInv
<1>1. ReachedFrom(MayEdges, Entries) \subseteq finished
  <2>1. CallEdges = MayEdges /\ Root = Entries
    BY <1>0, BuiltGraph
  <2> QED
    BY <1>0, <2>1 DEF ComponentInv
<1>2. CASE HasMain
  <2>1. f \in Visited \ {External}
    BY <1>0, <1>2, FiniteProgram DEF isReachableFromEntry
  <2>2. f \in Reach("main")
    BY <1>0, <1>2, <2>1, SearchComplete
  <2>3. "main" \in Functions /\ "main" \in Entries
    BY <1>2 DEF HasMain, Entries
  <2>4. Entries \subseteq ReachedFrom(MayEdges, Entries)
    <3>1. IsFiniteSet(MayEdges) /\ IsFiniteSet(Functions)
      BY <1>0, FiniteProgram
    <3>2. IsFiniteSet(Entries)
      BY <3>1, FS_Subset DEF Entries
    <3> QED
      BY <3>1, <3>2, ReachedIsLeast
  <2>5. \A g \in finished \cap Functions : MayCall(g) \subseteq finished
    BY <1>0, BuiltGraph DEF ComponentInv
  <2> QED
    BY <1>0, <1>1, <2>2, <2>3, <2>4, <2>5, ReachFacts
<1>3. CASE ~ HasMain
  <2>1. Functions \subseteq ReachedFrom(MayEdges, Entries)
    BY <1>3 DEF NoDeadStatic, MayEdges, Entries
  <2> QED
    BY <1>1, <1>3, <2>1
<1> QED
  BY <1>2, <1>3

(* In every program with a main function, and in every one without that    *)
(* has no dead static function, the mod set of a function holds what it    *)
(* and the functions it calls, through any chain of calls, modify, and the *)
(* ref set what they read, but for the variables of frames that are gone.  *)
THEOREM EffectsAreCovered == Spec => [](NoDeadStatic => ModRefSound)
<1>1. ASSUME TypeInv, ModRefInv, NoDeadStatic, pc = "done",
             NEW f \in Functions, isReachableFromEntry(f)
      PROVE  Effects(f, DirectMod) \subseteq mod[f] /\ Effects(f, DirectRef) \subseteq ref[f]
  <2>0. prog \in Programs /\ GraphInv /\ ComponentInv /\ KillInv /\ SetsInv /\ ~ Early
    BY <1>1 DEF TypeInv, ModRefInv, Early
  <2>1. /\ f \in Reach(f) /\ Reach(f) \subseteq Functions
        /\ \A g \in Reach(f) : Callees(g) \subseteq Reach(f) /\ Callees(g) = MayCall(g)
        /\ \A C : f \in C /\ (\A g \in C \cap Functions : MayCall(g) \subseteq C) => Reach(f) \subseteq C
    BY <1>1, <2>0, ReachFacts, BuiltGraph
  <2>2. f \in finished
    BY <1>1, AllFinished
  <2>3. Reach(f) \subseteq finished
    <3>1. \A g \in finished \cap Functions : MayCall(g) \subseteq finished
      BY <1>1, <2>0, BuiltGraph DEF ComponentInv
    <3> QED
      BY <2>1, <2>2, <3>1
  <2>4. \A g \in Reach(f) : isReachableFromEntry(g)
    <3>1. CASE HasMain
      <4>1. Visited \ {External} = Reach("main")
        BY <1>1, <3>1, SearchComplete DEF ModRefInv
      <4>2. f \in Reach("main")
        BY <1>1, <2>0, <3>1, <4>1, FiniteProgram DEF isReachableFromEntry
      <4>3. "main" \in Functions
        BY <3>1 DEF HasMain
      <4>4. Reach(f) \subseteq Reach("main")
        BY <2>0, <4>2, <4>3, ReachFacts
      <4> QED
        BY <4>1, <4>4 DEF isReachableFromEntry
    <3>2. CASE ~ HasMain
      BY <3>2 DEF isReachableFromEntry
    <3> QED
      BY <3>1, <3>2
  <2>5. \A g \in Reach(f) : kill[g] \subseteq FramesBelow(f)
    BY <1>1, <2>0, <2>1, BelowDown DEF KillInv
  <2>6. \A g \in Reach(f) : \A h \in Callees(g) :
          mod[h] \ kill[g] \subseteq mod[g] /\ ref[h] \ kill[g] \subseteq ref[g]
    BY <2>0, <2>3 DEF SetsInv, Settled
  <2>7. \A g \in Reach(f) : DirectMod(g) \ kill[g] \subseteq mod[g] /\ DirectRef(g) \ kill[g] \subseteq ref[g]
    BY <2>0, <2>1, <2>4 DEF SetsInv, OwnEffects
  <2>8. Effects(f, DirectMod) = (UNION {DirectMod(g) : g \in Reach(f)}) \ FramesBelow(f)
    BY <1>1, <2>0, BuiltGraph DEF Effects, FramesBelow
  <2>9. Effects(f, DirectRef) = (UNION {DirectRef(g) : g \in Reach(f)}) \ FramesBelow(f)
    BY <1>1, <2>0, BuiltGraph DEF Effects, FramesBelow
  <2>10. ASSUME NEW x \in Effects(f, DirectMod), x \notin mod[f] PROVE FALSE
    <3> DEFINE C == {g \in Reach(f) : x \notin mod[g]}
    <3>1. x \notin FramesBelow(f) /\ \E h \in Reach(f) : x \in DirectMod(h)
      BY <2>8, <2>10
    <3>2. \A g \in C \cap Functions : MayCall(g) \subseteq C
      BY <2>1, <2>5, <2>6, <3>1
    <3>3. Reach(f) \subseteq C
      <4>1. f \in C
        BY <2>1, <2>10
      <4> HIDE DEF C
      <4> QED
        BY <2>1, <3>2, <4>1
    <3> QED
      BY <2>5, <2>7, <3>1, <3>3
  <2>11. ASSUME NEW x \in Effects(f, DirectRef), x \notin ref[f] PROVE FALSE
    <3> DEFINE C == {g \in Reach(f) : x \notin ref[g]}
    <3>1. x \notin FramesBelow(f) /\ \E h \in Reach(f) : x \in DirectRef(h)
      BY <2>9, <2>11
    <3>2. \A g \in C \cap Functions : MayCall(g) \subseteq C
      BY <2>1, <2>5, <2>6, <3>1
    <3>3. Reach(f) \subseteq C
      <4>1. f \in C
        BY <2>1, <2>11
      <4> HIDE DEF C
      <4> QED
        BY <2>1, <3>2, <4>1
    <3> QED
      BY <2>5, <2>7, <3>1, <3>3
  <2> QED
    BY <2>10, <2>11
<1>2. TypeInv /\ ModRefInv => (NoDeadStatic => ModRefSound)
  BY <1>1 DEF ModRefSound
<1> QED
  BY <1>2, ModRefInvariant, PTL
=============================================================================
