------------------------------- MODULE ModRef -------------------------------
(***************************************************************************)
(* The call graph (aSSA/PTACallGraph.cpp) and the mod/ref analysis built   *)
(* on it (aSSA/ModRefAnalysis.cpp): for each function the memory regions   *)
(* that it, or a function it calls, may modify or read.  The components of *)
(* the call graph are taken callees first; the local variables of callees  *)
(* are killed on the way up.                                               *)
(*                                                                         *)
(* A program is a record:                                                  *)
(*   globals : regions of global variables                                 *)
(*   fun  : functions by name: isDecl, isLocal (linkage), addressTaken,    *)
(*          nargs, isVarArg, calls (a sequence), loads and stores (the     *)
(*          regions that the pointers they go through point to),           *)
(*          alloca (its local variables), heap (what it allocates) and     *)
(*          info (what ExtInfo knows of an external function)              *)
(* A call has a callee, or Indirect and the functions its pointer points   *)
(* to; args gives the regions each argument points to and ret those of the *)
(* result, none for what is not a pointer.                                 *)
(***************************************************************************)
EXTENDS Reachability, Sequences

CONSTANTS Programs

Indirect == "indirect"
External == "external"     \* ExternalCallingNode and CallsExternalNode have no function
Calling == "calling"
NoInfo == [known |-> FALSE, argIsMod |-> <<>>, retIsMod |-> FALSE]

VARIABLES
  prog,
  pc,                  \* "build", "reach", "direct", "component", "update" or "done"
  todo,                \* functions the current loop has still to take
  called,              \* CalledFunctions of each node of the call graph, as a set
  indirectCallMap,     \* candidates of each indirect call
  ToVisit, Visited,
  scc,                 \* component being processed
  finished,            \* functions of the components before it
  changed,
  mod, ref, kill, local   \* funcModMap, funcRefMap, funcKillMap, funcLocalMap

graphVars == <<called, indirectCallMap, ToVisit, Visited>>
vars == <<prog, pc, todo, graphVars, scc, finished, changed, mod, ref, kill, local>>

Functions == DOMAIN prog.fun
Fun(f) == prog.fun[f]
HasMain == "main" \in Functions /\ ~ Fun("main").isLocal
RegionsOf(P) == (UNION {P.fun[f].alloca \cup P.fun[f].heap : f \in DOMAIN P.fun}) \cup P.globals

(* A program is finite, calls functions it has, and its pointers point to  *)
(* its regions; a function that is only declared has no body.              *)
ASSUME ProgramsAssumption ==
  \A P \in Programs :
    /\ IsFiniteSet(DOMAIN P.fun)
    /\ {Indirect, External, Calling} \cap DOMAIN P.fun = {}
    /\ \A f \in DOMAIN P.fun :
         /\ P.fun[f].nargs \in Nat
         /\ P.fun[f].isDecl => P.fun[f].calls = <<>>
         /\ P.fun[f].loads \cup P.fun[f].stores \subseteq RegionsOf(P)
         /\ \A i \in DOMAIN P.fun[f].calls : LET c == P.fun[f].calls[i] IN
              /\ c.callee \in DOMAIN P.fun \cup {Indirect}
              /\ c.targets \subseteq DOMAIN P.fun
              /\ c.args \in Seq(SUBSET RegionsOf(P)) /\ c.ret \subseteq RegionsOf(P)

TypeOK ==
  /\ pc \in {"build", "reach", "direct", "component", "update", "done"}
  /\ todo \subseteq Functions /\ scc \subseteq Functions /\ finished \subseteq Functions
  /\ called \in [Functions \cup {Calling} -> SUBSET (Functions \cup {External})]
  /\ Visited \subseteq Functions \cup {External} /\ ToVisit \subseteq Visited
  /\ changed \in BOOLEAN
  /\ \A m \in {mod, ref, kill, local} : m \in [Functions -> SUBSET RegionsOf(prog)]

Init ==
  /\ prog \in Programs
  /\ pc = "build"
  /\ todo = Functions
  /\ called = [f \in Functions \cup {Calling} |-> {}]
  /\ indirectCallMap = [f \in Functions |-> <<>>]
  /\ ToVisit = {} /\ Visited = {}
  /\ scc = {} /\ finished = {} /\ changed = FALSE
  /\ \E none \in {[f \in Functions |-> {}]} :
       mod = none /\ ref = none /\ kill = none /\ local = none

-----------------------------------------------------------------------------
(* The call graph. *)

(* Mutant: a variadic function is a candidate for as many arguments only. *)
Candidates_NoVarArg(c) == {f \in c.targets : Len(c.args) = Fun(f).nargs}

(* The functions an indirect call may reach: those its pointer points to   *)
(* that take that many arguments.                                          *)
Candidates(c) ==
  {f \in c.targets :
     \/ Len(c.args) = Fun(f).nargs
     \/ Fun(f).isVarArg /\ Len(c.args) > Fun(f).nargs}

(* The nodes a call adds to the node of its function. *)
CalleeNodes(c) == IF c.callee = Indirect THEN {External} \cup Candidates(c) ELSE {c.callee}

(* addToCallGraph.  It looks at call instructions, not at invokes, which   *)
(* no program here has; the assertions that a pointer that is called has a *)
(* points-to set and a candidate are not modelled.                         *)
AddToCallGraph(f) ==
  LET calls == Fun(f).calls
      indirect == {i \in DOMAIN calls : calls[i].callee = Indirect}
  IN  /\ pc = "build"
      /\ f \in todo
      /\ called' = [called EXCEPT
           ![f] = IF Fun(f).isDecl THEN {External}
                  ELSE UNION {CalleeNodes(calls[i]) : i \in DOMAIN calls},
           ![Calling] = @ \cup (IF Fun(f).isLocal /\ ~ Fun(f).addressTaken THEN {} ELSE {f})]
      /\ indirectCallMap' = [indirectCallMap EXCEPT ![f] = [i \in indirect |-> Candidates(calls[i])]]
      /\ todo' = todo \ {f}
      /\ UNCHANGED <<prog, pc, ToVisit, Visited, scc, finished, changed, mod, ref, kill, local>>

(* The search from main, when there is one. *)
StartReach ==
  /\ pc = "build" /\ todo = {}
  /\ ToVisit' = IF HasMain THEN {"main"} ELSE {}
  /\ Visited' = ToVisit'
  /\ pc' = "reach"
  /\ UNCHANGED <<prog, todo, called, indirectCallMap, scc, finished, changed, mod, ref, kill, local>>

Visit(n) ==
  LET fresh == (IF n = External THEN {} ELSE called[n]) \ Visited
  IN  /\ pc = "reach"
      /\ n \in ToVisit
      /\ Visited' = Visited \cup fresh
      /\ ToVisit' = (ToVisit \ {n}) \cup fresh
      /\ UNCHANGED <<prog, pc, todo, called, indirectCallMap, scc, finished, changed,
                     mod, ref, kill, local>>

(* isReachableFromEntry: without a main function, everything is. *)
isReachableFromEntry(f) == HasMain => f \in Visited

-----------------------------------------------------------------------------
(* What a function does itself. *)

(* Regions allocated by functions that are not reachable. *)
globalKillSet ==
  UNION {Fun(f).alloca \cup Fun(f).heap : f \in {g \in Functions : ~ isReachableFromEntry(g)}}

(* visitCallBase: the external functions the i-th call of f may reach.     *)
ExternalCallees(f, i) ==
  LET c == Fun(f).calls[i]
      may == IF c.callee = Indirect THEN indirectCallMap[f][i] ELSE {c.callee}
  IN  {g \in may : Fun(g).isDecl}

(* Does external function g modify what its k-th argument points to?  The  *)
(* arguments after the last are like the last.                             *)
ArgIsMod(g, k) ==
  LET info == Fun(g).info IN
  info.known /\ info.argIsMod[IF k > Len(info.argIsMod) THEN Len(info.argIsMod) ELSE k]

ExternalRef(f) ==
  UNION {LET c == Fun(f).calls[i] IN
         IF ExternalCallees(f, i) = {} THEN {}
         ELSE (UNION {c.args[k] : k \in DOMAIN c.args}) \cup c.ret : i \in DOMAIN Fun(f).calls}

ExternalMod(f) ==
  UNION {UNION {LET c == Fun(f).calls[i] IN
                (UNION {c.args[k] : k \in {j \in DOMAIN c.args : ArgIsMod(g, j)}})
                  \cup (IF Fun(g).info.known /\ Fun(g).info.retIsMod THEN c.ret ELSE {}) :
                g \in ExternalCallees(f, i)} : i \in DOMAIN Fun(f).calls}

DirectRef(f) == (Fun(f).loads \cup ExternalRef(f)) \ globalKillSet
DirectMod(f) == (Fun(f).stores \cup ExternalMod(f)) \ globalKillSet

StartDirect ==
  /\ pc = "reach" /\ ToVisit = {}
  /\ pc' = "direct"
  /\ todo' = {f \in Functions : isReachableFromEntry(f)}
  /\ UNCHANGED <<prog, graphVars, scc, finished, changed, mod, ref, kill, local>>

(* analyze: visit(&F). *)
VisitFunction(f) ==
  /\ pc = "direct"
  /\ f \in todo
  /\ todo' = todo \ {f}
  /\ local' = [local EXCEPT ![f] = Fun(f).alloca]
  /\ mod' = [mod EXCEPT ![f] = DirectMod(f)]
  /\ ref' = [ref EXCEPT ![f] = DirectRef(f)]
  /\ pc' = IF todo' = {} THEN "component" ELSE pc
  /\ UNCHANGED <<prog, graphVars, scc, finished, changed, kill>>

-----------------------------------------------------------------------------
(* Callees to callers. *)

Callees(f) == called[f] \ {External}
CallEdges == UNION {{<<f, g>> : g \in Callees(f)} : f \in Functions}

(* The component iterator starts at the node that calls what other modules *)
(* can call, with a main function or without.                              *)
Root == Callees(Calling)

(* kill(F) = kill(F) U kill(callee) U local(callee), for the callees that  *)
(* are not in the component S of f.                                        *)
KillOf(f, S) ==
  kill[f] \cup UNION {local[g] \cup kill[g] : g \in Callees(f) \ S}

(* The component iterator gives a component whose callees came before it;  *)
(* the kill sets of its functions are computed, and taken away.            *)
NextComponent(f) ==
  LET S == SCC(CallEdges, f) IN
  /\ pc = "component"
  /\ f \in ReachedFrom(CallEdges, Root) \ finished
  /\ UNION {Callees(g) : g \in S} \subseteq finished \cup S
  /\ scc' = S
  /\ kill' = [g \in Functions |-> IF g \in S THEN KillOf(g, S) ELSE kill[g]]
  /\ mod' = [g \in Functions |-> IF g \in S THEN mod[g] \ kill'[g] ELSE mod[g]]
  /\ ref' = [g \in Functions |-> IF g \in S THEN ref[g] \ kill'[g] ELSE ref[g]]
  /\ todo' = S
  /\ changed' = FALSE
  /\ pc' = "update"
  /\ UNCHANGED <<prog, graphVars, finished, local>>

(* Mutant: what the caller kills comes back from its callees. *)
Inherited_NoKill(m, f) == m[f] \cup UNION {m[g] : g \in Callees(f) \ {f}}

(* Mod(caller) = Mod(caller) U (Mod(callee) \ Kill(caller)), and for Ref. *)
Inherited(m, f) == m[f] \cup UNION {m[g] \ kill[f] : g \in Callees(f) \ {f}}

UpdateFunction(f) ==
  /\ pc = "update"
  /\ f \in todo
  /\ todo' = todo \ {f}
  /\ mod' = [mod EXCEPT ![f] = Inherited(mod, f)]
  /\ ref' = [ref EXCEPT ![f] = Inherited(ref, f)]
  /\ changed' = (changed \/ mod' # mod \/ ref' # ref)
  /\ UNCHANGED <<prog, pc, graphVars, scc, finished, kill, local>>

(* Mutant: one pass over the component is enough. *)
Again_Never == FALSE

(* Mutant: a pass in which the sizes are the same counts as a change. *)
Again_Equal == changed \/ scc # {}

(* while (Changed) *)
Again == changed

EndPass ==
  /\ pc = "update" /\ todo = {}
  /\ IF Again
     THEN todo' = scc /\ UNCHANGED <<pc, scc, finished>>
     ELSE /\ finished' = finished \cup scc
          /\ scc' = {}
          /\ pc' = IF ReachedFrom(CallEdges, Root) \subseteq finished' THEN "done" ELSE "component"
          /\ UNCHANGED todo
  /\ changed' = FALSE
  /\ UNCHANGED <<prog, graphVars, mod, ref, kill, local>>

Terminated == pc = "done" /\ UNCHANGED vars

Next ==
  \/ \E f \in todo : AddToCallGraph(f) \/ VisitFunction(f) \/ UpdateFunction(f)
  \/ \E n \in ToVisit : Visit(n)
  \/ StartReach \/ StartDirect
  \/ \E f \in Functions : NextComponent(f)
  \/ EndPass \/ Terminated

Spec == Init /\ [][Next]_vars
FairSpec == Spec /\ WF_vars(Next)

-----------------------------------------------------------------------------
(* Properties. *)

(* What f and the functions it calls modify or read, but for the local     *)
(* variables of functions that have returned when control is back in f:    *)
(* those below f in the call graph.                                        *)
Below(f) == ReachedFrom(CallEdges, {f}) \ SCC(CallEdges, f)

Effects(f, direct(_)) ==
  (UNION {direct(g) : g \in ReachedFrom(CallEdges, {f})}) \ UNION {Fun(g).alloca : g \in Below(f)}

(* A region that a function of the program may modify, directly or through *)
(* any chain of calls, recursive or not, is in its mod set, and likewise   *)
(* for what it reads; the kill sets only remove the variables of frames    *)
(* that are gone.  MemorySSA relies on it to place its chi and mu          *)
(* functions at call sites.                                                *)
ModRefSound ==
  pc = "done" => \A f \in {g \in Functions : isReachableFromEntry(g)} :
    Effects(f, DirectMod) \subseteq mod[f] /\ Effects(f, DirectRef) \subseteq ref[f]

(* The regions a callee outside the component kills do not come back       *)
(* through another callee, or through another function of the component.   *)
KilledStayOut ==
  pc \in {"update", "done"} => \A f \in scc \cup finished :
    (mod[f] \cup ref[f]) \cap kill[f] = {}

(* Each function that main, or code it may call, calls directly or through *)
(* a pointer that may point to it is found reachable; what is not is       *)
(* ignored by every later analysis.                                        *)
MayCall(f) ==
  UNION {LET c == Fun(f).calls[i] IN
         IF c.callee # Indirect THEN {c.callee}
         ELSE {g \in c.targets : Fun(g).nargs <= Len(c.args)
                                  /\ (Fun(g).nargs < Len(c.args) => Fun(g).isVarArg)} :
         i \in DOMAIN Fun(f).calls}

ReachableExact ==
  pc = "direct" /\ HasMain =>
    Visited \ {External} =
      ReachedFrom(UNION {{<<f, g>> : g \in MayCall(f)} : f \in Functions}, {"main"})

(* Without a main function, every function is one that other modules can   *)
(* name or whose address is taken, or is called from such a one.           *)
NoDeadStatic ==
  HasMain \/ Functions \subseteq
    ReachedFrom(UNION {{<<f, g>> : g \in MayCall(f)} : f \in Functions},
                {f \in Functions : ~ Fun(f).isLocal \/ Fun(f).addressTaken})

(* The fixed point of each component is reached. *)
Termination == <>(pc = "done")
=============================================================================
