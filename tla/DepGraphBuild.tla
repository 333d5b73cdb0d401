---------------------------- MODULE DepGraphBuild ---------------------------
(***************************************************************************)
(* The dependence graph DepGraphDCF::build makes of a program in memory    *)
(* SSA form: an edge for each value or memory version another one is       *)
(* computed from, the nodes of each function, the nodes the rank enters at *)
(* and the ones a collective makes equal everywhere.                       *)
(*                                                                         *)
(* A program is a function from function names to records.  A defined      *)
(* function has args (its formal values), ret (the values it returns, at   *)
(* most one), entry and exit (the versions of its entry chis and return    *)
(* mus, per region) and code, its instructions.  A declared one has ptrs   *)
(* (the positions of its pointer parameters), nargs, vararg, retptr, kind  *)
(* ("copy" for memcpy and memmove, "set" for memset, "other"), source and  *)
(* reset (the argument that receives the rank, or the same value on all    *)
(* ranks; 0 for none), valueSource and intrinsic.  main is the entry; the  *)
(* defined functions are those that are reached from it.                   *)
(***************************************************************************)
EXTENDS Integers, Sequences, SequencesExt, Reachability

CONSTANT WeakUpdate    \* the option -weak-update

(* Nodes: values and memory versions, and the chis made up for the         *)
(* arguments (0: the variable ones) and result of an external call.        *)
Val(x) == <<"val", x, 0, "">>
Mem(f, r, n) == <<"mem", r, n, f>>
ArgIn(f, c, i) == <<"in", c, i, f>>
ArgOut(f, c, i) == <<"out", c, i, f>>
RetOut(f, c) == <<"ret", c, 0, f>>
Formal(f, i) == <<"formal", "", i, f>>

IsValue(n) == n[1] \in {"val", "formal"}
IsVar(n) == ~ IsValue(n)

(* Any instruction that only computes: its operands feed its result. *)
Op(res, uses) == [op |-> "op", res |-> res, uses |-> uses]
(* A memory phi: its operands in order, and the conditions recorded.       *)
MemPhi(res, operands, conds) == [op |-> "phi", res |-> res, operands |-> operands, conds |-> conds]
Load(res, ptr, mus) == [op |-> "load", res |-> res, ptr |-> ptr, mus |-> mus]
Store(ptr, val, chis) == [op |-> "store", ptr |-> ptr, val |-> val, chis |-> chis]
(* id names the call and its value; a mu is <<callee, arg, region, var>>,   *)
(* a chi <<callee, arg, region, old, new>>, of an internal callee with arg  *)
(* 0; syncs and retChis are <<old, new>>; conds decide whether it runs.     *)
Call(id, direct, callees, args, mus, chis, retChis, syncs, conds) ==
  [op |-> "call", id |-> id, direct |-> direct, callees |-> callees, args |-> args, mus |-> mus, chis |-> chis,
   retChis |-> retChis, syncs |-> syncs, conds |-> conds]

CallsOf(P, f) ==
  IF P[f].decl THEN {} ELSE {i \in ToSet(P[f].code) : i.op = "call"}

PhisOf(P, f) ==
  IF P[f].decl THEN {} ELSE {i \in ToSet(P[f].code) : i.op = "phi"}

(* PTACallGraph: what f calls, in order; "none" is the node without a      *)
(* function that stands for what a pointer or an external function calls.  *)
(* A call of an intrinsic is no edge.                                      *)
Callees(P, f) ==
  IF P[f].decl THEN <<"none">>
  ELSE FlattenSeq([i \in DOMAIN P[f].code |->
         LET in == P[f].code[i]
         IN  IF in.op # "call" THEN <<>>
             ELSE IF ~ in.direct THEN <<"none">> \o in.callees
             ELSE SelectSeq(in.callees, LAMBDA g : ~ (P[g].decl /\ P[g].intrinsic))])

(* isReachableFromEntry *)
Reachable(P) ==
  LET calls == UNION {{<<f, g>> : g \in ToSet(Callees(P, f)) \ {"none"}} : f \in DOMAIN P}
  IN  ReachedFrom(calls, {"main"})

(* The calls, in functions that are reached, that may call f. *)
CallSites(P, f) == UNION {{c \in CallsOf(P, g) : f \in ToSet(c.callees)} : g \in Reachable(P)}

-----------------------------------------------------------------------------
(* buildFunction of a declared function: the chis of each of its call      *)
(* sites, inputs and outputs.                                              *)

Inputs(P, f, c) ==
  {ArgIn(f, c.id, i) : i \in P[f].ptrs \cup (IF P[f].vararg THEN {0} ELSE {})}

Outputs(P, f, c) ==
  {ArgOut(f, c.id, i) : i \in P[f].ptrs \cup (IF P[f].vararg THEN {0} ELSE {})}
    \cup (IF P[f].retptr THEN {RetOut(f, c.id)} ELSE {})

ExternalEdges(P, f, c) ==
  LET F == P[f]
      through == {<<ArgIn(f, c.id, i), ArgOut(f, c.id, i)>> :
                    i \in F.ptrs \cup (IF F.vararg THEN {0} ELSE {})}
      result == IF F.retptr THEN {<<ArgOut(f, c.id, 1), RetOut(f, c.id)>>} ELSE {}
  IN  through \cup
      CASE F.kind = "copy" -> {<<ArgIn(f, c.id, 2), ArgOut(f, c.id, 1)>>} \cup result
        [] F.kind = "set" -> {<<Formal(f, 2), ArgOut(f, c.id, 1)>>} \cup result
        [] OTHER -> (Inputs(P, f, c) \cup {Formal(f, i) : i \in 1..F.nargs}) \X Outputs(P, f, c)

-----------------------------------------------------------------------------
(* The rules for a call site (visitCallInst). *)

ArgNode(P, f, i) == IF i > P[f].nargs THEN 0 ELSE i

(* rule 3: what the call uses enters the callee. *)
connectCSMus(P, c) ==
  {<<m[4], IF P[m[1]].decl THEN ArgIn(m[1], c.id, ArgNode(P, m[1], m[2]))
           ELSE P[m[1]].entry[m[3]]>> : m \in c.mus}

(* rules 4 and 5: what the callee leaves defines the new version.  The     *)
(* variable arguments' exit chi is connected to itself: the name of the    *)
(* caller's chi is hidden by it.  A callee that does not return defines    *)
(* nothing.                                                                *)
connectCSChis(P, c) ==
  (IF WeakUpdate THEN {<<x[4], x[5]>> : x \in c.chis} ELSE {})
    \cup UNION {LET f == x[1] IN
                IF P[f].decl
                THEN LET out == ArgOut(f, c.id, ArgNode(P, f, x[2]))
                     IN  {<<out, IF ArgNode(P, f, x[2]) = 0 THEN out ELSE x[5]>>}
                ELSE {<<P[f].exit[r], x[5]>> : r \in {x[3]} \cap DOMAIN P[f].exit} : x \in c.chis}

(* rule 1: actual to formal arguments.  The candidates of an indirect call *)
(* are left at the first one that is external.                             *)
connectCSEffectiveParameters(P, c) ==
  LET ext == {i \in DOMAIN c.callees : P[c.callees[i]].decl}
      met == {i \in DOMAIN c.callees : \A j \in ext : i <= j}
  IN  UNION {LET f == c.callees[i] IN
             IF P[f].decl
             THEN IF P[f].kind = "set" THEN {<<c.args[2], ArgOut(f, c.id, 1)>>} ELSE {}
             ELSE {<<c.args[k], P[f].args[k]>> : k \in DOMAIN P[f].args} : i \in met}

(* rule 2: the value returned. *)
connectCSCalledReturnValue(P, c) ==
  UNION {{<<v, Val(c.id)>> : v \in IF P[f].decl THEN {} ELSE P[f].ret} : f \in ToSet(c.callees)}

(* The pointer an external callee returns. *)
connectCSRetChi(P, c) ==
  UNION {IF P[f].decl /\ P[f].retptr
         THEN UNION {{x, <<RetOut(f, c.id), x[2]>>} : x \in c.retChis}
         ELSE {} : f \in ToSet(c.callees)}

(* The visitors of the other instructions. *)
InstructionEdges(P, i) ==
  CASE i.op = "op" -> {<<u, i.res>> : u \in i.uses}
    [] i.op = "phi" -> {<<o, i.res>> : o \in ToSet(i.operands) \cup i.conds}
    [] i.op = "load" -> {<<m, i.res>> : m \in i.mus \cup {i.ptr}}
    [] i.op = "store" -> (UNION {{<<i.val, x[2]>>, <<i.ptr, x[2]>>} : x \in i.chis})
                           \cup (IF WeakUpdate THEN i.chis ELSE {})
    [] OTHER -> connectCSMus(P, i) \cup connectCSChis(P, i) \cup connectCSEffectiveParameters(P, i)
                  \cup connectCSCalledReturnValue(P, i) \cup connectCSRetChi(P, i) \cup i.syncs

(* build: the functions reached from the entry. *)
Edges(P) ==
  UNION {IF P[f].decl THEN UNION {ExternalEdges(P, f, c) : c \in CallSites(P, f)}
         ELSE UNION {InstructionEdges(P, i) : i \in ToSet(P[f].code)} : f \in Reachable(P)}

-----------------------------------------------------------------------------
(* funcToSSANodesMap and funcToLLVMNodesMap: the nodes of f. *)

InstructionNodes(P, i) ==
  CASE i.op = "op" -> {i.res} \cup i.uses
    [] i.op = "phi" -> {i.res} \cup ToSet(i.operands) \cup i.conds
    [] i.op = "load" -> {i.res, i.ptr} \cup i.mus
    [] i.op = "store" -> IF i.chis = {} THEN {}
                         ELSE {i.ptr, i.val} \cup UNION {{x[1], x[2]} : x \in i.chis}
    [] OTHER -> {m[4] : m \in i.mus} \cup (UNION {{x[4], x[5]} : x \in i.chis})
                  \cup {e[1] : e \in connectCSEffectiveParameters(P, i)}
                  \cup {e[2] : e \in connectCSCalledReturnValue(P, i)}
                  \cup UNION {{x[1], x[2]} : x \in i.retChis \cup i.syncs}

(* A call puts the formal arguments of the function it names into that     *)
(* function, those of the candidates of a pointer nowhere.                 *)
NodesOf(P, f) ==
  IF P[f].decl THEN UNION {Inputs(P, f, c) \cup Outputs(P, f, c) : c \in CallSites(P, f)}
  ELSE (UNION {InstructionNodes(P, i) : i \in ToSet(P[f].code)})
         \cup {P[f].entry[r] : r \in DOMAIN P[f].entry}
         \cup (UNION {{P[f].exit[r] : r \in {x[3] : x \in {y \in c.chis : y[1] = f}} \cap DOMAIN P[f].exit} :
                       c \in CallSites(P, f)})
         \cup (IF \E c \in CallSites(P, f) : c.direct THEN ToSet(P[f].args) ELSE {})

(* ssaSources and valueSources.  LoadValueSources, the names of UPC        *)
(* variables a load of which is a source, are not modelled.                *)
SourcesOf(P) ==
  LET declared == {f \in DOMAIN P : P[f].decl}
  IN  (UNION {{ArgOut(f, c.id, P[f].source) : c \in CallSites(P, f)} :
               f \in {g \in declared \cap Reachable(P) : P[g].source > 0}})
        \cup UNION {{Val(c.id) : c \in CallSites(P, f)} : f \in {g \in declared : P[g].valueSource}}

(* taintResetSSANodes: what the reset argument of a collective, or a       *)
(* synchronisation, defines.                                               *)
ResetsOf(P) ==
  UNION {UNION {{x[5] : x \in {y \in c.chis : LET F == P[y[1]] IN
                                               F.decl /\ F.reset > 0 /\ F.reset = y[2]}}
                  \cup {x[2] : x \in c.syncs} : c \in CallsOf(P, f)} : f \in Reachable(P)}

(* callsiteToConds, for the calls of f. *)
CallConds(P, f) == UNION {c.conds : c \in CallsOf(P, f)}
=============================================================================
