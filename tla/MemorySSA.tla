------------------------------ MODULE MemorySSA -----------------------------
(***************************************************************************)
(* The memory SSA form of one function (src/aSSA/MemorySSA.cpp): which     *)
(* instructions use (mu) and define (chi) which memory regions, where the  *)
(* phis go, the versions that the walk of the dominator tree gives them,   *)
(* and the branch conditions recorded for each phi.                        *)
(*                                                                         *)
(* A function is a record: succ and fn as in module Cfg (block 1 is the    *)
(* entry); code, the instructions of each block; globalKill, kill and      *)
(* shared, the regions killed everywhere, killed in this function and      *)
(* shared by the threads of its parallel region; phis, the blocks that     *)
(* begin with an LLVM phi.  Regions of a pointer, Mod and Ref of a callee, *)
(* the dominator tree and its frontiers come from other analyses.          *)
(***************************************************************************)
EXTENDS Cfg, Reachability

CONSTANT Programs

VARIABLES
  prog,     \* the function
  pc,       \* "muchi", "phi", "rename", "preds", "done" or "failed"
  work,     \* for each region used, Worklist of computePhi
  placed,   \* bbToPhiMap: pairs of block and region
  C,        \* for each region the next version
  S,        \* for each region the stack of current versions
  walk,     \* the calls of renameBB under way: block and stack at its start
  mu,       \* mus: for each use (block, index, region) its version
  defs,     \* the versions made so far
  ops,      \* opsVar: for each phi and predecessor its operand
  preds     \* for each memory or LLVM phi the blocks whose branch it records

vars == <<prog, pc, work, placed, C, S, walk, mu, defs, ops, preds>>

Entry == 1

-----------------------------------------------------------------------------
(* Instructions.  A call has callees, arguments (a pointer to regs, or a   *)
(* value that is not followed) and the regions of a returned pointer.      *)

Load(R) == [op |-> "load", regs |-> R]
Store(R) == [op |-> "store", regs |-> R]
Ret == [op |-> "ret"]
Call(callees, args, ret, invoke) ==
  [op |-> "call", callees |-> callees, args |-> args, ret |-> ret, invoke |-> invoke]

Internal(ref, mod) == [decl |-> FALSE, ref |-> ref, mod |-> mod]

(* argIsMod covers the declared parameters; its last one stands for the    *)
(* variable arguments. known: ExtInfo has an entry.                        *)
External(known, argIsMod, retIsMod, barrier) ==
  [decl |-> TRUE, known |-> known, argIsMod |-> argIsMod, retIsMod |-> retIsMod,
   barrier |-> barrier]

ArgMod(f, i) == f.argIsMod[IF i > Len(f.argIsMod) THEN Len(f.argIsMod) ELSE i]

(* computeMuChiForCalledFunction: the regions the call uses and the        *)
(* versions it defines, each <<callee, argument, region>>.                 *)
CallMus(p, c) ==
  UNION {LET f == c.callees[k]
         IN  IF f.decl
             THEN UNION {{<<k, i, r>> : r \in c.args[i] \ p.globalKill} : i \in DOMAIN c.args}
             ELSE {<<k, 0, r>> : r \in f.ref \ p.kill} : k \in DOMAIN c.callees}

SyncChis(p, c) ==
  UNION {{<<k, 0, r>> : r \in p.shared} :
           k \in {j \in DOMAIN c.callees : c.callees[j].decl /\ c.callees[j].barrier}}

CallChis(p, c) ==
  UNION {LET f == c.callees[k]
         IN  IF f.decl
             THEN UNION {{<<k, i, r>> : r \in c.args[i] \ p.globalKill} :
                           i \in {j \in DOMAIN c.args : f.known /\ ArgMod(f, j)}}
             ELSE {<<k, 0, r>> : r \in f.mod \ p.kill} : k \in DOMAIN c.callees}

RetChis(p, c) ==
  UNION {{<<k, 0, r>> : r \in c.ret \ p.globalKill} :
           k \in {j \in DOMAIN c.callees : LET f == c.callees[j]
                                           IN  f.decl /\ f.known /\ f.retIsMod}}

(* The regions a load, a store or a call uses and, in the order they are   *)
(* renamed, the regions it defines.                                        *)
Uses(p, in) ==
  CASE in.op = "load" -> in.regs \ p.globalKill
    [] in.op = "call" -> {m[3] : m \in CallMus(p, in)}
    [] OTHER -> {}

Regions(chis) == [i \in DOMAIN chis |-> chis[i][3]]

Defines(p, in) ==
  CASE in.op = "store" -> SetToSeq(in.regs \ p.globalKill)
    [] in.op = "call" -> Regions(SetToSeq(SyncChis(p, in)))
                           \o Regions(SetToSeq(CallChis(p, in)))
                           \o Regions(SetToSeq(RetChis(p, in)))
    [] OTHER -> <<>>

(* regDefToBBMap[r] after computeMuChi: the entry chi included. *)
DefBlocks(p, r) ==
  {Entry} \cup {b \in Blocks(p) : \E i \in DOMAIN p.code[b] : r \in ToSet(Defines(p, p.code[b][i]))}

(* usedRegs *)
UsedRegs(p) ==
  UNION {UNION {Uses(p, p.code[b][i]) \cup ToSet(Defines(p, p.code[b][i])) :
                  i \in DOMAIN p.code[b]} : b \in Blocks(p)}

(* functionDoesNotRet: no return is reached from the entry. *)
functionDoesNotRet(p) ==
  ~ \E b \in Reach(p, Entry) : \E i \in DOMAIN p.code[b] : p.code[b][i].op = "ret"

-----------------------------------------------------------------------------
(* LLVM's dominator tree and dominance frontiers. *)

Dominates(p, d, b) == d = b \/ b \notin ReachFrom(p, {Entry}, {d}) \ {d}

StrictlyDominates(p, d, b) == d # b /\ Dominates(p, d, b)

DominanceFrontier(p, x) ==
  {y \in Reach(p, Entry) : /\ \E q \in Preds(p, y) \cap Reach(p, Entry) : Dominates(p, x, q)
                           /\ ~ StrictlyDominates(p, x, y)}

DomChildren(p, x) ==
  {y \in Reach(p, Entry) :
     /\ StrictlyDominates(p, x, y)
     /\ \A z \in Reach(p, Entry) : StrictlyDominates(p, z, y) => Dominates(p, z, x)}

-----------------------------------------------------------------------------
NoVar == [reg |-> "none", ver |-> 0, bb |-> 0, site |-> <<0, 0, 0>>]

Empty == [x \in {} |-> x]

Init ==
  /\ prog \in Programs
  /\ pc = "muchi"
  /\ work = Empty /\ placed = {}
  /\ C = Empty /\ S = Empty /\ walk = <<>>
  /\ mu = Empty /\ defs = {} /\ ops = Empty /\ preds = Empty

(* computeMuChi, and the worklists computePhi starts from. *)
ComputeMuChi ==
  /\ pc = "muchi"
  /\ work' = [r \in UsedRegs(prog) |-> SetToSeq(DefBlocks(prog, r))]
  /\ pc' = "phi"
  /\ UNCHANGED <<prog, placed, C, S, walk, mu, defs, ops, preds>>

(* Mutant: the blocks that get a phi are not looked at again. *)
Enqueued_None(r, Y) == {}

(* The blocks that got a phi for r and define it only by that phi. *)
Enqueued(r, Y) == Y \ DefBlocks(prog, r)

(* One turn of the loop of computePhi: the block at the back of the        *)
(* worklist of r puts phis into its frontier.  A block LLVM has no         *)
(* frontier for, one that is never reached, ends the analysis.             *)
ComputePhi ==
  /\ pc = "phi"
  /\ \E r \in DOMAIN work :
       /\ work[r] # <<>>
       /\ LET x == Last(work[r])
              Y == {y \in DominanceFrontier(prog, x) : <<y, r>> \notin placed}
          IN  IF x \in Reach(prog, Entry)
              THEN /\ placed' = placed \cup {<<y, r>> : y \in Y}
                   /\ work' = [work EXCEPT ![r] = Front(@) \o SetToSeq(Enqueued(r, Y))]
                   /\ UNCHANGED pc
              ELSE pc' = "failed" /\ UNCHANGED <<placed, work>>
  /\ UNCHANGED <<prog, C, S, walk, mu, defs, ops, preds>>

-----------------------------------------------------------------------------
(* Renaming.  St carries what one call of renameBB changes. *)

Top(st, r) == IF st.S[r] = <<>> THEN NoVar ELSE Last(st.S[r])

(* A new version of r made in block b by the chi or phi at site. *)
Push(st, r, b, site) ==
  LET v == [reg |-> r, ver |-> st.C[r], bb |-> b, site |-> site]
  IN  [st EXCEPT !.S[r] = Append(@, v), !.C[r] = @ + 1, !.defs = @ \cup {v}]

PhisOf(b) == {q[2] : q \in {x \in placed : x[1] = b}}

(* The uses of an instruction get the versions on top, then each of its    *)
(* chis a new version.                                                     *)
RenameInstruction(st, b, i) ==
  LET in == prog.code[b][i]
      chis == Defines(prog, in)
      used == [m \in {<<b, i, r>> : r \in Uses(prog, in)} |-> Top(st, m[3])]
      retMu == IF in.op = "ret" /\ ~ functionDoesNotRet(prog)
               THEN [m \in {<<b, 0, r>> : r \in DOMAIN work} |-> Top(st, m[3])]
               ELSE Empty
      seen == [st EXCEPT !.mu = used @@ retMu @@ @]
  IN  FoldLeft(LAMBDA s, k : Push(s, chis[k], b, <<b, i, k>>), seen, [k \in DOMAIN chis |-> k])

RenameBB(st, b) ==
  LET phis == SetToSeq(PhisOf(b))
      begun == FoldLeft(LAMBDA s, r : Push(s, r, b, <<b, 0, r>>), st, phis)
      ended == FoldLeft(LAMBDA s, i : RenameInstruction(s, b, i), begun,
                        [i \in DOMAIN prog.code[b] |-> i])
      into == {<<y, r, b>> : <<y, r>> \in {q \in placed : q[1] \in Succs(prog, b)}}
  IN  [ended EXCEPT !.ops = [o \in into |-> Top(ended, o[2])] @@ @]

State == [C |-> C, S |-> S, mu |-> mu, defs |-> defs, ops |-> ops]

Enter(st, b, open) ==
  LET done == RenameBB(st, b)
  IN  /\ C' = done.C /\ S' = done.S /\ mu' = done.mu /\ defs' = done.defs /\ ops' = done.ops
      /\ walk' = Append(open, [bb |-> b, seen |-> {}])

(* rename: the entry chis are version 0, then the entry block. *)
Rename ==
  /\ pc = "phi"
  /\ \A r \in DOMAIN work : work[r] = <<>>
  /\ LET none == [C |-> [r \in DOMAIN work |-> 0], S |-> [r \in DOMAIN work |-> <<>>],
                  mu |-> mu, defs |-> defs, ops |-> ops]
         chis == FoldLeft(LAMBDA s, r : Push(s, r, Entry, <<Entry, 0, 0>>), none,
                          SetToSeq(DOMAIN work))
     IN  Enter(chis, Entry, <<>>)
  /\ pc' = "rename"
  /\ UNCHANGED <<prog, work, placed, preds>>

(* renameBB for a child of the current block in the dominator tree. *)
RenameChild ==
  /\ pc = "rename"
  /\ walk # <<>>
  /\ \E y \in DomChildren(prog, Last(walk).bb) \ Last(walk).seen :
       Enter(State, y, [walk EXCEPT ![Len(walk)].seen = @ \cup {y}])
  /\ UNCHANGED <<prog, pc, work, placed, preds>>

(* How many versions of r the end of renameBB takes off: those of its      *)
(* phis, stores and call instructions, not those of an invoke.             *)
Pops(b, r) ==
  FoldLeft(LAMBDA n, in : n + (IF in.op = "call" /\ in.invoke THEN 0
                               ELSE Len(SelectSeq(Defines(prog, in), LAMBDA q : q = r))),
           IF <<b, r>> \in placed THEN 1 ELSE 0, prog.code[b])

(* Mutant: the counters go down with the stacks. *)
Leave_CountersToo ==
  /\ pc = "rename"
  /\ walk # <<>>
  /\ DomChildren(prog, Last(walk).bb) = Last(walk).seen
  /\ S' = [r \in DOMAIN S |-> SubSeq(S[r], 1, Len(S[r]) - Pops(Last(walk).bb, r))]
  /\ C' = [r \in DOMAIN S |-> C[r] - Pops(Last(walk).bb, r)]
  /\ walk' = Front(walk)
  /\ pc' = IF Len(walk) = 1 THEN "preds" ELSE "rename"
  /\ UNCHANGED <<prog, work, placed, mu, defs, ops, preds>>

(* The end of renameBB. *)
Leave ==
  /\ pc = "rename"
  /\ walk # <<>>
  /\ DomChildren(prog, Last(walk).bb) = Last(walk).seen
  /\ S' = [r \in DOMAIN S |-> SubSeq(S[r], 1, Len(S[r]) - Pops(Last(walk).bb, r))]
  /\ walk' = Front(walk)
  /\ pc' = IF Len(walk) = 1 THEN "preds" ELSE "rename"
  /\ UNCHANGED <<prog, work, placed, C, mu, defs, ops, preds>>

-----------------------------------------------------------------------------
(* computePhiPredicates *)

EndsInInvoke(b) ==
  LET code == prog.code[b] IN code # <<>> /\ Last(code).op = "call" /\ Last(code).invoke

(* The blocks of the frontier whose terminator has a condition: a branch   *)
(* or a switch, and not an invoke, which has two successors as well.       *)
Conditions(b) ==
  {w \in iterated_postdominance_frontier(prog, b) :
     Cardinality(Succs(prog, w)) > 1 /\ ~ EndsInInvoke(w)}

OpsOf(q) == {o \in DOMAIN ops : o[1] = q[1] /\ o[2] = q[2]}

(* Mutant: only the operand of one predecessor is looked at. *)
computeMSSAPhiPredicates_OneOperand(q) ==
  IF OpsOf(q) = {} THEN {} ELSE Conditions(ops[CHOOSE o \in OpsOf(q) : TRUE].bb)

(* The conditions that decide about the blocks the operands are defined in. *)
computeMSSAPhiPredicates(q) == UNION {Conditions(ops[o].bb) : o \in OpsOf(q)}

(* The conditions that decide about the incoming blocks. *)
computeLLVMPhiPredicates(b) == UNION {Conditions(p) : p \in Preds(prog, b)}

ComputePhiPredicates ==
  /\ pc = "preds"
  /\ preds' = [q \in placed |-> computeMSSAPhiPredicates(q)]
                @@ [q \in {<<b, "llvm">> : b \in prog.phis} |-> computeLLVMPhiPredicates(q[1])]
  /\ pc' = "done"
  /\ UNCHANGED <<prog, work, placed, C, S, walk, mu, defs, ops>>

Finished == pc \in {"done", "failed"} /\ UNCHANGED vars

Next ==
  \/ ComputeMuChi \/ ComputePhi \/ Rename \/ RenameChild \/ Leave
  \/ ComputePhiPredicates \/ Finished

Spec == Init /\ [][Next]_vars

-----------------------------------------------------------------------------
(* While blocks are renamed the current version of every region exists and *)
(* versions count up along its stack: S[V].back() is never taken of an     *)
(* empty vector.                                                           *)
TypeOK ==
  /\ pc \in {"muchi", "phi", "rename", "preds", "done", "failed"}
  /\ pc = "rename" =>
       \A r \in DOMAIN S :
         /\ S[r] # <<>>
         /\ \A i \in DOMAIN S[r] : S[r][i].reg = r /\ S[r][i].ver < C[r]
         /\ \A i \in 1..(Len(S[r]) - 1) : S[r][i].ver < S[r][i + 1].ver

(* The definition of r that leaves a prefix of n instructions of block b:  *)
(* the site of the last chi, or none.                                      *)
LastDef(b, n, r) ==
  LET sites == {<<b, i, k>> : i \in 1..n, k \in 1..4}
      of == {x \in sites : LET chis == Defines(prog, prog.code[b][x[2]])
                           IN  x[3] \in DOMAIN chis /\ chis[x[3]] = r}
  IN  {x \in of : \A y \in of : y[2] < x[2] \/ (y[2] = x[2] /\ y[3] <= x[3])}

OutDef(b, r) == LastDef(b, Len(prog.code[b]), r)

(* Dataflow reference: the definitions of r that reach the end of the      *)
(* prefix on some path from the entry.                                     *)
ReachingDefs(b, n, r) ==
  IF LastDef(b, n, r) # {} THEN LastDef(b, n, r)
  ELSE LET through == {<<x, q>> \in Blocks(prog) \X Blocks(prog) :
                         q \in Preds(prog, x) \cap Reach(prog, Entry) /\ OutDef(x, r) = {}}
           from == ReachedFrom(through, Preds(prog, b) \cap Reach(prog, Entry))
       IN  UNION {OutDef(x, r) : x \in from}
             \cup (IF b = Entry \/ (Entry \in from /\ OutDef(Entry, r) = {})
                   THEN {<<Entry, 0, 0>>} ELSE {})

(* The chis a version stands for once its phis are followed. *)
IsPhi(v) == <<v.bb, v.reg>> \in placed /\ v.site = <<v.bb, 0, v.reg>>

Sources(v) ==
  LET operand == {<<x, ops[o]>> : x \in {y \in defs : IsPhi(y)}, o \in DOMAIN ops}
      edges == {e \in operand : \E p \in Blocks(prog) :
                  LET o == <<e[1].bb, e[1].reg, p>> IN o \in DOMAIN ops /\ ops[o] = e[2]}
  IN  {x.site : x \in {y \in ReachedFrom(edges, {v}) : ~ IsPhi(y)}}

(* What renaming is for: the version a load, a call or the return of the   *)
(* function uses stands, through its phis, for exactly the definitions     *)
(* that reach it along the paths of the function.                          *)
VersionsExact ==
  pc = "done" => \A m \in DOMAIN mu :
    LET n == IF m[2] = 0 THEN Len(prog.code[m[1]]) ELSE m[2] - 1
    IN  Sources(mu[m]) = ReachingDefs(m[1], n, m[3])

(* SSA: no version of a region is made twice. *)
DefinedOnce ==
  \A v, w \in defs : v.reg = w.reg /\ v.ver = w.ver => v = w

(* The operand a phi receives when the function leaves w towards s and     *)
(* next enters block j. *)
Received(val(_), w, s, j) ==
  IF s = j THEN {val(w)}
  ELSE {val(p) : p \in Preds(prog, j) \cap (ReachFrom(prog, {s}, {j}) \ {j})}

(* Leaving the branch of w one way or the other, different operands arrive. *)
Decides(val(_), w, j) ==
  \E s, t \in Succs(prog, w) :
    LET a == Received(val, w, s, j)
        b == Received(val, w, t, j)
    IN  a # b /\ a # {} /\ b # {}

(* w is executed again after its branch: a loop.  postdominanceFrontier    *)
(* keeps a block out of its own frontier, so that the branch that repeats  *)
(* a definition of its own block is not seen.                              *)
RepeatsItself(w) == w \in ReachFrom(prog, Succs(prog, w), {})

(* Every loop is entered at one block: going on without edges to a         *)
(* dominator comes to an end.                                              *)
Reducible ==
  LET forward == {<<x, y>> \in Reach(prog, Entry) \X Reach(prog, Entry) :
                    y \in Succs(prog, x) /\ ~ Dominates(prog, y, x)}
  IN  \A x \in Reach(prog, Entry) : x \notin ReachedFrom(forward, Successors(forward, {x}))

(* In a function without jumps into loops, a phi records every branch that *)
(* decides which of its operands arrives, except a loop's branch in the    *)
(* very block an operand comes from.                                       *)
PredicatesComplete ==
  pc = "done" /\ Reducible => \A q \in DOMAIN preds :
    LET val(p) == IF q[2] = "llvm" THEN p ELSE ops[<<q[1], q[2], p>>]
        own == IF q[2] = "llvm" THEN Preds(prog, q[1]) ELSE {ops[o].bb : o \in OpsOf(q)}
    IN  \A w \in Reach(prog, Entry) :
          Decides(val, w, q[1]) => w \in preds[q] \/ (w \in own /\ RepeatsItself(w))
=============================================================================
