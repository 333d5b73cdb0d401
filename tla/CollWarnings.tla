---------------------------- MODULE CollWarnings ----------------------------
(***************************************************************************)
(* The warnings of the static analysis (checkWarnings in                   *)
(* src/aSSA/CollListFunctionAnalysis.cpp): a direct call to a collective   *)
(* is reported with the conditionals that decide whether it is reached,    *)
(* when the lists after the conditional disagree and its condition may     *)
(* differ between processes (is tainted).                                  *)
(***************************************************************************)
EXTENDS CollLists

(* getBasicBlockCond finds a condition. *)
Branches == {b \in Blocks(prog) : Cardinality(Succs(prog, b)) > 1}

(* The list looked at for block b: the one of the header of its loop.  The *)
(* loops are those of the function of the call, so a block of a caller is  *)
(* looked up as it is.                                                     *)
ListFor(c, f, b) ==
  Lists[c][IF LoopsAround(f, b) # {} THEN LoopFor(f, b).header ELSE b]

(* A call without a communicator is checked against all of them. *)
HasNAVS(call, f, b) ==
  \E c \in Communicators :
    (call.comm = NoComm \/ c = call.comm) /\ navs(ListFor(c, f, b))

(* Mutant: the frontier is not iterated. *)
Conditionals_NotIterated(b, call, tainted) ==
  {w \in postdominanceFrontier(prog, b) :
     HasNAVS(call, prog.fn[b], w) /\ w \in Branches \cap tainted}

Conditionals(b, call, tainted) ==
  {w \in getCallInterIPDF(prog, b) :
     HasNAVS(call, prog.fn[b], w) /\ w \in Branches \cap tainted}

(* CollectiveAnalysis::run: the warnings of all functions, by call. *)
checkWarnings(tainted) ==
  {<<b, i>> \in {<<x, k>> \in Blocks(prog) \X (1 .. 4) : k \in DOMAIN prog.calls[x]} :
     /\ IsColl(prog.calls[b][i]) /\ prog.calls[b][i].direct
     /\ Conditionals(b, prog.calls[b][i], tainted) # {}}

-----------------------------------------------------------------------------
(* Every path through the program executes the same collectives. *)
SameOnAllPaths ==
  \A c \in Communicators : Cardinality(TracesOf(prog, prog.entry[1], c)) = 1

(* When every condition may differ between processes, no warning means     *)
(* that processes cannot execute different collectives, whatever paths     *)
(* they take; and the other way round, a program in which they cannot gets *)
(* no warning.  (Functions without loops.)                                 *)
SilentIffSame ==
  pc = "done" /\ Loopless => (checkWarnings(Branches) = {} <=> SameOnAllPaths)

(* The recursion over the post-dominator tree in postdominanceFrontier     *)
(* computes the blocks a call is control dependent on.                     *)
FrontierExact ==
  pc = "done" => \A b \in Blocks(prog) :
    postdominanceFrontier(prog, b) = FrontierDefinition(prog, b)
=============================================================================
