------------------------------ MODULE MCModRef ------------------------------
(* All call graphs of main and three functions, each with a local variable *)
(* that it lends to everything it calls, and programs with external and    *)
(* indirect calls.                                                          *)
EXTENDS ModRef

Function(calls, loads, stores, alloca) ==
  [isDecl |-> FALSE, isLocal |-> FALSE, addressTaken |-> FALSE, nargs |-> 0, isVarArg |-> FALSE,
   calls |-> calls, loads |-> loads, stores |-> stores, alloca |-> alloca, heap |-> {},
   info |-> NoInfo]
Library(argIsMod, retIsMod) ==
  [Function(<<>>, {}, {}, {}) EXCEPT !.isDecl = TRUE, !.nargs = Len(argIsMod),
     !.info = [known |-> TRUE, argIsMod |-> argIsMod, retIsMod |-> retIsMod]]
Call(f, args) == [callee |-> f, targets |-> {}, args |-> args, ret |-> {}]

Names == {"main", "a", "b", "c"}
Region(f) == f
Global == "global"

(* A call of each function of S. *)
CallsTo(S) ==
  LET order == CHOOSE s \in [1 .. Cardinality(S) -> S] : {s[i] : i \in DOMAIN s} = S
  IN  [i \in DOMAIN order |-> Call(order[i], <<>>)]

(* The variables that may be reached in f: its own, and those of the       *)
(* functions it may have been called from.                                 *)
Lent(E, f) == {Region(g) : g \in {h \in Names : f \in ReachedFrom(E, {h})}}

Graphs ==
  {E \in SUBSET {<<f, g>> \in Names \X Names : g # "main" /\ (f = g => f = "a")} :
     Names \subseteq ReachedFrom(E, {"main"}) }

GraphProgram(E) ==
  [globals |-> {Global},
   fun |-> [f \in Names |->
     Function(CallsTo(Successors(E, {f})), IF f = "c" THEN {Global} ELSE {}, Lent(E, f),
              {Region(f)})]]

(* main calls a library function through a pointer and directly; a call of *)
(* the variadic one passes more arguments than it names.                   *)
WithLibrary ==
  [globals |-> {Global},
   fun |-> [main |-> Function(<<Call("a", <<>>),
                               [Call(Indirect, <<{"x"}, {"y"}>>) EXCEPT !.targets = {"read", "a", "log"}],
                               Call("put", <<{"x"}, {Global}, {"y"}>>)>>, {}, {}, {"x", "y"}),
            a |-> Function(<<[Call("new", <<>>) EXCEPT !.ret = {"h"}], Call("b", <<>>)>>, {"h"}, {}, {}),
            b |-> [Function(<<Call("read", <<{}, {"z"}>>)>>, {"z"}, {Global}, {"z"}) EXCEPT
                     !.addressTaken = TRUE, !.isLocal = TRUE],
            dead |-> [Function(<<>>, {"d"}, {"d", Global}, {"d"}) EXCEPT !.isLocal = TRUE],
            new |-> Library(<<>>, TRUE),
            read |-> Library(<<FALSE, TRUE>>, FALSE),
            log |-> [Library(<<FALSE>>, FALSE) EXCEPT !.isVarArg = TRUE],
            put |-> [Library(<<TRUE>>, FALSE) EXCEPT !.isVarArg = TRUE]]]

WithHeap == [WithLibrary EXCEPT !.fun["a"].heap = {"h"}]

(* A function that nothing of the program calls and another module may     *)
(* call: it is not reachable from main, and its component is taken.        *)
Unused == [WithHeap EXCEPT !.fun["dead"].isLocal = FALSE, !.fun["dead"].calls = <<Call("b", <<>>)>>]

NoMain ==
  [WithHeap EXCEPT !.fun =
     [f \in DOMAIN @ \ {"main"} |-> IF f = "dead" THEN [@[f] EXCEPT !.isLocal = FALSE] ELSE @[f]]]

AllPrograms == {GraphProgram(E) : E \in Graphs} \cup {WithHeap, Unused, NoMain}
=============================================================================
