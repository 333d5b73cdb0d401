----------------------------- MODULE MCAndersen -----------------------------
(* Programs for the pointer analysis: all small sets of instructions over  *)
(* a few pointers, and some programs with calls.                            *)
EXTENDS Andersen

Program(nodes, globals, fun, insts) ==
  [nodes |-> nodes, globals |-> globals, fun |-> fun, insts |-> insts]
Alloca(v, o) == [op |-> "alloca", val |-> v, obj |-> o, fn |-> "main"]
Load(v, p) == [op |-> "load", val |-> v, ptr |-> p, fn |-> "main"]
Store(p, q) == [op |-> "store", ptr |-> p, src |-> q, fn |-> "main"]
Copy(v, S) == [op |-> "copy", val |-> v, srcs |-> S, fn |-> "main"]
Ret(f, v) == [op |-> "ret", fn |-> f, src |-> v]
Call(v, f, args) ==
  [op |-> "call", val |-> v, callee |-> f, args |-> args, fn |-> "main",
   obj |-> NoNode, tmp |-> NoNode]

Fun(params, ret) ==
  [val |-> NoNode, obj |-> NoNode, ret |-> ret, va |-> NoNode, params |-> params,
   isDecl |-> FALSE, isVarArg |-> FALSE, lib |-> "none"]
Lib(kind) == [Fun(<<>>, NoNode) EXCEPT !.isDecl = TRUE, !.lib = kind]

Main == [main |-> Fun(<<>>, NoNode)]

(* Two cells, 4 -> 5 and 6 -> 7, and two more pointers, 8 and 9. *)
Cells == {Alloca(4, 5), Alloca(6, 7), Store(4, 6)}
Pointers == {4, 6, 8, 9}
SmallInsts ==
  {Load(v, p) : v \in {8, 9}, p \in Pointers} \cup {Store(p, q) : p \in Pointers, q \in Pointers}
    \cup {Copy(v, {q}) : v \in {8, 9}, q \in Pointers}

SmallPrograms ==
  {Program(10, {}, Main, Cells \cup {i, j}) : i \in SmallInsts, j \in SmallInsts}

(* A list: head -> cell, cell -> cell, and a walk p = p->next in a loop. *)
Walk ==
  Program(11, {[val |-> 4, obj |-> 5, kind |-> "init", init |-> {7}],
               [val |-> 6, obj |-> 7, kind |-> "init", init |-> {7}],
               [val |-> 10, obj |-> 10, kind |-> "zero", init |-> {}]}, Main,
          {Load(8, 4), Copy(9, {8, 10}), Load(10, 9), Store(9, 8)})

(* A cycle that becomes part of a larger one, when 12 points to 7. *)
Nested ==
  Program(15, {}, Main,
     {Alloca(4, 5), Copy(8, {4, 9, 14}), Copy(9, {8}), Copy(10, {9}),
      Alloca(6, 7), Copy(11, {6}), Copy(13, {11}), Copy(12, {13}), Store(12, 10), Load(14, 12)})

(* A function called directly and through a pointer, with a varargs one. *)
Calls ==
  Program(19, {[val |-> 4, obj |-> 5, kind |-> "extern", init |-> {}]},
     [main |-> Fun(<<>>, NoNode),
      swap |-> [Fun(<<6, 7>>, 8) EXCEPT !.val = 9, !.obj = 10],
      list |-> [Fun(<<NoNode>>, NoNode) EXCEPT !.isVarArg = TRUE, !.va = 11],
      malloc |-> Lib("malloc"), memcpy |-> Lib("memcpy"), free |-> Lib("noop"),
      va_start |-> Lib("va_start"), get |-> Lib("unknown")],
     {[Call(12, "malloc", <<>>) EXCEPT !.obj = 13], Alloca(14, 15),
      Store(14, 12), Ret("swap", 7), Store(6, 7), Call(16, "swap", <<14, 12>>),
      [op |-> "icall", val |-> NoNode, ptr |-> 9, args |-> <<12, 14>>, fn |-> "main",
       obj |-> NoNode, tmp |-> NoNode],
      Call(NoNode, "list", <<NoNode, 14, 16>>),
      [op |-> "va_arg", val |-> 17, fn |-> "list"],
      [Call(NoNode, "memcpy", <<12, 14>>) EXCEPT !.tmp = 18]})

(* Cycles through memory, which hybrid cycle detection finds: p points to  *)
(* a first cell, and to a second one later; q is stored to *p and loaded   *)
(* from it, and copied to s.                                               *)
Late ==
  Program(16, {}, Main,
     {Alloca(4, 5), Alloca(6, 7), Alloca(8, 9), Store(6, 8),
      Copy(10, {4, 14}), Copy(14, {15}), Copy(15, {6}),
      Store(10, 11), Load(11, 10), Copy(12, {11})})

AllPrograms == SmallPrograms \cup {Walk, Nested, Calls, Late}

HcdPrograms == {Late}

AllOptions == [hcd : BOOLEAN, lcd : BOOLEAN]
HybridOptions == [hcd : {TRUE}, lcd : BOOLEAN]
=============================================================================
