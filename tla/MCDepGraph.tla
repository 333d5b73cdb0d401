----------------------------- MODULE MCDepGraph -----------------------------
(* Small programs in memory SSA form for module DepGraph. *)
EXTENDS DepGraph

Ext(nargs, ptrs, kind, source, reset) ==
  [decl |-> TRUE, nargs |-> nargs, ptrs |-> ptrs, vararg |-> FALSE, retptr |-> FALSE,
   kind |-> kind, source |-> source, reset |-> reset, valueSource |-> FALSE, intrinsic |-> FALSE]

Def(args, ret, entry, exit, code) ==
  [decl |-> FALSE, args |-> args, ret |-> ret, entry |-> entry, exit |-> exit, code |-> code]

Rank == Ext(2, {2}, "other", 2, 0)
Bcast == Ext(2, {1}, "other", 0, 1)
Barrier == Ext(0, {}, "other", 0, 0)
Copy == [Ext(3, {1, 2}, "copy", 0, 0) EXCEPT !.retptr = TRUE]
Set == Ext(3, {1}, "set", 0, 0)

Library == "rank" :> Rank @@ "bcast" :> Bcast @@ "barrier" :> Barrier

v(x) == Val(x)
m(r, n) == Mem("main", r, n)

(* MPI_Comm_rank(comm, &r) from version n, MPI_Bcast(&r), MPI_Barrier() *)
CallRank(id, old, new) ==
  Call(id, TRUE, <<"rank">>, <<v("comm"), v("&r")>>, {<<"rank", 2, "r", old>>},
       {<<"rank", 2, "r", old, new>>}, {}, {}, {})
CallBcast(id, ptr, old, new) ==
  Call(id, TRUE, <<"bcast">>, <<ptr, v("comm")>>, {<<"bcast", 1, "r", old>>},
       {<<"bcast", 1, "r", old, new>>}, {}, {}, {})
CallBarrier(id, c) == Call(id, TRUE, <<"barrier">>, <<>>, {}, {}, {}, {}, c)
(* if (x) ... : the condition of version var of the region at ptr *)
Test(c, ptr, var) == <<Load(v(c \o "l"), ptr, {var}), Op(v(c), {v(c \o "l"), v("0")})>>

NoRegs == Empty

(* The rank is read, compared, and decides about a barrier; then it is made *)
(* the same everywhere and decides about another one.                       *)
Straight ==
  Library @@ "main" :> Def(<<>>, {}, "r" :> m("r", 0), NoRegs,
    <<CallRank("c1", m("r", 0), m("r", 1))>> \o Test("t1", v("&r"), m("r", 1))
      \o <<CallBarrier("c2", {v("t1")}), CallBcast("c3", v("&r"), m("r", 1), m("r", 2))>>
      \o Test("t2", v("&r"), m("r", 2)) \o <<CallBarrier("c4", {v("t2")})>>)

(* if (rank) x = a; else x = b;  if (x) barrier, with nested phis. *)
Branches(a, b) ==
  Library @@ "main" :> Def(<<>>, {}, "r" :> m("r", 0) @@ "x" :> m("x", 0), NoRegs,
    <<CallRank("c1", m("r", 0), m("r", 1))>> \o Test("t1", v("&r"), m("r", 1))
      \o <<Store(v("&x"), v(a), {<<m("x", 0), m("x", 1)>>}),
           Store(v("&x"), v(b), {<<m("x", 0), m("x", 2)>>}),
           MemPhi(m("x", 3), <<m("x", 1), m("x", 2)>>, {v("t1")}),
           MemPhi(m("x", 4), <<m("x", 3), m("x", 3)>>, {v("u")}),
           MemPhi(m("x", 5), <<m("x", 3), m("x", 4)>>, {v("u")})>>
      \o Test("t2", v("&x"), m("x", 5)) \o <<CallBarrier("c2", {v("t2")})>>)

(* if (rank) bcast(&r); else bcast(&r);  then a loop that leaves r alone. *)
BranchBcast ==
  Library @@ "main" :> Def(<<>>, {}, "r" :> m("r", 0), NoRegs,
    <<CallRank("c1", m("r", 0), m("r", 1))>> \o Test("t1", v("&r"), m("r", 1))
      \o <<CallBcast("c2", v("&r"), m("r", 1), m("r", 2)), CallBcast("c3", v("&r"), m("r", 1), m("r", 3)),
           MemPhi(m("r", 4), <<m("r", 2), m("r", 3)>>, {v("t1")}),
           MemPhi(m("r", 5), <<m("r", 4), m("r", 5)>>, {v("u")})>>
      \o Test("t2", v("&r"), m("r", 5)) \o <<CallBarrier("c4", {v("t2")})>>)

(* set(&x, a) in both branches. *)
CallSet(id, old, new) ==
  Call(id, TRUE, <<"set">>, <<v("&x"), v("1")>>, {<<"set", 0, "x", old>>},
       {<<"set", 0, "x", old, new>>}, {}, {}, {})

SetX ==
  Def(<<v("p"), v("a")>>, {}, "x" :> Mem("set", "x", 0), "x" :> Mem("set", "x", 1),
      <<Store(v("p"), v("a"), {<<Mem("set", "x", 0), Mem("set", "x", 1)>>})>>)

BranchCalls ==
  Library @@ "set" :> SetX @@ "main" :> Def(<<>>, {}, "r" :> m("r", 0) @@ "x" :> m("x", 0), NoRegs,
    <<CallRank("c1", m("r", 0), m("r", 1))>> \o Test("t1", v("&r"), m("r", 1))
      \o <<CallSet("c2", m("x", 0), m("x", 1)), CallSet("c3", m("x", 0), m("x", 2)),
           MemPhi(m("x", 3), <<m("x", 1), m("x", 2)>>, {v("t1")})>>
      \o Test("t2", v("&x"), m("x", 3)) \o <<CallBarrier("c4", {v("t2")})>>)

(* f(n) { if (n) barrier }, called through an intermediate g. *)
Inner == Def(<<v("n")>>, {}, NoRegs, NoRegs,
             <<Op(v("tn"), {v("n"), v("0")}), CallBarrier("b1", {v("tn")})>>)

CallF(id, arg) == Call(id, TRUE, <<"f">>, <<arg>>, {}, {}, {}, {}, {})

Nested ==
  Library @@ "f" :> Inner
    @@ "g" :> Def(<<v("k")>>, {v("k2")}, NoRegs, NoRegs, <<Op(v("k2"), {v("k")}), CallF("c9", v("k2"))>>)
    @@ "main" :> Def(<<>>, {}, "r" :> m("r", 0), NoRegs,
         <<CallRank("c1", m("r", 0), m("r", 1)), Load(v("l"), v("&r"), {m("r", 1)}),
           Call("c2", TRUE, <<"g">>, <<v("l")>>, {}, {}, {}, {}, {}),
           Op(v("t3"), {v("c2")}), CallBarrier("c3", {v("t3")})>>)

(* rank; bcast(&r); h(&r), where h(p) { if (p[0]) barrier } *)
Reset ==
  Library
    @@ "h" :> Def(<<v("p")>>, {}, "r" :> Mem("h", "r", 0), "r" :> Mem("h", "r", 0),
         Test("th", v("p"), Mem("h", "r", 0)) \o <<CallBarrier("b1", {v("th")})>>)
    @@ "main" :> Def(<<>>, {}, "r" :> m("r", 0), NoRegs,
         <<CallRank("c1", m("r", 0), m("r", 1)), CallBcast("c2", v("&r"), m("r", 1), m("r", 2)),
           Call("c3", TRUE, <<"h">>, <<v("&r")>>, {<<"h", 0, "r", m("r", 2)>>}, {}, {}, {}, {})>>)

(* f(0); rank; f(rank) *)
Twice ==
  Library @@ "f" :> Inner @@ "main" :> Def(<<>>, {}, "r" :> m("r", 0), NoRegs,
    <<CallF("c1", v("0")), CallRank("c2", m("r", 0), m("r", 1)), Load(v("l"), v("&r"), {m("r", 1)}),
      CallF("c3", v("l"))>>)

(* A function that calls itself, and a call through a pointer to f or to an *)
(* external function.                                                       *)
Recursive ==
  Library
    @@ "f" :> Def(<<v("n")>>, {v("n")}, NoRegs, NoRegs,
         <<Op(v("tn"), {v("n")}), Call("c4", TRUE, <<"f">>, <<v("tn")>>, {}, {}, {}, {}, {v("tn")}),
           CallBarrier("b1", {v("tn")})>>)
    @@ "main" :> Def(<<>>, {}, "r" :> m("r", 0), NoRegs,
         <<CallRank("c2", m("r", 0), m("r", 1)), Load(v("l"), v("&r"), {m("r", 1)}), CallF("c3", v("l"))>>)

Pointer(callees) ==
  Library @@ "f" :> Inner @@ "ext" :> Ext(1, {1}, "other", 0, 0) @@ "main" :> Def(<<>>, {}, "r" :> m("r", 0), NoRegs,
    <<CallRank("c2", m("r", 0), m("r", 1)), Load(v("l"), v("&r"), {m("r", 1)}),
      Call("c3", FALSE, callees, <<v("l")>>, {<<"ext", 1, "r", m("r", 1)>>}, {<<"ext", 1, "r", m("r", 1), m("r", 2)>>},
           {}, {}, {})>> \o Test("t1", v("&r"), m("r", 2)) \o <<CallBarrier("c4", {v("t1")})>>)

(* memcpy(&x, &r), as a function and as an intrinsic; memset(&x, rank)       *)
Transfer(f, F) ==
  Library @@ f :> F @@ "main" :> Def(<<>>, {}, "r" :> m("r", 0) @@ "x" :> m("x", 0), NoRegs,
    <<CallRank("c1", m("r", 0), m("r", 1)), Load(v("l"), v("&r"), {m("r", 1)}),
      Call("c2", TRUE, <<f>>, <<v("&x"), IF F.kind = "set" THEN v("l") ELSE v("&r"), v("n")>>,
           {<<f, 1, "x", m("x", 0)>>} \cup (IF F.kind = "set" THEN {} ELSE {<<f, 2, "r", m("r", 1)>>}),
           {<<f, 1, "x", m("x", 0), m("x", 1)>>},
           IF F.retptr THEN {<<m("x", 1), m("x", 2)>>} ELSE {}, {}, {})>>
      \o Test("t1", v("&x"), m("x", IF F.retptr THEN 2 ELSE 1)) \o <<CallBarrier("c3", {v("t1")})>>)

(* ext(p), where p points to r, which was broadcast, or to x, which holds   *)
(* the rank; after a synchronisation.                                       *)
Mixed ==
  Library @@ "ext" :> [Ext(1, {1}, "other", 0, 0) EXCEPT !.vararg = TRUE]
    @@ "main" :> Def(<<>>, {}, "r" :> m("r", 0) @@ "x" :> m("x", 0), NoRegs,
    <<CallRank("c1", m("r", 0), m("r", 1)), Load(v("l"), v("&r"), {m("r", 1)}),
      Store(v("&x"), v("l"), {<<m("x", 0), m("x", 1)>>}),
      CallBcast("c2", v("&r"), m("r", 1), m("r", 2)),
      Call("c3", TRUE, <<"ext">>, <<v("p"), v("q")>>,
           {<<"ext", 1, "r", m("r", 2)>>, <<"ext", 1, "x", m("x", 1)>>, <<"ext", 2, "x", m("x", 1)>>},
           {<<"ext", 1, "x", m("x", 1), m("x", 2)>>, <<"ext", 2, "x", m("x", 2), m("x", 3)>>}, {},
           {<<m("r", 2), m("r", 3)>>}, {})>>
      \o Test("t1", v("&x"), m("x", 2)) \o <<CallBarrier("c4", {v("t1")})>>)

AllPrograms ==
  {Straight, Branches("1", "1"), Branches("1", "2"), Branches("t1", "t1"), Branches("t1", "2"),
   Reset, BranchBcast, BranchCalls, Nested, Twice, Recursive,
   Pointer(<<"f", "ext">>), Pointer(<<"ext", "f">>), Transfer("memcpy", Copy),
   Transfer("memcpy", [Copy EXCEPT !.intrinsic = TRUE, !.retptr = FALSE]),
   Transfer("memset", Set), Mixed}

BothModes == BOOLEAN

(* They are in memory SSA form. *)
ASSUME AllProgramsRegular == \A P \in AllPrograms : SSAForm(P) /\ ResetsApart(P)
=============================================================================
