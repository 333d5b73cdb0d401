---------------------------- MODULE MCRmaPasses -----------------------------
(* Functions for module RmaPasses: every graph of four blocks with a        *)
(* communication, an access and a synchronisation anywhere, nested loops,   *)
(* and functions where the analysis or the instrumentation goes wrong.      *)
EXTENDS RmaPasses

Ins(op, m) == [op |-> op, mem |-> m]
Call(op) == Ins(op, "none")

(* Where the three instructions go: p[n] is the block of the n-th. *)
Placed(blocks, seq, p) ==
  [b \in blocks |-> LET mine == {n \in DOMAIN seq : p[n] = b}
                    IN  [k \in 1 .. Cardinality(mine) |->
                           seq[CHOOSE n \in mine : Cardinality({m \in mine : m <= n}) = k]]]

Function(succ, loops, seq, p) ==
  [succ |-> succ, code |-> Placed(DOMAIN succ, seq, p), alias |-> {<<"x", "y">>}, loops |-> loops]

Ways == {<<2>>, <<3>>, <<4>>, <<2, 3>>, <<3, 2>>, <<4, 2>>, <<4, 3>>}

(* Every block is reached and reaches the return, no jump leads into a      *)
(* loop, and inner loops have one latch.                                    *)
Structured(g) ==
  LET G == [succ |-> g] IN
  /\ Reach(G, Entry) = DOMAIN g
  /\ \A b \in DOMAIN g : Len(g) \in Reach(G, b)
  /\ Reducible(G)
  /\ \A l \in Inner(Loops(G)) : l.latch # 0

Graphs ==
  {g \in {<<a, b, c, <<>>>> : a \in {<<2>>, <<2, 3>>, <<3, 2>>}, b, c \in Ways} : Structured(g)}

Codes ==
  {<<Ins("get", "x"), Ins("load", "x"), Call("flush")>>,
   <<Ins("store", "y"), Ins("put", "x"), Call("flush_all")>>,
   <<Call("fence"), Ins("put", "x"), Ins("put", "y")>>}

Functions(graphs, codes) ==
  UNION {LET ls == Loops([succ |-> g]) IN
         {Function(g, ls, s, p) : s \in codes, p \in [1 .. 3 -> DOMAIN g]} : g \in graphs}

(* A loop in a loop, with a branch in it. *)
Nested == <<<<2>>, <<3, 7>>, <<4, 6>>, <<5, 3>>, <<3>>, <<2>>, <<>>>>
While2 == <<<<2>>, <<3, 6>>, <<4, 5>>, <<3>>, <<2>>, <<>>>>

Nests == {<<Ins("get", "x"), Ins("get", "y"), Call("fence")>>,
          <<Ins("put", "x"), Ins("store", "x"), Call("unlock_all")>>}

NoRMA == {<<Call("lock_all"), Ins("store", "x"), Call("unlock_all")>>,
          <<Call("lock"), Call("acc"), Ins("load", "x")>>}

AllPrograms ==
  Functions(Graphs, Codes) \cup Functions({While2}, Nests)
    \cup Functions({<<<<2, 3>>, <<4>>, <<4>>, <<>>>>, <<<<2>>, <<3, 4>>, <<2>>, <<>>>>}, NoRMA)

(* An inner loop with two latches. *)
TwoLatches == Functions({Nested}, {<<Ins("get", "x"), Ins("load", "x"), Call("flush")>>})

(* An epoch in one block, and a store after it. *)
ShortEpoch ==
  {Function(<<<<2>>, <<>>>>, <<>>, <<Call("lock_all"), Call("unlock_all"), Ins("store", "x")>>, <<1, 1, 2>>)}
=============================================================================
