---------------------------- MODULE MCMemorySSA -----------------------------
(* Functions for module MemorySSA: every control flow graph of four blocks  *)
(* whose blocks are reached and reach the return, with every placement of   *)
(* stores, and a few with calls.                                            *)
EXTENDS MemorySSA

One(code, succ, phis) ==
  [succ |-> succ, fn |-> [b \in DOMAIN succ |-> "f"], code |-> code,
   globalKill |-> {}, kill |-> {}, shared |-> {}, phis |-> phis]

Ways == {<<2>>, <<3>>, <<4>>, <<2, 3>>, <<2, 4>>, <<3, 4>>}

Graphs == {g \in {<<a, b, c, <<>>>> : a, b, c \in Ways} :
             LET G == [succ |-> g]
             IN  Reach(G, 1) = 1..4 /\ \A b \in 1..3 : 4 \in Reach(G, b)}

StorePrograms ==
  {One([b \in 1..4 |-> CASE b = 4 -> <<Load({"x"}), Ret>>
                         [] b \in D -> <<Load({"x"}), Store({"x"})>>
                         [] OTHER -> <<Load({"x"})>>],
       g, {b \in 1..4 : Cardinality(Preds([succ |-> g], b)) > 1}) :
     g \in Graphs, D \in SUBSET (1..3)}

Diamond == <<<<2, 3>>, <<4>>, <<4>>, <<>>>>
While == <<<<2>>, <<3, 5>>, <<4, 2>>, <<2>>, <<>>>>

(* Calls: a callee with Mod and Ref, two callees of a pointer, external     *)
(* functions that write an argument, a variable argument or what they       *)
(* return, an unknown one, a barrier, and regions that are killed.          *)
CallPrograms ==
  {One(<<<<Store({"x"}), Store({"x", "y"})>>,
         <<Call(<<Internal({"x"}, {"x", "y"})>>, <<{"x"}>>, {}, FALSE)>>,
         <<Load({"y"})>>,
         <<Load({"x"}), Load({"y"}), Ret>>>>, Diamond, {}),
   One(<<<<>>, <<Call(<<Internal({"y"}, {"x"}), Internal({"x"}, {"x"})>>, <<>>, {}, FALSE)>>,
         <<Call(<<External(TRUE, <<TRUE, FALSE>>, TRUE, FALSE)>>, <<{"x"}, {"y"}>>, {"y"}, FALSE)>>,
         <<Load({"x"}), Load({"y"}), Ret>>>>, Diamond, {4}),
   One(<<<<Store({"x"})>>, <<Load({"x"})>>,
         <<Call(<<External(TRUE, <<FALSE, TRUE>>, FALSE, FALSE)>>, <<{"y"}, {}, {"x"}>>, {}, FALSE)>>,
         <<Call(<<External(FALSE, <<>>, FALSE, FALSE)>>, <<{"x"}>>, {"y"}, FALSE), Load({"x"})>>,
         <<Load({"y"}), Load({"x"}), Ret>>>>, While, {2}),
   [One(<<<<Store({"x"})>>, <<Load({"x", "k"}), Store({"k"})>>,
          <<Call(<<External(TRUE, <<FALSE>>, FALSE, TRUE)>>, <<{}>>, {}, FALSE)>>,
          <<Call(<<Internal({"l"}, {"l", "x"})>>, <<>>, {}, FALSE)>>,
          <<Load({"x"}), Ret>>>>, While, {})
      EXCEPT !.globalKill = {"k"}, !.kill = {"k", "l"}, !.shared = {"x"}],
   One(<<<<Load({"x"})>>, <<Store({"x"})>>, <<Ret>>>>, <<<<3>>, <<3>>, <<>>>>, {})}

InvokePrograms ==
  {One(<<<<Store({"x"})>>,
         <<Call(<<Internal({}, {"x"})>>, <<>>, {}, TRUE)>>,
         <<Load({"x"})>>,
         <<Load({"x"}), Ret>>>>, Diamond, {})}

AllPrograms == StorePrograms \cup CallPrograms
=============================================================================
