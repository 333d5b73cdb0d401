----------------------------- MODULE MCCollLists ----------------------------
(* Instances of CollLists and CollWarnings: all small graphs without loops, *)
(* and some shapes with loops and calls.                                    *)
EXTENDS CollWarnings

CONSTANTS NBlocks,   \* blocks of the graphs without loops
          Kinds,     \* collectives that may be in a block
          OneKind    \* one of them, for the largest graphs

World == "world"

(* At most two successors, all of them further down, in increasing order. *)
Edges(n, b) ==
  {<<>>} \cup {<<x>> : x \in b + 1 .. n}
         \cup {<<x, y>> : <<x, y>> \in {z \in (b + 1 .. n) \X (b + 1 .. n) : z[1] < z[2]}}

RECURSIVE ForwardFrom(_, _)
ForwardFrom(n, b) ==
  IF b > n THEN {<<>>}
  ELSE {<<e>> \o rest : e \in Edges(n, b), rest \in ForwardFrom(n, b + 1)}

Forward(n) == ForwardFrom(n, 1)

Body(k) == IF k = "" THEN <<>> ELSE <<Coll(k, World)>>

OneFunction(succ, calls, loops) ==
  [succ |-> succ, calls |-> calls, fn |-> [b \in DOMAIN succ |-> 1],
   entry |-> <<1>>, loops |-> <<loops>>, order |-> <<1>>]

Placements(n, K) == [1 .. n -> {Body(k) : k \in K \cup {""}}]

(* Every block can be reached, and the function has at most two exits:     *)
(* UnifyFunctionExitNodes leaves one that returns and one that does not.   *)
WellFormed(G) == Reach(G, 1) = Blocks(G) /\ Cardinality(Exits(G, 1)) <= 2

Acyclic(n, K) ==
  {OneFunction(s, c, <<>>) :
     s \in {t \in Forward(n) : WellFormed(OneFunction(t, <<>>, <<>>))}, c \in Placements(n, K)}

AcyclicPrograms == Acyclic(NBlocks, {OneKind}) \cup Acyclic(NBlocks - 1, Kinds)

(* Shapes that clang produces for while, nested while, if in while, two    *)
(* loops in sequence, do .. while, and while with a break.                 *)
While(c) ==
  OneFunction(<< <<2>>, <<3, 4>>, <<2>>, <<>> >>, c, <<[header |-> 2, blocks |-> {2, 3}]>>)

Nested(c) ==
  OneFunction(<< <<2>>, <<3, 6>>, <<4, 5>>, <<3>>, <<2>>, <<>> >>, c,
    <<[header |-> 3, blocks |-> {3, 4}], [header |-> 2, blocks |-> {2, 3, 4, 5}]>>)

IfInWhile(c) ==
  OneFunction(<< <<2>>, <<3, 6>>, <<5, 4>>, <<5>>, <<2>>, <<>> >>, c,
    <<[header |-> 2, blocks |-> {2, 3, 4, 5}]>>)

TwoLoops(c) ==
  OneFunction(<< <<2>>, <<3, 4>>, <<2>>, <<5>>, <<6, 7>>, <<5>>, <<>> >>, c,
    <<[header |-> 2, blocks |-> {2, 3}], [header |-> 5, blocks |-> {5, 6}]>>)

DoWhile(c) ==
  OneFunction(<< <<2>>, <<3>>, <<2, 4>>, <<>> >>, c, <<[header |-> 2, blocks |-> {2, 3}]>>)

Break(c) ==
  OneFunction(<< <<2>>, <<3, 6>>, <<4, 5>>, <<6>>, <<2>>, <<>> >>, c,
    <<[header |-> 2, blocks |-> {2, 3, 5}]>>)

(* do .. while whose body is one block, its own predecessor. *)
SelfLoop(c) ==
  OneFunction(<< <<2>>, <<2, 3>>, <<>> >>, c, <<[header |-> 2, blocks |-> {2}]>>)

(* while { if (c) continue; }: two blocks close the loop. *)
Continue(c) ==
  OneFunction(<< <<2>>, <<3, 6>>, <<4, 5>>, <<2>>, <<2>>, <<>> >>, c,
    <<[header |-> 2, blocks |-> {2, 3, 4, 5}]>>)

(* if (c) ...; while { }, with the empty block between them removed: the    *)
(* loop is entered from two blocks.  Then a loop like any other.            *)
TwoWaysIn(c) ==
  OneFunction(<< <<3, 2>>, <<3>>, <<4, 5>>, <<3>>, <<6>>, <<7, 8>>, <<6>>, <<>> >>, c,
    <<[header |-> 3, blocks |-> {3, 4}], [header |-> 6, blocks |-> {6, 7}]>>)

(* The loops the other way round. *)
TwoWaysInLater(c) ==
  OneFunction(<< <<2>>, <<3, 4>>, <<2>>, <<6, 5>>, <<6>>, <<7, 8>>, <<6>>, <<>> >>, c,
    <<[header |-> 2, blocks |-> {2, 3}], [header |-> 6, blocks |-> {6, 7}]>>)

(* Collectives anywhere but in the header of a loop. *)
Clear(n, H) == {c \in Placements(n, Kinds) : \A h \in H : c[h] = <<>>}

LoopPrograms ==
  {While(c) : c \in Clear(4, {2})}
    \cup {Nested(c) : c \in Clear(6, {2, 3})}
    \cup {IfInWhile(c) : c \in Clear(6, {2})}
    \cup {TwoLoops(c) : c \in Clear(7, {2, 5})}
    \cup {DoWhile(c) : c \in Clear(4, {2})}
    \cup {Break(c) : c \in Clear(6, {2})}
    \cup {SelfLoop(c) : c \in Clear(3, {2})}

None(n) == [b \in 1 .. n |-> <<>>]
At(n, b, s) == [None(n) EXCEPT ![b] = s]
Barrier == <<Coll("Barrier", World)>>

IgnoredPrograms ==
  {Continue(At(6, b, Barrier)) : b \in {1, 4, 6}}
    \cup {TwoWaysIn(At(8, b, Barrier)) : b \in {2, 4, 7}}
    \cup {TwoWaysInLater(At(8, b, Barrier)) : b \in {3, 5, 7}}

(* A callee of the world and of another communicator, called twice. *)
TwoFunctions(c, d, e) ==
  [succ |-> << <<2, 3>>, <<3>>, <<>>, <<5>>, <<>> >>,
   calls |-> <<c, <<CallTo(4)>>, d \o <<CallTo(4)>>, e, <<Coll("Finalize", NoComm)>> >>,
   fn |-> <<1, 1, 1, 2, 2>>, entry |-> <<1, 4>>, loops |-> << <<>>, <<>> >>,
   order |-> <<2, 1>>]

CallBodies == {<<>>, <<Coll("Barrier", "world")>>, <<Coll("Barrier", "sub")>>}

CallPrograms == {TwoFunctions(c, d, e) : c \in CallBodies, d \in CallBodies, e \in CallBodies}

AllPrograms == AcyclicPrograms \cup CallPrograms \cup LoopPrograms \cup IgnoredPrograms

(* do { MPI_Barrier } while: the header of the loop is its body. *)
HeaderPrograms == {DoWhile(At(4, 2, Barrier))}

(* while { do { } while } *)
NestedDoPrograms ==
  {OneFunction(<< <<2>>, <<3, 6>>, <<4>>, <<3, 5>>, <<2>>, <<>> >>, None(6),
     <<[header |-> 3, blocks |-> {3, 4}], [header |-> 2, blocks |-> {2, 3, 4, 5}]>>)}

(* while (1) { if (c) continue; if (d) break; }: ignored, and left from     *)
(* another block than its header.                                           *)
ContinueBreakPrograms ==
  {OneFunction(<< <<2>>, <<3, 4>>, <<2>>, <<2, 5>>, <<>> >>, None(5),
     <<[header |-> 2, blocks |-> {2, 3, 4}]>>)}
=============================================================================
