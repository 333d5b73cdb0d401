--------------------------- MODULE AndersenProofs ---------------------------
(***************************************************************************)
(* Proofs about the constraint solver of the pointer analysis, for every   *)
(* program and every choice of the options.                                *)
(*                                                                         *)
(* The steps of the solver are two operations on a graph: merging nodes,   *)
(* and passing the points-to set of a node along its edges.  Each is shown *)
(* once, for any graph, to keep what the invariants are made of: the edges *)
(* still stand for every constraint, nothing the least solution does not   *)
(* justify is added, and a node whose edges do not carry its points-to set *)
(* stays on a work list.                                                   *)
(***************************************************************************)
EXTENDS Andersen, CommonLemmas

-----------------------------------------------------------------------------
(* The least solution. *)

Assignment(P) == [Nodes(P) -> SUBSET Nodes(P)]
Constraints(P) == [type : {"addr_of", "copy", "load", "store"}, dest : Nodes(P), src : Nodes(P)]

Below(A, B) == \A n \in DOMAIN A : A[n] \subseteq B[n]

(* What x in the points-to set of n may come from. *)
LEMMA FlowsMember ==
  ASSUME NEW P, NEW cs \in SUBSET Constraints(P), NEW A \in Assignment(P), NEW n \in Nodes(P), NEW x
  PROVE  x \in Flows(P, cs, A)[n] <=>
           \/ x \in A[n]
           \/ \E c \in cs : \/ c.type = "addr_of" /\ c.dest = n /\ x = c.src
                            \/ c.type = "copy" /\ c.dest = n /\ x \in A[c.src]
                            \/ c.type = "load" /\ c.dest = n /\ \E v \in A[c.src] : x \in A[v]
                            \/ c.type = "store" /\ n \in A[c.dest] /\ x \in A[c.src]
<1> DEFINE from(c) == CASE c.type = "addr_of" -> IF c.dest = n THEN {c.src} ELSE {}
                        [] c.type = "copy"    -> IF c.dest = n THEN A[c.src] ELSE {}
                        [] c.type = "load"    -> IF c.dest = n THEN UNION {A[v] : v \in A[c.src]} ELSE {}
                        [] c.type = "store"   -> IF n \in A[c.dest] THEN A[c.src] ELSE {}
<1>1. Flows(P, cs, A)[n] = A[n] \cup UNION {from(c) : c \in cs}
  BY DEF Flows
<1>2. ASSUME NEW c \in cs
      PROVE  x \in from(c) <=>
               \/ c.type = "addr_of" /\ c.dest = n /\ x = c.src
               \/ c.type = "copy" /\ c.dest = n /\ x \in A[c.src]
               \/ c.type = "load" /\ c.dest = n /\ \E v \in A[c.src] : x \in A[v]
               \/ c.type = "store" /\ n \in A[c.dest] /\ x \in A[c.src]
  <2>0. c.type \in {"addr_of", "copy", "load", "store"}
    BY DEF Constraints
  <2>1. CASE c.type = "addr_of"
    BY <2>1
  <2>2. CASE c.type = "copy"
    BY <2>2
  <2>3. CASE c.type = "load"
    BY <2>3
  <2>4. CASE c.type = "store"
    BY <2>4
  <2> QED
    BY <2>0, <2>1, <2>2, <2>3, <2>4
<1> HIDE DEF from
<1> QED
  BY <1>1, <1>2

(* One round of the iteration only adds, and more to more. *)
LEMMA FlowsMonotone ==
  ASSUME NEW P, NEW cs \in SUBSET Constraints(P), NEW A \in Assignment(P)
  PROVE  /\ Flows(P, cs, A) \in Assignment(P) /\ Below(A, Flows(P, cs, A))
         /\ \A B \in Assignment(P) : Below(A, B) => Below(Flows(P, cs, A), Flows(P, cs, B))
<1>0. DOMAIN A = Nodes(P) /\ \A n \in Nodes(P) : A[n] \subseteq Nodes(P)
  BY DEF Assignment
<1>c. \A c \in cs : c.src \in Nodes(P) /\ c.dest \in Nodes(P)
  BY DEF Constraints
<1>d. \A B : /\ DOMAIN Flows(P, cs, B) = Nodes(P)
             /\ Flows(P, cs, B) = [n \in Nodes(P) |-> Flows(P, cs, B)[n]]
  BY DEF Flows
<1>1. \A n \in Nodes(P) : A[n] \subseteq Flows(P, cs, A)[n]
  BY FlowsMember
<1>2. \A n \in Nodes(P) : Flows(P, cs, A)[n] \subseteq Nodes(P)
  <2> SUFFICES ASSUME NEW n \in Nodes(P), NEW x \in Flows(P, cs, A)[n] PROVE x \in Nodes(P)
    OBVIOUS
  <2>1. \/ x \in A[n]
        \/ \E c \in cs : \/ c.type = "addr_of" /\ c.dest = n /\ x = c.src
                         \/ c.type = "copy" /\ c.dest = n /\ x \in A[c.src]
                         \/ c.type = "load" /\ c.dest = n /\ \E v \in A[c.src] : x \in A[v]
                         \/ c.type = "store" /\ n \in A[c.dest] /\ x \in A[c.src]
    BY FlowsMember
  <2>2. ASSUME NEW c \in cs, NEW v \in A[c.src], x \in A[v] PROVE x \in Nodes(P)
    <3>1. v \in Nodes(P)
      BY <1>0, <1>c
    <3> QED
      BY <1>0, <2>2, <3>1
  <2>3. ASSUME NEW c \in cs, x = c.src \/ x \in A[c.src] PROVE x \in Nodes(P)
    BY <1>0, <1>c, <2>3
  <2> QED
    BY <1>0, <2>1, <2>2, <2>3
<1>3. Flows(P, cs, A) \in Assignment(P)
  <2>1. [n \in Nodes(P) |-> Flows(P, cs, A)[n]] \in [Nodes(P) -> SUBSET Nodes(P)]
    BY <1>2
  <2> QED
    BY <1>d, <2>1 DEF Assignment
<1>4. ASSUME NEW B \in Assignment(P), Below(A, B), NEW n \in Nodes(P), NEW x \in Flows(P, cs, A)[n]
      PROVE  x \in Flows(P, cs, B)[n]
  <2>1. \A m \in Nodes(P) : A[m] \subseteq B[m]
    BY <1>0, <1>4 DEF Below
  <2>2. \/ x \in A[n]
        \/ \E c \in cs : \/ c.type = "addr_of" /\ c.dest = n /\ x = c.src
                         \/ c.type = "copy" /\ c.dest = n /\ x \in A[c.src]
                         \/ c.type = "load" /\ c.dest = n /\ \E v \in A[c.src] : x \in A[v]
                         \/ c.type = "store" /\ n \in A[c.dest] /\ x \in A[c.src]
    BY FlowsMember
  <2>3. \/ x \in B[n]
        \/ \E c \in cs : \/ c.type = "addr_of" /\ c.dest = n /\ x = c.src
                         \/ c.type = "copy" /\ c.dest = n /\ x \in B[c.src]
                         \/ c.type = "load" /\ c.dest = n /\ \E v \in B[c.src] : x \in B[v]
                         \/ c.type = "store" /\ n \in B[c.dest] /\ x \in B[c.src]
    <3>1. CASE x \in A[n]
      BY <2>1, <3>1
    <3>3. ASSUME NEW c \in cs, c.type = "copy" /\ c.dest = n /\ x \in A[c.src]
          PROVE  x \in B[c.src]
      BY <1>c, <2>1, <3>3
    <3>4. ASSUME NEW c \in cs, NEW v \in A[c.src], x \in A[v]
          PROVE  v \in B[c.src] /\ x \in B[v]
      BY <1>0, <1>c, <2>1, <3>4
    <3>5. ASSUME NEW c \in cs, n \in A[c.dest] /\ x \in A[c.src]
          PROVE  n \in B[c.dest] /\ x \in B[c.src]
      BY <1>c, <2>1, <3>5
    <3> QED
      BY <2>2, <3>1, <3>3, <3>4, <3>5
  <2> QED
    BY <2>3, FlowsMember
<1> QED
  BY <1>0, <1>1, <1>3, <1>4, <1>d DEF Below

(* A function F of assignments that only adds, and more to more. *)
Monotone(P, F) ==
  /\ F \in [Assignment(P) -> Assignment(P)]
  /\ \A A \in Assignment(P) : Below(A, F[A])
  /\ \A A, B \in Assignment(P) : Below(A, B) => Below(F[A], F[B])

(* The intersection of the fixed points of F above A. *)
LeastAbove(P, F, A) ==
  [n \in Nodes(P) |-> {x \in Nodes(P) : \A Z \in Assignment(P) :
                         Below(A, Z) /\ F[Z] = Z => x \in Z[n]}]

(* It is a fixed point, and one round of the iteration does not change it. *)
LEMMA LeastAboveFacts ==
  ASSUME NEW P, NEW F, Monotone(P, F), NEW A \in Assignment(P)
  PROVE  /\ LeastAbove(P, F, A) \in Assignment(P)
         /\ Below(A, LeastAbove(P, F, A))
         /\ F[LeastAbove(P, F, A)] = LeastAbove(P, F, A)
         /\ \A Z \in Assignment(P) :
              Below(A, Z) /\ F[Z] = Z => Below(LeastAbove(P, F, A), Z)
         /\ F[A] = A => LeastAbove(P, F, A) = A
         /\ LeastAbove(P, F, F[A]) = LeastAbove(P, F, A)
<1> DEFINE L == LeastAbove(P, F, A)
           T == F[A]
<1>f. /\ F \in [Assignment(P) -> Assignment(P)]
      /\ \A B \in Assignment(P) : Below(B, F[B])
      /\ \A B, Z \in Assignment(P) : Below(B, Z) => Below(F[B], F[Z])
  BY DEF Monotone
<1>0. DOMAIN A = Nodes(P) /\ \A n \in Nodes(P) : A[n] \subseteq Nodes(P)
  BY DEF Assignment
<1>1. L \in Assignment(P) /\ DOMAIN L = Nodes(P)
  BY DEF LeastAbove, Assignment
<1>m. \A n \in Nodes(P) : \A x : x \in L[n] <=>
        x \in Nodes(P) /\ \A Z \in Assignment(P) : Below(A, Z) /\ F[Z] = Z => x \in Z[n]
  BY DEF LeastAbove
<1> HIDE DEF L
<1>2. Below(A, L)
  BY <1>0, <1>m DEF Below
<1>3. ASSUME NEW Z \in Assignment(P), Below(A, Z), F[Z] = Z
      PROVE  Below(L, Z)
  BY <1>1, <1>3, <1>m DEF Below
<1>4. F[L] \in Assignment(P) /\ Below(L, F[L])
  BY <1>1, <1>f
<1>5. ASSUME NEW n \in Nodes(P), NEW x \in F[L][n] PROVE x \in L[n]
  <2>1. x \in Nodes(P)
    BY <1>4, <1>5 DEF Assignment
  <2>2. ASSUME NEW Z \in Assignment(P), Below(A, Z), F[Z] = Z
        PROVE  x \in Z[n]
    <3>1. Below(L, Z)
      BY <1>3, <2>2
    <3>2. Below(F[L], F[Z])
      BY <1>1, <3>1, <1>f
    <3>3. Below(F[L], Z) /\ n \in DOMAIN F[L]
      BY <1>4, <2>2, <3>2 DEF Assignment
    <3> QED
      BY <1>5, <3>3 DEF Below
  <2> QED
    BY <1>m, <2>1, <2>2
<1>6. F[L] = L
  <2>1. \A n \in Nodes(P) : F[L][n] = L[n]
    BY <1>1, <1>4, <1>5 DEF Below
  <2> QED
    BY <1>1, <1>4, <2>1 DEF Assignment
<1>7. T \in Assignment(P) /\ Below(A, T) /\ DOMAIN T = Nodes(P)
  BY <1>f DEF Assignment
<1>8. ASSUME T = A PROVE L = A
  <2>1. Below(L, A)
    <3>1. Below(A, A)
      BY DEF Below
    <3> QED
      BY <1>3, <1>8, <3>1
  <2>2. \A n \in Nodes(P) : L[n] = A[n]
    BY <1>0, <1>1, <1>2, <2>1 DEF Below
  <2> QED
    BY <1>0, <1>1, <2>2 DEF Assignment
<1>9. ASSUME NEW Z \in Assignment(P), F[Z] = Z
      PROVE  Below(A, Z) <=> Below(T, Z)
  <2>1. ASSUME Below(A, Z) PROVE Below(T, Z)
    <3>1. Below(T, F[Z])
      BY <2>1, <1>f
    <3> QED
      BY <1>9, <3>1
  <2>2. ASSUME Below(T, Z) PROVE Below(A, Z)
    BY <1>0, <1>7, <2>2 DEF Below
  <2> QED
    BY <2>1, <2>2
<1>10. LeastAbove(P, F, T) = L
  <2> HIDE DEF T
  <2> DEFINE above(B) == {Z \in Assignment(P) : Below(B, Z) /\ F[Z] = Z}
  <2>1. above(T) = above(A)
    BY <1>9
  <2>2. \A B : LeastAbove(P, F, B) = [n \in Nodes(P) |-> {x \in Nodes(P) : \A Z \in above(B) : x \in Z[n]}]
    BY DEF LeastAbove
  <2> HIDE DEF above
  <2> QED
    BY <2>1, <2>2 DEF L
<1> QED
  BY <1>1, <1>2, <1>3, <1>6, <1>8, <1>10 DEF L, T

(* The equation that defines the iteration of F. *)
Iterates(P, F, f) ==
  f = [A \in Assignment(P) |-> IF A = F[A] THEN A ELSE f[F[A]]]

(* A set of assignments has one that none of the others is above. *)
LEMMA MaximalAssignment ==
  ASSUME NEW P, P.nodes \in Nat, NEW B \in SUBSET Assignment(P), B # {}
  PROVE  \E A \in B : \A Z \in B : Below(A, Z) => Z = A
<1> DEFINE U == Nodes(P) \X Nodes(P)
           pairs(A) == {e \in U : e[2] \in A[e[1]]}
           C == {pairs(A) : A \in B}
<1>1. IsFiniteSet(Nodes(P))
  <2>1. 0 \in Int /\ P.nodes - 1 \in Int
    OBVIOUS
  <2> QED
    BY <2>1, FS_Interval DEF Nodes
<1>2. IsFiniteSet(U)
  BY <1>1, FS_Product
<1>3. C \in SUBSET SUBSET U /\ C # {}
  <2>1. \A A : pairs(A) \in SUBSET U
    OBVIOUS
  <2> HIDE DEF pairs
  <2>2. PICK A \in B : TRUE
    OBVIOUS
  <2>3. pairs(A) \in C
    OBVIOUS
  <2> QED
    BY <2>1, <2>3
<1>4. PICK X \in C : \A Y \in C : X \subseteq Y => Y = X
  <2> HIDE DEF C, U
  <2> QED
    BY <1>2, <1>3, MaximalSet
<1>5. PICK A \in B : X = pairs(A)
  BY <1>4
<1>6. ASSUME NEW Z \in B, Below(A, Z) PROVE Z = A
  <2>1. A \in [Nodes(P) -> SUBSET Nodes(P)] /\ Z \in [Nodes(P) -> SUBSET Nodes(P)]
    BY DEF Assignment
  <2>2. pairs(A) \subseteq pairs(Z) /\ pairs(Z) \in C
    BY <1>6, <2>1 DEF Below
  <2>3. pairs(Z) = pairs(A)
    BY <1>4, <1>5, <2>2
  <2>4. ASSUME NEW n \in Nodes(P), NEW x \in Z[n] PROVE x \in A[n]
    <3>1. <<n, x>> \in U /\ <<n, x>>[1] = n /\ <<n, x>>[2] = x
      BY <2>1, <2>4
    <3>2. <<n, x>> \in pairs(Z)
      BY <2>4, <3>1
    <3>3. <<n, x>> \in pairs(A)
      BY <2>3, <3>2
    <3> QED
      BY <3>1, <3>3
  <2>5. \A n \in Nodes(P) : Z[n] = A[n]
    BY <1>6, <2>1, <2>4 DEF Below
  <2> QED
    BY <2>1, <2>5
<1> QED
  BY <1>6

(* The iteration is defined, *)
LEMMA IterationExists ==
  ASSUME NEW P, NEW F, Monotone(P, F)
  PROVE  Iterates(P, F, [A \in Assignment(P) |-> LeastAbove(P, F, A)])
<1> DEFINE h == [A \in Assignment(P) |-> LeastAbove(P, F, A)]
<1>1. ASSUME NEW A \in Assignment(P) PROVE h[A] = IF A = F[A] THEN A ELSE h[F[A]]
  <2>1. F[A] \in Assignment(P)
    BY DEF Monotone
  <2>2. h[A] = LeastAbove(P, F, A) /\ h[F[A]] = LeastAbove(P, F, F[A])
    BY <2>1
  <2> QED
    BY <2>2, LeastAboveFacts
<1>2. h = [A \in Assignment(P) |-> IF A = F[A] THEN A ELSE h[F[A]]]
  BY <1>1
<1> QED
  BY <1>2 DEF Iterates

(* and computes the least fixed point above where it starts. *)
LEMMA IterationUnique ==
  ASSUME NEW P, P.nodes \in Nat, NEW F, Monotone(P, F),
         NEW f, Iterates(P, F, f), NEW A0 \in Assignment(P)
  PROVE  f[A0] = LeastAbove(P, F, A0)
<1>1. \A A \in Assignment(P) : f[A] = IF A = F[A] THEN A ELSE f[F[A]]
  BY DEF Iterates
<1>2. ASSUME f[A0] # LeastAbove(P, F, A0) PROVE FALSE
  <2> DEFINE B == {A \in Assignment(P) : f[A] # LeastAbove(P, F, A)}
  <2>1. PICK A \in B : \A Z \in B : Below(A, Z) => Z = A
    <3>1. B \in SUBSET Assignment(P) /\ B # {}
      BY <1>2
    <3> HIDE DEF B
    <3> QED
      BY <3>1, MaximalAssignment
  <2>2. A \in Assignment(P) /\ f[A] # LeastAbove(P, F, A)
    BY <2>1
  <2>3. F[A] \in Assignment(P) /\ Below(A, F[A])
    BY <2>2 DEF Monotone
  <2>4. CASE F[A] = A
    <3>1. f[A] = A
      BY <1>1, <2>2, <2>4
    <3>2. LeastAbove(P, F, A) = A
      BY <2>2, <2>4, LeastAboveFacts
    <3> QED
      BY <2>2, <3>1, <3>2
  <2>5. CASE F[A] # A
    <3>1. f[A] = f[F[A]]
      BY <1>1, <2>2, <2>5
    <3>2. F[A] \notin B
      BY <2>1, <2>3, <2>5
    <3>3. f[F[A]] = LeastAbove(P, F, F[A])
      BY <2>3, <3>2
    <3>4. LeastAbove(P, F, F[A]) = LeastAbove(P, F, A)
      BY <2>2, LeastAboveFacts
    <3> QED
      BY <2>2, <3>1, <3>3, <3>4
  <2> QED
    BY <2>4, <2>5
<1> QED
  BY <1>2

(* What the chaotic iteration computes: the least solution of the          *)
(* constraints.                                                            *)
LEMMA LeastSolutionFacts ==
  ASSUME NEW P \in Programs
  PROVE  LET cs == collectConstraints(P)
             L == LeastSolution(P, cs)
         IN  /\ L \in Assignment(P) /\ Flows(P, cs, L) = L
             /\ \A Z \in Assignment(P) : Flows(P, cs, Z) = Z => Below(L, Z)
<1> DEFINE cs == collectConstraints(P)
           none == Everywhere(P, {})
           Round(h) == [A \in Assignment(P) |-> LET T == Flows(P, cs, A) IN IF A = T THEN A ELSE h[T]]
           f == CHOOSE h : h = Round(h)
           F == [A \in Assignment(P) |-> Flows(P, cs, A)]
<1>0. P.nodes \in Nat /\ cs \in SUBSET Constraints(P)
  BY ProgramsAssumption DEF Constraints
<1>1. LeastSolution(P, cs) = f[none]
  BY DEF LeastSolution, Assignment
<1>n. none \in Assignment(P) /\ \A Z \in Assignment(P) : Below(none, Z)
  BY DEF Everywhere, Assignment, Below
<1> HIDE DEF cs
<1>2. Monotone(P, F)
  BY <1>0, FlowsMonotone DEF Monotone
<1>3. \A h : Round(h) = [A \in Assignment(P) |-> IF A = F[A] THEN A ELSE h[F[A]]]
  OBVIOUS
<1>a. \A A \in Assignment(P) : F[A] = Flows(P, cs, A)
  OBVIOUS
<1> HIDE DEF F, Round
<1>4. \A h : Iterates(P, F, h) <=> h = Round(h)
  BY <1>3 DEF Iterates
<1>5. f = Round(f)
  BY <1>2, <1>4, IterationExists
<1> HIDE DEF f
<1>6. LeastSolution(P, cs) = LeastAbove(P, F, none)
  BY <1>0, <1>1, <1>2, <1>4, <1>5, <1>n, IterationUnique
<1> HIDE DEF none
<1>7. /\ LeastAbove(P, F, none) \in Assignment(P)
      /\ F[LeastAbove(P, F, none)] = LeastAbove(P, F, none)
      /\ \A Z \in Assignment(P) :
           Below(none, Z) /\ F[Z] = Z => Below(LeastAbove(P, F, none), Z)
  BY <1>2, <1>n, LeastAboveFacts
<1>8. /\ LeastSolution(P, cs) \in Assignment(P)
      /\ Flows(P, cs, LeastSolution(P, cs)) = LeastSolution(P, cs)
      /\ \A Z \in Assignment(P) : Flows(P, cs, Z) = Z => Below(LeastSolution(P, cs), Z)
  BY <1>6, <1>7, <1>a, <1>n
<1> QED
  BY <1>8 DEF cs

-----------------------------------------------------------------------------
(* Graphs. *)

Graphs ==
  [rep : [Node -> Node], pts : [Node -> SUBSET Node], copy : [Node -> SUBSET Node],
   load : [Node -> SUBSET Node], store : [Node -> SUBSET Node]]

GraphOK(h) == h \in Graphs /\ \A n \in Node : h.rep[h.rep[n]] = h.rep[n]

(* There is a copy edge between the nodes a and b stand for. *)
Linked(h, a, b) == a = b \/ \E c \in h.copy[a] : h.rep[c] = b

(* Every edge of n carries its points-to set. *)
Sat(h, n) ==
  /\ \A d \in h.copy[n] : h.pts[n] \subseteq h.pts[h.rep[d]]
  /\ \A v \in h.pts[n], d \in h.load[n] : Linked(h, h.rep[v], h.rep[d])
  /\ \A v \in h.pts[n], s \in h.store[n] : Linked(h, h.rep[s], h.rep[v])

(* The nodes that do not carry theirs stand for some node of W. *)
Remembered(h, W) ==
  \A n \in Node : h.rep[n] = n => Sat(h, n) \/ \E m \in W : h.rep[m] = n

(* The edges stand for every constraint of cs. *)
Represented(h, cs) ==
  \A c \in cs :
    /\ c.type = "addr_of" => c.src \in h.pts[h.rep[c.dest]]
    /\ c.type = "copy" => Linked(h, h.rep[c.src], h.rep[c.dest])
    /\ c.type = "load" => \E d \in h.load[h.rep[c.src]] : h.rep[d] = h.rep[c.dest]
    /\ c.type = "store" => \E s \in h.store[h.rep[c.dest]] : h.rep[s] = h.rep[c.src]

(* The solution L justifies the graph. *)
JustifiedBy(h, L) ==
  /\ \A n \in Node : h.pts[n] \subseteq L[n] /\ L[h.rep[n]] = L[n]
  /\ \A n \in Node : \A d \in h.copy[n] : L[n] \subseteq L[d]
  /\ \A n \in Node : \A d \in h.load[n], v \in L[n] : L[v] \subseteq L[d]
  /\ \A n \in Node : \A s \in h.store[n], v \in L[n] : L[s] \subseteq L[v]

SolutionOf(h) == [n \in Node |-> h.pts[h.rep[n]]]

-----------------------------------------------------------------------------
(* Merging nodes. *)

(* Nodes are merged into nodes that stand for themselves. *)
MergeOK(h, into) ==
  /\ into \in [Node -> Node]
  /\ \A n \in Node : into[into[n]] = into[n] /\ h.rep[into[h.rep[n]]] = into[h.rep[n]]

Moved(f, into) == [n \in DOMAIN f |-> UNION {f[m] : m \in {x \in DOMAIN f : into[x] = n}}]

(* What a node has, the one it is merged into gets, and nothing else. *)
LEMMA MovedFacts ==
  ASSUME NEW f \in [Node -> SUBSET Node], NEW into \in [Node -> Node]
  PROVE  /\ Moved(f, into) \in [Node -> SUBSET Node]
         /\ \A x \in Node : f[x] \subseteq Moved(f, into)[into[x]]
         /\ \A n \in Node : \A y \in Moved(f, into)[n] : \E x \in Node : into[x] = n /\ y \in f[x]
<1>1. \A n \in Node : \A y : y \in Moved(f, into)[n] <=> \E x \in Node : into[x] = n /\ y \in f[x]
  BY DEF Moved
<1>2. DOMAIN Moved(f, into) = Node /\ Moved(f, into) = [n \in Node |-> Moved(f, into)[n]]
  BY DEF Moved
<1>3. \A n \in Node : Moved(f, into)[n] \in SUBSET Node
  BY <1>1
<1>4. Moved(f, into) \in [Node -> SUBSET Node]
  BY <1>2, <1>3
<1> QED
  BY <1>1, <1>4

(* collapseNodes, field by field. *)
LEMMA CollapseFacts ==
  ASSUME NEW h, GraphOK(h), NEW into, MergeOK(h, into)
  PROVE  LET k == collapseNodes(h, into) IN
         /\ GraphOK(k)
         /\ \A n \in Node : k.rep[n] = into[h.rep[n]]
         /\ \A x \in Node : /\ h.pts[x] \subseteq k.pts[into[x]] /\ h.copy[x] \subseteq k.copy[into[x]]
                            /\ h.load[x] \subseteq k.load[into[x]] /\ h.store[x] \subseteq k.store[into[x]]
         /\ \A n \in Node : /\ \A y \in k.pts[n] : \E x \in Node : into[x] = n /\ y \in h.pts[x]
                            /\ \A y \in k.copy[n] : \E x \in Node : into[x] = n /\ y \in h.copy[x]
                            /\ \A y \in k.load[n] : \E x \in Node : into[x] = n /\ y \in h.load[x]
                            /\ \A y \in k.store[n] : \E x \in Node : into[x] = n /\ y \in h.store[x]
<1> DEFINE k == collapseNodes(h, into)
<1>0. /\ h.rep \in [Node -> Node] /\ h.pts \in [Node -> SUBSET Node] /\ h.copy \in [Node -> SUBSET Node]
      /\ h.load \in [Node -> SUBSET Node] /\ h.store \in [Node -> SUBSET Node]
      /\ \A n \in Node : h.rep[h.rep[n]] = h.rep[n]
  BY DEF GraphOK, Graphs
<1>1. /\ into \in [Node -> Node]
      /\ \A n \in Node : into[into[n]] = into[n] /\ h.rep[into[h.rep[n]]] = into[h.rep[n]]
  BY DEF MergeOK
<1>2. k = [rep |-> [n \in Node |-> into[h.rep[n]]], pts |-> Moved(h.pts, into), copy |-> Moved(h.copy, into),
           load |-> Moved(h.load, into), store |-> Moved(h.store, into)]
  BY <1>0 DEF collapseNodes, Moved
<1> HIDE DEF k
<1>3. /\ k.rep = [n \in Node |-> into[h.rep[n]]] /\ k.pts = Moved(h.pts, into)
      /\ k.copy = Moved(h.copy, into) /\ k.load = Moved(h.load, into) /\ k.store = Moved(h.store, into)
  BY <1>2
<1>4. \A n \in Node : k.rep[n] = into[h.rep[n]]
  BY <1>3
<1>5. k.rep \in [Node -> Node] /\ \A n \in Node : k.rep[k.rep[n]] = k.rep[n]
  <2>1. k.rep \in [Node -> Node]
    BY <1>0, <1>1, <1>3
  <2>2. ASSUME NEW n \in Node PROVE k.rep[k.rep[n]] = k.rep[n]
    <3>1. h.rep[n] \in Node /\ into[h.rep[n]] \in Node
      BY <1>0, <1>1
    <3>2. k.rep[into[h.rep[n]]] = into[h.rep[into[h.rep[n]]]]
      BY <1>4, <3>1
    <3>3. into[h.rep[into[h.rep[n]]]] = into[into[h.rep[n]]]
      BY <1>1
    <3> QED
      BY <1>1, <1>4, <3>1, <3>2, <3>3
  <2> QED
    BY <2>1, <2>2
<1>6. /\ k.pts \in [Node -> SUBSET Node] /\ k.copy \in [Node -> SUBSET Node]
      /\ k.load \in [Node -> SUBSET Node] /\ k.store \in [Node -> SUBSET Node]
  <2>1. ASSUME NEW f \in [Node -> SUBSET Node]
        PROVE  Moved(f, into) \in [Node -> SUBSET Node]
    BY <1>1, MovedFacts
  <2> QED
    BY <1>0, <1>3, <2>1
<1>7. GraphOK(k)
  <2>1. k \in Graphs
    BY <1>2, <1>3, <1>5, <1>6 DEF Graphs
  <2> QED
    BY <1>5, <2>1 DEF GraphOK
<1>8. /\ \A x \in Node : /\ h.pts[x] \subseteq k.pts[into[x]] /\ h.copy[x] \subseteq k.copy[into[x]]
                         /\ h.load[x] \subseteq k.load[into[x]] /\ h.store[x] \subseteq k.store[into[x]]
  <2>1. ASSUME NEW f \in [Node -> SUBSET Node]
        PROVE  \A x \in Node : f[x] \subseteq Moved(f, into)[into[x]]
    BY <1>1, MovedFacts
  <2>2. \A x \in Node : h.pts[x] \subseteq k.pts[into[x]]
    BY <1>0, <1>3, <2>1
  <2>3. \A x \in Node : h.copy[x] \subseteq k.copy[into[x]]
    BY <1>0, <1>3, <2>1
  <2>4. \A x \in Node : h.load[x] \subseteq k.load[into[x]]
    BY <1>0, <1>3, <2>1
  <2>5. \A x \in Node : h.store[x] \subseteq k.store[into[x]]
    BY <1>0, <1>3, <2>1
  <2> QED
    BY <2>2, <2>3, <2>4, <2>5
<1>9. \A n \in Node : /\ \A y \in k.pts[n] : \E x \in Node : into[x] = n /\ y \in h.pts[x]
                      /\ \A y \in k.copy[n] : \E x \in Node : into[x] = n /\ y \in h.copy[x]
                      /\ \A y \in k.load[n] : \E x \in Node : into[x] = n /\ y \in h.load[x]
                      /\ \A y \in k.store[n] : \E x \in Node : into[x] = n /\ y \in h.store[x]
  <2>1. ASSUME NEW f \in [Node -> SUBSET Node]
        PROVE  \A n \in Node : \A y \in Moved(f, into)[n] : \E x \in Node : into[x] = n /\ y \in f[x]
    BY <1>1, MovedFacts
  <2>2. \A n \in Node : \A y \in k.pts[n] : \E x \in Node : into[x] = n /\ y \in h.pts[x]
    BY <1>0, <1>3, <2>1
  <2>3. \A n \in Node : \A y \in k.copy[n] : \E x \in Node : into[x] = n /\ y \in h.copy[x]
    BY <1>0, <1>3, <2>1
  <2>4. \A n \in Node : \A y \in k.load[n] : \E x \in Node : into[x] = n /\ y \in h.load[x]
    BY <1>0, <1>3, <2>1
  <2>5. \A n \in Node : \A y \in k.store[n] : \E x \in Node : into[x] = n /\ y \in h.store[x]
    BY <1>0, <1>3, <2>1
  <2> QED
    BY <2>2, <2>3, <2>4, <2>5
<1> QED
  BY <1>4, <1>7, <1>8, <1>9 DEF k

(* Nodes that were linked stay so. *)
LEMMA CollapseLinked ==
  ASSUME NEW h, GraphOK(h), NEW into, MergeOK(h, into), NEW a \in Node, NEW b \in Node, Linked(h, a, b)
  PROVE  Linked(collapseNodes(h, into), into[a], into[b])
<1> DEFINE k == collapseNodes(h, into)
<1>1. /\ \A n \in Node : k.rep[n] = into[h.rep[n]]
      /\ \A x \in Node : h.copy[x] \subseteq k.copy[into[x]]
  BY CollapseFacts
<1> HIDE DEF k
<1>2. h.copy[a] \subseteq Node
  BY DEF GraphOK, Graphs
<1>3. CASE a = b
  BY <1>3 DEF Linked, k
<1>4. CASE a # b
  <2>1. PICK c \in h.copy[a] : h.rep[c] = b
    BY <1>4 DEF Linked
  <2>2. c \in k.copy[into[a]] /\ k.rep[c] = into[b]
    BY <1>1, <1>2, <2>1
  <2> QED
    BY <2>2 DEF Linked, k
<1> QED
  BY <1>3, <1>4

(* A node with the others that are merged into it carries its points-to    *)
(* set, if each of them did and they all had the same.                     *)
LEMMA CollapseSat ==
  ASSUME NEW h, GraphOK(h), NEW into, MergeOK(h, into), NEW n \in Node, into[n] = n,
         \A x \in Node : into[x] = n => Sat(h, x) /\ h.pts[x] = h.pts[n]
  PROVE  Sat(collapseNodes(h, into), n)
<1> DEFINE k == collapseNodes(h, into)
<1>0. /\ h.rep \in [Node -> Node] /\ h.pts \in [Node -> SUBSET Node] /\ h.copy \in [Node -> SUBSET Node]
      /\ h.load \in [Node -> SUBSET Node] /\ h.store \in [Node -> SUBSET Node]
      /\ into \in [Node -> Node]
  BY DEF GraphOK, Graphs, MergeOK
<1>1. /\ \A m \in Node : k.rep[m] = into[h.rep[m]]
      /\ \A x \in Node : h.pts[x] \subseteq k.pts[into[x]]
      /\ \A y \in k.pts[n] : \E x \in Node : into[x] = n /\ y \in h.pts[x]
      /\ \A y \in k.copy[n] : \E x \in Node : into[x] = n /\ y \in h.copy[x]
      /\ \A y \in k.load[n] : \E x \in Node : into[x] = n /\ y \in h.load[x]
      /\ \A y \in k.store[n] : \E x \in Node : into[x] = n /\ y \in h.store[x]
  BY CollapseFacts
<1>l. \A a, b \in Node : Linked(h, a, b) => Linked(k, into[a], into[b])
  BY CollapseLinked
<1> HIDE DEF k
<1>2. k.pts[n] \subseteq h.pts[n]
  BY <1>1
<1>3. ASSUME NEW d \in k.copy[n] PROVE k.pts[n] \subseteq k.pts[k.rep[d]]
  <2>1. PICK x \in Node : into[x] = n /\ d \in h.copy[x]
    BY <1>1
  <2>2. Sat(h, x) /\ h.pts[x] = h.pts[n] /\ d \in Node /\ h.rep[d] \in Node
    BY <1>0, <2>1
  <2>3. h.pts[x] \subseteq h.pts[h.rep[d]]
    BY <2>1, <2>2 DEF Sat
  <2>4. h.pts[h.rep[d]] \subseteq k.pts[k.rep[d]]
    BY <1>1, <2>2
  <2> QED
    BY <1>2, <2>2, <2>3, <2>4
<1>4. ASSUME NEW v \in k.pts[n], NEW d \in k.load[n] PROVE Linked(k, k.rep[v], k.rep[d])
  <2>1. PICK x \in Node : into[x] = n /\ d \in h.load[x]
    BY <1>1
  <2>2. Sat(h, x) /\ v \in h.pts[x] /\ d \in Node /\ v \in Node
    BY <1>0, <1>2, <2>1
  <2>3. Linked(h, h.rep[v], h.rep[d]) /\ h.rep[v] \in Node /\ h.rep[d] \in Node
    BY <1>0, <2>1, <2>2 DEF Sat
  <2> QED
    BY <1>1, <1>l, <2>2, <2>3
<1>5. ASSUME NEW v \in k.pts[n], NEW s \in k.store[n] PROVE Linked(k, k.rep[s], k.rep[v])
  <2>1. PICK x \in Node : into[x] = n /\ s \in h.store[x]
    BY <1>1
  <2>2. Sat(h, x) /\ v \in h.pts[x] /\ s \in Node /\ v \in Node
    BY <1>0, <1>2, <2>1
  <2>3. Linked(h, h.rep[s], h.rep[v]) /\ h.rep[v] \in Node /\ h.rep[s] \in Node
    BY <1>0, <2>1, <2>2 DEF Sat
  <2> QED
    BY <1>1, <1>l, <2>2, <2>3
<1> QED
  BY <1>3, <1>4, <1>5 DEF Sat, k

(* Merging forgets nothing, when the nodes of a class that all carry their *)
(* points-to sets have the same, or the class stands for a node of W.      *)
LEMMA CollapseRemembered ==
  ASSUME NEW h, GraphOK(h), NEW into, MergeOK(h, into), NEW W \in SUBSET Node, Remembered(h, W),
         \A x \in Node : into[x] # x => h.rep[x] = x,
         \A n \in Node : into[n] = n =>
           \/ \E m \in W : into[h.rep[m]] = n
           \/ (\A x \in Node : into[x] = n => Sat(h, x)) =>
                \A x \in Node : into[x] = n => h.pts[x] = h.pts[n]
  PROVE  Remembered(collapseNodes(h, into), W)
<1> DEFINE k == collapseNodes(h, into)
<1>1. \A m \in Node : k.rep[m] = into[h.rep[m]]
  BY CollapseFacts
<1> HIDE DEF k
<1>2. into \in [Node -> Node] /\ \A n \in Node : into[into[n]] = into[n] /\ h.rep[into[h.rep[n]]] = into[h.rep[n]]
  BY DEF MergeOK
<1>3. ASSUME NEW n \in Node, k.rep[n] = n, ~ \E m \in W : k.rep[m] = n
      PROVE  Sat(k, n)
  <2>1. n = into[h.rep[n]] /\ into[n] = n /\ h.rep[n] = n
    <3>0. h.rep[n] \in Node
      BY DEF GraphOK, Graphs
    <3>1. n = into[h.rep[n]]
      BY <1>1, <1>3
    <3>2. into[n] = n
      BY <1>2, <3>0, <3>1
    <3>3. h.rep[n] = n
      BY <1>2, <3>1
    <3> QED
      BY <3>1, <3>2, <3>3
  <2>2. ~ \E m \in W : into[h.rep[m]] = n
    BY <1>1, <1>3
  <2>3. ASSUME NEW x \in Node, into[x] = n PROVE Sat(h, x)
    <3>1. h.rep[x] = x
      BY <2>1, <2>3
    <3>2. ~ \E m \in W : h.rep[m] = x
      BY <2>2, <2>3
    <3> QED
      BY <3>1, <3>2 DEF Remembered
  <2>4. \A x \in Node : into[x] = n => Sat(h, x) /\ h.pts[x] = h.pts[n]
    BY <2>1, <2>2, <2>3
  <2> QED
    BY <2>1, <2>4, CollapseSat DEF k
<1> QED
  BY <1>3 DEF Remembered, k

(* The edges still stand for every constraint. *)
LEMMA CollapseRepresented ==
  ASSUME NEW h, GraphOK(h), NEW into, MergeOK(h, into),
         NEW cs \in SUBSET Constraints(prog), Represented(h, cs)
  PROVE  Represented(collapseNodes(h, into), cs)
<1> DEFINE k == collapseNodes(h, into)
<1>0. /\ h.rep \in [Node -> Node] /\ h.load \in [Node -> SUBSET Node] /\ h.store \in [Node -> SUBSET Node]
  BY DEF GraphOK, Graphs
<1>1. /\ \A m \in Node : k.rep[m] = into[h.rep[m]]
      /\ \A x \in Node : /\ h.pts[x] \subseteq k.pts[into[x]]
                         /\ h.load[x] \subseteq k.load[into[x]] /\ h.store[x] \subseteq k.store[into[x]]
  BY CollapseFacts
<1>l. \A a, b \in Node : Linked(h, a, b) => Linked(k, into[a], into[b])
  BY CollapseLinked
<1> HIDE DEF k
<1>2. ASSUME NEW c \in cs
      PROVE  /\ c.type = "addr_of" => c.src \in k.pts[k.rep[c.dest]]
             /\ c.type = "copy" => Linked(k, k.rep[c.src], k.rep[c.dest])
             /\ c.type = "load" => \E d \in k.load[k.rep[c.src]] : k.rep[d] = k.rep[c.dest]
             /\ c.type = "store" => \E s \in k.store[k.rep[c.dest]] : k.rep[s] = k.rep[c.src]
  <2>0. c.src \in Node /\ c.dest \in Node /\ h.rep[c.src] \in Node /\ h.rep[c.dest] \in Node
    BY <1>0 DEF Constraints, Node
  <2>r. /\ c.type = "addr_of" => c.src \in h.pts[h.rep[c.dest]]
        /\ c.type = "copy" => Linked(h, h.rep[c.src], h.rep[c.dest])
        /\ c.type = "load" => \E d \in h.load[h.rep[c.src]] : h.rep[d] = h.rep[c.dest]
        /\ c.type = "store" => \E s \in h.store[h.rep[c.dest]] : h.rep[s] = h.rep[c.src]
    BY DEF Represented
  <2>1. c.type = "addr_of" => c.src \in k.pts[k.rep[c.dest]]
    BY <1>1, <2>0, <2>r
  <2>2. c.type = "copy" => Linked(k, k.rep[c.src], k.rep[c.dest])
    BY <1>1, <1>l, <2>0, <2>r
  <2>3. ASSUME c.type = "load" PROVE \E d \in k.load[k.rep[c.src]] : k.rep[d] = k.rep[c.dest]
    <3>1. PICK d \in h.load[h.rep[c.src]] : h.rep[d] = h.rep[c.dest]
      BY <2>3, <2>r
    <3>2. d \in Node /\ d \in k.load[k.rep[c.src]]
      BY <1>0, <1>1, <2>0, <3>1
    <3> QED
      BY <1>1, <2>0, <3>1, <3>2
  <2>4. ASSUME c.type = "store" PROVE \E s \in k.store[k.rep[c.dest]] : k.rep[s] = k.rep[c.src]
    <3>1. PICK s \in h.store[h.rep[c.dest]] : h.rep[s] = h.rep[c.src]
      BY <2>4, <2>r
    <3>2. s \in Node /\ s \in k.store[k.rep[c.dest]]
      BY <1>0, <1>1, <2>0, <3>1
    <3> QED
      BY <1>1, <2>0, <3>1, <3>2
  <2> QED
    BY <2>1, <2>2, <2>3, <2>4
<1> QED
  BY <1>2 DEF Represented, k

(* Merging nodes with the same solution adds nothing it does not justify. *)
LEMMA CollapseJustified ==
  ASSUME NEW h, GraphOK(h), NEW into, MergeOK(h, into),
         NEW L, JustifiedBy(h, L), \A x \in Node : L[into[x]] = L[x]
  PROVE  JustifiedBy(collapseNodes(h, into), L)
<1> DEFINE k == collapseNodes(h, into)
<1>0. /\ h.rep \in [Node -> Node] /\ into \in [Node -> Node]
  BY DEF GraphOK, Graphs, MergeOK
<1>1. /\ \A m \in Node : k.rep[m] = into[h.rep[m]]
      /\ \A n \in Node : /\ \A y \in k.pts[n] : \E x \in Node : into[x] = n /\ y \in h.pts[x]
                         /\ \A y \in k.copy[n] : \E x \in Node : into[x] = n /\ y \in h.copy[x]
                         /\ \A y \in k.load[n] : \E x \in Node : into[x] = n /\ y \in h.load[x]
                         /\ \A y \in k.store[n] : \E x \in Node : into[x] = n /\ y \in h.store[x]
  BY CollapseFacts
<1> HIDE DEF k
<1>2. /\ \A n \in Node : h.pts[n] \subseteq L[n] /\ L[h.rep[n]] = L[n]
      /\ \A n \in Node : \A d \in h.copy[n] : L[n] \subseteq L[d]
      /\ \A n \in Node : \A d \in h.load[n], v \in L[n] : L[v] \subseteq L[d]
      /\ \A n \in Node : \A s \in h.store[n], v \in L[n] : L[s] \subseteq L[v]
  BY DEF JustifiedBy
<1>3. \A n \in Node : k.pts[n] \subseteq L[n]
  BY <1>1, <1>2
<1>4. ASSUME NEW n \in Node PROVE L[k.rep[n]] = L[n]
  <2>1. h.rep[n] \in Node /\ k.rep[n] = into[h.rep[n]]
    BY <1>0, <1>1
  <2>2. L[into[h.rep[n]]] = L[h.rep[n]]
    BY <2>1
  <2> QED
    BY <1>2, <2>1, <2>2
<1>5. \A n \in Node : \A d \in k.copy[n] : L[n] \subseteq L[d]
  BY <1>1, <1>2
<1>6. \A n \in Node : \A d \in k.load[n], v \in L[n] : L[v] \subseteq L[d]
  <2> SUFFICES ASSUME NEW n \in Node, NEW d \in k.load[n], NEW v \in L[n] PROVE L[v] \subseteq L[d]
    OBVIOUS
  <2>1. PICK x \in Node : into[x] = n /\ d \in h.load[x]
    BY <1>1
  <2>2. v \in L[x]
    BY <2>1
  <2> QED
    BY <1>2, <2>1, <2>2
<1>7. \A n \in Node : \A s \in k.store[n], v \in L[n] : L[s] \subseteq L[v]
  <2> SUFFICES ASSUME NEW n \in Node, NEW s \in k.store[n], NEW v \in L[n] PROVE L[s] \subseteq L[v]
    OBVIOUS
  <2>1. PICK x \in Node : into[x] = n /\ s \in h.store[x]
    BY <1>1
  <2>2. v \in L[x]
    BY <2>1
  <2> QED
    BY <1>2, <2>1, <2>2
<1> QED
  BY <1>3, <1>4, <1>5, <1>6, <1>7 DEF JustifiedBy, k

(* The solution grows. *)
LEMMA CollapseGrows ==
  ASSUME NEW h, GraphOK(h), NEW into, MergeOK(h, into), NEW n \in Node
  PROVE  SolutionOf(h)[n] \subseteq SolutionOf(collapseNodes(h, into))[n]
<1> DEFINE k == collapseNodes(h, into)
<1>1. /\ \A m \in Node : k.rep[m] = into[h.rep[m]]
      /\ \A x \in Node : h.pts[x] \subseteq k.pts[into[x]]
  BY CollapseFacts
<1> HIDE DEF k
<1>2. h.rep[n] \in Node
  BY DEF GraphOK, Graphs
<1>3. h.pts[h.rep[n]] \subseteq k.pts[k.rep[n]]
  BY <1>1, <1>2
<1> QED
  BY <1>3 DEF SolutionOf, k

(* A node may be taken off the list of those to look at again when another *)
(* one that stands for the same is on it.                                  *)
LEMMA RememberedWeaken ==
  ASSUME NEW h, NEW W, NEW V, Remembered(h, W),
         \A m \in W : \E x \in V : h.rep[x] = h.rep[m]
  PROVE  Remembered(h, V)
  BY DEF Remembered

-----------------------------------------------------------------------------
(* Passing the points-to set of a node along its edges. *)

(* The copy edges of n, those just added included. *)
CopyOf(h, node, n) == h.copy[n] \cup Successors(NewCopyEdges(h, node), {n})

(* What Propagate does to the graph, field by field. *)
Passed(h, node) ==
  /\ g'.rep = h.rep
  /\ \A n \in Node : g'.pts[n] =
       IF \E d \in CopyOf(h, node, node) : h.rep[d] # node /\ h.rep[d] = n
       THEN h.pts[n] \cup h.pts[node] ELSE h.pts[n]
  /\ \A n \in Node : n # node =>
       /\ g'.copy[n] = CopyOf(h, node, n)
       /\ g'.load[n] = h.load[n] /\ g'.store[n] = h.store[n]
  /\ g'.copy[node] = {IF h.rep[d] = node THEN d ELSE h.rep[d] : d \in CopyOf(h, node, node)}
  /\ g'.load[node] = {h.rep[d] : d \in h.load[node]}
  /\ g'.store[node] = {h.rep[d] : d \in h.store[node]}
  /\ g'.pts \in [Node -> SUBSET Node] /\ g'.copy = [n \in Node |-> g'.copy[n]]
  /\ g'.load = [n \in Node |-> g'.load[n]] /\ g'.store = [n \in Node |-> g'.store[n]]
  /\ g' = [rep |-> g'.rep, pts |-> g'.pts, copy |-> g'.copy, load |-> g'.load, store |-> g'.store]

(* Passed says so. *)
LEMMA PropagateFacts ==
  ASSUME NEW h, GraphOK(h), NEW node \in Node, h.rep[node] = node, Propagate(h, node)
  PROVE  Passed(h, node)
<1>0. /\ h \in Graphs
      /\ h.rep \in [Node -> Node] /\ h.pts \in [Node -> SUBSET Node] /\ h.copy \in [Node -> SUBSET Node]
      /\ h.load \in [Node -> SUBSET Node] /\ h.store \in [Node -> SUBSET Node]
  BY DEF GraphOK, Graphs
<1> DEFINE copy == [n \in Node |-> CopyOf(h, node, n)]
           targets == {h.rep[d] : d \in {x \in copy[node] : h.rep[x] # node}}
           pts == [n \in Node |-> IF n \in targets THEN h.pts[n] \cup h.pts[node] ELSE h.pts[n]]
           copies == [copy EXCEPT ![node] = {IF h.rep[d] = node THEN d ELSE h.rep[d] : d \in @}]
           loads == [h.load EXCEPT ![node] = {h.rep[d] : d \in @}]
           stores == [h.store EXCEPT ![node] = {h.rep[d] : d \in @}]
<1>1. g' = [h EXCEPT !.pts = pts, !.copy = copies, !.load[node] = {h.rep[d] : d \in @},
                     !.store[node] = {h.rep[d] : d \in @}]
  BY DEF Propagate, CopyOf
<1>t. \A n : n \in targets <=> \E d \in CopyOf(h, node, node) : h.rep[d] # node /\ h.rep[d] = n
  OBVIOUS
<1>c. /\ copies = [n \in Node |-> copies[n]] /\ \A n \in Node : n # node => copies[n] = CopyOf(h, node, n)
      /\ copies[node] = {IF h.rep[d] = node THEN d ELSE h.rep[d] : d \in CopyOf(h, node, node)}
  OBVIOUS
<1>l. /\ loads = [n \in Node |-> loads[n]] /\ \A n \in Node : n # node => loads[n] = h.load[n]
      /\ loads[node] = {h.rep[d] : d \in h.load[node]}
  BY <1>0
<1>s. /\ stores = [n \in Node |-> stores[n]] /\ \A n \in Node : n # node => stores[n] = h.store[n]
      /\ stores[node] = {h.rep[d] : d \in h.store[node]}
  BY <1>0
<1>p. /\ pts \in [Node -> SUBSET Node]
      /\ \A n \in Node : pts[n] = IF \E d \in CopyOf(h, node, node) : h.rep[d] # node /\ h.rep[d] = n
                                  THEN h.pts[n] \cup h.pts[node] ELSE h.pts[n]
  <2> HIDE DEF targets
  <2>1. \A n \in Node : pts[n] = IF n \in targets THEN h.pts[n] \cup h.pts[node] ELSE h.pts[n]
    OBVIOUS
  <2>2. pts \in [Node -> SUBSET Node]
    BY <1>0
  <2> HIDE DEF pts
  <2> QED
    BY <1>t, <2>1, <2>2
<1>2. g' = [rep |-> h.rep, pts |-> pts, copy |-> copies, load |-> loads, store |-> stores]
  <2> HIDE DEF pts, copies
  <2> QED
    BY <1>0, <1>1 DEF Graphs
<1> HIDE DEF pts, copies, loads, stores, copy, targets
<1>3. g'.rep = h.rep /\ g'.pts = pts /\ g'.copy = copies /\ g'.load = loads /\ g'.store = stores
  BY <1>2
<1>4. g' = [rep |-> g'.rep, pts |-> g'.pts, copy |-> g'.copy, load |-> g'.load, store |-> g'.store]
  BY <1>2, <1>3
<1> QED
  BY <1>3, <1>4, <1>c, <1>l, <1>s, <1>p DEF Passed

(* The edges of a graph Propagate makes lead to the nodes they did, and    *)
(* the new ones where they should.                                         *)
LEMMA PropagateEdges ==
  ASSUME NEW h, GraphOK(h), NEW node \in Node, h.rep[node] = node, Propagate(h, node)
  PROVE  /\ \A n \in Node : CopyOf(h, node, n) \subseteq Node
         /\ \A n \in Node : \A d \in CopyOf(h, node, n) : \E c \in g'.copy[n] : h.rep[c] = h.rep[d]
         /\ \A n \in Node : \A c \in g'.copy[n] :
              c \in Node /\ \E d \in CopyOf(h, node, n) : h.rep[c] = h.rep[d]
         /\ \A n \in Node : \A d \in h.load[n] : \E c \in g'.load[n] : h.rep[c] = h.rep[d]
         /\ \A n \in Node : \A c \in g'.load[n] : c \in Node /\ \E d \in h.load[n] : h.rep[c] = h.rep[d]
         /\ \A n \in Node : \A d \in h.store[n] : \E c \in g'.store[n] : h.rep[c] = h.rep[d]
         /\ \A n \in Node : \A c \in g'.store[n] : c \in Node /\ \E d \in h.store[n] : h.rep[c] = h.rep[d]
         /\ GraphOK(g')
<1>0. /\ h.rep \in [Node -> Node] /\ h.pts \in [Node -> SUBSET Node] /\ h.copy \in [Node -> SUBSET Node]
      /\ h.load \in [Node -> SUBSET Node] /\ h.store \in [Node -> SUBSET Node]
      /\ \A n \in Node : h.rep[h.rep[n]] = h.rep[n]
  BY DEF GraphOK, Graphs
<1>p. Passed(h, node)
  BY PropagateFacts
<1>1. \A n \in Node : n # node =>
         g'.copy[n] = CopyOf(h, node, n) /\ g'.load[n] = h.load[n] /\ g'.store[n] = h.store[n]
  BY <1>p DEF Passed
<1>2. /\ g'.copy[node] = {IF h.rep[d] = node THEN d ELSE h.rep[d] : d \in CopyOf(h, node, node)}
      /\ g'.load[node] = {h.rep[d] : d \in h.load[node]}
      /\ g'.store[node] = {h.rep[d] : d \in h.store[node]}
  BY <1>p DEF Passed
<1>3. \A n \in Node : CopyOf(h, node, n) \subseteq Node
  <2>1. \A e \in NewCopyEdges(h, node) : e[2] \in Node
    <3>1. \A v \in h.pts[node], d \in h.load[node] : <<h.rep[v], h.rep[d]>>[2] \in Node
      BY <1>0
    <3>2. \A v \in h.pts[node], s \in h.store[node] : <<h.rep[s], h.rep[v]>>[2] \in Node
      BY <1>0
    <3> QED
      BY <3>1, <3>2 DEF NewCopyEdges
  <2> QED
    BY <1>0, <2>1 DEF CopyOf, Successors
<1>4. ASSUME NEW n \in Node, NEW d \in CopyOf(h, node, n)
      PROVE  \E c \in g'.copy[n] : h.rep[c] = h.rep[d]
  <2>1. CASE n # node
    BY <1>1, <2>1
  <2>2. CASE n = node
    <3>1. (IF h.rep[d] = node THEN d ELSE h.rep[d]) \in g'.copy[n]
      BY <1>2, <2>2
    <3> QED
      BY <1>0, <1>3, <3>1
  <2> QED
    BY <2>1, <2>2
<1>5. ASSUME NEW n \in Node, NEW c \in g'.copy[n]
      PROVE  c \in Node /\ \E d \in CopyOf(h, node, n) : h.rep[c] = h.rep[d]
  <2>1. CASE n # node
    BY <1>1, <1>3, <2>1
  <2>2. CASE n = node
    <3>1. PICK d \in CopyOf(h, node, node) : c = IF h.rep[d] = node THEN d ELSE h.rep[d]
      BY <1>2, <2>2
    <3>2. d \in Node
      BY <1>3
    <3> QED
      BY <1>0, <2>2, <3>1, <3>2
  <2> QED
    BY <2>1, <2>2
<1>6. ASSUME NEW n \in Node, NEW d \in h.load[n] PROVE \E c \in g'.load[n] : h.rep[c] = h.rep[d]
  <2>1. CASE n # node
    BY <1>1, <2>1
  <2>2. CASE n = node
    BY <1>0, <1>2, <2>2
  <2> QED
    BY <2>1, <2>2
<1>7. ASSUME NEW n \in Node, NEW c \in g'.load[n] PROVE c \in Node /\ \E d \in h.load[n] : h.rep[c] = h.rep[d]
  <2>1. CASE n # node
    BY <1>0, <1>1, <2>1
  <2>2. CASE n = node
    BY <1>0, <1>2, <2>2
  <2> QED
    BY <2>1, <2>2
<1>8. ASSUME NEW n \in Node, NEW d \in h.store[n] PROVE \E c \in g'.store[n] : h.rep[c] = h.rep[d]
  <2>1. CASE n # node
    BY <1>1, <2>1
  <2>2. CASE n = node
    BY <1>0, <1>2, <2>2
  <2> QED
    BY <2>1, <2>2
<1>9. ASSUME NEW n \in Node, NEW c \in g'.store[n] PROVE c \in Node /\ \E d \in h.store[n] : h.rep[c] = h.rep[d]
  <2>1. CASE n # node
    BY <1>0, <1>1, <2>1
  <2>2. CASE n = node
    BY <1>0, <1>2, <2>2
  <2> QED
    BY <2>1, <2>2
<1>10. GraphOK(g')
  <2>1. /\ g'.rep = h.rep /\ g'.pts \in [Node -> SUBSET Node]
        /\ g'.copy = [n \in Node |-> g'.copy[n]] /\ g'.load = [n \in Node |-> g'.load[n]]
        /\ g'.store = [n \in Node |-> g'.store[n]]
        /\ g' = [rep |-> g'.rep, pts |-> g'.pts, copy |-> g'.copy, load |-> g'.load, store |-> g'.store]
    BY <1>p DEF Passed
  <2>f. \A n \in Node : g'.copy[n] \subseteq Node /\ g'.load[n] \subseteq Node /\ g'.store[n] \subseteq Node
    BY <1>5, <1>7, <1>9
  <2>2. g'.copy \in [Node -> SUBSET Node] /\ g'.load \in [Node -> SUBSET Node] /\ g'.store \in [Node -> SUBSET Node]
    BY <2>1, <2>f
  <2>3. g' \in Graphs
    BY <1>0, <2>1, <2>2 DEF Graphs
  <2> QED
    BY <1>0, <2>1, <2>3 DEF GraphOK
<1> QED
  BY <1>3, <1>4, <1>5, <1>6, <1>7, <1>8, <1>9, <1>10

(* A node that gets a copy edge or more to point to is to be looked at     *)
(* again, and the copy edges the loads and stores of the node need are     *)
(* there.                                                                  *)
LEMMA PropagateChanges ==
  ASSUME NEW h, GraphOK(h), NEW node \in Node, h.rep[node] = node, Propagate(h, node)
  PROVE  /\ \A n \in Node : CopyOf(h, node, n) # h.copy[n] => n \in next'
         /\ \A n \in Node : g'.pts[n] # h.pts[n] => n \in next'
         /\ \A v \in h.pts[node], d \in h.load[node] : h.rep[d] \in CopyOf(h, node, h.rep[v])
         /\ \A v \in h.pts[node], s \in h.store[node] : h.rep[v] \in CopyOf(h, node, h.rep[s])
         /\ \A n \in Node : h.pts[n] \subseteq g'.pts[n]
         /\ g'.pts[node] = h.pts[node]
         /\ \A d \in CopyOf(h, node, node) : h.pts[node] \subseteq g'.pts[h.rep[d]]
         /\ \A n \in Node : \A y \in g'.pts[n] :
              y \in h.pts[n] \/ \E d \in CopyOf(h, node, node) : h.rep[d] = n /\ y \in h.pts[node]
<1>0. /\ h.rep \in [Node -> Node] /\ h.pts \in [Node -> SUBSET Node] /\ h.copy \in [Node -> SUBSET Node]
      /\ h.load \in [Node -> SUBSET Node] /\ h.store \in [Node -> SUBSET Node]
  BY DEF GraphOK, Graphs
<1>p. Passed(h, node)
  BY PropagateFacts
<1>1. \A n \in Node : g'.pts[n] =
        IF \E d \in CopyOf(h, node, node) : h.rep[d] # node /\ h.rep[d] = n
        THEN h.pts[n] \cup h.pts[node] ELSE h.pts[n]
  BY <1>p DEF Passed
<1>k. \A n \in Node : CopyOf(h, node, n) \subseteq Node
  BY PropagateEdges
<1>2. ASSUME NEW n \in Node, CopyOf(h, node, n) # h.copy[n] PROVE n \in next'
  <2>1. PICK e \in NewCopyEdges(h, node) : e[1] = n /\ e[2] \notin h.copy[n]
    BY <1>2 DEF CopyOf, Successors
  <2>2. n \in EdgeSources(h, NewCopyEdges(h, node))
    BY <2>1 DEF EdgeSources
  <2>3. EdgeSources(h, NewCopyEdges(h, node)) \subseteq next'
    BY DEF Propagate
  <2> QED
    BY <2>2, <2>3
<1>3. ASSUME NEW n \in Node, g'.pts[n] # h.pts[n] PROVE n \in next'
  <2>1. PICK d \in CopyOf(h, node, node) : h.rep[d] # node /\ h.rep[d] = n
    BY <1>1, <1>3
  <2>2. ~ h.pts[node] \subseteq h.pts[n]
    <3>1. g'.pts[n] = h.pts[n] \cup h.pts[node]
      BY <1>1, <2>1
    <3> QED
      BY <1>3, <3>1
  <2> DEFINE copy == [m \in Node |-> h.copy[m] \cup Successors(NewCopyEdges(h, node), {m})]
             targets == {h.rep[x] : x \in {y \in copy[node] : h.rep[y] # node}}
             changed == {t \in targets : ~ h.pts[node] \subseteq h.pts[t]}
  <2>3. copy[node] = CopyOf(h, node, node)
    BY DEF CopyOf
  <2>4. n \in targets
    <3> HIDE DEF copy
    <3> QED
      BY <2>1, <2>3
  <2>5. changed \subseteq next'
    BY DEF Propagate
  <2> QED
    BY <2>2, <2>4, <2>5
<1>4. ASSUME NEW v \in h.pts[node], NEW d \in h.load[node] PROVE h.rep[d] \in CopyOf(h, node, h.rep[v])
  <2> DEFINE e == <<h.rep[v], h.rep[d]>>
  <2>1. e \in NewCopyEdges(h, node) /\ e[1] = h.rep[v] /\ e[2] = h.rep[d]
    BY DEF NewCopyEdges
  <2> HIDE DEF e
  <2> QED
    BY <2>1 DEF CopyOf, Successors
<1>5. ASSUME NEW v \in h.pts[node], NEW s \in h.store[node] PROVE h.rep[v] \in CopyOf(h, node, h.rep[s])
  <2> DEFINE e == <<h.rep[s], h.rep[v]>>
  <2>1. e \in NewCopyEdges(h, node) /\ e[1] = h.rep[s] /\ e[2] = h.rep[v]
    BY DEF NewCopyEdges
  <2> HIDE DEF e
  <2> QED
    BY <2>1 DEF CopyOf, Successors
<1>6. \A n \in Node : h.pts[n] \subseteq g'.pts[n]
  BY <1>1
<1>7. g'.pts[node] = h.pts[node]
  BY <1>1
<1>8. ASSUME NEW d \in CopyOf(h, node, node) PROVE h.pts[node] \subseteq g'.pts[h.rep[d]]
  <2>1. d \in Node /\ h.rep[d] \in Node
    BY <1>0, <1>k
  <2>2. CASE h.rep[d] = node
    BY <1>7, <2>2
  <2>3. CASE h.rep[d] # node
    BY <1>1, <2>1, <2>3
  <2> QED
    BY <2>2, <2>3
<1>9. ASSUME NEW n \in Node, NEW y \in g'.pts[n], y \notin h.pts[n]
      PROVE  \E d \in CopyOf(h, node, node) : h.rep[d] = n /\ y \in h.pts[node]
  BY <1>1, <1>9
<1> QED
  BY <1>2, <1>3, <1>4, <1>5, <1>6, <1>7, <1>8, <1>9

(* Once its points-to set is passed on, the node carries it; the others    *)
(* still do, or are to be looked at again.                                 *)
LEMMA PropagateRemembered ==
  ASSUME NEW h, GraphOK(h), NEW node \in Node, h.rep[node] = node, Propagate(h, node),
         NEW W, Remembered(h, W), NEW V, next' \subseteq V,
         \A m \in W : h.rep[m] = node \/ m \in V
  PROVE  Remembered(g', V)
<1>0. /\ h.rep \in [Node -> Node] /\ h.pts \in [Node -> SUBSET Node] /\ h.copy \in [Node -> SUBSET Node]
      /\ h.load \in [Node -> SUBSET Node] /\ h.store \in [Node -> SUBSET Node]
      /\ \A n \in Node : h.rep[h.rep[n]] = h.rep[n]
  BY DEF GraphOK, Graphs
<1>p. Passed(h, node)
  BY PropagateFacts
<1>r. g'.rep = h.rep
  BY <1>p DEF Passed
<1>1. /\ \A n \in Node : CopyOf(h, node, n) \subseteq Node
      /\ \A n \in Node : \A d \in CopyOf(h, node, n) : \E c \in g'.copy[n] : h.rep[c] = h.rep[d]
      /\ \A n \in Node : \A c \in g'.copy[n] :
              c \in Node /\ \E d \in CopyOf(h, node, n) : h.rep[c] = h.rep[d]
      /\ \A n \in Node : \A c \in g'.load[n] : c \in Node /\ \E d \in h.load[n] : h.rep[c] = h.rep[d]
      /\ \A n \in Node : \A c \in g'.store[n] : c \in Node /\ \E d \in h.store[n] : h.rep[c] = h.rep[d]
  BY PropagateEdges
<1>2. /\ \A n \in Node : CopyOf(h, node, n) # h.copy[n] => n \in next'
      /\ \A n \in Node : g'.pts[n] # h.pts[n] => n \in next'
      /\ \A n \in Node : h.pts[n] \subseteq g'.pts[n]
  BY PropagateChanges
<1>3. /\ \A v \in h.pts[node], d \in h.load[node] : h.rep[d] \in CopyOf(h, node, h.rep[v])
      /\ \A v \in h.pts[node], s \in h.store[node] : h.rep[v] \in CopyOf(h, node, h.rep[s])
      /\ g'.pts[node] = h.pts[node]
      /\ \A d \in CopyOf(h, node, node) : h.pts[node] \subseteq g'.pts[h.rep[d]]
  BY PropagateChanges
<1>4. Sat(g', node)
  <2>1. ASSUME NEW c \in g'.copy[node] PROVE g'.pts[node] \subseteq g'.pts[g'.rep[c]]
    <3>1. PICK d \in CopyOf(h, node, node) : h.rep[c] = h.rep[d]
      BY <1>1
    <3> QED
      BY <1>3, <1>r, <3>1
  <2>2. ASSUME NEW v \in g'.pts[node], NEW c \in g'.load[node] PROVE Linked(g', g'.rep[v], g'.rep[c])
    <3>1. PICK d \in h.load[node] : h.rep[c] = h.rep[d]
      BY <1>1
    <3>2. v \in h.pts[node] /\ v \in Node /\ h.rep[v] \in Node /\ d \in Node
      BY <1>0, <1>3
    <3>3. h.rep[d] \in CopyOf(h, node, h.rep[v])
      BY <1>3, <3>2
    <3>4. PICK x \in g'.copy[h.rep[v]] : h.rep[x] = h.rep[h.rep[d]]
      BY <1>1, <3>2, <3>3
    <3>5. h.rep[x] = h.rep[c]
      BY <1>0, <3>1, <3>2, <3>4
    <3> QED
      BY <1>r, <3>5 DEF Linked
  <2>3. ASSUME NEW v \in g'.pts[node], NEW c \in g'.store[node] PROVE Linked(g', g'.rep[c], g'.rep[v])
    <3>1. PICK s \in h.store[node] : h.rep[c] = h.rep[s]
      BY <1>1
    <3>2. v \in h.pts[node] /\ v \in Node /\ h.rep[s] \in Node /\ s \in Node
      BY <1>0, <1>3
    <3>3. h.rep[v] \in CopyOf(h, node, h.rep[s])
      BY <1>3, <3>2
    <3>4. PICK x \in g'.copy[h.rep[s]] : h.rep[x] = h.rep[h.rep[v]]
      BY <1>1, <3>2, <3>3
    <3>5. h.rep[x] = h.rep[v]
      BY <1>0, <3>2, <3>4
    <3> QED
      BY <1>r, <3>1, <3>5 DEF Linked
  <2> QED
    BY <2>1, <2>2, <2>3 DEF Sat
<1>5. ASSUME NEW a \in Node, NEW b \in Node, Linked(h, a, b) PROVE Linked(g', a, b)
  <2>1. CASE a = b
    BY <2>1 DEF Linked
  <2>2. CASE a # b
    <3>1. PICK c \in h.copy[a] : h.rep[c] = b
      BY <1>5, <2>2 DEF Linked
    <3>2. c \in CopyOf(h, node, a)
      BY DEF CopyOf
    <3> QED
      BY <1>1, <1>r, <3>1, <3>2 DEF Linked
  <2> QED
    BY <2>1, <2>2
<1>6. ASSUME NEW m \in Node, m # node, m \notin next', Sat(h, m) PROVE Sat(g', m)
  <2>1. CopyOf(h, node, m) = h.copy[m] /\ g'.pts[m] = h.pts[m]
    BY <1>2, <1>6
  <2>2. ASSUME NEW c \in g'.copy[m] PROVE g'.pts[m] \subseteq g'.pts[g'.rep[c]]
    <3>1. PICK d \in h.copy[m] : h.rep[c] = h.rep[d]
      BY <1>1, <2>1
    <3>2. h.pts[m] \subseteq h.pts[h.rep[d]] /\ h.rep[d] \in Node
      BY <1>0, <1>6 DEF Sat
    <3> QED
      BY <1>2, <1>r, <2>1, <3>1, <3>2
  <2>3. ASSUME NEW v \in g'.pts[m], NEW c \in g'.load[m] PROVE Linked(g', g'.rep[v], g'.rep[c])
    <3>1. PICK d \in h.load[m] : h.rep[c] = h.rep[d]
      BY <1>1
    <3>2. Linked(h, h.rep[v], h.rep[d]) /\ h.rep[d] \in Node /\ h.rep[v] \in Node
      BY <1>0, <1>6, <2>1 DEF Sat
    <3> QED
      BY <1>5, <1>r, <3>1, <3>2
  <2>4. ASSUME NEW v \in g'.pts[m], NEW c \in g'.store[m] PROVE Linked(g', g'.rep[c], g'.rep[v])
    <3>1. PICK s \in h.store[m] : h.rep[c] = h.rep[s]
      BY <1>1
    <3>2. Linked(h, h.rep[s], h.rep[v]) /\ h.rep[s] \in Node /\ h.rep[v] \in Node
      BY <1>0, <1>6, <2>1 DEF Sat
    <3> QED
      BY <1>5, <1>r, <3>1, <3>2
  <2> QED
    BY <2>2, <2>3, <2>4 DEF Sat
<1>7. ASSUME NEW m \in Node, g'.rep[m] = m PROVE Sat(g', m) \/ \E x \in V : g'.rep[x] = m
  <2>1. CASE m = node
    BY <1>4, <2>1
  <2>2. CASE m \in next'
    BY <1>7, <2>2
  <2>3. CASE m # node /\ m \notin next' /\ Sat(h, m)
    BY <1>6, <2>3
  <2>4. CASE m # node /\ ~ Sat(h, m)
    <3>1. PICK x \in W : h.rep[x] = m
      BY <1>7, <1>r, <2>4 DEF Remembered
    <3> QED
      BY <1>r, <2>4, <3>1
  <2> QED
    BY <2>1, <2>2, <2>3, <2>4
<1> QED
  BY <1>7 DEF Remembered

(* The edges still stand for every constraint. *)
LEMMA PropagateRepresented ==
  ASSUME NEW h, GraphOK(h), NEW node \in Node, h.rep[node] = node, Propagate(h, node),
         NEW cs \in SUBSET Constraints(prog), Represented(h, cs)
  PROVE  Represented(g', cs)
<1>0. h.rep \in [Node -> Node]
  BY DEF GraphOK, Graphs
<1>p. Passed(h, node)
  BY PropagateFacts
<1>r. g'.rep = h.rep
  BY <1>p DEF Passed
<1>1. /\ \A n \in Node : \A d \in CopyOf(h, node, n) : \E c \in g'.copy[n] : h.rep[c] = h.rep[d]
      /\ \A n \in Node : \A d \in h.load[n] : \E c \in g'.load[n] : h.rep[c] = h.rep[d]
      /\ \A n \in Node : \A d \in h.store[n] : \E c \in g'.store[n] : h.rep[c] = h.rep[d]
  BY PropagateEdges
<1>2. \A n \in Node : h.pts[n] \subseteq g'.pts[n]
  BY PropagateChanges
<1>3. ASSUME NEW c \in cs
      PROVE  /\ c.type = "addr_of" => c.src \in g'.pts[g'.rep[c.dest]]
             /\ c.type = "copy" => Linked(g', g'.rep[c.src], g'.rep[c.dest])
             /\ c.type = "load" => \E d \in g'.load[g'.rep[c.src]] : g'.rep[d] = g'.rep[c.dest]
             /\ c.type = "store" => \E s \in g'.store[g'.rep[c.dest]] : g'.rep[s] = g'.rep[c.src]
  <2>0. c.src \in Node /\ c.dest \in Node /\ h.rep[c.src] \in Node /\ h.rep[c.dest] \in Node
    BY <1>0 DEF Constraints, Node
  <2>r. /\ c.type = "addr_of" => c.src \in h.pts[h.rep[c.dest]]
        /\ c.type = "copy" => Linked(h, h.rep[c.src], h.rep[c.dest])
        /\ c.type = "load" => \E d \in h.load[h.rep[c.src]] : h.rep[d] = h.rep[c.dest]
        /\ c.type = "store" => \E s \in h.store[h.rep[c.dest]] : h.rep[s] = h.rep[c.src]
    BY DEF Represented
  <2>1. c.type = "addr_of" => c.src \in g'.pts[g'.rep[c.dest]]
    BY <1>2, <1>r, <2>0, <2>r
  <2>2. ASSUME c.type = "copy" PROVE Linked(g', g'.rep[c.src], g'.rep[c.dest])
    <3>1. CASE h.rep[c.src] = h.rep[c.dest]
      BY <1>r, <3>1 DEF Linked
    <3>2. CASE h.rep[c.src] # h.rep[c.dest]
      <4>1. PICK d \in h.copy[h.rep[c.src]] : h.rep[d] = h.rep[c.dest]
        BY <2>2, <2>r, <3>2 DEF Linked
      <4>2. d \in CopyOf(h, node, h.rep[c.src])
        BY DEF CopyOf
      <4> QED
        BY <1>1, <1>r, <2>0, <4>1, <4>2 DEF Linked
    <3> QED
      BY <3>1, <3>2
  <2>3. c.type = "load" => \E d \in g'.load[g'.rep[c.src]] : g'.rep[d] = g'.rep[c.dest]
    BY <1>1, <1>r, <2>0, <2>r
  <2>4. c.type = "store" => \E s \in g'.store[g'.rep[c.dest]] : g'.rep[s] = g'.rep[c.src]
    BY <1>1, <1>r, <2>0, <2>r
  <2> QED
    BY <2>1, <2>2, <2>3, <2>4
<1> QED
  BY <1>3 DEF Represented

(* The new edges, and what goes along them, are justified by the solution  *)
(* when the old ones were.                                                 *)
LEMMA PropagateJustified ==
  ASSUME NEW h, GraphOK(h), NEW node \in Node, h.rep[node] = node, Propagate(h, node),
         NEW L, JustifiedBy(h, L)
  PROVE  JustifiedBy(g', L)
<1>0. /\ h.rep \in [Node -> Node] /\ h.pts \in [Node -> SUBSET Node]
      /\ h.load \in [Node -> SUBSET Node] /\ h.store \in [Node -> SUBSET Node]
  BY DEF GraphOK, Graphs
<1>p. Passed(h, node)
  BY PropagateFacts
<1>r. g'.rep = h.rep
  BY <1>p DEF Passed
<1>1. /\ \A n \in Node : CopyOf(h, node, n) \subseteq Node
      /\ \A n \in Node : \A c \in g'.copy[n] :
              c \in Node /\ \E d \in CopyOf(h, node, n) : h.rep[c] = h.rep[d]
      /\ \A n \in Node : \A c \in g'.load[n] : c \in Node /\ \E d \in h.load[n] : h.rep[c] = h.rep[d]
      /\ \A n \in Node : \A c \in g'.store[n] : c \in Node /\ \E d \in h.store[n] : h.rep[c] = h.rep[d]
  BY PropagateEdges
<1>2. \A n \in Node : \A y \in g'.pts[n] :
         y \in h.pts[n] \/ \E d \in CopyOf(h, node, node) : h.rep[d] = n /\ y \in h.pts[node]
  BY PropagateChanges
<1>3. /\ \A n \in Node : h.pts[n] \subseteq L[n] /\ L[h.rep[n]] = L[n]
      /\ \A n \in Node : \A d \in h.copy[n] : L[n] \subseteq L[d]
      /\ \A n \in Node : \A d \in h.load[n], v \in L[n] : L[v] \subseteq L[d]
      /\ \A n \in Node : \A s \in h.store[n], v \in L[n] : L[s] \subseteq L[v]
  BY DEF JustifiedBy
<1>4. ASSUME NEW n \in Node, NEW d \in CopyOf(h, node, n) PROVE L[n] \subseteq L[d]
  <2>1. CASE d \in h.copy[n]
    BY <1>3, <2>1
  <2>2. CASE d \notin h.copy[n]
    <3>1. PICK e \in NewCopyEdges(h, node) : e[1] = n /\ e[2] = d
      BY <2>2 DEF CopyOf, Successors
    <3>2. \/ \E v \in h.pts[node], x \in h.load[node] : e = <<h.rep[v], h.rep[x]>>
          \/ \E v \in h.pts[node], s \in h.store[node] : e = <<h.rep[s], h.rep[v]>>
      BY DEF NewCopyEdges
    <3>3. CASE \E v \in h.pts[node], x \in h.load[node] : e = <<h.rep[v], h.rep[x]>>
      <4>1. PICK v \in h.pts[node], x \in h.load[node] : n = h.rep[v] /\ d = h.rep[x]
        BY <3>1, <3>3
      <4>2. v \in L[node] /\ v \in Node /\ x \in Node
        BY <1>0, <1>3
      <4>3. L[v] \subseteq L[x] /\ L[n] = L[v] /\ L[d] = L[x]
        BY <1>3, <4>1, <4>2
      <4> QED
        BY <4>3
    <3>4. CASE \E v \in h.pts[node], s \in h.store[node] : e = <<h.rep[s], h.rep[v]>>
      <4>1. PICK v \in h.pts[node], s \in h.store[node] : n = h.rep[s] /\ d = h.rep[v]
        BY <3>1, <3>4
      <4>2. v \in L[node] /\ v \in Node /\ s \in Node
        BY <1>0, <1>3
      <4>3. L[s] \subseteq L[v] /\ L[n] = L[s] /\ L[d] = L[v]
        BY <1>3, <4>1, <4>2
      <4> QED
        BY <4>3
    <3> QED
      BY <3>2, <3>3, <3>4
  <2> QED
    BY <2>1, <2>2
<1>5. ASSUME NEW n \in Node, NEW y \in g'.pts[n] PROVE y \in L[n]
  <2>1. CASE y \in h.pts[n]
    BY <1>3, <2>1
  <2>2. CASE y \notin h.pts[n]
    <3>1. PICK d \in CopyOf(h, node, node) : h.rep[d] = n /\ y \in h.pts[node]
      BY <1>2, <2>2
    <3>2. d \in Node /\ L[node] \subseteq L[d] /\ L[n] = L[d] /\ y \in L[node]
      BY <1>1, <1>3, <1>4, <3>1
    <3> QED
      BY <3>2
  <2> QED
    BY <2>1, <2>2
<1>6. \A n \in Node : L[g'.rep[n]] = L[n]
  BY <1>3, <1>r
<1>7. ASSUME NEW n \in Node, NEW c \in g'.copy[n] PROVE L[n] \subseteq L[c]
  <2>1. PICK d \in CopyOf(h, node, n) : h.rep[c] = h.rep[d]
    BY <1>1
  <2>2. L[c] = L[d]
    BY <1>1, <1>3, <2>1
  <2> QED
    BY <1>4, <2>2
<1>8. ASSUME NEW n \in Node, NEW c \in g'.load[n], NEW v \in L[n] PROVE L[v] \subseteq L[c]
  <2>1. PICK d \in h.load[n] : h.rep[c] = h.rep[d]
    BY <1>1
  <2>2. L[c] = L[d] /\ L[v] \subseteq L[d]
    BY <1>0, <1>1, <1>3, <2>1
  <2> QED
    BY <2>2
<1>9. ASSUME NEW n \in Node, NEW c \in g'.store[n], NEW v \in L[n] PROVE L[c] \subseteq L[v]
  <2>1. PICK d \in h.store[n] : h.rep[c] = h.rep[d]
    BY <1>1
  <2>2. L[c] = L[d] /\ L[d] \subseteq L[v]
    BY <1>0, <1>1, <1>3, <2>1
  <2> QED
    BY <2>2
<1> QED
  BY <1>5, <1>6, <1>7, <1>8, <1>9 DEF JustifiedBy

(* The solution grows. *)
LEMMA PropagateGrows ==
  ASSUME NEW h, GraphOK(h), NEW node \in Node, h.rep[node] = node, Propagate(h, node), NEW n \in Node
  PROVE  SolutionOf(h)[n] \subseteq SolutionOf(g')[n]
<1>p. Passed(h, node)
  BY PropagateFacts
<1>r. g'.rep = h.rep
  BY <1>p DEF Passed
<1>1. h.rep[n] \in Node
  BY DEF GraphOK, Graphs
<1>2. h.pts[h.rep[n]] \subseteq g'.pts[h.rep[n]]
  BY <1>1, PropagateChanges
<1> QED
  BY <1>2, <1>r DEF SolutionOf

(* The work list and the bookkeeping of cycle detection hold nodes. *)
LEMMA PropagateTypes ==
  ASSUME NEW h, GraphOK(h), NEW node \in Node, h.rep[node] = node, Propagate(h, node),
         next \subseteq Node, cycleCandidates \subseteq Node, checkedEdges \subseteq Node \X Node
  PROVE  /\ next \subseteq next' /\ next' \subseteq Node
         /\ cycleCandidates' \subseteq Node /\ checkedEdges' \subseteq Node \X Node
<1>0. /\ h.rep \in [Node -> Node] /\ h.pts \in [Node -> SUBSET Node] /\ h.copy \in [Node -> SUBSET Node]
      /\ h.load \in [Node -> SUBSET Node] /\ h.store \in [Node -> SUBSET Node]
  BY DEF GraphOK, Graphs
<1> DEFINE new == NewCopyEdges(h, node)
           copy == [n \in Node |-> h.copy[n] \cup Successors(new, {n})]
           out == {d \in copy[node] : h.rep[d] # node}
           targets == {h.rep[d] : d \in out}
           changed == {t \in targets : ~ h.pts[node] \subseteq h.pts[t]}
           unchanged == {t \in targets :
             t \notin changed \/ \E c, d \in out : c # d /\ h.rep[c] = t /\ h.rep[d] = t}
           suspects == {t \in unchanged :
             /\ opt.lcd
             /\ <<node, t>> \notin checkedEdges
             /\ h.pts[t] \subseteq h.pts[node]}
<1>1. /\ next' = next \cup EdgeSources(h, new) \cup changed
      /\ checkedEdges' = checkedEdges \cup {<<node, t>> : t \in suspects}
      /\ cycleCandidates' = cycleCandidates \cup suspects
  BY DEF Propagate
<1>2. copy[node] = CopyOf(h, node, node) /\ copy[node] \subseteq Node
  <2>1. copy[node] = CopyOf(h, node, node)
    BY DEF CopyOf
  <2> HIDE DEF copy
  <2>2. CopyOf(h, node, node) \subseteq Node
    BY PropagateEdges
  <2> QED
    BY <2>1, <2>2
<1>3. targets \subseteq Node
  <2> HIDE DEF copy
  <2> QED
    BY <1>0, <1>2
<1>4. EdgeSources(h, new) \subseteq Node
  <2>1. ASSUME NEW e \in new PROVE e[1] \in Node
    <3>2. \/ \E v \in h.pts[node], x \in h.load[node] : e = <<h.rep[v], h.rep[x]>>
          \/ \E v \in h.pts[node], s \in h.store[node] : e = <<h.rep[s], h.rep[v]>>
      BY DEF NewCopyEdges
    <3> HIDE DEF new
    <3> QED
      BY <1>0, <3>2
  <2> QED
    BY <2>1 DEF EdgeSources
<1>5. changed \subseteq targets /\ suspects \subseteq targets
  <2> HIDE DEF targets
  <2> QED
    OBVIOUS
<1> HIDE DEF new, copy, out, targets, changed, unchanged, suspects
<1>6. checkedEdges' \subseteq Node \X Node
  BY <1>1, <1>3, <1>5
<1> QED
  BY <1>1, <1>3, <1>4, <1>5, <1>6

-----------------------------------------------------------------------------
(* Cycles. *)

(* What is reached from a node one reaches, one reaches. *)
LEMMA ReachedTransitive ==
  ASSUME NEW E, IsFiniteSet(E), NEW a, NEW b, NEW c,
         b \in ReachedFrom(E, {a}), c \in ReachedFrom(E, {b})
  PROVE  c \in ReachedFrom(E, {a})
<1>1. IsFiniteSet({a}) /\ IsFiniteSet({b})
  BY FS_Singleton
<1>2. Successors(E, ReachedFrom(E, {a})) \subseteq ReachedFrom(E, {a})
  BY <1>1, ReachedIsLeast
<1>3. ReachedFrom(E, {b}) \subseteq ReachedFrom(E, {a})
  BY <1>1, <1>2, ReachedIsLeast
<1> QED
  BY <1>3

(* A node reaches itself and the heads of its edges. *)
LEMMA ReachedStep ==
  ASSUME NEW E, IsFiniteSet(E), NEW a
  PROVE  /\ a \in ReachedFrom(E, {a})
         /\ \A e \in E : e[1] \in ReachedFrom(E, {a}) => e[2] \in ReachedFrom(E, {a})
         /\ ReachedFrom(E, {a}) \subseteq {a} \cup {e[2] : e \in E}
         /\ \A C : a \in C /\ (\A e \in E : e[1] \in C => e[2] \in C) => ReachedFrom(E, {a}) \subseteq C
<1>1. IsFiniteSet({a})
  BY FS_Singleton
<1>2. /\ {a} \subseteq ReachedFrom(E, {a})
      /\ ReachedFrom(E, {a}) \subseteq {a} \cup {e[2] : e \in E}
      /\ Successors(E, ReachedFrom(E, {a})) \subseteq ReachedFrom(E, {a})
      /\ \A C : {a} \subseteq C /\ Successors(E, C) \subseteq C => ReachedFrom(E, {a}) \subseteq C
  BY <1>1, ReachedIsLeast
<1>3. \A C : Successors(E, C) \subseteq C <=> \A e \in E : e[1] \in C => e[2] \in C
  BY DEF Successors
<1> QED
  BY <1>2, <1>3

(* Two components that share a node are the same. *)
LEMMA SameComponent ==
  ASSUME NEW E, IsFiniteSet(E), NEW n, NEW m \in SCC(E, n)
  PROVE  SCC(E, m) = SCC(E, n) /\ n \in SCC(E, n)
<1>1. m \in ReachedFrom(E, {n}) /\ n \in ReachedFrom(E, {m})
  BY DEF SCC
<1>2. \A x : x \in ReachedFrom(E, {m}) <=> x \in ReachedFrom(E, {n})
  BY <1>1, ReachedTransitive
<1>3. \A x : m \in ReachedFrom(E, {x}) <=> n \in ReachedFrom(E, {x})
  BY <1>1, ReachedTransitive
<1>4. n \in ReachedFrom(E, {n})
  BY ReachedStep
<1> QED
  BY <1>2, <1>3, <1>4 DEF SCC

(* The cycles of a graph do not share nodes; from each node of one the     *)
(* others are reached without leaving it.                                  *)
LEMMA CycleFacts ==
  ASSUME NEW E, IsFiniteSet(E), NEW S
  PROVE  /\ \A c, d \in Cycles(E, S) : \A x \in c : x \in d => c = d
         /\ \A c \in Cycles(E, S) : Cardinality(c) > 1 /\ \A x \in c : c = SCC(E, x)
         /\ \A c \in Cycles(E, S) : \A x \in c : x \in S \cup {e[2] : e \in E}
<1>1. ASSUME NEW c \in Cycles(E, S), NEW x \in c PROVE c = SCC(E, x) /\ x \in S \cup {e[2] : e \in E}
  <2>1. PICK n \in S : c = SCC(E, n)
    BY DEF Cycles
  <2>2. c = SCC(E, x)
    BY <2>1, SameComponent
  <2>3. x \in ReachedFrom(E, {n})
    BY <2>1 DEF SCC
  <2>4. x \in {n} \cup {e[2] : e \in E}
    BY <2>3, ReachedStep
  <2> QED
    BY <2>2, <2>4
<1>2. \A c \in Cycles(E, S) : Cardinality(c) > 1
  BY DEF Cycles
<1> QED
  BY <1>1, <1>2

(* A property that edges within a component hand on holds of all of it if  *)
(* it holds of one of its nodes.                                           *)
LEMMA AlongComponent ==
  ASSUME NEW E, IsFiniteSet(E), NEW x, NEW D,
         x \in D, \A e \in E : e[1] \in SCC(E, x) /\ e[2] \in SCC(E, x) /\ e[1] \in D => e[2] \in D
  PROVE  SCC(E, x) \subseteq D
<1> DEFINE C == {z \in ReachedFrom(E, {x}) : z \in SCC(E, x) => z \in D}
<1>1. x \in C
  BY ReachedStep
<1>2. ASSUME NEW e \in E, e[1] \in C PROVE e[2] \in C
  <2>1. e[1] \in ReachedFrom(E, {x}) /\ e[2] \in ReachedFrom(E, {x})
    BY <1>2, ReachedStep
  <2>2. ASSUME e[2] \in SCC(E, x) PROVE e[2] \in D
    <3>1. x \in ReachedFrom(E, {e[2]})
      BY <2>2 DEF SCC
    <3>2. e[2] \in ReachedFrom(E, {e[1]})
      BY ReachedStep
    <3>3. e[1] \in SCC(E, x)
      <4>1. x \in ReachedFrom(E, {e[1]})
        BY <3>1, <3>2, ReachedTransitive
      <4> QED
        BY <2>1, <4>1 DEF SCC
    <3> QED
      BY <1>2, <2>2, <3>3
  <2> QED
    BY <2>1, <2>2
<1> HIDE DEF C
<1>3. ReachedFrom(E, {x}) \subseteq C
  BY <1>1, <1>2, ReachedStep
<1> QED
  BY <1>3 DEF C, SCC

(* The nodes are finitely many. *)
LEMMA FiniteNodes ==
  ASSUME NEW P \in Programs
  PROVE  IsFiniteSet(Nodes(P)) /\ P.nodes \in Nat
<1>1. P.nodes \in Nat
  BY ProgramsAssumption
<1>2. 0 \in Int /\ P.nodes - 1 \in Int
  BY <1>1
<1> QED
  BY <1>1, <1>2, FS_Interval DEF Nodes

(* The cycles the online detector finds: each is a set of nodes that stand *)
(* for themselves.  If their edges carry their points-to sets, these are   *)
(* the same; any solution that justifies the graph is the same for them.   *)
LEMMA OnlineCycleFacts ==
  ASSUME prog \in Programs, NEW h, GraphOK(h), NEW S \in SUBSET Node
  PROVE  LET cycles == OnlineCycles(h, S) IN
         /\ \A c, d \in cycles : \A x \in c : x \in d => c = d
         /\ \A c \in cycles : \A x \in c : x \in Node /\ h.rep[x] = x
         /\ \A c \in cycles : (\A x \in c : Sat(h, x)) => \A x, y \in c : h.pts[x] \subseteq h.pts[y]
         /\ \A L : JustifiedBy(h, L) => \A c \in cycles : \A x, y \in c : L[x] \subseteq L[y]
<1> DEFINE E == CopyEdges(h)
           T == ReachedFrom(E, {h.rep[n] : n \in S})
           cycles == OnlineCycles(h, S)
<1>0. /\ h.rep \in [Node -> Node] /\ h.copy \in [Node -> SUBSET Node]
      /\ \A n \in Node : h.rep[h.rep[n]] = h.rep[n]
  BY DEF GraphOK, Graphs
<1>1. ASSUME NEW e \in E
      PROVE  \E n \in Node, d \in Node : e = <<n, h.rep[d]>> /\ h.rep[n] = n /\ d \in h.copy[n]
  <2>1. PICK n \in {m \in DOMAIN h.rep : h.rep[m] = m} : e \in {<<n, h.rep[d]>> : d \in h.copy[n]}
    BY DEF CopyEdges
  <2>2. PICK d \in h.copy[n] : e = <<n, h.rep[d]>>
    BY <2>1
  <2>3. n \in Node /\ h.rep[n] = n /\ d \in Node
    BY <1>0, <2>1
  <2> QED
    BY <2>2, <2>3
<1>2. cycles = Cycles(E, T)
  BY DEF OnlineCycles
<1> HIDE DEF E, T
<1>e. ASSUME NEW e \in E
      PROVE  /\ e \in Node \X Node /\ h.rep[e[1]] = e[1] /\ h.rep[e[2]] = e[2]
             /\ \E d \in h.copy[e[1]] : e[2] = h.rep[d] /\ d \in Node
  <2>1. PICK n \in Node, d \in Node : e = <<n, h.rep[d]>> /\ h.rep[n] = n /\ d \in h.copy[n]
    BY <1>1
  <2> QED
    BY <1>0, <2>1
<1>f. IsFiniteSet(E)
  <2>1. IsFiniteSet(Node)
    BY FiniteNodes DEF Node
  <2>2. IsFiniteSet(Node \X Node)
    BY <2>1, FS_Product
  <2>3. E \subseteq Node \X Node
    BY <1>e
  <2> QED
    BY <2>2, <2>3, FS_Subset
<1>h. \A y \in {e[2] : e \in E} : y \in Node /\ h.rep[y] = y
  BY <1>e
<1>t. \A y \in T : y \in Node /\ h.rep[y] = y
  <2> DEFINE R == {h.rep[n] : n \in S}
  <2>1. IsFiniteSet(R)
    <3>1. IsFiniteSet(Node)
      BY FiniteNodes DEF Node
    <3>2. R \subseteq Node
      BY <1>0
    <3> QED
      BY <3>1, <3>2, FS_Subset
  <2>2. T \subseteq R \cup {e[2] : e \in E}
    <3> HIDE DEF R
    <3>1. T = ReachedFrom(E, R)
      BY DEF T, R
    <3> QED
      BY <1>f, <2>1, <3>1, ReachedIsLeast
  <2>3. \A y \in R : y \in Node /\ h.rep[y] = y
    BY <1>0
  <2> HIDE DEF R
  <2> QED
    BY <1>h, <2>2, <2>3
<1>3. \A c, d \in cycles : \A x \in c : x \in d => c = d
  BY <1>2, <1>f, CycleFacts
<1>4. \A c \in cycles : \A x \in c : c = SCC(E, x)
  BY <1>2, <1>f, CycleFacts
<1>5. \A c \in cycles : \A x \in c : x \in Node /\ h.rep[x] = x
  <2>1. \A c \in cycles : \A x \in c : x \in T \cup {e[2] : e \in E}
    BY <1>2, <1>f, CycleFacts
  <2> QED
    BY <1>h, <1>t, <2>1
<1>6. ASSUME NEW c \in cycles, \A x \in c : Sat(h, x), NEW x \in c PROVE \A y \in c : h.pts[x] \subseteq h.pts[y]
  <2> DEFINE D == {y \in Node : h.pts[x] \subseteq h.pts[y]}
  <2>1. x \in D
    BY <1>5
  <2>2. ASSUME NEW e \in E, e[1] \in SCC(E, x), e[1] \in D PROVE e[2] \in D
    <3>1. PICK d \in h.copy[e[1]] : e[2] = h.rep[d] /\ e[2] \in Node
      BY <1>e
    <3>2. Sat(h, e[1])
      BY <1>4, <1>6, <2>2
    <3>3. h.pts[e[1]] \subseteq h.pts[e[2]]
      BY <3>1, <3>2 DEF Sat
    <3> QED
      BY <2>2, <3>1, <3>3
  <2>3. SCC(E, x) \subseteq D
    <3> HIDE DEF D
    <3> QED
      BY <1>f, <2>1, <2>2, AlongComponent
  <2> QED
    BY <1>4, <2>3
<1>7. ASSUME NEW L, JustifiedBy(h, L), NEW c \in cycles, NEW x \in c PROVE \A y \in c : L[x] \subseteq L[y]
  <2> DEFINE D == {y \in Node : L[x] \subseteq L[y]}
  <2>1. x \in D
    BY <1>5
  <2>2. ASSUME NEW e \in E, e[1] \in D PROVE e[2] \in D
    <3>1. PICK d \in h.copy[e[1]] : e[2] = h.rep[d] /\ e[2] \in Node /\ e[1] \in Node /\ d \in Node
      BY <1>e
    <3>2. L[e[1]] \subseteq L[d] /\ L[h.rep[d]] = L[d]
      BY <1>7, <3>1 DEF JustifiedBy
    <3> QED
      BY <2>2, <3>1, <3>2
  <2>3. SCC(E, x) \subseteq D
    <3> HIDE DEF D
    <3> QED
      BY <1>f, <2>1, <2>2, AlongComponent
  <2> QED
    BY <1>4, <2>3
<1> HIDE DEF cycles
<1>8. /\ \A c \in cycles : (\A x \in c : Sat(h, x)) => \A x, y \in c : h.pts[x] \subseteq h.pts[y]
      /\ \A L : JustifiedBy(h, L) => \A c \in cycles : \A x, y \in c : L[x] \subseteq L[y]
  BY <1>6, <1>7
<1> QED
  BY <1>3, <1>5, <1>8 DEF cycles

(* What merging the nodes of each cycle with its root maps the nodes to. *)
IntoRoots(cycles, root) ==
  [n \in Node |-> IF \E c \in cycles : n \in c THEN root[CHOOSE c \in cycles : n \in c] ELSE n]

(* Each node of a cycle is merged with the root of it, and no other one. *)
LEMMA RootFacts ==
  ASSUME NEW h, GraphOK(h), NEW cycles, \A c, d \in cycles : \A x \in c : x \in d => c = d,
         \A c \in cycles : \A x \in c : x \in Node /\ h.rep[x] = x,
         NEW root \in [cycles -> Node], \A c \in cycles : root[c] \in c
  PROVE  /\ MergeOK(h, IntoRoots(cycles, root))
         /\ \A c \in cycles : \A x \in c : IntoRoots(cycles, root)[x] = root[c]
         /\ \A x \in Node : IntoRoots(cycles, root)[x] = x \/ \E c \in cycles : x \in c
<1> DEFINE into == IntoRoots(cycles, root)
<1>0. h.rep \in [Node -> Node] /\ \A n \in Node : h.rep[h.rep[n]] = h.rep[n]
  BY DEF GraphOK, Graphs
<1>1. ASSUME NEW c \in cycles, NEW x \in c PROVE into[x] = root[c]
  <2>1. (CHOOSE d \in cycles : x \in d) \in cycles /\ x \in CHOOSE d \in cycles : x \in d
    OBVIOUS
  <2>2. (CHOOSE d \in cycles : x \in d) = c
    BY <2>1
  <2> QED
    BY <2>2 DEF IntoRoots
<1>2. ASSUME NEW x \in Node, ~ \E c \in cycles : x \in c PROVE into[x] = x
  BY <1>2 DEF IntoRoots
<1>3. into = [n \in Node |-> into[n]]
  BY DEF IntoRoots
<1> HIDE DEF into
<1>4. \A x \in Node : into[x] \in Node
  BY <1>1, <1>2
<1>5. into \in [Node -> Node]
  BY <1>3, <1>4
<1>6. ASSUME NEW n \in Node PROVE into[into[n]] = into[n]
  BY <1>1, <1>2
<1>7. ASSUME NEW n \in Node PROVE h.rep[into[h.rep[n]]] = into[h.rep[n]]
  <2>1. h.rep[n] \in Node
    BY <1>0
  <2>2. CASE \E c \in cycles : h.rep[n] \in c
    BY <1>1, <2>2
  <2>3. CASE ~ \E c \in cycles : h.rep[n] \in c
    BY <1>0, <1>2, <2>1, <2>3
  <2> QED
    BY <2>2, <2>3
<1>8. MergeOK(h, into)
  BY <1>5, <1>6, <1>7 DEF MergeOK
<1> QED
  BY <1>1, <1>2, <1>8 DEF into

-----------------------------------------------------------------------------
(* Setting up. *)

(* A set of naturals that is not empty has a first one. *)
LEMMA FirstFacts ==
  ASSUME NEW c \in SUBSET Nat, NEW n \in c
  PROVE  First(c) \in c /\ \A m \in c : First(c) <= m
<1> DEFINE U == 0 .. n
           up(m) == {k \in U : k >= m}
           B == {up(m) : m \in c \cap U}
<1>1. IsFiniteSet(U)
  <2>1. 0 \in Int /\ n \in Int
    OBVIOUS
  <2> QED
    BY <2>1, FS_Interval
<1>2. B \in SUBSET SUBSET U /\ B # {}
  <2>1. n \in c \cap U
    OBVIOUS
  <2>2. up(n) \in B
    BY <2>1
  <2>3. \A T \in B : T \subseteq U
    OBVIOUS
  <2> HIDE DEF B
  <2> QED
    BY <2>2, <2>3
<1>3. PICK T \in B : \A V \in B : T \subseteq V => V = T
  <2> HIDE DEF B, U
  <2> QED
    BY <1>1, <1>2, MaximalSet
<1>4. PICK m \in c \cap U : T = up(m)
  OBVIOUS
<1>5. ASSUME NEW k \in c PROVE m <= k
  <2>1. CASE k \in U
    <3>1. CASE k < m
      <4>1. up(m) \subseteq up(k)
        BY <3>1
      <4>2. up(k) \in B
        BY <2>1
      <4>3. up(k) = up(m)
        <5> HIDE DEF up, B
        <5> QED
          BY <1>3, <1>4, <4>1, <4>2
      <4>4. k \in up(k)
        BY <2>1
      <4>5. k >= m
        BY <4>3, <4>4
      <4> QED
        BY <3>1, <4>5
    <3>2. CASE ~ (k < m)
      BY <3>2
    <3> QED
      BY <3>1, <3>2
  <2>2. CASE k \notin U
    BY <2>2
  <2> QED
    BY <2>1, <2>2
<1>6. \E x \in c : \A k \in c : x <= k
  BY <1>5
<1> QED
  BY <1>6 DEF First

(* The edges of the offline graph: none between two nodes that stand for   *)
(* what pointers point to.                                                 *)
LEMMA OfflineEdges ==
  ASSUME NEW P \in Programs
  PROVE  LET E == buildOfflineConstraintGraph(P, collectConstraints(P)) IN
         /\ IsFiniteSet(E)
         /\ \A e \in E : e[1] \in Nat /\ e[2] \in Nat /\ (e[1] < P.nodes \/ e[2] < P.nodes)
<1> DEFINE cs == collectConstraints(P)
           E == buildOfflineConstraintGraph(P, cs)
           N == P.nodes
           U == 0 .. (N + N)
<1>1. N \in Nat /\ cs \subseteq Constraints(P)
  BY ProgramsAssumption DEF Constraints
<1> HIDE DEF cs
<1>2. ASSUME NEW e \in E
      PROVE  \E a, b \in 0 .. N - 1 : e = <<a + N, b>> \/ e = <<a, b + N>> \/ e = <<a, b>>
  <2>1. PICK c \in cs : /\ c.type # "addr_of"
                        /\ e = CASE c.type = "load"  -> <<RefNode(P, c.src), c.dest>>
                                 [] c.type = "store" -> <<c.src, RefNode(P, c.dest)>>
                                 [] c.type = "copy"  -> <<c.src, c.dest>>
    BY DEF buildOfflineConstraintGraph
  <2>2. c.type \in {"load", "store", "copy"} /\ c.src \in 0 .. N - 1 /\ c.dest \in 0 .. N - 1
    BY <1>1, <2>1 DEF Constraints, Nodes
  <2>3. CASE c.type = "load"
    BY <2>1, <2>2, <2>3 DEF RefNode
  <2>4. CASE c.type = "store"
    BY <2>1, <2>2, <2>4 DEF RefNode
  <2>5. CASE c.type = "copy"
    BY <2>1, <2>2, <2>5
  <2> QED
    BY <2>2, <2>3, <2>4, <2>5
<1> HIDE DEF E, N
<1>3. ASSUME NEW e \in E
      PROVE  e \in U \X U /\ e[1] \in Nat /\ e[2] \in Nat /\ (e[1] < N \/ e[2] < N)
  <2>1. PICK a, b \in 0 .. N - 1 : e = <<a + N, b>> \/ e = <<a, b + N>> \/ e = <<a, b>>
    BY <1>2
  <2>2. a \in U /\ b \in U /\ a + N \in U /\ b + N \in U /\ a < N /\ b < N
    BY <1>1
  <2>3. a \in Nat /\ b \in Nat /\ a + N \in Nat /\ b + N \in Nat
    BY <1>1
  <2> HIDE DEF U
  <2>4. CASE e = <<a + N, b>>
    BY <2>2, <2>3, <2>4
  <2>5. CASE e = <<a, b + N>>
    BY <2>2, <2>3, <2>5
  <2>6. CASE e = <<a, b>>
    BY <2>2, <2>3, <2>6
  <2> QED
    BY <2>1, <2>4, <2>5, <2>6
<1>4. IsFiniteSet(U)
  <2>1. 0 \in Int /\ N + N \in Int
    BY <1>1
  <2> QED
    BY <2>1, FS_Interval
<1> HIDE DEF U
<1>5. IsFiniteSet(E)
  <2>1. IsFiniteSet(U \X U) /\ E \subseteq U \X U
    BY <1>3, <1>4, FS_Product
  <2> QED
    BY <2>1, FS_Subset
<1> QED
  BY <1>3, <1>5 DEF E, N, cs

(* The offline cycles: they share no node, and the first node of each is a *)
(* variable.                                                               *)
LEMMA OfflineCycleFacts ==
  ASSUME NEW P \in Programs, NEW cycles, cycles = {} \/ cycles = OfflineCycles(P, collectConstraints(P))
  PROVE  /\ \A c, d \in cycles : \A x \in c : x \in d => c = d
         /\ \A c \in cycles : First(c) \in c /\ First(c) \in Nodes(P)
<1>1. CASE cycles = {}
  BY <1>1
<1>2. CASE cycles = OfflineCycles(P, collectConstraints(P))
  <2> DEFINE E == buildOfflineConstraintGraph(P, collectConstraints(P))
             S == {e[1] : e \in E}
             N == P.nodes
  <2>1. /\ IsFiniteSet(E)
        /\ \A e \in E : e[1] \in Nat /\ e[2] \in Nat /\ (e[1] < N \/ e[2] < N)
    BY OfflineEdges
  <2>2. cycles = Cycles(E, S)
    BY <1>2 DEF OfflineCycles
  <2>n. N \in Nat
    BY ProgramsAssumption
  <2> HIDE DEF E, N
  <2>s. S \cup {e[2] : e \in E} \subseteq Nat
    BY <2>1
  <2> HIDE DEF S
  <2>3. \A c, d \in cycles : \A x \in c : x \in d => c = d
    BY <2>1, <2>2, CycleFacts
  <2>4. ASSUME NEW c \in cycles PROVE First(c) \in c /\ First(c) \in Nodes(P)
    <3>1. Cardinality(c) > 1 /\ \A x \in c : c = SCC(E, x) /\ x \in S \cup {e[2] : e \in E}
      BY <2>1, <2>2, CycleFacts
    <3>2. c \subseteq Nat
      BY <2>s, <3>1
    <3>3. \E x, y \in c : x # y
      <4>1. ASSUME NEW x, c = {x} PROVE FALSE
        <5>1. Cardinality(c) = 1
          BY <4>1, FS_Singleton
        <5> QED
          BY <3>1, <5>1
      <4>2. ASSUME c = {} PROVE FALSE
        <5>1. Cardinality(c) = 0
          BY <4>2, FS_EmptySet
        <5> QED
          BY <3>1, <5>1
      <4> QED
        BY <4>1, <4>2
    <3>4. \E z \in c : z < N
      <4>0. SUFFICES ASSUME \A z \in c : ~ (z < N) PROVE FALSE
        OBVIOUS
      <4>1. PICK x, y \in c : x # y
        BY <3>3
      <4>2. c = SCC(E, x)
        BY <3>1
      <4>3. ASSUME NEW e \in E, e[1] \in SCC(E, x), e[2] \in SCC(E, x) PROVE FALSE
        <5>1. e[1] < N \/ e[2] < N
          BY <2>1
        <5> QED
          BY <4>0, <4>2, <4>3, <5>1
      <4>4. SCC(E, x) \subseteq {x}
        BY <2>1, <4>3, AlongComponent
      <4> QED
        BY <4>1, <4>2, <4>4
    <3>5. First(c) \in c /\ \A m \in c : First(c) <= m
      <4>1. PICK z \in c : z < N
        BY <3>4
      <4> QED
        BY <3>2, <4>1, FirstFacts
    <3>6. First(c) \in Nat /\ First(c) < N
      <4>1. PICK z \in c : z < N
        BY <3>4
      <4>2. First(c) \in Nat /\ z \in Nat /\ First(c) <= z
        BY <3>2, <3>5
      <4> QED
        BY <2>n, <4>1, <4>2
    <3>7. First(c) \in 0 .. N - 1
      BY <2>n, <3>6
    <3> QED
      BY <3>5, <3>7 DEF Nodes, N
  <2> QED
    BY <2>3, <2>4
<1> QED
  BY <1>1, <1>2

(* The variables of a cycle are merged with its first node. *)
LEMMA MergeOfflineFacts ==
  ASSUME NEW P \in Programs, NEW cycles, cycles = {} \/ cycles = OfflineCycles(P, collectConstraints(P))
  PROVE  LET rep == mergeOffline(P, cycles) IN
         /\ rep \in [Nodes(P) -> Nodes(P)]
         /\ \A n \in Nodes(P) : rep[rep[n]] = rep[n]
         /\ cycles = {} => \A n \in Nodes(P) : rep[n] = n
         /\ \A n \in DOMAIN collapseTargets(P, cycles) :
              n \in Nodes(P) /\ collapseTargets(P, cycles)[n] \in Nodes(P)
         /\ cycles = {} => DOMAIN collapseTargets(P, cycles) = {}
<1> DEFINE rep == mergeOffline(P, cycles)
<1>1. /\ \A c, d \in cycles : \A x \in c : x \in d => c = d
      /\ \A c \in cycles : First(c) \in c /\ First(c) \in Nodes(P)
  BY OfflineCycleFacts
<1>2. ASSUME NEW c \in cycles, NEW x \in c, x \in Nodes(P) PROVE rep[x] = First(c)
  <2>1. (CHOOSE d \in cycles : x \in d) \in cycles /\ x \in CHOOSE d \in cycles : x \in d
    OBVIOUS
  <2>2. (CHOOSE d \in cycles : x \in d) = c
    BY <1>1, <2>1
  <2> QED
    BY <1>2, <2>2 DEF mergeOffline
<1>3. ASSUME NEW x \in Nodes(P), ~ \E c \in cycles : x \in c PROVE rep[x] = x
  BY <1>3 DEF mergeOffline
<1>4. rep = [n \in Nodes(P) |-> rep[n]]
  BY DEF mergeOffline
<1> HIDE DEF rep
<1>5. \A n \in Nodes(P) : rep[n] \in Nodes(P)
  BY <1>1, <1>2, <1>3
<1>6. rep \in [Nodes(P) -> Nodes(P)]
  BY <1>4, <1>5
<1>7. ASSUME NEW n \in Nodes(P) PROVE rep[rep[n]] = rep[n]
  <2>1. CASE \E c \in cycles : n \in c
    <3>1. PICK c \in cycles : n \in c
      BY <2>1
    <3>2. rep[n] = First(c)
      BY <1>2, <3>1
    <3>3. First(c) \in c /\ First(c) \in Nodes(P)
      BY <1>1
    <3>4. rep[First(c)] = First(c)
      BY <1>2, <3>3
    <3> QED
      BY <3>2, <3>4
  <2>2. CASE ~ \E c \in cycles : n \in c
    BY <1>3, <2>2
  <2> QED
    BY <2>1, <2>2
<1>8. ASSUME NEW n \in DOMAIN collapseTargets(P, cycles)
      PROVE  n \in Nodes(P) /\ collapseTargets(P, cycles)[n] \in Nodes(P) /\ cycles # {}
  <2>1. n \in {m \in Nodes(P) : \E c \in cycles : RefNode(P, m) \in c}
    BY DEF collapseTargets
  <2>2. collapseTargets(P, cycles)[n] = First(CHOOSE c \in cycles : RefNode(P, n) \in c)
    BY <2>1 DEF collapseTargets
  <2>3. (CHOOSE c \in cycles : RefNode(P, n) \in c) \in cycles
    BY <2>1
  <2> QED
    BY <1>1, <2>1, <2>2, <2>3
<1>9. cycles = {} => DOMAIN collapseTargets(P, cycles) = {}
  BY <1>8
<1> QED
  BY <1>3, <1>6, <1>7, <1>8, <1>9 DEF rep

(* The graph built from the constraints. *)
LEMMA BuildFacts ==
  ASSUME prog \in Programs, NEW rep \in [Node -> Node], \A n \in Node : rep[rep[n]] = rep[n]
  PROVE  LET cs == collectConstraints(prog)
             h == buildConstraintGraph(prog, cs, rep)
         IN  /\ GraphOK(h) /\ h.rep = rep
             /\ Represented(h, cs)
             /\ Remembered(h, {n \in Node : h.pts[n] # {} /\ h.rep[n] = n /\ HasEdges(h, n)})
<1> DEFINE cs == collectConstraints(prog)
           h == buildConstraintGraph(prog, cs, rep)
<1>1. cs \subseteq Constraints(prog)
  BY ProgramsAssumption DEF Constraints
<1> HIDE DEF cs
<1>c. \A c \in cs : c.src \in Node /\ c.dest \in Node
  BY <1>1 DEF Constraints, Node
<1>2. /\ h.rep = rep
      /\ h.pts = [n \in Node |-> {c.src : c \in {x \in cs : x.type = "addr_of" /\ rep[x.dest] = n}}]
      /\ h.copy = [n \in Node |-> {rep[c.dest] : c \in {x \in cs : x.type = "copy" /\ rep[x.src] = n}}]
      /\ h.load = [n \in Node |-> {rep[c.dest] : c \in {x \in cs : x.type = "load" /\ rep[x.src] = n}}]
      /\ h.store = [n \in Node |-> {rep[c.src] : c \in {x \in cs : x.type = "store" /\ rep[x.dest] = n}}]
      /\ h = [rep |-> h.rep, pts |-> h.pts, copy |-> h.copy, load |-> h.load, store |-> h.store]
  BY DEF buildConstraintGraph, Node
<1> HIDE DEF h
<1>3. h.pts \in [Node -> SUBSET Node]
  <2>1. \A n \in Node : {c.src : c \in {x \in cs : x.type = "addr_of" /\ rep[x.dest] = n}} \in SUBSET Node
    BY <1>c
  <2> QED
    BY <1>2, <2>1
<1>4. h.copy \in [Node -> SUBSET Node]
  <2>1. \A n \in Node : {rep[c.dest] : c \in {x \in cs : x.type = "copy" /\ rep[x.src] = n}} \in SUBSET Node
    BY <1>c
  <2> QED
    BY <1>2, <2>1
<1>5. h.load \in [Node -> SUBSET Node]
  <2>1. \A n \in Node : {rep[c.dest] : c \in {x \in cs : x.type = "load" /\ rep[x.src] = n}} \in SUBSET Node
    BY <1>c
  <2> QED
    BY <1>2, <2>1
<1>6. h.store \in [Node -> SUBSET Node]
  <2>1. \A n \in Node : {rep[c.src] : c \in {x \in cs : x.type = "store" /\ rep[x.dest] = n}} \in SUBSET Node
    BY <1>c
  <2> QED
    BY <1>2, <2>1
<1>7. GraphOK(h)
  BY <1>2, <1>3, <1>4, <1>5, <1>6 DEF GraphOK, Graphs
<1>8. ASSUME NEW c \in cs
      PROVE  /\ c.type = "addr_of" => c.src \in h.pts[h.rep[c.dest]]
             /\ c.type = "copy" => Linked(h, h.rep[c.src], h.rep[c.dest])
             /\ c.type = "load" => \E d \in h.load[h.rep[c.src]] : h.rep[d] = h.rep[c.dest]
             /\ c.type = "store" => \E s \in h.store[h.rep[c.dest]] : h.rep[s] = h.rep[c.src]
  <2>0. rep[c.src] \in Node /\ rep[c.dest] \in Node /\ rep[rep[c.dest]] = rep[c.dest] /\ rep[rep[c.src]] = rep[c.src]
    BY <1>c
  <2>1. ASSUME c.type = "addr_of" PROVE c.src \in h.pts[h.rep[c.dest]]
    BY <1>2, <2>0, <2>1
  <2>2. ASSUME c.type = "copy" PROVE Linked(h, h.rep[c.src], h.rep[c.dest])
    <3>1. rep[c.dest] \in h.copy[h.rep[c.src]]
      BY <1>2, <2>0, <2>2
    <3> QED
      BY <1>2, <2>0, <3>1 DEF Linked
  <2>3. ASSUME c.type = "load" PROVE \E d \in h.load[h.rep[c.src]] : h.rep[d] = h.rep[c.dest]
    <3>1. rep[c.dest] \in h.load[h.rep[c.src]]
      BY <1>2, <2>0, <2>3
    <3> QED
      BY <1>2, <2>0, <3>1
  <2>4. ASSUME c.type = "store" PROVE \E s \in h.store[h.rep[c.dest]] : h.rep[s] = h.rep[c.src]
    <3>1. rep[c.src] \in h.store[h.rep[c.dest]]
      BY <1>2, <2>0, <2>4
    <3> QED
      BY <1>2, <2>0, <3>1
  <2> QED
    BY <2>1, <2>2, <2>3, <2>4
<1>9. Represented(h, cs)
  BY <1>8 DEF Represented
<1>10. ASSUME NEW n \in Node, h.pts[n] = {} \/ ~ HasEdges(h, n) PROVE Sat(h, n)
  BY <1>10 DEF Sat, HasEdges
<1>11. Remembered(h, {n \in Node : h.pts[n] # {} /\ h.rep[n] = n /\ HasEdges(h, n)})
  BY <1>10 DEF Remembered
<1> QED
  BY <1>2, <1>7, <1>9, <1>11 DEF h, cs

(* What the least solution has, because it is one. *)
LEMMA LeastClosedUnder ==
  ASSUME NEW P \in Programs, NEW c \in collectConstraints(P)
  PROVE  LET L == LeastSolution(P, collectConstraints(P)) IN
         /\ c.type = "addr_of" => c.src \in L[c.dest]
         /\ c.type = "copy" => L[c.src] \subseteq L[c.dest]
         /\ c.type = "load" => \A v \in L[c.src] : L[v] \subseteq L[c.dest]
         /\ c.type = "store" => \A v \in L[c.dest] : L[c.src] \subseteq L[v]
<1> DEFINE cs == collectConstraints(P)
           L == LeastSolution(P, cs)
<1>1. L \in Assignment(P) /\ Flows(P, cs, L) = L
  BY LeastSolutionFacts
<1>2. cs \in SUBSET Constraints(P)
  BY ProgramsAssumption DEF Constraints
<1>0. c \in cs
  OBVIOUS
<1> HIDE DEF cs, L
<1>3. c.src \in Nodes(P) /\ c.dest \in Nodes(P)
  BY <1>0, <1>2 DEF Constraints
<1>l. \A n \in Nodes(P) : L[n] \subseteq Nodes(P)
  BY <1>1 DEF Assignment
<1>4. \A n \in Nodes(P) : \A x :
        (\/ c.type = "addr_of" /\ c.dest = n /\ x = c.src
         \/ c.type = "copy" /\ c.dest = n /\ x \in L[c.src]
         \/ c.type = "load" /\ c.dest = n /\ \E v \in L[c.src] : x \in L[v]
         \/ c.type = "store" /\ n \in L[c.dest] /\ x \in L[c.src])
        => x \in L[n]
  BY <1>0, <1>1, <1>2, FlowsMember
<1>5. /\ c.type = "addr_of" => c.src \in L[c.dest]
      /\ c.type = "copy" => L[c.src] \subseteq L[c.dest]
      /\ c.type = "load" => \A v \in L[c.src] : L[v] \subseteq L[c.dest]
  BY <1>3, <1>4
<1>6. c.type = "store" => \A v \in L[c.dest] : L[c.src] \subseteq L[v]
  BY <1>3, <1>4, <1>l
<1> QED
  BY <1>5, <1>6 DEF L, cs

(* When nothing was merged, the least solution justifies the graph built   *)
(* from the constraints.                                                   *)
LEMMA BuildJustified ==
  ASSUME prog \in Programs, NEW rep \in [Node -> Node], \A n \in Node : rep[n] = n
  PROVE  JustifiedBy(buildConstraintGraph(prog, collectConstraints(prog), rep),
                     LeastSolution(prog, collectConstraints(prog)))
<1> DEFINE cs == collectConstraints(prog)
           h == buildConstraintGraph(prog, cs, rep)
           L == LeastSolution(prog, cs)
<1>1. cs \subseteq Constraints(prog)
  BY ProgramsAssumption DEF Constraints
<1>c. \A c \in cs : c.src \in Node /\ c.dest \in Node /\ rep[c.src] = c.src /\ rep[c.dest] = c.dest
  BY <1>1 DEF Constraints, Node
<1>l. \A c \in cs :
         /\ c.type = "addr_of" => c.src \in L[c.dest]
         /\ c.type = "copy" => L[c.src] \subseteq L[c.dest]
         /\ c.type = "load" => \A v \in L[c.src] : L[v] \subseteq L[c.dest]
         /\ c.type = "store" => \A v \in L[c.dest] : L[c.src] \subseteq L[v]
  BY LeastClosedUnder
<1> HIDE DEF cs, L
<1>2. /\ h.rep = rep
      /\ h.pts = [n \in Node |-> {c.src : c \in {x \in cs : x.type = "addr_of" /\ rep[x.dest] = n}}]
      /\ h.copy = [n \in Node |-> {rep[c.dest] : c \in {x \in cs : x.type = "copy" /\ rep[x.src] = n}}]
      /\ h.load = [n \in Node |-> {rep[c.dest] : c \in {x \in cs : x.type = "load" /\ rep[x.src] = n}}]
      /\ h.store = [n \in Node |-> {rep[c.src] : c \in {x \in cs : x.type = "store" /\ rep[x.dest] = n}}]
  BY DEF buildConstraintGraph, Node
<1> HIDE DEF h
<1>3. ASSUME NEW n \in Node PROVE h.pts[n] \subseteq L[n] /\ L[h.rep[n]] = L[n]
  <2>1. h.pts[n] = {c.src : c \in {x \in cs : x.type = "addr_of" /\ rep[x.dest] = n}}
    BY <1>2
  <2> QED
    BY <1>2, <1>c, <1>l, <2>1
<1>4. ASSUME NEW n \in Node, NEW d \in h.copy[n] PROVE L[n] \subseteq L[d]
  <2>1. PICK c \in cs : c.type = "copy" /\ rep[c.src] = n /\ d = rep[c.dest]
    BY <1>2
  <2> QED
    BY <1>c, <1>l, <2>1
<1>5. ASSUME NEW n \in Node, NEW d \in h.load[n], NEW v \in L[n] PROVE L[v] \subseteq L[d]
  <2>1. PICK c \in cs : c.type = "load" /\ rep[c.src] = n /\ d = rep[c.dest]
    BY <1>2
  <2> QED
    BY <1>c, <1>l, <2>1
<1>6. ASSUME NEW n \in Node, NEW s \in h.store[n], NEW v \in L[n] PROVE L[s] \subseteq L[v]
  <2>1. PICK c \in cs : c.type = "store" /\ rep[c.dest] = n /\ s = rep[c.src]
    BY <1>2
  <2> QED
    BY <1>c, <1>l, <2>1
<1>7. JustifiedBy(h, L)
  BY <1>3, <1>4, <1>5, <1>6 DEF JustifiedBy
<1> QED
  BY <1>7 DEF h, L, cs

-----------------------------------------------------------------------------
(* The invariant. *)

MergedInto == {collapseMap[n] : n \in DOMAIN collapseMap}

StateOK ==
  /\ prog \in Programs /\ opt \in Options
  /\ pc \in {"collect", "iteration", "work", "done", "undefined"}
  /\ least = LeastSolution(prog, collectConstraints(prog))
  /\ GraphOK(g)
  /\ curr \subseteq Node /\ next \subseteq Node
  /\ cycleCandidates \subseteq Node /\ checkedEdges \subseteq Node \X Node
  /\ \A n \in DOMAIN collapseMap : n \in Node /\ collapseMap[n] \in Node

SolverInvariant ==
  /\ StateOK
  /\ pc = "collect" => g = EmptyGraph(prog) /\ next = {}
  /\ pc \in {"iteration", "work", "done"} =>
       Represented(g, collectConstraints(prog)) /\ Remembered(g, curr \cup next \cup MergedInto)
  /\ pc = "iteration" \/ pc = "done" => next = {}
  /\ pc = "done" => curr = {}
  /\ ~ opt.hcd => JustifiedBy(g, least) /\ DOMAIN collapseMap = {}

(* It holds at the start. *)
LEMMA InvariantInit ==
  ASSUME Init
  PROVE  SolverInvariant
<1>1. /\ prog \in Programs /\ opt \in Options /\ pc = "collect" /\ g = EmptyGraph(prog) /\ collapseMap = <<>>
      /\ curr = {} /\ next = {} /\ cycleCandidates = {} /\ checkedEdges = {}
      /\ least = LeastSolution(prog, collectConstraints(prog))
  BY DEF Init
<1>2. /\ g.rep = [n \in Node |-> n] /\ g.pts = [n \in Node |-> {}] /\ g.copy = [n \in Node |-> {}]
      /\ g.load = [n \in Node |-> {}] /\ g.store = [n \in Node |-> {}]
      /\ g = [rep |-> g.rep, pts |-> g.pts, copy |-> g.copy, load |-> g.load, store |-> g.store]
  BY <1>1 DEF EmptyGraph, Everywhere, Node
<1>3. GraphOK(g)
  BY <1>2 DEF GraphOK, Graphs
<1>4. JustifiedBy(g, least)
  BY <1>2 DEF JustifiedBy
<1>5. DOMAIN collapseMap = {}
  BY <1>1
<1>6. StateOK
  BY <1>1, <1>3, <1>5 DEF StateOK
<1> QED
  BY <1>1, <1>4, <1>5, <1>6 DEF SolverInvariant

(* solveConstraints before its loop. *)
LEMMA SetUpStep ==
  ASSUME SolverInvariant, SetUp
  PROVE  SolverInvariant' /\ \A n \in Node : SolutionOf(g)[n] \subseteq SolutionOf(g')[n]
<1> DEFINE cs == collectConstraints(prog)
           cycles == IF opt.hcd THEN OfflineCycles(prog, cs) ELSE {}
           rep == mergeOffline(prog, cycles)
           h == buildConstraintGraph(prog, cs, rep)
<1>0. StateOK /\ pc = "collect" /\ g = EmptyGraph(prog) /\ next = {}
  BY DEF SolverInvariant, SetUp
<1>1. /\ prog' = prog /\ opt' = opt /\ next' = next /\ cycleCandidates' = cycleCandidates
      /\ checkedEdges' = checkedEdges /\ least' = least
      /\ g' = h /\ collapseMap' = collapseTargets(prog, cycles)
      /\ curr' = {n \in Node : h.pts[n] # {} /\ h.rep[n] = n /\ HasEdges(h, n)}
      /\ pc' = IF \E c \in cycles : RefNode(prog, UniversalPtr) \in c THEN "undefined"
               ELSE IF curr' = {} THEN "done" ELSE "iteration"
  BY DEF SetUp
<1>2. prog \in Programs
  BY <1>0 DEF StateOK
<1>3. cycles = {} \/ cycles = OfflineCycles(prog, collectConstraints(prog))
  OBVIOUS
<1>h. ~ opt.hcd => cycles = {}
  OBVIOUS
<1> HIDE DEF cycles
<1>4. /\ rep \in [Node -> Node]
      /\ \A n \in Node : rep[rep[n]] = rep[n]
      /\ cycles = {} => \A n \in Node : rep[n] = n
      /\ \A n \in DOMAIN collapseTargets(prog, cycles) :
           n \in Node /\ collapseTargets(prog, cycles)[n] \in Node
      /\ cycles = {} => DOMAIN collapseTargets(prog, cycles) = {}
  BY <1>2, <1>3, MergeOfflineFacts DEF Node
<1> HIDE DEF rep
<1>5. /\ GraphOK(h) /\ Represented(h, cs)
      /\ Remembered(h, {n \in Node : h.pts[n] # {} /\ h.rep[n] = n /\ HasEdges(h, n)})
  BY <1>2, <1>4, BuildFacts
<1>6. cycles = {} => JustifiedBy(h, LeastSolution(prog, cs))
  BY <1>2, <1>4, BuildJustified
<1> HIDE DEF h
<1>n. Node' = Node
  BY <1>1 DEF Node
<1>g. GraphOK(g)' /\ Represented(g, collectConstraints(prog))'
  BY <1>1, <1>5, <1>n DEF GraphOK, Graphs, Represented, Linked
<1>7. StateOK'
  <2>1. /\ prog' \in Programs /\ opt' \in Options
        /\ pc' \in {"collect", "iteration", "work", "done", "undefined"}
        /\ least' = LeastSolution(prog', collectConstraints(prog'))
        /\ next' \subseteq Node' /\ cycleCandidates' \subseteq Node' /\ checkedEdges' \subseteq Node' \X Node'
    BY <1>0, <1>1, <1>n DEF StateOK
  <2>2. curr' \subseteq Node'
    BY <1>1, <1>n
  <2>3. \A n \in DOMAIN collapseMap' : n \in Node' /\ collapseMap'[n] \in Node'
    BY <1>1, <1>4, <1>n
  <2> QED
    BY <1>g, <2>1, <2>2, <2>3 DEF StateOK
<1>8. Remembered(g, curr \cup next \cup MergedInto)'
  <2>1. Remembered(g', curr')
    BY <1>1, <1>5
  <2>2. Remembered(g', (curr \cup next \cup MergedInto)')
    BY <2>1, RememberedWeaken
  <2> QED
    BY <1>n, <2>2 DEF Remembered, Sat, Linked
<1>9. ~ opt'.hcd => JustifiedBy(g, least)' /\ DOMAIN collapseMap' = {}
  <2>1. ASSUME ~ opt'.hcd PROVE JustifiedBy(g', least') /\ DOMAIN collapseMap' = {}
    <3>1. cycles = {}
      BY <1>1, <1>h, <2>1
    <3> QED
      BY <1>0, <1>1, <1>4, <1>6, <3>1 DEF StateOK
  <2> QED
    BY <1>n, <2>1 DEF JustifiedBy
<1>10. pc' # "collect" /\ next' = {} /\ (pc' = "done" => curr' = {})
  BY <1>0, <1>1
<1>11. SolverInvariant'
  BY <1>7, <1>8, <1>9, <1>10, <1>g DEF SolverInvariant
<1>12. \A n \in Node : SolutionOf(g)[n] = {}
  BY <1>0 DEF SolutionOf, EmptyGraph, Everywhere, Node
<1> QED
  BY <1>11, <1>12

(* What a step of the loop has to keep. *)
LEMMA LoopStep ==
  ASSUME SolverInvariant, prog' = prog, opt' = opt, least' = least, collapseMap' = collapseMap,
         GraphOK(g'), curr' \subseteq Node, next' \subseteq Node,
         cycleCandidates' \subseteq Node, checkedEdges' \subseteq Node \X Node,
         pc' \in {"iteration", "work", "done"},
         Represented(g', collectConstraints(prog)),
         Remembered(g', curr' \cup next' \cup MergedInto),
         pc' = "iteration" \/ pc' = "done" => next' = {},
         pc' = "done" => curr' = {},
         ~ opt.hcd => JustifiedBy(g', least)
  PROVE  SolverInvariant'
<1>n. Node' = Node
  BY DEF Node
<1>1. MergedInto' = MergedInto
  BY DEF MergedInto
<1>2. StateOK
  BY DEF SolverInvariant
<1>3. StateOK'
  BY <1>2, <1>n DEF StateOK, GraphOK, Graphs
<1>4. Remembered(g, curr \cup next \cup MergedInto)'
  BY <1>1, <1>n DEF Remembered, Sat, Linked
<1>5. Represented(g, collectConstraints(prog))'
  BY DEF Represented, Linked
<1>6. ~ opt'.hcd => JustifiedBy(g, least)' /\ DOMAIN collapseMap' = {}
  <2>1. ~ opt.hcd => DOMAIN collapseMap = {}
    BY DEF SolverInvariant
  <2>2. JustifiedBy(g', least) => JustifiedBy(g, least)'
    BY <1>n DEF JustifiedBy
  <2> QED
    BY <2>1, <2>2
<1>7. pc' # "collect"
  OBVIOUS
<1> QED
  BY <1>3, <1>4, <1>5, <1>6, <1>7 DEF SolverInvariant

(* Online cycle detection. *)
LEMMA DetectStep ==
  ASSUME SolverInvariant, DetectCycles
  PROVE  SolverInvariant' /\ \A n \in Node : SolutionOf(g)[n] \subseteq SolutionOf(g')[n]
<1> DEFINE cycles == OnlineCycles(g, cycleCandidates)
<1>0. StateOK /\ pc = "iteration" /\ next = {}
  BY DEF SolverInvariant, DetectCycles
<1>1. /\ prog' = prog /\ opt' = opt /\ next' = next /\ cycleCandidates' = {} /\ curr' = curr
      /\ checkedEdges' = checkedEdges /\ least' = least /\ collapseMap' = collapseMap /\ pc' = "work"
  BY DEF DetectCycles
<1>2. PICK root \in {r \in [cycles -> Node] : \A c \in cycles : r[c] \in c} :
        g' = collapseNodes(g, IntoRoots(cycles, root))
  BY DEF DetectCycles, IntoRoots
<1> DEFINE into == IntoRoots(cycles, root)
<1>3. /\ prog \in Programs /\ GraphOK(g) /\ curr \subseteq Node /\ next \subseteq Node
      /\ cycleCandidates \in SUBSET Node /\ checkedEdges \subseteq Node \X Node
      /\ \A n \in DOMAIN collapseMap : collapseMap[n] \in Node
  BY <1>0 DEF StateOK
<1>4. /\ \A c, d \in cycles : \A x \in c : x \in d => c = d
      /\ \A c \in cycles : \A x \in c : x \in Node /\ g.rep[x] = x
      /\ \A c \in cycles : (\A x \in c : Sat(g, x)) => \A x, y \in c : g.pts[x] \subseteq g.pts[y]
      /\ \A L : JustifiedBy(g, L) => \A c \in cycles : \A x, y \in c : L[x] \subseteq L[y]
  BY <1>3, OnlineCycleFacts
<1>5. root \in [cycles -> Node] /\ \A c \in cycles : root[c] \in c
  OBVIOUS
<1> HIDE DEF cycles
<1>6. /\ MergeOK(g, into)
      /\ \A c \in cycles : \A x \in c : into[x] = root[c]
      /\ \A x \in Node : into[x] = x \/ \E c \in cycles : x \in c
  <2>1. GraphOK(g) /\ \A c, d \in cycles : \A x \in c : x \in d => c = d
    BY <1>3, <1>4
  <2>2. \A c \in cycles : \A x \in c : x \in Node /\ g.rep[x] = x
    BY <1>4
  <2> QED
    BY <1>5, <2>1, <2>2, RootFacts
<1>7. g' = collapseNodes(g, into)
  BY <1>2 DEF cycles
<1> HIDE DEF into
<1>8. Represented(g, collectConstraints(prog)) /\ Remembered(g, curr \cup next \cup MergedInto)
  BY <1>0 DEF SolverInvariant
<1>9. Represented(g', collectConstraints(prog))
  <2>1. collectConstraints(prog) \in SUBSET Constraints(prog)
    BY <1>3, ProgramsAssumption DEF Constraints
  <2> QED
    BY <1>3, <1>6, <1>7, <1>8, <2>1, CollapseRepresented
<1>10. Remembered(g', curr \cup next \cup MergedInto)
  <2>1. \A x \in Node : into[x] # x => g.rep[x] = x
    BY <1>4, <1>6
  <2>2. ASSUME NEW n \in Node, into[n] = n, \A x \in Node : into[x] = n => Sat(g, x),
               NEW y \in Node, into[y] = n
        PROVE  g.pts[y] = g.pts[n]
    <3>1. CASE y = n
      BY <3>1
    <3>2. CASE y # n
      <4>1. PICK c \in cycles : y \in c
        BY <1>6, <2>2, <3>2
      <4>2. n = root[c] /\ n \in c
        BY <1>5, <1>6, <2>2, <4>1
      <4>3. \A x \in c : Sat(g, x)
        BY <1>4, <1>6, <2>2, <4>2
      <4>4. g.pts[y] \subseteq g.pts[n] /\ g.pts[n] \subseteq g.pts[y]
        BY <1>4, <4>1, <4>2, <4>3
      <4> QED
        BY <4>4
    <3> QED
      BY <3>1, <3>2
  <2>3. curr \cup next \cup MergedInto \in SUBSET Node
    BY <1>3 DEF MergedInto
  <2> QED
    BY <1>3, <1>6, <1>7, <1>8, <2>1, <2>2, <2>3, CollapseRemembered
<1>11. ~ opt.hcd => JustifiedBy(g', least)
  <2>1. SUFFICES ASSUME ~ opt.hcd PROVE JustifiedBy(g', least)
    OBVIOUS
  <2>2. JustifiedBy(g, least)
    BY <2>1 DEF SolverInvariant
  <2>3. ASSUME NEW x \in Node PROVE least[into[x]] = least[x]
    <3>1. CASE into[x] = x
      BY <3>1
    <3>2. CASE into[x] # x
      <4>1. PICK c \in cycles : x \in c
        BY <1>6, <3>2
      <4>2. into[x] \in c
        BY <1>5, <1>6, <4>1
      <4>3. least[x] \subseteq least[into[x]] /\ least[into[x]] \subseteq least[x]
        BY <1>4, <2>2, <4>1, <4>2
      <4> QED
        BY <4>3
    <3> QED
      BY <3>1, <3>2
  <2> QED
    BY <1>3, <1>6, <1>7, <2>2, <2>3, CollapseJustified
<1>12. GraphOK(g')
  BY <1>3, <1>6, <1>7, CollapseFacts
<1>13. SolverInvariant'
  BY <1>1, <1>3, <1>9, <1>10, <1>11, <1>12, LoopStep
<1>14. \A n \in Node : SolutionOf(g)[n] \subseteq SolutionOf(g')[n]
  BY <1>3, <1>6, <1>7, CollapseGrows
<1> QED
  BY <1>13, <1>14

(* The merging of hybrid cycle detection: nodes that stand for themselves  *)
(* are merged into one that does.                                          *)
LEMMA TargetMerge ==
  ASSUME NEW h, GraphOK(h), NEW target \in Node, h.rep[target] = target,
         NEW merged \in SUBSET Node, \A x \in merged : h.rep[x] = x
  PROVE  LET into == [n \in Node |-> IF n \in merged THEN target ELSE n] IN
         /\ MergeOK(h, into)
         /\ \A n \in Node : into[n] = IF n \in merged THEN target ELSE n
         /\ \A W \in SUBSET Node : Remembered(h, W) /\ (\E m \in W : h.rep[m] = target) =>
              Remembered(collapseNodes(h, into), W)
<1> DEFINE into == [n \in Node |-> IF n \in merged THEN target ELSE n]
<1>0. h.rep \in [Node -> Node] /\ \A n \in Node : h.rep[h.rep[n]] = h.rep[n]
  BY DEF GraphOK, Graphs
<1>1. \A n \in Node : into[n] = IF n \in merged THEN target ELSE n
  OBVIOUS
<1>2. into \in [Node -> Node]
  OBVIOUS
<1> HIDE DEF into
<1>3. ASSUME NEW n \in Node PROVE into[into[n]] = into[n] /\ h.rep[into[h.rep[n]]] = into[h.rep[n]]
  BY <1>0, <1>1
<1>4. MergeOK(h, into)
  BY <1>2, <1>3 DEF MergeOK
<1>5. ASSUME NEW W \in SUBSET Node, Remembered(h, W), NEW m \in W, h.rep[m] = target
      PROVE  Remembered(collapseNodes(h, into), W)
  <2>1. \A x \in Node : into[x] # x => h.rep[x] = x
    BY <1>1
  <2>2. ASSUME NEW n \in Node, into[n] = n, n # target, NEW x \in Node, into[x] = n PROVE x = n
    BY <1>1, <2>2
  <2>3. into[h.rep[m]] = target
    BY <1>1, <1>5
  <2>4. ASSUME NEW n \in Node, into[n] = n
        PROVE  \/ \E w \in W : into[h.rep[w]] = n
               \/ (\A x \in Node : into[x] = n => Sat(h, x)) =>
                    \A x \in Node : into[x] = n => h.pts[x] = h.pts[n]
    <3>1. CASE n = target
      BY <2>3, <3>1
    <3>2. CASE n # target
      BY <2>2, <2>4, <3>2
    <3> QED
      BY <3>1, <3>2
  <2> QED
    BY <1>4, <1>5, <2>1, <2>4, CollapseRemembered
<1> QED
  BY <1>1, <1>4, <1>5 DEF into

(* One node of the work list, when hybrid cycle detection merges what it   *)
(* points to.                                                              *)
LEMMA TargetsStep ==
  ASSUME SolverInvariant, pc = "work", NEW n \in curr, g.rep[n] \in DOMAIN collapseMap,
         CollapseTargets(g.rep[n])
  PROVE  /\ GraphOK(g') /\ next' \subseteq Node
         /\ cycleCandidates' \subseteq Node /\ checkedEdges' \subseteq Node \X Node
         /\ Represented(g', collectConstraints(prog))
         /\ Remembered(g', (curr \ {n}) \cup next' \cup MergedInto)
         /\ \A m \in Node : SolutionOf(g)[m] \subseteq SolutionOf(g')[m]
<1> DEFINE node == g.rep[n]
           target == g.rep[collapseMap[node]]
           W == curr \cup next \cup MergedInto
           cs == collectConstraints(prog)
<1>0. /\ prog \in Programs /\ GraphOK(g) /\ curr \subseteq Node /\ next \subseteq Node
      /\ cycleCandidates \subseteq Node /\ checkedEdges \subseteq Node \X Node
      /\ \A m \in DOMAIN collapseMap : m \in Node /\ collapseMap[m] \in Node
  BY DEF SolverInvariant, StateOK
<1>1. /\ g.rep \in [Node -> Node] /\ g.pts \in [Node -> SUBSET Node]
      /\ \A m \in Node : g.rep[g.rep[m]] = g.rep[m]
  BY <1>0 DEF GraphOK, Graphs
<1>2. Represented(g, cs) /\ Remembered(g, W) /\ cs \in SUBSET Constraints(prog)
  BY <1>0, ProgramsAssumption DEF SolverInvariant, Constraints
<1>3. node \in Node /\ g.rep[node] = node /\ target \in Node /\ g.rep[target] = target
  BY <1>0, <1>1
<1>4. PICK X \in Visited(node, target) :
        LET mergeSelf == target # node /\ \E v \in X : g.rep[v] = node
            merged == {g.rep[v] : v \in X} \ (IF mergeSelf THEN {} ELSE {node})
            h == collapseNodes(g, [m \in Node |-> IF m \in merged THEN target ELSE m])
        IN  IF mergeSelf
            THEN /\ g' = h
                 /\ next' = next \cup {target}
                 /\ UNCHANGED <<checkedEdges, cycleCandidates>>
            ELSE Propagate(h, node)
  BY DEF CollapseTargets
<1> DEFINE mergeSelf == target # node /\ \E v \in X : g.rep[v] = node
           merged == {g.rep[v] : v \in X} \ (IF mergeSelf THEN {} ELSE {node})
           into == [m \in Node |-> IF m \in merged THEN target ELSE m]
           h == collapseNodes(g, into)
<1>5. IF mergeSelf
      THEN g' = h /\ next' = next \cup {target} /\ UNCHANGED <<checkedEdges, cycleCandidates>>
      ELSE Propagate(h, node)
  BY <1>4
<1>c. collapseMap[node] \in W /\ collapseMap[node] \in MergedInto /\ W \in SUBSET Node
  BY <1>0 DEF MergedInto
<1>6. X \subseteq Node
  <2>1. CASE target # node
    BY <1>1, <1>3, <2>1 DEF Visited
  <2>2. CASE target = node
    <3>1. X \subseteq UNION {g.pts[m] : m \in Node}
      BY <2>2 DEF Visited
    <3> QED
      BY <1>1, <3>1
  <2> QED
    BY <2>1, <2>2
<1>7. merged \in SUBSET Node /\ \A x \in merged : g.rep[x] = x
  <2>1. \A x \in merged : \E v \in X : x = g.rep[v]
    OBVIOUS
  <2> HIDE DEF merged
  <2> QED
    BY <1>1, <1>6, <2>1
<1>8. mergeSelf => node \in merged
  OBVIOUS
<1>9. ~ mergeSelf => node \notin merged
  OBVIOUS
<1> HIDE DEF mergeSelf, merged, node, target
<1>10. /\ MergeOK(g, into)
       /\ \A m \in Node : into[m] = IF m \in merged THEN target ELSE m
       /\ Remembered(h, W)
  <2>1. \E m \in W : g.rep[m] = target
    BY <1>c DEF target
  <2> HIDE DEF W
  <2> QED
    BY <1>0, <1>2, <1>3, <1>7, <1>c, <2>1, TargetMerge
<1> HIDE DEF into
<1>11. /\ GraphOK(h) /\ \A m \in Node : h.rep[m] = into[g.rep[m]]
  BY <1>0, <1>10, CollapseFacts
<1>12. Represented(h, cs)
  BY <1>0, <1>2, <1>10, CollapseRepresented
<1>13. \A m \in Node : SolutionOf(g)[m] \subseteq SolutionOf(h)[m]
  BY <1>0, <1>10, CollapseGrows
<1> HIDE DEF h, cs
<1>14. CASE mergeSelf
  <2>1. g' = h /\ next' = next \cup {target} /\ checkedEdges' = checkedEdges /\ cycleCandidates' = cycleCandidates
    BY <1>5, <1>14
  <2>2. h.rep[target] = target /\ h.rep[n] = target
    <3>1. into[target] = target /\ into[node] = target
      BY <1>3, <1>8, <1>10, <1>14
    <3> QED
      BY <1>0, <1>3, <1>11, <3>1 DEF node
  <2> DEFINE V == (curr \ {n}) \cup next' \cup MergedInto
  <2>3. ASSUME NEW m \in W PROVE \E x \in V : h.rep[x] = h.rep[m]
    <3>1. CASE m = n
      <4>1. target \in V
        BY <2>1
      <4> QED
        BY <2>2, <3>1, <4>1
    <3>2. CASE m # n
      <4>1. m \in V
        BY <2>1, <3>2
      <4> QED
        BY <4>1
    <3> QED
      BY <3>1, <3>2
  <2> HIDE DEF V, W
  <2>4. Remembered(h, V)
    BY <1>10, <2>3, RememberedWeaken
  <2>5. next' \subseteq Node
    BY <1>0, <1>3, <2>1
  <2> QED
    BY <1>0, <1>11, <1>12, <1>13, <2>1, <2>4, <2>5 DEF V, cs
<1>15. CASE ~ mergeSelf
  <2>1. Propagate(h, node)
    BY <1>5, <1>15
  <2>2. h.rep[node] = node /\ h.rep[n] = node
    <3>1. into[node] = node
      BY <1>3, <1>9, <1>10, <1>15
    <3> QED
      BY <1>0, <1>3, <1>11, <3>1 DEF node
  <2>3. next \subseteq next' /\ next' \subseteq Node
        /\ cycleCandidates' \subseteq Node /\ checkedEdges' \subseteq Node \X Node
    BY <1>0, <1>3, <1>11, <2>1, <2>2, PropagateTypes
  <2> DEFINE V == (curr \ {n}) \cup next' \cup MergedInto
  <2>4. next' \subseteq V /\ \A m \in W : h.rep[m] = node \/ m \in V
    BY <2>2, <2>3
  <2> HIDE DEF V, W
  <2>5. Remembered(g', V)
    BY <1>3, <1>10, <1>11, <2>1, <2>2, <2>4, PropagateRemembered
  <2>6. Represented(g', cs)
    BY <1>2, <1>3, <1>11, <1>12, <2>1, <2>2, PropagateRepresented
  <2>7. GraphOK(g')
    BY <1>3, <1>11, <2>1, <2>2, PropagateEdges
  <2>8. \A m \in Node : SolutionOf(h)[m] \subseteq SolutionOf(g')[m]
    BY <1>3, <1>11, <2>1, <2>2, PropagateGrows
  <2>9. \A m \in Node : SolutionOf(g)[m] \subseteq SolutionOf(g')[m]
    BY <1>13, <2>8
  <2> QED
    BY <2>3, <2>5, <2>6, <2>7, <2>9 DEF V, cs
<1> QED
  BY <1>14, <1>15

(* One node of the work list. *)
LEMMA ProcessStep ==
  ASSUME SolverInvariant, NEW n \in curr, Process(n)
  PROVE  SolverInvariant' /\ \A m \in Node : SolutionOf(g)[m] \subseteq SolutionOf(g')[m]
<1> DEFINE node == g.rep[n]
           W == curr \cup next \cup MergedInto
           V == (curr \ {n}) \cup next' \cup MergedInto
           cs == collectConstraints(prog)
<1>0. /\ prog \in Programs /\ GraphOK(g) /\ curr \subseteq Node /\ next \subseteq Node
      /\ cycleCandidates \subseteq Node /\ checkedEdges \subseteq Node \X Node
      /\ \A m \in DOMAIN collapseMap : m \in Node /\ collapseMap[m] \in Node
  BY DEF SolverInvariant, StateOK
<1>1. /\ pc = "work" /\ curr' = curr \ {n} /\ prog' = prog /\ opt' = opt /\ pc' = pc
      /\ collapseMap' = collapseMap /\ least' = least
  BY DEF Process
<1>2. Represented(g, cs) /\ Remembered(g, W) /\ cs \in SUBSET Constraints(prog)
  BY <1>0, <1>1, ProgramsAssumption DEF SolverInvariant, Constraints
<1>3. node \in Node /\ g.rep[node] = node
  BY <1>0 DEF GraphOK, Graphs
<1>4. ASSUME GraphOK(g'), next' \subseteq Node, cycleCandidates' \subseteq Node,
             checkedEdges' \subseteq Node \X Node, Represented(g', cs), Remembered(g', V),
             ~ opt.hcd => JustifiedBy(g', least)
      PROVE  SolverInvariant'
  <2>1. Remembered(g', curr' \cup next' \cup MergedInto) /\ curr' \subseteq Node
    BY <1>0, <1>1, <1>4
  <2> QED
    BY <1>1, <1>4, <2>1, LoopStep
<1>5. CASE ~ HasEdges(g, node) \/ g.pts[node] = {}
  <2>1. ASSUME HasEdges(g, node) /\ g.pts[node] # {} PROVE FALSE
    BY <1>5, <2>1
  <2>2. g' = g /\ next' = next /\ checkedEdges' = checkedEdges /\ cycleCandidates' = cycleCandidates
    BY <2>1 DEF Process
  <2>3. Sat(g, node)
    BY <1>5 DEF Sat, HasEdges
  <2>4. Remembered(g, V)
    <3>1. ASSUME NEW m \in Node, g.rep[m] = m PROVE Sat(g, m) \/ \E x \in V : g.rep[x] = m
      <4>1. CASE m = node
        BY <2>3, <4>1
      <4>2. CASE m # node
        BY <1>2, <2>2, <3>1, <4>2 DEF Remembered
      <4> QED
        BY <4>1, <4>2
    <3> QED
      BY <3>1 DEF Remembered
  <2>5. ~ opt.hcd => JustifiedBy(g, least)
    BY DEF SolverInvariant
  <2>6. SolverInvariant'
    BY <1>0, <1>2, <1>4, <2>2, <2>4, <2>5
  <2> QED
    BY <2>2, <2>6
<1>6. CASE HasEdges(g, node) /\ g.pts[node] # {}
  <2>1. IF node \in DOMAIN collapseMap THEN CollapseTargets(node) ELSE Propagate(g, node)
    BY <1>6 DEF Process
  <2>2. CASE node \in DOMAIN collapseMap
    <3>1. opt.hcd
      BY <2>2 DEF SolverInvariant
    <3>2. CollapseTargets(g.rep[n]) /\ g.rep[n] \in DOMAIN collapseMap
      BY <2>1, <2>2
    <3>3. /\ GraphOK(g') /\ next' \subseteq Node
          /\ cycleCandidates' \subseteq Node /\ checkedEdges' \subseteq Node \X Node
          /\ Represented(g', collectConstraints(prog))
          /\ Remembered(g', (curr \ {n}) \cup next' \cup MergedInto)
          /\ \A m \in Node : SolutionOf(g)[m] \subseteq SolutionOf(g')[m]
      BY <1>1, <3>2, TargetsStep
    <3> QED
      BY <1>4, <3>1, <3>3
  <2>3. CASE node \notin DOMAIN collapseMap
    <3>1. Propagate(g, node)
      BY <2>1, <2>3
    <3> HIDE DEF cs
    <3>2. /\ next \subseteq next' /\ next' \subseteq Node
          /\ cycleCandidates' \subseteq Node /\ checkedEdges' \subseteq Node \X Node
      BY <1>0, <1>3, <3>1, PropagateTypes
    <3>3. next' \subseteq V /\ \A m \in W : g.rep[m] = node \/ m \in V
      BY <3>2
    <3>4. Remembered(g', V)
      <4> HIDE DEF V, W, node
      <4> QED
        BY <1>0, <1>2, <1>3, <3>1, <3>3, PropagateRemembered
    <3>5. Represented(g', cs)
      BY <1>0, <1>2, <1>3, <3>1, PropagateRepresented
    <3>6. GraphOK(g')
      BY <1>0, <1>3, <3>1, PropagateEdges
    <3>7. ~ opt.hcd => JustifiedBy(g', least)
      <4>1. ~ opt.hcd => JustifiedBy(g, least)
        BY DEF SolverInvariant
      <4> QED
        BY <1>0, <1>3, <3>1, <4>1, PropagateJustified
    <3>8. \A m \in Node : SolutionOf(g)[m] \subseteq SolutionOf(g')[m]
      BY <1>0, <1>3, <3>1, PropagateGrows
    <3> QED
      BY <1>4, <3>2, <3>4, <3>5, <3>6, <3>7, <3>8
  <2> QED
    BY <2>2, <2>3
<1> QED
  BY <1>5, <1>6

(* Every step keeps the invariant, and the points-to sets only grow. *)
LEMMA SolverStep ==
  ASSUME SolverInvariant, [Next]_vars
  PROVE  /\ SolverInvariant'
         /\ prog' = prog /\ opt' = opt /\ least' = least
         /\ \A n \in Node : SolutionOf(g)[n] \subseteq SolutionOf(g')[n]
<1>0. /\ prog \in Programs /\ GraphOK(g) /\ curr \subseteq Node /\ next \subseteq Node
      /\ cycleCandidates \subseteq Node /\ checkedEdges \subseteq Node \X Node
  BY DEF SolverInvariant, StateOK
<1>1. CASE SetUp
  BY <1>1, SetUpStep DEF SetUp
<1>2. CASE DetectCycles
  BY <1>2, DetectStep DEF DetectCycles
<1>3. CASE NoCandidates
  <2>1. /\ prog' = prog /\ opt' = opt /\ g' = g /\ collapseMap' = collapseMap /\ curr' = curr /\ next' = next
        /\ cycleCandidates' = cycleCandidates /\ checkedEdges' = checkedEdges /\ least' = least
        /\ pc' = "work" /\ pc = "iteration"
    BY <1>3 DEF NoCandidates
  <2>2. /\ Represented(g, collectConstraints(prog)) /\ Remembered(g, curr \cup next \cup MergedInto)
        /\ (~ opt.hcd => JustifiedBy(g, least))
    BY <2>1 DEF SolverInvariant
  <2>3. SolverInvariant'
    BY <1>0, <2>1, <2>2, LoopStep
  <2> QED
    BY <2>1, <2>3
<1>4. CASE \E n \in curr : Process(n)
  <2>1. PICK n \in curr : Process(n)
    BY <1>4
  <2> QED
    BY <2>1, ProcessStep DEF Process
<1>5. CASE Swap
  <2>1. /\ prog' = prog /\ opt' = opt /\ g' = g /\ collapseMap' = collapseMap /\ curr' = next /\ next' = {}
        /\ cycleCandidates' = cycleCandidates /\ checkedEdges' = checkedEdges /\ least' = least
        /\ pc = "work" /\ curr = {} /\ pc' = IF next = {} THEN "done" ELSE "iteration"
    BY <1>5 DEF Swap
  <2>2. /\ Represented(g, collectConstraints(prog)) /\ Remembered(g, curr \cup next \cup MergedInto)
        /\ (~ opt.hcd => JustifiedBy(g, least))
    BY <2>1 DEF SolverInvariant
  <2>3. Remembered(g', curr' \cup next' \cup MergedInto)
    <3>1. curr' \cup next' \cup MergedInto = curr \cup next \cup MergedInto
      BY <2>1
    <3> QED
      BY <2>1, <2>2, <3>1
  <2>4. SolverInvariant'
    BY <1>0, <2>1, <2>2, <2>3, LoopStep
  <2> QED
    BY <2>1, <2>4
<1>6. CASE Terminated \/ UNCHANGED vars
  <2>1. /\ prog' = prog /\ opt' = opt /\ g' = g /\ collapseMap' = collapseMap /\ curr' = curr /\ next' = next
        /\ cycleCandidates' = cycleCandidates /\ checkedEdges' = checkedEdges /\ least' = least /\ pc' = pc
    BY <1>6 DEF Terminated, vars
  <2>2. Node' = Node /\ MergedInto' = MergedInto
    BY <2>1 DEF Node, MergedInto
  <2>3. StateOK'
    BY <2>1, <2>2 DEF SolverInvariant, StateOK, GraphOK, Graphs
  <2>4. Remembered(g, curr \cup next \cup MergedInto)' <=> Remembered(g, curr \cup next \cup MergedInto)
    BY <2>1, <2>2 DEF Remembered, Sat, Linked
  <2>5. Represented(g, collectConstraints(prog))' <=> Represented(g, collectConstraints(prog))
    BY <2>1 DEF Represented, Linked
  <2>6. JustifiedBy(g, least)' <=> JustifiedBy(g, least)
    BY <2>1, <2>2 DEF JustifiedBy
  <2>7. SolverInvariant'
    BY <2>1, <2>3, <2>4, <2>5, <2>6 DEF SolverInvariant
  <2> QED
    BY <2>1, <2>7
<1> QED
  BY <1>1, <1>2, <1>3, <1>4, <1>5, <1>6 DEF Next

-----------------------------------------------------------------------------
(* The theorems. *)

(* SolverInvariant is an invariant of the solver. *)
LEMMA SolverInvariantHolds == Spec => []SolverInvariant
<1>1. Init => SolverInvariant
  BY InvariantInit
<1>2. SolverInvariant /\ [Next]_vars => SolverInvariant'
  BY SolverStep
<1> QED
  BY <1>1, <1>2, PTL DEF Spec

(* The graph, the work lists and the bookkeeping of cycle detection are    *)
(* about nodes of the program, and a node that stands for others stands    *)
(* for itself: following the merge targets of ConstraintGraph ends.        *)
THEOREM TypeCorrect == Spec => []TypeOK
<1>1. SolverInvariant => TypeOK
  BY DEF SolverInvariant, StateOK, GraphOK, Graphs, TypeOK
<1> QED
  BY <1>1, SolverInvariantHolds, PTL

(* Whatever the program, the options and the order of the work lists, a    *)
(* node whose edges do not carry its points-to set is on a work list of    *)
(* solveConstraints, or hybrid cycle detection merged others into it.      *)
THEOREM NothingIsForgotten == Spec => []NothingForgotten
<1>1. SolverInvariant => NothingForgotten
  <2> SUFFICES ASSUME SolverInvariant, pc \in {"iteration", "work", "done"},
                      NEW n \in Node, g.rep[n] = n, ~ Satisfied(n)
               PROVE  n \in {g.rep[m] : m \in curr \cup next} \cup CollapsedInto
    BY DEF NothingForgotten
  <2>1. Remembered(g, curr \cup next \cup MergedInto)
    BY DEF SolverInvariant
  <2>2. ~ Sat(g, n)
    BY DEF Sat, Satisfied, Linked
  <2>3. PICK m \in curr \cup next \cup MergedInto : g.rep[m] = n
    BY <2>1, <2>2 DEF Remembered
  <2> QED
    BY <2>3 DEF MergedInto, CollapsedInto
<1> QED
  BY <1>1, SolverInvariantHolds, PTL

(* When every node carries its points-to set, nodes that are linked have   *)
(* points-to sets in each other.                                           *)
LEMMA LinkedCarry ==
  ASSUME NEW h, GraphOK(h), \A n \in Node : h.rep[n] = n => Sat(h, n),
         NEW a \in Node, h.rep[a] = a, NEW b, Linked(h, a, b)
  PROVE  h.pts[a] \subseteq h.pts[b]
<1>1. CASE a = b
  BY <1>1
<1>2. CASE a # b
  <2>1. PICK c \in h.copy[a] : h.rep[c] = b
    BY <1>2 DEF Linked
  <2>2. Sat(h, a)
    OBVIOUS
  <2> QED
    BY <2>1, <2>2 DEF Sat
<1> QED
  BY <1>1, <1>2

(* A graph that stands for the constraints, whose nodes all carry their    *)
(* points-to sets, is a solution.                                          *)
LEMMA SaturatedSolves ==
  ASSUME prog \in Programs, NEW h, GraphOK(h), Represented(h, collectConstraints(prog)),
         \A n \in Node : h.rep[n] = n => Sat(h, n)
  PROVE  /\ SolutionOf(h) \in Assignment(prog)
         /\ Flows(prog, collectConstraints(prog), SolutionOf(h)) = SolutionOf(h)
<1> DEFINE cs == collectConstraints(prog)
           A == SolutionOf(h)
<1>0. /\ h.rep \in [Node -> Node] /\ h.pts \in [Node -> SUBSET Node]
      /\ h.load \in [Node -> SUBSET Node] /\ h.store \in [Node -> SUBSET Node]
      /\ \A n \in Node : h.rep[h.rep[n]] = h.rep[n]
  BY DEF GraphOK, Graphs
<1>1. cs \in SUBSET Constraints(prog)
  BY ProgramsAssumption DEF Constraints
<1>2. A \in Assignment(prog) /\ \A n \in Node : A[n] = h.pts[h.rep[n]]
  BY <1>0 DEF SolutionOf, Assignment, Node
<1>l. \A a \in Node : \A b : h.rep[a] = a /\ Linked(h, a, b) => h.pts[a] \subseteq h.pts[b]
  BY LinkedCarry
<1>r. \A c \in cs :
        /\ c.type = "addr_of" => c.src \in h.pts[h.rep[c.dest]]
        /\ c.type = "copy" => Linked(h, h.rep[c.src], h.rep[c.dest])
        /\ c.type = "load" => \E d \in h.load[h.rep[c.src]] : h.rep[d] = h.rep[c.dest]
        /\ c.type = "store" => \E s \in h.store[h.rep[c.dest]] : h.rep[s] = h.rep[c.src]
  BY DEF Represented
<1> HIDE DEF cs, A
<1>c. \A c \in cs : /\ c.src \in Node /\ c.dest \in Node
                    /\ h.rep[c.src] \in Node /\ h.rep[c.dest] \in Node
  BY <1>0, <1>1 DEF Constraints, Node
<1>3. ASSUME NEW n \in Node, NEW x \in Flows(prog, cs, A)[n] PROVE x \in A[n]
  <2>1. \/ x \in A[n]
        \/ \E c \in cs : \/ c.type = "addr_of" /\ c.dest = n /\ x = c.src
                         \/ c.type = "copy" /\ c.dest = n /\ x \in A[c.src]
                         \/ c.type = "load" /\ c.dest = n /\ \E v \in A[c.src] : x \in A[v]
                         \/ c.type = "store" /\ n \in A[c.dest] /\ x \in A[c.src]
    BY <1>1, <1>2, FlowsMember DEF Node
  <2>2. ASSUME NEW c \in cs, c.type = "addr_of", c.dest = n, x = c.src PROVE x \in A[n]
    BY <1>2, <1>r, <2>2
  <2>3. ASSUME NEW c \in cs, c.type = "copy", c.dest = n, x \in A[c.src] PROVE x \in A[n]
    <3>1. h.pts[h.rep[c.src]] \subseteq h.pts[h.rep[c.dest]]
      BY <1>0, <1>c, <1>l, <1>r, <2>3
    <3> QED
      BY <1>2, <1>c, <2>3, <3>1
  <2>4. ASSUME NEW c \in cs, c.type = "load", c.dest = n, NEW v \in A[c.src], x \in A[v] PROVE x \in A[n]
    <3>1. PICK d \in h.load[h.rep[c.src]] : h.rep[d] = h.rep[c.dest]
      BY <1>r, <2>4
    <3>2. v \in h.pts[h.rep[c.src]] /\ v \in Node /\ h.rep[v] \in Node
      BY <1>0, <1>2, <1>c
    <3>3. Sat(h, h.rep[c.src])
      BY <1>0, <1>c
    <3>4. Linked(h, h.rep[v], h.rep[d])
      BY <3>2, <3>3 DEF Sat
    <3>5. h.pts[h.rep[v]] \subseteq h.pts[h.rep[d]]
      BY <1>0, <1>l, <3>2, <3>4
    <3> QED
      BY <1>2, <2>4, <3>1, <3>2, <3>5
  <2>5. ASSUME NEW c \in cs, c.type = "store", n \in A[c.dest], x \in A[c.src] PROVE x \in A[n]
    <3>1. PICK s \in h.store[h.rep[c.dest]] : h.rep[s] = h.rep[c.src]
      BY <1>r, <2>5
    <3>2. n \in h.pts[h.rep[c.dest]] /\ h.rep[s] \in Node
      BY <1>2, <1>c, <2>5, <3>1
    <3>3. Sat(h, h.rep[c.dest])
      BY <1>0, <1>c
    <3>4. Linked(h, h.rep[s], h.rep[n])
      BY <3>2, <3>3 DEF Sat
    <3>5. h.pts[h.rep[s]] \subseteq h.pts[h.rep[n]]
      BY <1>0, <1>c, <1>l, <3>1, <3>2, <3>4
    <3> QED
      BY <1>2, <1>c, <2>5, <3>1, <3>5
  <2> QED
    BY <2>1, <2>2, <2>3, <2>4, <2>5
<1>4. Flows(prog, cs, A) \in Assignment(prog) /\ Below(A, Flows(prog, cs, A))
  BY <1>1, <1>2, FlowsMonotone
<1>5. Flows(prog, cs, A) = A
  <2>1. \A n \in Nodes(prog) : Flows(prog, cs, A)[n] = A[n]
    BY <1>2, <1>3, <1>4 DEF Below, Assignment, Node
  <2> QED
    BY <1>2, <1>4, <2>1 DEF Assignment
<1> QED
  BY <1>2, <1>5 DEF A, cs

(* Without hybrid cycle detection nothing is known that is not in the      *)
(* least solution.                                                         *)
LEMMA SolutionWithin ==
  ASSUME SolverInvariant, ~ opt.hcd
  PROVE  \A n \in Node : SolutionOf(g)[n] \subseteq least[n]
<1>1. JustifiedBy(g, least) /\ g.rep \in [Node -> Node]
  BY DEF SolverInvariant, StateOK, GraphOK, Graphs
<1> SUFFICES ASSUME NEW n \in Node PROVE SolutionOf(g)[n] \subseteq least[n]
  OBVIOUS
<1>2. g.rep[n] \in Node
  BY <1>1
<1>3. g.pts[g.rep[n]] \subseteq least[g.rep[n]] /\ least[g.rep[n]] = least[n]
  BY <1>1, <1>2 DEF JustifiedBy
<1> QED
  BY <1>3 DEF SolutionOf

(* Without hybrid cycle detection, when solveConstraints stops, the        *)
(* points-to sets are the least solution of the constraints, with or       *)
(* without lazy cycle detection and in whatever order nodes are taken from *)
(* the work lists.                                                         *)
THEOREM ExactWithoutHybrid == Spec => [](~ opt.hcd => FixedPoint)
<1>1. SolverInvariant => (~ opt.hcd => FixedPoint)
  <2> SUFFICES ASSUME SolverInvariant, ~ opt.hcd, pc = "done" PROVE Solution = least
    BY DEF FixedPoint
  <2>1. /\ StateOK /\ curr = {} /\ next = {} /\ DOMAIN collapseMap = {}
        /\ Represented(g, collectConstraints(prog)) /\ Remembered(g, curr \cup next \cup MergedInto)
    BY DEF SolverInvariant
  <2>2. /\ prog \in Programs /\ GraphOK(g) /\ least = LeastSolution(prog, collectConstraints(prog))
    BY <2>1 DEF StateOK
  <2>3. curr \cup next \cup MergedInto = {}
    BY <2>1 DEF MergedInto
  <2>4. \A n \in Node : g.rep[n] = n => Sat(g, n)
    BY <2>1, <2>3 DEF Remembered
  <2>5. /\ SolutionOf(g) \in Assignment(prog)
        /\ Flows(prog, collectConstraints(prog), SolutionOf(g)) = SolutionOf(g)
    BY <2>1, <2>2, <2>4, SaturatedSolves
  <2>6. least \in Assignment(prog) /\ Below(least, SolutionOf(g))
    BY <2>2, <2>5, LeastSolutionFacts
  <2>7. \A n \in Node : SolutionOf(g)[n] \subseteq least[n]
    BY SolutionWithin
  <2>8. \A n \in Nodes(prog) : SolutionOf(g)[n] = least[n]
    BY <2>6, <2>7 DEF Below, Assignment, Node
  <2>9. SolutionOf(g) = least
    BY <2>5, <2>6, <2>8 DEF Assignment
  <2> QED
    BY <2>9 DEF SolutionOf, Solution
<1> QED
  BY <1>1, SolverInvariantHolds, PTL

(* The solver implements PointsTo, but for its liveness: what is known of  *)
(* the points-to sets only grows, and stays within the least solution when *)
(* the solver is exact.                                                    *)
THEOREM ImplementsPointsToSafely == Spec => Abstract!Safe
<1>1. Init => Abstract!Init
  <2> SUFFICES ASSUME Init, NEW n \in DOMAIN Solution PROVE Solution[n] = {}
    BY DEF Abstract!Init
  <2> QED
    BY DEF Init, Solution, EmptyGraph, Everywhere, Node
<1>w. SolverInvariant => (~ opt.hcd => \A n \in Node : SolutionOf(g)[n] \subseteq least[n])
  BY SolutionWithin
<1>p. (SolverInvariant => (~ opt.hcd => \A n \in Node : SolutionOf(g)[n] \subseteq least[n]))'
  BY <1>w, PTL
<1>2. SolverInvariant /\ SolverInvariant' /\ [Next]_vars
        => [Abstract!Grow]_<<~ opt.hcd, least, Solution>>
  <2> SUFFICES ASSUME SolverInvariant, SolverInvariant', [Next]_vars PROVE Abstract!Grow
    OBVIOUS
  <2>1. /\ prog' = prog /\ opt' = opt /\ least' = least
        /\ \A n \in Node : SolutionOf(g)[n] \subseteq SolutionOf(g')[n]
    BY SolverStep
  <2>2. Node' = Node
    BY <2>1 DEF Node
  <2>3. /\ Solution = SolutionOf(g) /\ Solution' = SolutionOf(g')
        /\ DOMAIN Solution = Node /\ DOMAIN Solution' = Node
    BY <2>2 DEF Solution, SolutionOf
  <2>4. ~ opt.hcd => \A n \in Node : SolutionOf(g')[n] \subseteq least[n]
    <3>1. ~ opt'.hcd => \A n \in Node' : SolutionOf(g)'[n] \subseteq least'[n]
      BY <1>p
    <3>2. SolutionOf(g)' = SolutionOf(g')
      BY <2>2 DEF SolutionOf
    <3> QED
      BY <2>1, <2>2, <3>1, <3>2
  <2>5. Abstract!Within(Solution, Solution')
    BY <2>1, <2>3 DEF Abstract!Within
  <2>6. ~ opt.hcd => Abstract!Within(Solution', least)
    BY <2>3, <2>4 DEF Abstract!Within
  <2> QED
    BY <2>1, <2>3, <2>5, <2>6 DEF Abstract!Grow
<1> QED
  BY <1>1, <1>2, SolverInvariantHolds, PTL DEF Spec, Abstract!Safe

-----------------------------------------------------------------------------
(* Soundness: the constraints collected for a program cover what its       *)
(* instructions do.                                                        *)

(* What an instruction i puts in n, one case for each kind. *)
WrittenBy(P, i, E, n, x) ==
  \/ i.op = "alloca" /\ n = i.val /\ x = i.obj
  \/ i.op = "load" /\ n = i.val /\ x \in HeldBehind(E, i.ptr)
  \/ i.op = "store" /\ n \in Held(E, i.ptr) /\ x \in Held(E, i.src)
  \/ i.op = "copy" /\ n = i.val /\ \E s \in i.srcs : x \in Held(E, s)
  \/ i.op = "ret" /\ n = P.fun[i.fn].ret /\ x \in Held(E, i.src)
  \/ i.op = "va_arg" /\ n = i.val /\ x \in Held(E, P.fun[i.fn].va)
  \/ i.op = "icall" /\ \E f \in DOMAIN P.fun : /\ P.fun[f].obj \in Held(E, i.ptr)
                                               /\ Len(P.fun[f].params) = Len(i.args)
                                               /\ x \in PassedTo(i, P.fun[f], E, n)
  \/ i.op = "call" /\ ~ P.fun[i.callee].isDecl /\ x \in PassedTo(i, P.fun[i.callee], E, n)
  \/ i.op = "call" /\ ~ P.fun[i.callee].isDecl /\ n = i.val /\ x \in Held(E, P.fun[i.callee].ret)
  \/ i.op = "call" /\ P.fun[i.callee].isDecl /\ P.fun[i.callee].lib = "malloc"
       /\ n = i.val /\ x = i.obj
  \/ i.op = "call" /\ P.fun[i.callee].isDecl /\ P.fun[i.callee].lib = "memcpy"
       /\ n \in Held(E, i.args[1]) /\ x \in HeldBehind(E, i.args[2])
  \/ i.op = "call" /\ P.fun[i.callee].isDecl /\ P.fun[i.callee].lib = "memcpy"
       /\ n = i.val /\ x \in Held(E, i.args[1])

LEMMA WritesMember ==
  ASSUME NEW P, NEW i, NEW E, NEW n, NEW x
  PROVE  x \in Writes(P, i, E, n) <=> WrittenBy(P, i, E, n, x)
<1>1. CASE i.op = "alloca"
  BY <1>1 DEF Writes, WrittenBy
<1>2. CASE i.op = "load"
  BY <1>2 DEF Writes, WrittenBy
<1>3. CASE i.op = "store"
  BY <1>3 DEF Writes, WrittenBy
<1>4. CASE i.op = "copy"
  BY <1>4 DEF Writes, WrittenBy
<1>5. CASE i.op = "ret"
  BY <1>5 DEF Writes, WrittenBy
<1>6. CASE i.op = "va_arg"
  BY <1>6 DEF Writes, WrittenBy
<1>7. CASE i.op = "icall"
  BY <1>7 DEF Writes, WrittenBy
<1>8. CASE i.op = "call"
  <2>1. CASE ~ P.fun[i.callee].isDecl
    BY <1>8, <2>1 DEF Writes, WrittenBy
  <2>2. CASE P.fun[i.callee].isDecl /\ P.fun[i.callee].lib = "malloc"
    BY <1>8, <2>2 DEF Writes, WrittenBy
  <2>3. CASE P.fun[i.callee].isDecl /\ P.fun[i.callee].lib = "memcpy"
    BY <1>8, <2>3 DEF Writes, WrittenBy
  <2>4. CASE P.fun[i.callee].isDecl /\ P.fun[i.callee].lib \notin {"malloc", "memcpy"}
    BY <1>8, <2>4 DEF Writes, WrittenBy
  <2> QED
    BY <2>1, <2>2, <2>3, <2>4
<1>9. CASE i.op \notin {"alloca", "load", "store", "copy", "ret", "va_arg", "call", "icall"}
  BY <1>9 DEF Writes, WrittenBy
<1> QED
  BY <1>1, <1>2, <1>3, <1>4, <1>5, <1>6, <1>7, <1>8, <1>9

(* The more pointers hold, the more is handed on. *)
LEMMA HeldMonotone ==
  ASSUME NEW P, NEW A \in Assignment(P), NEW B \in Assignment(P), Below(A, B),
         NEW v \in Values(P)
  PROVE  /\ Held(A, v) \subseteq Held(B, v) /\ Held(A, v) \subseteq Nodes(P)
         /\ HeldBehind(A, v) \subseteq HeldBehind(B, v) /\ HeldBehind(A, v) \subseteq Nodes(P)
<1>1. \A n \in Nodes(P) : A[n] \subseteq B[n] /\ A[n] \subseteq Nodes(P)
  BY DEF Below, Assignment
<1>2. Held(A, v) \subseteq Held(B, v) /\ Held(A, v) \subseteq Nodes(P)
  BY <1>1 DEF Held, Values
<1> QED
  BY <1>1, <1>2 DEF HeldBehind

LEMMA PassedMonotone ==
  ASSUME NEW P, NEW A \in Assignment(P), NEW B \in Assignment(P), Below(A, B),
         NEW i, i.args \in Seq(Values(P)), NEW f, NEW n
  PROVE  /\ PassedTo(i, f, A, n) \subseteq PassedTo(i, f, B, n)
         /\ PassedTo(i, f, A, n) \subseteq Nodes(P)
<1> DEFINE K == {j \in DOMAIN i.args : n = IF j \in DOMAIN f.params THEN f.params[j] ELSE f.va}
<1>1. \A k \in K : i.args[k] \in Values(P)
  OBVIOUS
<1>2. \A E : PassedTo(i, f, E, n) = UNION {Held(E, i.args[k]) : k \in K}
  BY DEF PassedTo
<1> HIDE DEF K
<1>3. \A k \in K : Held(A, i.args[k]) \subseteq Held(B, i.args[k]) /\ Held(A, i.args[k]) \subseteq Nodes(P)
  BY <1>1, HeldMonotone
<1> QED
  BY <1>2, <1>3

(* An instruction puts more where it finds more, and only nodes. *)
LEMMA WritesMonotone ==
  ASSUME NEW P \in Programs, NEW A \in Assignment(P), NEW B \in Assignment(P), Below(A, B),
         NEW i \in P.insts, NEW n \in Nodes(P), NEW x, WrittenBy(P, i, A, n, x)
  PROVE  WrittenBy(P, i, B, n, x) /\ x \in Nodes(P)
<1>0. InstructionOK(P, i) /\ GlobalsOK(P)
  BY ProgramsAssumption
<1>f. \A f \in DOMAIN P.fun : {P.fun[f].ret, P.fun[f].va} \subseteq Values(P)
  BY <1>0 DEF GlobalsOK
<1>h. \A v \in Values(P) : /\ Held(A, v) \subseteq Held(B, v) /\ Held(A, v) \subseteq Nodes(P)
                           /\ HeldBehind(A, v) \subseteq HeldBehind(B, v)
                           /\ HeldBehind(A, v) \subseteq Nodes(P)
  BY HeldMonotone
<1>p. i.args \in Seq(Values(P)) => \A f : /\ PassedTo(i, f, A, n) \subseteq PassedTo(i, f, B, n)
                                          /\ PassedTo(i, f, A, n) \subseteq Nodes(P)
  BY PassedMonotone
<1>n. \A v \in Values(P) : n = v => v \in Nodes(P)
  OBVIOUS
<1>1. CASE i.op = "alloca"
  BY <1>0, <1>1 DEF WrittenBy, InstructionOK
<1>2. CASE i.op = "load"
  BY <1>0, <1>2, <1>h DEF WrittenBy, InstructionOK
<1>3. CASE i.op = "store"
  BY <1>0, <1>3, <1>h DEF WrittenBy, InstructionOK
<1>4. CASE i.op = "copy"
  BY <1>0, <1>4, <1>h DEF WrittenBy, InstructionOK
<1>5. CASE i.op = "ret"
  BY <1>0, <1>5, <1>h DEF WrittenBy, InstructionOK
<1>6. CASE i.op = "va_arg"
  BY <1>0, <1>6, <1>f, <1>h DEF WrittenBy, InstructionOK
<1>7. CASE i.op = "icall"
  <2>1. i.ptr \in Values(P) /\ i.args \in Seq(Values(P))
    BY <1>0, <1>7 DEF InstructionOK
  <2> QED
    BY <1>7, <1>h, <1>p, <2>1 DEF WrittenBy
<1>8. CASE i.op = "call"
  <2>1. /\ i.val \in Values(P) /\ i.args \in Seq(Values(P)) /\ i.callee \in DOMAIN P.fun
        /\ P.fun[i.callee].lib = "malloc" /\ i.val # NoNode => i.obj \in Nodes(P)
        /\ P.fun[i.callee].lib = "memcpy" => i.tmp \in Nodes(P) /\ Len(i.args) >= 2
    BY <1>0, <1>8 DEF InstructionOK
  <2>2. CASE ~ P.fun[i.callee].isDecl
    BY <1>8, <1>f, <1>h, <1>p, <2>1, <2>2 DEF WrittenBy
  <2>3. CASE P.fun[i.callee].isDecl /\ P.fun[i.callee].lib = "malloc"
    <3>1. i.val # NoNode
      BY <1>8, <2>3 DEF WrittenBy, Nodes, NoNode
    <3> QED
      BY <1>8, <2>1, <2>3, <3>1 DEF WrittenBy
  <2>4. CASE P.fun[i.callee].isDecl /\ P.fun[i.callee].lib = "memcpy"
    <3>1. i.args[1] \in Values(P) /\ i.args[2] \in Values(P)
      BY <2>1, <2>4
    <3> QED
      BY <1>8, <1>h, <2>4, <3>1 DEF WrittenBy
  <2> QED
    BY <1>8, <2>2, <2>3, <2>4 DEF WrittenBy
<1> QED
  BY <1>0, <1>1, <1>2, <1>3, <1>4, <1>5, <1>6, <1>7, <1>8 DEF InstructionOK

(* What the least solution holds, read off the constraints. *)
LEMMA LeastHolds ==
  ASSUME NEW P \in Programs, NEW a \in Values(P), NEW b \in Values(P)
  PROVE  LET cs == collectConstraints(P)
             L == LeastSolution(P, cs)
         IN  /\ ADDR_OF(a, b) \subseteq cs /\ a # NoNode /\ b # NoNode => b \in L[a]
             /\ COPY(a, b) \subseteq cs /\ a # NoNode => Held(L, b) \subseteq L[a]
             /\ LOAD(a, b) \subseteq cs /\ a # NoNode => HeldBehind(L, b) \subseteq L[a]
             /\ STORE(a, b) \subseteq cs => \A o \in Held(L, a) : Held(L, b) \subseteq L[o]
<1> DEFINE cs == collectConstraints(P)
           L == LeastSolution(P, cs)
<1>1. \A c \in cs : /\ c.type = "addr_of" => c.src \in L[c.dest]
                    /\ c.type = "copy" => L[c.src] \subseteq L[c.dest]
                    /\ c.type = "load" => \A v \in L[c.src] : L[v] \subseteq L[c.dest]
                    /\ c.type = "store" => \A v \in L[c.dest] : L[c.src] \subseteq L[v]
  BY LeastClosedUnder
<1> HIDE DEF cs, L
<1>2. \A t : Constraint(t, a, b) \subseteq cs /\ a # NoNode /\ b # NoNode
               => [type |-> t, dest |-> a, src |-> b] \in cs
  BY DEF Constraint
<1>r. ASSUME NEW t, [type |-> t, dest |-> a, src |-> b] \in cs
      PROVE  /\ t = "addr_of" => b \in L[a]
             /\ t = "copy" => L[b] \subseteq L[a]
             /\ t = "load" => \A v \in L[b] : L[v] \subseteq L[a]
             /\ t = "store" => \A v \in L[a] : L[b] \subseteq L[v]
  <2> DEFINE c == [type |-> t, dest |-> a, src |-> b]
  <2>1. c \in cs /\ c.type = t /\ c.dest = a /\ c.src = b
    BY <1>r
  <2> HIDE DEF c
  <2> QED
    BY <1>1, <2>1
<1>3. ADDR_OF(a, b) \subseteq cs /\ a # NoNode /\ b # NoNode => b \in L[a]
  <2>1. ADDR_OF(a, b) = Constraint("addr_of", a, b)
    BY DEF ADDR_OF
  <2> QED
    BY <1>2, <1>r, <2>1
<1>4. COPY(a, b) \subseteq cs /\ a # NoNode => Held(L, b) \subseteq L[a]
  <2>1. COPY(a, b) = Constraint("copy", a, b)
    BY DEF COPY
  <2> QED
    BY <1>2, <1>r, <2>1 DEF Held
<1>5. LOAD(a, b) \subseteq cs /\ a # NoNode => HeldBehind(L, b) \subseteq L[a]
  <2>1. LOAD(a, b) = Constraint("load", a, b)
    BY DEF LOAD
  <2>2. LOAD(a, b) \subseteq cs /\ a # NoNode /\ b # NoNode => \A v \in L[b] : L[v] \subseteq L[a]
    BY <1>2, <1>r, <2>1
  <2> QED
    BY <2>2 DEF Held, HeldBehind
<1>6. STORE(a, b) \subseteq cs => \A o \in Held(L, a) : Held(L, b) \subseteq L[o]
  <2>1. STORE(a, b) = Constraint("store", a, b)
    BY DEF STORE
  <2> QED
    BY <1>2, <1>r, <2>1 DEF Held
<1> QED
  BY <1>3, <1>4, <1>5, <1>6 DEF cs, L

(* The constraints for the arguments of a call cover what it hands over. *)
LEMMA ArgumentsHeld ==
  ASSUME NEW P \in Programs, NEW i, i.args \in Seq(Values(P)), NEW f \in DOMAIN P.fun,
         addArgumentConstraintForCall(i, P.fun[f]) \subseteq collectConstraints(P),
         NEW n \in Nodes(P)
  PROVE  PassedTo(i, P.fun[f], LeastSolution(P, collectConstraints(P)), n)
           \subseteq LeastSolution(P, collectConstraints(P))[n]
<1> DEFINE cs == collectConstraints(P)
           L == LeastSolution(P, cs)
           F == P.fun[f]
<1>1. F.va \in Values(P) /\ F.params \in Seq(Values(P)) /\ (~ F.isVarArg => F.va = NoNode)
  BY ProgramsAssumption DEF GlobalsOK
<1>n. n # NoNode /\ n \in Values(P)
  BY DEF Nodes, NoNode, Values
<1>2. \A b \in Values(P) : COPY(n, b) \subseteq cs => Held(L, b) \subseteq L[n]
  BY <1>n, LeastHolds
<1>3. addArgumentConstraintForCall(i, F) \subseteq cs
  OBVIOUS
<1> HIDE DEF cs, L, F
<1> SUFFICES ASSUME NEW k \in DOMAIN i.args,
                    n = IF k \in DOMAIN F.params THEN F.params[k] ELSE F.va
             PROVE  Held(L, i.args[k]) \subseteq L[n]
  BY DEF PassedTo, cs, L, F
<1>4. i.args[k] \in Values(P)
  OBVIOUS
<1>5. CASE i.args[k] = NoNode
  BY <1>5 DEF Held
<1>6. CASE i.args[k] # NoNode /\ k \in DOMAIN F.params
  <2>1. COPY(n, i.args[k]) \subseteq addArgumentConstraintForCall(i, F)
    BY <1>6, <1>n DEF addArgumentConstraintForCall
  <2> QED
    BY <1>2, <1>3, <1>4, <2>1
<1>7. CASE i.args[k] # NoNode /\ k \notin DOMAIN F.params
  <2>1. F.isVarArg /\ n = F.va
    BY <1>1, <1>7, <1>n
  <2>2. COPY(n, i.args[k]) \subseteq addArgumentConstraintForCall(i, F)
    BY <1>7, <2>1 DEF addArgumentConstraintForCall
  <2> QED
    BY <1>2, <1>3, <1>4, <2>2
<1> QED
  BY <1>5, <1>6, <1>7

(* What an instruction writes is in the least solution. *)
LEMMA WritesHeld ==
  ASSUME NEW P \in Programs, NEW i \in P.insts, NEW n \in Nodes(P), NEW x,
         WrittenBy(P, i, LeastSolution(P, collectConstraints(P)), n, x)
  PROVE  x \in LeastSolution(P, collectConstraints(P))[n]
<1> DEFINE cs == collectConstraints(P)
           L == LeastSolution(P, cs)
           mine == collectConstraintsForInstruction(P, i)
<1>0. InstructionOK(P, i) /\ GlobalsOK(P) /\ L \in Assignment(P)
  BY ProgramsAssumption, LeastSolutionFacts
<1>n. n # NoNode /\ NoNode \notin Nodes(P) /\ \A m \in Nodes(P) : m \in Values(P)
  BY DEF Nodes, NoNode, Values
<1>m. mine \subseteq cs
  BY DEF collectConstraints
<1>w. WrittenBy(P, i, L, n, x)
  OBVIOUS
<1>a. ASSUME NEW b \in Values(P), NEW a \in Values(P)
      PROVE /\ ADDR_OF(a, b) \subseteq cs /\ a # NoNode /\ b # NoNode => b \in L[a]
            /\ COPY(a, b) \subseteq cs /\ a # NoNode => Held(L, b) \subseteq L[a]
            /\ LOAD(a, b) \subseteq cs /\ a # NoNode => HeldBehind(L, b) \subseteq L[a]
            /\ STORE(a, b) \subseteq cs => \A o \in Held(L, a) : Held(L, b) \subseteq L[o]
  BY LeastHolds
<1>p. ASSUME i.args \in Seq(Values(P)), NEW f \in DOMAIN P.fun,
             addArgumentConstraintForCall(i, P.fun[f]) \subseteq cs
      PROVE  PassedTo(i, P.fun[f], L, n) \subseteq L[n]
  BY <1>p, ArgumentsHeld
<1> HIDE DEF cs, L
<1> SUFFICES x \in L[n]
  BY DEF cs, L
<1>f. \A f \in DOMAIN P.fun : {P.fun[f].ret, P.fun[f].va} \subseteq Values(P)
  BY <1>0 DEF GlobalsOK
<1>1. CASE i.op = "alloca"
  <2>1. i.val \in Nodes(P) /\ i.obj \in Nodes(P) /\ n = i.val /\ x = i.obj
    BY <1>0, <1>1, <1>w DEF InstructionOK, WrittenBy
  <2>2. ADDR_OF(n, x) \subseteq cs
    BY <1>1, <1>m, <2>1 DEF collectConstraintsForInstruction
  <2> QED
    BY <1>a, <1>n, <2>1, <2>2
<1>2. CASE i.op = "load"
  <2>1. i.ptr \in Values(P) /\ n = i.val /\ x \in HeldBehind(L, i.ptr)
    BY <1>0, <1>2, <1>w DEF InstructionOK, WrittenBy
  <2>2. LOAD(n, i.ptr) \subseteq cs
    BY <1>2, <1>m, <2>1 DEF collectConstraintsForInstruction
  <2> QED
    BY <1>a, <1>n, <2>1, <2>2
<1>3. CASE i.op = "store"
  <2>1. i.ptr \in Values(P) /\ i.src \in Values(P) /\ n \in Held(L, i.ptr) /\ x \in Held(L, i.src)
    BY <1>0, <1>3, <1>w DEF InstructionOK, WrittenBy
  <2>2. STORE(i.ptr, i.src) \subseteq cs
    BY <1>3, <1>m DEF collectConstraintsForInstruction
  <2> QED
    BY <1>a, <2>1, <2>2
<1>4. CASE i.op = "copy"
  <2>1. n = i.val /\ i.srcs \subseteq Values(P) /\ \E s \in i.srcs : x \in Held(L, s)
    BY <1>0, <1>4, <1>w DEF InstructionOK, WrittenBy
  <2>2. PICK s \in i.srcs : x \in Held(L, s)
    BY <2>1
  <2>3. COPY(n, s) \subseteq cs
    BY <1>4, <1>m, <2>1, <2>2 DEF collectConstraintsForInstruction
  <2> QED
    BY <1>a, <1>n, <2>1, <2>2, <2>3
<1>5. CASE i.op = "ret"
  <2>1. n = P.fun[i.fn].ret /\ i.src \in Values(P) /\ x \in Held(L, i.src)
    BY <1>0, <1>5, <1>w DEF InstructionOK, WrittenBy
  <2>2. COPY(n, i.src) \subseteq cs
    BY <1>5, <1>m, <2>1 DEF collectConstraintsForInstruction
  <2> QED
    BY <1>a, <1>n, <2>1, <2>2
<1>6. CASE i.op = "va_arg"
  <2>1. n = i.val /\ i.fn \in DOMAIN P.fun /\ x \in Held(L, P.fun[i.fn].va)
    BY <1>0, <1>6, <1>w DEF InstructionOK, WrittenBy
  <2>2. COPY(n, P.fun[i.fn].va) \subseteq cs
    BY <1>6, <1>m, <2>1 DEF collectConstraintsForInstruction
  <2> QED
    BY <1>a, <1>f, <1>n, <2>1, <2>2
<1>7. CASE i.op = "icall"
  <2>1. i.ptr \in Values(P) /\ i.args \in Seq(Values(P))
    BY <1>0, <1>7 DEF InstructionOK
  <2>2. PICK f \in DOMAIN P.fun : /\ P.fun[f].obj \in Held(L, i.ptr)
                                  /\ Len(P.fun[f].params) = Len(i.args)
                                  /\ x \in PassedTo(i, P.fun[f], L, n)
    BY <1>7, <1>w DEF WrittenBy
  <2>3. P.fun[f].obj # NoNode
    <3>1. Held(L, i.ptr) \subseteq Nodes(P)
      BY <1>0, <2>1 DEF Held, Values, Assignment
    <3> QED
      BY <1>n, <2>2, <3>1
  <2>4. /\ P.fun[f].val # NoNode /\ P.fun[f].params \in Seq(Values(P))
        /\ P.fun[f].isDecl => P.fun[f].va = NoNode
                               /\ \A k \in DOMAIN P.fun[f].params : P.fun[f].params[k] = NoNode
    BY <1>0, <2>3 DEF GlobalsOK
  <2>5. ~ P.fun[f].isDecl
    BY <1>n, <2>2, <2>4 DEF PassedTo
  <2>6. addArgumentConstraintForCall(i, P.fun[f]) \subseteq addConstraintForIndirectCall(P, i)
    BY <2>2, <2>4, <2>5 DEF addConstraintForIndirectCall
  <2>7. addArgumentConstraintForCall(i, P.fun[f]) \subseteq cs
    BY <1>7, <1>m, <2>6 DEF collectConstraintsForInstruction
  <2> QED
    BY <1>p, <2>1, <2>2, <2>7
<1>8. CASE i.op = "call"
  <2> DEFINE F == P.fun[i.callee]
  <2>1. /\ i.val \in Values(P) /\ i.args \in Seq(Values(P)) /\ i.callee \in DOMAIN P.fun
        /\ F.lib = "malloc" /\ i.val # NoNode => i.obj \in Nodes(P)
        /\ F.lib = "memcpy" => i.tmp \in Nodes(P) /\ Len(i.args) >= 2
    BY <1>0, <1>8 DEF InstructionOK
  <2>2. addConstraintForDirectCall(P, i, F) \subseteq cs
    BY <1>8, <1>m DEF collectConstraintsForInstruction
  <2>3. CASE ~ F.isDecl
    <3>1. addArgumentConstraintForCall(i, F) \subseteq cs /\ COPY(i.val, F.ret) \subseteq cs
      BY <2>2, <2>3 DEF addConstraintForDirectCall
    <3>2. CASE x \in PassedTo(i, F, L, n)
      BY <1>p, <2>1, <3>1, <3>2
    <3>3. CASE n = i.val /\ x \in Held(L, F.ret)
      BY <1>a, <1>f, <1>n, <2>1, <3>1, <3>3
    <3> QED
      BY <1>8, <1>w, <2>3, <3>2, <3>3 DEF WrittenBy
  <2>4. CASE F.isDecl /\ F.lib = "malloc"
    <3>1. n = i.val /\ x = i.obj
      BY <1>8, <1>w, <2>4 DEF WrittenBy
    <3>2. ADDR_OF(n, x) \subseteq cs
      BY <1>n, <2>2, <2>4, <3>1 DEF addConstraintForDirectCall, addConstraintForExternalLibrary
    <3> QED
      BY <1>a, <1>n, <2>1, <2>4, <3>1, <3>2
  <2>5. CASE F.isDecl /\ F.lib = "memcpy"
    <3>1. i.args[1] \in Values(P) /\ i.args[2] \in Values(P) /\ i.tmp \in Nodes(P)
      BY <2>1, <2>5
    <3>2. /\ LOAD(i.tmp, i.args[2]) \subseteq cs /\ STORE(i.args[1], i.tmp) \subseteq cs
          /\ COPY(i.val, i.args[1]) \subseteq cs
      BY <2>2, <2>5 DEF addConstraintForDirectCall, addConstraintForExternalLibrary
    <3>3. HeldBehind(L, i.args[2]) \subseteq Held(L, i.tmp)
      BY <1>a, <1>n, <3>1, <3>2 DEF Held
    <3>4. \A o \in Held(L, i.args[1]) : Held(L, i.tmp) \subseteq L[o]
      BY <1>a, <1>n, <3>1, <3>2
    <3>5. CASE n \in Held(L, i.args[1]) /\ x \in HeldBehind(L, i.args[2])
      BY <3>3, <3>4, <3>5
    <3>6. CASE n = i.val /\ x \in Held(L, i.args[1])
      BY <1>a, <1>n, <2>1, <3>1, <3>2, <3>6
    <3> QED
      BY <1>8, <1>w, <2>5, <3>5, <3>6 DEF WrittenBy
  <2> QED
    BY <1>8, <1>w, <2>3, <2>4, <2>5 DEF WrittenBy
<1> QED
  BY <1>0, <1>1, <1>2, <1>3, <1>4, <1>5, <1>6, <1>7, <1>8 DEF InstructionOK

(* What globals and functions are set up with is in it, too. *)
LEMMA AddressesHeld ==
  ASSUME NEW P \in Programs
  PROVE  /\ Addresses(P) \in Assignment(P)
         /\ Below(Addresses(P), LeastSolution(P, collectConstraints(P)))
<1> DEFINE cs == collectConstraints(P)
           L == LeastSolution(P, cs)
<1>0. GlobalsOK(P) /\ collectConstraintsForGlobals(P) \subseteq cs
  BY ProgramsAssumption DEF collectConstraints
<1>n. NoNode \notin Nodes(P) /\ \A m \in Nodes(P) : m \in Values(P)
  BY DEF Nodes, NoNode, Values
<1>a. \A a, b \in Nodes(P) : ADDR_OF(a, b) \subseteq cs => b \in L[a]
  BY <1>n, LeastHolds
<1> HIDE DEF cs, L
<1>g. \A y \in P.globals : /\ y.val \in Nodes(P) /\ y.obj \in Nodes(P) /\ y.init \subseteq Nodes(P)
                           /\ y.kind # "init" => y.init = {}
  BY <1>0 DEF GlobalsOK
<1>f. \A f \in DOMAIN P.fun : P.fun[f].val \in Nodes(P) => P.fun[f].obj \in Nodes(P)
  BY <1>0, <1>n DEF GlobalsOK, Values
<1>1. ASSUME NEW y \in P.globals PROVE y.obj \in L[y.val] /\ \A o \in y.init : o \in L[y.obj]
  <2>1. ADDR_OF(y.val, y.obj) \cup addGlobalInitializerConstraints(y) \subseteq cs
    BY <1>0 DEF collectConstraintsForGlobals
  <2>2. \A o \in y.init : ADDR_OF(y.obj, o) \subseteq addGlobalInitializerConstraints(y)
    BY <1>g DEF addGlobalInitializerConstraints
  <2> QED
    BY <1>a, <1>g, <2>1, <2>2
<1>2. ASSUME NEW f \in DOMAIN P.fun, P.fun[f].val \in Nodes(P) PROVE P.fun[f].obj \in L[P.fun[f].val]
  <2>1. ADDR_OF(P.fun[f].val, P.fun[f].obj) \subseteq cs
    BY <1>0 DEF collectConstraintsForGlobals
  <2> QED
    BY <1>2, <1>a, <1>f, <2>1
<1>3. ASSUME NEW n \in Nodes(P), NEW x \in Addresses(P)[n]
      PROVE  \/ \E y \in P.globals : y.val = n /\ x = y.obj
             \/ \E f \in DOMAIN P.fun : P.fun[f].val = n /\ x = P.fun[f].obj
             \/ \E y \in P.globals : y.obj = n /\ x \in y.init
  BY DEF Addresses
<1>4. \A n \in Nodes(P) : \A x \in Addresses(P)[n] : x \in L[n] /\ x \in Nodes(P)
  BY <1>1, <1>2, <1>3, <1>f, <1>g
<1>5. Addresses(P) = [n \in Nodes(P) |-> Addresses(P)[n]] /\ DOMAIN Addresses(P) = Nodes(P)
  BY DEF Addresses
<1>6. Below(Addresses(P), L)
  BY <1>4, <1>5 DEF Below
<1>7. Addresses(P) \in Assignment(P)
  BY <1>4, <1>5 DEF Assignment
<1> QED
  BY <1>6, <1>7 DEF L, cs

(* What executions can put in the nodes is within the least solution of    *)
(* the constraints: the least solution is closed under the instructions.   *)
LEMMA ReadsWithin ==
  ASSUME NEW P \in Programs
  PROVE  Below(Reads(P), LeastSolution(P, collectConstraints(P))) /\ DOMAIN Reads(P) = Nodes(P)
<1> DEFINE L == LeastSolution(P, collectConstraints(P))
           Round(h) == [A \in Assignment(P) |-> LET T == Executed(P, A) IN IF A = T THEN A ELSE h[T]]
           f == CHOOSE h : h = Round(h)
           F == [A \in Assignment(P) |-> Executed(P, A)]
           start == Addresses(P)
<1>0. P.nodes \in Nat /\ L \in Assignment(P) /\ start \in Assignment(P) /\ Below(start, L)
  BY ProgramsAssumption, LeastSolutionFacts, AddressesHeld
<1>l. \A i \in P.insts, n \in Nodes(P) : \A x : WrittenBy(P, i, L, n, x) => x \in L[n]
  BY WritesHeld
<1>1. Reads(P) = f[start]
  BY DEF Reads, Assignment
<1> HIDE DEF L, start
<1>e. \A A : \A n \in Nodes(P) : \A x :
        x \in Executed(P, A)[n] <=> x \in A[n] \/ \E i \in P.insts : WrittenBy(P, i, A, n, x)
  <2> SUFFICES ASSUME NEW A, NEW n \in Nodes(P), NEW x
               PROVE  x \in Executed(P, A)[n] <=> x \in A[n] \/ \E i \in P.insts : x \in Writes(P, i, A, n)
    BY WritesMember
  <2> QED
    BY DEF Executed
<1>d. \A A : Executed(P, A) = [n \in Nodes(P) |-> Executed(P, A)[n]] /\ DOMAIN Executed(P, A) = Nodes(P)
  BY DEF Executed
<1>m. \A A, B \in Assignment(P) : Below(A, B) => \A i \in P.insts, n \in Nodes(P) : \A x :
        WrittenBy(P, i, A, n, x) => WrittenBy(P, i, B, n, x) /\ x \in Nodes(P)
  BY WritesMonotone
<1>v. \A A \in Assignment(P) : DOMAIN A = Nodes(P) /\ \A n \in Nodes(P) : A[n] \subseteq Nodes(P)
  BY DEF Assignment
<1>b. \A A \in Assignment(P) : Below(A, A)
  BY DEF Below
<1>2. Monotone(P, F)
  <2>1. ASSUME NEW A \in Assignment(P) PROVE Executed(P, A) \in Assignment(P) /\ Below(A, Executed(P, A))
    <3>1. \A n \in Nodes(P) : \A x \in Executed(P, A)[n] : x \in Nodes(P)
      BY <1>b, <1>e, <1>m, <1>v
    <3>2. Executed(P, A) \in Assignment(P)
      BY <1>d, <3>1 DEF Assignment
    <3>3. Below(A, Executed(P, A))
      BY <1>e, <1>v DEF Below
    <3> QED
      BY <3>2, <3>3
  <2>2. ASSUME NEW A \in Assignment(P), NEW B \in Assignment(P), Below(A, B)
        PROVE  Below(Executed(P, A), Executed(P, B))
    <3>1. \A n \in Nodes(P) : A[n] \subseteq B[n]
      BY <1>v, <2>2 DEF Below
    <3>2. ASSUME NEW n \in Nodes(P), NEW x \in Executed(P, A)[n] PROVE x \in Executed(P, B)[n]
      BY <1>e, <1>m, <2>2, <3>1
    <3> QED
      BY <1>d, <3>2 DEF Below
  <2> QED
    BY <2>1, <2>2 DEF Monotone
<1>3. \A h : Round(h) = [A \in Assignment(P) |-> IF A = F[A] THEN A ELSE h[F[A]]]
  OBVIOUS
<1>a. \A A \in Assignment(P) : F[A] = Executed(P, A)
  OBVIOUS
<1> HIDE DEF F, Round
<1>4. \A h : Iterates(P, F, h) <=> h = Round(h)
  BY <1>3 DEF Iterates
<1>5. f = Round(f)
  BY <1>2, <1>4, IterationExists
<1> HIDE DEF f
<1>6. Reads(P) = LeastAbove(P, F, start)
  BY <1>0, <1>1, <1>2, <1>4, <1>5, IterationUnique
<1>7. F[L] = L
  <2>1. Executed(P, L) \in Assignment(P) /\ Below(L, Executed(P, L))
    BY <1>0, <1>2, <1>a DEF Monotone
  <2>2. \A n \in Nodes(P) : Executed(P, L)[n] = L[n]
    BY <1>e, <1>l
  <2>3. Executed(P, L) = L
    BY <1>0, <2>1, <2>2 DEF Assignment
  <2> QED
    BY <1>0, <1>a, <2>3
<1>8. /\ LeastAbove(P, F, start) \in Assignment(P)
      /\ \A Z \in Assignment(P) : Below(start, Z) /\ F[Z] = Z => Below(LeastAbove(P, F, start), Z)
  BY <1>0, <1>2, LeastAboveFacts
<1>9. Below(Reads(P), L) /\ DOMAIN Reads(P) = Nodes(P)
  BY <1>0, <1>6, <1>7, <1>8, <1>v
<1> QED
  BY <1>9 DEF L

(* Andersen::getPointsToSet is sound without hybrid cycle detection: when  *)
(* solveConstraints stops, the set it returns for a pointer has every      *)
(* object the pointer can hold, for every program and whatever order its   *)
(* instructions run in.                                                    *)
THEOREM PointsToSound == Spec => []Sound
<1>1. SolverInvariant /\ (~ opt.hcd => FixedPoint) => Sound
  <2> SUFFICES ASSUME SolverInvariant, ~ opt.hcd, FixedPoint, pc = "done"
               PROVE  \A n \in Node : Reads(prog)[n] \subseteq Solution[n]
    BY DEF Sound
  <2>1. prog \in Programs /\ Solution = LeastSolution(prog, collectConstraints(prog))
    BY DEF FixedPoint, SolverInvariant, StateOK
  <2>2. Below(Reads(prog), Solution) /\ DOMAIN Reads(prog) = Node
    BY <2>1, ReadsWithin DEF Node
  <2> QED
    BY <2>2 DEF Below
<1> QED
  BY <1>1, ExactWithoutHybrid, SolverInvariantHolds, PTL

=============================================================================
