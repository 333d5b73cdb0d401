---------------------------- MODULE Reachability ----------------------------
(* Reachability in a graph given as a set of edges <<from, to>>, for the    *)
(* reference definitions the analyses are checked against and for the       *)
(* strongly connected components some of them compute.                      *)
EXTENDS Naturals, FiniteSets

(* The heads of the edges of E that leave S. *)
Successors(E, S) == {e[2] : e \in {x \in E : x[1] \in S}}

(* The nodes that paths of E reach from S, S included. *)
ReachedFrom(E, S) ==
  LET closure[T \in SUBSET (S \cup {e[2] : e \in E})] ==
        IF Successors(E, T) \subseteq T THEN T ELSE closure[T \cup Successors(E, T)]
  IN  closure[S]

(* The component of n: what n reaches and is reached from. *)
SCC(E, n) == {m \in ReachedFrom(E, {n}) : n \in ReachedFrom(E, {m})}

(* The components that are not a single node. *)
Cycles(E, S) == {c \in {SCC(E, n) : n \in S} : Cardinality(c) > 1}
=============================================================================
