------------------------------ MODULE PointsTo ------------------------------
(* What the pointer analysis promises, whatever the order in which it looks *)
(* at the constraints: what it knows only grows.  When it is exact, it is   *)
(* never past the least solution, and in the end it is all of it.           *)
EXTENDS Naturals

VARIABLES exact,   \* does the analysis promise the least solution?
          least,   \* the least solution of the constraints
          sol      \* what is known so far of the points-to set of each node

Within(S, T) == \A n \in DOMAIN S : S[n] \subseteq T[n]

Init == \A n \in DOMAIN sol : sol[n] = {}

Grow ==
  /\ UNCHANGED <<exact, least>>
  /\ DOMAIN sol' = DOMAIN sol
  /\ Within(sol, sol')
  /\ exact => Within(sol', least)

Safe == Init /\ [][Grow]_<<exact, least, sol>>

Spec == Safe /\ <>[](exact => sol = least)
=============================================================================
