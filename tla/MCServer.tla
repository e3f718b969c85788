------------------------------ MODULE MCServer ------------------------------
(***************************************************************************)
(* A small instance of Server: two requests over the members, two of every *)
(* kind beside them.                                                       *)
(***************************************************************************)
EXTENDS Server, TLC

\* The history goes up and down.
MCChanges == {-1, 1}

\* The callers are the tenants and the runs of the nudge too, and both are jobs of
\* the limiter.
Symmetry == Permutations(Requests) \cup Permutations(Callers)
=============================================================================
