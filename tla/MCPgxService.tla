---------------------------- MODULE MCPgxService ----------------------------
(* Constants for the runs of PgxService. *)
EXTENDS PgxService, TLC

CONSTANTS u1, q1, c1, c2, p1, p2

OneQuestion == q1 :> "question"

Symmetry == Permutations(Contexts) \cup Permutations(Callers)
=============================================================================
