---------------------------- MODULE MCBotDialog ----------------------------
(* Constants for the runs of BotDialog. *)
EXTENDS BotDialog, TLC

CONSTANTS u1, u2, l1, l2, h1, h2, c1, c2

Symmetry == Permutations(Users) \cup Permutations(Links)
              \cup Permutations(Handlers) \cup Permutations(Calls)
=============================================================================
