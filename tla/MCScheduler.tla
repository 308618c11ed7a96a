---------------------------- MODULE MCScheduler ----------------------------
(* Constants for the runs of Scheduler. *)
EXTENDS Scheduler, TLC

CONSTANTS r1, q1, b1, c1, c2, p1, p2, i1, i2

RepoOnly == r1 :> "repo"
QuestionOnly == q1 :> "question"
QuestionAndRejected == q1 :> "question" @@ b1 :> "rejected"

Symmetry == Permutations(Contexts) \cup Permutations(Callers) \cup Permutations(Items)
=============================================================================
