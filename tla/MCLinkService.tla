--------------------------- MODULE MCLinkService ---------------------------
(* Constants for the runs of LinkService. *)
EXTENDS LinkService, TLC

CONSTANTS u1, u2, q1, q2, b1, c1, c2, p1, p2, i1

Questions == q1 :> "question"
QuestionsAndRejected == q1 :> "question" @@ q2 :> "question" @@ b1 :> "rejected"
QuestionAndShort == q1 :> "question" @@ q2 :> "short"

\* What the tables depend on, for the run whose property is about them only: not
\* the monitors, nor whether a context that was made is done, nor the ghosts.
TablesView == <<chats, rows, req, tx, cancelFuncs, caller,
                {c \in Contexts : ctx[c] = "unused"}>>

\* In the runs with this symmetry q1 and q2 are of one class when both are links.
Symmetry == Permutations(Users) \cup Permutations(Contexts) \cup Permutations(Callers)
              \cup Permutations({q1, q2})

\* The steps of the run for RequestEnds.  What it is about does not depend on the
\* monitors, which rest, a restart would end every request, and the contexts are all
\* alike: c1 is the one to take first.
Free(c) == Unspent(c) /\ \A r \in Callers : c \notin req[r].ids
OfRequests ==
    /\ <<req, tx, caller>>' # <<req, tx, caller>>
    /\ ~Restart
    /\ Free(c1) /\ Free(c2) => Free(c2)'
=============================================================================
