--------------------------- MODULE UpdateChannel ---------------------------
(***************************************************************************)
(* What the scrapper's producer promises about the topic, without sarama,  *)
(* goroutines and retries: an update is taken in its turn, stays pending   *)
(* until it is written, perhaps more than once, or dropped, and everything *)
(* pending goes when the process ends.  UpdateProducer implements it.      *)
(***************************************************************************)
EXTENDS Integers, Sequences

CONSTANTS
    MaxUpdates,  \* bound: updates taken
    MaxTopic     \* bound: length of the topic

VARIABLES
    taken,    \* the updates taken are 1..taken
    pending,  \* updates on their way
    topic,    \* the log
    dropped,  \* updates given up
    ended     \* the process has ended

vars == <<taken, pending, topic, dropped, ended>>

Written == {topic[i] : i \in DOMAIN topic}

Init ==
    /\ taken = 0
    /\ pending = {}
    /\ topic = <<>>
    /\ dropped = {}
    /\ ended = FALSE

Take ==
    /\ taken < MaxUpdates
    /\ taken' = taken + 1
    /\ pending' = pending \cup {taken + 1}
    /\ UNCHANGED <<topic, dropped, ended>>

\* A writing that is taken for a failure leaves the update pending.
Write(m) ==
    /\ m \in pending
    /\ Len(topic) < MaxTopic
    /\ topic' = Append(topic, m)
    /\ UNCHANGED <<taken, pending, dropped, ended>>

Settle(m) ==
    /\ m \in pending \cap Written
    /\ pending' = pending \ {m}
    /\ UNCHANGED <<taken, topic, dropped, ended>>

Drop(m) ==
    /\ m \in pending
    /\ pending' = pending \ {m}
    /\ dropped' = dropped \cup {m}
    /\ UNCHANGED <<taken, topic, ended>>

End ==
    /\ ended' = TRUE
    /\ pending' = {}
    /\ UNCHANGED <<taken, topic, dropped>>

Next ==
    /\ ~ended
    /\ \/ Take
       \/ \E m \in 1..taken : Write(m) \/ Settle(m) \/ Drop(m)
       \/ End

Spec == Init /\ [][Next]_vars

\* An update that is pending is written or dropped, and settled: the broker does not
\* fail it for ever, which UpdateProducer allows.
Progress(m) == \/ m \notin Written /\ Write(m)
               \/ Settle(m)
               \/ Drop(m)

Fairness == \A m \in 1..MaxUpdates : WF_vars(~ended /\ Progress(m))
=============================================================================
