--------------------------- MODULE KafkaPipeline ---------------------------
(***************************************************************************)
(* From a monitor's send on updateChan to the Telegram message, with the   *)
(* message transport "kafka": UpdateConsumer reads the topic of which      *)
(* UpdateChannel, implemented by UpdateProducer, says how it grows.        *)
(***************************************************************************)
EXTENDS Integers, Sequences

CONSTANTS MaxUpdates, MaxTopic, MaxBreaks

ASSUME Bounds == {MaxUpdates, MaxTopic, MaxBreaks} \subseteq Nat

VARIABLES
    taken, pending, topic, dropped, ended,  \* as in UpdateChannel
    bot, claim, position, marked, committed, reader, shown, lost, breaks
                                            \* as in UpdateConsumer

scrapper == <<taken, pending, dropped, ended>>
consumer == <<bot, claim, position, marked, committed, reader, shown, lost, breaks>>
vars == <<scrapper, topic, consumer>>

Channel == INSTANCE UpdateChannel
Bot == INSTANCE UpdateConsumer

Init == Channel!Init /\ Bot!Init

Next ==
    \/ Channel!Next /\ UNCHANGED consumer
    \/ Bot!Next /\ UNCHANGED scrapper

Spec == Init /\ [][Next]_vars

FairSpec == Spec /\ Channel!Fairness /\ Bot!Fairness

-----------------------------------------------------------------------------
(* Properties. *)

TypeOK ==
    /\ taken \in 0..MaxUpdates
    /\ topic \in Seq(1..taken)
    /\ pending \cup dropped \subseteq 1..taken
    /\ ended \in BOOLEAN
    /\ Bot!TypeOK

\* The offset is marked before Telegram has the message: an offset the group will
\* never read again was sent, refused by Telegram, is in the reader's hand, or was
\* the one message in that hand when the bot ended.
CommittedIsHandled == \A o \in 1..committed : o \in Bot!Handled \/ reader = o

\* A message goes to Telegram twice only for want of a commit: whatever sessions
\* and processes end in between, an offset that Kafka has is never handed to the
\* reader again.
CommittedIsNotRepeated ==
    [][reader' \notin {0, reader} => reader' > committed]_vars

\* What the pipeline owes a user: while the scrapper lives, and the bot stays up
\* from some time on, an update that a monitor handed over reaches Telegram, or is
\* lost in one of three ways: dropped by retryMessage, refused by Telegram, or in
\* the reader's hand when the bot ended.
TakenIsHandled ==
    ([](~ended) /\ <>[](bot = "up"))
    => \A m \in 1..MaxUpdates :
         (taken >= m) ~> \/ m \in dropped
                         \/ \E o \in DOMAIN topic : topic[o] = m /\ o \in Bot!Handled
=============================================================================
