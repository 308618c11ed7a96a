--------------------------- MODULE UpdateConsumer ---------------------------
(***************************************************************************)
(* The bot's end of the topic: the consumer group session with             *)
(* ConsumeClaim, the goroutine that reads Messages() and sends to          *)
(* Telegram, the bot's shutdown, its crash and its next start.             *)
(*                                                                         *)
(* One partition.  Offsets count from 1; offset 0 stands for none.  Of     *)
(* sarama the model has the marks, the commit every second and at the end  *)
(* of a session, which the broker may refuse, and sessions that end for a  *)
(* rebalance.                                                              *)
(***************************************************************************)
EXTENDS Integers, Sequences

CONSTANT MaxBreaks  \* bound: ends of sessions and of the process

VARIABLES
    topic,      \* the topic's log, as in UpdateChannel
    bot,        \* "up", "stopping" or "down"
    claim,      \* ConsumeClaim: "none", "range", "send" or "mark"
    position,   \* offsets the session has handed over
    marked,     \* MarkMessage
    committed,  \* in Kafka
    reader,     \* offset that KafkaMessageHandler is sending, or 0
    \* what the properties talk about
    shown,      \* offsets sent to Telegram
    lost,       \* offsets that Telegram refused, which is only logged, or that
                \* were in the reader's hand when the process ended
    breaks      \* for the bound

state == <<bot, claim, position, marked, committed, reader>>
ghosts == <<shown, lost, breaks>>
vars == <<topic, state, ghosts>>

Init ==
    /\ bot = "up"
    /\ claim = "none"
    /\ position = 0
    /\ marked = 0
    /\ committed = 0
    /\ reader = 0
    /\ shown = {}
    /\ lost = {}
    /\ breaks = 0

-----------------------------------------------------------------------------
(* Consumer.Run and ConsumeClaim. *)

\* Mutant of Join: every session starts at the oldest offset.
JoinOldest ==
    /\ bot = "up"
    /\ claim = "none"
    /\ claim' = "range"
    /\ position' = 0
    /\ marked' = 0
    /\ UNCHANGED <<topic, bot, committed, reader, ghosts>>

\* Consume: a session starts where the group has committed.
Join ==
    /\ bot = "up"
    /\ claim = "none"
    /\ claim' = "range"
    /\ position' = committed
    /\ marked' = committed
    /\ UNCHANGED <<topic, bot, committed, reader, ghosts>>

\* Mutant of NextMessage: MarkMessage ahead of the send.
NextMessageMarked ==
    /\ claim = "range"
    /\ position < Len(topic)
    /\ claim' = "send"
    /\ marked' = position + 1
    /\ UNCHANGED <<topic, bot, position, committed, reader, ghosts>>

\* Mutant of NextMessage: off by one at the end of the log.
NextMessageBeyond ==
    /\ claim = "range"
    /\ position <= Len(topic)
    /\ claim' = "send"
    /\ UNCHANGED <<topic, bot, position, marked, committed, reader, ghosts>>

\* range claim.Messages().
NextMessage ==
    /\ claim = "range"
    /\ position < Len(topic)
    /\ claim' = "send"
    /\ UNCHANGED <<topic, bot, position, marked, committed, reader, ghosts>>

\* Mutant of HandOver: a select whose default passes over a busy reader.
HandOverOrDrop ==
    /\ claim = "send"
    /\ reader' = IF reader = 0 THEN position + 1 ELSE reader
    /\ position' = position + 1
    /\ claim' = "mark"
    /\ UNCHANGED <<topic, bot, marked, committed, ghosts>>

\* updateChan <- *message: waits for the reader.
HandOver ==
    /\ claim = "send"
    /\ reader = 0
    /\ reader' = position + 1
    /\ position' = position + 1
    /\ claim' = "mark"
    /\ UNCHANGED <<topic, bot, marked, committed, ghosts>>

\* MarkMessage.
Mark ==
    /\ claim = "mark"
    /\ marked' = position
    /\ claim' = "range"
    /\ UNCHANGED <<topic, bot, position, committed, reader, ghosts>>

AutoCommit ==
    /\ claim # "none"
    /\ committed < marked
    /\ committed' = marked
    /\ UNCHANGED <<topic, bot, claim, position, marked, reader, ghosts>>

\* The range ends, for a rebalance or for client.Close; the marks are committed
\* unless the broker refuses.
SessionEnds ==
    /\ claim = "range"
    /\ bot = "stopping" \/ breaks < MaxBreaks
    /\ claim' = "none"
    /\ \/ committed' = marked
       \/ UNCHANGED committed
    /\ breaks' = IF bot = "up" THEN breaks + 1 ELSE breaks
    /\ UNCHANGED <<topic, bot, position, marked, reader, shown, lost>>

-----------------------------------------------------------------------------
(* The reader. *)

Show ==
    /\ reader # 0
    /\ shown' = shown \cup {reader}
    /\ reader' = 0
    /\ UNCHANGED <<topic, bot, claim, position, marked, committed, lost, breaks>>

\* The error of KafkaMessageHandler is logged and the loop goes on.
ShowFails ==
    /\ reader # 0
    /\ lost' = lost \cup {reader}
    /\ reader' = 0
    /\ UNCHANGED <<topic, bot, claim, position, marked, committed, shown, breaks>>

-----------------------------------------------------------------------------
(* Stop, crash and start. *)

\* A signal: cancel, consumer.Stop and consumer.Wait.
Signal ==
    /\ bot = "up"
    /\ breaks < MaxBreaks
    /\ bot' = "stopping"
    /\ breaks' = breaks + 1
    /\ UNCHANGED <<topic, claim, position, marked, committed, reader, shown, lost>>

\* What is left of the process when it has ended.
Gone ==
    /\ bot' = "down"
    /\ claim' = "none"
    /\ reader' = 0
    /\ lost' = lost \cup ({reader} \ {0})
    /\ UNCHANGED <<topic, position, marked, committed, shown>>

\* Wait returns when the session is over; nobody waits for the reader.
Leave ==
    /\ bot = "stopping"
    /\ claim = "none"
    /\ Gone
    /\ UNCHANGED breaks

Crash ==
    /\ bot # "down"
    /\ breaks < MaxBreaks
    /\ Gone
    /\ breaks' = breaks + 1

Restart ==
    /\ bot = "down"
    /\ bot' = "up"
    /\ UNCHANGED <<topic, claim, position, marked, committed, reader, ghosts>>

ClaimStep == Join \/ NextMessage \/ HandOver \/ Mark
Read == Show \/ ShowFails

Next ==
    \/ ClaimStep
    \/ AutoCommit
    \/ SessionEnds
    \/ Read
    \/ Signal
    \/ Leave
    \/ Crash
    \/ Restart

\* Goroutines run and Telegram answers.  The bot need not be started again.
Fairness ==
    /\ WF_vars(ClaimStep)
    /\ WF_vars(Read)
    /\ WF_vars(bot = "stopping" /\ (SessionEnds \/ Leave))

-----------------------------------------------------------------------------
(* Properties. *)

TypeOK ==
    /\ bot \in {"up", "stopping", "down"}
    /\ claim \in {"none", "range", "send", "mark"}
    /\ {position, marked, committed, reader} \subseteq 0..Len(topic)
    /\ shown \cup lost \subseteq 1..Len(topic)
    /\ breaks \in 0..MaxBreaks

Handled == shown \cup lost
=============================================================================
