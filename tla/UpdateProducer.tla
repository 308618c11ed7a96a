--------------------------- MODULE UpdateProducer ---------------------------
(***************************************************************************)
(* The Kafka producer of the scrapper and its shutdown: the goroutine of   *)
(* Run, handleDeliveryResults, the retryMessage goroutines, Stop as the    *)
(* closer calls it, and what they share with the AsyncProducer of sarama.  *)
(*                                                                         *)
(* Of sarama the model has what the program meets: Input, Successes and    *)
(* Errors are unbuffered; messages are first attempted in the order of     *)
(* Input; an attempt fails before or after the broker wrote the message,   *)
(* and sarama, as app.go configures it, then tries again without a report  *)
(* and with other requests open, or gives the message up and reports it;   *)
(* each AsyncClose starts a goroutine that stops the dispatcher, waits for *)
(* the messages in flight and closes the four channels, which panics the   *)
(* second time; a message that comes after the stop is given back.         *)
(* The topic is one partition of Kafka's: among partitions nothing is in   *)
(* order.                                                                  *)
(***************************************************************************)
EXTENDS Integers, Sequences, SequencesExt

CONSTANTS
    Attempts,    \* of retryMessage: 3
    MaxUpdates,  \* bound: updates the monitors send
    MaxLostAcks  \* bound: writings of which sarama does not learn

ASSUME ProducerConstants == Attempts \in Nat \ {0} /\ MaxUpdates \in Nat /\ MaxLostAcks \in Nat

VARIABLES
    taken,     \* updates received from updateChan; they are 1..taken
    run,       \* Run's goroutine: its place and the update it holds
    handler,   \* handleDeliveryResults: "loop" or "ended" (doneCh closed)
    retry,     \* Updates -> attempts its retryMessage goroutine has left
    stop,      \* the closer's function: "up", "closed" (updateChan), "async"
               \* (AsyncClose called), "stopped" (stopCh closed), "done"
    process,   \* "up", "exited" or "panicked"
    inflight,  \* accepted by sarama, not answered: records [msg, written,
               \* again], again when an attempt has failed
    bounced,   \* a message the dispatcher is about to give back, or 0
    sarama,    \* "open", "shutting" (the dispatcher accepts no more), "closed"
    shutdown,  \* {"Stop", "Run"} -> the goroutine of that AsyncClose
    topic,     \* the topic's log
    \* what the properties talk about
    failed,    \* given back, or failed at an attempt of sarama's at least once
    unacked,   \* failed at an attempt though the broker wrote it
    dropped,   \* given up by retryMessage, or read from Errors by Close

    lostAcks   \* how often that was, for the bound

code == <<taken, run, handler, retry, stop, process>>
library == <<inflight, bounced, sarama, shutdown, topic>>
ghosts == <<failed, unacked, dropped, lostAcks>>
vars == <<code, library, ghosts>>

Updates == 1..MaxUpdates
Closers == {"Stop", "Run"}

Init ==
    /\ taken = 0
    /\ run = [pc |-> "select", msg |-> 0]
    /\ handler = "loop"
    /\ retry = [m \in Updates |-> 0]
    /\ stop = "up"
    /\ process = "up"
    /\ inflight = <<>>
    /\ bounced = 0
    /\ sarama = "open"
    /\ shutdown = [c \in Closers |-> "none"]
    /\ topic = <<>>
    /\ failed = {}
    /\ unacked = {}
    /\ dropped = {}
    /\ lostAcks = 0

UpdateChanClosed == stop # "up"
StopChClosed == stop \in {"stopped", "done"}

Panic == process' = "panicked"

-----------------------------------------------------------------------------
(* Run. *)

\* Mutant of Receive: the update is handed to a goroutine of its own.
ReceiveDetached ==
    /\ run.pc = "select"
    /\ ~UpdateChanClosed
    /\ taken < MaxUpdates
    /\ taken' = taken + 1
    /\ retry' = [retry EXCEPT ![taken + 1] = Attempts]
    /\ UNCHANGED <<run, handler, stop, process, library, ghosts>>

\* case update, ok := <-chanUpdate: a monitor sends, and the message is made.
\* Marshalling a LinkUpdate cannot fail, so nothing goes to the DLQ.
Receive ==
    /\ run.pc = "select"
    /\ ~UpdateChanClosed
    /\ taken < MaxUpdates
    /\ taken' = taken + 1
    /\ run' = [pc |-> "input", msg |-> taken + 1]
    /\ UNCHANGED <<handler, retry, stop, process, library, ghosts>>

\* A monitor sends after close(updateChan), or waits in its send meanwhile.
SendOnClosed ==
    /\ UpdateChanClosed
    /\ taken < MaxUpdates
    /\ Panic
    /\ UNCHANGED <<taken, run, handler, retry, stop, library, ghosts>>

\* What a message put into Input meets; the dispatcher takes one at a time.
Put(m) ==
    /\ bounced = 0
    /\ \/ /\ sarama = "open"
          /\ inflight' = Append(inflight, [msg |-> m, written |-> FALSE, again |-> FALSE])
          /\ UNCHANGED <<bounced, process>>
       \/ /\ sarama = "shutting"
          /\ bounced' = m
          /\ UNCHANGED <<inflight, process>>
       \/ /\ sarama = "closed"
          /\ Panic
          /\ UNCHANGED <<inflight, bounced>>
    /\ UNCHANGED <<sarama, shutdown, topic>>

\* produceUpdate: Input() <- msg.
Produce ==
    /\ run.pc = "input"
    /\ Put(run.msg)
    /\ run' = [pc |-> "select", msg |-> 0]
    /\ UNCHANGED <<taken, handler, retry, stop, ghosts>>

\* The closed channel, or stopCh: the deferred Close calls AsyncClose and reads
\* Successes and Errors until they are closed.
RunReturns ==
    /\ run.pc = "select"
    /\ UpdateChanClosed
    /\ run' = [run EXCEPT !.pc = "drain"]
    /\ shutdown' = [shutdown EXCEPT !["Run"] = "new"]
    /\ UNCHANGED <<taken, handler, retry, stop, process, inflight, bounced, sarama, topic, ghosts>>

-----------------------------------------------------------------------------
(* handleDeliveryResults and retryMessage. *)

Listening == handler = "loop" \/ run.pc = "drain"

\* <-Successes, or Close reads it.
Delivered ==
    /\ Listening
    /\ \E i \in DOMAIN inflight :
         /\ inflight[i].written
         /\ inflight' = RemoveAt(inflight, i)
    /\ UNCHANGED <<code, bounced, sarama, shutdown, topic, ghosts>>

\* Mutant of ReadError: the error is only logged.
ReadErrorOnly(m) == Listening /\ UNCHANGED <<retry, dropped>>

\* Mutant of ReadError: one attempt too many.
ReadErrorMore(m) ==
    /\ handler = "loop"
    /\ retry' = [retry EXCEPT ![m] = Attempts + 1]
    /\ UNCHANGED dropped

\* <-Errors of message m: the handler starts retryMessage; Close forgets it.
ReadError(m) ==
    \/ /\ handler = "loop"
       /\ retry' = [retry EXCEPT ![m] = Attempts]
       /\ UNCHANGED dropped
    \/ /\ run.pc = "drain"
       /\ dropped' = dropped \cup {m}
       /\ UNCHANGED retry

\* The broker, the network or a timeout fails an attempt.  If the broker wrote the
\* message, an acknowledgement is lost, which the bound is for.
AttemptFails(e) ==
    /\ failed' = failed \cup {e.msg}
    /\ IF e.written
         THEN /\ lostAcks < MaxLostAcks
              /\ lostAcks' = lostAcks + 1
              /\ unacked' = unacked \cup {e.msg}
         ELSE UNCHANGED <<lostAcks, unacked>>

\* sarama tries no more, and reports the message.
Failed ==
    /\ \E i \in DOMAIN inflight :
         /\ AttemptFails(inflight[i])
         /\ ReadError(inflight[i].msg)
         /\ inflight' = RemoveAt(inflight, i)
    /\ UNCHANGED <<taken, run, handler, stop, process, bounced, sarama, shutdown, topic>>

\* ErrShuttingDown.
GivenBack ==
    /\ bounced # 0
    /\ ReadError(bounced)
    /\ failed' = failed \cup {bounced}
    /\ bounced' = 0
    /\ UNCHANGED <<taken, run, handler, stop, process, inflight, sarama, shutdown, topic,
                   unacked, lostAcks>>

\* Mutant of RetryPut: no return after the send.
RetryPutOn(m) ==
    /\ retry[m] > 0
    /\ Put(m)
    /\ retry' = [retry EXCEPT ![m] = @ - 1]
    /\ UNCHANGED <<taken, run, handler, stop, ghosts>>

\* select, case Input() <- msg.
RetryPut(m) ==
    /\ retry[m] > 0
    /\ Put(m)
    /\ retry' = [retry EXCEPT ![m] = 0]
    /\ UNCHANGED <<taken, run, handler, stop, ghosts>>

\* select, default: the dispatcher is not waiting at Input just now.
RetryBusy(m) ==
    /\ retry[m] > 0
    /\ sarama # "closed"
    /\ retry' = [retry EXCEPT ![m] = @ - 1]
    /\ dropped' = IF retry[m] = 1 THEN dropped \cup {m} ELSE dropped
    /\ UNCHANGED <<taken, run, handler, stop, process, library, failed, unacked, lostAcks>>

\* case <-stopCh: close(doneCh) and return.
HandlerReturns ==
    /\ handler = "loop"
    /\ StopChClosed
    /\ handler' = "ended"
    /\ UNCHANGED <<taken, run, retry, stop, process, library, ghosts>>

\* A closed Successes or Errors answers nil, of which a field is read.
HandlerPanics ==
    /\ handler = "loop"
    /\ sarama = "closed"
    /\ Panic
    /\ UNCHANGED <<taken, run, handler, retry, stop, library, ghosts>>

-----------------------------------------------------------------------------
(* The shutdown. *)

\* The HTTP server has shut down; the closer's function closes updateChan.
CloseUpdates ==
    /\ stop = "up"
    /\ stop' = "closed"
    /\ UNCHANGED <<taken, run, handler, retry, process, library, ghosts>>

\* Stop: AsyncClose ...
StopAsyncClose ==
    /\ stop = "closed"
    /\ stop' = "async"
    /\ shutdown' = [shutdown EXCEPT !["Stop"] = "new"]
    /\ UNCHANGED <<taken, run, handler, retry, process, inflight, bounced, sarama, topic, ghosts>>

\* Mutant of StopClose: stopCh is closed after doneCh was waited for.
StopCloseLate ==
    /\ stop = "async"
    /\ handler = "ended"
    /\ stop' = "stopped"
    /\ UNCHANGED <<taken, run, handler, retry, process, library, ghosts>>

\* ... close(stopCh) ...
StopClose ==
    /\ stop = "async"
    /\ stop' = "stopped"
    /\ UNCHANGED <<taken, run, handler, retry, process, library, ghosts>>

\* ... and <-doneCh.
StopReturns ==
    /\ stop = "stopped"
    /\ handler = "ended"
    /\ stop' = "done"
    /\ UNCHANGED <<taken, run, handler, retry, process, library, ghosts>>

\* Closer.Close and main return, whatever goroutines there are.
Exit ==
    /\ stop = "done"
    /\ process' = "exited"
    /\ UNCHANGED <<taken, run, handler, retry, stop, library, ghosts>>

-----------------------------------------------------------------------------
(* sarama and the broker. *)

\* A retry of sarama's own, of which the program hears nothing.
Retried ==
    /\ \E i \in DOMAIN inflight :
         /\ AttemptFails(inflight[i])
         /\ inflight' = [inflight EXCEPT ![i].written = FALSE, ![i].again = TRUE]
    /\ UNCHANGED <<code, bounced, sarama, shutdown, topic, dropped>>

\* The broker writes a message.  The requests sarama has open reach it in order, so
\* what was accepted before has been written or has failed, and waits for a retry.
Write ==
    /\ \E i \in DOMAIN inflight :
         /\ ~inflight[i].written
         /\ \A j \in 1..(i - 1) : inflight[j].written \/ inflight[j].again
         /\ inflight' = [inflight EXCEPT ![i].written = TRUE]
         /\ topic' = Append(topic, inflight[i].msg)
    /\ UNCHANGED <<code, bounced, sarama, shutdown, ghosts>>

\* inFlight.Add(1) for the stop message.
ShutdownCounts(c) ==
    /\ shutdown[c] = "new"
    /\ shutdown' = [shutdown EXCEPT ![c] = "input"]
    /\ UNCHANGED <<code, inflight, bounced, sarama, topic, ghosts>>

\* The stop message goes through Input, if that is not closed.
ShutdownTells(c) ==
    /\ shutdown[c] = "input"
    /\ bounced = 0
    /\ IF sarama = "closed"
         THEN Panic /\ UNCHANGED <<sarama, shutdown>>
         ELSE /\ sarama' = "shutting"
              /\ shutdown' = [shutdown EXCEPT ![c] = "wait"]
              /\ UNCHANGED process
    /\ UNCHANGED <<taken, run, handler, retry, stop, inflight, bounced, topic, ghosts>>

\* inFlight.Wait, and the four channels are closed: a panic when they are closed
\* already, and when the dispatcher waits to send on one of them.
ShutdownCloses(c) ==
    /\ shutdown[c] = "wait"
    /\ inflight = <<>>
    /\ \A d \in Closers : shutdown[d] # "input"
    /\ IF sarama = "closed" \/ bounced # 0
         THEN Panic /\ UNCHANGED <<sarama, shutdown>>
         ELSE /\ sarama' = "closed"
              /\ shutdown' = [shutdown EXCEPT ![c] = "done"]
              /\ UNCHANGED process
    /\ UNCHANGED <<taken, run, handler, retry, stop, inflight, bounced, topic, ghosts>>

RunStep == Receive \/ Produce \/ RunReturns
RetryStep(m) == RetryPut(m) \/ RetryBusy(m)
StopStep == StopAsyncClose \/ StopClose \/ StopReturns \/ Exit
ShutdownStep(c) == ShutdownCounts(c) \/ ShutdownTells(c) \/ ShutdownCloses(c)

Step ==
    \/ RunStep
    \/ SendOnClosed
    \/ Delivered
    \/ Failed
    \/ GivenBack
    \/ \E m \in Updates : RetryStep(m)
    \/ HandlerReturns
    \/ HandlerPanics
    \/ CloseUpdates
    \/ StopStep
    \/ Retried
    \/ Write
    \/ \E c \in Closers : ShutdownStep(c)

\* A process that has ended takes no step.
Next == process = "up" /\ Step

Spec == Init /\ [][Next]_vars

\* A step that only a living process takes.
Up(A) == process = "up" /\ A

\* Goroutines run, sarama works on, and a message that sarama keeps is written in the
\* end.  The broker may fail a message for ever, though, the scrapper need not be
\* stopped, nor do monitors have to send.
Fairness ==
    /\ WF_vars(Up(Produce \/ RunReturns))
    /\ WF_vars(Up(Delivered \/ GivenBack))
    /\ WF_vars(Up(HandlerReturns))
    /\ WF_vars(Up(StopStep))
    /\ WF_vars(Up(Write))
    /\ \A m \in Updates : WF_vars(Up(RetryStep(m)))
    /\ \A c \in Closers : WF_vars(Up(ShutdownStep(c)))

FairSpec == Spec /\ Fairness

-----------------------------------------------------------------------------
(* Properties. *)

TypeOK ==
    /\ taken \in 0..MaxUpdates
    /\ run \in [pc : {"select", "input", "drain"}, msg : 0..MaxUpdates]
    /\ handler \in {"loop", "ended"}
    /\ retry \in [Updates -> 0..Attempts]
    /\ stop \in {"up", "closed", "async", "stopped", "done"}
    /\ process \in {"up", "exited", "panicked"}
    /\ inflight \in Seq([msg : Updates, written : BOOLEAN, again : BOOLEAN])
    /\ bounced \in 0..MaxUpdates
    /\ sarama \in {"open", "shutting", "closed"}
    /\ shutdown \in [Closers -> {"none", "new", "input", "wait", "done"}]
    /\ topic \in Seq(Updates)
    /\ failed \cup unacked \cup dropped \subseteq Updates
    /\ lostAcks \in 0..MaxLostAcks

InFlight == {inflight[i].msg : i \in DOMAIN inflight}
Written == {topic[i] : i \in DOMAIN topic}

\* Run, the handler, the retries and sarama together implement UpdateChannel: as
\* long as the process lives, an update received from a monitor is never
\* forgotten, is written only while it is on its way, and is settled without
\* being in the topic only when a retryMessage found Input busy each time or the
\* Close of a shutdown read its error.
OnItsWay == {m \in 1..taken : run.msg = m \/ bounced = m \/ retry[m] > 0 \/ m \in InFlight}
MaxTopic == MaxUpdates + MaxLostAcks
Channel == INSTANCE UpdateChannel WITH
             pending <- IF process = "up" THEN OnItsWay ELSE {},
             ended <- process # "up"
ImplementsChannel == Channel!Spec

\* Updates are put in again by goroutines of their own, and sarama retries with other
\* requests open; yet an update overtakes an older one only when that one has failed
\* at an attempt or was given back.
OvertakenHasFailed ==
    \A i, j \in DOMAIN topic : (i < j /\ topic[i] > topic[j]) => topic[j] \in failed

\* The retries of the program and those of sarama do not multiply: an update is in
\* the topic twice only when an acknowledgement was lost, and it is never on its way
\* twice.
TwiceWasUnacked ==
    /\ \A i, j \in DOMAIN topic : (i # j /\ topic[i] = topic[j]) => topic[j] \in unacked
    /\ \A i, j \in DOMAIN inflight : i # j => inflight[i].msg # inflight[j].msg

\* Stop waits for the handler, which sarama's shutdown can leave with closed
\* channels: the process ends all the same, by exit or by panic.
StopEnds == (stop # "up") ~> (process # "up")

\* While nobody stops the scrapper, an update it took is written or dropped, or it
\* goes round for ever: with the broker out of reach, sarama reports it again and
\* again, and each time a retryMessage puts it in afresh, with all its attempts.
TakenIsWritten ==
    \A m \in Updates :
        \/ (taken >= m) ~> (m \in Written \cup dropped \/ stop # "up")
        \/ []<>(retry[m] > 0)
=============================================================================
