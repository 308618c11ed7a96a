------------------------ MODULE UpdateProducerProofs ------------------------
(***************************************************************************)
(* The safety properties of UpdateProducer, and that it implements         *)
(* UpdateChannel, for any number of updates, attempts and failures.        *)
(*                                                                         *)
(* The steps that move an update from one place to another have a lemma    *)
(* each; the others leave the invariant's variables alone.                 *)
(***************************************************************************)
EXTENDS UpdateProducer, SequenceTheorems, FiniteSetTheorems, TLAPS

Entries == [msg : Updates, written : BOOLEAN, again : BOOLEAN]

\* An update on its way is in one place: in Run's hands, where it is the last one
\* taken, in the dispatcher's, with a retryMessage, or in flight.
OnePlace ==
    /\ IF run.pc = "input" THEN run.msg = taken /\ taken \in Updates \ Written ELSE run.msg = 0
    /\ bounced # 0 => bounced <= taken /\ bounced \notin InFlight \cup {run.msg}
    /\ \A m \in Updates :
         retry[m] > 0 => m <= taken /\ m \notin InFlight \cup {run.msg, bounced}
    /\ run.msg \notin InFlight
    /\ \A i, j \in DOMAIN inflight : i # j => inflight[i].msg # inflight[j].msg
    /\ \A m \in InFlight \cup Written : m <= taken

\* On its way, and not yet written since it was last put into Input or last failed.
Unwritten ==
    {m \in Updates : \/ m = run.msg
                     \/ m = bounced
                     \/ retry[m] > 0
                     \/ \E i \in DOMAIN inflight : inflight[i].msg = m /\ ~inflight[i].written}

\* What is to be written again although it is in the topic failed although it was
\* written.
Flags ==
    /\ \A i \in DOMAIN inflight : inflight[i].written => inflight[i].msg \in Written
    /\ Unwritten \cap Written \subseteq unacked

\* Whoever is behind a later update, or is retried by sarama, has failed.
InTurn ==
    /\ \A m \in Updates : retry[m] > 0 => m \in failed
    /\ \A i \in DOMAIN inflight : inflight[i].again => inflight[i].msg \in failed
    /\ bounced \notin failed \cup {0} => \A m \in InFlight \cup Written : m <= bounced
    /\ \A i, j \in DOMAIN inflight :
         (i < j /\ inflight[i].msg > inflight[j].msg) => inflight[j].msg \in failed
    /\ \A i \in DOMAIN inflight : \A m \in Written :
         (~inflight[i].written /\ m > inflight[i].msg) => inflight[i].msg \in failed

\* Each lost acknowledgement makes one more writing possible, and no more.
Room == Len(topic) + Cardinality(Unwritten) <= taken + lostAcks

Inv == OnePlace /\ Flags /\ InTurn /\ Room /\ TwiceWasUnacked /\ OvertakenHasFailed

-----------------------------------------------------------------------------
(* The queue of sarama and the log. *)

\* The messages in flight lose their ith, and the others keep their order.
Leaves(i) ==
    /\ Len(inflight') = Len(inflight) - 1
    /\ \A k \in 1..Len(inflight') : inflight'[k] = inflight[IF k < i THEN k ELSE k + 1]

Joins(s, t, x) ==
    /\ Len(t) = Len(s) + 1
    /\ \A k \in 1..Len(s) : t[k] = s[k]
    /\ t[Len(s) + 1] = x

Shape ==
    /\ inflight \in Seq(Entries)
    /\ Len(inflight) \in Nat /\ DOMAIN inflight = 1..Len(inflight)
    /\ \A i \in DOMAIN inflight : /\ inflight[i] \in Entries
                                  /\ inflight[i].msg \in Updates
                                  /\ inflight[i].written \in BOOLEAN
                                  /\ inflight[i].again \in BOOLEAN
    /\ topic \in Seq(Updates)
    /\ Len(topic) \in Nat /\ DOMAIN topic = 1..Len(topic)
    /\ \A i \in DOMAIN topic : topic[i] \in Updates

LEMMA Shapes == TypeOK => Shape
<1>. SUFFICES ASSUME TypeOK PROVE Shape
  OBVIOUS
<1>1. inflight \in Seq(Entries) /\ topic \in Seq(Updates)
  BY DEF TypeOK, Entries
<1>2. Len(inflight) \in Nat /\ DOMAIN inflight = 1..Len(inflight)
  BY <1>1, LenProperties
<1>3. Len(topic) \in Nat /\ DOMAIN topic = 1..Len(topic)
  BY <1>1, LenProperties
<1>4. \A i \in DOMAIN inflight : inflight[i] \in Entries
  BY <1>1, <1>2, ElementOfSeq
<1>5. \A i \in DOMAIN topic : topic[i] \in Updates
  BY <1>1, <1>3, ElementOfSeq
<1>. QED
  BY <1>1, <1>2, <1>3, <1>4, <1>5 DEF Entries, Shape

LEMMA ShapesNext == TypeOK' => Shape'
BY Shapes, PTL

LEMMA RemoveAtLeaves ==
  ASSUME TypeOK, NEW i \in DOMAIN inflight, inflight' = RemoveAt(inflight, i)
  PROVE  inflight' \in Seq(Entries) /\ Leaves(i)
<1>1. inflight \in Seq(Entries) /\ Len(inflight) \in Nat /\ i \in 1..Len(inflight)
  BY Shapes DEF Shape
<1>2. \A k \in 1..Len(inflight) : inflight[k] \in Entries
  BY Shapes DEF Shape
<1>. DEFINE before == SubSeq(inflight, 1, i - 1)
            after == SubSeq(inflight, i + 1, Len(inflight))
<1>3. /\ before \in Seq(Entries)
      /\ Len(before) = i - 1
      /\ \A k \in 1..(i - 1) : before[k] = inflight[k]
  BY <1>1, <1>2, SubSeqProperties
<1>4. /\ after \in Seq(Entries)
      /\ Len(after) = Len(inflight) - i
      /\ \A k \in 1..(Len(inflight) - i) : after[k] = inflight[k + i]
  BY <1>1, <1>2, SubSeqProperties
<1>5. inflight' = before \o after
  BY DEF RemoveAt
<1>. HIDE DEF before, after
<1>6. /\ before \o after \in Seq(Entries)
      /\ Len(before \o after) = Len(before) + Len(after)
      /\ \A k \in 1..(Len(before) + Len(after)) :
           (before \o after)[k] = IF k <= Len(before) THEN before[k] ELSE after[k - Len(before)]
  BY <1>3, <1>4, ConcatProperties
<1>7. Len(before) + Len(after) = Len(inflight) - 1
  BY <1>1, <1>3, <1>4
<1>8. ASSUME NEW k \in 1..(Len(inflight) - 1)
      PROVE  (before \o after)[k] = inflight[IF k < i THEN k ELSE k + 1]
  <2>1. CASE k < i
    BY <1>1, <1>3, <1>6, <1>7, <2>1
  <2>2. CASE ~(k < i)
    <3>1. k - (i - 1) \in 1..(Len(inflight) - i) /\ (k - (i - 1)) + i = k + 1
      BY <1>1, <2>2
    <3>2. ~(k <= Len(before)) /\ k - Len(before) = k - (i - 1)
      BY <1>1, <1>3, <2>2
    <3>3. (before \o after)[k] = after[k - (i - 1)]
      BY <1>6, <1>7, <3>2
    <3>4. after[k - (i - 1)] = inflight[k + 1]
      BY <1>4, <3>1
    <3>. QED
      BY <2>2, <3>3, <3>4
  <2>. QED
    BY <2>1, <2>2
<1>. QED
  BY <1>5, <1>6, <1>7, <1>8 DEF Leaves

LEMMA AppendJoins ==
  ASSUME NEW S, NEW s \in Seq(S), NEW x \in S
  PROVE  Append(s, x) \in Seq(S) /\ Joins(s, Append(s, x), x)
BY AppendProperties, LenProperties DEF Joins

-----------------------------------------------------------------------------
(* Types. *)

\* What a message put into Input does to sarama and the process.
LEMMA PutTypes ==
  ASSUME TypeOK, NEW m \in Updates, Put(m)
  PROVE  /\ inflight' \in Seq(Entries)
         /\ bounced' \in 0..MaxUpdates
         /\ process' \in {process, "panicked"}
         /\ UNCHANGED <<sarama, shutdown, topic>>
<1>1. inflight \in Seq(Entries) /\ bounced \in 0..MaxUpdates /\ m \in 0..MaxUpdates
  BY Shapes, ProducerConstants DEF TypeOK, Updates, Shape
<1>2. [msg |-> m, written |-> FALSE, again |-> FALSE] \in Entries
  BY DEF Entries
<1>3. Append(inflight, [msg |-> m, written |-> FALSE, again |-> FALSE]) \in Seq(Entries)
  BY <1>1, <1>2, AppendJoins
<1>. QED
  BY <1>1, <1>3 DEF Put, Panic

LEMMA ReadErrorTypes ==
  ASSUME TypeOK, NEW m \in Updates, ReadError(m)
  PROVE  retry' \in [Updates -> 0..Attempts] /\ dropped' \subseteq Updates
<1>1. [retry EXCEPT ![m] = Attempts] \in [Updates -> 0..Attempts]
  BY ProducerConstants DEF TypeOK
<1>. QED
  BY <1>1 DEF TypeOK, ReadError

\* sarama's retry changes the flags of one entry.
LEMMA RetriedEntries ==
  ASSUME TypeOK, NEW i \in DOMAIN inflight,
         inflight' = [inflight EXCEPT ![i].written = FALSE, ![i].again = TRUE]
  PROVE  /\ inflight' \in Seq(Entries)
         /\ DOMAIN inflight' = DOMAIN inflight
         /\ \A k \in DOMAIN inflight :
              /\ inflight'[k].msg = inflight[k].msg
              /\ inflight'[k].written <=> inflight[k].written /\ k # i
              /\ inflight'[k].again <=> inflight[k].again \/ k = i
<1>. DEFINE e == [inflight[i] EXCEPT !.written = FALSE, !.again = TRUE]
<1>1. /\ inflight \in Seq(Entries) /\ inflight[i] \in Entries
      /\ \A k \in DOMAIN inflight : inflight[k] \in Entries
  BY Shapes DEF Shape
<1>2. e \in Entries /\ e.msg = inflight[i].msg /\ e.written = FALSE /\ e.again = TRUE
  BY <1>1 DEF Entries
<1>3. inflight' = [inflight EXCEPT ![i] = e]
  BY <1>1, Shapes DEF Shape, Entries
<1>. HIDE DEF e
<1>4. inflight' \in Seq(Entries)
  <2>1. i \in 1..Len(inflight)
    BY Shapes DEF Shape
  <2>2. inflight \in Seq(Entries) /\ e \in Entries
    BY <1>1, <1>2
  <2>3. [inflight EXCEPT ![i] = e] \in Seq(Entries)
    BY <2>1, <2>2, ExceptSeq, Zenon
  <2>. QED
    BY <1>3, <2>3
<1>5. DOMAIN inflight' = DOMAIN inflight
  BY <1>3
<1>6. \A k \in DOMAIN inflight : inflight'[k] = IF k = i THEN e ELSE inflight[k]
  BY <1>3
<1>. QED
  BY <1>1, <1>2, <1>4, <1>5, <1>6 DEF Entries

LEMMA AttemptTypes ==
  ASSUME TypeOK, NEW i \in DOMAIN inflight, AttemptFails(inflight[i])
  PROVE  /\ failed' \subseteq Updates /\ unacked' \subseteq Updates
         /\ lostAcks' \in 0..MaxLostAcks
<1>1. inflight[i].msg \in Updates
  BY Shapes DEF Shape
<1>. QED
  BY <1>1, ProducerConstants DEF TypeOK, AttemptFails

LEMMA TypeStep == TypeOK /\ OnePlace /\ [Next]_vars => TypeOK'
<1>. SUFFICES ASSUME TypeOK, OnePlace, [Next]_vars PROVE TypeOK'
  OBVIOUS
<1>. USE ProducerConstants
<1>0. /\ Seq(Entries) = Seq([msg : Updates, written : BOOLEAN, again : BOOLEAN])
      /\ Updates \subseteq 0..MaxUpdates
      /\ \A i \in DOMAIN inflight : inflight[i].msg \in Updates
  BY Shapes DEF Entries, Updates, Shape
<1>1. CASE Receive
  BY <1>1 DEF TypeOK, Receive, library, ghosts
<1>2. CASE Produce
  <2>1. run.msg \in Updates
    BY <1>2 DEF OnePlace, Produce
  <2>. QED
    BY <1>2, <1>0, <2>1, PutTypes DEF TypeOK, Produce, ghosts
<1>3. CASE RunReturns
  BY <1>3 DEF TypeOK, RunReturns, ghosts, Closers
<1>4. CASE SendOnClosed \/ HandlerReturns \/ HandlerPanics \/ CloseUpdates \/ StopStep
  BY <1>4 DEF TypeOK, SendOnClosed, HandlerReturns, HandlerPanics, CloseUpdates, StopStep,
              StopAsyncClose, StopClose, StopReturns, Exit, Panic, Closers, library, ghosts
<1>5. CASE Delivered
  <2>1. inflight' \in Seq(Entries)
    BY <1>5, RemoveAtLeaves DEF Delivered
  <2>. QED
    BY <1>5, <1>0, <2>1 DEF TypeOK, Delivered, code, ghosts
<1>6. CASE Failed
  <2>1. PICK i \in DOMAIN inflight :
               /\ AttemptFails(inflight[i])
               /\ ReadError(inflight[i].msg)
               /\ inflight' = RemoveAt(inflight, i)
    BY <1>6 DEF Failed
  <2>2. inflight' \in Seq(Entries)
    BY <2>1, RemoveAtLeaves
  <2>3. failed' \subseteq Updates /\ unacked' \subseteq Updates /\ lostAcks' \in 0..MaxLostAcks
    BY <2>1, AttemptTypes
  <2>4. retry' \in [Updates -> 0..Attempts] /\ dropped' \subseteq Updates
    BY <1>0, <2>1, ReadErrorTypes
  <2>5. failed' \cup unacked' \cup dropped' \subseteq Updates
    BY <2>3, <2>4
  <2>6. UNCHANGED <<taken, run, handler, stop, process, bounced, sarama, shutdown, topic>>
    BY <1>6 DEF Failed
  <2>. QED
    BY <1>0, <2>2, <2>3, <2>4, <2>5, <2>6 DEF TypeOK
<1>7. CASE GivenBack
  <2>1. bounced \in Updates
    BY <1>7 DEF TypeOK, GivenBack, Updates
  <2>2. retry' \in [Updates -> 0..Attempts] /\ dropped' \subseteq Updates
    BY <1>7, <2>1, ReadErrorTypes DEF GivenBack
  <2>3. bounced' \in 0..MaxUpdates
    BY <1>7 DEF GivenBack
  <2>4. failed' \subseteq Updates /\ unacked' \subseteq Updates
    BY <1>7, <2>1 DEF TypeOK, GivenBack
  <2>5. failed' \cup unacked' \cup dropped' \subseteq Updates
    BY <2>2, <2>4
  <2>6. UNCHANGED <<taken, run, handler, stop, process, inflight, sarama, shutdown, topic,
                    lostAcks>>
    BY <1>7 DEF GivenBack
  <2>. QED
    BY <2>2, <2>5, <2>6, <2>3 DEF TypeOK
<1>8. ASSUME NEW m \in Updates, RetryPut(m) PROVE TypeOK'
  BY <1>8, <1>0, PutTypes DEF TypeOK, RetryPut, ghosts
<1>9. ASSUME NEW m \in Updates, RetryBusy(m) PROVE TypeOK'
  BY <1>9 DEF TypeOK, RetryBusy, library
<1>10. CASE Write
  <2>1. PICK i \in DOMAIN inflight :
               /\ inflight' = [inflight EXCEPT ![i].written = TRUE]
               /\ topic' = Append(topic, inflight[i].msg)
    BY <1>10 DEF Write
  <2>2. [inflight[i] EXCEPT !.written = TRUE] \in Entries
    BY Shapes DEF Entries, Shape
  <2>3. inflight' \in Seq(Entries)
    BY <2>1, <2>2, Shapes, ExceptSeq DEF Shape
  <2>4. topic' \in Seq(Updates)
    BY <2>1, Shapes, AppendProperties DEF Shape
  <2>. QED
    BY <1>10, <1>0, <2>3, <2>4 DEF TypeOK, Write, code, ghosts
<1>11. ASSUME NEW c \in Closers, ShutdownStep(c) PROVE TypeOK'
  BY <1>11 DEF TypeOK, ShutdownStep, ShutdownCounts, ShutdownTells, ShutdownCloses, Panic,
               code, ghosts
<1>12. CASE Retried
  <2>1. PICK i \in DOMAIN inflight :
               /\ AttemptFails(inflight[i])
               /\ inflight' = [inflight EXCEPT ![i].written = FALSE, ![i].again = TRUE]
    BY <1>12 DEF Retried
  <2>2. inflight' \in Seq(Entries)
    BY <2>1, RetriedEntries
  <2>3. failed' \subseteq Updates /\ unacked' \subseteq Updates /\ lostAcks' \in 0..MaxLostAcks
    BY <2>1, AttemptTypes
  <2>4. UNCHANGED <<taken, run, handler, retry, stop, process, bounced, sarama, shutdown, topic,
                    dropped>>
    BY <1>12 DEF Retried, code
  <2>5. failed' \cup unacked' \cup dropped' \subseteq Updates
    BY <2>3, <2>4 DEF TypeOK
  <2>. QED
    BY <1>0, <2>2, <2>3, <2>4, <2>5 DEF TypeOK
<1>13. CASE UNCHANGED vars
  BY <1>13 DEF TypeOK, vars, code, library, ghosts
<1>. QED
  BY <1>1, <1>2, <1>3, <1>4, <1>5, <1>6, <1>7, <1>8, <1>9, <1>10, <1>11, <1>12, <1>13
     DEF Next, Step, RunStep, RetryStep

-----------------------------------------------------------------------------
(* What the places of the updates and the room in the topic have in common. *)

Messages ==
    /\ \A i \in DOMAIN inflight : inflight[i].msg \in InFlight
    /\ \A m \in InFlight : \E i \in DOMAIN inflight : m = inflight[i].msg
    /\ \A i \in DOMAIN topic : topic[i] \in Written
    /\ \A m \in Written : \E i \in DOMAIN topic : m = topic[i]
    /\ InFlight \subseteq Updates /\ Written \subseteq Updates

LEMMA MessagesAre == TypeOK => Messages
BY Shapes DEF InFlight, Written, Messages, Shape

LEMMA MessagesNext == TypeOK' => Messages'
BY MessagesAre, PTL

LEMMA UpdatesAre == Updates \subseteq Nat \ {0}
BY ProducerConstants DEF Updates

\* An entry that leaves takes its message along; the others stay in their order.
LEMMA LeavesOthers ==
  ASSUME TypeOK, TypeOK', OnePlace, NEW i \in DOMAIN inflight, Leaves(i)
  PROVE  /\ \A j, k \in DOMAIN inflight' : j < k =>
              \E a, b \in DOMAIN inflight :
                 a < b /\ inflight'[j] = inflight[a] /\ inflight'[k] = inflight[b]
         /\ \A k \in DOMAIN inflight' : \E a \in DOMAIN inflight \ {i} :
              inflight'[k] = inflight[a]
         /\ InFlight' = InFlight \ {inflight[i].msg}
<1>1. /\ Len(inflight) \in Nat /\ DOMAIN inflight = 1..Len(inflight)
      /\ DOMAIN inflight' = 1..(Len(inflight) - 1)
      /\ \A k \in 1..(Len(inflight) - 1) :
           inflight'[k] = inflight[IF k < i THEN k ELSE k + 1]
  BY Shapes, ShapesNext DEF Leaves, Shape
<1>2. ASSUME NEW j \in DOMAIN inflight', NEW k \in DOMAIN inflight', j < k
      PROVE  \E a, b \in DOMAIN inflight :
                a < b /\ inflight'[j] = inflight[a] /\ inflight'[k] = inflight[b]
  <2>. DEFINE a == IF j < i THEN j ELSE j + 1
              b == IF k < i THEN k ELSE k + 1
  <2>1. a \in DOMAIN inflight /\ b \in DOMAIN inflight /\ a < b
    BY <1>1, <1>2
  <2>2. inflight'[j] = inflight[a] /\ inflight'[k] = inflight[b]
    BY <1>1
  <2>. QED
    BY <2>1, <2>2
<1>3. ASSUME NEW k \in DOMAIN inflight'
      PROVE  \E a \in DOMAIN inflight \ {i} : inflight'[k] = inflight[a]
  <2>. DEFINE a == IF k < i THEN k ELSE k + 1
  <2>1. a \in DOMAIN inflight \ {i} /\ inflight'[k] = inflight[a]
    BY <1>1
  <2>. QED
    BY <2>1
<1>4. ASSUME NEW a \in DOMAIN inflight, a # i
      PROVE  \E k \in DOMAIN inflight' : inflight'[k] = inflight[a]
  <2>. DEFINE k == IF a < i THEN a ELSE a - 1
  <2>1. k \in DOMAIN inflight' /\ (IF k < i THEN k ELSE k + 1) = a
    BY <1>1, <1>4
  <2>2. inflight'[k] = inflight[IF k < i THEN k ELSE k + 1]
    BY <1>1, <2>1
  <2>. QED
    BY <2>1, <2>2
<1>5. ASSUME NEW m \in InFlight' PROVE m \in InFlight \ {inflight[i].msg}
  <2>1. PICK k \in DOMAIN inflight' : m = inflight'[k].msg
    BY MessagesNext DEF Messages
  <2>2. PICK a \in DOMAIN inflight \ {i} : inflight'[k] = inflight[a]
    BY <1>3
  <2>. QED
    BY <2>1, <2>2, MessagesAre DEF OnePlace, Messages
<1>6. ASSUME NEW m \in InFlight \ {inflight[i].msg} PROVE m \in InFlight'
  <2>1. PICK a \in DOMAIN inflight : m = inflight[a].msg
    BY MessagesAre DEF Messages
  <2>2. PICK k \in DOMAIN inflight' : inflight'[k] = inflight[a]
    BY <1>4, <2>1
  <2>. QED
    BY <2>1, <2>2, MessagesNext DEF Messages
<1>. QED
  BY <1>2, <1>3, <1>5, <1>6

LEMMA UnwrittenFinite == TypeOK => IsFiniteSet(Unwritten) /\ Cardinality(Unwritten) \in Nat
<1>1. IsFiniteSet(Updates)
  BY ProducerConstants, FS_Interval DEF Updates
<1>2. Unwritten \in SUBSET Updates
  BY DEF Unwritten
<1>. QED
  BY <1>1, <1>2, FS_Subset, FS_CardinalityType

Counts == {taken, lostAcks, Len(topic), Cardinality(Unwritten)} \subseteq Nat

LEMMA CountsAre == TypeOK => Counts
<1>1. TypeOK => taken \in Nat /\ lostAcks \in Nat
  BY ProducerConstants DEF TypeOK
<1>2. TypeOK => Len(topic) \in Nat
  BY Shapes DEF Shape
<1>. QED
  BY <1>1, <1>2, UnwrittenFinite DEF Counts

LEMMA CountsNext == TypeOK' => Counts'
BY CountsAre, PTL

LEMMA UnwrittenSizes ==
  ASSUME TypeOK, TypeOK'
  PROVE  /\ Unwritten' \subseteq Unwritten => Cardinality(Unwritten)' <= Cardinality(Unwritten)
         /\ \A m : Unwritten' \subseteq Unwritten \cup {m} =>
              Cardinality(Unwritten)' <= Cardinality(Unwritten) + 1
         /\ \A m \in Unwritten : Unwritten' \subseteq Unwritten \ {m} =>
              Cardinality(Unwritten)' <= Cardinality(Unwritten) - 1
<1>1. /\ IsFiniteSet(Unwritten) /\ Cardinality(Unwritten) \in Nat
      /\ Cardinality(Unwritten)' \in Nat
  BY UnwrittenFinite, CountsNext DEF Counts
<1>2. Unwritten' \subseteq Unwritten => Cardinality(Unwritten)' <= Cardinality(Unwritten)
  BY <1>1, FS_Subset
<1>3. ASSUME NEW m, Unwritten' \subseteq Unwritten \cup {m}
      PROVE  Cardinality(Unwritten)' <= Cardinality(Unwritten) + 1
  <2>1. /\ IsFiniteSet(Unwritten \cup {m})
        /\ Cardinality(Unwritten \cup {m}) \in {Cardinality(Unwritten), Cardinality(Unwritten) + 1}
    BY <1>1, FS_AddElement
  <2>2. Cardinality(Unwritten)' <= Cardinality(Unwritten \cup {m})
    BY <1>3, <2>1, FS_Subset
  <2>. QED
    BY <1>1, <2>1, <2>2
<1>4. ASSUME NEW m \in Unwritten, Unwritten' \subseteq Unwritten \ {m}
      PROVE  Cardinality(Unwritten)' <= Cardinality(Unwritten) - 1
  <2>1. /\ IsFiniteSet(Unwritten \ {m})
        /\ Cardinality(Unwritten \ {m}) = Cardinality(Unwritten) - 1
    BY <1>1, FS_RemoveElement
  <2>2. Cardinality(Unwritten)' <= Cardinality(Unwritten \ {m})
    BY <1>4, <2>1, FS_Subset
  <2>. QED
    BY <2>1, <2>2
<1>. QED
  BY <1>2, <1>3, <1>4

LEMMA RoomKept ==
  ASSUME TypeOK, TypeOK', Room, Unwritten' \subseteq Unwritten, UNCHANGED <<taken, topic, lostAcks>>
  PROVE  Room'
<1>1. Cardinality(Unwritten)' <= Cardinality(Unwritten)
  BY UnwrittenSizes
<1>2. Counts /\ Counts'
  BY CountsAre, CountsNext
<1>. QED
  BY <1>1, <1>2 DEF Room, Counts

-----------------------------------------------------------------------------
(* The steps. *)

Quiet ==
    /\ UNCHANGED <<taken, retry, inflight, bounced, topic, failed, unacked, lostAcks>>
    /\ run'.msg = run.msg /\ (run'.pc = "input" <=> run.pc = "input")

LEMMA QuietInv == TypeOK /\ Inv /\ Quiet => Inv'
<1>. SUFFICES ASSUME TypeOK, Inv, Quiet PROVE Inv'
  OBVIOUS
<1>1. InFlight' = InFlight /\ Written' = Written /\ Unwritten' = Unwritten
  BY DEF Quiet, InFlight, Written, Unwritten
<1>2. OnePlace'
  BY <1>1 DEF Inv, OnePlace, Quiet
<1>3. Flags' /\ InTurn'
  BY <1>1 DEF Inv, Flags, InTurn, Quiet
<1>4. Room' /\ TwiceWasUnacked' /\ OvertakenHasFailed'
  BY <1>1 DEF Inv, Room, TwiceWasUnacked, OvertakenHasFailed, Quiet
<1>. QED
  BY <1>2, <1>3, <1>4 DEF Inv

LEMMA ReceiveInv == TypeOK /\ Inv /\ Receive /\ TypeOK' => Inv'
<1>. SUFFICES ASSUME TypeOK, Inv, Receive, TypeOK' PROVE Inv'
  OBVIOUS
<1>1. /\ taken \in Nat /\ taken' = taken + 1 /\ taken' \in Updates
      /\ run.pc = "select" /\ run'.pc = "input" /\ run.msg = 0 /\ run'.msg = taken'
      /\ UNCHANGED <<retry, inflight, bounced, topic, failed, unacked, lostAcks>>
  BY ProducerConstants DEF TypeOK, Inv, OnePlace, Receive, Updates, library, ghosts
<1>2. InFlight' = InFlight /\ Written' = Written /\ InFlight \cup Written \subseteq Nat
  <2>1. InFlight' = InFlight /\ Written' = Written
    BY <1>1 DEF InFlight, Written
  <2>. QED
    BY <2>1, MessagesAre, UpdatesAre DEF Messages
<1>3. taken' \notin InFlight \cup Written /\ bounced # taken' /\ retry[taken'] = 0
  <2>1. retry[taken'] \in Nat /\ bounced \in Nat
    BY <1>1, ProducerConstants DEF TypeOK
  <2>2. \A m \in InFlight \cup Written : m <= taken
    BY DEF Inv, OnePlace
  <2>3. taken' \notin InFlight \cup Written
    BY <1>1, <1>2, <2>2
  <2>4. bounced # taken'
    BY <1>1, <2>1 DEF Inv, OnePlace
  <2>5. retry[taken'] = 0
    BY <1>1, <2>1 DEF Inv, OnePlace
  <2>. QED
    BY <2>3, <2>4, <2>5
<1>4. Unwritten' = Unwritten \cup {taken'}
  BY <1>1, UpdatesAre DEF Unwritten
<1>5. OnePlace'
  <2>1. taken' # 0 /\ \A m \in Nat : m <= taken => m <= taken'
    BY <1>1
  <2>2. bounced' # 0 => bounced' <= taken' /\ bounced' \notin InFlight' \cup {run'.msg}
    BY <1>1, <1>2, <1>3, <2>1, ProducerConstants DEF Inv, OnePlace, TypeOK
  <2>3. \A m \in Updates :
          retry'[m] > 0 => m <= taken' /\ m \notin InFlight' \cup {run'.msg, bounced'}
    BY <1>1, <1>2, <1>3, <2>1, UpdatesAre DEF Inv, OnePlace
  <2>4. \A m \in InFlight' \cup Written' : m <= taken'
    BY <1>2, <2>1 DEF Inv, OnePlace
  <2>5. \A i, j \in DOMAIN inflight' : i # j => inflight'[i].msg # inflight'[j].msg
    BY <1>1 DEF Inv, OnePlace
  <2>. QED
    BY <1>1, <1>2, <1>3, <2>2, <2>3, <2>4, <2>5 DEF OnePlace
<1>6. Flags'
  BY <1>1, <1>2, <1>3, <1>4 DEF Inv, Flags
<1>7. InTurn'
  BY <1>1, <1>2 DEF Inv, InTurn
<1>8. Room'
  <2>1. Cardinality(Unwritten)' <= Cardinality(Unwritten) + 1
    BY <1>4, UnwrittenSizes
  <2>2. Counts /\ Counts'
    BY CountsAre, CountsNext
  <2>. QED
    BY <1>1, <2>1, <2>2 DEF Inv, Room, Counts
<1>9. TwiceWasUnacked' /\ OvertakenHasFailed'
  BY <1>1 DEF Inv, TwiceWasUnacked, OvertakenHasFailed
<1>. QED
  BY <1>5, <1>6, <1>7, <1>8, <1>9 DEF Inv

\* Run or a retryMessage has m to put into Input, and does it only once.
Hands(m) ==
    \/ /\ run.pc = "input"
       /\ m = run.msg
       /\ run' = [pc |-> "select", msg |-> 0]
       /\ UNCHANGED retry
    \/ /\ retry[m] > 0
       /\ retry' = [retry EXCEPT ![m] = 0]
       /\ UNCHANGED run

LEMMA HandsInv ==
  ASSUME TypeOK, Inv, TypeOK', NEW m \in Updates, Hands(m), Put(m), UNCHANGED <<taken, ghosts>>
  PROVE  Inv'
<1>1. /\ m \in Nat \ {0} /\ taken \in Nat /\ bounced = 0
      /\ UNCHANGED <<taken, topic, failed, unacked, lostAcks>>
      /\ Written' = Written /\ InFlight \subseteq Updates /\ Written \subseteq Updates
  <2>1. /\ bounced = 0 /\ UNCHANGED <<taken, topic, failed, unacked, lostAcks>>
    BY DEF Put, ghosts
  <2>2. Written' = Written
    BY <2>1 DEF Written
  <2>. QED
    BY <2>1, <2>2, UpdatesAre, MessagesAre, ProducerConstants DEF Messages, TypeOK
<1>2. /\ m <= taken /\ m \notin InFlight /\ m \in Unwritten
      /\ m \in failed \/ \A x \in InFlight \cup Written : x <= m
  <2>1. CASE run.pc = "input" /\ m = run.msg
    <3>1. m = taken /\ m \notin InFlight
      BY <2>1 DEF Inv, OnePlace
    <3>2. m \in Unwritten
      BY <2>1 DEF Unwritten
    <3>. QED
      BY <1>1, <3>1, <3>2 DEF Inv, OnePlace
  <2>2. CASE retry[m] > 0
    <3>1. m <= taken /\ m \notin InFlight /\ m \in failed
      BY <2>2 DEF Inv, OnePlace, InTurn
    <3>2. m \in Unwritten
      BY <2>2 DEF Unwritten
    <3>. QED
      BY <3>1, <3>2
  <2>. QED
    BY <2>1, <2>2 DEF Hands
<1>3. /\ IF run'.pc = "input" THEN run'.msg = taken /\ taken \in Updates \ Written
                              ELSE run'.msg = 0
      /\ run'.msg # m /\ run'.msg \notin InFlight /\ run'.msg \in {0, run.msg}
  <2>1. CASE run.pc = "input" /\ m = run.msg /\ run' = [pc |-> "select", msg |-> 0]
    BY <1>1, <2>1, UpdatesAre
  <2>2. CASE retry[m] > 0 /\ UNCHANGED run
    BY <2>2 DEF Inv, OnePlace
  <2>. QED
    BY <2>1, <2>2 DEF Hands
<1>4. \A n \in Updates : retry'[n] > 0 => retry[n] > 0 /\ n # m
  <2>1. CASE run.pc = "input" /\ m = run.msg /\ UNCHANGED retry
    BY <2>1 DEF Inv, OnePlace
  <2>2. CASE retry[m] > 0 /\ retry' = [retry EXCEPT ![m] = 0]
    BY <2>2 DEF TypeOK
  <2>. QED
    BY <2>1, <2>2 DEF Hands
<1>5. ASSUME NEW n \in Updates, n = run'.msg \/ retry'[n] > 0
      PROVE  n \in Unwritten /\ n # m
  BY <1>1, <1>3, <1>4, <1>5, UpdatesAre DEF Unwritten
<1>6. CASE UNCHANGED <<inflight, bounced>>
  <2>1. InFlight' = InFlight /\ Unwritten' \subseteq Unwritten
    BY <1>5, <1>6 DEF InFlight, Unwritten
  <2>2. OnePlace'
    BY <1>1, <1>3, <1>4, <1>6, <2>1 DEF Inv, OnePlace
  <2>3. Flags' /\ InTurn'
    BY <1>1, <1>4, <1>6, <2>1 DEF Inv, Flags, InTurn
  <2>4. Room'
    BY <1>1, <2>1, RoomKept DEF Inv
  <2>5. TwiceWasUnacked' /\ OvertakenHasFailed'
    BY <1>1, <1>6 DEF Inv, TwiceWasUnacked, OvertakenHasFailed
  <2>. QED
    BY <2>2, <2>3, <2>4, <2>5 DEF Inv
<1>7. CASE bounced' = m /\ UNCHANGED inflight
  <2>1. InFlight' = InFlight
    BY <1>7 DEF InFlight
  <2>2. Unwritten' \subseteq Unwritten
    BY <1>2, <1>5, <1>7 DEF Unwritten
  <2>3. OnePlace'
    BY <1>1, <1>2, <1>3, <1>4, <1>7, <2>1 DEF Inv, OnePlace
  <2>4. Flags'
    BY <1>1, <1>7, <2>2 DEF Inv, Flags
  <2>5. InTurn'
    BY <1>1, <1>2, <1>4, <1>7, <2>1 DEF Inv, InTurn
  <2>6. Room'
    BY <1>1, <2>2, RoomKept DEF Inv
  <2>7. TwiceWasUnacked' /\ OvertakenHasFailed'
    BY <1>1, <1>7 DEF Inv, TwiceWasUnacked, OvertakenHasFailed
  <2>. QED
    BY <2>3, <2>4, <2>5, <2>6, <2>7 DEF Inv
<1>8. CASE inflight' = Append(inflight, [msg |-> m, written |-> FALSE, again |-> FALSE]) /\ UNCHANGED bounced
  <2>. DEFINE n == Len(inflight)
  <2>1. /\ n \in Nat /\ DOMAIN inflight = 1..n /\ DOMAIN inflight' = 1..(n + 1)
        /\ \A k \in 1..n : inflight'[k] = inflight[k]
        /\ inflight'[n + 1].msg = m /\ ~inflight'[n + 1].written /\ ~inflight'[n + 1].again
    <3>1. inflight \in Seq(Entries) /\ [msg |-> m, written |-> FALSE, again |-> FALSE] \in Entries
      BY Shapes DEF Shape, Entries
    <3>2. Joins(inflight, inflight', [msg |-> m, written |-> FALSE, again |-> FALSE])
      BY <1>8, <3>1, AppendJoins
    <3>. QED
      BY <3>2, Shapes, ShapesNext DEF Joins, Shape
  <2>. HIDE DEF n
  <2>2. \A k \in DOMAIN inflight' : (k \in DOMAIN inflight /\ k < n + 1) \/ k = n + 1
    BY <2>1
  <2>3. ASSUME NEW x PROVE x \in InFlight' <=> x \in InFlight \cup {m}
    <3>1. \A k \in DOMAIN inflight : inflight'[k] = inflight[k] /\ k \in DOMAIN inflight'
      BY <2>1
    <3>2. n + 1 \in DOMAIN inflight'
      BY <2>1
    <3>. QED
      BY <2>1, <2>2, <3>1, <3>2, MessagesAre, MessagesNext DEF Messages
  <2>4. \A k \in DOMAIN inflight' :
          \/ k \in DOMAIN inflight /\ inflight'[k] = inflight[k] /\ inflight[k].msg # m
          \/ k = n + 1 /\ inflight'[k].msg = m /\ ~inflight'[k].written /\ ~inflight'[k].again
    BY <1>2, <2>1, <2>2, MessagesAre DEF Messages
  <2>5. Unwritten' \subseteq Unwritten
    BY <1>2, <1>5, <1>8, <2>4 DEF Unwritten
  <2>6. OnePlace'
    <3>1. \A i, j \in DOMAIN inflight' : i # j => inflight'[i].msg # inflight'[j].msg
      BY <2>4 DEF Inv, OnePlace
    <3>. QED
      BY <1>1, <1>2, <1>3, <1>4, <1>8, <2>3, <3>1 DEF Inv, OnePlace
  <2>7. Flags'
    BY <1>1, <2>4, <2>5 DEF Inv, Flags
  <2>8. InTurn'
    <3>1. bounced' = 0
      BY <1>1, <1>8
    <3>2. ASSUME NEW i \in DOMAIN inflight', NEW j \in DOMAIN inflight',
                 i < j, inflight'[i].msg > inflight'[j].msg
          PROVE  inflight'[j].msg \in failed'
      <4>1. i \in DOMAIN inflight /\ inflight'[i] = inflight[i]
        BY <2>1, <2>4, <3>2
      <4>2. CASE j \in DOMAIN inflight /\ inflight'[j] = inflight[j]
        BY <1>1, <3>2, <4>1, <4>2 DEF Inv, InTurn
      <4>3. CASE inflight'[j].msg = m
        <5>1. inflight[i].msg \in InFlight /\ inflight[i].msg > m
          BY <3>2, <4>1, <4>3, MessagesAre DEF Messages
        <5>2. inflight[i].msg \in Nat
          BY <1>1, <5>1, UpdatesAre
        <5>. QED
          BY <1>1, <1>2, <4>3, <5>1, <5>2
      <4>. QED
        BY <2>4, <4>2, <4>3
    <3>3. ASSUME NEW i \in DOMAIN inflight', NEW x \in Written',
                 ~inflight'[i].written, x > inflight'[i].msg
          PROVE  inflight'[i].msg \in failed'
      <4>1. CASE i \in DOMAIN inflight /\ inflight'[i] = inflight[i]
        BY <1>1, <3>3, <4>1 DEF Inv, InTurn
      <4>2. CASE inflight'[i].msg = m
        <5>1. x \in Written /\ x \in Nat
          BY <1>1, UpdatesAre
        <5>. QED
          BY <1>1, <1>2, <3>3, <4>2, <5>1
      <4>. QED
        BY <2>4, <4>1, <4>2
    <3>4. \A i \in DOMAIN inflight' : inflight'[i].again => inflight'[i].msg \in failed'
      BY <1>1, <2>4 DEF Inv, InTurn
    <3>. QED
      BY <1>1, <1>4, <3>1, <3>2, <3>3, <3>4 DEF Inv, InTurn
  <2>9. Room'
    BY <1>1, <2>5, RoomKept DEF Inv
  <2>10. TwiceWasUnacked' /\ OvertakenHasFailed'
    BY <1>1, <2>6 DEF Inv, TwiceWasUnacked, OvertakenHasFailed, OnePlace
  <2>. QED
    BY <2>6, <2>7, <2>8, <2>9, <2>10 DEF Inv
<1>. QED
  BY <1>6, <1>7, <1>8 DEF Put

\* Whoever leaves, the others are still apart and in turn.
LEMMA LeavesInv ==
  ASSUME TypeOK, TypeOK', Inv, NEW i \in DOMAIN inflight, Leaves(i),
         UNCHANGED topic, failed \subseteq failed'
  PROVE  /\ \A j, k \in DOMAIN inflight' : j # k => inflight'[j].msg # inflight'[k].msg
         /\ \A k \in DOMAIN inflight' : inflight'[k].written => inflight'[k].msg \in Written'
         /\ \A j, k \in DOMAIN inflight' :
              (j < k /\ inflight'[j].msg > inflight'[k].msg) => inflight'[k].msg \in failed'
         /\ \A k \in DOMAIN inflight' : \A x \in Written' :
              (~inflight'[k].written /\ x > inflight'[k].msg) => inflight'[k].msg \in failed'
         /\ \A k \in DOMAIN inflight' : inflight'[k].again => inflight'[k].msg \in failed'
         /\ Written' = Written
<1>1. Written' = Written
  BY DEF Written
<1>2. /\ \A j, k \in DOMAIN inflight' : j < k =>
           \E a, b \in DOMAIN inflight :
              a < b /\ inflight'[j] = inflight[a] /\ inflight'[k] = inflight[b]
      /\ \A k \in DOMAIN inflight' : \E a \in DOMAIN inflight \ {i} : inflight'[k] = inflight[a]
      /\ DOMAIN inflight \subseteq Nat /\ DOMAIN inflight' \subseteq Nat
  BY LeavesOthers, Shapes, ShapesNext DEF Inv, Shape
<1>3. ASSUME NEW j \in DOMAIN inflight', NEW k \in DOMAIN inflight', j < k
      PROVE  /\ inflight'[j].msg # inflight'[k].msg
             /\ inflight'[j].msg > inflight'[k].msg => inflight'[k].msg \in failed'
  <2>1. PICK a, b \in DOMAIN inflight :
               a < b /\ inflight'[j] = inflight[a] /\ inflight'[k] = inflight[b]
    BY <1>2, <1>3
  <2>2. a # b
    BY <1>2, <2>1
  <2>. QED
    BY <2>1, <2>2 DEF Inv, OnePlace, InTurn
<1>4. \A j, k \in DOMAIN inflight' : j # k => inflight'[j].msg # inflight'[k].msg
  <2>. SUFFICES ASSUME NEW j \in DOMAIN inflight', NEW k \in DOMAIN inflight', j # k
                PROVE  inflight'[j].msg # inflight'[k].msg
    OBVIOUS
  <2>1. j < k \/ k < j
    BY <1>2
  <2>. QED
    BY <1>3, <2>1
<1>. QED
  BY <1>1, <1>2, <1>3, <1>4 DEF Inv, Flags, InTurn

LEMMA DeliveredInv == TypeOK /\ Inv /\ Delivered /\ TypeOK' => Inv'
<1>. SUFFICES ASSUME TypeOK, Inv, Delivered, TypeOK' PROVE Inv'
  OBVIOUS
<1>0. PICK i \in DOMAIN inflight : inflight' = RemoveAt(inflight, i)
  BY DEF Delivered
<1>1. /\ Leaves(i)
      /\ UNCHANGED <<taken, run, retry, bounced, topic, failed, unacked, lostAcks>>
  BY <1>0, RemoveAtLeaves DEF Delivered, code, ghosts
<1>2. /\ InFlight' \subseteq InFlight /\ Written' = Written
      /\ \A k \in DOMAIN inflight' : \E a \in DOMAIN inflight : inflight'[k] = inflight[a]
  BY <1>1, LeavesOthers, LeavesInv DEF Inv
<1>3. Unwritten' \subseteq Unwritten
  BY <1>1, <1>2 DEF Unwritten
<1>4. OnePlace'
  BY <1>1, <1>2, LeavesInv DEF Inv, OnePlace
<1>5. Flags' /\ InTurn'
  BY <1>1, <1>2, <1>3, LeavesInv DEF Inv, Flags, InTurn
<1>6. Room'
  BY <1>1, <1>3, RoomKept DEF Inv
<1>7. TwiceWasUnacked' /\ OvertakenHasFailed'
  BY <1>1, <1>4 DEF Inv, TwiceWasUnacked, OvertakenHasFailed, OnePlace
<1>. QED
  BY <1>4, <1>5, <1>6, <1>7 DEF Inv

LEMMA FailedInv == TypeOK /\ Inv /\ Failed /\ TypeOK' => Inv'
<1>. SUFFICES ASSUME TypeOK, Inv, Failed, TypeOK' PROVE Inv'
  OBVIOUS
<1>1. PICK i \in DOMAIN inflight :
             /\ AttemptFails(inflight[i])
             /\ ReadError(inflight[i].msg)
             /\ inflight' = RemoveAt(inflight, i)
  BY DEF Failed
<1>. DEFINE m == inflight[i].msg
<1>2. /\ Leaves(i) /\ UNCHANGED <<taken, run, bounced, topic>>
      /\ failed' = failed \cup {m} /\ unacked \subseteq unacked'
      /\ inflight[i].written => m \in unacked' /\ lostAcks' = lostAcks + 1
      /\ ~inflight[i].written => lostAcks' = lostAcks
  BY <1>1, RemoveAtLeaves DEF Failed, AttemptFails
<1>3. /\ InFlight' = InFlight \ {m} /\ Written' = Written
      /\ \A k \in DOMAIN inflight' : \E a \in DOMAIN inflight \ {i} : inflight'[k] = inflight[a]
  BY <1>2, LeavesOthers, LeavesInv DEF Inv
<1>4. \A n \in Updates : retry'[n] > 0 => retry[n] > 0 \/ n = m
  BY <1>1 DEF ReadError, TypeOK
<1>5. m \in Updates /\ m \in InFlight /\ m <= taken /\ m # run.msg /\ m # bounced
  <2>1. m \in Updates /\ m \in InFlight
    BY MessagesAre DEF Messages
  <2>. QED
    BY <2>1, UpdatesAre DEF Inv, OnePlace
<1>6. ~inflight[i].written => m \in Unwritten
  BY <1>5 DEF Unwritten
<1>. HIDE DEF m
<1>12. Unwritten' \subseteq Unwritten \cup {m}
  BY <1>2, <1>3, <1>4 DEF Unwritten
<1>7. OnePlace'
  <2>1. \A j, k \in DOMAIN inflight' : j # k => inflight'[j].msg # inflight'[k].msg
    BY <1>2, LeavesInv
  <2>2. \A n \in Updates :
          retry'[n] > 0 => n <= taken' /\ n \notin InFlight' \cup {run'.msg, bounced'}
    BY <1>2, <1>3, <1>4, <1>5 DEF Inv, OnePlace
  <2>. QED
    BY <1>2, <1>3, <2>1, <2>2 DEF Inv, OnePlace
<1>8. Flags'
  <2>1. \A k \in DOMAIN inflight' : inflight'[k].written => inflight'[k].msg \in Written'
    BY <1>2, LeavesInv
  <2>2. m \in Unwritten' \cap Written' => m \in unacked'
    BY <1>2, <1>3, <1>6 DEF Inv, Flags
  <2>. QED
    BY <1>2, <1>3, <1>12, <2>1, <2>2 DEF Inv, Flags
<1>9. InTurn'
  <2>1. \A n \in Updates : retry'[n] > 0 => n \in failed'
    BY <1>2, <1>4 DEF Inv, InTurn
  <2>2. bounced' \notin failed' \cup {0} => \A x \in InFlight' \cup Written' : x <= bounced'
    BY <1>2, <1>3 DEF Inv, InTurn
  <2>. QED
    BY <1>2, <2>1, <2>2, LeavesInv DEF InTurn
<1>10. Room'
  <2>1. CASE inflight[i].written
    <3>1. Cardinality(Unwritten)' <= Cardinality(Unwritten) + 1
      BY <1>12, UnwrittenSizes
    <3>2. UNCHANGED <<taken, topic>> /\ lostAcks' = lostAcks + 1
      BY <1>2, <2>1
    <3>. QED
      BY <3>1, <3>2, CountsAre, CountsNext DEF Inv, Room, Counts
  <2>2. CASE ~inflight[i].written
    <3>1. Unwritten' \subseteq Unwritten
      BY <1>6, <1>12, <2>2
    <3>. QED
      BY <1>2, <2>2, <3>1, RoomKept DEF Inv
  <2>. QED
    BY <2>1, <2>2
<1>11. TwiceWasUnacked' /\ OvertakenHasFailed'
  BY <1>2, <1>7 DEF Inv, TwiceWasUnacked, OvertakenHasFailed, OnePlace
<1>. QED
  BY <1>7, <1>8, <1>9, <1>10, <1>11 DEF Inv

LEMMA RetriedInv == TypeOK /\ Inv /\ Retried /\ TypeOK' => Inv'
<1>. SUFFICES ASSUME TypeOK, Inv, Retried, TypeOK' PROVE Inv'
  OBVIOUS
<1>1. PICK i \in DOMAIN inflight :
             /\ AttemptFails(inflight[i])
             /\ inflight' = [inflight EXCEPT ![i].written = FALSE, ![i].again = TRUE]
  BY DEF Retried
<1>. DEFINE m == inflight[i].msg
<1>2. /\ UNCHANGED <<taken, run, retry, bounced, topic>>
      /\ failed' = failed \cup {m} /\ unacked \subseteq unacked'
      /\ inflight[i].written => m \in unacked' /\ lostAcks' = lostAcks + 1
      /\ ~inflight[i].written => lostAcks' = lostAcks
  BY <1>1 DEF Retried, AttemptFails, code
<1>3. /\ DOMAIN inflight' = DOMAIN inflight
      /\ \A k \in DOMAIN inflight :
           /\ inflight'[k].msg = inflight[k].msg
           /\ inflight'[k].written <=> inflight[k].written /\ k # i
           /\ inflight'[k].again <=> inflight[k].again \/ k = i
  BY <1>1, RetriedEntries
<1>4. InFlight' = InFlight /\ Written' = Written
  BY <1>2, <1>3 DEF InFlight, Written
<1>5. m \in Updates /\ (~inflight[i].written => m \in Unwritten)
  BY MessagesAre DEF Messages, Unwritten
<1>6. Unwritten' \subseteq Unwritten \cup {m}
  BY <1>2, <1>3 DEF Unwritten
<1>7. /\ \A k \in DOMAIN inflight : inflight[k].msg = m => k = i
      /\ \A k \in DOMAIN inflight : inflight[k].msg \in Updates
  BY MessagesAre DEF Inv, OnePlace, Messages
<1>8. OnePlace'
  BY <1>2, <1>3, <1>4 DEF Inv, OnePlace
<1>9. Flags'
  <2>1. \A k \in DOMAIN inflight' : inflight'[k].written => inflight'[k].msg \in Written'
    BY <1>3, <1>4 DEF Inv, Flags
  <2>2. m \in Unwritten' \cap Written' => m \in unacked'
    BY <1>2, <1>4, <1>5 DEF Inv, Flags
  <2>. HIDE DEF m
  <2>. QED
    BY <1>2, <1>4, <1>6, <2>1, <2>2 DEF Inv, Flags
<1>10. InTurn'
  <2>1. failed \subseteq failed' /\ inflight'[i].msg \in failed'
    BY <1>2, <1>3
  <2>2. \A k \in DOMAIN inflight' : inflight'[k].again => inflight'[k].msg \in failed'
    BY <1>3, <2>1 DEF Inv, InTurn
  <2>3. \A j, k \in DOMAIN inflight' :
          (j < k /\ inflight'[j].msg > inflight'[k].msg) => inflight'[k].msg \in failed'
    BY <1>3, <2>1 DEF Inv, InTurn
  <2>4. \A k \in DOMAIN inflight' : \A x \in Written' :
          (~inflight'[k].written /\ x > inflight'[k].msg) => inflight'[k].msg \in failed'
    BY <1>3, <1>4, <2>1 DEF Inv, InTurn
  <2>5. bounced' \notin failed' \cup {0} => \A x \in InFlight' \cup Written' : x <= bounced'
    BY <1>2, <1>4, <2>1 DEF Inv, InTurn
  <2>. QED
    BY <1>2, <2>1, <2>2, <2>3, <2>4, <2>5 DEF Inv, InTurn
<1>11. Room'
  <2>1. CASE inflight[i].written
    <3>1. Cardinality(Unwritten)' <= Cardinality(Unwritten) + 1
      BY <1>6, UnwrittenSizes
    <3>2. UNCHANGED <<taken, topic>> /\ lostAcks' = lostAcks + 1
      BY <1>2, <2>1
    <3>. QED
      BY <3>1, <3>2, CountsAre, CountsNext DEF Inv, Room, Counts
  <2>2. CASE ~inflight[i].written
    <3>1. Unwritten' \subseteq Unwritten
      BY <1>5, <1>6, <2>2
    <3>. QED
      BY <1>2, <2>2, <3>1, RoomKept DEF Inv
  <2>. QED
    BY <2>1, <2>2
<1>12. TwiceWasUnacked' /\ OvertakenHasFailed'
  BY <1>2, <1>8 DEF Inv, TwiceWasUnacked, OvertakenHasFailed, OnePlace
<1>. QED
  BY <1>8, <1>9, <1>10, <1>11, <1>12 DEF Inv

LEMMA GivenBackInv == TypeOK /\ Inv /\ GivenBack /\ TypeOK' => Inv'
<1>. SUFFICES ASSUME TypeOK, Inv, GivenBack, TypeOK' PROVE Inv'
  OBVIOUS
<1>1. /\ bounced \in Updates /\ bounced' = 0 /\ failed' = failed \cup {bounced}
      /\ UNCHANGED <<taken, run, inflight, topic, unacked, lostAcks>>
      /\ InFlight' = InFlight /\ Written' = Written
  <2>1. bounced \in Updates
    BY DEF GivenBack, TypeOK, Updates
  <2>. QED
    BY <2>1 DEF GivenBack, InFlight, Written
<1>2. \A n \in Updates : retry'[n] > 0 => retry[n] > 0 \/ n = bounced
  BY <1>1 DEF GivenBack, ReadError, TypeOK
<1>3. Unwritten' \subseteq Unwritten
  BY <1>1, <1>2, UpdatesAre DEF Unwritten
<1>4. OnePlace'
  BY <1>1, <1>2, UpdatesAre DEF Inv, OnePlace
<1>5. Flags' /\ InTurn'
  BY <1>1, <1>2, <1>3 DEF Inv, Flags, InTurn
<1>6. Room'
  BY <1>1, <1>3, RoomKept DEF Inv
<1>7. TwiceWasUnacked' /\ OvertakenHasFailed'
  BY <1>1 DEF Inv, TwiceWasUnacked, OvertakenHasFailed
<1>. QED
  BY <1>4, <1>5, <1>6, <1>7 DEF Inv

LEMMA RetryBusyInv == ASSUME NEW m \in Updates
                      PROVE  TypeOK /\ Inv /\ RetryBusy(m) /\ TypeOK' => Inv'
<1>. SUFFICES ASSUME TypeOK, Inv, RetryBusy(m), TypeOK' PROVE Inv'
  OBVIOUS
<1>1. /\ UNCHANGED <<taken, run, inflight, bounced, topic, failed, unacked, lostAcks>>
      /\ \A n \in Updates : retry'[n] > 0 => retry[n] > 0
  BY DEF RetryBusy, library, TypeOK
<1>2. InFlight' = InFlight /\ Written' = Written
  BY <1>1 DEF InFlight, Written
<1>3. Unwritten' \subseteq Unwritten
  BY <1>1 DEF Unwritten
<1>4. OnePlace'
  BY <1>1, <1>2 DEF Inv, OnePlace
<1>5. Flags' /\ InTurn'
  BY <1>1, <1>2, <1>3 DEF Inv, Flags, InTurn
<1>6. Room'
  BY <1>1, <1>3, RoomKept DEF Inv
<1>7. TwiceWasUnacked' /\ OvertakenHasFailed'
  BY <1>1 DEF Inv, TwiceWasUnacked, OvertakenHasFailed
<1>. QED
  BY <1>4, <1>5, <1>6, <1>7 DEF Inv

LEMMA WriteInv == TypeOK /\ Inv /\ Write /\ TypeOK' => Inv'
<1>. SUFFICES ASSUME TypeOK, Inv, Write, TypeOK' PROVE Inv'
  OBVIOUS
<1>1. PICK i \in DOMAIN inflight :
             /\ ~inflight[i].written
             /\ \A j \in 1..(i - 1) : inflight[j].written \/ inflight[j].again
             /\ inflight' = [inflight EXCEPT ![i].written = TRUE]
             /\ topic' = Append(topic, inflight[i].msg)
  BY DEF Write
<1>. DEFINE m == inflight[i].msg
<1>2. UNCHANGED <<taken, run, retry, bounced, failed, unacked, lostAcks>>
  BY DEF Write, code, ghosts
<1>3. /\ m \in Updates /\ m \in InFlight /\ m <= taken
      /\ m # run.msg /\ m # bounced /\ ~(retry[m] > 0)
  <2>1. m \in Updates /\ m \in InFlight
    BY MessagesAre DEF Messages
  <2>. QED
    BY <2>1, UpdatesAre DEF Inv, OnePlace
<1>4. m \in Unwritten
  BY <1>1, <1>3 DEF Unwritten
<1>5. /\ DOMAIN inflight' = DOMAIN inflight
      /\ \A k \in DOMAIN inflight : /\ inflight'[k].msg = inflight[k].msg
                                    /\ inflight'[k].written <=> inflight[k].written \/ k = i
                                    /\ inflight'[k].again <=> inflight[k].again
      /\ \A k \in DOMAIN inflight : k # i => inflight[k].msg # m
  <2>1. DOMAIN inflight' = DOMAIN inflight
    BY <1>1
  <2>2. \A k \in DOMAIN inflight : /\ inflight'[k].msg = inflight[k].msg
                                   /\ inflight'[k].written <=> inflight[k].written \/ k = i
                                   /\ inflight'[k].again <=> inflight[k].again
    BY <1>1, Shapes DEF Shape, Entries
  <2>. QED
    BY <2>1, <2>2 DEF Inv, OnePlace
<1>6. InFlight' = InFlight
  BY <1>5 DEF InFlight
<1>. DEFINE n == Len(topic)
<1>7. /\ n \in Nat /\ DOMAIN topic = 1..n /\ DOMAIN topic' = 1..(n + 1) /\ Len(topic') = n + 1
      /\ \A k \in 1..n : topic'[k] = topic[k]
      /\ topic'[n + 1] = m
  <2>1. topic \in Seq(Updates) /\ m \in Updates
    BY <1>3, Shapes DEF Shape
  <2>2. Joins(topic, topic', m)
    BY <1>1, <2>1, AppendJoins
  <2>. QED
    BY <2>2, Shapes, ShapesNext DEF Joins, Shape
<1>. HIDE DEF m, n
<1>8. /\ \A k \in DOMAIN topic' : \/ k \in DOMAIN topic /\ topic'[k] = topic[k]
                                  \/ k = n + 1 /\ topic'[k] = m
      /\ \A k \in DOMAIN topic : k < n + 1
  BY <1>7
<1>9. ASSUME NEW x PROVE x \in Written' <=> x \in Written \cup {m}
  <2>1. \A k \in DOMAIN topic : topic'[k] = topic[k] /\ k \in DOMAIN topic'
    BY <1>7
  <2>2. n + 1 \in DOMAIN topic'
    BY <1>7
  <2>. QED
    BY <1>7, <1>8, <2>1, <2>2, MessagesAre, MessagesNext DEF Messages
<1>10. Unwritten' \subseteq Unwritten \ {m}
  BY <1>2, <1>3, <1>5 DEF Unwritten
<1>11. OnePlace'
  <2>1. run.pc = "input" => m # taken
    BY <1>3 DEF Inv, OnePlace
  <2>. QED
    BY <1>2, <1>3, <1>5, <1>6, <1>9, <2>1 DEF Inv, OnePlace
<1>12. Flags'
  <2>1. \A k \in DOMAIN inflight' : inflight'[k].written => inflight'[k].msg \in Written'
    BY <1>5, <1>9 DEF Inv, Flags, m
  <2>. QED
    BY <1>2, <1>9, <1>10, <2>1 DEF Inv, Flags
<1>13. InTurn'
  <2>1. bounced' \notin failed' \cup {0} => \A x \in InFlight' \cup Written' : x <= bounced'
    BY <1>2, <1>3, <1>6, <1>9 DEF Inv, InTurn
  <2>2. ASSUME NEW j \in DOMAIN inflight', NEW x \in Written',
               ~inflight'[j].written, x > inflight'[j].msg
        PROVE  inflight'[j].msg \in failed'
    <3>1. /\ j \in DOMAIN inflight /\ ~inflight[j].written /\ j # i
          /\ inflight'[j].msg = inflight[j].msg
      BY <1>5, <2>2
    <3>2. CASE x \in Written
      BY <1>2, <2>2, <3>1, <3>2 DEF Inv, InTurn
    <3>3. CASE x = m
      <4>1. inflight[j].again \/ i < j
        BY <1>1, <3>1, Shapes DEF Shape
      <4>. QED
        BY <1>2, <2>2, <3>1, <3>3, <4>1 DEF Inv, InTurn, m
    <3>. QED
      BY <1>9, <3>2, <3>3
  <2>3. \A k \in DOMAIN inflight' : inflight'[k].again => inflight'[k].msg \in failed'
    BY <1>2, <1>5 DEF Inv, InTurn
  <2>. QED
    BY <1>2, <1>5, <2>1, <2>2, <2>3 DEF Inv, InTurn
<1>14. Room'
  <2>1. Cardinality(Unwritten)' <= Cardinality(Unwritten) - 1
    BY <1>4, <1>10, UnwrittenSizes
  <2>2. Counts /\ Counts'
    BY CountsAre, CountsNext
  <2>3. Len(topic) + Cardinality(Unwritten) <= taken + lostAcks
    BY DEF Inv, Room
  <2>. QED
    BY <1>2, <1>7, <2>1, <2>2, <2>3 DEF Room, Counts, n
<1>15. TwiceWasUnacked'
  <2>1. \A j, k \in DOMAIN inflight' : j # k => inflight'[j].msg # inflight'[k].msg
    BY <1>11 DEF OnePlace
  <2>2. m \in Written => m \in unacked
    BY <1>4 DEF Inv, Flags
  <2>3. \A k \in DOMAIN topic : topic[k] \in Written
    BY MessagesAre DEF Messages
  <2>. QED
    BY <1>2, <1>8, <2>1, <2>2, <2>3 DEF Inv, TwiceWasUnacked
<1>16. OvertakenHasFailed'
  <2>1. \A k \in DOMAIN topic : topic[k] > m => m \in failed
    BY <1>1, MessagesAre DEF Messages, Inv, InTurn, m
  <2>. SUFFICES ASSUME NEW j \in DOMAIN topic', NEW k \in DOMAIN topic', j < k,
                       topic'[j] > topic'[k]
                PROVE  topic'[k] \in failed'
    BY DEF OvertakenHasFailed
  <2>2. j \in DOMAIN topic /\ topic'[j] = topic[j]
    BY <1>7
  <2>. QED
    BY <1>2, <1>8, <2>1, <2>2 DEF Inv, OvertakenHasFailed
<1>. QED
  BY <1>11, <1>12, <1>13, <1>14, <1>15, <1>16 DEF Inv

LEMMA InitInv == Init => TypeOK /\ Inv
<1>. SUFFICES ASSUME Init PROVE TypeOK /\ Inv
  OBVIOUS
<1>1. TypeOK
  BY ProducerConstants, EmptySeq DEF Init, TypeOK, Closers
<1>2. InFlight = {} /\ Written = {} /\ Unwritten = {}
  BY UpdatesAre DEF Init, InFlight, Written, Unwritten
<1>3. Room
  BY <1>2, FS_EmptySet, EmptySeq DEF Init, Room
<1>. QED
  BY <1>1, <1>2, <1>3 DEF Init, Inv, OnePlace, Flags, InTurn, TwiceWasUnacked, OvertakenHasFailed

LEMMA NextInv == TypeOK /\ Inv /\ [Next]_vars => TypeOK' /\ Inv'
<1>. SUFFICES ASSUME TypeOK, Inv, [Next]_vars PROVE TypeOK' /\ Inv'
  OBVIOUS
<1>1. TypeOK'
  BY TypeStep DEF Inv
<1>2. CASE Produce
  <2>1. run.msg \in Updates /\ Hands(run.msg) /\ Put(run.msg) /\ UNCHANGED <<taken, ghosts>>
    BY <1>2 DEF Produce, Hands, Inv, OnePlace
  <2>. QED
    BY <1>1, <2>1, HandsInv
<1>3. ASSUME NEW m \in Updates, RetryStep(m) PROVE Inv'
  <2>1. CASE RetryPut(m)
    BY <1>1, <2>1, HandsInv DEF RetryPut, Hands
  <2>. QED
    BY <1>1, <1>3, <2>1, RetryBusyInv DEF RetryStep
<1>4. CASE RunReturns
  <2>1. run' = [run EXCEPT !.pc = "drain"] /\ run.pc = "select"
    BY <1>4 DEF RunReturns
  <2>2. run'.msg = run.msg /\ run'.pc = "drain"
    BY <2>1 DEF TypeOK
  <2>3. Quiet
    BY <1>4, <2>1, <2>2 DEF Quiet, RunReturns, ghosts
  <2>. QED
    BY <1>1, <2>3, QuietInv
<1>5. CASE \/ SendOnClosed \/ HandlerReturns \/ HandlerPanics \/ CloseUpdates
           \/ StopStep \/ UNCHANGED vars
  <2>1. Quiet
    BY <1>5 DEF Quiet, SendOnClosed, HandlerReturns, HandlerPanics, CloseUpdates,
                StopStep, StopAsyncClose, StopClose, StopReturns, Exit,
                vars, code, library, ghosts
  <2>. QED
    BY <1>1, <2>1, QuietInv
<1>6. ASSUME NEW c \in Closers, ShutdownStep(c) PROVE Inv'
  <2>1. Quiet
    BY <1>6 DEF Quiet, ShutdownStep, ShutdownCounts, ShutdownTells, ShutdownCloses, code, ghosts
  <2>. QED
    BY <2>1, QuietInv
<1>. QED
  BY <1>1, <1>2, <1>3, <1>4, <1>5, <1>6, ReceiveInv, DeliveredInv, FailedInv, GivenBackInv,
     RetriedInv, WriteInv
     DEF Next, Step, RunStep

-----------------------------------------------------------------------------
(* The theorems. *)

\* Whatever sarama and the shutdown do, every variable keeps to its range.
THEOREM TypeCorrect == Spec => []TypeOK
BY InitInv, NextInv, PTL DEF Spec

\* However often sarama and retryMessage send a message again, an update is never on
\* its way twice, and the topic holds one twice only when an acknowledgement was lost.
THEOREM TwiceUnacked == Spec => []TwiceWasUnacked
<1>1. Inv => TwiceWasUnacked
  BY DEF Inv
<1>. QED
  BY <1>1, InitInv, NextInv, PTL DEF Spec

\* An update that a later one overtakes in the topic has failed at an attempt of
\* sarama's or was given back.
THEOREM OvertakenFailed == Spec => []OvertakenHasFailed
<1>1. Inv => OvertakenHasFailed
  BY DEF Inv
<1>. QED
  BY <1>1, InitInv, NextInv, PTL DEF Spec

-----------------------------------------------------------------------------
(* The refinement. *)

\* OnItsWay by its places, which OnePlace keeps apart.
Way == \A m : m \in OnItsWay <=>
                 \/ m \in Updates /\ (m = run.msg \/ m = bounced \/ retry[m] > 0)
                 \/ m \in InFlight

LEMMA WayParts == TypeOK /\ OnePlace => Way
<1>. SUFFICES ASSUME TypeOK, OnePlace PROVE Way
  OBVIOUS
<1>1. Updates = 1..MaxUpdates /\ taken \in Nat /\ taken <= MaxUpdates
  BY ProducerConstants DEF TypeOK, Updates
<1>2. ASSUME NEW m \in OnItsWay
      PROVE  \/ m \in Updates /\ (m = run.msg \/ m = bounced \/ retry[m] > 0)
             \/ m \in InFlight
  BY <1>1, <1>2, ProducerConstants DEF OnItsWay
<1>3. ASSUME NEW m \in Updates, m = run.msg \/ m = bounced \/ retry[m] > 0
      PROVE  m \in OnItsWay
  <2>1. m <= taken
    BY <1>1, <1>3 DEF OnePlace
  <2>. QED
    BY <1>1, <1>3, <2>1 DEF OnItsWay
<1>4. ASSUME NEW m \in InFlight PROVE m \in OnItsWay
  <2>1. m <= taken /\ m \in Updates
    BY MessagesAre DEF OnePlace, Messages
  <2>. QED
    BY <1>1, <2>1 DEF OnItsWay
<1>. QED
  BY <1>2, <1>3, <1>4 DEF Way

LEMMA WayPartsNext == TypeOK' /\ OnePlace' => Way'
BY WayParts, PTL

\* Every step of a living process is a step of the channel or does not show.
LEMMA ChannelStep ==
  TypeOK /\ Inv /\ TypeOK' /\ Inv' /\ [Next]_vars => [Channel!Next]_(Channel!vars)
<1>. SUFFICES ASSUME TypeOK, Inv, TypeOK', Inv', Next
              PROVE  [Channel!Next]_(Channel!vars)
  <2>1. CASE UNCHANGED vars
    BY <2>1 DEF vars, code, library, ghosts, Channel!vars, OnItsWay, InFlight
  <2>. QED
    BY <2>1
<1>1. process = "up" /\ Step
  BY DEF Next
<1>2. Way /\ Way' /\ OnItsWay \subseteq 1..taken
  BY WayParts, WayPartsNext DEF Inv, OnItsWay
<1>3. ASSUME UNCHANGED <<taken, topic, dropped>>, process' # "up"
      PROVE  Channel!End
  BY <1>1, <1>3 DEF Channel!End
<1>4. ASSUME UNCHANGED <<taken, topic, dropped, process>>, OnItsWay' = OnItsWay
      PROVE  UNCHANGED Channel!vars
  BY <1>1, <1>4 DEF Channel!vars
<1>5. ASSUME NEW m \in OnItsWay, UNCHANGED <<taken, topic, process>>,
             dropped' = dropped \cup {m}, OnItsWay' = OnItsWay \ {m}
      PROVE  Channel!Drop(m)
  BY <1>1, <1>5 DEF Channel!Drop
<1>6. CASE Receive
  <2>1. /\ taken < MaxUpdates /\ taken' = taken + 1 /\ taken \in Nat
        /\ UNCHANGED <<topic, dropped, process, retry, inflight, bounced>>
        /\ run.msg = 0 /\ run'.msg = taken'
    BY <1>6, ProducerConstants DEF Receive, Inv, OnePlace, TypeOK, library, ghosts
  <2>2. InFlight' = InFlight /\ taken' \in Updates
    BY <2>1, ProducerConstants DEF InFlight, Updates
  <2>3. OnItsWay' = OnItsWay \cup {taken'}
    BY <1>2, <2>1, <2>2, UpdatesAre DEF Way
  <2>4. Channel!Take
    BY <1>1, <2>1, <2>3 DEF Channel!Take
  <2>. QED
    BY <1>1, <2>4 DEF Channel!Next
<1>7. ASSUME NEW m \in Updates, Hands(m), Put(m), UNCHANGED <<taken, ghosts>>
      PROVE  [Channel!Next]_(Channel!vars)
  <2>1. UNCHANGED <<taken, topic, dropped>> /\ bounced = 0 /\ m # 0
    BY <1>7, UpdatesAre DEF Put, ghosts
  <2>2. CASE process' # "up"
    BY <1>1, <1>3, <2>1, <2>2 DEF Channel!Next
  <2>3. CASE process' = "up"
    <3>1. /\ m \in OnItsWay
          /\ \A n \in Updates : n # m => /\ n = run'.msg <=> n = run.msg
                                         /\ retry'[n] > 0 <=> retry[n] > 0
      BY <1>2, <1>7, UpdatesAre DEF Hands, Way, TypeOK
    <3>2. \/ bounced' = m /\ InFlight' = InFlight
          \/ bounced' = 0 /\ InFlight' = InFlight \cup {m}
      <4>1. CASE bounced' = m /\ UNCHANGED inflight
        BY <4>1 DEF InFlight
      <4>2. CASE bounced' = 0 /\ inflight' = Append(inflight, [msg |-> m, written |-> FALSE, again |-> FALSE])
        <5>1. inflight \in Seq(Entries) /\ [msg |-> m, written |-> FALSE, again |-> FALSE] \in Entries
          BY Shapes DEF Shape, Entries
        <5>2. Joins(inflight, inflight', [msg |-> m, written |-> FALSE, again |-> FALSE])
          BY <4>2, <5>1, AppendJoins
        <5>. DEFINE n == Len(inflight)
        <5>3. /\ DOMAIN inflight = 1..n /\ n \in Nat /\ DOMAIN inflight' = 1..(n + 1)
              /\ \A k \in 1..n : inflight'[k] = inflight[k]
              /\ inflight'[n + 1].msg = m
          BY <5>2, Shapes, ShapesNext DEF Joins, Shape
        <5>. HIDE DEF n
        <5>4. /\ \A k \in 1..(n + 1) : k \in 1..n \/ k = n + 1
              /\ \A k \in 1..n : k \in 1..(n + 1)
              /\ n + 1 \in 1..(n + 1)
          BY <5>3
        <5>5. ASSUME NEW x PROVE x \in InFlight' <=> x \in InFlight \cup {m}
          BY <5>3, <5>4, MessagesAre, MessagesNext DEF Messages
        <5>. QED
          BY <4>2, <5>5
      <4>. QED
        BY <1>7, <2>1, <2>3, <4>1, <4>2 DEF Put, Panic
    <3>3. m \in OnItsWay'
      BY <1>2, <3>2 DEF Way
    <3>4. ASSUME NEW n, n # m PROVE n \in OnItsWay' <=> n \in OnItsWay
      BY <1>2, <2>1, <3>1, <3>2, <3>4, UpdatesAre DEF Way
    <3>5. OnItsWay' = OnItsWay
      BY <3>1, <3>3, <3>4
    <3>. QED
      BY <1>1, <1>4, <2>1, <2>3, <3>5
  <2>. QED
    BY <2>2, <2>3
<1>8. CASE Produce
  <2>1. run.msg \in Updates /\ Hands(run.msg) /\ Put(run.msg) /\ UNCHANGED <<taken, ghosts>>
    BY <1>8 DEF Produce, Hands, Inv, OnePlace
  <2>. QED
    BY <1>7, <2>1
<1>9. CASE Delivered
  <2>1. PICK i \in DOMAIN inflight : inflight[i].written /\ inflight' = RemoveAt(inflight, i)
    BY <1>9 DEF Delivered
  <2>7. UNCHANGED <<taken, run, retry, process, bounced, topic, dropped>>
    BY <1>9 DEF Delivered, code, ghosts
  <2>. DEFINE m == inflight[i].msg
  <2>2. InFlight' = InFlight \ {m}
    BY <2>1, RemoveAtLeaves, LeavesOthers DEF Inv
  <2>3. m \in InFlight /\ m \in Updates /\ m \in Written
    BY <2>1, MessagesAre DEF Messages, Inv, Flags
  <2>4. m # run.msg /\ m # bounced /\ ~(retry[m] > 0)
    BY <2>3, UpdatesAre DEF Inv, OnePlace
  <2>5. m \in OnItsWay /\ OnItsWay' = OnItsWay \ {m}
    BY <1>2, <2>7, <2>2, <2>3, <2>4 DEF Way
  <2>6. Channel!Settle(m)
    BY <1>1, <2>7, <2>3, <2>5 DEF Channel!Settle, Channel!Written, Written
  <2>. QED
    BY <1>1, <1>2, <2>5, <2>6 DEF Channel!Next
<1>10. ASSUME NEW m \in Updates, ReadError(m), UNCHANGED <<taken, run, topic, process>>,
              m \in OnItsWay, ~(retry[m] > 0), m # run.msg, m \notin InFlight', m # bounced',
              \A n \in Updates : n # m => (n = bounced' <=> n = bounced),
              \A n : n # m => (n \in InFlight' <=> n \in InFlight)
       PROVE  [Channel!Next]_(Channel!vars)
  <2>1. CASE retry' = [retry EXCEPT ![m] = Attempts] /\ UNCHANGED dropped
    <3>1. retry'[m] > 0 /\ \A n \in Updates : n # m => retry'[n] = retry[n]
      BY <2>1, ProducerConstants DEF TypeOK
    <3>2. OnItsWay' = OnItsWay
      BY <1>2, <1>10, <3>1 DEF Way
    <3>. QED
      BY <1>4, <1>10, <2>1, <3>2
  <2>2. CASE dropped' = dropped \cup {m} /\ UNCHANGED retry
    <3>1. OnItsWay' = OnItsWay \ {m}
      BY <1>2, <1>10, <2>2 DEF Way
    <3>2. Channel!Drop(m)
      BY <1>5, <1>10, <2>2, <3>1
    <3>. QED
      BY <1>1, <1>2, <1>10, <3>2 DEF Channel!Next
  <2>. QED
    BY <1>10, <2>1, <2>2 DEF ReadError
<1>11. CASE Failed
  <2>1. PICK i \in DOMAIN inflight :
               ReadError(inflight[i].msg) /\ inflight' = RemoveAt(inflight, i)
    BY <1>11 DEF Failed
  <2>. DEFINE m == inflight[i].msg
  <2>2. UNCHANGED <<taken, run, topic, process, bounced>>
    BY <1>11 DEF Failed
  <2>3. InFlight' = InFlight \ {m}
    BY <2>1, RemoveAtLeaves, LeavesOthers DEF Inv
  <2>4. m \in InFlight /\ m \in Updates
    BY MessagesAre DEF Messages
  <2>5. m # run.msg /\ m # bounced /\ ~(retry[m] > 0)
    BY <2>4, UpdatesAre DEF Inv, OnePlace
  <2>6. m \in OnItsWay
    BY <1>2, <2>4 DEF Way
  <2>. HIDE DEF m
  <2>7. ReadError(m)
    BY <2>1 DEF m
  <2>. QED
    BY <1>10, <2>2, <2>3, <2>4, <2>5, <2>6, <2>7
<1>12. CASE GivenBack
  <2>1. /\ bounced \in Updates /\ bounced' = 0 /\ ReadError(bounced)
        /\ UNCHANGED <<taken, run, topic, process, inflight>>
    BY <1>12 DEF GivenBack, TypeOK, Updates
  <2>2. InFlight' = InFlight
    BY <2>1 DEF InFlight
  <2>3. bounced # run.msg /\ bounced \notin InFlight /\ ~(retry[bounced] > 0) /\ bounced # 0
    BY <2>1, UpdatesAre DEF Inv, OnePlace
  <2>4. bounced \in OnItsWay
    BY <1>2, <2>1 DEF Way
  <2>. QED
    BY <1>10, <2>1, <2>2, <2>3, <2>4, UpdatesAre
<1>13. ASSUME NEW m \in Updates, RetryBusy(m) PROVE [Channel!Next]_(Channel!vars)
  <2>1. /\ UNCHANGED <<taken, run, topic, process, bounced, inflight>> /\ retry[m] > 0
        /\ retry' = [retry EXCEPT ![m] = @ - 1]
        /\ dropped' = IF retry[m] = 1 THEN dropped \cup {m} ELSE dropped
    BY <1>13 DEF RetryBusy, library
  <2>2. InFlight' = InFlight
    BY <2>1 DEF InFlight
  <2>3. /\ m \in OnItsWay /\ m # run.msg /\ m # bounced /\ m \notin InFlight
    BY <1>2, <2>1 DEF Way, Inv, OnePlace
  <2>4. /\ retry'[m] = retry[m] - 1 /\ retry[m] \in Nat
        /\ \A n \in Updates : n # m => retry'[n] = retry[n]
    BY <2>1, ProducerConstants DEF TypeOK
  <2>5. CASE retry[m] = 1
    <3>1. OnItsWay' = OnItsWay \ {m}
      BY <1>2, <2>1, <2>2, <2>3, <2>4, <2>5 DEF Way
    <3>2. Channel!Drop(m)
      BY <1>5, <2>1, <2>3, <2>5, <3>1
    <3>. QED
      BY <1>1, <1>2, <2>3, <3>2 DEF Channel!Next
  <2>6. CASE retry[m] # 1
    <3>1. retry'[m] > 0
      BY <2>1, <2>4, <2>6
    <3>2. OnItsWay' = OnItsWay
      BY <1>2, <2>1, <2>2, <2>4, <3>1 DEF Way
    <3>. QED
      BY <1>4, <2>1, <2>6, <3>2
  <2>. QED
    BY <2>5, <2>6
<1>14. ASSUME NEW m \in Updates, RetryStep(m) PROVE [Channel!Next]_(Channel!vars)
  BY <1>7, <1>13, <1>14 DEF RetryStep, RetryPut, Hands
<1>15. CASE Write
  <2>1. PICK i \in DOMAIN inflight :
               /\ ~inflight[i].written
               /\ inflight' = [inflight EXCEPT ![i].written = TRUE]
               /\ topic' = Append(topic, inflight[i].msg)
    BY <1>15 DEF Write
  <2>2. UNCHANGED <<taken, run, retry, process, bounced, dropped>>
    BY <1>15 DEF Write, code, ghosts
  <2>3. InFlight' = InFlight
    BY <2>1, Shapes DEF InFlight, Shape, Entries
  <2>4. OnItsWay' = OnItsWay
    BY <1>2, <2>2, <2>3 DEF Way
  <2>5. inflight[i].msg \in OnItsWay
    BY <1>2, MessagesAre DEF Way, Messages
  <2>6. Len(topic) < MaxTopic
    <3>1. inflight[i].msg \in Unwritten
      BY <2>1, MessagesAre DEF Messages, Unwritten
    <3>2. Cardinality(Unwritten) # 0
      BY <3>1, UnwrittenFinite, FS_EmptySet
    <3>3. taken <= MaxUpdates /\ lostAcks <= MaxLostAcks
      BY ProducerConstants DEF TypeOK
    <3>. QED
      BY <3>2, <3>3, CountsAre, ProducerConstants DEF Inv, Room, Counts, MaxTopic
  <2>7. Channel!Write(inflight[i].msg)
    BY <1>1, <2>1, <2>2, <2>4, <2>5, <2>6 DEF Channel!Write
  <2>. QED
    BY <1>1, <1>2, <2>5, <2>7 DEF Channel!Next
<1>16. ASSUME UNCHANGED <<taken, retry, inflight, bounced, topic, dropped>>, run'.msg = run.msg
       PROVE  [Channel!Next]_(Channel!vars)
  <2>1. CASE process' = "up"
    <3>1. OnItsWay' = OnItsWay
      BY <1>16 DEF OnItsWay, InFlight
    <3>. QED
      BY <1>1, <1>4, <1>16, <2>1, <3>1
  <2>2. CASE process' # "up"
    BY <1>1, <1>3, <1>16, <2>2 DEF Channel!Next
  <2>. QED
    BY <2>1, <2>2
<1>17. CASE RunReturns
  <2>1. run' = [run EXCEPT !.pc = "drain"]
    BY <1>17 DEF RunReturns
  <2>2. run'.msg = run.msg
    BY <2>1 DEF TypeOK
  <2>. QED
    BY <1>16, <1>17, <2>2 DEF RunReturns, ghosts
<1>18. CASE SendOnClosed \/ HandlerReturns \/ HandlerPanics \/ CloseUpdates \/ StopStep
  BY <1>16, <1>18 DEF SendOnClosed, HandlerReturns, HandlerPanics, CloseUpdates, StopStep,
                      StopAsyncClose, StopClose, StopReturns, Exit, code, library, ghosts
<1>19. ASSUME NEW c \in Closers, ShutdownStep(c) PROVE [Channel!Next]_(Channel!vars)
  BY <1>16, <1>19 DEF ShutdownStep, ShutdownCounts, ShutdownTells, ShutdownCloses, code, ghosts
<1>20. CASE Retried
  <2>1. UNCHANGED <<taken, run, retry, process, bounced, topic, dropped>>
    BY <1>20 DEF Retried, code
  <2>2. InFlight' = InFlight
    <3>1. PICK i \in DOMAIN inflight :
                 inflight' = [inflight EXCEPT ![i].written = FALSE, ![i].again = TRUE]
      BY <1>20 DEF Retried
    <3>2. /\ DOMAIN inflight' = DOMAIN inflight
          /\ \A k \in DOMAIN inflight : inflight'[k].msg = inflight[k].msg
      BY <3>1, RetriedEntries
    <3>. QED
      BY <3>2 DEF InFlight
  <2>3. OnItsWay' = OnItsWay
    BY <2>1, <2>2 DEF OnItsWay
  <2>. QED
    BY <1>4, <2>1, <2>3
<1>. QED
  BY <1>1, <1>6, <1>8, <1>9, <1>11, <1>12, <1>14, <1>15, <1>17, <1>18, <1>19, <1>20
     DEF Step, RunStep

\* Run, the handler, the retries and sarama together keep what UpdateChannel
\* promises: no update that was taken is forgotten while the process lives, and
\* the topic has room for one more writing for each lost acknowledgement.
THEOREM ChannelImplemented == Spec => ImplementsChannel
<1>1. Init => Channel!Init
  <2>. SUFFICES ASSUME Init PROVE Channel!Init
    OBVIOUS
  <2>1. OnItsWay = {}
    BY DEF Init, OnItsWay
  <2>. QED
    BY <2>1 DEF Init, Channel!Init
<1>. QED
  BY <1>1, InitInv, NextInv, ChannelStep, PTL DEF Spec, Channel!Spec, ImplementsChannel
=============================================================================
