------------------------ MODULE KafkaPipelineProofs ------------------------
(***************************************************************************)
(* For any number of updates, of ends of sessions and of ends of the       *)
(* process: what the group has committed is handled, and is never handed   *)
(* over again.                                                             *)
(***************************************************************************)
EXTENDS KafkaPipeline, TLAPS

Offsets == /\ {position, marked, committed, reader} \subseteq Nat
           /\ claim \in {"none", "range", "send", "mark"}

Settled(o) == o \in Bot!Handled \/ reader = o

\* A session is handed the offsets in order, each after the one before has left the
\* reader, and commits no further than it marks.
Session ==
    claim # "none" => /\ committed <= marked
                      /\ marked <= position
                      /\ \A o \in 1..position : Settled(o)

Inv == Offsets /\ CommittedIsHandled /\ Session

LEMMA InitInv == Init => Inv
BY DEF Init, Bot!Init, Inv, Offsets, CommittedIsHandled, Session

LEMMA NextInv == Inv /\ [Next]_vars => Inv'
<1>. SUFFICES ASSUME Inv, [Next]_vars PROVE Inv'
  OBVIOUS
<1>. USE DEF Inv, Offsets, CommittedIsHandled, Session, Settled, Bot!Handled,
             Bot!state, Bot!ghosts
<1>1. CASE Bot!Join
  BY <1>1 DEF Bot!Join
<1>2. CASE Bot!NextMessage
  BY <1>2 DEF Bot!NextMessage
<1>3. CASE Bot!HandOver
  <2>1. \A o \in 1..(position + 1) : o \in 1..position \/ o = position + 1
    OBVIOUS
  <2>. QED
    BY <1>3, <2>1 DEF Bot!HandOver
<1>4. CASE Bot!Mark
  BY <1>4 DEF Bot!Mark
<1>5. CASE Bot!AutoCommit
  BY <1>5 DEF Bot!AutoCommit
<1>6. CASE Bot!SessionEnds
  BY <1>6 DEF Bot!SessionEnds
<1>7. CASE Bot!Read
  BY <1>7 DEF Bot!Read, Bot!Show, Bot!ShowFails
<1>8. CASE Bot!Signal \/ Bot!Restart
  BY <1>8 DEF Bot!Signal, Bot!Restart
<1>9. CASE Bot!Leave \/ Bot!Crash
  BY <1>9 DEF Bot!Leave, Bot!Crash, Bot!Gone
<1>10. CASE UNCHANGED consumer
  BY <1>10 DEF consumer
<1>. QED
  BY <1>1, <1>2, <1>3, <1>4, <1>5, <1>6, <1>7, <1>8, <1>9, <1>10
     DEF Next, vars, Bot!Next, Bot!ClaimStep

-----------------------------------------------------------------------------
(* Types.  An offset that the claim has taken out of the topic is in it: the *)
(* claim looked at the length of the log one step before it hands over.      *)

Taken == claim = "send" => position < Len(topic)

Typed == TypeOK /\ Taken

LEMMA InitTyped == Init => Typed
<1>. SUFFICES ASSUME Init PROVE Typed
  OBVIOUS
<1>. USE DEF Init, Channel!Init, Bot!Init
<1>1. topic = <<>> /\ topic \in Seq(1..taken) /\ Len(topic) = 0
  OBVIOUS
<1>2. Bot!TypeOK
  BY <1>1, Bounds DEF Bot!TypeOK
<1>3. taken \in 0..MaxUpdates /\ pending \cup dropped \subseteq 1..taken /\ ended \in BOOLEAN
  <2>1. taken = 0 /\ pending = {} /\ dropped = {} /\ ended = FALSE
    OBVIOUS
  <2>2. MaxUpdates \in Nat
    BY Bounds
  <2>3. taken \in 0..MaxUpdates
    BY <2>1, <2>2
  <2>. QED
    BY <2>1, <2>3
<1>. QED
  BY <1>1, <1>2, <1>3 DEF Typed, Taken, TypeOK

\* The scrapper's end: the log grows, with updates that were taken.
LEMMA ChannelTyped ==
  ASSUME Typed, Channel!Next, UNCHANGED consumer
  PROVE  Typed'
<1>0. /\ taken \in 0..MaxUpdates /\ topic \in Seq(1..taken) /\ pending \cup dropped \subseteq 1..taken
      /\ ended \in BOOLEAN /\ MaxUpdates \in Nat
  BY Bounds DEF Typed, TypeOK
<1>1. /\ taken' \in 0..MaxUpdates /\ topic' \in Seq(1..taken')
      /\ pending' \cup dropped' \subseteq 1..taken' /\ ended' \in BOOLEAN
      /\ Len(topic) <= Len(topic')
  <2>1. CASE Channel!Take
    <3>1. taken' = taken + 1 /\ taken' \in 0..MaxUpdates /\ 1..taken \subseteq 1..taken'
      BY <1>0, <2>1 DEF Channel!Take
    <3>2. topic' = topic /\ Len(topic) \in Nat
      BY <1>0, <2>1 DEF Channel!Take
    <3>3. topic' \in Seq(1..taken')
      BY <1>0, <3>1, <3>2
    <3>4. pending' \cup dropped' \subseteq 1..taken' /\ ended' = ended
      BY <1>0, <2>1, <3>1 DEF Channel!Take
    <3>. QED
      BY <1>0, <3>1, <3>2, <3>3, <3>4
  <2>2. ASSUME NEW m \in 1..taken, Channel!Write(m)
        PROVE  /\ taken' \in 0..MaxUpdates /\ topic' \in Seq(1..taken')
               /\ pending' \cup dropped' \subseteq 1..taken' /\ ended' \in BOOLEAN
               /\ Len(topic) <= Len(topic')
    <3>1. topic' = Append(topic, m) /\ UNCHANGED <<taken, pending, dropped, ended>>
      BY <2>2 DEF Channel!Write
    <3>2. topic' \in Seq(1..taken) /\ Len(topic') = Len(topic) + 1 /\ Len(topic) \in Nat
      BY <1>0, <3>1
    <3>. QED
      BY <1>0, <3>1, <3>2
  <2>3. ASSUME NEW m \in 1..taken, Channel!Settle(m) \/ Channel!Drop(m)
        PROVE  /\ UNCHANGED <<taken, topic, ended>>
               /\ pending' \cup dropped' \subseteq 1..taken
    BY <1>0, <2>3 DEF Channel!Settle, Channel!Drop
  <2>4. Channel!End => /\ UNCHANGED <<taken, topic>> /\ ended' \in BOOLEAN
                       /\ pending' \cup dropped' \subseteq 1..taken
    BY <1>0 DEF Channel!End
  <2>5. Len(topic) \in Nat
    BY <1>0
  <2>. QED
    BY <1>0, <2>1, <2>2, <2>3, <2>4, <2>5 DEF Channel!Next
<1>2. Bot!TypeOK' /\ Taken'
  <2>1. UNCHANGED <<bot, claim, position, marked, committed, reader, shown, lost, breaks>>
    BY DEF consumer
  <2>2. Bot!TypeOK /\ Taken
    BY DEF Typed, TypeOK
  <2>3. Len(topic) \in Nat /\ Len(topic') \in Nat
    BY <1>0, <1>1
  <2>4. 0..Len(topic) \subseteq 0..Len(topic') /\ 1..Len(topic) \subseteq 1..Len(topic')
    BY <1>1, <2>3
  <2>5. Taken'
    BY <1>1, <2>1, <2>2, <2>3 DEF Taken, Bot!TypeOK
  <2>. QED
    BY <2>1, <2>2, <2>4, <2>5 DEF Bot!TypeOK
<1>. QED
  BY <1>1, <1>2 DEF Typed, TypeOK

\* The bot's end: it moves within the log.
LEMMA BotTyped ==
  ASSUME Typed, Bot!Next, UNCHANGED scrapper
  PROVE  Typed'
<1>0. /\ Len(topic) \in Nat /\ MaxBreaks \in Nat /\ Bot!TypeOK /\ Taken
  BY Bounds DEF Typed, TypeOK
<1>. USE DEF Bot!state, Bot!ghosts, Bot!TypeOK, Taken
<1>1. UNCHANGED <<topic, taken, pending, dropped, ended>>
  BY DEF scrapper, Bot!Next, Bot!ClaimStep, Bot!Join, Bot!NextMessage, Bot!HandOver, Bot!Mark,
         Bot!AutoCommit, Bot!SessionEnds, Bot!Read, Bot!Show, Bot!ShowFails, Bot!Signal,
         Bot!Leave, Bot!Crash, Bot!Gone, Bot!Restart
<1>2. Bot!ClaimStep => Bot!TypeOK' /\ Taken'
  BY <1>0, <1>1 DEF Bot!ClaimStep, Bot!Join, Bot!NextMessage, Bot!HandOver, Bot!Mark
<1>3. Bot!AutoCommit \/ Bot!SessionEnds => Bot!TypeOK' /\ Taken'
  BY <1>0, <1>1 DEF Bot!AutoCommit, Bot!SessionEnds
<1>4. Bot!Read => Bot!TypeOK' /\ Taken'
  BY <1>0, <1>1 DEF Bot!Read, Bot!Show, Bot!ShowFails
<1>5. Bot!Signal \/ Bot!Restart => Bot!TypeOK' /\ Taken'
  BY <1>0, <1>1 DEF Bot!Signal, Bot!Restart
<1>6. Bot!Leave \/ Bot!Crash => Bot!TypeOK' /\ Taken'
  BY <1>0, <1>1 DEF Bot!Leave, Bot!Crash, Bot!Gone
<1>7. Bot!TypeOK' /\ Taken'
  BY <1>2, <1>3, <1>4, <1>5, <1>6 DEF Bot!Next
<1>. QED
  BY <1>1, <1>7 DEF Typed, TypeOK

LEMMA NextTyped == Typed /\ [Next]_vars => Typed'
<1>1. ASSUME Typed, UNCHANGED vars PROVE Typed'
  BY <1>1 DEF vars, scrapper, consumer, Typed, TypeOK, Bot!TypeOK, Taken
<1>. QED
  BY <1>1, ChannelTyped, BotTyped DEF Next

\* No offset that the bot holds, marks or commits lies beyond the end of the log,
\* and the log holds updates that a monitor sent.
THEOREM TypeCorrect == Spec => []TypeOK
<1>1. Typed => TypeOK
  BY DEF Typed
<1>. QED
  BY <1>1, InitTyped, NextTyped, PTL DEF Spec

-----------------------------------------------------------------------------
(* Commits. *)

\* The mark comes before Telegram has the message, yet no committed offset is lost
\* unnoticed: it was sent or refused, or it is, or was when the bot ended, the one
\* message in the reader's hand.
THEOREM CommittedHandled == Spec => []CommittedIsHandled
<1>1. Inv => CommittedIsHandled
  BY DEF Inv
<1>. QED
  BY <1>1, InitInv, NextInv, PTL DEF Spec

\* However sessions and processes end, a committed offset is never handed over again.
THEOREM CommittedNotRepeated == Spec => CommittedIsNotRepeated
<1>1. Inv /\ [Next]_vars => [reader' \notin {0, reader} => reader' > committed]_vars
  <2>. SUFFICES ASSUME Inv, [Next]_vars, reader' \notin {0, reader}
                PROVE  reader' > committed
    BY DEF vars
  <2>1. Bot!HandOver
    BY DEF Next, vars, consumer, Bot!Next, Bot!ClaimStep, Bot!Join, Bot!NextMessage,
           Bot!Mark, Bot!AutoCommit, Bot!SessionEnds, Bot!Read, Bot!Show, Bot!ShowFails,
           Bot!Signal, Bot!Leave, Bot!Crash, Bot!Gone, Bot!Restart
  <2>. QED
    BY <2>1 DEF Bot!HandOver, Inv, Offsets, Session
<1>. QED
  BY <1>1, InitInv, NextInv, PTL DEF Spec, CommittedIsNotRepeated
=============================================================================
