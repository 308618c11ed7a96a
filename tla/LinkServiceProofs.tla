-------------------------- MODULE LinkServiceProofs --------------------------
(***************************************************************************)
(* The safety properties of LinkService and its refinement of              *)
(* Subscriptions, for any numbers of chats, links, requests and contexts.  *)
(*                                                                         *)
(* What the scheduler keeps by itself is taken from SchedulerProofs: every *)
(* call of a request and every step of a monitor is one of its steps.      *)
(***************************************************************************)
EXTENDS LinkService, TLAPS

Proved == INSTANCE SchedulerProofs

-----------------------------------------------------------------------------
(* The scheduler inside the service. *)

Wired == Sched!TypeOK /\ Sched!Wiring /\ Sched!Handling

LEMMA WiredProved == Wired <=> Proved!TypeOK /\ Proved!Wiring /\ Proved!Handling
<1>1. Sched!TypeOK <=> Proved!TypeOK
  BY DEF Proved!TypeOK, Proved!Kinds, Proved!MonitorStates, Proved!CallerStates,
         Sched!TypeOK, Sched!Kinds, Sched!MonitorStates, Sched!CallerStates
<1>2. Sched!Wiring <=> Proved!Wiring
  BY DEF Proved!Wiring, Proved!Kinds, Sched!Wiring, Sched!Kinds
<1>3. Sched!Handling <=> Proved!Handling
  BY DEF Proved!Handling, Proved!Kinds, Sched!Handling, Sched!Kinds
<1>. QED
  BY <1>1, <1>2, <1>3 DEF Wired

LEMMA WiredProvedNext ==
  Wired' <=> Proved!TypeOK' /\ Proved!Wiring' /\ Proved!Handling'
BY WiredProved, PTL

\* A step of the scheduler keeps what the scheduler relies on.
LEMMA ProvedStep == Wired /\ Proved!Next => Wired'
<1>1. IsFiniteSet(Contexts) => Proved!IsFiniteSet(Contexts)
  BY DEF IsFiniteSet, Proved!IsFiniteSet
<1>2. /\ None \notin Links /\ None \notin Contexts /\ None \notin Items
      /\ Class \in [Links -> Proved!Classes]
  BY NoneAssumption, ClassAssumption DEF Proved!Classes, Sched!Classes
<1>3. Proved!TypeOK /\ Proved!Wiring /\ Proved!Handling /\ [Proved!Next]_Proved!vars => Proved!TypeOK'
  BY <1>1, <1>2, FiniteAssumption, ChanCapAssumption, TransportAssumption, Proved!TypeStep
<1>4. Proved!TypeOK /\ Proved!Wiring /\ Proved!Handling /\ [Proved!Next]_Proved!vars => Proved!Wiring'
  BY <1>1, <1>2, FiniteAssumption, ChanCapAssumption, TransportAssumption, Proved!WiringStep
<1>5. Proved!TypeOK /\ Proved!Wiring /\ Proved!Handling /\ [Proved!Next]_Proved!vars => Proved!Handling'
  BY <1>1, <1>2, FiniteAssumption, ChanCapAssumption, TransportAssumption, Proved!HandlingStep
<1>. QED
  BY <1>3, <1>4, <1>5, WiredProved, WiredProvedNext

LEMMA CallsProved ==
  ASSUME NEW r \in Callers
  PROVE  /\ \A l \in Links, c \in Contexts : Sched!FileCancel(r, l, c) => Proved!Next
         /\ \A l \in Links : Sched!Cancel(r, l) => Proved!Next
         /\ Sched!Start(r) \/ Sched!DropCancel(r) \/ Sched!Forget(r) => Proved!Next
<1>1. ASSUME NEW l \in Links, NEW c \in Contexts, Sched!FileCancel(r, l, c) PROVE Proved!Next
  <2>1. Proved!FileCancel(r, l, c)
    BY <1>1 DEF Proved!FileCancel, Proved!CallerIdle, Proved!history,
                Sched!FileCancel, Sched!CallerIdle, Sched!history
  <2>. QED
    BY <2>1 DEF Proved!Next, Proved!Call
<1>2. ASSUME NEW l \in Links, Sched!Cancel(r, l) PROVE Proved!Next
  <2>1. Proved!Cancel(r, l)
    BY <1>2 DEF Proved!Cancel, Proved!CallerIdle, Proved!history, Proved!Cancelled,
                Sched!Cancel, Sched!CallerIdle, Sched!history, Sched!Cancelled
  <2>. QED
    BY <2>1 DEF Proved!Next, Proved!Call
<1>3. ASSUME Sched!Start(r) PROVE Proved!Next
  <2>1. Proved!Start(r)
    BY <1>3 DEF Proved!Start, Proved!CallerIdle, Proved!history, Proved!shared, Proved!KindsOf,
                Sched!Start, Sched!CallerIdle, Sched!history, Sched!shared, Sched!KindsOf
  <2>. QED
    BY <2>1 DEF Proved!Next, Proved!CallerStep
<1>4. ASSUME Sched!DropCancel(r) PROVE Proved!Next
  <2>1. Proved!DropCancel(r)
    BY <1>4 DEF Proved!DropCancel, Proved!history, Sched!DropCancel, Sched!history
  <2>. QED
    BY <2>1 DEF Proved!Next, Proved!CallerStep
<1>5. ASSUME Sched!Forget(r) PROVE Proved!Next
  <2>1. Proved!Forget(r)
    BY <1>5 DEF Proved!Forget, Proved!CallerIdle, Proved!history, Proved!AfterForget, Proved!Kinds,
                Sched!Forget, Sched!CallerIdle, Sched!history, Sched!AfterForget, Sched!Kinds
  <2>. QED
    BY <2>1 DEF Proved!Next, Proved!CallerStep
<1>. QED
  BY <1>1, <1>2, <1>3, <1>4, <1>5

LEMMA MonitorsProved == SchedulerStep => Proved!Next
<1>1. ASSUME NEW c \in Contexts, Sched!MonitorStep(c) PROVE Proved!Next
  <2>1. Proved!MonitorStep(c)
    BY <1>1 DEF Proved!MonitorStep, Proved!Tick, Proved!Return, Proved!FetchOk,
         Proved!FetchFail, Proved!Load, Proved!Store, Proved!Put, Proved!Send,
         Proved!HandOver, Proved!Handled, Proved!MonitorNew, Proved!shared, Proved!history,
         Sched!MonitorStep, Sched!Tick, Sched!Return, Sched!FetchOk, Sched!FetchFail,
         Sched!Load, Sched!Store, Sched!Put, Sched!Send, Sched!HandOver, Sched!Handled,
         Sched!MonitorNew, Sched!shared, Sched!history
  <2>. QED
    BY <2>1 DEF Proved!Next
<1>2. ASSUME NEW c \in Contexts, Sched!Expire(c) PROVE Proved!Next
  <2>1. Proved!Expire(c)
    BY <1>2 DEF Proved!Expire, Proved!Cancelled, Proved!history,
                Sched!Expire, Sched!Cancelled, Sched!history
  <2>. QED
    BY <2>1 DEF Proved!Next
<1>3. ASSUME NEW l \in Links, NEW k \in Sched!Kinds, NEW i \in Items, Sched!Publish(l, k, i)
      PROVE  Proved!Next
  <2>1. k \in Proved!Kinds /\ Proved!Publish(l, k, i)
    BY <1>3 DEF Proved!Publish, Proved!KindsOf, Proved!shared, Proved!history, Proved!Kinds,
                Sched!Publish, Sched!KindsOf, Sched!shared, Sched!history, Sched!Kinds
  <2>. QED
    BY <2>1 DEF Proved!Next
<1>. QED
  BY <1>1, <1>2, <1>3 DEF SchedulerStep

\* The context of a link is in use.
LEMMA UsedContext ==
  ASSUME Wired, NEW c \in Contexts, linkOf[c] \in Links
  PROVE  ctx[c] # "unused"
BY NoneAssumption DEF Wired, Sched!Wiring

\* What the calls leave in the variables of the scheduler.
LEMMA FileEffect ==
  ASSUME Wired, NEW r \in Callers, NEW l \in Links, NEW c \in Contexts, Sched!FileCancel(r, l, c)
  PROVE  /\ ctx[c] = "unused" /\ ctx'[c] = "live" /\ linkOf'[c] = l /\ cancelFuncs'[l] = c
         /\ \A d \in Contexts : d # c => ctx'[d] = ctx[d] /\ linkOf'[d] = linkOf[d]
         /\ \A k \in Links : k # l => cancelFuncs'[k] = cancelFuncs[k]
         /\ caller'[r].pc = "start" /\ caller'[r].link = l /\ caller'[r].ctx = c
         /\ \A q \in Others(r) : caller'[q] = caller[q]
         /\ UNCHANGED monitor
<1>1. /\ ctx[c] = "unused" /\ ctx' = [ctx EXCEPT ![c] = "live"]
      /\ linkOf' = [linkOf EXCEPT ![c] = l]
      /\ cancelFuncs' = [cancelFuncs EXCEPT ![l] = c]
      /\ caller' = [caller EXCEPT ![r] = [Sched!CallerIdle EXCEPT !.pc = "start", !.link = l, !.ctx = c]]
      /\ UNCHANGED monitor
  BY DEF Sched!FileCancel
<1>. QED
  BY <1>1 DEF Wired, Sched!TypeOK, Sched!CallerIdle, Others

LEMMA StartEffect ==
  ASSUME Wired, NEW r \in Callers, NEW l \in Links, NEW c \in Contexts,
         caller[r].link = l, caller[r].ctx = c, Sched!Start(r)
  PROVE  /\ monitor' = IF Sched!KindsOf(l) = {} THEN monitor ELSE [monitor EXCEPT ![c].pc = "select"]
         /\ monitor[c].pc = "none" /\ \A d \in Contexts : d # c => monitor'[d] = monitor[d]
         /\ caller'[r] = Sched!CallerIdle /\ \A q \in Others(r) : caller'[q] = caller[q]
         /\ UNCHANGED <<cancelFuncs, ctx, linkOf>>
<1>1. /\ monitor' = IF Sched!KindsOf(l) = {} THEN monitor ELSE [monitor EXCEPT ![c].pc = "select"]
      /\ caller' = [caller EXCEPT ![r] = Sched!CallerIdle]
      /\ UNCHANGED <<cancelFuncs, ctx, linkOf>>
  BY DEF Sched!Start, Sched!shared
<1>2. monitor[c].pc = "none"
  BY DEF Wired, Sched!Wiring, Sched!Start
<1>. QED
  BY <1>1, <1>2 DEF Wired, Sched!TypeOK, Others

LEMMA CancelEffect ==
  ASSUME Wired, NEW r \in Callers, NEW l \in Links, Sched!Cancel(r, l)
  PROVE  /\ UNCHANGED <<cancelFuncs, linkOf, monitor>>
         /\ \A c \in Contexts : ctx'[c] = ctx[c] \/ (ctx'[c] = "done" /\ ctx[c] # "unused")
         /\ \A c \in Contexts : cancelFuncs[l] = c => ctx'[c] = "done"
         /\ caller'[r].pc = "drop" /\ caller'[r].link = l
         /\ \A q \in Others(r) : caller'[q] = caller[q]
<1>1. /\ cancelFuncs[l] # None
      /\ ctx' = [c \in Contexts |-> IF c \in {cancelFuncs[l]} THEN "done" ELSE ctx[c]]
      /\ caller' = [caller EXCEPT ![r] = [Sched!CallerIdle EXCEPT !.pc = "drop", !.link = l]]
      /\ UNCHANGED <<cancelFuncs, linkOf, monitor>>
  BY DEF Sched!Cancel, Sched!Cancelled
<1>2. linkOf[cancelFuncs[l]] = l /\ cancelFuncs[l] \in Contexts
  BY <1>1 DEF Wired, Sched!Wiring, Sched!TypeOK
<1>3. ctx[cancelFuncs[l]] # "unused"
  BY <1>2, UsedContext
<1>4. /\ \A q \in Others(r) : caller'[q] = caller[q]
      /\ caller'[r].pc = "drop" /\ caller'[r].link = l
  BY <1>1 DEF Others, Wired, Sched!TypeOK, Sched!CallerIdle
<1>. QED
  BY <1>1, <1>2, <1>3, <1>4

LEMMA DropEffect ==
  ASSUME Wired, NEW r \in Callers, NEW l \in Links, l = caller[r].link,
         Sched!DropCancel(r) \/ Sched!Forget(r)
  PROVE  /\ UNCHANGED <<ctx, linkOf, monitor>>
         /\ \A q \in Others(r) : caller'[q] = caller[q]
         /\ \A k \in Links : k # l => cancelFuncs'[k] = cancelFuncs[k]
         /\ IF caller'[r].pc = "idle" THEN caller'[r] = Sched!CallerIdle
              ELSE caller'[r].pc \in {"drop"} \cup Sched!Kinds /\ caller'[r].link = l
<1>0. caller \in [Callers -> Sched!CallerStates] /\ cancelFuncs \in [Links -> Contexts \cup {None}]
  BY DEF Wired, Sched!TypeOK
<1>1. CASE Sched!DropCancel(r)
  <2>1. caller'[r].pc = "Commit" /\ caller'[r].link = l
    BY <1>0, <1>1 DEF Sched!DropCancel, Sched!CallerStates
  <2>. QED
    BY <1>0, <1>1, <2>1 DEF Sched!DropCancel, Sched!Kinds, Others
<1>2. CASE Sched!Forget(r)
  <2>1. caller[r].pc \in Sched!Kinds /\ UNCHANGED <<cancelFuncs, ctx, linkOf, monitor>>
    BY <1>2 DEF Sched!Forget
  <2>2. CASE caller[r].pc = "Answer"
    <3>1. caller' = [caller EXCEPT ![r] = Sched!CallerIdle]
      BY <1>2, <2>2 DEF Sched!Forget
    <3>. QED
      BY <1>0, <2>1, <3>1 DEF Others, Sched!CallerIdle
  <2>3. CASE caller[r].pc # "Answer"
    <3>1. caller' = [caller EXCEPT ![r].pc = Sched!AfterForget[caller[r].pc]]
      BY <1>2, <2>3 DEF Sched!Forget
    <3>2. Sched!AfterForget[caller[r].pc] \in {"PullRequest", "Answer"}
      BY <2>1, <2>3 DEF Sched!Kinds, Sched!AfterForget
    <3>. QED
      BY <1>0, <2>1, <3>1, <3>2 DEF Others, Sched!CallerStates, Sched!Kinds
  <2>. QED
    BY <2>2, <2>3
<1>. QED
  BY <1>1, <1>2

-----------------------------------------------------------------------------
(* The invariant. *)

\* Where a request can be, and what its transaction can be there.
Stages(r) ==
    LET q == req[r] IN
    /\ q.pc = "idle" => q = ReqIdle /\ tx[r] = "none"
    /\ q.pc # "idle" => /\ tx[r] # "none" /\ q.op \in Ops /\ q.user \in Users
                        /\ q.op \in {"add", "delete"} => q.link \in Links
    /\ q.pc \in {"read", "write"} => tx[r] \in {"open", "lost"}
    /\ q.pc \in {"file", "start", "unfile", "remove", "commit", "leaked"}
         => tx[r] \in {"wrote", "lost"}
    /\ q.pc \in {"file", "start", "leaked"} => q.op = "add"
    /\ q.pc \in {"unfile", "remove"} => q.op = "delete"
    /\ tx[r] = "lost" => q.ids \subseteq severed

\* A request is inside the scheduler for its own link only.
Calling(r) ==
    LET q == req[r] IN
    /\ q.pc = "start" => /\ caller[r].pc = "start" /\ caller[r].link = q.link
                         /\ q.ids = {caller[r].ctx}
    /\ q.pc = "remove" => caller[r].pc \in {"drop"} \cup Sched!Kinds /\ caller[r].link = q.link
    /\ q.pc \notin {"start", "remove"} => caller[r] = Sched!CallerIdle

\* The row of an add request is its own until it is committed, and cancelFuncs
\* has it, if the request still holds the key.
Adds(r) ==
    LET q == req[r] IN
    q.op = "add" =>
      /\ q.pc \in {"read", "write"} => q.ids = {}
      /\ q.pc \in {"file", "start", "commit", "leaked"} \/ tx[r] = "wrote" =>
           \E c \in Contexts : q.ids = {c}
      /\ q.ids # {} => q.user \in chats
      /\ \A c \in q.ids :
           /\ c \notin RowIds
           /\ \A p \in Others(r) : c \notin req[p].ids
           /\ IF q.pc = "file" THEN ctx[c] = "unused" ELSE linkOf[c] = q.link
           /\ q.pc = "rollback" => monitor[c].pc = "none"
           /\ q.pc \in {"start", "commit"} /\ tx[r] = "wrote" =>
                cancelFuncs[q.link] = c \/ Disturbed(q.link)

\* A delete request that is past the scheduler has had the monitor cancelled.
Deletes(r) ==
    LET q == req[r] IN
    q.op = "delete" =>
      /\ q.pc \in {"write", "unfile", "remove", "commit"} => q.ids # {}
      /\ \A c \in q.ids :
           /\ linkOf[c] = q.link
           /\ q.pc \in {"remove", "commit"} => ctx[c] # "live" \/ c \in parted \/ Disturbed(q.link)
           /\ \A w \in rows : w.id = c => w.chat = q.user

OfChats(r) ==
    LET q == req[r] IN
    /\ q.op = "register" => q.ids = {}
    /\ q.op = "deleteChat" =>
         /\ q.pc = "commit" => q.ids # {}
         /\ \A c \in q.ids :
              /\ ctx[c] # "unused"
              /\ \A w \in rows : w.id = c => w.chat = q.user

Sound(r) == Stages(r) /\ Calling(r) /\ Adds(r) /\ Deletes(r) /\ OfChats(r)

\* What the unique index and the row locks keep apart.
Locks ==
    /\ \A p, q \in Callers, l \in Links : Inserting(p, l) /\ Inserting(q, l) => p = q
    /\ \A q \in Callers : \A w \in rows : ~Inserting(q, w.url)
    /\ \A q \in Callers : Deleting(q) \subseteq RowIds
    /\ \A p \in Callers : \A q \in Others(p) : Deleting(p) \cap Deleting(q) = {}

\* The entry of a row is there, or is being dropped by the request that deletes it.
Filed(w) ==
    \/ cancelFuncs[w.url] = w.id
    \/ \E r \in Callers : /\ req[r].op = "delete" /\ req[r].pc \in {"remove", "commit"}
                          /\ tx[r] = "wrote" /\ w.id \in req[r].ids
    \/ w.id \in parted
    \/ Disturbed(w.url)

Table ==
    /\ \A v, w \in rows : v.url = w.url => v = w
    /\ \A w \in rows : linkOf[w.id] = w.url
    /\ \A w \in rows : Filed(w)

Inv == /\ TypeOK /\ Wired
       /\ \A r \in Callers : Sound(r)
       /\ Locks /\ Table /\ LiveIsTracked

-----------------------------------------------------------------------------
(* What no step takes back. *)

Kept ==
    /\ severed \subseteq severed' /\ parted \subseteq parted' /\ chats \subseteq chats'
    /\ \A c \in Contexts : ctx[c] # "unused" =>
         /\ ctx'[c] # "unused" /\ linkOf'[c] = linkOf[c]
         /\ ctx[c] = "done" => ctx'[c] = "done"

\* A link that was disturbed once stays so.
LEMMA DisturbedKept ==
  ASSUME TypeOK, Wired, Kept, NEW l \in Links, Disturbed(l)
  PROVE  Disturbed(l)'
<1>1. PICK d \in severed : linkOf[d] = l
  BY DEF Disturbed
<1>2. d \in Contexts /\ ctx[d] # "unused"
  BY <1>1, NoneAssumption DEF TypeOK, Wired, Sched!Wiring
<1>. QED
  BY <1>1, <1>2 DEF Kept, Disturbed

LEMMA RequestFields ==
  ASSUME TypeOK, NEW r \in Callers
  PROVE  /\ req[r] \in ReqStates
         /\ req[r].op \in Ops \cup {None} /\ req[r].user \in Users \cup {None}
         /\ req[r].link \in Links \cup {None} /\ req[r].ids \subseteq Contexts
         /\ tx[r] \in {"none", "open", "wrote", "lost"}
BY DEF TypeOK, ReqStates

\* What a step of somebody else must not do to request q.
Spares(q) ==
    /\ req'[q] = req[q] /\ tx'[q] = tx[q] /\ caller'[q] = caller[q]
    /\ req[q].op = "add" => \A c \in req[q].ids :
         /\ c \notin RowIds'
         /\ \A p \in Others(q) : c \notin req'[p].ids
         /\ ctx[c] = "unused" => ctx'[c] = "unused"
         /\ monitor[c].pc = "none" => monitor'[c].pc = "none"
         /\ req[q].pc \in {"start", "commit"} /\ tx[q] = "wrote" =>
              cancelFuncs'[req[q].link] = cancelFuncs[req[q].link] \/ Disturbed(req[q].link)'
    /\ req[q].op \in {"delete", "deleteChat"} =>
         \A w \in rows' : w.id \in req[q].ids => w \in rows

LEMMA SoundKept ==
  ASSUME TypeOK, Wired, Kept, NEW q \in Callers, Sound(q), Spares(q)
  PROVE  Sound(q)'
<1>. DEFINE m == req[q]
<1>1. /\ m.link \in Links \cup {None} /\ m.ids \subseteq Contexts
      /\ req'[q] = m /\ tx'[q] = tx[q] /\ caller'[q] = caller[q]
  BY RequestFields DEF Spares
<1>2. \A l \in Links : Disturbed(l) => Disturbed(l)'
  BY DisturbedKept
<1>3. Stages(q)'
  BY <1>1 DEF Sound, Stages, Kept
<1>4. Calling(q)'
  BY <1>1 DEF Sound, Calling
<1>5. ASSUME m.op = "add" PROVE Adds(q)'
  <2>1. m.ids # {} => m.link \in Links
    BY <1>5 DEF Sound, Stages, ReqIdle
  <2>2. ASSUME NEW c \in m.ids
        PROVE  /\ c \notin RowIds'
               /\ \A p \in Others(q) : c \notin req'[p].ids
               /\ IF m.pc = "file" THEN ctx'[c] = "unused" ELSE linkOf'[c] = m.link
               /\ m.pc = "rollback" => monitor'[c].pc = "none"
               /\ m.pc \in {"start", "commit"} /\ tx[q] = "wrote" =>
                    cancelFuncs'[m.link] = c \/ Disturbed(m.link)'
    <3>1. c \in Contexts /\ m.link \in Links
      BY <1>1, <2>1
    <3>2. /\ IF m.pc = "file" THEN ctx[c] = "unused" ELSE linkOf[c] = m.link
          /\ m.pc = "rollback" => monitor[c].pc = "none"
          /\ m.pc \in {"start", "commit"} /\ tx[q] = "wrote" =>
                cancelFuncs[m.link] = c \/ Disturbed(m.link)
      BY <1>5 DEF Sound, Adds
    <3>3. m.pc # "file" => linkOf'[c] = m.link
      BY <3>1, <3>2, UsedContext DEF Kept
    <3>. QED
      BY <1>2, <1>5, <3>1, <3>2, <3>3 DEF Spares
  <2>3. /\ m.pc \in {"read", "write"} => m.ids = {}
        /\ m.pc \in {"file", "start", "commit", "leaked"} \/ tx[q] = "wrote" =>
             \E c \in Contexts : m.ids = {c}
        /\ m.ids # {} => m.user \in chats'
    BY <1>5 DEF Sound, Adds, Kept
  <2>. QED
    BY <1>1, <2>2, <2>3 DEF Adds
<1>6. ASSUME m.op = "delete" PROVE Deletes(q)'
  <2>1. m.ids # {} => m.link \in Links
    BY <1>6 DEF Sound, Stages, ReqIdle
  <2>2. ASSUME NEW c \in m.ids
        PROVE  /\ linkOf'[c] = m.link
               /\ m.pc \in {"remove", "commit"} =>
                    ctx'[c] # "live" \/ c \in parted' \/ Disturbed(m.link)'
               /\ \A w \in rows' : w.id = c => w.chat = m.user
    <3>1. /\ linkOf[c] = m.link /\ c \in Contexts /\ m.link \in Links
          /\ m.pc \in {"remove", "commit"} =>
               ctx[c] # "live" \/ c \in parted \/ Disturbed(m.link)
          /\ \A w \in rows : w.id = c => w.chat = m.user
      BY <1>1, <1>6, <2>1 DEF Sound, Deletes
    <3>2. ctx[c] # "unused" /\ ctx[c] \in {"unused", "live", "done"}
      BY <3>1, UsedContext DEF Wired, Sched!TypeOK
    <3>3. \A w \in rows' : w.id = c => w.chat = m.user
      BY <1>6, <3>1 DEF Spares
    <3>. QED
      BY <1>1, <1>2, <3>1, <3>2, <3>3 DEF Kept
  <2>3. m.pc \in {"write", "unfile", "remove", "commit"} => m.ids # {}
    BY <1>6 DEF Sound, Deletes
  <2>. QED
    BY <1>1, <2>2, <2>3 DEF Deletes
<1>7. OfChats(q)'
  BY <1>1 DEF Sound, OfChats, Spares, Kept
<1>8. m.op # "add" => Adds(q)'
  BY <1>1 DEF Adds
<1>9. m.op # "delete" => Deletes(q)'
  BY <1>1 DEF Deletes
<1>. QED
  BY <1>3, <1>4, <1>5, <1>6, <1>7, <1>8, <1>9 DEF Sound

-----------------------------------------------------------------------------
(* The steps of one request. *)

\* A step of request r leaves the others alone: what it takes or makes is its own.
Alone(r) ==
    /\ Kept
    /\ \A q \in Others(r) : req'[q] = req[q] /\ tx'[q] = tx[q] /\ caller'[q] = caller[q]
    /\ \A c \in req'[r].ids : c \in req[r].ids \/ c \in RowIds \/ \A q \in Callers : c \notin req[q].ids
    /\ \A w \in rows' : w \in rows \/ (req[r].op = "add" /\ w.id \in req[r].ids)
    /\ \A c \in Contexts : c \notin req[r].ids =>
         /\ ctx[c] = "unused" => ctx'[c] = "unused"
         /\ monitor[c].pc = "none" => monitor'[c].pc = "none"
    /\ \A l \in Links : \/ cancelFuncs'[l] = cancelFuncs[l]
                        \/ Disturbed(l)'
                        \/ \A q \in Others(r) : ~Inserting(q, l)

LEMMA OthersSound ==
  ASSUME TypeOK, Wired, \A q \in Callers : Sound(q), NEW r \in Callers, Alone(r)
  PROVE  \A q \in Others(r) : Sound(q)'
<1>. SUFFICES ASSUME NEW q \in Others(r) PROVE Sound(q)'
  OBVIOUS
<1>1. q \in Callers /\ q # r /\ r \in Others(q) /\ Sound(q) /\ Sound(r)
  BY DEF Others
<1>2. req'[q] = req[q] /\ tx'[q] = tx[q] /\ caller'[q] = caller[q]
  BY DEF Alone
<1>3. ASSUME req[q].op = "add", NEW c \in req[q].ids
      PROVE  /\ c \notin RowIds'
             /\ \A p \in Others(q) : c \notin req'[p].ids
             /\ ctx[c] = "unused" => ctx'[c] = "unused"
             /\ monitor[c].pc = "none" => monitor'[c].pc = "none"
             /\ req[q].pc \in {"start", "commit"} /\ tx[q] = "wrote" =>
                  \/ cancelFuncs'[req[q].link] = cancelFuncs[req[q].link]
                  \/ Disturbed(req[q].link)'
  <2>1. c \in Contexts /\ c \notin RowIds /\ \A p \in Others(q) : c \notin req[p].ids
    BY <1>1, <1>3, RequestFields DEF Sound, Adds
  <2>2. c \notin req[r].ids
    BY <1>1, <2>1
  <2>3. c \notin RowIds'
    BY <2>1, <2>2 DEF Alone, RowIds
  <2>4. ASSUME NEW p \in Others(q) PROVE c \notin req'[p].ids
    <3>1. CASE p = r
      BY <1>1, <1>3, <2>1, <2>2, <3>1 DEF Alone
    <3>2. CASE p # r
      BY <2>1, <3>2 DEF Alone, Others
    <3>. QED
      BY <3>1, <3>2
  <2>5. req[q].pc \in {"start", "commit"} /\ tx[q] = "wrote" =>
          /\ req[q].link \in Links /\ Inserting(q, req[q].link)
    BY <1>1, <1>3 DEF Sound, Stages, Inserting
  <2>6. ASSUME req[q].pc \in {"start", "commit"}, tx[q] = "wrote"
        PROVE  \/ cancelFuncs'[req[q].link] = cancelFuncs[req[q].link]
               \/ Disturbed(req[q].link)'
    <3>1. PICK k \in Links : k = req[q].link
      BY <2>5, <2>6
    <3>2. cancelFuncs'[k] = cancelFuncs[k] \/ Disturbed(k)'
      BY <2>5, <2>6, <3>1 DEF Alone
    <3>. QED
      BY <1>2, <3>1, <3>2
  <2>. QED
    BY <2>1, <2>2, <2>3, <2>4, <2>6 DEF Alone
<1>4. ASSUME req[q].op \in {"delete", "deleteChat"}, NEW w \in rows', w.id \in req[q].ids
      PROVE  w \in rows
  BY <1>1, <1>4 DEF Alone, Sound, Adds
<1>5. Spares(q)
  BY <1>2, <1>3, <1>4 DEF Spares
<1>. QED
  BY <1>1, <1>5, SoundKept DEF Alone

LEMMA WiredSame == Wired /\ UNCHANGED sched => Wired'
BY DEF Wired, sched, Sched!TypeOK, Sched!Wiring, Sched!Handling

\* Request r is now m and its transaction t; the tables and the scheduler stay.
Becomes(r, m, t) ==
    /\ req' = [req EXCEPT ![r] = m]
    /\ tx' = [tx EXCEPT ![r] = t]
    /\ UNCHANGED <<sched, tables, parted>>

\* Where the requests and the rows are, whatever the repositories.
Placed ==
    /\ req \in [Callers -> ReqStates]
    /\ tx \in [Callers -> {"none", "open", "wrote", "failed", "lost", "closed"}]
    /\ rows \subseteq [id : Contexts, chat : Users, url : Links]

LEMMA TypePlaced == TypeOK => Placed
BY DEF TypeOK, Placed

\* The locks that it then holds are free.
MayHold(r, m, t) ==
    t = "wrote" =>
      /\ m.op = "add" => /\ \A w \in rows : w.url # m.link
                         /\ \A q \in Others(r) : ~Inserting(q, m.link)
      /\ m.op \in {"delete", "deleteChat"} =>
           m.ids \subseteq RowIds /\ \A q \in Others(r) : m.ids \cap Deleting(q) = {}

LEMMA LocksTaken ==
  ASSUME Placed, Locks, NEW r \in Callers, NEW m, NEW t, Becomes(r, m, t), MayHold(r, m, t)
  PROVE  Locks'
<1>1. /\ req'[r] = m /\ tx'[r] = t /\ UNCHANGED rows
      /\ \A q \in Callers : q # r => req'[q] = req[q] /\ tx'[q] = tx[q]
  BY DEF Becomes, Placed, tables
<1>2. \A q \in Callers : q # r => /\ Deleting(q)' = Deleting(q)
                                  /\ \A l \in Links : Inserting(q, l)' = Inserting(q, l)
  BY <1>1 DEF Deleting, Inserting
<1>3. /\ Deleting(r)' = IF t = "wrote" /\ m.op \in {"delete", "deleteChat"} THEN m.ids ELSE {}
      /\ \A l \in Links : Inserting(r, l)' <=> t = "wrote" /\ m.op = "add" /\ m.link = l
  BY <1>1 DEF Deleting, Inserting
<1>4. \A q \in Callers : q # r => q \in Others(r)
  BY DEF Others
<1>5. \A p, q \in Callers, l \in Links : Inserting(p, l)' /\ Inserting(q, l)' => p = q
  BY <1>2, <1>3, <1>4 DEF Locks, MayHold
<1>6. \A q \in Callers : \A w \in rows : ~Inserting(q, w.url)'
  BY <1>1, <1>2, <1>3 DEF Locks, MayHold, Placed
<1>7. \A q \in Callers : Deleting(q)' \subseteq RowIds
  BY <1>2, <1>3 DEF Locks, MayHold
<1>8. \A p \in Callers : \A q \in Others(p) : Deleting(p)' \cap Deleting(q)' = {}
  <2>. SUFFICES ASSUME NEW p \in Callers, NEW q \in Others(p)
                PROVE  Deleting(p)' \cap Deleting(q)' = {}
    OBVIOUS
  <2>0. q \in Callers /\ p # q
    BY DEF Others
  <2>1. CASE p # r /\ q # r
    BY <1>2, <2>0, <2>1 DEF Locks
  <2>2. CASE p = r
    BY <1>2, <1>3, <1>4, <2>0, <2>2 DEF MayHold
  <2>3. CASE q = r
    BY <1>2, <1>3, <1>4, <2>0, <2>3 DEF MayHold
  <2>. QED
    BY <2>1, <2>2, <2>3
<1>. QED
  BY <1>1, <1>5, <1>6, <1>7, <1>8 DEF Locks, RowIds, Others

\* A step of r in which it neither calls the scheduler nor commits keeps the
\* invariant, if r itself keeps what it must.
LEMMA BecomesInv ==
  ASSUME Inv, NEW r \in Callers, NEW m \in ReqStates, NEW t \in {"none", "open", "wrote", "lost"},
         Becomes(r, m, t), MayHold(r, m, t), Sound(r)',
         severed \subseteq severed', severed' \subseteq Contexts,
         \A c \in m.ids : c \in req[r].ids \/ c \in RowIds \/ \A q \in Callers : c \notin req[q].ids,
         tx[r] = "wrote" /\ req[r].pc \in {"remove", "commit"} => req[r].ids \subseteq severed',
         req[r].op = "add" =>
            \A c \in req[r].ids : \/ monitor[c].pc = "none" \/ c \in severed'
                                  \/ (m.op = "add" /\ c \in m.ids)
  PROVE  Inv'
<1>0. /\ UNCHANGED <<rows, chats, parted, cancelFuncs, ctx, linkOf, monitor, caller>>
      /\ req'[r] = m /\ tx'[r] = t
      /\ \A q \in Callers : q # r => req'[q] = req[q] /\ tx'[q] = tx[q]
  BY DEF Becomes, tables, sched, Inv, TypeOK
<1>1. Wired' /\ Sched!TypeOK'
  <2>1. Wired'
    BY WiredSame DEF Becomes, Inv
  <2>. QED
    BY <2>1 DEF Wired
<1>2. TypeOK'
  <2>1. req' \in [Callers -> ReqStates] /\ tx' \in [Callers -> {"none", "open", "wrote", "lost"}]
    BY DEF Becomes, Inv, TypeOK
  <2>. QED
    BY <1>0, <1>1, <2>1 DEF Inv, TypeOK
<1>3. Kept
  BY <1>0 DEF Kept
<1>4. Alone(r)
  <2>1. \A q \in Others(r) : req'[q] = req[q] /\ tx'[q] = tx[q] /\ caller'[q] = caller[q]
    BY <1>0 DEF Others
  <2>2. \A c \in req'[r].ids : c \in req[r].ids \/ c \in RowIds \/ \A q \in Callers : c \notin req[q].ids
    BY <1>0
  <2>3. \A w \in rows' : w \in rows \/ (req[r].op = "add" /\ w.id \in req[r].ids)
    <3>1. rows' = rows
      BY <1>0
    <3>. QED
      BY <3>1
  <2>4. \A c \in Contexts : c \notin req[r].ids =>
          /\ ctx[c] = "unused" => ctx'[c] = "unused"
          /\ monitor[c].pc = "none" => monitor'[c].pc = "none"
    BY <1>0
  <2>5. \A l \in Links : \/ cancelFuncs'[l] = cancelFuncs[l]
                         \/ Disturbed(l)'
                         \/ \A q \in Others(r) : ~Inserting(q, l)
    BY <1>0
  <2>. QED
    BY <1>3, <2>1, <2>2, <2>3, <2>4, <2>5 DEF Alone
<1>5. \A q \in Callers : Sound(q)'
  BY <1>4, OthersSound DEF Inv, Others
<1>6. Locks'
  BY LocksTaken, TypePlaced DEF Inv
<1>7. \A l \in Links : Disturbed(l) => Disturbed(l)'
  BY <1>3, DisturbedKept DEF Inv
<1>8. Table'
  <2>1. ASSUME NEW w \in rows PROVE Filed(w)'
    <3>1. Filed(w) /\ w.url \in Links /\ linkOf[w.id] = w.url
      BY DEF Inv, Table, TypeOK
    <3>2. CASE tx[r] = "wrote" /\ req[r].pc \in {"remove", "commit"} /\ w.id \in req[r].ids
      BY <1>0, <3>1, <3>2 DEF Filed, Disturbed
    <3>3. CASE ~(tx[r] = "wrote" /\ req[r].pc \in {"remove", "commit"} /\ w.id \in req[r].ids)
      BY <1>0, <1>7, <3>1, <3>3 DEF Filed
    <3>. QED
      BY <3>2, <3>3
  <2>. QED
    BY <1>0, <2>1 DEF Inv, Table
<1>9. LiveIsTracked'
  <2>. SUFFICES ASSUME NEW c \in Contexts, Sched!Running(c), ctx[c] = "live"
                PROVE  \/ c \in RowIds
                       \/ \E q \in Callers : req'[q].op = "add" /\ c \in req'[q].ids
                       \/ c \in parted
                       \/ Disturbed(linkOf[c])'
    BY <1>0 DEF LiveIsTracked, RowIds, Sched!Running
  <2>1. \/ c \in RowIds
        \/ \E q \in Callers : req[q].op = "add" /\ c \in req[q].ids
        \/ c \in parted
        \/ Disturbed(linkOf[c])
    BY DEF Inv, LiveIsTracked
  <2>2. linkOf[c] \in Links /\ monitor[c].pc # "none"
    BY DEF Inv, Wired, Sched!TypeOK, Sched!Wiring, Sched!Running
  <2>3. c \in severed' => Disturbed(linkOf[c])'
    BY <1>0 DEF Disturbed
  <2>. QED
    BY <1>0, <1>7, <2>1, <2>2, <2>3
<1>. QED
  BY <1>1, <1>2, <1>5, <1>6, <1>8, <1>9 DEF Inv

LEMMA BecomesFacts ==
  ASSUME Placed, NEW r \in Callers, NEW m, NEW t, Becomes(r, m, t)
  PROVE  /\ req'[r] = m /\ tx'[r] = t /\ caller'[r] = caller[r]
         /\ \A q \in Others(r) : req'[q] = req[q]
         /\ UNCHANGED <<rows, chats, parted, cancelFuncs, ctx, linkOf, monitor, caller, RowIds>>
BY DEF Becomes, Placed, Others, tables, sched, RowIds

\* A statement fails, or its answer is an error.
LEMMA FailInv ==
  ASSUME Inv, NEW r \in Callers, req[r].pc \in {"read", "write"}, Fail(r),
         UNCHANGED <<sched, tables, ghosts>>
  PROVE  Inv'
<1>. DEFINE m == [req[r] EXCEPT !.pc = "rollback"]
<1>1. m \in ReqStates /\ m.pc = "rollback" /\ m.op = req[r].op /\ m.user = req[r].user
      /\ m.link = req[r].link /\ m.ids = req[r].ids
  BY RequestFields DEF Inv, ReqStates
<1>2. Becomes(r, m, tx[r]) /\ severed' = severed
  BY RequestFields DEF Inv, Fail, Goto, Becomes, ghosts, TypeOK
<1>3. tx[r] \in {"open", "lost"} /\ Sound(r)
  BY DEF Inv, Sound, Stages
<1>. HIDE DEF m
<1>4. Sound(r)'
  <2>1. /\ req'[r] = m /\ tx'[r] = tx[r] /\ caller'[r] = caller[r]
        /\ \A q \in Others(r) : req'[q] = req[q]
        /\ UNCHANGED <<rows, chats, parted, cancelFuncs, ctx, linkOf, monitor, caller, RowIds>>
    BY <1>2, BecomesFacts, TypePlaced DEF Inv
  <2>2. Stages(r)' /\ Calling(r)'
    BY <1>1, <1>2, <1>3, <2>1 DEF Sound, Stages, Calling
  <2>3. Adds(r)'
    BY <1>1, <1>3, <2>1 DEF Sound, Adds
  <2>4. Deletes(r)'
    BY <1>1, <1>3, <2>1 DEF Sound, Deletes
  <2>5. OfChats(r)'
    BY <1>1, <1>3, <2>1 DEF Sound, OfChats
  <2>. QED
    BY <2>2, <2>3, <2>4, <2>5 DEF Sound
<1>5. req[r].op = "add" => req[r].ids = {}
  BY <1>3 DEF Sound, Adds
<1>6. MayHold(r, m, tx[r])
  BY <1>3 DEF MayHold
<1>7. severed' \subseteq Contexts
  BY <1>2 DEF Inv, TypeOK
<1>. QED
  BY <1>1, <1>2, <1>3, <1>4, <1>5, <1>6, <1>7, BecomesInv

LEMMA BeginInv ==
  ASSUME Inv, NEW r \in Callers, NEW op \in Ops, NEW u \in Users, NEW l \in Links,
         Begin(r, op, u, l)
  PROVE  Inv'
<1>. DEFINE m == [ReqIdle EXCEPT !.pc = "read", !.op = op, !.user = u,
                                 !.link = IF op \in {"add", "delete"} THEN l ELSE None]
<1>1. /\ m \in ReqStates /\ m.pc = "read" /\ m.op = op /\ m.user = u /\ m.ids = {}
      /\ op \in {"add", "delete"} => m.link = l
  BY DEF ReqIdle, ReqStates
<1>2. Becomes(r, m, "open") /\ severed' = severed
  BY DEF Begin, Becomes, ghosts
<1>3. Sound(r) /\ req[r] = ReqIdle
  BY DEF Begin, Inv, Sound, Stages
<1>. HIDE DEF m
<1>4. Sound(r)'
  <2>1. /\ req'[r] = m /\ tx'[r] = "open" /\ caller'[r] = caller[r]
        /\ UNCHANGED <<rows, chats, parted, cancelFuncs, ctx, linkOf, monitor, caller, RowIds>>
    BY <1>2, BecomesFacts, TypePlaced DEF Inv
  <2>2. Stages(r)' /\ Calling(r)'
    BY <1>1, <1>3, <2>1 DEF Sound, Stages, Calling, ReqIdle
  <2>3. Adds(r)' /\ Deletes(r)' /\ OfChats(r)'
    BY <1>1, <2>1 DEF Adds, Deletes, OfChats
  <2>. QED
    BY <2>2, <2>3 DEF Sound
<1>5. severed' \subseteq Contexts
  BY <1>2 DEF Inv, TypeOK
<1>. QED
  BY <1>1, <1>2, <1>3, <1>4, <1>5, BecomesInv DEF MayHold, ReqIdle

\* Nothing stands against an add or a register: the request goes on to write.
LEMMA GoesOnInv ==
  ASSUME Inv, NEW r \in Callers, req[r].pc = "read", req[r].op \in {"add", "register"},
         Goto(r, "write"), UNCHANGED tx, UNCHANGED <<sched, tables, ghosts>>
  PROVE  Inv'
<1>. DEFINE m == [req[r] EXCEPT !.pc = "write"]
<1>1. m \in ReqStates /\ m.pc = "write" /\ m.op = req[r].op /\ m.user = req[r].user
      /\ m.link = req[r].link /\ m.ids = req[r].ids
  BY RequestFields DEF Inv, ReqStates
<1>2. Becomes(r, m, tx[r]) /\ severed' = severed
  BY RequestFields DEF Inv, Goto, Becomes, ghosts, TypeOK
<1>3. tx[r] \in {"open", "lost"} /\ Sound(r) /\ req[r].ids = {}
  BY DEF Inv, Sound, Stages, Adds, OfChats
<1>. HIDE DEF m
<1>4. Sound(r)'
  <2>1. /\ req'[r] = m /\ tx'[r] = tx[r] /\ caller'[r] = caller[r]
        /\ UNCHANGED <<rows, chats, parted, cancelFuncs, ctx, linkOf, monitor, caller, RowIds>>
    BY <1>2, BecomesFacts, TypePlaced DEF Inv
  <2>2. Stages(r)' /\ Calling(r)'
    BY <1>1, <1>2, <1>3, <2>1 DEF Sound, Stages, Calling
  <2>3. Adds(r)' /\ Deletes(r)' /\ OfChats(r)'
    BY <1>1, <1>3, <2>1 DEF Sound, Adds, Deletes, OfChats
  <2>. QED
    BY <2>2, <2>3 DEF Sound
<1>5. severed' \subseteq Contexts /\ MayHold(r, m, tx[r])
  BY <1>2, <1>3 DEF Inv, TypeOK, MayHold
<1>. QED
  BY <1>1, <1>2, <1>3, <1>4, <1>5, BecomesInv

\* The ids that a delete or a deleteChat request found are rows of its chat.
LEMMA FoundInv ==
  ASSUME Inv, NEW r \in Callers, req[r].pc = "read", req[r].op \in {"delete", "deleteChat"},
         NEW S \in SUBSET RowIds, req[r].op = "delete" => S # {},
         tx[r] = "open", UNCHANGED tx, UNCHANGED <<sched, tables, ghosts>>,
         \A w \in rows : w.id \in S =>
           w.chat = req[r].user /\ (req[r].op = "delete" => w.url = req[r].link),
         req' = [req EXCEPT ![r].ids = S, ![r].pc = "write"]
  PROVE  Inv'
<1>. DEFINE m == [req[r] EXCEPT !.ids = S, !.pc = "write"]
<1>0. RowIds \subseteq Contexts
  BY DEF Inv, TypeOK, RowIds
<1>1. m \in ReqStates /\ m.pc = "write" /\ m.op = req[r].op /\ m.user = req[r].user
      /\ m.link = req[r].link /\ m.ids = S
  BY <1>0, RequestFields DEF Inv, ReqStates
<1>2. Becomes(r, m, "open") /\ severed' = severed
  <2>1. req' = [req EXCEPT ![r] = m]
    BY RequestFields DEF Inv, TypeOK, ReqStates
  <2>2. tx' = [tx EXCEPT ![r] = "open"]
    BY DEF Inv, TypeOK
  <2>. QED
    BY <2>1, <2>2 DEF Becomes, ghosts
<1>3. Sound(r)
  BY DEF Inv
<1>. HIDE DEF m
<1>4. \A c \in S : /\ ctx[c] # "unused"
                   /\ req[r].op = "delete" => linkOf[c] = req[r].link
  <2>1. ASSUME NEW c \in S PROVE \E w \in rows : w.id = c
    BY DEF RowIds
  <2>2. \A w \in rows : w.id \in Contexts /\ linkOf[w.id] = w.url /\ w.url \in Links
    BY DEF Inv, TypeOK, Table
  <2>. QED
    BY <2>1, <2>2, UsedContext DEF Inv
<1>5. Sound(r)'
  <2>1. /\ req'[r] = m /\ tx'[r] = "open" /\ caller'[r] = caller[r]
        /\ UNCHANGED <<rows, chats, parted, cancelFuncs, ctx, linkOf, monitor, caller, RowIds>>
    BY <1>2, BecomesFacts, TypePlaced DEF Inv
  <2>2. Stages(r)' /\ Calling(r)'
    BY <1>1, <1>3, <2>1 DEF Sound, Stages, Calling
  <2>3. Adds(r)' /\ Deletes(r)'
    BY <1>1, <1>4, <2>1 DEF Adds, Deletes
  <2>4. OfChats(r)'
    BY <1>1, <1>4, <2>1 DEF OfChats
  <2>. QED
    BY <2>2, <2>3, <2>4 DEF Sound
<1>6. severed' \subseteq Contexts /\ MayHold(r, m, "open")
  BY <1>2 DEF Inv, TypeOK, MayHold
<1>. QED
  BY <1>1, <1>2, <1>5, <1>6, BecomesInv

LEMMA ReadInv ==
  ASSUME Inv, NEW r \in Callers, Read(r)
  PROVE  Inv'
<1>1. CASE ReadLinks(r)
  BY <1>1, FailInv, GoesOnInv DEF ReadLinks, At
<1>2. CASE CheckChat(r)
  BY <1>2, FailInv, GoesOnInv DEF CheckChat, At
<1>3. CASE FindLink(r)
  <2>. DEFINE S == {w.id : w \in {v \in RowsOf(req[r].user) : v.url = req[r].link}}
  <2>1. CASE S = {}
    BY <1>3, <2>1, FailInv DEF FindLink, At
  <2>2. CASE S # {}
    <3>1. S \in SUBSET RowIds
      BY DEF RowIds, RowsOf
    <3>2. \A w \in rows : w.id \in S => w.chat = req[r].user /\ w.url = req[r].link
      <4>. SUFFICES ASSUME NEW w \in rows, w.id \in S
                    PROVE  w.chat = req[r].user /\ w.url = req[r].link
        OBVIOUS
      <4>1. PICK v \in rows : v.id = w.id /\ v.chat = req[r].user /\ v.url = req[r].link
        BY DEF RowsOf
      <4>2. v = w
        BY <4>1 DEF Inv, Table
      <4>. QED
        BY <4>1, <4>2
    <3>3. req' = [req EXCEPT ![r].ids = S, ![r].pc = "write"] /\ UNCHANGED tx
      BY <1>3, <2>2 DEF FindLink
    <3>4. /\ req[r].pc = "read" /\ req[r].op = "delete" /\ tx[r] = "open"
          /\ UNCHANGED <<sched, tables, ghosts>>
      BY <1>3 DEF FindLink, At
    <3>. HIDE DEF S
    <3>. QED
      BY <2>2, <3>1, <3>2, <3>3, <3>4, FoundInv
  <2>. QED
    BY <2>1, <2>2
<1>4. CASE ScanRows(r)
  <2>. DEFINE S == {w.id : w \in RowsOf(req[r].user)}
  <2>1. S \in SUBSET RowIds
    BY DEF RowIds, RowsOf
  <2>2. \A w \in rows : w.id \in S => w.chat = req[r].user
    <3>. SUFFICES ASSUME NEW w \in rows, w.id \in S PROVE w.chat = req[r].user
      OBVIOUS
    <3>1. PICK v \in rows : v.id = w.id /\ v.chat = req[r].user
      BY DEF RowsOf
    <3>2. v = w
      BY <3>1 DEF Inv, Table
    <3>. QED
      BY <3>1, <3>2
  <2>3. req' = [req EXCEPT ![r].ids = S, ![r].pc = "write"] /\ UNCHANGED tx
    BY <1>4 DEF ScanRows
  <2>4. /\ req[r].pc = "read" /\ req[r].op = "deleteChat" /\ tx[r] = "open"
        /\ UNCHANGED <<sched, tables, ghosts>>
    BY <1>4 DEF ScanRows, At
  <2>. HIDE DEF S
  <2>. QED
    BY <2>1, <2>2, <2>3, <2>4, FoundInv
<1>. QED
  BY <1>1, <1>2, <1>3, <1>4 DEF Read

LEMMA InsertLinkInv ==
  ASSUME Inv, NEW r \in Callers, InsertLink(r)
  PROVE  Inv'
<1>0. req[r].pc = "write" /\ req[r].op = "add" /\ tx[r] = "open" /\ UNCHANGED <<sched, tables, ghosts>>
  BY DEF InsertLink, At
<1>1. CASE Fail(r)
  BY <1>0, <1>1, FailInv
<1>2. CASE ~Fail(r)
  <2>1. /\ \A w \in rows : w.url # req[r].link
        /\ req[r].user \in chats
    BY <1>2 DEF InsertLink
  <2>2. PICK c \in Contexts :
          /\ ctx[c] = "unused"
          /\ \A q \in Callers : c \notin req[q].ids
          /\ req' = [req EXCEPT ![r].ids = {c}, ![r].pc = "file"]
          /\ tx' = [tx EXCEPT ![r] = "wrote"]
    BY <1>2 DEF InsertLink
  <2>3. \A q \in Others(r) : ~Inserting(q, req[r].link)
    BY DEF InsertLink
  <2>. DEFINE m == [req[r] EXCEPT !.ids = {c}, !.pc = "file"]
  <2>4. m \in ReqStates /\ m.pc = "file" /\ m.op = "add" /\ m.user = req[r].user
        /\ m.link = req[r].link /\ m.ids = {c}
    BY <1>0, RequestFields DEF Inv, ReqStates
  <2>5. Becomes(r, m, "wrote") /\ severed' = severed
    <3>1. req' = [req EXCEPT ![r] = m]
      BY <2>2, RequestFields DEF Inv, TypeOK, ReqStates
    <3>. QED
      BY <1>0, <2>2, <3>1 DEF Becomes, ghosts
  <2>6. Sound(r) /\ req[r].ids = {}
    BY <1>0 DEF Inv, Sound, Adds
  <2>. HIDE DEF m
  <2>7. c \notin RowIds
    <3>1. \A w \in rows : linkOf[w.id] \in Links /\ w.id \in Contexts
      BY DEF Inv, Table, TypeOK
    <3>2. \A w \in rows : ctx[w.id] # "unused"
      BY <3>1, UsedContext DEF Inv
    <3>. QED
      BY <2>2, <3>2 DEF RowIds
  <2>8. Sound(r)'
    <3>1. /\ req'[r] = m /\ tx'[r] = "wrote" /\ caller'[r] = caller[r]
          /\ \A q \in Others(r) : req'[q] = req[q]
          /\ UNCHANGED <<rows, chats, parted, cancelFuncs, ctx, linkOf, monitor, caller, RowIds>>
      BY <2>5, BecomesFacts, TypePlaced DEF Inv
    <3>2. Stages(r)' /\ Calling(r)'
      BY <1>0, <2>4, <2>6, <3>1 DEF Sound, Stages, Calling
    <3>3. Adds(r)'
      <4>1. m.ids # {} => m.user \in chats'
        BY <2>1, <2>4, <3>1
      <4>2. c \notin RowIds' /\ ctx'[c] = "unused" /\ \A p \in Others(r) : c \notin req'[p].ids
        BY <2>2, <2>7, <3>1 DEF Others
      <4>. QED
        BY <2>4, <3>1, <4>1, <4>2 DEF Adds
    <3>4. Deletes(r)' /\ OfChats(r)'
      BY <2>4, <3>1 DEF Deletes, OfChats
    <3>. QED
      BY <3>2, <3>3, <3>4 DEF Sound
  <2>9. severed' \subseteq Contexts /\ MayHold(r, m, "wrote")
    BY <2>1, <2>3, <2>4, <2>5 DEF Inv, TypeOK, MayHold
  <2>. QED
    BY <1>0, <2>2, <2>4, <2>5, <2>6, <2>8, <2>9, BecomesInv
<1>. QED
  BY <1>1, <1>2

\* A delete statement takes the locks of the rows that it finds.
LEMMA DeletedInv ==
  ASSUME Inv, NEW r \in Callers, req[r].pc = "write", req[r].op \in {"delete", "deleteChat"},
         NEW S \in SUBSET req[r].ids, S # {}, S \subseteq RowIds, tx[r] = "open",
         \A q \in Others(r) : req[r].ids \cap Deleting(q) = {},
         NEW m \in ReqStates, Becomes(r, m, "wrote"), severed' = severed,
         m.op = req[r].op, m.user = req[r].user, m.link = req[r].link, m.ids = S,
         m.pc = IF req[r].op = "delete" THEN "unfile" ELSE "commit"
  PROVE  Inv'
<1>1. Sound(r)
  BY DEF Inv
<1>2. Sound(r)'
  <2>1. /\ req'[r] = m /\ tx'[r] = "wrote" /\ caller'[r] = caller[r]
        /\ UNCHANGED <<rows, chats, parted, cancelFuncs, ctx, linkOf, monitor, caller, RowIds>>
    BY BecomesFacts, TypePlaced DEF Inv
  <2>2. Stages(r)' /\ Calling(r)'
    BY <1>1, <2>1 DEF Sound, Stages, Calling
  <2>3. Adds(r)' /\ Deletes(r)'
    BY <1>1, <2>1 DEF Sound, Adds, Deletes
  <2>4. OfChats(r)'
    BY <1>1, <2>1 DEF Sound, OfChats
  <2>. QED
    BY <2>2, <2>3, <2>4 DEF Sound
<1>3. severed' \subseteq Contexts /\ MayHold(r, m, "wrote")
  BY DEF Inv, TypeOK, MayHold
<1>. QED
  BY <1>2, <1>3, BecomesInv

LEMMA WriteInv ==
  ASSUME Inv, NEW r \in Callers, Write(r)
  PROVE  Inv'
<1>1. CASE InsertLink(r)
  BY <1>1, InsertLinkInv
<1>2. CASE DeleteRow(r)
  <2>1. CASE req[r].ids \subseteq RowIds
    <3>1. req[r].pc = "write" /\ req[r].op = "delete" /\ tx[r] = "open"
      BY <1>2 DEF DeleteRow, At
    <3>. DEFINE m == [req[r] EXCEPT !.pc = "unfile"]
    <3>2. /\ m \in ReqStates /\ m.pc = "unfile" /\ m.op = req[r].op /\ m.user = req[r].user
          /\ m.link = req[r].link /\ m.ids = req[r].ids
      BY RequestFields DEF Inv, ReqStates
    <3>3. Becomes(r, m, "wrote") /\ severed' = severed
      BY <1>2, <2>1, RequestFields DEF DeleteRow, Goto, Inv, TypeOK, Becomes, ghosts
    <3>4. req[r].ids # {}
      BY <3>1 DEF Inv, Sound, Deletes
    <3>5. \A q \in Others(r) : req[r].ids \cap Deleting(q) = {}
      BY <1>2 DEF DeleteRow
    <3>. HIDE DEF m
    <3>. QED
      BY <2>1, <3>1, <3>2, <3>3, <3>4, <3>5, DeletedInv
  <2>2. CASE ~(req[r].ids \subseteq RowIds)
    BY <1>2, <2>2, FailInv DEF DeleteRow, At
  <2>. QED
    BY <2>1, <2>2
<1>3. CASE DeleteRows(r)
  <2>1. CASE req[r].ids \cap RowIds # {}
    <3>1. req[r].pc = "write" /\ req[r].op = "deleteChat" /\ tx[r] = "open"
      BY <1>3 DEF DeleteRows, At
    <3>. DEFINE S == req[r].ids \cap RowIds
                m == [req[r] EXCEPT !.ids = S, !.pc = "commit"]
    <3>2. /\ m \in ReqStates /\ m.pc = "commit" /\ m.op = req[r].op /\ m.user = req[r].user
          /\ m.link = req[r].link /\ m.ids = S
      BY RequestFields DEF Inv, ReqStates
    <3>3. Becomes(r, m, "wrote") /\ severed' = severed
      <4>1. req' = [req EXCEPT ![r] = m]
        BY <1>3, <2>1, RequestFields DEF DeleteRows, Inv, TypeOK, ReqStates
      <4>. QED
        BY <1>3, <2>1, <4>1 DEF DeleteRows, Becomes, ghosts
    <3>4. \A q \in Others(r) : req[r].ids \cap Deleting(q) = {}
      BY <1>3 DEF DeleteRows
    <3>5. S \in SUBSET req[r].ids /\ S # {} /\ S \subseteq RowIds
      BY <2>1
    <3>. HIDE DEF S, m
    <3>. QED
      BY <3>1, <3>2, <3>3, <3>4, <3>5, DeletedInv
  <2>2. CASE req[r].ids \cap RowIds = {}
    BY <1>3, <2>2, FailInv DEF DeleteRows, At
  <2>. QED
    BY <2>1, <2>2
<1>4. CASE InsertChat(r)
  <2>1. CASE req[r].user \in chats
    BY <1>4, <2>1, FailInv DEF InsertChat, At
  <2>2. CASE req[r].user \notin chats
    <3>. DEFINE m == [req[r] EXCEPT !.pc = "commit"]
    <3>1. req[r].pc = "write" /\ req[r].op = "register" /\ tx[r] = "open" /\ Sound(r)
      BY <1>4 DEF InsertChat, At, Inv
    <3>2. /\ m \in ReqStates /\ m.pc = "commit" /\ m.op = "register" /\ m.user = req[r].user
          /\ m.ids = {} /\ req[r].ids = {}
      BY <3>1, RequestFields DEF Inv, ReqStates, Sound, OfChats
    <3>3. Becomes(r, m, "wrote") /\ severed' = severed
      BY <1>4, <2>2, RequestFields DEF InsertChat, Goto, Inv, Becomes, ghosts, TypeOK
    <3>. HIDE DEF m
    <3>4. Sound(r)'
      <4>1. /\ req'[r] = m /\ tx'[r] = "wrote" /\ caller'[r] = caller[r]
            /\ UNCHANGED <<rows, chats, parted, cancelFuncs, ctx, linkOf, monitor, caller, RowIds>>
        BY <3>3, BecomesFacts, TypePlaced DEF Inv
      <4>2. Stages(r)' /\ Calling(r)'
        BY <3>1, <3>2, <4>1 DEF Sound, Stages, Calling
      <4>3. Adds(r)' /\ Deletes(r)' /\ OfChats(r)'
        BY <3>2, <4>1 DEF Adds, Deletes, OfChats
      <4>. QED
        BY <4>2, <4>3 DEF Sound
    <3>5. severed' \subseteq Contexts /\ MayHold(r, m, "wrote")
      BY <3>2, <3>3 DEF Inv, TypeOK, MayHold
    <3>. QED
      BY <3>1, <3>2, <3>3, <3>4, <3>5, BecomesInv
  <2>. QED
    BY <2>1, <2>2
<1>. QED
  BY <1>1, <1>2, <1>3, <1>4 DEF Write

LEMMA RollbackInv ==
  ASSUME Inv, NEW r \in Callers, Rollback(r)
  PROVE  Inv'
<1>0. req[r].pc = "rollback" /\ UNCHANGED <<sched, tables, ghosts>> /\ Sound(r)
  BY DEF Rollback, Inv
<1>1. req[r].op = "add" => \A c \in req[r].ids : monitor[c].pc = "none"
  BY <1>0 DEF Sound, Adds
<1>2. CASE tx[r] = "lost"
  <2>. DEFINE m == [req[r] EXCEPT !.pc = "spin"]
  <2>1. m \in ReqStates /\ m.pc = "spin" /\ m.op = req[r].op /\ m.user = req[r].user
        /\ m.link = req[r].link /\ m.ids = req[r].ids
    BY RequestFields DEF Inv, ReqStates
  <2>2. Becomes(r, m, "lost") /\ severed' = severed
    BY <1>0, <1>2, RequestFields DEF Rollback, Goto, Inv, Becomes, ghosts, TypeOK
  <2>. HIDE DEF m
  <2>3. Sound(r)'
    <3>1. /\ req'[r] = m /\ tx'[r] = "lost" /\ caller'[r] = caller[r]
          /\ \A q \in Others(r) : req'[q] = req[q]
          /\ UNCHANGED <<rows, chats, parted, cancelFuncs, ctx, linkOf, monitor, caller, RowIds>>
      BY <2>2, BecomesFacts, TypePlaced DEF Inv
    <3>2. Stages(r)' /\ Calling(r)'
      BY <1>0, <1>2, <2>1, <2>2, <3>1 DEF Sound, Stages, Calling
    <3>3. Adds(r)' /\ Deletes(r)'
      BY <1>0, <2>1, <3>1 DEF Sound, Adds, Deletes
    <3>4. OfChats(r)'
      BY <1>0, <2>1, <3>1 DEF Sound, OfChats
    <3>. QED
      BY <3>2, <3>3, <3>4 DEF Sound
  <2>4. severed' \subseteq Contexts /\ MayHold(r, m, "lost")
    BY <2>2 DEF Inv, TypeOK, MayHold
  <2>. QED
    BY <1>0, <1>1, <2>1, <2>2, <2>3, <2>4, BecomesInv
<1>3. CASE tx[r] # "lost"
  <2>1. Becomes(r, ReqIdle, "none") /\ severed' = severed
    BY <1>0, <1>3 DEF Rollback, End, Becomes, ghosts
  <2>2. ReqIdle \in ReqStates
    BY DEF ReqIdle, ReqStates
  <2>3. Sound(r)'
    <3>1. req'[r] = ReqIdle /\ tx'[r] = "none" /\ caller'[r] = caller[r]
      BY <2>1, BecomesFacts, TypePlaced DEF Inv
    <3>2. Stages(r)' /\ Calling(r)'
      BY <1>0, <3>1 DEF Sound, Stages, Calling, ReqIdle
    <3>3. Adds(r)' /\ Deletes(r)' /\ OfChats(r)'
      BY <3>1, NoneAssumption DEF Adds, Deletes, OfChats, ReqIdle
    <3>. QED
      BY <3>2, <3>3 DEF Sound
  <2>4. severed' \subseteq Contexts
    BY <2>1 DEF Inv, TypeOK
  <2>. QED
    BY <1>0, <1>1, <2>1, <2>2, <2>3, <2>4, BecomesInv DEF ReqIdle, MayHold
<1>. QED
  BY <1>2, <1>3

LEMMA DropConnectionInv ==
  ASSUME Inv, NEW r \in Callers, DropConnection(r)
  PROVE  Inv'
<1>. DEFINE m == req[r]
<1>1. m \in ReqStates /\ m.ids \subseteq Contexts /\ Sound(r)
  BY RequestFields DEF Inv
<1>2. Becomes(r, m, "lost") /\ severed' = severed \cup m.ids /\ tx[r] \in {"open", "wrote"}
  BY DEF DropConnection, Inv, Becomes, TypeOK
<1>3. \A l \in Links : Disturbed(l) => Disturbed(l)'
  BY <1>2 DEF Becomes, Disturbed, sched
<1>4. Sound(r)'
  <2>1. /\ req'[r] = m /\ tx'[r] = "lost" /\ caller'[r] = caller[r]
        /\ \A q \in Others(r) : req'[q] = req[q]
        /\ UNCHANGED <<rows, chats, parted, cancelFuncs, ctx, linkOf, monitor, caller, RowIds>>
    BY <1>2, BecomesFacts, TypePlaced DEF Inv
  <2>2. Stages(r)' /\ Calling(r)'
    BY <1>1, <1>2, <2>1 DEF Sound, Stages, Calling
  <2>3. Adds(r)'
    BY <1>1, <1>2, <2>1 DEF Sound, Adds
  <2>4. Deletes(r)'
    <3>1. m.op = "delete" /\ m.pc # "idle" => m.link \in Links
      BY <1>1 DEF Sound, Stages
    <3>. QED
      BY <1>1, <1>3, <2>1, <3>1 DEF Sound, Deletes
  <2>5. OfChats(r)'
    BY <1>1, <2>1 DEF Sound, OfChats
  <2>. QED
    BY <2>2, <2>3, <2>4, <2>5 DEF Sound
<1>5. severed' \subseteq Contexts /\ MayHold(r, m, "lost")
  BY <1>1, <1>2 DEF Inv, TypeOK, MayHold
<1>. QED
  BY <1>1, <1>2, <1>4, <1>5, BecomesInv

-----------------------------------------------------------------------------
(* The calls of the scheduler. *)

\* The key of the link belongs to a request that adds or deletes it.
LEMMA KeyIsOwn ==
  ASSUME Inv, NEW r \in Callers, tx[r] = "wrote", req[r].op \in {"add", "delete"},
         req[r].op = "delete" => req[r].ids # {}
  PROVE  \A q \in Others(r) : ~Inserting(q, req[r].link)
<1>. SUFFICES ASSUME NEW q \in Others(r), Inserting(q, req[r].link) PROVE FALSE
  OBVIOUS
<1>1. q \in Callers /\ q # r
  BY DEF Others
<1>2. Sound(r) /\ req[r].pc # "idle"
  BY DEF Inv, Sound, Stages
<1>3. req[r].link \in Links
  BY <1>2 DEF Sound, Stages
<1>4. CASE req[r].op = "add"
  BY <1>1, <1>3, <1>4 DEF Inv, Locks, Inserting
<1>5. CASE req[r].op = "delete"
  <2>1. PICK c \in req[r].ids : TRUE
    BY <1>5
  <2>2. PICK w \in rows : w.id = c
    BY <1>5, <2>1 DEF Inv, Locks, Deleting, RowIds
  <2>3. w.url = req[r].link
    BY <1>2, <1>5, <2>1, <2>2 DEF Sound, Deletes, Inv, Table
  <2>. QED
    BY <1>1, <2>2, <2>3 DEF Inv, Locks
<1>. QED
  BY <1>4, <1>5

\* r goes on to the point pc, and has called the scheduler for its link.
Calls(r, m) ==
    /\ req' = [req EXCEPT ![r] = m]
    /\ m.op = req[r].op /\ m.user = req[r].user /\ m.link = req[r].link /\ m.ids = req[r].ids
    /\ UNCHANGED <<tables, tx, ghosts>>
    /\ \A q \in Others(r) : caller'[q] = caller[q]
    /\ \A c \in Contexts : c \notin req[r].ids =>
         /\ ctx[c] = "unused" => ctx'[c] = "unused"
         /\ monitor[c].pc = "none" => monitor'[c].pc = "none"
    /\ \A l \in Links \ {req[r].link} : cancelFuncs'[l] = cancelFuncs[l]
    /\ \A c \in Contexts : (monitor'[c].pc \notin {"none", "stopped"} /\ ctx'[c] = "live") =>
         \/ monitor[c].pc \notin {"none", "stopped"} /\ ctx[c] = "live"
         \/ req[r].op = "add" /\ c \in req[r].ids

LEMMA CallsInv ==
  ASSUME Inv, NEW r \in Callers, NEW m \in ReqStates, Calls(r, m), Wired', Kept, Sound(r)',
         req[r].op \in {"add", "delete"}, tx[r] \in {"wrote", "lost"}, req[r].ids # {},
         tx[r] = "lost" => Disturbed(req[r].link)',
         \A w \in rows : Filed(w)'
  PROVE  Inv'
<1>0. /\ UNCHANGED <<rows, chats, parted, severed, tx, RowIds>>
      /\ req'[r] = m /\ \A q \in Callers : q # r => req'[q] = req[q]
  BY DEF Calls, tables, ghosts, Inv, TypeOK, RowIds
<1>1. TypeOK'
  <2>1. req' \in [Callers -> ReqStates]
    BY DEF Calls, Inv, TypeOK
  <2>2. Sched!TypeOK'
    BY DEF Wired
  <2>. QED
    BY <1>0, <2>1, <2>2 DEF Inv, TypeOK
<1>2. Alone(r)
  <2>1. \A l \in Links : \/ cancelFuncs'[l] = cancelFuncs[l]
                         \/ Disturbed(l)'
                         \/ \A q \in Others(r) : ~Inserting(q, l)
    BY KeyIsOwn DEF Calls
  <2>2. \A q \in Others(r) : req'[q] = req[q] /\ tx'[q] = tx[q] /\ caller'[q] = caller[q]
    BY <1>0 DEF Calls, Others
  <2>3. \A c \in req'[r].ids : c \in req[r].ids
    BY <1>0 DEF Calls
  <2>4. \A w \in rows' : w \in rows
    BY <1>0
  <2>5. \A c \in Contexts : c \notin req[r].ids =>
         /\ ctx[c] = "unused" => ctx'[c] = "unused"
         /\ monitor[c].pc = "none" => monitor'[c].pc = "none"
    BY DEF Calls
  <2>. QED
    BY <2>1, <2>2, <2>3, <2>4, <2>5 DEF Alone
<1>3. \A q \in Callers : Sound(q)'
  BY <1>2, OthersSound DEF Inv, Others
<1>4. \A q \in Callers : /\ Deleting(q)' = Deleting(q)
                         /\ \A l \in Links : Inserting(q, l)' = Inserting(q, l)
  BY <1>0 DEF Calls, Deleting, Inserting
<1>5. Locks'
  <2>1. /\ \A p, q \in Callers, l \in Links : Inserting(p, l)' /\ Inserting(q, l)' => p = q
        /\ \A q \in Callers : Deleting(q)' \subseteq RowIds
        /\ \A p \in Callers : \A q \in Others(p) : Deleting(p)' \cap Deleting(q)' = {}
    BY <1>4 DEF Inv, Locks, Others
  <2>2. \A q \in Callers : \A w \in rows : ~Inserting(q, w.url)'
    BY <1>4 DEF Inv, Locks, TypeOK
  <2>. QED
    BY <1>0, <2>1, <2>2 DEF Locks, Others
<1>6. Table'
  <2>1. \A w \in rows : linkOf'[w.id] = w.url
    <3>. SUFFICES ASSUME NEW w \in rows PROVE linkOf'[w.id] = w.url
      OBVIOUS
    <3>1. w.id \in Contexts /\ w.url \in Links /\ linkOf[w.id] = w.url
      BY DEF Inv, Table, TypeOK
    <3>. QED
      BY <3>1, UsedContext DEF Inv, Kept
  <2>. QED
    BY <1>0, <2>1 DEF Inv, Table
<1>7. LiveIsTracked'
  <2>. SUFFICES ASSUME NEW c \in Contexts, Sched!Running(c)', ctx'[c] = "live"
                PROVE  \/ c \in RowIds'
                       \/ \E q \in Callers : req'[q].op = "add" /\ c \in req'[q].ids
                       \/ c \in parted'
                       \/ Disturbed(linkOf[c])'
    BY DEF LiveIsTracked, Sched!Running
  <2>1. CASE req[r].op = "add" /\ c \in req[r].ids
    BY <1>0, <2>1 DEF Calls
  <2>2. CASE Sched!Running(c) /\ ctx[c] = "live"
    <3>1. linkOf[c] \in Links /\ linkOf'[c] = linkOf[c]
      BY <2>2 DEF Inv, Wired, Sched!TypeOK, Sched!Wiring, Kept
    <3>2. Disturbed(linkOf[c]) => Disturbed(linkOf[c])'
      <4>1. PICK l \in Links : l = linkOf[c]
        BY <3>1
      <4>2. Disturbed(l) => Disturbed(l)'
        BY DisturbedKept DEF Inv
      <4>. QED
        BY <3>1, <4>1, <4>2 DEF Disturbed
    <3>3. \/ c \in RowIds
          \/ \E q \in Callers : req[q].op = "add" /\ c \in req[q].ids
          \/ c \in parted
          \/ Disturbed(linkOf[c])
      BY <2>2 DEF Inv, LiveIsTracked
    <3>. QED
      BY <1>0, <3>1, <3>2, <3>3 DEF Calls
  <2>. QED
    BY <2>1, <2>2 DEF Calls, Sched!Running
<1>. QED
  BY <1>1, <1>3, <1>5, <1>6, <1>7 DEF Inv

\* A request that lost its connection has disturbed the link of its row.
LEMMA LostDisturbs ==
  ASSUME Inv, NEW r \in Callers, tx[r] = "lost", NEW c \in req[r].ids, UNCHANGED severed,
         NEW l, linkOf'[c] = l
  PROVE  Disturbed(l)'
<1>1. c \in severed
  BY DEF Inv, Sound, Stages
<1>. QED
  BY <1>1 DEF Disturbed

LEMMA FileInv ==
  ASSUME Inv, NEW r \in Callers, File(r)
  PROVE  Inv'
<1>. DEFINE m == [req[r] EXCEPT !.pc = "start"]
<1>1. /\ m \in ReqStates /\ m.pc = "start" /\ m.op = req[r].op /\ m.user = req[r].user
      /\ m.link = req[r].link /\ m.ids = req[r].ids
  BY RequestFields DEF Inv, ReqStates
<1>2. /\ req[r].op = "add" /\ req[r].pc = "file" /\ req' = [req EXCEPT ![r] = m] /\ Sound(r)
      /\ UNCHANGED <<tables, tx, ghosts>>
  BY RequestFields DEF File, At, Goto, Inv, TypeOK
<1>. HIDE DEF m
<1>3. PICK c \in req[r].ids : Sched!FileCancel(r, req[r].link, c)
  BY DEF File
<1>4. req[r].ids = {c} /\ c \in Contexts
  BY <1>2, RequestFields DEF Sound, Adds, Inv
<1>5. PICK l \in Links : l = req[r].link
  BY <1>2 DEF Sound, Stages
<1>7. /\ ctx[c] = "unused" /\ ctx'[c] = "live" /\ linkOf'[c] = l /\ cancelFuncs'[l] = c
      /\ \A d \in Contexts : d # c => ctx'[d] = ctx[d] /\ linkOf'[d] = linkOf[d]
      /\ \A k \in Links : k # l => cancelFuncs'[k] = cancelFuncs[k]
      /\ caller'[r].pc = "start" /\ caller'[r].link = l /\ caller'[r].ctx = c
      /\ \A q \in Others(r) : caller'[q] = caller[q]
      /\ UNCHANGED monitor
  BY <1>3, <1>4, <1>5, FileEffect DEF Inv
<1>8. Wired'
  BY <1>3, <1>4, <1>5, CallsProved, ProvedStep DEF Inv
<1>9. Kept
  BY <1>2, <1>7 DEF Kept, ghosts, tables
<1>10. Calls(r, m)
  BY <1>1, <1>2, <1>4, <1>5, <1>7 DEF Calls
<1>11. /\ req'[r] = m /\ UNCHANGED <<rows, chats, RowIds, severed, tx>>
       /\ \A q \in Others(r) : req'[q] = req[q]
  BY <1>2 DEF tables, ghosts, RowIds, Others, Inv, TypeOK
<1>12. Sound(r)'
  <2>1. Stages(r)'
    BY <1>1, <1>2, <1>11 DEF Sound, Stages
  <2>2. Calling(r)'
    BY <1>1, <1>4, <1>5, <1>7, <1>11 DEF Calling
  <2>3. Adds(r)'
    <3>1. c \notin RowIds /\ (\A p \in Others(r) : c \notin req[p].ids) /\ req[r].user \in chats
      BY <1>2, <1>4 DEF Sound, Adds
    <3>. QED
      BY <1>1, <1>4, <1>5, <1>7, <1>11, <3>1 DEF Adds
  <2>4. Deletes(r)' /\ OfChats(r)'
    BY <1>1, <1>2, <1>11 DEF Deletes, OfChats
  <2>. QED
    BY <2>1, <2>2, <2>3, <2>4 DEF Sound
<1>13. tx[r] = "lost" => Disturbed(l)'
  BY <1>4, <1>7, <1>11, LostDisturbs
<1>14. tx[r] \in {"wrote", "lost"}
  BY <1>2 DEF Sound, Stages
<1>15. ASSUME NEW w \in rows PROVE Filed(w)'
  <2>1. w.url \in Links /\ Filed(w)
    BY DEF Inv, Table, TypeOK
  <2>2. CASE w.url = l
    <3>1. tx[r] # "wrote"
      BY <1>2, <1>5, <2>2 DEF Inv, Locks, Inserting
    <3>. QED
      BY <1>13, <1>14, <2>2, <3>1 DEF Filed
  <2>3. CASE w.url # l
    <3>1. Disturbed(w.url) => Disturbed(w.url)'
      BY <1>9, <2>1, DisturbedKept DEF Inv
    <3>2. ASSUME NEW q \in Callers, req[q].op = "delete"
          PROVE  req'[q] = req[q] /\ tx'[q] = tx[q]
      BY <1>2, <1>11, <3>2 DEF Others
    <3>3. parted' = parted
      BY <1>2 DEF ghosts
    <3>. QED
      BY <1>7, <2>1, <2>3, <3>1, <3>2, <3>3 DEF Filed
  <2>. QED
    BY <2>2, <2>3
<1>16. tx[r] = "lost" => Disturbed(req[r].link)'
  BY <1>1, <1>5, <1>11, <1>13 DEF Disturbed
<1>. QED
  BY <1>1, <1>2, <1>4, <1>8, <1>9, <1>10, <1>12, <1>14, <1>15, <1>16, CallsInv

LEMMA StartInv ==
  ASSUME Inv, NEW r \in Callers, StartMonitor(r)
  PROVE  Inv'
<1>1. /\ req[r].op = "add" /\ req[r].pc = "start" /\ Sound(r) /\ Sched!Start(r)
      /\ UNCHANGED <<tables, tx, ghosts>>
  BY DEF StartMonitor, At, Inv
<1>2. PICK l \in Links : l = req[r].link
  BY <1>1 DEF Sound, Stages
<1>3. PICK c \in Contexts : req[r].ids = {c} /\ caller[r].ctx = c /\ caller[r].link = l
  BY <1>1, <1>2, RequestFields DEF Sound, Calling, Inv
<1>4. Class[l] \in Sched!Classes
  BY ClassAssumption
<1>. DEFINE to == CASE Class[l] = "rejected" -> "rollback"
                    [] Class[l] = "short" -> "leaked"
                    [] OTHER -> "commit"
            m == [req[r] EXCEPT !.pc = to]
<1>5. to \in {"rollback", "leaked", "commit"} /\ (to = "rollback" => Class[l] = "rejected")
  OBVIOUS
<1>6. /\ m \in ReqStates /\ m.pc = to /\ m.op = req[r].op /\ m.user = req[r].user
      /\ m.link = req[r].link /\ m.ids = req[r].ids
  BY <1>5, RequestFields DEF Inv, ReqStates
<1>7. req' = [req EXCEPT ![r] = m]
  BY <1>2, RequestFields DEF StartMonitor, Inv, TypeOK
<1>. HIDE DEF m, to
<1>8. /\ monitor' = IF Sched!KindsOf(l) = {} THEN monitor ELSE [monitor EXCEPT ![c].pc = "select"]
      /\ monitor[c].pc = "none" /\ \A d \in Contexts : d # c => monitor'[d] = monitor[d]
      /\ caller'[r] = Sched!CallerIdle /\ \A q \in Others(r) : caller'[q] = caller[q]
      /\ UNCHANGED <<cancelFuncs, ctx, linkOf>>
  BY <1>1, <1>3, StartEffect DEF Inv
<1>9. Class[l] = "rejected" => Sched!KindsOf(l) = {}
  BY DEF Sched!KindsOf
<1>12. Wired'
  BY <1>1, CallsProved, ProvedStep DEF Inv
<1>13. Kept
  BY <1>1, <1>8 DEF Kept, ghosts, tables
<1>14. Calls(r, m)
  BY <1>1, <1>3, <1>6, <1>7, <1>8 DEF Calls
<1>15. /\ req'[r] = m /\ UNCHANGED <<rows, chats, RowIds, severed, tx, parted>>
       /\ \A q \in Others(r) : req'[q] = req[q]
  BY <1>1, <1>7 DEF tables, ghosts, RowIds, Others, Inv, TypeOK
<1>16. Sound(r)'
  <2>1. Stages(r)'
    BY <1>1, <1>5, <1>6, <1>15 DEF Sound, Stages
  <2>2. Calling(r)'
    BY <1>5, <1>6, <1>8, <1>15 DEF Calling
  <2>3. Adds(r)'
    <3>1. /\ c \notin RowIds /\ (\A p \in Others(r) : c \notin req[p].ids) /\ req[r].user \in chats
          /\ linkOf[c] = l /\ (tx[r] = "wrote" => cancelFuncs[l] = c \/ Disturbed(l))
      BY <1>1, <1>2, <1>3 DEF Sound, Adds
    <3>2. to = "rollback" => monitor'[c].pc = "none"
      BY <1>5, <1>8, <1>9
    <3>3. Disturbed(l) => Disturbed(l)'
      BY <1>8, <1>15 DEF Disturbed
    <3>. QED
      BY <1>2, <1>3, <1>5, <1>6, <1>8, <1>15, <3>1, <3>2, <3>3 DEF Adds
  <2>4. Deletes(r)' /\ OfChats(r)'
    BY <1>1, <1>6, <1>15 DEF Deletes, OfChats
  <2>. QED
    BY <2>1, <2>2, <2>3, <2>4 DEF Sound
<1>17. tx[r] \in {"wrote", "lost"}
  BY <1>1 DEF Sound, Stages
<1>18. tx[r] = "lost" => Disturbed(req[r].link)'
  <2>1. linkOf'[c] = l
    BY <1>1, <1>2, <1>3, <1>8 DEF Sound, Adds
  <2>2. tx[r] = "lost" => Disturbed(l)'
    BY <1>3, <1>15, <2>1, LostDisturbs
  <2>. QED
    BY <1>2, <1>6, <1>15, <2>2 DEF Disturbed
<1>19. ASSUME NEW w \in rows PROVE Filed(w)'
  <2>1. Filed(w)
    BY DEF Inv, Table
  <2>2. \A q \in Callers : req[q].op = "delete" => req'[q] = req[q]
    BY <1>1, <1>15 DEF Others
  <2>. QED
    BY <1>8, <1>15, <2>1, <2>2 DEF Filed, Disturbed
<1>. QED
  BY <1>1, <1>3, <1>6, <1>12, <1>13, <1>14, <1>16, <1>17, <1>18, <1>19, CallsInv

\* What a delete request relies on when it calls the scheduler: each of its
\* rows is filed, unless the chat was parted from it or the link disturbed.
LEMMA OwnFiled ==
  ASSUME Inv, NEW r \in Callers, req[r].op = "delete", req[r].pc = "unfile",
         NEW c \in req[r].ids
  PROVE  \/ cancelFuncs[req[r].link] = c
         \/ c \in parted
         \/ Disturbed(req[r].link)
<1>1. Sound(r) /\ linkOf[c] = req[r].link /\ tx[r] \in {"wrote", "lost"}
  BY DEF Inv, Sound, Deletes, Stages
<1>2. CASE tx[r] = "lost"
  BY <1>1, <1>2 DEF Sound, Stages, Disturbed
<1>3. CASE tx[r] = "wrote"
  <2>1. PICK w \in rows : w.id = c
    BY <1>3 DEF Inv, Locks, Deleting, RowIds
  <2>2. w.url = req[r].link /\ Filed(w)
    BY <1>1, <2>1 DEF Inv, Table
  <2>3. ASSUME NEW q \in Callers, req[q].op = "delete", req[q].pc \in {"remove", "commit"},
               tx[q] = "wrote", c \in req[q].ids
        PROVE  FALSE
    <3>1. q # r /\ q \in Others(r)
      BY <2>3 DEF Others
    <3>2. c \in Deleting(r) /\ c \in Deleting(q)
      BY <1>3, <2>3 DEF Deleting
    <3>. QED
      BY <3>1, <3>2 DEF Inv, Locks
  <2>. QED
    BY <2>1, <2>2, <2>3 DEF Filed
<1>. QED
  BY <1>1, <1>2, <1>3

LEMMA UnfileInv ==
  ASSUME Inv, NEW r \in Callers, Unfile(r)
  PROVE  Inv'
<1>1. /\ req[r].op = "delete" /\ req[r].pc = "unfile" /\ Sound(r)
      /\ UNCHANGED <<tables, tx, ghosts>>
  BY DEF Unfile, At, Inv
<1>2. PICK l \in Links : l = req[r].link
  BY <1>1 DEF Sound, Stages
<1>3. PICK to \in {"commit", "remove"} :
        /\ req' = [req EXCEPT ![r].pc = to]
        /\ \/ to = "commit" /\ cancelFuncs[l] = None /\ UNCHANGED sched
           \/ to = "remove" /\ Sched!Cancel(r, l)
  BY <1>2 DEF Unfile, Goto
<1>. DEFINE n == [req[r] EXCEPT !.pc = to]
<1>4. /\ n \in ReqStates /\ n.pc = to /\ n.op = req[r].op /\ n.user = req[r].user
      /\ n.link = req[r].link /\ n.ids = req[r].ids
  BY RequestFields DEF Inv, ReqStates
<1>5. req' = [req EXCEPT ![r] = n]
  BY <1>3, RequestFields DEF Inv, TypeOK
<1>. HIDE DEF n
<1>6. /\ UNCHANGED <<cancelFuncs, linkOf, monitor>>
      /\ \A q \in Others(r) : caller'[q] = caller[q]
      /\ \A c \in Contexts : ctx'[c] = ctx[c] \/ (ctx'[c] = "done" /\ ctx[c] # "unused")
      /\ to = "commit" => caller'[r] = Sched!CallerIdle /\ cancelFuncs[l] = None
      /\ to = "remove" => /\ caller'[r].pc = "drop" /\ caller'[r].link = l
                          /\ \A c \in Contexts : cancelFuncs[l] = c => ctx'[c] = "done"
  <2>1. CASE to = "commit"
    BY <1>1, <1>3, <2>1 DEF sched, Sound, Calling
  <2>2. CASE to = "remove"
    <3>1. Sched!Cancel(r, l)
      BY <1>3, <2>2
    <3>. QED
      BY <2>2, <3>1, CancelEffect DEF Inv
  <2>. QED
    BY <2>1, <2>2
<1>7. Wired'
  <2>1. CASE UNCHANGED sched
    BY <2>1, WiredSame DEF Inv
  <2>2. CASE Sched!Cancel(r, l)
    BY <2>2, CallsProved, ProvedStep DEF Inv
  <2>. QED
    BY <1>3, <2>1, <2>2
<1>8. Kept
  BY <1>1, <1>6 DEF Kept, ghosts, tables
<1>9. Calls(r, n)
  <2>1. \A c \in Contexts : ctx'[c] = "live" => ctx[c] = "live"
    BY <1>6
  <2>. QED
    BY <1>1, <1>4, <1>5, <1>6, <2>1 DEF Calls
<1>10. /\ req'[r] = n /\ UNCHANGED <<rows, chats, RowIds, severed, tx, parted>>
       /\ \A q \in Others(r) : req'[q] = req[q]
  BY <1>1, <1>5 DEF tables, ghosts, RowIds, Others, Inv, TypeOK
<1>11. Disturbed(l) => Disturbed(l)'
  BY <1>6, <1>10 DEF Disturbed
<1>12. Sound(r)'
  <2>1. Stages(r)'
    BY <1>1, <1>4, <1>10 DEF Sound, Stages
  <2>2. Calling(r)'
    BY <1>2, <1>4, <1>6, <1>10 DEF Calling
  <2>3. Deletes(r)'
    <3>1. ASSUME NEW c \in req[r].ids
          PROVE  /\ linkOf[c] = l
                 /\ ctx'[c] # "live" \/ c \in parted \/ Disturbed(l)'
                 /\ \A w \in rows : w.id = c => w.chat = req[r].user
      <4>1. cancelFuncs[l] = c \/ c \in parted \/ Disturbed(l)
        BY <1>1, <1>2, OwnFiled
      <4>2. c \in Contexts /\ cancelFuncs[l] = c => ctx'[c] # "live"
        BY <1>6, RequestFields, NoneAssumption DEF Inv
      <4>3. linkOf[c] = l /\ \A w \in rows : w.id = c => w.chat = req[r].user
        BY <1>1, <1>2 DEF Sound, Deletes
      <4>4. c \in Contexts
        BY RequestFields DEF Inv
      <4>. QED
        BY <1>11, <4>1, <4>2, <4>3, <4>4
    <3>2. req[r].ids # {}
      BY <1>1 DEF Sound, Deletes
    <3>. QED
      BY <1>1, <1>2, <1>4, <1>6, <1>10, <3>1, <3>2 DEF Deletes
  <2>4. Adds(r)' /\ OfChats(r)'
    BY <1>1, <1>4, <1>10 DEF Adds, OfChats
  <2>. QED
    BY <2>1, <2>2, <2>3, <2>4 DEF Sound
<1>13. tx[r] \in {"wrote", "lost"} /\ req[r].ids # {}
  BY <1>1 DEF Sound, Stages, Deletes
<1>14. tx[r] = "lost" => Disturbed(req[r].link)'
  <2>1. PICK c \in req[r].ids : linkOf'[c] = l
    BY <1>1, <1>2, <1>6, <1>13 DEF Sound, Deletes
  <2>2. tx[r] = "lost" => Disturbed(l)'
    BY <1>10, <2>1, LostDisturbs
  <2>. QED
    BY <1>2, <1>4, <1>10, <2>2 DEF Disturbed
<1>15. ASSUME NEW w \in rows PROVE Filed(w)'
  <2>1. Filed(w)
    BY DEF Inv, Table
  <2>2. \A q \in Callers : req[q].pc # "unfile" => req'[q] = req[q]
    BY <1>1, <1>10 DEF Others
  <2>3. cancelFuncs'[w.url] = cancelFuncs[w.url] /\ (Disturbed(w.url) => Disturbed(w.url)')
    BY <1>6, <1>10 DEF Disturbed
  <2>. QED
    BY <1>10, <2>1, <2>2, <2>3 DEF Filed
<1>. QED
  BY <1>1, <1>4, <1>7, <1>8, <1>9, <1>12, <1>13, <1>14, <1>15, CallsInv

LEMMA RemoveInv ==
  ASSUME Inv, NEW r \in Callers, Remove(r)
  PROVE  Inv'
<1>1. /\ req[r].op = "delete" /\ req[r].pc = "remove" /\ Sound(r)
      /\ UNCHANGED <<tables, tx, ghosts>>
      /\ Sched!DropCancel(r) \/ Sched!Forget(r)
  BY DEF Remove, At, Inv
<1>2. PICK l \in Links : l = req[r].link /\ l = caller[r].link
  BY <1>1 DEF Sound, Stages, Calling
<1>3. PICK to \in {"commit", "remove"} :
        /\ req' = [req EXCEPT ![r].pc = to]
        /\ to = IF caller'[r].pc = "idle" THEN "commit" ELSE "remove"
  BY DEF Remove, Goto
<1>. DEFINE n == [req[r] EXCEPT !.pc = to]
<1>4. /\ n \in ReqStates /\ n.pc = to /\ n.op = req[r].op /\ n.user = req[r].user
      /\ n.link = req[r].link /\ n.ids = req[r].ids
  BY RequestFields DEF Inv, ReqStates
<1>5. req' = [req EXCEPT ![r] = n]
  BY <1>3, RequestFields DEF Inv, TypeOK
<1>. HIDE DEF n
<1>6. /\ UNCHANGED <<ctx, linkOf, monitor>>
      /\ \A q \in Others(r) : caller'[q] = caller[q]
      /\ \A k \in Links : k # l => cancelFuncs'[k] = cancelFuncs[k]
      /\ IF to = "commit" THEN caller'[r] = Sched!CallerIdle
           ELSE caller'[r].pc \in {"drop"} \cup Sched!Kinds /\ caller'[r].link = l
  BY <1>1, <1>2, <1>3, DropEffect DEF Inv
<1>7. Wired'
  BY <1>1, CallsProved, ProvedStep DEF Inv
<1>8. Kept
  BY <1>1, <1>6 DEF Kept, ghosts, tables
<1>9. Calls(r, n)
  BY <1>1, <1>2, <1>4, <1>5, <1>6 DEF Calls
<1>10. /\ req'[r] = n /\ UNCHANGED <<rows, chats, RowIds, severed, tx, parted>>
       /\ \A q \in Others(r) : req'[q] = req[q]
  BY <1>1, <1>5 DEF tables, ghosts, RowIds, Others, Inv, TypeOK
<1>11. \A k \in Links : Disturbed(k) => Disturbed(k)'
  BY <1>6, <1>10 DEF Disturbed
<1>12. Sound(r)'
  <2>1. Stages(r)'
    BY <1>1, <1>4, <1>10 DEF Sound, Stages
  <2>2. Calling(r)'
    BY <1>2, <1>4, <1>6, <1>10 DEF Calling
  <2>3. Deletes(r)'
    <3>1. \A c \in req[r].ids :
             /\ linkOf[c] = l
             /\ ctx[c] # "live" \/ c \in parted \/ Disturbed(l)
             /\ \A w \in rows : w.id = c => w.chat = req[r].user
      BY <1>1, <1>2 DEF Sound, Deletes
    <3>2. req[r].ids # {}
      BY <1>1 DEF Sound, Deletes
    <3>. QED
      BY <1>1, <1>2, <1>4, <1>6, <1>10, <1>11, <3>1, <3>2 DEF Deletes
  <2>4. Adds(r)' /\ OfChats(r)'
    BY <1>1, <1>4, <1>10 DEF Adds, OfChats
  <2>. QED
    BY <2>1, <2>2, <2>3, <2>4 DEF Sound
<1>13. tx[r] \in {"wrote", "lost"} /\ req[r].ids # {}
  BY <1>1 DEF Sound, Stages, Deletes
<1>14. tx[r] = "lost" => Disturbed(l)'
  <2>1. PICK c \in req[r].ids : linkOf'[c] = l
    BY <1>1, <1>2, <1>6, <1>13 DEF Sound, Deletes
  <2>. QED
    BY <1>10, <2>1, LostDisturbs
<1>15. tx[r] = "lost" => Disturbed(req[r].link)'
  BY <1>2, <1>4, <1>10, <1>14 DEF Disturbed
<1>16. ASSUME NEW w \in rows PROVE Filed(w)'
  <2>1. Filed(w) /\ w.url \in Links
    BY DEF Inv, Table, TypeOK
  <2>2. \A q \in Callers : (req[q].pc \in {"remove", "commit"} /\ req[q].op = "delete") =>
           /\ req'[q].pc \in {"remove", "commit"} /\ req'[q].op = "delete"
           /\ req'[q].ids = req[q].ids /\ tx'[q] = tx[q]
    BY <1>1, <1>4, <1>10 DEF Others
  <2>3. CASE w.url = l
    <3>1. CASE tx[r] = "lost"
      BY <1>14, <2>3, <3>1 DEF Filed
    <3>2. CASE tx[r] = "wrote"
      <4>1. PICK c \in req[r].ids : linkOf[c] = l
        BY <1>1, <1>2, <1>13 DEF Sound, Deletes
      <4>2. PICK v \in rows : v.id = c
        BY <1>1, <3>2, <4>1 DEF Inv, Locks, Deleting, RowIds
      <4>3. v = w
        BY <2>3, <4>1, <4>2 DEF Inv, Table
      <4>. QED
        BY <1>1, <2>2, <3>2, <4>2, <4>3 DEF Filed
    <3>. QED
      BY <1>13, <3>1, <3>2
  <2>4. CASE w.url # l
    BY <1>6, <1>10, <1>11, <2>1, <2>2, <2>4 DEF Filed
  <2>. QED
    BY <2>3, <2>4
<1>. QED
  BY <1>1, <1>4, <1>7, <1>8, <1>9, <1>12, <1>13, <1>15, <1>16, CallsInv

-----------------------------------------------------------------------------
(* Commits. *)

LEMMA EndFacts ==
  ASSUME TypeOK, NEW r \in Callers, End(r)
  PROVE  /\ req'[r] = ReqIdle /\ tx'[r] = "none"
         /\ \A q \in Callers : q # r => req'[q] = req[q] /\ tx'[q] = tx[q]
         /\ req' \in [Callers -> ReqStates]
         /\ tx' \in [Callers -> {"none", "open", "wrote", "lost"}]
<1>1. ReqIdle \in ReqStates
  BY DEF ReqIdle, ReqStates
<1>. QED
  BY <1>1 DEF End, TypeOK

\* A request that has ended, with its goroutine out of the scheduler.
LEMMA EndedSound ==
  ASSUME NEW r, req'[r] = ReqIdle, tx'[r] = "none", caller'[r] = Sched!CallerIdle
  PROVE  Sound(r)'
<1>1. Stages(r)' /\ Calling(r)'
  BY DEF Stages, Calling, ReqIdle
<1>2. Adds(r)' /\ Deletes(r)' /\ OfChats(r)'
  BY NoneAssumption DEF Adds, Deletes, OfChats, ReqIdle
<1>. QED
  BY <1>1, <1>2 DEF Sound

\* What the transaction of a committing request did: the rows it made or took away.
LEMMA AppliedRows ==
  ASSUME Inv, NEW r \in Callers, req[r].pc = "commit", tx[r] = "wrote", Applied(r)
  PROVE  /\ req[r].op = "add" =>
              \E c \in Contexts, u \in Users, l \in Links :
                /\ req[r].ids = {c} /\ req[r].user = u /\ req[r].link = l
                /\ rows' = rows \cup {[id |-> c, chat |-> u, url |-> l]}
         /\ req[r].op # "add" => /\ rows' \subseteq rows
                                 /\ \A w \in rows : w.id \notin req[r].ids => w \in rows'
         /\ req[r].op \in {"delete", "deleteChat"} => \A w \in rows' : w.id \notin req[r].ids
         /\ chats \subseteq chats' /\ chats' \subseteq Users
         /\ parted \subseteq parted' /\ parted' \subseteq Contexts
<1>1. Sound(r) /\ req[r].op \in Ops /\ req[r].user \in Users /\ req[r].ids \subseteq Contexts
  BY RequestFields DEF Inv, Sound, Stages
<1>2. ASSUME req[r].op = "add"
      PROVE  \E c \in Contexts, u \in Users, l \in Links :
                /\ req[r].ids = {c} /\ req[r].user = u /\ req[r].link = l
                /\ rows' = rows \cup {[id |-> c, chat |-> u, url |-> l]}
  <2>1. PICK c \in Contexts : req[r].ids = {c}
    BY <1>1, <1>2 DEF Sound, Adds
  <2>2. req[r].link \in Links
    BY <1>1, <1>2 DEF Sound, Stages
  <2>3. rows' = rows \cup {[id |-> c, chat |-> req[r].user, url |-> req[r].link]}
    BY <1>2, <2>1 DEF Applied
  <2>. QED
    BY <1>1, <2>1, <2>2, <2>3
<1>3. req[r].op # "add" => rows' = {w \in rows : w.id \notin req[r].ids}
  BY DEF Applied
<1>4. /\ chats \subseteq chats' /\ chats' \subseteq Users
      /\ parted \subseteq parted' /\ parted' \subseteq Contexts
  BY <1>1 DEF Applied, Inv, TypeOK
<1>. QED
  BY <1>2, <1>3, <1>4

LEMMA AppliedInv ==
  ASSUME Inv, NEW r \in Callers, req[r].pc = "commit", tx[r] = "wrote", Applied(r), End(r),
         UNCHANGED sched, severed \subseteq severed', severed' \subseteq Contexts
  PROVE  Inv'
<1>0. Sound(r) /\ req[r].op \in Ops /\ req[r].ids \subseteq Contexts
  BY RequestFields DEF Inv, Sound, Stages
<1>1. UNCHANGED <<cancelFuncs, ctx, linkOf, monitor, caller>>
  BY DEF sched
<1>2. Wired' /\ Sched!TypeOK'
  <2>1. Wired'
    BY WiredSame DEF Inv
  <2>. QED
    BY <2>1 DEF Wired
<1>3. /\ req'[r] = ReqIdle /\ tx'[r] = "none"
      /\ \A q \in Callers : q # r => req'[q] = req[q] /\ tx'[q] = tx[q]
      /\ req' \in [Callers -> ReqStates]
      /\ tx' \in [Callers -> {"none", "open", "wrote", "lost"}]
  BY EndFacts DEF Inv
<1>4. TypeOK'
  <2>1. rows' \subseteq [id : Contexts, chat : Users, url : Links]
    <3>1. rows \subseteq [id : Contexts, chat : Users, url : Links]
      BY DEF Inv, TypeOK
    <3>2. CASE req[r].op = "add"
      <4>1. PICK c \in Contexts, u \in Users, l \in Links :
              rows' = rows \cup {[id |-> c, chat |-> u, url |-> l]}
        BY <3>2, AppliedRows
      <4>. QED
        BY <3>1, <4>1
    <3>3. CASE req[r].op # "add"
      BY <3>1, <3>3, AppliedRows
    <3>. QED
      BY <3>2, <3>3
  <2>. QED
    BY <1>2, <1>3, <2>1, AppliedRows DEF TypeOK
<1>5. Kept
  BY <1>1, AppliedRows DEF Kept
<1>6. Alone(r)
  <2>1. \A w \in rows' : w \in rows \/ (req[r].op = "add" /\ w.id \in req[r].ids)
    <3>1. CASE req[r].op = "add"
      <4>1. PICK c \in Contexts, u \in Users, l \in Links :
              req[r].ids = {c} /\ rows' = rows \cup {[id |-> c, chat |-> u, url |-> l]}
        BY <3>1, AppliedRows
      <4>. QED
        BY <3>1, <4>1
    <3>2. CASE req[r].op # "add"
      BY <3>2, AppliedRows
    <3>. QED
      BY <3>1, <3>2
  <2>2. \A q \in Others(r) : req'[q] = req[q] /\ tx'[q] = tx[q] /\ caller'[q] = caller[q]
    BY <1>1, <1>3 DEF Others
  <2>3. req'[r].ids = {}
    BY <1>3 DEF ReqIdle
  <2>. QED
    BY <1>1, <1>5, <2>1, <2>2, <2>3 DEF Alone
<1>7. \A q \in Callers : Sound(q)'
  <2>1. Sound(r)'
    <3>1. caller'[r] = Sched!CallerIdle
      BY <1>0, <1>1 DEF Sound, Calling
    <3>. QED
      BY <1>3, <3>1, EndedSound
  <2>. QED
    BY <1>6, <2>1, OthersSound DEF Inv, Others
<1>8. \A l \in Links : Disturbed(l) => Disturbed(l)'
  BY <1>5, DisturbedKept DEF Inv
<1>9. /\ \A q \in Callers : q # r => /\ Deleting(q)' = Deleting(q)
                                     /\ \A l \in Links : Inserting(q, l)' = Inserting(q, l)
      /\ Deleting(r)' = {} /\ \A l \in Links : ~Inserting(r, l)'
  BY <1>3 DEF Deleting, Inserting
\* The rows that stay, and the locks on them.
<1>10. ASSUME NEW w \in rows, NEW q \in Callers, q # r, w.id \in Deleting(q)
       PROVE  w \in rows'
  <2>1. CASE req[r].op = "add"
    BY <2>1, AppliedRows
  <2>2. CASE req[r].op = "register"
    BY <1>0, <2>2, AppliedRows DEF Sound, OfChats
  <2>3. CASE req[r].op \in {"delete", "deleteChat"}
    <3>1. Deleting(r) = req[r].ids /\ r \in Others(q)
      BY <1>10, <2>3 DEF Deleting, Others
    <3>2. w.id \notin req[r].ids
      BY <1>10, <3>1 DEF Inv, Locks
    <3>. QED
      BY <2>3, <3>2, AppliedRows
  <2>. QED
    BY <1>0, <2>1, <2>2, <2>3 DEF Ops
<1>11. Locks'
  <2>1. \A p, q \in Callers, l \in Links : Inserting(p, l)' /\ Inserting(q, l)' => p = q
    BY <1>9 DEF Inv, Locks
  <2>2. \A q \in Callers : \A w \in rows' : ~Inserting(q, w.url)'
    <3>. SUFFICES ASSUME NEW q \in Callers, NEW w \in rows', Inserting(q, w.url)' PROVE FALSE
      OBVIOUS
    <3>1. w.url \in Links
      BY <1>4 DEF TypeOK
    <3>2. q # r /\ Inserting(q, w.url)
      BY <1>9, <3>1
    <3>3. CASE w \in rows
      BY <3>2, <3>3 DEF Inv, Locks
    <3>4. CASE w \notin rows
      <4>1. req[r].op = "add"
        BY <3>4, AppliedRows
      <4>2. PICK c \in Contexts, u \in Users, l \in Links :
              req[r].link = l /\ rows' = rows \cup {[id |-> c, chat |-> u, url |-> l]}
        BY <4>1, AppliedRows
      <4>3. Inserting(r, w.url)
        BY <3>4, <4>1, <4>2 DEF Inserting
      <4>. QED
        BY <3>1, <3>2, <4>3 DEF Inv, Locks
    <3>. QED
      BY <3>3, <3>4
  <2>3. \A q \in Callers : Deleting(q)' \subseteq RowIds'
    <3>. SUFFICES ASSUME NEW q \in Callers, NEW c \in Deleting(q)' PROVE c \in RowIds'
      OBVIOUS
    <3>1. q # r /\ c \in Deleting(q)
      BY <1>9
    <3>2. PICK w \in rows : w.id = c
      BY <3>1 DEF Inv, Locks, RowIds
    <3>. QED
      BY <1>10, <3>1, <3>2 DEF RowIds
  <2>4. \A p \in Callers : \A q \in Others(p) : Deleting(p)' \cap Deleting(q)' = {}
    BY <1>9 DEF Inv, Locks, Others
  <2>. QED
    BY <2>1, <2>2, <2>3, <2>4 DEF Locks, Others
<1>12. Table'
  <2>1. ASSUME NEW w \in rows, w \in rows' PROVE linkOf'[w.id] = w.url /\ Filed(w)'
    <3>1. linkOf[w.id] = w.url /\ Filed(w) /\ w.url \in Links
      BY DEF Inv, Table, TypeOK
    <3>2. req[r].op = "delete" => w.id \notin req[r].ids
      BY <2>1, AppliedRows
    <3>3. parted \subseteq parted'
      BY AppliedRows
    <3>4. Filed(w)'
      BY <1>1, <1>3, <1>8, <3>1, <3>2, <3>3 DEF Filed
    <3>. QED
      BY <1>1, <3>1, <3>4
  <2>2. CASE req[r].op # "add"
    BY <2>1, <2>2, AppliedRows DEF Inv, Table
  <2>3. CASE req[r].op = "add"
    <3>1. PICK c \in Contexts, u \in Users, l \in Links :
            /\ req[r].ids = {c} /\ req[r].link = l
            /\ rows' = rows \cup {[id |-> c, chat |-> u, url |-> l]}
      BY <2>3, AppliedRows
    <3>. DEFINE n == [id |-> c, chat |-> u, url |-> l]
    <3>2. linkOf[c] = l /\ (cancelFuncs[l] = c \/ Disturbed(l))
      BY <1>0, <2>3, <3>1 DEF Sound, Adds
    <3>3. n.id = c /\ n.url = l /\ rows' = rows \cup {n}
      BY <3>1
    <3>. HIDE DEF n
    <3>4. linkOf'[n.id] = n.url /\ Filed(n)'
      BY <1>1, <1>8, <3>2, <3>3 DEF Filed
    <3>5. \A w \in rows : w.url # l
      BY <2>3, <3>1 DEF Inv, Locks, Inserting
    <3>6. \A v, w \in rows' : v.url = w.url => v = w
      BY <3>3, <3>5 DEF Inv, Table
    <3>. QED
      BY <2>1, <3>3, <3>4, <3>6 DEF Table
  <2>. QED
    BY <2>2, <2>3
<1>13. LiveIsTracked'
  <2>. SUFFICES ASSUME NEW c \in Contexts, Sched!Running(c), ctx[c] = "live"
                PROVE  \/ c \in RowIds'
                       \/ \E q \in Callers : req'[q].op = "add" /\ c \in req'[q].ids
                       \/ c \in parted'
                       \/ Disturbed(linkOf[c])'
    BY <1>1 DEF LiveIsTracked, Sched!Running
  <2>1. linkOf[c] \in Links
    BY DEF Inv, Wired, Sched!TypeOK, Sched!Wiring
  <2>2. Disturbed(linkOf[c]) => Disturbed(linkOf[c])'
    <3>1. PICK l \in Links : l = linkOf[c]
      BY <2>1
    <3>2. Disturbed(l) => Disturbed(l)'
      BY <1>8
    <3>. QED
      BY <1>1, <3>1, <3>2 DEF Disturbed
  <2>3. CASE c \in RowIds
    <3>1. PICK w \in rows : w.id = c
      BY <2>3 DEF RowIds
    <3>2. CASE req[r].op = "delete" /\ c \in req[r].ids
      <4>1. linkOf[c] = req[r].link /\ (c \in parted \/ Disturbed(req[r].link))
        BY <1>0, <3>2 DEF Sound, Deletes
      <4>. QED
        BY <2>2, <4>1, AppliedRows
    <3>3. CASE req[r].op = "deleteChat" /\ c \in req[r].ids
      BY <3>3 DEF Applied
    <3>4. CASE ~(req[r].op \in {"delete", "deleteChat"} /\ c \in req[r].ids)
      <4>1. req[r].op = "register" => c \notin req[r].ids
        BY <1>0 DEF Sound, OfChats
      <4>2. w \in rows'
        BY <1>0, <3>1, <3>4, <4>1, AppliedRows DEF Ops
      <4>. QED
        BY <3>1, <4>2 DEF RowIds
    <3>. QED
      BY <3>2, <3>3, <3>4
  <2>4. CASE \E q \in Callers : req[q].op = "add" /\ c \in req[q].ids
    <3>1. PICK q \in Callers : req[q].op = "add" /\ c \in req[q].ids
      BY <2>4
    <3>2. CASE q = r
      <4>1. PICK d \in Contexts, u \in Users, l \in Links :
              req[r].ids = {d} /\ rows' = rows \cup {[id |-> d, chat |-> u, url |-> l]}
        BY <3>1, <3>2, AppliedRows
      <4>. QED
        BY <3>1, <3>2, <4>1 DEF RowIds
    <3>3. CASE q # r
      BY <1>3, <3>1, <3>3
    <3>. QED
      BY <3>2, <3>3
  <2>. QED
    BY <2>2, <2>3, <2>4, AppliedRows DEF Inv, LiveIsTracked
<1>. QED
  BY <1>2, <1>4, <1>7, <1>11, <1>12, <1>13 DEF Inv

LEMMA FinishInv ==
  ASSUME Inv, NEW r \in Callers, Finish(r)
  PROVE  Inv'
<1>1. CASE Rollback(r)
  BY <1>1, RollbackInv
<1>2. CASE Commit(r)
  <2>1. severed' \subseteq Contexts
    BY <1>2 DEF Commit, Inv, TypeOK
  <2>. QED
    BY <1>2, <2>1, AppliedInv DEF Commit
<1>3. CASE CommitFails(r)
  <2>0. req[r].ids \subseteq Contexts /\ req[r].pc = "commit" /\ Sound(r)
    BY <1>3, RequestFields DEF CommitFails, Inv
  <2>1. severed \subseteq severed' /\ severed' \subseteq Contexts /\ req[r].ids \subseteq severed'
    BY <1>3, <2>0 DEF CommitFails, Inv, TypeOK
  <2>2. CASE tx[r] = "wrote" /\ Applied(r)
    BY <1>3, <2>0, <2>1, <2>2, AppliedInv DEF CommitFails
  <2>3. CASE UNCHANGED <<tables, parted>>
    <3>1. Becomes(r, ReqIdle, "none")
      BY <1>3, <2>3 DEF CommitFails, End, Becomes
    <3>2. ReqIdle \in ReqStates /\ ReqIdle.ids = {}
      BY DEF ReqIdle, ReqStates
    <3>3. req'[r] = ReqIdle /\ tx'[r] = "none" /\ caller'[r] = caller[r]
      BY <3>1, BecomesFacts, TypePlaced DEF Inv
    <3>4. Sound(r)'
      BY <2>0, <3>3, EndedSound DEF Sound, Calling
    <3>. QED
      BY <2>1, <3>1, <3>2, <3>4, BecomesInv DEF MayHold
  <2>. QED
    BY <1>3, <2>2, <2>3 DEF CommitFails
<1>. QED
  BY <1>1, <1>2, <1>3 DEF Finish

-----------------------------------------------------------------------------
(* Monitors, the restart, and the invariant. *)

\* What a step of a monitor or of a timer leaves as it was.
Quiet ==
    /\ UNCHANGED <<tables, req, tx, ghosts, caller, cancelFuncs, linkOf>>
    /\ \A c \in Contexts : /\ ctx[c] = "unused" <=> ctx'[c] = "unused"
                           /\ ctx'[c] = "live" => ctx[c] = "live"
                           /\ monitor[c].pc = "none" => monitor'[c].pc = "none"
                           /\ monitor'[c].pc \notin {"none", "stopped"} =>
                                monitor[c].pc \notin {"none", "stopped"}

LEMMA SchedulerStepQuiet ==
  ASSUME Sched!TypeOK, SchedulerStep
  PROVE  Quiet
<1>. USE DEF Sched!shared, Sched!history
<1>0. /\ monitor \in [Contexts -> Sched!MonitorStates]
      /\ ctx \in [Contexts -> {"unused", "live", "done"}]
      /\ UNCHANGED <<tables, req, tx, ghosts>>
  BY DEF Sched!TypeOK, SchedulerStep
<1>1. ASSUME NEW c \in Contexts, Sched!MonitorStep(c) PROVE Quiet
  <2>1. UNCHANGED <<cancelFuncs, ctx, linkOf, caller>>
    BY <1>1 DEF Sched!MonitorStep, Sched!Tick, Sched!Return, Sched!FetchOk, Sched!FetchFail,
                Sched!Load, Sched!Store, Sched!Put, Sched!Send
  <2>2. /\ monitor[c].pc \in {"select", "fetch", "load", "store", "put", "send"}
        /\ \A d \in Contexts : d # c => monitor'[d] = monitor[d]
    BY <1>0, <1>1 DEF Sched!MonitorStep, Sched!Tick, Sched!Return, Sched!FetchOk, Sched!FetchFail,
                Sched!Load, Sched!Store, Sched!Put, Sched!Send
  <2>. QED
    BY <1>0, <2>1, <2>2 DEF Quiet
<1>2. ASSUME NEW c \in Contexts, Sched!Expire(c) PROVE Quiet
  BY <1>0, <1>2 DEF Quiet, Sched!Expire, Sched!Cancelled
<1>3. ASSUME NEW l \in Links, NEW k \in Sched!Kinds, NEW i \in Items, Sched!Publish(l, k, i)
      PROVE  Quiet
  BY <1>0, <1>3 DEF Quiet, Sched!Publish
<1>. QED
  BY <1>1, <1>2, <1>3 DEF SchedulerStep

LEMMA QuietInv ==
  ASSUME Inv, Quiet, Wired'
  PROVE  Inv'
<1>1. UNCHANGED <<rows, chats, RowIds, req, tx, parted, severed, caller, cancelFuncs, linkOf>>
  BY DEF Quiet, tables, ghosts, RowIds
<1>2. TypeOK'
  BY <1>1 DEF Inv, TypeOK, Wired
<1>3. Kept
  <2>1. \A c \in Contexts : ctx'[c] \in {"unused", "live", "done"}
    BY <1>2 DEF TypeOK, Sched!TypeOK
  <2>. QED
    BY <1>1, <2>1 DEF Quiet, Kept
<1>4. ASSUME NEW q \in Callers PROVE Sound(q)'
  <2>1. Sound(q) /\ req[q].ids \subseteq Contexts
    BY RequestFields DEF Inv
  <2>2. req[q].op = "add" => \A c \in req[q].ids :
           c \notin RowIds /\ \A p \in Others(q) : c \notin req[p].ids
    BY <2>1 DEF Sound, Adds
  <2>3. Spares(q)
    BY <1>1, <2>1, <2>2 DEF Quiet, Spares
  <2>. QED
    BY <1>3, <2>1, <2>3, SoundKept DEF Inv
<1>5. Locks'
  BY <1>1 DEF Inv, Locks, Inserting, Deleting, Others, RowIds
<1>6. Table'
  BY <1>1 DEF Inv, Table, Filed, Disturbed
<1>7. LiveIsTracked'
  BY <1>1 DEF Inv, LiveIsTracked, Sched!Running, Disturbed, Quiet
<1>. QED
  BY <1>2, <1>4, <1>5, <1>6, <1>7 DEF Inv

\* The scheduler of a new process: the contexts of the old one are spent.
LEMMA RestartWired ==
  ASSUME Wired, Restart
  PROVE  Wired'
<1>0. Sched!TypeOK /\ Sched!Wiring /\ Sched!Handling
  BY DEF Wired
<1>1. /\ cancelFuncs' = [l \in Links |-> None]
      /\ ctx' = [c \in Contexts |-> IF Unspent(c) THEN "unused" ELSE "done"]
      /\ monitor' = [c \in Contexts |-> IF Unspent(c) THEN monitor[c]
                                          ELSE [Sched!MonitorNew EXCEPT !.pc = "stopped"]]
      /\ latest' = [k \in Sched!Kinds |-> [l \in Links |-> None]]
      /\ buffered' = [k \in Sched!Kinds |-> 0]
      /\ caller' = [r \in Callers |-> Sched!CallerIdle]
      /\ UNCHANGED <<linkOf, feed, told, lost, handed, late>>
  BY DEF Restart
<1>2. Sched!TypeOK'
  <2>1. /\ cancelFuncs' \in [Links -> Contexts \cup {None}]
        /\ ctx' \in [Contexts -> {"unused", "live", "done"}]
        /\ latest' \in [Sched!Kinds -> [Links -> Items \cup {None}]]
    BY <1>1
  <2>2. buffered' \in [Sched!Kinds -> 0..ChanCap]
    BY <1>1, ChanCapAssumption
  <2>3. monitor' \in [Contexts -> Sched!MonitorStates]
    <3>1. [Sched!MonitorNew EXCEPT !.pc = "stopped"] \in Sched!MonitorStates
      BY DEF Sched!MonitorNew, Sched!MonitorStates
    <3>2. monitor \in [Contexts -> Sched!MonitorStates]
      BY <1>0 DEF Sched!TypeOK
    <3>. QED
      BY <1>1, <3>1, <3>2
  <2>4. caller' \in [Callers -> Sched!CallerStates]
    <3>1. Sched!CallerIdle \in Sched!CallerStates
      BY DEF Sched!CallerIdle, Sched!CallerStates
    <3>. QED
      BY <1>1, <3>1
  <2>5. /\ linkOf' \in [Contexts -> Links \cup {None}]
        /\ feed' \in [Links -> [Sched!Kinds -> Items \cup {None}]]
        /\ told' \in [Contexts -> [Sched!Kinds -> Items \cup {None}]]
        /\ lost' \in SUBSET (Contexts \X Sched!Kinds)
        /\ handed' \in [Sched!Kinds -> Nat]
        /\ late' \in [Contexts -> Nat]
    BY <1>0, <1>1 DEF Sched!TypeOK
  <2>. QED
    BY <2>1, <2>2, <2>3, <2>4, <2>5 DEF Sched!TypeOK
<1>3. \A c \in Contexts : ctx'[c] = "unused" =>
        ctx[c] = "unused" /\ monitor'[c] = monitor[c]
  BY <1>1 DEF Unspent
<1>4. \A c \in Contexts : ctx'[c] # "unused" => ctx'[c] = "done" /\ monitor'[c].pc = "stopped"
  BY <1>1 DEF Unspent, Sched!MonitorNew
<1>5. Sched!Wiring'
  <2>1. \A p \in Callers : caller'[p].pc = "idle"
    BY <1>1 DEF Sched!CallerIdle
  <2>2. \A c \in Contexts : ctx'[c] = "unused" =>
          /\ linkOf'[c] = None /\ monitor'[c].pc = "none" /\ late'[c] = 0
          /\ \A k \in Sched!Kinds : told'[c][k] = None
    BY <1>0, <1>1, <1>3 DEF Sched!Wiring
  <2>3. \A c \in Contexts : (ctx'[c] # "unused" /\ linkOf'[c] = None) =>
          ctx'[c] = "done" /\ monitor'[c].pc = "stopped"
    BY <1>4
  <2>4. \A l \in Links : cancelFuncs'[l] = None
    BY <1>1
  <2>. QED
    BY <2>1, <2>2, <2>3, <2>4 DEF Sched!Wiring, Sched!Kinds
<1>6. Sched!Handling'
  <2>1. \A c \in Contexts : monitor'[c].pc \in {"none", "stopped"}
    <3>. SUFFICES ASSUME NEW c \in Contexts PROVE monitor'[c].pc \in {"none", "stopped"}
      OBVIOUS
    <3>1. CASE Unspent(c)
      BY <1>0, <1>1, <3>1 DEF Unspent, Sched!Wiring
    <3>2. CASE ~Unspent(c)
      BY <1>1, <3>2 DEF Sched!MonitorNew
    <3>. QED
      BY <3>1, <3>2
  <2>. QED
    BY <2>1 DEF Sched!Handling
<1>. QED
  BY <1>2, <1>5, <1>6 DEF Wired

LEMMA RestartInv ==
  ASSUME Inv, Restart
  PROVE  Inv'
<1>1. Wired' /\ Sched!TypeOK'
  BY RestartWired DEF Inv, Wired
<1>2. /\ req' = [r \in Callers |-> ReqIdle] /\ tx' = [r \in Callers |-> "none"]
      /\ caller' = [r \in Callers |-> Sched!CallerIdle]
      /\ parted' = parted \cup RowIds /\ UNCHANGED <<rows, chats, linkOf, severed, RowIds>>
      /\ \A c \in Contexts : ctx'[c] # "live"
  BY DEF Restart, tables, RowIds
<1>3. TypeOK'
  <2>1. ReqIdle \in ReqStates
    BY DEF ReqIdle, ReqStates
  <2>2. RowIds \subseteq Contexts
    BY DEF RowIds, Inv, TypeOK
  <2>. QED
    BY <1>1, <1>2, <2>1, <2>2 DEF Inv, TypeOK
<1>4. \A r \in Callers : Sound(r)'
  BY <1>2, EndedSound
<1>5. Locks'
  <2>1. \A q \in Callers : Deleting(q)' = {} /\ \A l : ~Inserting(q, l)'
    BY <1>2 DEF Deleting, Inserting
  <2>. QED
    BY <2>1 DEF Locks, Others
<1>6. Table'
  BY <1>2 DEF Inv, Table, Filed, RowIds
<1>7. LiveIsTracked'
  BY <1>2 DEF LiveIsTracked
<1>. QED
  BY <1>1, <1>3, <1>4, <1>5, <1>6, <1>7 DEF Inv

LEMMA StepInv == Inv /\ [Next]_vars => Inv'
<1>. SUFFICES ASSUME Inv, [Next]_vars PROVE Inv'
  OBVIOUS
<1>1. ASSUME NEW r \in Callers, CallScheduler(r) PROVE Inv'
  BY <1>1, FileInv, StartInv, UnfileInv, RemoveInv DEF CallScheduler
<1>2. ASSUME NEW r \in Callers, StatementFails(r) PROVE Inv'
  BY <1>2, FailInv DEF StatementFails
<1>3. CASE SchedulerStep
  <2>1. Wired' /\ Quiet
    <3>1. Quiet
      BY <1>3, SchedulerStepQuiet DEF Inv, Wired
    <3>2. Wired'
      BY <1>3, MonitorsProved, ProvedStep DEF Inv
    <3>. QED
      BY <3>1, <3>2
  <2>. QED
    BY <2>1, QuietInv
<1>4. CASE UNCHANGED vars
  <2>1. Wired' /\ Quiet
    BY <1>4, WiredSame DEF Inv, vars, sched, Quiet
  <2>. QED
    BY <2>1, QuietInv
<1>. QED
  BY <1>1, <1>2, <1>3, <1>4, BeginInv, ReadInv, WriteInv, FinishInv, DropConnectionInv, RestartInv
  DEF Next

LEMMA InitInv == Init => Inv
<1>. SUFFICES ASSUME Init PROVE Inv
  OBVIOUS
<1>1. /\ Sched!Init /\ rows = {} /\ chats = {} /\ parted = {} /\ severed = {}
      /\ req = [r \in Callers |-> ReqIdle] /\ tx = [r \in Callers |-> "none"]
  BY DEF Init
<1>2. Wired
  <2>1. Sched!TypeOK
    <3>1. Sched!MonitorNew \in Sched!MonitorStates /\ Sched!CallerIdle \in Sched!CallerStates
      BY DEF Sched!MonitorNew, Sched!MonitorStates, Sched!CallerIdle, Sched!CallerStates
    <3>. QED
      BY <1>1, <3>1, ChanCapAssumption DEF Sched!Init, Sched!TypeOK
  <2>2. Sched!Wiring /\ Sched!Handling
    BY <1>1 DEF Sched!Init, Sched!Wiring, Sched!Handling, Sched!MonitorNew, Sched!CallerIdle,
                Sched!Kinds
  <2>. QED
    BY <2>1, <2>2 DEF Wired
<1>3. TypeOK
  <2>1. ReqIdle \in ReqStates
    BY DEF ReqIdle, ReqStates
  <2>. QED
    BY <1>1, <1>2, <2>1 DEF TypeOK, Wired
<1>4. ASSUME NEW r \in Callers PROVE Sound(r)
  <2>1. req[r] = ReqIdle /\ tx[r] = "none" /\ caller[r] = Sched!CallerIdle
    BY <1>1 DEF Sched!Init
  <2>2. Stages(r) /\ Calling(r)
    BY <2>1 DEF Stages, Calling, ReqIdle
  <2>3. Adds(r) /\ Deletes(r) /\ OfChats(r)
    BY <2>1, NoneAssumption DEF Adds, Deletes, OfChats, ReqIdle
  <2>. QED
    BY <2>2, <2>3 DEF Sound
<1>5. Locks
  BY <1>1 DEF Locks, Inserting, Deleting, Others
<1>6. Table /\ LiveIsTracked
  BY <1>1 DEF Table, LiveIsTracked, Sched!Init, Sched!Running, Sched!MonitorNew
<1>. QED
  BY <1>2, <1>3, <1>4, <1>5, <1>6 DEF Inv

LEMMA AlwaysInv == Spec => []Inv
BY InitInv, StepInv, PTL DEF Spec

-----------------------------------------------------------------------------
(* The properties. *)

\* Every variable keeps its type: requests and transactions are at places the
\* code can be in, rows name chats, links and contexts.
THEOREM TypeCorrect == Spec => []TypeOK
<1>1. Inv => TypeOK
  BY DEF Inv
<1>. QED
  BY <1>1, AlwaysInv, PTL

LEMMA ExclusiveIn == Inv => SchedulerCallsExclusive
<1>. SUFFICES ASSUME Inv, NEW p \in Callers, NEW q \in Callers, p # q,
                     caller[p].link # None, caller[p].link = caller[q].link,
                     tx[p] # "lost", tx[q] # "lost"
              PROVE  FALSE
  BY DEF SchedulerCallsExclusive
<1>1. ASSUME NEW r \in Callers, caller[r].link # None, tx[r] # "lost"
      PROVE  /\ tx[r] = "wrote" /\ req[r].link = caller[r].link /\ req[r].link \in Links
             /\ \/ req[r].op = "add"
                \/ req[r].op = "delete" /\ req[r].ids # {}
  <2>1. req[r].pc \in {"start", "remove"} /\ req[r].link = caller[r].link
    BY <1>1 DEF Inv, Sound, Calling, Sched!CallerIdle
  <2>. QED
    BY <1>1, <2>1 DEF Inv, Sound, Stages, Deletes
<1>2. p \in Others(q) /\ q \in Others(p)
  BY DEF Others
<1>3. PICK l \in Links : l = req[p].link /\ l = req[q].link
  BY <1>1
<1>4. /\ req[p].op = "add" => Inserting(p, l)
      /\ req[q].op = "add" => Inserting(q, l)
  BY <1>1, <1>3 DEF Inserting
<1>5. req[p].op # "add" /\ req[q].op # "add"
  BY <1>1, <1>2, <1>3, <1>4, KeyIsOwn
\* Two delete requests: the link has one row, and both would hold it.
<1>6. ASSUME NEW r \in Callers, r \in {p, q}
      PROVE  \E w \in rows : w.url = l /\ w.id \in Deleting(r)
  <2>1. PICK c \in req[r].ids : linkOf[c] = l
    BY <1>1, <1>3, <1>5, <1>6 DEF Inv, Sound, Deletes
  <2>2. c \in Deleting(r)
    BY <1>1, <1>5, <1>6, <2>1 DEF Deleting
  <2>3. PICK w \in rows : w.id = c
    BY <2>2 DEF Inv, Locks, RowIds
  <2>. QED
    BY <2>1, <2>2, <2>3 DEF Inv, Table
<1>7. PICK v \in rows : v.url = l /\ v.id \in Deleting(p)
  BY <1>6
<1>8. PICK w \in rows : w.url = l /\ w.id \in Deleting(q)
  BY <1>6
<1>9. v = w
  BY <1>7, <1>8 DEF Inv, Table
<1>. QED
  BY <1>2, <1>7, <1>8, <1>9 DEF Inv, Locks

\* Two requests are inside scheduler.AddLink or RemoveLink with one link only if
\* one of them lost its connection: the key and row locks of the database stand
\* in for the lock the scheduler does not have.
THEOREM CallsExclusive == Spec => []SchedulerCallsExclusive
BY ExclusiveIn, AlwaysInv, PTL

\* A monitor that polls for a live context has a committed row, or an add
\* request that is to commit it, unless a DeleteChat, a restart or a lost
\* connection parted it from its row.
THEOREM LiveTracked == Spec => []LiveIsTracked
<1>1. Inv => LiveIsTracked
  BY DEF Inv
<1>. QED
  BY <1>1, AlwaysInv, PTL

\* cancelFuncs has the context of every committed row, unless a request is
\* deleting it, or a DeleteChat, a restart or a lost connection intervened.
THEOREM TrackedFiled == Spec => []TrackedIsFiled
<1>1. Inv => TrackedIsFiled
  BY DEF Inv, Table, Filed, TrackedIsFiled
<1>. QED
  BY <1>1, AlwaysInv, PTL

-----------------------------------------------------------------------------
(* The refinement of Subscriptions. *)

UniqueUrls == \A v, w \in rows : v.url = w.url => v = w

\* The owner of a link is the chat of its row.
Owned == /\ \A w \in rows : Owner(w.url) = w.chat
         /\ \A l : (\A w \in rows : w.url # l) => Owner(l) = None

LEMMA OwnerIs == UniqueUrls => Owned
<1>1. ASSUME UniqueUrls, NEW w \in rows PROVE Owner(w.url) = w.chat
  <2>1. PICK v \in rows : v = CHOOSE x \in rows : x.url = w.url
    OBVIOUS
  <2>2. v.url = w.url
    BY <2>1
  <2>3. v = w
    BY <1>1, <2>2 DEF UniqueUrls
  <2>. QED
    BY <2>1, <2>3 DEF Owner
<1>2. ASSUME NEW l, \A w \in rows : w.url # l PROVE Owner(l) = None
  BY <1>2 DEF Owner
<1>. QED
  BY <1>1, <1>2 DEF Owned

LEMMA OwnerNext == UniqueUrls' => Owned'
BY OwnerIs, PTL

LEMMA OwnedBoth ==
  ASSUME UniqueUrls, UniqueUrls'
  PROVE  /\ \A w \in rows : Owner(w.url) = w.chat
         /\ \A l : (\A w \in rows : w.url # l) => Owner(l) = None
         /\ \A w \in rows' : Owner(w.url)' = w.chat
         /\ \A l : (\A w \in rows' : w.url # l) => Owner(l)' = None
         /\ \A v, w \in rows : v.url = w.url => v = w
BY OwnerIs, OwnerNext DEF Owned, UniqueUrls

\* What a committed transaction does to the tables is one step of Subscriptions,
\* or none at all when the chat was registered before or there was no row left.
LEMMA RegisterPromise ==
  ASSUME NEW u \in Users, chats' = chats \cup {u}, rows' = rows
  PROVE  [Promise!Next]_Promise!vars
<1>1. [l \in Links |-> Owner(l)]' = [l \in Links |-> Owner(l)]
  BY DEF Owner
<1>2. CASE u \in chats
  BY <1>1, <1>2 DEF Promise!vars
<1>3. CASE u \notin chats
  <2>1. Promise!Register(u)
    BY <1>1, <1>3 DEF Promise!Register
  <2>. QED
    BY <2>1 DEF Promise!Next
<1>. QED
  BY <1>2, <1>3

LEMMA TrackPromise ==
  ASSUME UniqueUrls, UniqueUrls', NEW c, NEW u \in Users, NEW l \in Links,
         u \in chats, chats' = chats, \A w \in rows : w.url # l,
         rows' = rows \cup {[id |-> c, chat |-> u, url |-> l]}
  PROVE  [Promise!Next]_Promise!vars
<1>. DEFINE own == [k \in Links |-> Owner(k)]
            n == [id |-> c, chat |-> u, url |-> l]
<1>1. own' = [k \in Links |-> Owner(k)'] /\ own[l] = None
  BY OwnedBoth
<1>2. Owner(l)' = u
  <2>1. n \in rows' /\ n.url = l /\ n.chat = u
    OBVIOUS
  <2>. HIDE DEF n
  <2>. QED
    BY <2>1, OwnedBoth
<1>3. ASSUME NEW k \in Links, k # l PROVE Owner(k)' = Owner(k)
  <2>1. CASE \E w \in rows : w.url = k
    <3>1. PICK w \in rows : w.url = k
      BY <2>1
    <3>2. w \in rows'
      OBVIOUS
    <3>. QED
      BY <3>1, <3>2, OwnedBoth
  <2>2. CASE \A w \in rows : w.url # k
    <3>1. \A w \in rows' : w.url # k
      BY <1>3, <2>2
    <3>. QED
      BY <2>2, <3>1, OwnedBoth
  <2>. QED
    BY <2>1, <2>2
<1>4. own' = [own EXCEPT ![l] = u]
  BY <1>1, <1>2, <1>3
<1>5. Promise!Track(u, l)
  BY <1>1, <1>4 DEF Promise!Track
<1>. QED
  BY <1>5 DEF Promise!Next

LEMMA UntrackPromise ==
  ASSUME UniqueUrls, UniqueUrls', NEW u \in Users, NEW D, chats' = chats,
         \A w \in rows : w.url \in Links /\ (w.id \in D => w.chat = u),
         rows' = {w \in rows : w.id \notin D}
  PROVE  [Promise!Next]_Promise!vars
<1>. DEFINE own == [k \in Links |-> Owner(k)]
            S == {l \in Links : \E w \in rows : w.url = l /\ w.id \in D}
<1>1. own' = [k \in Links |-> Owner(k)']
  OBVIOUS
<1>2. CASE S = {}
  <2>1. rows' = rows
    BY <1>2
  <2>. QED
    BY <2>1 DEF Promise!vars, Owner
<1>3. CASE S # {}
  <2>1. ASSUME NEW l \in S PROVE own[l] = u /\ Owner(l)' = None
    <3>1. PICK w \in rows : w.url = l /\ w.id \in D
      OBVIOUS
    <3>2. \A v \in rows' : v.url # l
      BY <3>1, OwnedBoth
    <3>. QED
      BY <3>1, <3>2, OwnedBoth
  <2>2. ASSUME NEW l \in Links, l \notin S PROVE Owner(l)' = Owner(l)
    <3>1. CASE \E w \in rows : w.url = l
      <4>1. PICK w \in rows : w.url = l
        BY <3>1
      <4>2. w \in rows'
        BY <2>2, <4>1
      <4>. QED
        BY <4>1, <4>2, OwnedBoth
    <3>2. CASE \A w \in rows : w.url # l
      BY <3>2, OwnedBoth
    <3>. QED
      BY <3>1, <3>2
  <2>. HIDE DEF S
  <2>3. S \in SUBSET Links
    BY DEF S
  <2>4. own' = [l \in Links |-> IF l \in S THEN None ELSE own[l]]
    BY <1>1, <2>1, <2>2
  <2>5. Promise!Untrack(u, S)
    BY <1>3, <2>1, <2>4 DEF Promise!Untrack
  <2>. QED
    BY <2>3, <2>5 DEF Promise!Next
<1>. QED
  BY <1>2, <1>3

LEMMA AppliedPromise ==
  ASSUME Inv, Inv', NEW r \in Callers, req[r].pc = "commit", tx[r] = "wrote", Applied(r)
  PROVE  [Promise!Next]_Promise!vars
<1>0. Sound(r) /\ req[r].op \in Ops /\ UniqueUrls /\ UniqueUrls'
  BY DEF Inv, Sound, Stages, Table, UniqueUrls
<1>1. PICK u \in Users : u = req[r].user
  BY <1>0 DEF Sound, Stages
<1>2. CASE req[r].op = "register"
  <2>1. rows' = rows /\ chats' = chats \cup {u}
    BY <1>0, <1>1, <1>2, AppliedRows DEF Sound, OfChats, Applied
  <2>. QED
    BY <2>1, RegisterPromise
<1>3. CASE req[r].op = "add"
  <2>1. PICK c \in Contexts, l \in Links :
          /\ req[r].ids = {c} /\ req[r].link = l
          /\ rows' = rows \cup {[id |-> c, chat |-> u, url |-> l]}
    BY <1>1, <1>3, AppliedRows
  <2>2. u \in chats /\ chats' = chats
    BY <1>0, <1>1, <1>3, <2>1 DEF Sound, Adds, Applied
  <2>3. \A w \in rows : w.url # l
    BY <1>3, <2>1 DEF Inv, Locks, Inserting
  <2>. QED
    BY <1>0, <2>1, <2>2, <2>3, TrackPromise
<1>4. CASE req[r].op \in {"delete", "deleteChat"}
  <2>1. rows' = {w \in rows : w.id \notin req[r].ids} /\ chats' = chats
    BY <1>4 DEF Applied
  <2>2. \A w \in rows : w.url \in Links /\ (w.id \in req[r].ids => w.chat = u)
    BY <1>0, <1>1, <1>4 DEF Sound, Deletes, OfChats, Inv, TypeOK
  <2>. QED
    BY <1>0, <2>1, <2>2, UntrackPromise
<1>. QED
  BY <1>0, <1>2, <1>3, <1>4 DEF Ops

\* Steps that do not commit leave the tables, and so the owners, alone.
LEMMA PromiseStep == Inv /\ Inv' /\ [Next]_vars => [Promise!Next]_Promise!vars
<1>. SUFFICES ASSUME Inv, Inv', [Next]_vars PROVE [Promise!Next]_Promise!vars
  OBVIOUS
<1>1. ASSUME UNCHANGED tables PROVE UNCHANGED Promise!vars
  BY <1>1 DEF tables, Promise!vars, Owner
<1>2. ASSUME NEW r \in Callers, Finish(r) PROVE [Promise!Next]_Promise!vars
  <2>1. CASE Rollback(r)
    BY <1>1, <2>1 DEF Rollback
  <2>2. CASE Commit(r)
    BY <2>2, AppliedPromise DEF Commit
  <2>3. CASE CommitFails(r)
    BY <1>1, <2>3, AppliedPromise DEF CommitFails
  <2>. QED
    BY <1>2, <2>1, <2>2, <2>3 DEF Finish
<1>3. ASSUME NEW r \in Callers,
             \/ \E op \in Ops, u \in Users, l \in Links : Begin(r, op, u, l)
             \/ Read(r) \/ Write(r) \/ CallScheduler(r)
             \/ StatementFails(r) \/ DropConnection(r)
      PROVE  UNCHANGED tables
  <2>1. CASE \E op \in Ops, u \in Users, l \in Links : Begin(r, op, u, l)
    BY <2>1 DEF Begin
  <2>2. CASE Read(r)
    BY <2>2 DEF Read, ReadLinks, FindLink, ScanRows, CheckChat
  <2>3. CASE Write(r)
    BY <2>3 DEF Write, InsertLink, DeleteRow, DeleteRows, InsertChat
  <2>4. CASE CallScheduler(r)
    BY <2>4 DEF CallScheduler, File, StartMonitor, Unfile, Remove
  <2>5. CASE StatementFails(r) \/ DropConnection(r)
    BY <2>5 DEF StatementFails, DropConnection
  <2>. QED
    BY <1>3, <2>1, <2>2, <2>3, <2>4, <2>5
<1>4. SchedulerStep \/ Restart \/ UNCHANGED vars => UNCHANGED tables
  BY DEF SchedulerStep, Restart, vars
<1>. QED
  BY <1>1, <1>2, <1>3, <1>4 DEF Next

\* Requests with their statements, locks and failures implement the atomic
\* register, track and untrack of Subscriptions: no link is taken over from
\* another chat, tracked by a chat that is not registered, or removed for one.
THEOREM SubscriptionsImplemented == Spec => ImplementsSubscriptions
<1>1. Init => Promise!Init
  <2>. SUFFICES ASSUME Init PROVE Promise!Init
    OBVIOUS
  <2>1. rows = {} /\ chats = {}
    BY DEF Init
  <2>2. \A l \in Links : Owner(l) = None
    BY <2>1 DEF Owner
  <2>. QED
    BY <2>1, <2>2 DEF Promise!Init
<1>. QED
  BY <1>1, AlwaysInv, PromiseStep, PTL DEF Spec, Promise!Spec, ImplementsSubscriptions
=============================================================================
