--------------------------- MODULE SchedulerProofs ---------------------------
(***************************************************************************)
(* The safety properties of Scheduler, for any number of links, contexts,  *)
(* callers and items, any capacity of the channels and either transport.   *)
(*                                                                         *)
(* One lemma per conjunct of IInv shows that a step preserves it; the      *)
(* theorems at the end combine them.                                       *)
(***************************************************************************)
EXTENDS Scheduler, FiniteSetTheorems, TLAPS

\* A step of any goroutine keeps every variable in its range: in particular a
\* monitor never puts a channel over its capacity.
LEMMA TypeStep == TypeOK /\ Wiring /\ Handling /\ [Next]_vars => TypeOK'
<1> SUFFICES ASSUME TypeOK, Wiring, Handling, [Next]_vars PROVE TypeOK'
  OBVIOUS
<1> USE NoneAssumption, TransportAssumption, ClassAssumption, ChanCapAssumption
<1> USE DEF Kinds
<1>1. ASSUME NEW p \in Callers, NEW l \in Links, NEW c \in Contexts, FileCancel(p, l, c) PROVE TypeOK'
  <2>1. ctx' \in [Contexts -> {"unused", "live", "done"}]
    BY <1>1 DEF TypeOK, FileCancel
  <2>2. linkOf' \in [Contexts -> Links \cup {None}]
    BY <1>1 DEF TypeOK, FileCancel
  <2>3. cancelFuncs' \in [Links -> Contexts \cup {None}]
    BY <1>1 DEF TypeOK, FileCancel
  <2>4. caller' \in [Callers -> CallerStates]
    BY <1>1 DEF TypeOK, FileCancel, CallerIdle, CallerStates
  <2> QED
    BY <1>1, <2>1, <2>2, <2>3, <2>4 DEF TypeOK, FileCancel, history
<1>2. ASSUME NEW p \in Callers, Start(p) PROVE TypeOK'
  <2>1. monitor' \in [Contexts -> MonitorStates]
    <3>1. monitor[caller[p].ctx] \in MonitorStates
      BY <1>2 DEF TypeOK, Wiring, Start
    <3>2. [monitor[caller[p].ctx] EXCEPT !.pc = "select"] \in MonitorStates
      BY <1>2, <3>1 DEF MonitorStates
    <3> QED
      BY <1>2, <3>2 DEF TypeOK, Start
  <2>2. caller' \in [Callers -> CallerStates]
    BY <1>2 DEF TypeOK, Start, CallerIdle, CallerStates
  <2> QED
    BY <1>2, <2>1, <2>2 DEF TypeOK, Start, shared, history
<1>3. ASSUME NEW p \in Callers, NEW l \in Links, Cancel(p, l) PROVE TypeOK'
  <2>1. ctx' \in [Contexts -> {"unused", "live", "done"}]
    BY <1>3 DEF TypeOK, Cancel, Cancelled
  <2>2. caller' \in [Callers -> CallerStates]
    BY <1>3 DEF TypeOK, Cancel, CallerIdle, CallerStates
  <2> QED
    BY <1>3, <2>1, <2>2 DEF TypeOK, Cancel, history
<1>4. ASSUME NEW p \in Callers, DropCancel(p) PROVE TypeOK'
  <2>1. cancelFuncs' \in [Links -> Contexts \cup {None}]
    BY <1>4 DEF TypeOK, DropCancel
  <2>2. caller' \in [Callers -> CallerStates]
    <3>1. caller[p] \in CallerStates
      BY DEF TypeOK
    <3>2. [caller[p] EXCEPT !.pc = "Commit"] \in CallerStates
      BY <1>4, <3>1 DEF CallerStates
    <3> QED
      BY <1>4, <3>2 DEF TypeOK, DropCancel
  <2> QED
    BY <1>4, <2>1, <2>2 DEF TypeOK, DropCancel, history
<1>5. ASSUME NEW p \in Callers, Forget(p) PROVE TypeOK'
  <2>1. latest' \in [Kinds -> [Links -> Items \cup {None}]]
    BY <1>5 DEF TypeOK, Forget
  <2>2. caller' \in [Callers -> CallerStates]
    <3>1. caller[p] \in CallerStates
      BY DEF TypeOK
    <3>2. [caller[p] EXCEPT !.pc = "PullRequest"] \in CallerStates
      BY <1>5, <3>1 DEF CallerStates
    <3>3. [caller[p] EXCEPT !.pc = "Answer"] \in CallerStates
      BY <1>5, <3>1 DEF CallerStates
    <3>4. CallerIdle \in CallerStates
      BY DEF CallerIdle, CallerStates
    <3>5. caller' \in {[caller EXCEPT ![p] = CallerIdle],
                       [caller EXCEPT ![p] = [caller[p] EXCEPT !.pc = "PullRequest"]],
                       [caller EXCEPT ![p] = [caller[p] EXCEPT !.pc = "Answer"]]}
      <4>1. CASE caller[p].pc = "Answer"
        BY <1>5, <4>1 DEF Forget
      <4>2. CASE caller[p].pc = "Commit"
        BY <1>5, <4>2 DEF Forget, AfterForget
      <4>3. CASE caller[p].pc = "PullRequest"
        BY <1>5, <4>3 DEF Forget, AfterForget
      <4> QED
        BY <1>5, <4>1, <4>2, <4>3 DEF Forget
    <3> QED
      BY <3>2, <3>3, <3>4, <3>5 DEF TypeOK
  <2> QED
    BY <1>5, <2>1, <2>2 DEF TypeOK, Forget, history
<1>6. ASSUME NEW p \in Callers, StopBegin(p) PROVE TypeOK'
  <2>1. caller' \in [Callers -> CallerStates]
    BY <1>6 DEF TypeOK, StopBegin, CallerIdle, CallerStates
  <2> QED
    BY <1>6, <2>1 DEF TypeOK, StopBegin, shared, history
<1>7. ASSUME NEW p \in Callers, NEW l \in Links, StopVisit(p, l) PROVE TypeOK'
  <2>1. ctx' \in [Contexts -> {"unused", "live", "done"}]
    BY <1>7 DEF TypeOK, StopVisit, Cancelled
  <2>2. caller' \in [Callers -> CallerStates]
    <3>1. caller[p] \in CallerStates
      BY DEF TypeOK
    <3>2. [caller[p] EXCEPT !.todo = @ \ {l}] \in CallerStates
      BY <1>7, <3>1 DEF CallerStates
    <3> QED
      BY <1>7, <3>2 DEF TypeOK, StopVisit
  <2> QED
    BY <1>7, <2>1, <2>2 DEF TypeOK, StopVisit, history
<1>8. ASSUME NEW p \in Callers, StopEnd(p) PROVE TypeOK'
  <2>1. caller' \in [Callers -> CallerStates]
    BY <1>8 DEF TypeOK, StopEnd, CallerIdle, CallerStates
  <2> QED
    BY <1>8, <2>1 DEF TypeOK, StopEnd, shared, history
<1>9. ASSUME NEW c \in Contexts, Tick(c) PROVE TypeOK'
  <2>1. monitor' \in [Contexts -> MonitorStates]
    BY <1>9 DEF TypeOK, Tick, MonitorStates
  <2> QED
    BY <1>9, <2>1 DEF TypeOK, Tick, shared, history
<1>10. ASSUME NEW c \in Contexts, Return(c) PROVE TypeOK'
  <2>1. monitor' \in [Contexts -> MonitorStates]
    BY <1>10 DEF TypeOK, Return, MonitorNew, MonitorStates
  <2> QED
    BY <1>10, <2>1 DEF TypeOK, Return, shared, history
<1>11. ASSUME NEW c \in Contexts, FetchOk(c) PROVE TypeOK'
  <2>1. monitor' \in [Contexts -> MonitorStates]
    <3>1. monitor[c] \in MonitorStates
      BY DEF TypeOK
    <3>2. [monitor[c] EXCEPT !.pc = "load", !.item = feed[linkOf[c]][monitor[c].kind]] \in MonitorStates
      <4>1. linkOf[c] \in Links /\ monitor[c].kind \in Kinds
        BY <1>11 DEF TypeOK, Wiring, Handling, FetchOk
      <4>2. feed[linkOf[c]][monitor[c].kind] \in Items \cup {None}
        BY <4>1 DEF TypeOK
      <4> QED
        BY <3>1, <4>2 DEF MonitorStates
    <3> QED
      BY <1>11, <3>2 DEF TypeOK, FetchOk
  <2> QED
    BY <1>11, <2>1 DEF TypeOK, FetchOk, shared, history
<1>12. ASSUME NEW c \in Contexts, FetchFail(c) PROVE TypeOK'
  <2>1. monitor' \in [Contexts -> MonitorStates]
    BY <1>12 DEF TypeOK, FetchFail, MonitorNew, Handled, MonitorStates
  <2> QED
    BY <1>12, <2>1 DEF TypeOK, FetchFail, shared, history
<1>13. ASSUME NEW c \in Contexts, Load(c) PROVE TypeOK'
  <2>1. monitor' \in [Contexts -> MonitorStates]
    BY <1>13 DEF TypeOK, Load, MonitorNew, Handled, MonitorStates
  <2> QED
    BY <1>13, <2>1 DEF TypeOK, Load, shared, history
<1>14. ASSUME NEW c \in Contexts, Store(c) PROVE TypeOK'
  <2>1. latest' \in [Kinds -> [Links -> Items \cup {None}]]
    BY <1>14 DEF TypeOK, Handling, Store
  <2>2. monitor' \in [Contexts -> MonitorStates]
    <3>1. monitor[c] \in MonitorStates
      BY DEF TypeOK
    <3>2. [monitor[c] EXCEPT !.pc = "put"] \in MonitorStates
      BY <1>14, <3>1 DEF MonitorStates
    <3> QED
      BY <1>14, <3>2 DEF TypeOK, Store
  <2> QED
    BY <1>14, <2>1, <2>2 DEF TypeOK, Store, history
<1>15. ASSUME NEW c \in Contexts, Put(c) PROVE TypeOK'
  <2>1. buffered' \in [Kinds -> 0..ChanCap]
    BY <1>15 DEF TypeOK, Handling, Put
  <2>2. monitor' \in [Contexts -> MonitorStates]
    <3>1. monitor[c] \in MonitorStates
      BY DEF TypeOK
    <3>2. [monitor[c] EXCEPT !.pc = "send"] \in MonitorStates
      BY <1>15, <3>1 DEF MonitorStates
    <3> QED
      BY <1>15, <3>2 DEF TypeOK, Put
  <2> QED
    BY <1>15, <2>1, <2>2 DEF TypeOK, Put, shared, history
<1>16. ASSUME NEW c \in Contexts, Send(c) PROVE TypeOK'
  <2>1. told' \in [Contexts -> [Kinds -> Items \cup {None}]]
    BY <1>16 DEF TypeOK, Handling, Send, HandOver
  <2>2. lost' \in SUBSET (Contexts \X Kinds)
    BY <1>16 DEF TypeOK, Handling, Send, HandOver
  <2>3. handed' \in [Kinds -> Nat]
    BY <1>16 DEF TypeOK, Handling, Send, HandOver
  <2>4. late' \in [Contexts -> Nat]
    BY <1>16 DEF TypeOK, Send, HandOver
  <2>5. monitor' \in [Contexts -> MonitorStates]
    BY <1>16 DEF TypeOK, Send, MonitorNew, Handled, MonitorStates
  <2> QED
    BY <1>16, <2>1, <2>2, <2>3, <2>4, <2>5 DEF TypeOK, Send, shared
<1>17. ASSUME NEW c \in Contexts, Expire(c) PROVE TypeOK'
  <2>1. ctx' \in [Contexts -> {"unused", "live", "done"}]
    BY <1>17 DEF TypeOK, Expire, Cancelled
  <2> QED
    BY <1>17, <2>1 DEF TypeOK, Expire, history
<1>18. ASSUME NEW l \in Links, NEW k \in Kinds, NEW i \in Items, Publish(l, k, i) PROVE TypeOK'
  <2>1. feed' \in [Links -> [Kinds -> Items \cup {None}]]
    BY <1>18 DEF TypeOK, Publish
  <2> QED
    BY <1>18, <2>1 DEF TypeOK, Publish, shared, history
<1>19. CASE UNCHANGED vars
  BY <1>19 DEF TypeOK, vars
<1> QED
  BY <1>1, <1>2, <1>3, <1>4, <1>5, <1>6, <1>7, <1>8, <1>9, <1>10, <1>11, <1>12, <1>13,
     <1>14, <1>15, <1>16, <1>17, <1>18, <1>19 DEF Next, Call, CallerStep, MonitorStep

\* A monitor inside HandleCommits, HandlePullRequests or MonitorStackOverflow
\* knows the kind it handles and, past the fetch, the item.
LEMMA HandlingStep == TypeOK /\ Wiring /\ Handling /\ [Next]_vars => Handling'
<1> SUFFICES ASSUME TypeOK, Wiring, Handling, [Next]_vars PROVE Handling'
  OBVIOUS
<1> USE NoneAssumption, TransportAssumption, ClassAssumption, ChanCapAssumption
<1> USE DEF Kinds
<1>1. ASSUME NEW p \in Callers, NEW l \in Links, NEW c \in Contexts, FileCancel(p, l, c) PROVE Handling'
  BY <1>1 DEF Handling, FileCancel
<1>2. ASSUME NEW p \in Callers, Start(p) PROVE Handling'
  <2>1. CASE KindsOf(caller[p].link) = {}
    BY <1>2, <2>1 DEF Handling, Start
  <2>2. CASE KindsOf(caller[p].link) # {}
    <3>1. monitor' = [monitor EXCEPT ![caller[p].ctx] = [monitor[caller[p].ctx] EXCEPT !.pc = "select"]]
      BY <1>2, <2>2 DEF Start
    <3>2. monitor[caller[p].ctx] \in MonitorStates
      BY <1>2 DEF TypeOK, Wiring, Start
    <3>3. [monitor[caller[p].ctx] EXCEPT !.pc = "select"].pc = "select"
      BY <3>2
    <3> QED
      BY <3>1, <3>3 DEF Handling
  <2> QED
    BY <2>1, <2>2
<1>3. ASSUME NEW p \in Callers, NEW l \in Links, Cancel(p, l) PROVE Handling'
  BY <1>3 DEF Handling, Cancel
<1>4. ASSUME NEW p \in Callers, DropCancel(p) PROVE Handling'
  BY <1>4 DEF Handling, DropCancel
<1>5. ASSUME NEW p \in Callers, Forget(p) PROVE Handling'
  BY <1>5 DEF Handling, Forget
<1>6. ASSUME NEW p \in Callers, StopBegin(p) PROVE Handling'
  BY <1>6 DEF Handling, StopBegin
<1>7. ASSUME NEW p \in Callers, NEW l \in Links, StopVisit(p, l) PROVE Handling'
  BY <1>7 DEF Handling, StopVisit
<1>8. ASSUME NEW p \in Callers, StopEnd(p) PROVE Handling'
  BY <1>8 DEF Handling, StopEnd
<1>9. ASSUME NEW c \in Contexts, Tick(c) PROVE Handling'
  BY <1>9 DEF Handling, Tick
<1>10. ASSUME NEW c \in Contexts, Return(c) PROVE Handling'
  BY <1>10 DEF Handling, Return
<1>11. ASSUME NEW c \in Contexts, FetchOk(c) PROVE Handling'
  BY <1>11 DEF TypeOK, Handling, MonitorStates, FetchOk
<1>12. ASSUME NEW c \in Contexts, FetchFail(c) PROVE Handling'
  BY <1>12 DEF Handling, FetchFail, Handled
<1>13. ASSUME NEW c \in Contexts, Load(c) PROVE Handling'
  BY <1>13 DEF Handling, Load, Handled
<1>14. ASSUME NEW c \in Contexts, Store(c) PROVE Handling'
  BY <1>14 DEF Handling, Store
<1>15. ASSUME NEW c \in Contexts, Put(c) PROVE Handling'
  BY <1>15 DEF Handling, Put
<1>16. ASSUME NEW c \in Contexts, Send(c) PROVE Handling'
  BY <1>16 DEF Handling, Send, Handled
<1>17. ASSUME NEW c \in Contexts, Expire(c) PROVE Handling'
  BY <1>17 DEF Handling, Expire
<1>18. ASSUME NEW l \in Links, NEW k \in Kinds, NEW i \in Items, Publish(l, k, i) PROVE Handling'
  BY <1>18 DEF Handling, Publish
<1>19. CASE UNCHANGED vars
  BY <1>19 DEF Handling, vars
<1> QED
  BY <1>1, <1>2, <1>3, <1>4, <1>5, <1>6, <1>7, <1>8, <1>9, <1>10, <1>11, <1>12, <1>13,
     <1>14, <1>15, <1>16, <1>17, <1>18, <1>19 DEF Next, Call, CallerStep, MonitorStep

\* FileCancel, Start, Cancel and DropCancel keep contexts, entries of cancelFuncs
\* and calls in agreement about links, whatever else runs.
LEMMA WiringStep == TypeOK /\ Wiring /\ Handling /\ [Next]_vars => Wiring'
<1> SUFFICES ASSUME TypeOK, Wiring, Handling, [Next]_vars PROVE Wiring'
  OBVIOUS
<1> USE NoneAssumption, TransportAssumption, ClassAssumption, ChanCapAssumption
<1> USE DEF Kinds
<1>1. ASSUME NEW p \in Callers, NEW l \in Links, NEW c \in Contexts, FileCancel(p, l, c) PROVE Wiring'
  <2> USE <1>1 DEF FileCancel, history
  <2>1. \A d \in Contexts : ctx'[d] = "unused" =>
          /\ linkOf'[d] = None /\ monitor'[d].pc = "none" /\ late'[d] = 0
          /\ \A k \in Kinds : told'[d][k] = None
    BY DEF TypeOK, Wiring
  <2>2. \A d \in Contexts : (ctx'[d] # "unused" /\ linkOf'[d] = None) =>
          ctx'[d] = "done" /\ monitor'[d].pc = "stopped"
    BY DEF TypeOK, Wiring
  <2>3. \A m \in Links : cancelFuncs'[m] # None => linkOf'[cancelFuncs'[m]] = m
    BY DEF TypeOK, Wiring
  <2>4. caller'[p].pc = "start" /\ caller'[p].ctx = c /\ caller'[p].link = l
    BY DEF TypeOK
  <2>5. \A q \in Callers \ {p} : caller'[q] = caller[q]
    OBVIOUS
  <2>6. \A q \in Callers \ {p} : caller[q].pc = "start" => caller[q].ctx # c
    BY DEF Wiring
  <2>7. \A q \in Callers : caller'[q].pc = "start" =>
          /\ caller'[q].ctx \in Contexts
          /\ ctx'[caller'[q].ctx] # "unused"
          /\ monitor'[caller'[q].ctx].pc = "none"
    BY <2>4, <2>5 DEF TypeOK, Wiring
  <2>8. \A q, r \in Callers :
          (caller'[q].pc = "start" /\ caller'[r].pc = "start" /\ q # r)
          => caller'[q].ctx # caller'[r].ctx
    BY <2>4, <2>5, <2>6 DEF Wiring
  <2>9. \A q \in Callers : caller'[q].pc \in {"drop"} \cup Kinds =>
          \E d \in Contexts : linkOf'[d] = caller'[q].link /\ ctx'[d] = "done"
    BY <2>4, <2>5 DEF Wiring
  <2> QED
    BY <2>1, <2>2, <2>3, <2>7, <2>8, <2>9 DEF Wiring
<1>2. ASSUME NEW p \in Callers, Start(p) PROVE Wiring'
  BY <1>2 DEF TypeOK, Wiring, Start, shared, history, CallerIdle
<1>3. ASSUME NEW p \in Callers, NEW l \in Links, Cancel(p, l) PROVE Wiring'
  BY <1>3 DEF TypeOK, Wiring, Cancel, history, Cancelled
<1>4. ASSUME NEW p \in Callers, DropCancel(p) PROVE Wiring'
  BY <1>4 DEF Wiring, DropCancel, history
<1>5. ASSUME NEW p \in Callers, Forget(p) PROVE Wiring'
  BY <1>5 DEF Wiring, Forget, history, CallerIdle, AfterForget
<1>6. ASSUME NEW p \in Callers, StopBegin(p) PROVE Wiring'
  BY <1>6 DEF Wiring, StopBegin, shared, history
<1>7. ASSUME NEW p \in Callers, NEW l \in Links, StopVisit(p, l) PROVE Wiring'
  BY <1>7 DEF Wiring, StopVisit, history, Cancelled
<1>8. ASSUME NEW p \in Callers, StopEnd(p) PROVE Wiring'
  BY <1>8 DEF Wiring, StopEnd, shared, history, CallerIdle
<1>9. ASSUME NEW c \in Contexts, Tick(c) PROVE Wiring'
  BY <1>9 DEF Wiring, Tick, shared, history
<1>10. ASSUME NEW c \in Contexts, Return(c) PROVE Wiring'
  BY <1>10 DEF Wiring, Return, shared, history
<1>11. ASSUME NEW c \in Contexts, FetchOk(c) PROVE Wiring'
  <2>1. monitor[c].pc = "fetch" /\ monitor'[c].pc = "load"
        /\ \A d \in Contexts \ {c} : monitor'[d] = monitor[d]
    BY <1>11 DEF TypeOK, FetchOk
  <2>2. UNCHANGED <<cancelFuncs, ctx, linkOf, caller, told, late>>
    BY <1>11 DEF FetchOk, shared, history
  <2> QED
    BY <2>1, <2>2 DEF Wiring
<1>12. ASSUME NEW c \in Contexts, FetchFail(c) PROVE Wiring'
  BY <1>12 DEF Wiring, FetchFail, shared, history
<1>13. ASSUME NEW c \in Contexts, Load(c) PROVE Wiring'
  BY <1>13 DEF Wiring, Load, shared, history
<1>14. ASSUME NEW c \in Contexts, Store(c) PROVE Wiring'
  BY <1>14 DEF Wiring, Store, history
<1>15. ASSUME NEW c \in Contexts, Put(c) PROVE Wiring'
  BY <1>15 DEF Wiring, Put, shared, history
<1>16. ASSUME NEW c \in Contexts, Send(c) PROVE Wiring'
  BY <1>16 DEF Wiring, Send, shared, HandOver
<1>17. ASSUME NEW c \in Contexts, Expire(c) PROVE Wiring'
  BY <1>17 DEF Wiring, Expire, history, Cancelled
<1>18. ASSUME NEW l \in Links, NEW k \in Kinds, NEW i \in Items, Publish(l, k, i) PROVE Wiring'
  BY <1>18 DEF Wiring, Publish, shared, history
<1>19. CASE UNCHANGED vars
  BY <1>19 DEF Wiring, vars
<1> QED
  BY <1>1, <1>2, <1>3, <1>4, <1>5, <1>6, <1>7, <1>8, <1>9, <1>10, <1>11, <1>12, <1>13,
     <1>14, <1>15, <1>16, <1>17, <1>18, <1>19 DEF Next, Call, CallerStep, MonitorStep

\* Once a context has handed an update over late its monitor is past the last
\* fetch it will ever complete, since a fetch fails on a done context.
LEMMA LateStep == TypeOK /\ Wiring /\ Handling /\ LateOnce /\ [Next]_vars => LateOnce'
<1> SUFFICES ASSUME TypeOK, Wiring, Handling, LateOnce, [Next]_vars PROVE LateOnce'
  OBVIOUS
<1> USE NoneAssumption, TransportAssumption, ClassAssumption, ChanCapAssumption
<1> USE DEF Kinds
<1>1. ASSUME NEW p \in Callers, NEW l \in Links, NEW c \in Contexts, FileCancel(p, l, c) PROVE LateOnce'
  BY <1>1 DEF LateOnce, FileCancel, history
<1>2. ASSUME NEW p \in Callers, Start(p) PROVE LateOnce'
  BY <1>2 DEF LateOnce, Start, shared, history
<1>3. ASSUME NEW p \in Callers, NEW l \in Links, Cancel(p, l) PROVE LateOnce'
  BY <1>3 DEF LateOnce, Cancel, history, Cancelled
<1>4. ASSUME NEW p \in Callers, DropCancel(p) PROVE LateOnce'
  BY <1>4 DEF LateOnce, DropCancel, history
<1>5. ASSUME NEW p \in Callers, Forget(p) PROVE LateOnce'
  BY <1>5 DEF LateOnce, Forget, history
<1>6. ASSUME NEW p \in Callers, StopBegin(p) PROVE LateOnce'
  BY <1>6 DEF LateOnce, StopBegin, shared, history
<1>7. ASSUME NEW p \in Callers, NEW l \in Links, StopVisit(p, l) PROVE LateOnce'
  BY <1>7 DEF LateOnce, StopVisit, history, Cancelled
<1>8. ASSUME NEW p \in Callers, StopEnd(p) PROVE LateOnce'
  BY <1>8 DEF LateOnce, StopEnd, shared, history
<1>9. ASSUME NEW c \in Contexts, Tick(c) PROVE LateOnce'
  BY <1>9 DEF LateOnce, Tick, shared, history
<1>10. ASSUME NEW c \in Contexts, Return(c) PROVE LateOnce'
  BY <1>10 DEF LateOnce, Return, shared, history
<1>11. ASSUME NEW c \in Contexts, FetchOk(c) PROVE LateOnce'
  <2>1. late[c] = 0 /\ late' = late /\ ctx' = ctx
    BY <1>11 DEF LateOnce, FetchOk, shared, history
  <2>2. \A d \in Contexts \ {c} : monitor'[d] = monitor[d]
    BY <1>11 DEF TypeOK, FetchOk
  <2> QED
    BY <2>1, <2>2 DEF LateOnce
<1>12. ASSUME NEW c \in Contexts, FetchFail(c) PROVE LateOnce'
  BY <1>12 DEF LateOnce, FetchFail, shared, history, Handled
<1>13. ASSUME NEW c \in Contexts, Load(c) PROVE LateOnce'
  BY <1>13 DEF LateOnce, Load, shared, history
<1>14. ASSUME NEW c \in Contexts, Store(c) PROVE LateOnce'
  BY <1>14 DEF LateOnce, Store, history
<1>15. ASSUME NEW c \in Contexts, Put(c) PROVE LateOnce'
  BY <1>15 DEF LateOnce, Put, shared, history
<1>16. ASSUME NEW c \in Contexts, Send(c) PROVE LateOnce'
  BY <1>16 DEF TypeOK, LateOnce, Send, shared, Handled, HandOver
<1>17. ASSUME NEW c \in Contexts, Expire(c) PROVE LateOnce'
  BY <1>17 DEF LateOnce, Expire, history, Cancelled
<1>18. ASSUME NEW l \in Links, NEW k \in Kinds, NEW i \in Items, Publish(l, k, i) PROVE LateOnce'
  BY <1>18 DEF LateOnce, Publish, shared, history
<1>19. CASE UNCHANGED vars
  BY <1>19 DEF LateOnce, vars
<1> QED
  BY <1>1, <1>2, <1>3, <1>4, <1>5, <1>6, <1>7, <1>8, <1>9, <1>10, <1>11, <1>12, <1>13,
     <1>14, <1>15, <1>16, <1>17, <1>18, <1>19 DEF Next, Call, CallerStep, MonitorStep

\* Every hand-over, done or in flight, has its own item in a channel: Put comes
\* before Send and nothing takes an item out.
LEMMA BudgetStep == TypeOK /\ Wiring /\ Handling /\ Budget /\ [Next]_vars => Budget'
<1> SUFFICES ASSUME TypeOK, Wiring, Handling, Budget, [Next]_vars PROVE Budget'
  OBVIOUS
<1> DEFINE Same == /\ handed' = handed
                   /\ buffered' = buffered
                   /\ \A k \in Kinds : InFlight(k)' = InFlight(k)
<1>a. \A k \in Kinds : IsFiniteSet(InFlight(k)) /\ Cardinality(InFlight(k)) \in Nat
  BY FiniteAssumption, FS_Subset, FS_CardinalityType DEF InFlight
<1>b. Same => Budget'
  BY DEF Budget
<1>1. ASSUME NEW p \in Callers, NEW l \in Links, NEW c \in Contexts, FileCancel(p, l, c) PROVE Same
  BY <1>1 DEF InFlight, FileCancel, history
<1>2. ASSUME NEW p \in Callers, Start(p) PROVE Same
  BY <1>2 DEF Wiring, InFlight, Start, history
<1>3. ASSUME NEW p \in Callers, NEW l \in Links, Cancel(p, l) PROVE Same
  BY <1>3 DEF InFlight, Cancel, history
<1>4. ASSUME NEW p \in Callers, DropCancel(p) PROVE Same
  BY <1>4 DEF InFlight, DropCancel, history
<1>5. ASSUME NEW p \in Callers, Forget(p) PROVE Same
  BY <1>5 DEF InFlight, Forget, history
<1>6. ASSUME NEW p \in Callers, StopBegin(p) PROVE Same
  BY <1>6 DEF InFlight, StopBegin, history
<1>7. ASSUME NEW p \in Callers, NEW l \in Links, StopVisit(p, l) PROVE Same
  BY <1>7 DEF InFlight, StopVisit, history
<1>8. ASSUME NEW p \in Callers, StopEnd(p) PROVE Same
  BY <1>8 DEF InFlight, StopEnd, history
<1>9. ASSUME NEW c \in Contexts, Tick(c) PROVE Same
  BY <1>9 DEF InFlight, Tick, history
<1>10. ASSUME NEW c \in Contexts, Return(c) PROVE Same
  BY <1>10 DEF InFlight, Return, history
<1>11. ASSUME NEW c \in Contexts, FetchOk(c) PROVE Same
  BY <1>11 DEF TypeOK, InFlight, FetchOk, history
<1>12. ASSUME NEW c \in Contexts, FetchFail(c) PROVE Same
  BY <1>12 DEF InFlight, FetchFail, history, Handled
<1>13. ASSUME NEW c \in Contexts, Load(c) PROVE Same
  BY <1>13 DEF InFlight, Load, history, Handled
<1>14. ASSUME NEW c \in Contexts, Store(c) PROVE Same
  BY <1>14 DEF InFlight, Store, history
<1>15. ASSUME NEW c \in Contexts, Put(c) PROVE Budget'
  <2>0. PICK j \in Kinds : j = monitor[c].kind
    BY <1>15 DEF Handling, Put
  <2>1. c \notin InFlight(j)
    BY <2>0, <1>15 DEF Put, InFlight
  <2>2. InFlight(j)' = InFlight(j) \cup {c}
    BY <2>0, <1>15, <2>1 DEF TypeOK, Put, InFlight
  <2>3. \A k \in Kinds \ {j} : InFlight(k)' = InFlight(k)
    BY <2>0, <1>15 DEF Put, InFlight
  <2>4. Cardinality(InFlight(j)') = Cardinality(InFlight(j)) + 1
    BY <2>0, <1>a, <2>1, <2>2, FS_AddElement
  <2>5. /\ buffered'[j] = buffered[j] + 1
        /\ \A k \in Kinds \ {j} : buffered'[k] = buffered[k]
        /\ handed' = handed
    BY <2>0, <1>15, <2>1 DEF TypeOK, Put, history
  <2>6. handed'[j] + Cardinality(InFlight(j)') <= buffered'[j]
    BY <2>0, <1>a, <2>1, <2>4, <2>5, ChanCapAssumption DEF TypeOK, Budget
  <2>7. \A k \in Kinds \ {j} : handed'[k] + Cardinality(InFlight(k)') <= buffered'[k]
    BY <2>0, <2>3, <2>5 DEF Budget
  <2> QED
    BY <2>6, <2>7 DEF Budget
<1>16. ASSUME NEW c \in Contexts, Send(c) PROVE Budget'
  <2>0. PICK j \in Kinds : j = monitor[c].kind
    BY <1>16 DEF Handling, Send
  <2>1. c \in InFlight(j)
    BY <2>0, <1>16 DEF Send, InFlight
  <2>2. monitor'[c].pc # "send" /\ \A d \in Contexts \ {c} : monitor'[d] = monitor[d]
    BY <2>0, <1>16 DEF TypeOK, Send, Handled
  <2>3. InFlight(j)' = InFlight(j) \ {c}
    BY <2>0, <2>2 DEF InFlight
  <2>4. ASSUME NEW k \in Kinds \ {j} PROVE InFlight(k)' = InFlight(k)
    <3>1. \A d \in Contexts : d \in InFlight(k)' <=> d \in InFlight(k)
      BY <2>0, <2>2 DEF InFlight
    <3> QED
      BY <3>1 DEF InFlight
  <2>5. Cardinality(InFlight(j)') = Cardinality(InFlight(j)) - 1
    BY <2>0, <1>a, <2>1, <2>3, FS_RemoveElement
  <2>6. /\ handed'[j] = handed[j] + 1
        /\ \A k \in Kinds \ {j} : handed'[k] = handed[k]
        /\ buffered' = buffered
    BY <2>0, <1>16, <2>1 DEF TypeOK, Send, HandOver
  <2>7. handed'[j] + Cardinality(InFlight(j)') <= buffered'[j]
    BY <2>0, <1>a, <2>1, <2>5, <2>6, ChanCapAssumption DEF TypeOK, Budget
  <2>8. \A k \in Kinds \ {j} : handed'[k] + Cardinality(InFlight(k)') <= buffered'[k]
    BY <2>0, <2>4, <2>6 DEF Budget
  <2> QED
    BY <2>7, <2>8 DEF Budget
<1>17. ASSUME NEW c \in Contexts, Expire(c) PROVE Same
  BY <1>17 DEF InFlight, Expire, history
<1>18. ASSUME NEW l \in Links, NEW k \in Kinds, NEW i \in Items, Publish(l, k, i) PROVE Same
  BY <1>18 DEF InFlight, Publish, history
<1>19. CASE UNCHANGED vars
  <2>1. Same
    BY <1>19 DEF InFlight, vars
  <2> QED
    BY <1>b, <2>1
<1> HIDE DEF Same
<1> QED
  BY <1>b, <1>1, <1>2, <1>3, <1>4, <1>5, <1>6, <1>7, <1>8, <1>9, <1>10, <1>11, <1>12,
     <1>13, <1>14, <1>15, <1>16, <1>17, <1>18, <1>19 DEF Next, Call, CallerStep,
     MonitorStep

\* A hand-over to updateChan does not fail; only SendUpdate over http does.
LEMMA NoneLostStep == NoneLost /\ [Next]_vars => NoneLost'
<1> SUFFICES ASSUME NoneLost, [Next]_vars PROVE NoneLost'
  OBVIOUS
<1>1. ASSUME NEW c \in Contexts, Send(c) PROVE NoneLost'
  BY <1>1 DEF NoneLost, Send, HandOver
<1>2. (\A c \in Contexts : ~Send(c)) => lost' = lost
  BY DEF Next, vars, Call, CallerStep, MonitorStep, FileCancel, Start, Cancel, DropCancel,
     Forget,
         StopBegin, StopVisit, StopEnd, Tick, Return, FetchOk, FetchFail, Load, Store, Put,
         Expire, Publish, history
<1> QED
  BY <1>1, <1>2 DEF NoneLost

\* What is remembered for a link with a sole live context stays what that
\* context told last or is about to tell: no other monitor stores for the link and
\* RemoveLink forgets only for a link whose context it cancelled.
LEMMA RememberedStep == TypeOK /\ Wiring /\ Handling /\ Remembered /\ [Next]_vars => Remembered'
<1> SUFFICES ASSUME TypeOK, Wiring, Handling, Remembered, [Next]_vars PROVE Remembered'
  OBVIOUS
<1> USE NoneAssumption, TransportAssumption, ClassAssumption, ChanCapAssumption
<1> USE DEF Kinds
<1> DEFINE Kept(c) ==
      /\ cancelFuncs[linkOf[c]] = c
      /\ \A k \in Kinds :
           IF Pending(c, k)
             THEN latest[k][linkOf[c]] = monitor[c].item /\ told[c][k] # monitor[c].item
             ELSE latest[k][linkOf[c]] = told[c][k]
      /\ monitor[c].pc = "store" =>
           latest[monitor[c].kind][linkOf[c]] # monitor[c].item
<1>1. ASSUME NEW p \in Callers, NEW l \in Links, NEW c \in Contexts, FileCancel(p, l, c) PROVE Remembered'
  <2>1. /\ \A d \in Contexts : linkOf'[d] = IF d = c THEN l ELSE linkOf[d]
        /\ \A d \in Contexts : ctx'[d] = IF d = c THEN "live" ELSE ctx[d]
        /\ \A m \in Links : cancelFuncs'[m] = IF m = l THEN c ELSE cancelFuncs[m]
        /\ latest' = latest /\ monitor' = monitor /\ told' = told
    BY <1>1 DEF TypeOK, FileCancel, history
  <2>2. linkOf[c] = None /\ monitor[c].pc = "none" /\ \A k \in Kinds : told[c][k] = None
    BY <1>1 DEF FileCancel, Wiring
  <2>3. \A m \in Links, k \in Kinds :
          (\A d \in Contexts : linkOf'[d] # m) => latest'[k][m] = None
    BY <2>1, <2>2 DEF Remembered
  <2>4. ASSUME NEW d \in Contexts, Sole(d)', ctx'[d] = "live" PROVE Kept(d)'
    <3>1. CASE d = c
      <4>1. \A e \in Contexts : linkOf[e] # l
        BY <2>1, <2>2, <2>4, <3>1 DEF Sole
      <4>2. \A k \in Kinds : latest[k][l] = None
        BY <4>1 DEF Remembered
      <4> QED
        BY <2>1, <2>2, <3>1, <4>2 DEF Pending
    <3>2. CASE d # c
      <4>1. linkOf[d] # l /\ linkOf[d] \in Links /\ Sole(d) /\ ctx[d] = "live"
        BY <2>1, <2>2, <2>4, <3>2 DEF TypeOK, Sole, Wiring
      <4>2. Kept(d)
        BY <4>1 DEF Remembered
      <4> QED
        BY <2>1, <3>2, <4>1, <4>2 DEF Pending
    <3> QED
      BY <3>1, <3>2
  <2> QED
    BY <2>3, <2>4 DEF Remembered
<1>2. ASSUME NEW p \in Callers, Start(p) PROVE Remembered'
  BY <1>2 DEF Wiring, Remembered, Sole, Pending, Start, shared, history
<1>3. ASSUME NEW p \in Callers, NEW l \in Links, Cancel(p, l) PROVE Remembered'
  BY <1>3 DEF Remembered, Sole, Pending, Cancel, history, Cancelled
<1>4. ASSUME NEW p \in Callers, DropCancel(p) PROVE Remembered'
  BY <1>4 DEF Wiring, Remembered, Sole, Pending, DropCancel, history
<1>5. ASSUME NEW p \in Callers, Forget(p) PROVE Remembered'
  <2>1. \A l \in Links, k \in Kinds :
          (\A c \in Contexts : linkOf'[c] # l) => latest'[k][l] = None
    BY <1>5 DEF Remembered, Forget
  <2>2. ASSUME NEW c \in Contexts, Sole(c)', ctx'[c] = "live" PROVE Kept(c)'
    <3>1. Sole(c) /\ ctx[c] = "live" /\ linkOf[c] \in Links
      BY <1>5, <2>2 DEF TypeOK, Forget, Sole, Wiring
    <3>2. linkOf[c] # caller[p].link
      BY <1>5, <3>1 DEF Forget, Sole, Wiring
    <3>3. \A k \in Kinds : latest'[k][linkOf[c]] = latest[k][linkOf[c]]
      BY <1>5, <3>1, <3>2 DEF Forget
    <3>4. Kept(c)
      BY <3>1 DEF Remembered
    <3>5. monitor[c].pc = "store" => monitor[c].kind \in Kinds
      BY DEF Handling
    <3> QED
      BY <1>5, <3>3, <3>4, <3>5 DEF Forget, Pending, history
  <2> QED
    BY <2>1, <2>2 DEF Remembered
<1>6. ASSUME NEW p \in Callers, StopBegin(p) PROVE Remembered'
  BY <1>6 DEF Remembered, Sole, Pending, StopBegin, shared, history
<1>7. ASSUME NEW p \in Callers, NEW l \in Links, StopVisit(p, l) PROVE Remembered'
  BY <1>7 DEF Remembered, Sole, Pending, StopVisit, history, Cancelled
<1>8. ASSUME NEW p \in Callers, StopEnd(p) PROVE Remembered'
  BY <1>8 DEF Remembered, Sole, Pending, StopEnd, shared, history
<1>9. ASSUME NEW c \in Contexts, Tick(c) PROVE Remembered'
  BY <1>9 DEF Remembered, Sole, Pending, Tick, shared, history
<1>10. ASSUME NEW c \in Contexts, Return(c) PROVE Remembered'
  BY <1>10 DEF Remembered, Sole, Pending, Return, shared, history
<1>11. ASSUME NEW c \in Contexts, FetchOk(c) PROVE Remembered'
  <2>1. monitor'[c].pc = "load" /\ \A d \in Contexts \ {c} : monitor'[d] = monitor[d]
    BY <1>11 DEF TypeOK, FetchOk
  <2>2. ASSUME NEW d \in Contexts, Sole(d)', ctx'[d] = "live" PROVE Kept(d)'
    <3>1. Kept(d)
      BY <1>11, <2>2 DEF FetchOk, Sole, Remembered, shared
    <3>2. monitor[c].pc = "fetch"
      BY <1>11 DEF FetchOk
    <3> QED
      BY <1>11, <2>1, <3>1, <3>2 DEF FetchOk, Pending, shared, history
  <2>3. ASSUME NEW l \in Links, NEW k \in Kinds, \A e \in Contexts : linkOf'[e] # l
        PROVE  latest'[k][l] = None
    BY <1>11, <2>3 DEF FetchOk, Remembered, shared
  <2> QED
    BY <2>2, <2>3 DEF Remembered
<1>12. ASSUME NEW c \in Contexts, FetchFail(c) PROVE Remembered'
  BY <1>12 DEF Remembered, Sole, Pending, FetchFail, shared, history, Handled
<1>13. ASSUME NEW c \in Contexts, Load(c) PROVE Remembered'
  BY <1>13 DEF Remembered, Sole, Pending, Load, shared, history, Handled
<1>14. ASSUME NEW c \in Contexts, Store(c) PROVE Remembered'
  <2>1. /\ monitor'[c].pc = "put"
        /\ monitor'[c].kind = monitor[c].kind
        /\ monitor'[c].item = monitor[c].item
        /\ \A d \in Contexts \ {c} : monitor'[d] = monitor[d]
    BY <1>14 DEF TypeOK, Store
  <2>2. monitor[c].kind \in Kinds /\ linkOf[c] \in Links /\ monitor[c].pc = "store"
    BY <1>14 DEF TypeOK, Wiring, Handling, Store
  <2>3. \A k \in Kinds, l \in Links :
          latest'[k][l] = IF k = monitor[c].kind /\ l = linkOf[c]
                            THEN monitor[c].item ELSE latest[k][l]
    BY <1>14 DEF TypeOK, Store
  <2>4. \A l \in Links, k \in Kinds :
          (\A d \in Contexts : linkOf'[d] # l) => latest'[k][l] = None
    BY <1>14, <2>3 DEF Remembered, Store
  <2>5. ASSUME NEW d \in Contexts, Sole(d)', ctx'[d] = "live" PROVE Kept(d)'
    <3>1. Sole(d) /\ ctx[d] = "live" /\ linkOf[d] \in Links
      BY <1>14, <2>5 DEF TypeOK, Store, Sole, Wiring
    <3>2. Kept(d)
      BY <3>1 DEF Remembered
    <3>3. CASE d = c
      BY <1>14, <2>1, <2>2, <2>3, <3>2, <3>3 DEF Store, Pending, history
    <3>4. CASE d # c
      <4>1. linkOf[c] # linkOf[d] /\ monitor'[d] = monitor[d]
        BY <2>1, <3>1, <3>4 DEF Sole
      <4>2. \A k \in Kinds : latest'[k][linkOf[d]] = latest[k][linkOf[d]]
        BY <2>3, <3>1, <4>1
      <4>3. monitor[d].pc = "store" => monitor[d].kind \in Kinds
        BY DEF Handling
      <4> QED
        BY <1>14, <3>2, <4>1, <4>2, <4>3 DEF Store, Pending, history
    <3> QED
      BY <3>3, <3>4
  <2> QED
    BY <2>4, <2>5 DEF Remembered
<1>15. ASSUME NEW c \in Contexts, Put(c) PROVE Remembered'
  BY <1>15 DEF Remembered, Sole, Pending, Put, shared, history
<1>16. ASSUME NEW c \in Contexts, Send(c) PROVE Remembered'
  BY <1>16 DEF TypeOK, Remembered, Sole, Pending, Send, shared, Handled, HandOver
<1>17. ASSUME NEW c \in Contexts, Expire(c) PROVE Remembered'
  BY <1>17 DEF Remembered, Sole, Pending, Expire, history, Cancelled
<1>18. ASSUME NEW l \in Links, NEW k \in Kinds, NEW i \in Items, Publish(l, k, i) PROVE Remembered'
  BY <1>18 DEF Remembered, Sole, Pending, Publish, shared, history
<1>19. CASE UNCHANGED vars
  BY <1>19 DEF Remembered, Sole, Pending, vars
<1> QED
  BY <1>1, <1>2, <1>3, <1>4, <1>5, <1>6, <1>7, <1>8, <1>9, <1>10, <1>11, <1>12, <1>13,
     <1>14, <1>15, <1>16, <1>17, <1>18, <1>19 DEF Next, Call, CallerStep, MonitorStep

\* Store and Forget leave, for everything remembered, a monitor that told it last
\* or is about to.
LEMMA StoredStep == TypeOK /\ Wiring /\ Handling /\ StoredByAnnouncer /\ [Next]_vars
                      => StoredByAnnouncer'
<1> SUFFICES ASSUME TypeOK, Wiring, Handling, StoredByAnnouncer, [Next]_vars
             PROVE StoredByAnnouncer'
  OBVIOUS
<1> DEFINE Announces(c, k, v) == IF Pending(c, k) THEN monitor[c].item = v ELSE told[c][k] = v
<1> DEFINE Keep == /\ latest' = latest
                   /\ linkOf' = linkOf
                   /\ told' = told
                   /\ \A c \in Contexts, k \in Kinds :
                        /\ Pending(c, k)' <=> Pending(c, k)
                        /\ Pending(c, k) => monitor'[c].item = monitor[c].item
<1>b. ASSUME Keep PROVE StoredByAnnouncer'
  <2> SUFFICES ASSUME NEW k \in Kinds, NEW l \in Links, latest'[k][l] # None
               PROVE \E c \in Contexts : linkOf'[c] = l /\ Announces(c, k, latest[k][l])'
    BY <1>b DEF StoredByAnnouncer
  <2>1. PICK c \in Contexts : linkOf[c] = l /\ Announces(c, k, latest[k][l])
    BY <1>b DEF StoredByAnnouncer
  <2>2. linkOf'[c] = l /\ Announces(c, k, latest[k][l])'
    BY <1>b, <2>1
  <2> QED
    BY <2>2
<1>1. ASSUME NEW p \in Callers, NEW l \in Links, NEW c \in Contexts, FileCancel(p, l, c) PROVE StoredByAnnouncer'
  <2> SUFFICES ASSUME NEW k \in Kinds, NEW m \in Links, latest'[k][m] # None
               PROVE \E d \in Contexts : linkOf'[d] = m /\ Announces(d, k, latest[k][m])'
    BY DEF StoredByAnnouncer
  <2>1. PICK d \in Contexts : linkOf[d] = m /\ Announces(d, k, latest[k][m])
    BY <1>1 DEF StoredByAnnouncer, FileCancel
  <2>2. d # c
    BY <1>1, <2>1, NoneAssumption DEF FileCancel, Wiring
  <2>3. linkOf'[d] = m /\ Announces(d, k, latest[k][m])'
    BY <1>1, <2>1, <2>2 DEF FileCancel, history, Pending
  <2> QED
    BY <2>3
<1>2. ASSUME NEW p \in Callers, Start(p) PROVE Keep
  BY <1>2 DEF Wiring, Pending, Start, shared, history
<1>3. ASSUME NEW p \in Callers, NEW l \in Links, Cancel(p, l) PROVE Keep
  BY <1>3 DEF Pending, Cancel, history
<1>4. ASSUME NEW p \in Callers, DropCancel(p) PROVE Keep
  BY <1>4 DEF Pending, DropCancel, history
<1>5. ASSUME NEW p \in Callers, Forget(p) PROVE StoredByAnnouncer'
  <2> SUFFICES ASSUME NEW k \in Kinds, NEW m \in Links, latest'[k][m] # None
               PROVE \E d \in Contexts : linkOf'[d] = m /\ Announces(d, k, latest[k][m])'
    BY DEF StoredByAnnouncer
  <2>1. latest'[k][m] = latest[k][m]
    BY <1>5 DEF Forget
  <2>2. PICK d \in Contexts : linkOf[d] = m /\ Announces(d, k, latest[k][m])
    BY <2>1 DEF StoredByAnnouncer
  <2>3. linkOf'[d] = m /\ Announces(d, k, latest[k][m])'
    BY <1>5, <2>1, <2>2 DEF Forget, history, Pending
  <2> QED
    BY <2>3
<1>6. ASSUME NEW p \in Callers, StopBegin(p) PROVE Keep
  BY <1>6 DEF Pending, StopBegin, shared, history
<1>7. ASSUME NEW p \in Callers, NEW l \in Links, StopVisit(p, l) PROVE Keep
  BY <1>7 DEF Pending, StopVisit, history
<1>8. ASSUME NEW p \in Callers, StopEnd(p) PROVE Keep
  BY <1>8 DEF Pending, StopEnd, shared, history
<1>9. ASSUME NEW c \in Contexts, Tick(c) PROVE Keep
  BY <1>9 DEF Pending, Tick, shared, history
<1>10. ASSUME NEW c \in Contexts, Return(c) PROVE Keep
  BY <1>10 DEF Pending, Return, shared, history
<1>11. ASSUME NEW c \in Contexts, FetchOk(c) PROVE Keep
  BY <1>11 DEF TypeOK, Pending, FetchOk, shared, history
<1>12. ASSUME NEW c \in Contexts, FetchFail(c) PROVE Keep
  BY <1>12 DEF Pending, FetchFail, shared, history, Handled
<1>13. ASSUME NEW c \in Contexts, Load(c) PROVE Keep
  BY <1>13 DEF Pending, Load, shared, history, Handled
<1>14. ASSUME NEW c \in Contexts, Store(c) PROVE StoredByAnnouncer'
  <2> SUFFICES ASSUME NEW k \in Kinds, NEW m \in Links, latest'[k][m] # None
               PROVE \E d \in Contexts : linkOf'[d] = m /\ Announces(d, k, latest[k][m])'
    BY DEF StoredByAnnouncer
  <2>1. monitor'[c].pc = "put" /\ monitor'[c].kind = monitor[c].kind
          /\ monitor'[c].item = monitor[c].item
    BY <1>14 DEF TypeOK, Store
  <2>2. CASE k = monitor[c].kind /\ m = linkOf[c]
    <3>1. linkOf'[c] = m /\ Announces(c, k, latest[k][m])'
      BY <1>14, <2>1, <2>2 DEF TypeOK, Store, Pending
    <3> QED
      BY <3>1
  <2>3. CASE ~(k = monitor[c].kind /\ m = linkOf[c])
    <3>1. latest'[k][m] = latest[k][m]
      BY <1>14, <2>3 DEF Store
    <3>2. PICK d \in Contexts : linkOf[d] = m /\ Announces(d, k, latest[k][m])
      BY <3>1 DEF StoredByAnnouncer
    <3>3. CASE d = c
      <4>1. ~Pending(c, k) /\ ~Pending(c, k)'
        BY <1>14, <2>1, <2>3, <3>2, <3>3 DEF Pending
      <4> QED
        BY <1>14, <3>1, <3>2, <3>3, <4>1 DEF Store, history
    <3>4. CASE d # c
      <4>1. monitor'[d] = monitor[d]
        BY <1>14, <3>4 DEF Store
      <4>2. linkOf'[d] = m /\ Announces(d, k, latest[k][m])'
        BY <1>14, <3>1, <3>2, <4>1 DEF Store, history, Pending
      <4> QED
        BY <4>2
    <3> QED
      BY <3>3, <3>4
  <2> QED
    BY <2>2, <2>3
<1>15. ASSUME NEW c \in Contexts, Put(c) PROVE Keep
  BY <1>15 DEF Pending, Put, shared, history
<1>16. ASSUME NEW c \in Contexts, Send(c) PROVE StoredByAnnouncer'
  <2> SUFFICES ASSUME NEW k \in Kinds, NEW m \in Links, latest'[k][m] # None
               PROVE \E d \in Contexts : linkOf'[d] = m /\ Announces(d, k, latest[k][m])'
    BY DEF StoredByAnnouncer
  <2>1. latest' = latest /\ linkOf' = linkOf
    BY <1>16 DEF Send, shared
  <2>2. PICK d \in Contexts : linkOf[d] = m /\ Announces(d, k, latest[k][m])
    BY <2>1 DEF StoredByAnnouncer
  <2>3. CASE d = c
    <3>1. monitor'[c].pc \notin {"put", "send"}
      BY <1>16 DEF TypeOK, Send, Handled
    <3>2. told' = [told EXCEPT ![c][monitor[c].kind] = monitor[c].item]
      BY <1>16 DEF Send, HandOver
    <3>3. Pending(c, k) <=> k = monitor[c].kind
      BY <1>16 DEF Send, Pending
    <3>4. told'[c][k] = latest[k][m]
      BY <2>2, <2>3, <3>2, <3>3 DEF TypeOK
    <3> QED
      BY <2>1, <2>2, <2>3, <3>1, <3>4 DEF Pending
  <2>4. CASE d # c
    <3>1. monitor'[d] = monitor[d] /\ told'[d] = told[d]
      BY <1>16, <2>4 DEF Send, HandOver
    <3>2. linkOf'[d] = m /\ Announces(d, k, latest[k][m])'
      BY <2>1, <2>2, <3>1 DEF Pending
    <3> QED
      BY <3>2
  <2> QED
    BY <2>3, <2>4
<1>17. ASSUME NEW c \in Contexts, Expire(c) PROVE Keep
  BY <1>17 DEF Pending, Expire, history
<1>18. ASSUME NEW l \in Links, NEW k \in Kinds, NEW i \in Items, Publish(l, k, i) PROVE Keep
  BY <1>18 DEF Pending, Publish, shared, history
<1>19. CASE UNCHANGED vars
  <2>1. Keep
    BY <1>19 DEF Pending, vars
  <2> QED
    BY <1>b, <2>1
<1> HIDE DEF Keep
<1> QED
  BY <1>b, <1>1, <1>2, <1>3, <1>4, <1>5, <1>6, <1>7, <1>8, <1>9, <1>10, <1>11, <1>12,
     <1>13, <1>14, <1>15, <1>16, <1>17, <1>18, <1>19 DEF Next, Call, CallerStep,
     MonitorStep

-----------------------------------------------------------------------------
(* The theorems. *)

\* Before the first call of AddLink nothing is filed, remembered or in flight.
LEMMA InitIInv == Init => IInv
<1> SUFFICES ASSUME Init PROVE IInv
  OBVIOUS
<1> USE NoneAssumption, ChanCapAssumption
<1>1. TypeOK
  BY DEF TypeOK, Init, MonitorStates, CallerStates, MonitorNew, CallerIdle
<1>2. Wiring
  BY DEF Wiring, Init, MonitorNew, CallerIdle, Kinds
<1>3. Handling /\ LateOnce
  BY DEF Handling, LateOnce, Init, MonitorNew
<1>4. Budget
  <2>1. \A k \in Kinds : InFlight(k) = {}
    BY DEF InFlight, Init, MonitorNew
  <2>2. \A k \in Kinds : handed[k] = 0 /\ buffered[k] = 0
    BY DEF Init
  <2> QED
    BY <2>1, <2>2, FS_EmptySet DEF Budget
<1>5. Remembered
  BY DEF Remembered, Init
<1>6. StoredByAnnouncer /\ NoneLost
  BY DEF StoredByAnnouncer, NoneLost, Init
<1> QED
  BY <1>1, <1>2, <1>3, <1>4, <1>5, <1>6 DEF IInv

\* IInv is inductive.
LEMMA IInvStep == IInv /\ [Next]_vars => IInv'
  BY TypeStep, HandlingStep, WiringStep, LateStep, BudgetStep, NoneLostStep,
     RememberedStep, StoredStep DEF IInv

\* Every reachable state satisfies the inductive invariant.
THEOREM Invariance == Spec => []IInv
  BY InitIInv, IInvStep, PTL DEF Spec

\* Each goroutine is at a step of its own code with the locals that step needs,
\* and no channel holds more than its capacity.
THEOREM TypeCorrectness == Spec => []TypeOK
<1>1. IInv => TypeOK
  BY DEF IInv
<1> QED
  BY Invariance, <1>1, PTL

\* A scrapper process announces at most ChanCap commits, pull requests and
\* answers each, over all links and users together.
THEOREM BoundedUpdates == Spec => []UpdateBudget
<1>1. IInv => UpdateBudget
  <2> SUFFICES ASSUME IInv, NEW k \in Kinds PROVE handed[k] <= ChanCap
    BY DEF UpdateBudget
  <2>1. handed[k] + Cardinality(InFlight(k)) <= buffered[k]
    BY DEF IInv, Budget
  <2>2. Cardinality(InFlight(k)) \in Nat
    BY FiniteAssumption, FS_Subset, FS_CardinalityType DEF InFlight
  <2>3. handed[k] \in Nat /\ buffered[k] \in 0..ChanCap
    BY DEF IInv, TypeOK
  <2> QED
    BY <2>1, <2>2, <2>3, ChanCapAssumption
<1> QED
  BY Invariance, <1>1, PTL

\* After RemoveLink, Stop or the timeout a monitor hands over at most one update.
THEOREM OneLateUpdate == Spec => []AtMostOneLate
<1>1. IInv => AtMostOneLate
  BY DEF IInv, LateOnce, AtMostOneLate
<1> QED
  BY Invariance, <1>1, PTL

\* A subscription that never shared its link is not told an item twice running.
THEOREM NothingRepeated == Spec => []NoRepeat
<1>1. IInv => NoRepeat
  BY DEF IInv, Remembered, NoRepeat
<1> QED
  BY Invariance, <1>1, PTL

\* RemoveLink can still cancel the running monitor of a link that was added once.
THEOREM Cancellable == Spec => []SoleIsCancellable
<1>1. IInv => SoleIsCancellable
  BY DEF IInv, Remembered, SoleIsCancellable
<1> QED
  BY Invariance, <1>1, PTL

\* Over Kafka, what latest* remembers of a link was announced by one of the
\* link's monitors, or is about to be.
THEOREM NothingHidden ==
  ASSUME MessageTransport = "kafka"
  PROVE  Spec => []StoredIsAnnounced
<1>1. IInv => StoredIsAnnounced
  BY NoneAssumption DEF IInv, StoredByAnnouncer, NoneLost, StoredIsAnnounced
<1> QED
  BY Invariance, <1>1, PTL
=============================================================================
