------------------------------ MODULE Scheduler ------------------------------
(***************************************************************************)
(* internal/scrapper/application/scheduler/scheduler.go.                   *)
(*                                                                         *)
(* AddLink makes a context with a timeout of one hour, files its cancel    *)
(* function in cancelFuncs under the link and starts a goroutine, the      *)
(* monitor, that polls the link once a minute.  A monitor reads the newest *)
(* item of a feed, compares it with the one remembered for the link in a   *)
(* sync.Map the monitors of that link share and, when they differ,         *)
(* remembers the new one, puts it into a channel of capacity ten and hands *)
(* an update to the transport.  RemoveLink cancels the context filed under *)
(* the link and forgets what was remembered.                               *)
(*                                                                         *)
(* Every step of a goroutine that touches shared state is an action of its *)
(* own.  A context stands for the call of AddLink that made it, hence also *)
(* for the userID and linkID that the updates of its monitor carry.        *)
(***************************************************************************)
EXTENDS Integers, FiniteSets

CONSTANTS
    Links,             \* the URLs AddLink and RemoveLink are called with
    Class,             \* Links -> Classes: the case of AddLink's switch
    Contexts,          \* one per AddLink call that gets as far as making one
    Callers,           \* the request goroutines of the scrapper
    Items,             \* what GitHub or StackOverflow may list first
    None,
    ChanCap,           \* capacity of commitChan, prChan and answerChan
    MessageTransport   \* config.MessageTransport: config.Load takes two values

\* repo      a github.com URL with an owner and a repository
\* question  a stackoverflow.com question with a numeric id and a title
\* rejected  filed in cancelFuncs, then refused: another site, an id Atoi rejects
\* short     filed, then a panic: the path has no parts[4], or no parts[5]
Classes == {"repo", "question", "rejected", "short"}
Kinds == {"Commit", "PullRequest", "Answer"}

ASSUME ClassAssumption == Class \in [Links -> Classes]
ASSUME NoneAssumption ==
    None \notin Links /\ None \notin Contexts /\ None \notin Items
ASSUME FiniteAssumption == IsFiniteSet(Contexts)
ASSUME ChanCapAssumption == ChanCap \in Nat
ASSUME TransportAssumption == MessageTransport \in {"kafka", "http"}

VARIABLES
    cancelFuncs,  \* Links -> the context whose cancel function is filed
    ctx,          \* Contexts -> "unused", "live" or "done" (ctx.Done() closed)
    linkOf,       \* Contexts -> the link its AddLink was called with
    latest,       \* Kinds -> Links -> latestCommitSHA, latestPR, latestSOAnswer
    buffered,     \* Kinds -> Len of commitChan, prChan, answerChan
    monitor,      \* Contexts -> [pc, kind, item]: the monitor's goroutine
    caller,       \* Callers -> [pc, link, ctx, todo]: AddLink, RemoveLink or Stop
    feed,         \* Links -> Kinds -> the item the site lists first
    \* what the properties talk about, never read by an action
    told,         \* Contexts -> Kinds -> the item last handed to the transport
    lost,         \* the <<context, kind>> whose last hand-over failed
    handed,       \* Kinds -> number of updates handed to the transport
    late          \* Contexts -> those handed over after ctx.Done() was closed

shared == <<cancelFuncs, ctx, linkOf, latest>>
history == <<told, lost, handed, late>>
vars == <<cancelFuncs, ctx, linkOf, latest, buffered, monitor, caller, feed,
          told, lost, handed, late>>

CallerIdle == [pc |-> "idle", link |-> None, ctx |-> None, todo |-> {}]
MonitorNew == [pc |-> "none", kind |-> None, item |-> None]

\* The feeds a monitor of link l polls, MonitorRepo or MonitorStackOverflow.
KindsOf(l) == CASE Class[l] = "repo" -> {"Commit", "PullRequest"}
                [] Class[l] = "question" -> {"Answer"}
                [] OTHER -> {}

Init ==
    /\ cancelFuncs = [l \in Links |-> None]
    /\ ctx = [c \in Contexts |-> "unused"]
    /\ linkOf = [c \in Contexts |-> None]
    /\ latest = [k \in Kinds |-> [l \in Links |-> None]]
    /\ buffered = [k \in Kinds |-> 0]
    /\ monitor = [c \in Contexts |-> MonitorNew]
    /\ caller = [p \in Callers |-> CallerIdle]
    /\ feed = [l \in Links |-> [k \in Kinds |-> None]]
    /\ told = [c \in Contexts |-> [k \in Kinds |-> None]]
    /\ lost = {}
    /\ handed = [k \in Kinds |-> 0]
    /\ late = [c \in Contexts |-> 0]

-----------------------------------------------------------------------------
(* AddLink, in the goroutine of a caller.  A link of fewer than four parts *)
(* is refused before any state changes, so it has no action.               *)

\* context.WithTimeout and cancelFuncs.Store, ahead of the switch.
FileCancel(p, l, c) ==
    /\ caller[p].pc = "idle"
    /\ ctx[c] = "unused"
    /\ ctx' = [ctx EXCEPT ![c] = "live"]
    /\ linkOf' = [linkOf EXCEPT ![c] = l]
    /\ cancelFuncs' = [cancelFuncs EXCEPT ![l] = c]
    /\ caller' = [caller EXCEPT ![p] = [CallerIdle EXCEPT !.pc = "start", !.link = l, !.ctx = c]]
    /\ UNCHANGED <<latest, buffered, monitor, feed, history>>

\* The switch: start a monitor, or fail (or panic) and leave the entry behind.
Start(p) ==
    /\ caller[p].pc = "start"
    /\ monitor' = IF KindsOf(caller[p].link) = {} THEN monitor
                  ELSE [monitor EXCEPT ![caller[p].ctx].pc = "select"]
    /\ caller' = [caller EXCEPT ![p] = CallerIdle]
    /\ UNCHANGED <<shared, buffered, feed, history>>

-----------------------------------------------------------------------------
(* RemoveLink and Stop. *)

Cancelled(S) == [c \in Contexts |-> IF c \in S THEN "done" ELSE ctx[c]]

\* Mutant of Cancel: the cancel function is loaded but not called.
CancelUncalled(p, l) ==
    /\ caller[p].pc = "idle"
    /\ cancelFuncs[l] # None
    /\ caller' = [caller EXCEPT ![p] = [CallerIdle EXCEPT !.pc = "drop", !.link = l]]
    /\ UNCHANGED <<shared, buffered, monitor, feed, history>>

\* cancelFuncs.Load and the call of what it found, in one step: between the two the
\* context, still live, could be replaced in cancelFuncs, and no property depends on
\* whether it is cancelled just before or just after.  Without an entry RemoveLink
\* does nothing.
Cancel(p, l) ==
    /\ caller[p].pc = "idle"
    /\ cancelFuncs[l] # None
    /\ ctx' = Cancelled({cancelFuncs[l]})
    /\ caller' = [caller EXCEPT ![p] = [CallerIdle EXCEPT !.pc = "drop", !.link = l]]
    /\ UNCHANGED <<cancelFuncs, linkOf, latest, buffered, monitor, feed, history>>

\* cancelFuncs.Delete.
DropCancel(p) ==
    /\ caller[p].pc = "drop"
    /\ cancelFuncs' = [cancelFuncs EXCEPT ![caller[p].link] = None]
    /\ caller' = [caller EXCEPT ![p].pc = "Commit"]
    /\ UNCHANGED <<ctx, linkOf, latest, buffered, monitor, feed, history>>

\* The order in which RemoveLink empties the three maps.
AfterForget == [Commit |-> "PullRequest", PullRequest |-> "Answer", Answer |-> "idle"]

\* latestCommitSHA.Delete, latestPR.Delete and latestSOAnswer.Delete.
Forget(p) ==
    /\ caller[p].pc \in Kinds
    /\ latest' = [latest EXCEPT ![caller[p].pc][caller[p].link] = None]
    /\ caller' = IF caller[p].pc = "Answer"
                   THEN [caller EXCEPT ![p] = CallerIdle]
                   ELSE [caller EXCEPT ![p].pc = AfterForget[caller[p].pc]]
    /\ UNCHANGED <<cancelFuncs, ctx, linkOf, buffered, monitor, feed, history>>

\* Stop: Range visits every key once, in any order, and may or may not see an
\* entry filed while it runs.
StopBegin(p) ==
    /\ caller[p].pc = "idle"
    /\ caller' = [caller EXCEPT ![p] = [CallerIdle EXCEPT !.pc = "stop", !.todo = Links]]
    /\ UNCHANGED <<shared, buffered, monitor, feed, history>>

StopVisit(p, l) ==
    /\ caller[p].pc = "stop"
    /\ l \in caller[p].todo
    /\ ctx' = Cancelled({cancelFuncs[l]})
    /\ caller' = [caller EXCEPT ![p].todo = @ \ {l}]
    /\ UNCHANGED <<cancelFuncs, linkOf, latest, buffered, monitor, feed, history>>

StopEnd(p) ==
    /\ caller[p].pc = "stop"
    /\ caller[p].todo = {}
    /\ caller' = [caller EXCEPT ![p] = CallerIdle]
    /\ UNCHANGED <<shared, buffered, monitor, feed, history>>

-----------------------------------------------------------------------------
(* MonitorRepo with HandleCommits and HandlePullRequests, and              *)
(* MonitorStackOverflow, in the monitor's goroutine.                       *)

\* Mutant of Handled: MonitorRepo goes on to the next tick after HandleCommits.
HandledOnce(k) == [MonitorNew EXCEPT !.pc = "select"]

\* A monitor that has finished with kind k: HandlePullRequests follows
\* HandleCommits whatever that returned; otherwise back to the select.
Handled(k) == IF k = "Commit"
                THEN [pc |-> "fetch", kind |-> "PullRequest", item |-> None]
                ELSE [MonitorNew EXCEPT !.pc = "select"]

\* select, case <-ticker.C.  With ctx.Done() closed as well Go picks either case.
Tick(c) ==
    /\ monitor[c].pc = "select"
    /\ monitor' = [monitor EXCEPT ![c] =
                     [pc |-> "fetch", item |-> None,
                      kind |-> IF Class[linkOf[c]] = "repo" THEN "Commit" ELSE "Answer"]]
    /\ UNCHANGED <<shared, buffered, caller, feed, history>>

\* Mutant of Return: break in place of return, which leaves only the select.
ReturnBreaks(c) ==
    /\ monitor[c].pc = "select"
    /\ ctx[c] = "done"
    /\ UNCHANGED vars

\* select, case <-ctx.Done().
Return(c) ==
    /\ monitor[c].pc = "select"
    /\ ctx[c] = "done"
    /\ monitor' = [monitor EXCEPT ![c] = [MonitorNew EXCEPT !.pc = "stopped"]]
    /\ UNCHANGED <<shared, buffered, caller, feed, history>>

\* Mutant of FetchOk: the request does not carry ctx.
FetchDetached(c) ==
    LET newest == feed[linkOf[c]][monitor[c].kind] IN
    /\ monitor[c].pc = "fetch"
    /\ newest # None
    /\ monitor' = [monitor EXCEPT ![c].pc = "load", ![c].item = newest]
    /\ UNCHANGED <<shared, buffered, caller, feed, history>>

\* GetLatestCommits, GetLatestPRs or GetLatestAnswers answers a list that is
\* not empty.  The request carries ctx and fails once that is done.
FetchOk(c) ==
    LET newest == feed[linkOf[c]][monitor[c].kind] IN
    /\ monitor[c].pc = "fetch"
    /\ ctx[c] = "live"
    /\ newest # None
    /\ monitor' = [monitor EXCEPT ![c].pc = "load", ![c].item = newest]
    /\ UNCHANGED <<shared, buffered, caller, feed, history>>

\* An error, or an empty list: this kind is skipped until the next tick.
FetchFail(c) ==
    /\ monitor[c].pc = "fetch"
    /\ monitor' = [monitor EXCEPT ![c] = Handled(monitor[c].kind)]
    /\ UNCHANGED <<shared, buffered, caller, feed, history>>

\* Mutant of Load: every handler looks into latestCommitSHA.
LoadCommits(c) ==
    /\ monitor[c].pc = "load"
    /\ monitor' = IF latest["Commit"][linkOf[c]] = monitor[c].item
                    THEN [monitor EXCEPT ![c] = Handled(monitor[c].kind)]
                    ELSE [monitor EXCEPT ![c].pc = "store"]
    /\ UNCHANGED <<shared, buffered, caller, feed, history>>

\* latest*.Load and the comparison.
Load(c) ==
    /\ monitor[c].pc = "load"
    /\ monitor' = IF latest[monitor[c].kind][linkOf[c]] = monitor[c].item
                    THEN [monitor EXCEPT ![c] = Handled(monitor[c].kind)]
                    ELSE [monitor EXCEPT ![c].pc = "store"]
    /\ UNCHANGED <<shared, buffered, caller, feed, history>>

\* latest*.Store.
Store(c) ==
    /\ monitor[c].pc = "store"
    /\ latest' = [latest EXCEPT ![monitor[c].kind][linkOf[c]] = monitor[c].item]
    /\ monitor' = [monitor EXCEPT ![c].pc = "put"]
    /\ UNCHANGED <<cancelFuncs, ctx, linkOf, buffered, caller, feed, history>>

\* Mutants of Put: a channel that grows; a select whose default goes on to the
\* send; a select whose default gives the item up.
PutUnbounded(c) ==
    LET k == monitor[c].kind IN
    /\ monitor[c].pc = "put"
    /\ buffered' = [buffered EXCEPT ![k] = @ + 1]
    /\ monitor' = [monitor EXCEPT ![c].pc = "send"]
    /\ UNCHANGED <<shared, caller, feed, history>>

PutOrSend(c) ==
    LET k == monitor[c].kind IN
    /\ monitor[c].pc = "put"
    /\ buffered' = [buffered EXCEPT ![k] = IF @ < ChanCap THEN @ + 1 ELSE @]
    /\ monitor' = [monitor EXCEPT ![c].pc = "send"]
    /\ UNCHANGED <<shared, caller, feed, history>>

PutOrDrop(c) ==
    LET k == monitor[c].kind IN
    /\ monitor[c].pc = "put"
    /\ buffered' = [buffered EXCEPT ![k] = IF @ < ChanCap THEN @ + 1 ELSE @]
    /\ monitor' = IF buffered[k] < ChanCap THEN [monitor EXCEPT ![c].pc = "send"]
                    ELSE [monitor EXCEPT ![c] = Handled(k)]
    /\ UNCHANGED <<shared, caller, feed, history>>

\* commitChan, prChan or answerChan <- item.  Nothing in the program receives
\* from these channels, and the send does not look at ctx.
Put(c) ==
    LET k == monitor[c].kind IN
    /\ monitor[c].pc = "put"
    /\ buffered[k] < ChanCap
    /\ buffered' = [buffered EXCEPT ![k] = @ + 1]
    /\ monitor' = [monitor EXCEPT ![c].pc = "send"]
    /\ UNCHANGED <<shared, caller, feed, history>>

\* What a hand-over to the transport leaves in the history.
HandOver(c, failed) ==
    LET k == monitor[c].kind IN
    /\ told' = [told EXCEPT ![c][k] = monitor[c].item]
    /\ lost' = IF failed THEN lost \cup {<<c, k>>} ELSE lost \ {<<c, k>>}
    /\ handed' = [handed EXCEPT ![k] = @ + 1]
    /\ late' = IF ctx[c] = "done" THEN [late EXCEPT ![c] = @ + 1] ELSE late

\* updateChan <- update (kafka), or SendUpdate, SendUpdatePR (http), whose
\* error is only logged.
Send(c) ==
    /\ monitor[c].pc = "send"
    /\ \E failed \in BOOLEAN :
         /\ failed => MessageTransport = "http"
         /\ HandOver(c, failed)
    /\ monitor' = [monitor EXCEPT ![c] = Handled(monitor[c].kind)]
    /\ UNCHANGED <<shared, buffered, caller, feed>>

-----------------------------------------------------------------------------
(* The world outside. *)

\* The timeout of one hour ends a context; its entry in cancelFuncs stays.
Expire(c) ==
    /\ ctx[c] = "live"
    /\ ctx' = Cancelled({c})
    /\ UNCHANGED <<cancelFuncs, linkOf, latest, buffered, monitor, caller, feed, history>>

\* The site lists another item first: a new one, or an older one again after a
\* deletion or a force push.
Publish(l, k, i) ==
    /\ k \in KindsOf(l)
    /\ feed[l][k] # i
    /\ feed' = [feed EXCEPT ![l][k] = i]
    /\ UNCHANGED <<shared, buffered, monitor, caller, history>>

CallerStep(p) ==
    \/ Start(p)
    \/ DropCancel(p)
    \/ Forget(p)
    \/ \E l \in Links : StopVisit(p, l)
    \/ StopEnd(p)

Call(p) ==
    \/ \E l \in Links, c \in Contexts : FileCancel(p, l, c)
    \/ \E l \in Links : Cancel(p, l)
    \/ StopBegin(p)

MonitorStep(c) ==
    \/ Tick(c)
    \/ Return(c)
    \/ FetchOk(c)
    \/ FetchFail(c)
    \/ Load(c)
    \/ Store(c)
    \/ Put(c)
    \/ Send(c)

Next ==
    \/ \E p \in Callers : Call(p) \/ CallerStep(p)
    \/ \E c \in Contexts : MonitorStep(c) \/ Expire(c)
    \/ \E l \in Links, k \in Kinds, i \in Items : Publish(l, k, i)

Spec == Init /\ [][Next]_vars

\* A monitor that waits for the bot's answer: SendUpdate uses an http.Client
\* without a timeout and a request without ctx.
Waiting(c) == monitor[c].pc = "send" /\ MessageTransport = "http"

\* A goroutine that can run runs; of two ready cases select does not forever
\* pass over one (it draws uniformly); a site that is polled forever answers
\* some of the requests for each of its feeds.  The bot's answer to SendUpdate,
\* calls, the timeout and new items are not bound to happen.
FetchOkOf(c, k) == monitor[c].kind = k /\ FetchOk(c)
Fairness ==
    /\ \A p \in Callers : WF_vars(CallerStep(p))
    /\ \A c \in Contexts :
         /\ WF_vars(~Waiting(c) /\ MonitorStep(c))
         /\ SF_vars(Return(c))
         /\ \A k \in Kinds : SF_vars(FetchOkOf(c, k))

FairSpec == Spec /\ Fairness

-----------------------------------------------------------------------------
(* Properties. *)

MonitorStates ==
    [pc : {"none", "select", "fetch", "load", "store", "put", "send", "stopped"},
     kind : Kinds \cup {None}, item : Items \cup {None}]
CallerStates ==
    [pc : {"idle", "start", "drop", "stop"} \cup Kinds,
     link : Links \cup {None}, ctx : Contexts \cup {None}, todo : SUBSET Links]

\* The values the variables take: each goroutine is at a step of its own code
\* with the locals that step needs.
TypeOK ==
    /\ cancelFuncs \in [Links -> Contexts \cup {None}]
    /\ ctx \in [Contexts -> {"unused", "live", "done"}]
    /\ linkOf \in [Contexts -> Links \cup {None}]
    /\ latest \in [Kinds -> [Links -> Items \cup {None}]]
    /\ buffered \in [Kinds -> 0..ChanCap]
    /\ monitor \in [Contexts -> MonitorStates]
    /\ caller \in [Callers -> CallerStates]
    /\ feed \in [Links -> [Kinds -> Items \cup {None}]]
    /\ told \in [Contexts -> [Kinds -> Items \cup {None}]]
    /\ lost \in SUBSET (Contexts \X Kinds)
    /\ handed \in [Kinds -> Nat]
    /\ late \in [Contexts -> Nat]

Running(c) == monitor[c].pc \notin {"none", "stopped"}

\* c is the only context its link was ever filed with.
Sole(c) == \A d \in Contexts \ {c} : linkOf[d] # linkOf[c]

\* The item of a monitor past Store that has not been handed over yet.
Pending(c, k) == monitor[c].pc \in {"put", "send"} /\ monitor[c].kind = k

\* An item remembered as seen (latest*.Store comes before the send) is one that
\* a monitor of the link announced last, or is about to announce: remembering
\* it never hides it from everybody.  Crosses RemoveLink, re-adding a link and
\* monitors that share the maps.
StoredIsAnnounced ==
    \A k \in Kinds, l \in Links : latest[k][l] # None =>
        \E c \in Contexts :
            /\ linkOf[c] = l
            /\ \/ told[c][k] = latest[k][l] /\ <<c, k>> \notin lost
               \/ Pending(c, k) /\ monitor[c].item = latest[k][l]

\* A subscription that never shared its link, and is not cancelled, is not told
\* the same item twice running, however polls, Stop and calls for other links
\* interleave: the comparison with latest* suppresses what was sent.
NoRepeat ==
    \A c \in Contexts, k \in Kinds :
        (Pending(c, k) /\ Sole(c) /\ ctx[c] = "live") => monitor[c].item # told[c][k]

\* Cancelling stops a monitor at the next fetch: once ctx.Done() is closed it
\* hands over at most the one update it is already past the fetch of, also
\* when that fetch was for a commit and pull requests come next.
AtMostOneLate == \A c \in Contexts : late[c] <= 1

\* commitChan, prChan and answerChan are filled before every hand-over and
\* never drained, so that a scrapper process announces at most ChanCap items
\* of a kind, over all links and users together.
UpdateBudget == \A k \in Kinds : handed[k] <= ChanCap

\* A running monitor can be cancelled through cancelFuncs, unless its link was
\* added again: no interleaving of RemoveLink, Stop and AddLink of other links
\* loses its entry.
SoleIsCancellable ==
    \A c \in Contexts :
        (Running(c) /\ ctx[c] = "live" /\ Sole(c)) => cancelFuncs[linkOf[c]] = c

\* A monitor that waits for room in a channel of capacity ChanCap.
Stuck(c) == monitor[c].pc = "put" /\ buffered[monitor[c].kind] = ChanCap

\* After a cancel, a timeout or Stop the goroutine of a monitor ends, unless a
\* full channel holds it or a bot that does not answer.
CancelledMonitorEnds ==
    \A c \in Contexts :
        (Running(c) /\ ctx[c] = "done") ~> (~Running(c) \/ Stuck(c) \/ Waiting(c))

\* A sole live monitor announces an item that stays first in its feed, or a
\* full channel holds the monitor, or it waits for ever for the bot's answer.
SettledItemIsTold ==
    \A c \in Contexts, k \in Kinds, i \in Items :
        <>[](/\ Running(c) /\ ctx[c] = "live" /\ Sole(c)
             /\ feed[linkOf[c]][k] = i)
        => []<>(told[c][k] = i \/ Stuck(c)) \/ <>[]Waiting(c)

-----------------------------------------------------------------------------
(* The inductive strengthening of the safety properties. *)

\* Contexts before AddLink makes them; what links contexts, entries and calls.
Wiring ==
    /\ \A c \in Contexts : ctx[c] = "unused" =>
         /\ linkOf[c] = None
         /\ monitor[c].pc = "none"
         /\ late[c] = 0
         /\ \A k \in Kinds : told[c][k] = None
    /\ \A c \in Contexts : (ctx[c] # "unused" /\ linkOf[c] = None) =>
         ctx[c] = "done" /\ monitor[c].pc = "stopped"
    /\ \A l \in Links : cancelFuncs[l] # None => linkOf[cancelFuncs[l]] = l
    /\ \A p \in Callers : caller[p].pc = "start" =>
         /\ caller[p].ctx \in Contexts
         /\ ctx[caller[p].ctx] # "unused"
         /\ monitor[caller[p].ctx].pc = "none"
    /\ \A p, q \in Callers :
         (caller[p].pc = "start" /\ caller[q].pc = "start" /\ p # q)
         => caller[p].ctx # caller[q].ctx
    /\ \A p \in Callers : caller[p].pc \in {"drop"} \cup Kinds =>
         \E d \in Contexts : linkOf[d] = caller[p].link /\ ctx[d] = "done"

\* Inside a handler, its kind and, past the fetch, its item are known.
Handling ==
    \A c \in Contexts :
        /\ monitor[c].pc \in {"fetch", "load", "store", "put", "send"} => monitor[c].kind \in Kinds
        /\ monitor[c].pc \in {"load", "store", "put", "send"} => monitor[c].item \in Items

\* A context that handed over one update too late is past its last fetch.
LateOnce ==
    \A c \in Contexts :
        \/ late[c] = 0
        \/ /\ late[c] = 1
           /\ ctx[c] = "done"
           /\ monitor[c].pc \notin {"load", "store", "put", "send"}

\* Updates past Put and not yet handed over.
InFlight(k) == {c \in Contexts : monitor[c].pc = "send" /\ monitor[c].kind = k}
Budget == \A k \in Kinds : handed[k] + Cardinality(InFlight(k)) <= buffered[k]

\* What is remembered for a link with a sole live context is what that context
\* told last, or is about to tell.
Remembered ==
    /\ \A l \in Links, k \in Kinds :
         (\A c \in Contexts : linkOf[c] # l) => latest[k][l] = None
    /\ \A c \in Contexts : (Sole(c) /\ ctx[c] = "live") =>
         /\ cancelFuncs[linkOf[c]] = c
         /\ \A k \in Kinds :
              IF Pending(c, k)
                THEN latest[k][linkOf[c]] = monitor[c].item /\ told[c][k] # monitor[c].item
                ELSE latest[k][linkOf[c]] = told[c][k]
         /\ monitor[c].pc = "store" =>
              latest[monitor[c].kind][linkOf[c]] # monitor[c].item

\* As StoredIsAnnounced, naming the monitor that stored last.
StoredByAnnouncer ==
    \A k \in Kinds, l \in Links : latest[k][l] # None =>
        \E c \in Contexts :
            /\ linkOf[c] = l
            /\ IF Pending(c, k) THEN monitor[c].item = latest[k][l]
                                ELSE told[c][k] = latest[k][l]

\* Over Kafka no hand-over fails.
NoneLost == MessageTransport = "kafka" => lost = {}

IInv == TypeOK /\ Wiring /\ Handling /\ LateOnce /\ Budget /\ Remembered
          /\ StoredByAnnouncer /\ NoneLost

-----------------------------------------------------------------------------
(* What the project's documents say and the code does not do. *)

\* README: updates on new events follow /track.  As SettledItemIsTold, without
\* leave for a full channel.
EveryItemIsTold ==
    \A c \in Contexts, k \in Kinds, i \in Items :
        <>[](/\ Running(c) /\ ctx[c] = "live" /\ Sole(c)
             /\ feed[linkOf[c]][k] = i)
        => []<>(told[c][k] = i)
=============================================================================
