---------------------------- MODULE LinkService ----------------------------
(***************************************************************************)
(* The requests of the scrapper: handlers, chatService, linkService, the   *)
(* sql repositories, their transaction manager and the tables, composed    *)
(* with Scheduler.                                                         *)
(*                                                                         *)
(* A request runs txManager.Do around its statements.  db.Begin() asks for *)
(* no isolation level, so each statement reads what is committed when it   *)
(* starts; a write waits while another open transaction holds the unique   *)
(* key or the row it needs.  linkService calls the scheduler between its   *)
(* last statement and the commit.  Statements and commits can fail, the    *)
(* connection of a transaction can drop, and the process can restart.      *)
(*                                                                         *)
(* The id of a row is the context that scheduler.AddLink makes for it.     *)
(***************************************************************************)
EXTENDS Integers, FiniteSets

CONSTANTS Users, Links, Class, Contexts, Callers, Items, None, ChanCap,
          MessageTransport

VARIABLES
    cancelFuncs, ctx, linkOf, latest, buffered, monitor, caller, feed,
    told, lost, handed, late,     \* as in Scheduler
    chats,    \* table chats, committed
    rows,     \* table links, committed: records [id, chat, url]
    req,      \* Callers -> the request's place in the code and its locals
    tx,       \* Callers -> "none", "open", "wrote" (holds locks) or "lost"
    \* what the properties talk about
    parted,   \* rows that a DeleteChat or a restart parted from their monitor
    severed   \* rows of requests whose connection dropped

sched == <<cancelFuncs, ctx, linkOf, latest, buffered, monitor, caller, feed,
           told, lost, handed, late>>
tables == <<chats, rows>>
ghosts == <<parted, severed>>
vars == <<sched, tables, req, tx, ghosts>>

Sched == INSTANCE Scheduler

\* What Scheduler assumes, and that no chat is None.
ASSUME ClassAssumption == Class \in [Links -> Sched!Classes]
ASSUME NoneAssumption == None \notin Users \cup Links \cup Contexts \cup Items
ASSUME FiniteAssumption == IsFiniteSet(Contexts)
ASSUME ChanCapAssumption == ChanCap \in Nat
ASSUME TransportAssumption == MessageTransport \in {"kafka", "http"}

Ops == {"register", "deleteChat", "add", "delete"}
ReqIdle == [pc |-> "idle", op |-> None, user |-> None, link |-> None,
            ids |-> {}]

RowIds == {w.id : w \in rows}
RowsOf(u) == {w \in rows : w.chat = u}

\* Keys and rows that the open transaction of request q has locked.
Inserting(q, l) == tx[q] = "wrote" /\ req[q].op = "add" /\ req[q].link = l
Registering(q, u) == tx[q] = "wrote" /\ req[q].op = "register" /\ req[q].user = u
Deleting(q) == IF tx[q] = "wrote" /\ req[q].op \in {"delete", "deleteChat"}
                 THEN req[q].ids ELSE {}
Others(r) == Callers \ {r}

Init ==
    /\ Sched!Init
    /\ chats = {}
    /\ rows = {}
    /\ req = [r \in Callers |-> ReqIdle]
    /\ tx = [r \in Callers |-> "none"]
    /\ parted = {}
    /\ severed = {}

-----------------------------------------------------------------------------
(* A request and its statements. *)

At(r, op, pc) == req[r].op = op /\ req[r].pc = pc

Goto(r, pc) == req' = [req EXCEPT ![r].pc = pc]

\* The function given to Do returns an error; Do rolls back.
Fail(r) == Goto(r, "rollback") /\ UNCHANGED tx

\* Bound: as many requests may add a link as there are contexts left for them.
RoomToAdd ==
    Cardinality({c \in Contexts : ctx[c] = "unused"})
      > Cardinality({q \in Callers : req[q].op = "add" /\ req[q].pc \in {"read", "write", "file"}})

\* Mutant of Begin: the handler does not pass the id of the chat on.
BeginNobody(r, op, u, l) ==
    /\ req[r].pc = "idle"
    /\ op = "add" => RoomToAdd
    /\ req' = [req EXCEPT ![r] = [ReqIdle EXCEPT !.pc = "read", !.op = op,
                                    !.link = IF op \in {"add", "delete"} THEN l ELSE None]]
    /\ tx' = [tx EXCEPT ![r] = "open"]
    /\ UNCHANGED <<sched, tables, ghosts>>

\* A handler calls the service, Do begins the transaction.  The answer 400 of a
\* request that cannot be parsed, and a Begin that fails, change no state.
Begin(r, op, u, l) ==
    /\ req[r].pc = "idle"
    /\ op = "add" => RoomToAdd
    /\ req' = [req EXCEPT ![r] = [ReqIdle EXCEPT !.pc = "read", !.op = op, !.user = u,
                                    !.link = IF op \in {"add", "delete"} THEN l ELSE None]]
    /\ tx' = [tx EXCEPT ![r] = "open"]
    /\ UNCHANGED <<sched, tables, ghosts>>

\* linkService.AddLink: GetAllLinks and the search for the link in it.
ReadLinks(r) ==
    /\ At(r, "add", "read")
    /\ tx[r] = "open"
    /\ IF \E w \in RowsOf(req[r].user) : w.url = req[r].link
         THEN Fail(r)
         ELSE Goto(r, "write") /\ UNCHANGED tx
    /\ UNCHANGED <<sched, tables, ghosts>>

\* Mutant of InsertLink: no unique index on links.url.
InsertAnyLink(r) ==
    /\ At(r, "add", "write")
    /\ tx[r] = "open"
    /\ IF req[r].user \notin chats
         THEN Fail(r)
         ELSE \E c \in Contexts :
                /\ ctx[c] = "unused"
                /\ \A q \in Callers : c \notin req[q].ids
                /\ req' = [req EXCEPT ![r].ids = {c}, ![r].pc = "file"]
                /\ tx' = [tx EXCEPT ![r] = "wrote"]
    /\ UNCHANGED <<sched, tables, ghosts>>

\* linkRepository.AddLink: INSERT waits for a transaction that holds the url in
\* the unique index, then needs the url free and the chat of the foreign key.
InsertLink(r) ==
    /\ At(r, "add", "write")
    /\ tx[r] = "open"
    /\ \A q \in Others(r) : ~Inserting(q, req[r].link)
    /\ \A w \in rows : w.url = req[r].link => \A q \in Others(r) : w.id \notin Deleting(q)
    /\ IF (\E w \in rows : w.url = req[r].link) \/ req[r].user \notin chats
         THEN Fail(r)
         ELSE \E c \in Contexts :
                /\ ctx[c] = "unused"
                /\ \A q \in Callers : c \notin req[q].ids
                /\ req' = [req EXCEPT ![r].ids = {c}, ![r].pc = "file"]
                /\ tx' = [tx EXCEPT ![r] = "wrote"]
    /\ UNCHANGED <<sched, tables, ghosts>>

\* scheduler.AddLink up to cancelFuncs.Store.
File(r) ==
    /\ At(r, "add", "file")
    /\ \E c \in req[r].ids : Sched!FileCancel(r, req[r].link, c)
    /\ Goto(r, "start")
    /\ UNCHANGED <<tables, tx, ghosts>>

\* The rest of scheduler.AddLink.  Its panic is recovered by the server, which
\* answers 500 and leaves the transaction open.
StartMonitor(r) ==
    /\ At(r, "add", "start")
    /\ Sched!Start(r)
    /\ req' = CASE Class[req[r].link] = "rejected" ->
                     [req EXCEPT ![r].pc = "rollback"]
                [] Class[req[r].link] = "short" ->
                     [req EXCEPT ![r].pc = "leaked"]
                [] OTHER -> [req EXCEPT ![r].pc = "commit"]
    /\ UNCHANGED <<tables, tx, ghosts>>

\* linkService.DeleteLink: GetLinkIDByURL.
FindLink(r) ==
    LET found == {w.id : w \in {v \in RowsOf(req[r].user) : v.url = req[r].link}} IN
    /\ At(r, "delete", "read")
    /\ tx[r] = "open"
    /\ IF found = {}
         THEN Fail(r)
         ELSE /\ req' = [req EXCEPT ![r].ids = found, ![r].pc = "write"]
              /\ UNCHANGED tx
    /\ UNCHANGED <<sched, tables, ghosts>>

\* Mutant of DeleteRow: the number of rows deleted is not looked at.
DeleteNoRow(r) ==
    /\ At(r, "delete", "write")
    /\ tx[r] = "open"
    /\ \A q \in Others(r) : req[r].ids \cap Deleting(q) = {}
    /\ Goto(r, "unfile")
    /\ tx' = [tx EXCEPT ![r] = "wrote"]
    /\ UNCHANGED <<sched, tables, ghosts>>

\* DELETE waits for the row; no row is an error.
DeleteRow(r) ==
    /\ At(r, "delete", "write")
    /\ tx[r] = "open"
    /\ \A q \in Others(r) : req[r].ids \cap Deleting(q) = {}
    /\ IF req[r].ids \subseteq RowIds
         THEN Goto(r, "unfile") /\ tx' = [tx EXCEPT ![r] = "wrote"]
         ELSE Fail(r)
    /\ UNCHANGED <<sched, tables, ghosts>>

\* Mutant of Unfile: DeleteLink, like DeleteChat, leaves the scheduler alone.
UnfileNothing(r) ==
    /\ At(r, "delete", "unfile")
    /\ Goto(r, "commit")
    /\ UNCHANGED <<sched, tables, tx, ghosts>>

\* scheduler.RemoveLink: nothing without an entry, else the cancel ...
Unfile(r) ==
    /\ At(r, "delete", "unfile")
    /\ \/ /\ cancelFuncs[req[r].link] = None
          /\ Goto(r, "commit")
          /\ UNCHANGED sched
       \/ /\ Sched!Cancel(r, req[r].link)
          /\ Goto(r, "remove")
    /\ UNCHANGED <<tables, tx, ghosts>>

\* ... and the four deletes.
Remove(r) ==
    /\ At(r, "delete", "remove")
    /\ Sched!DropCancel(r) \/ Sched!Forget(r)
    /\ Goto(r, IF caller'[r].pc = "idle" THEN "commit" ELSE "remove")
    /\ UNCHANGED <<tables, tx, ghosts>>

\* chatService.DeleteChat: GetAllLinks, whose result is not used, and the
\* snapshot DELETE takes of the chat's rows when it starts.
ScanRows(r) ==
    /\ At(r, "deleteChat", "read")
    /\ tx[r] = "open"
    /\ req' = [req EXCEPT ![r].ids = {w.id : w \in RowsOf(req[r].user)}, ![r].pc = "write"]
    /\ UNCHANGED <<sched, tables, tx, ghosts>>

\* DeleteAllLinks waits for these rows; no row left to delete is an error.
DeleteRows(r) ==
    /\ At(r, "deleteChat", "write")
    /\ tx[r] = "open"
    /\ \A q \in Others(r) : req[r].ids \cap Deleting(q) = {}
    /\ IF req[r].ids \cap RowIds = {}
         THEN Fail(r)
         ELSE /\ req' = [req EXCEPT ![r].ids = @ \cap RowIds, ![r].pc = "commit"]
              /\ tx' = [tx EXCEPT ![r] = "wrote"]
    /\ UNCHANGED <<sched, tables, ghosts>>

\* chatService.RegisterChat: refused when the chat has links already.
CheckChat(r) ==
    /\ At(r, "register", "read")
    /\ tx[r] = "open"
    /\ IF RowsOf(req[r].user) # {}
         THEN Fail(r)
         ELSE Goto(r, "write") /\ UNCHANGED tx
    /\ UNCHANGED <<sched, tables, ghosts>>

\* INSERT ... ON CONFLICT DO NOTHING waits for another insert of the same id; a
\* chat that exists already is an error.
InsertChat(r) ==
    /\ At(r, "register", "write")
    /\ tx[r] = "open"
    /\ \A q \in Others(r) : ~Registering(q, req[r].user)
    /\ IF req[r].user \in chats
         THEN Fail(r)
         ELSE Goto(r, "commit") /\ tx' = [tx EXCEPT ![r] = "wrote"]
    /\ UNCHANGED <<sched, tables, ghosts>>

-----------------------------------------------------------------------------
(* The end of txManager.Do. *)

End(r) ==
    /\ req' = [req EXCEPT ![r] = ReqIdle]
    /\ tx' = [tx EXCEPT ![r] = "none"]

\* Do calls Rollback until it returns no error.  On a lost connection the first
\* call fails, and every later one reports that the transaction is done.
Rollback(r) ==
    /\ req[r].pc = "rollback"
    /\ IF tx[r] = "lost" THEN Goto(r, "spin") /\ UNCHANGED tx ELSE End(r)
    /\ UNCHANGED <<sched, tables, ghosts>>

Applied(r) ==
    LET q == req[r] IN
    /\ chats' = IF q.op = "register" THEN chats \cup {q.user} ELSE chats
    /\ rows' = IF q.op = "add"
                 THEN rows \cup {[id |-> c, chat |-> q.user, url |-> q.link] : c \in q.ids}
                 ELSE {w \in rows : w.id \notin q.ids}
    /\ parted' = IF q.op = "deleteChat" THEN parted \cup q.ids ELSE parted

Commit(r) ==
    /\ req[r].pc = "commit"
    /\ tx[r] = "wrote"
    /\ Applied(r)
    /\ End(r)
    /\ UNCHANGED <<sched, severed>>

\* Mutant of CommitFails: Do repeats Commit as it repeats Rollback.
CommitRepeats(r) ==
    /\ req[r].pc = "commit"
    /\ UNCHANGED vars

\* The connection breaks during Commit, before or after the server has done it;
\* the request is answered 500.
CommitFails(r) ==
    /\ req[r].pc = "commit"
    /\ \/ tx[r] = "wrote" /\ Applied(r)
       \/ UNCHANGED <<tables, parted>>
    /\ severed' = severed \cup req[r].ids
    /\ End(r)
    /\ UNCHANGED sched

-----------------------------------------------------------------------------
(* Failures. *)

\* A statement fails.
StatementFails(r) ==
    /\ req[r].pc \in {"read", "write"}
    /\ Fail(r)
    /\ UNCHANGED <<sched, tables, ghosts>>

\* The server ends the transaction and frees its locks; the request only
\* notices at its next statement, at the commit or at the rollback.
DropConnection(r) ==
    /\ tx[r] \in {"open", "wrote"}
    /\ tx' = [tx EXCEPT ![r] = "lost"]
    /\ severed' = severed \cup req[r].ids
    /\ UNCHANGED <<sched, tables, req, parted>>

\* An id that the sequence of links.id has not given to a committed row.
Unspent(c) == ctx[c] = "unused" /\ c \notin RowIds

\* The process ends and starts again.  The tables stay; app.New builds an empty
\* scheduler and nothing reads the tables to start the monitors again.
Restart ==
    /\ cancelFuncs' = [l \in Links |-> None]
    /\ ctx' = [c \in Contexts |-> IF Unspent(c) THEN "unused" ELSE "done"]
    /\ monitor' = [c \in Contexts |-> IF Unspent(c) THEN monitor[c]
                                        ELSE [Sched!MonitorNew EXCEPT !.pc = "stopped"]]
    /\ latest' = [k \in Sched!Kinds |-> [l \in Links |-> None]]
    /\ buffered' = [k \in Sched!Kinds |-> 0]
    /\ caller' = [r \in Callers |-> Sched!CallerIdle]
    /\ req' = [r \in Callers |-> ReqIdle]
    /\ tx' = [r \in Callers |-> "none"]
    /\ parted' = parted \cup RowIds
    /\ UNCHANGED <<linkOf, feed, told, lost, handed, late, tables, severed>>

Read(r) == ReadLinks(r) \/ FindLink(r) \/ ScanRows(r) \/ CheckChat(r)
Write(r) == InsertLink(r) \/ DeleteRow(r) \/ DeleteRows(r) \/ InsertChat(r)
CallScheduler(r) == File(r) \/ StartMonitor(r) \/ Unfile(r) \/ Remove(r)
Finish(r) == Rollback(r) \/ Commit(r) \/ CommitFails(r)

\* Monitors and the sites they poll; Stop is never called by the application.
SchedulerStep ==
    /\ \/ \E c \in Contexts : Sched!MonitorStep(c) \/ Sched!Expire(c)
       \/ \E l \in Links, k \in Sched!Kinds, i \in Items : Sched!Publish(l, k, i)
    /\ UNCHANGED <<tables, req, tx, ghosts>>

Next ==
    \/ \E r \in Callers :
         \/ \E op \in Ops, u \in Users, l \in Links : Begin(r, op, u, l)
         \/ Read(r)
         \/ Write(r)
         \/ CallScheduler(r)
         \/ Finish(r)
         \/ StatementFails(r)
         \/ DropConnection(r)
    \/ SchedulerStep
    \/ Restart

Spec == Init /\ [][Next]_vars

\* A request runs on until it waits, a failed statement is noticed, and a lock
\* that is freed again and again is granted to the one that waits.
Fairness ==
    \A r \in Callers :
        /\ WF_vars(Read(r) \/ CallScheduler(r) \/ Finish(r))
        /\ SF_vars(Write(r))
        /\ WF_vars(tx[r] = "lost" /\ StatementFails(r))

FairSpec == Spec /\ Fairness

-----------------------------------------------------------------------------
(* Properties. *)

ReqStates ==
    [pc : {"idle", "read", "write", "file", "start", "unfile", "remove", "commit",
           "rollback", "spin", "leaked"},
     op : Ops \cup {None}, user : Users \cup {None}, link : Links \cup {None},
     ids : SUBSET Contexts]

TypeOK ==
    /\ Sched!TypeOK
    /\ chats \subseteq Users
    /\ rows \subseteq [id : Contexts, chat : Users, url : Links]
    /\ req \in [Callers -> ReqStates]
    /\ tx \in [Callers -> {"none", "open", "wrote", "lost"}]
    /\ parted \subseteq Contexts
    /\ severed \subseteq Contexts

\* The scheduler has no lock of its own; the keys and rows a transaction holds
\* keep two requests from being inside AddLink or RemoveLink with one link at a
\* time, while neither has lost its connection.
SchedulerCallsExclusive ==
    \A p, q \in Callers :
        (p # q /\ caller[p].link # None /\ caller[p].link = caller[q].link)
        => tx[p] = "lost" \/ tx[q] = "lost"

\* A request for link l lost its connection with the row of some context.
Disturbed(l) == \E d \in severed : linkOf[d] = l

\* A monitor that polls belongs to a committed row, or to a request that is
\* still to commit it, unless its chat was deleted or a request for the link
\* lost the connection to the database.
LiveIsTracked ==
    \A c \in Contexts : (Sched!Running(c) /\ ctx[c] = "live") =>
        \/ c \in RowIds
        \/ \E r \in Callers : req[r].op = "add" /\ c \in req[r].ids
        \/ c \in parted
        \/ Disturbed(linkOf[c])

\* A committed row can be cancelled through cancelFuncs, unless a request is
\* deleting it, the process restarted, or a request for the link lost the
\* connection to the database.
TrackedIsFiled ==
    \A w \in rows :
        \/ cancelFuncs[w.url] = w.id
        \/ \E r \in Callers : req[r].op = "delete" /\ w.id \in req[r].ids
        \/ w.id \in parted
        \/ Disturbed(w.url)

\* Statements, locks and failures together implement the atomic register, track
\* and untrack of Subscriptions: no link is ever taken over from another chat, by
\* a chat that is not registered, or by two requests at once, and a commit
\* removes links of one chat only.
Owner(l) == IF \E w \in rows : w.url = l
              THEN (CHOOSE w \in rows : w.url = l).chat ELSE None
Promise == INSTANCE Subscriptions WITH registered <- chats,
                                       owner <- [l \in Links |-> Owner(l)]
ImplementsSubscriptions == Promise!Spec

\* A request for a link whose key a recovered panic holds waits.
WaitsForLeak(r) ==
    req[r].pc = "write" /\ \E q \in Others(r) : req[q].pc = "leaked" /\ tx[q] = "wrote"

\* Requests wait for each other's locks, never in a cycle and never forever:
\* each is answered, spins in Rollback, or waits for a leaked transaction.
RequestEnds ==
    \A r \in Callers :
        req[r].pc \notin {"idle", "spin", "leaked"}
        ~> (req[r].pc \in {"idle", "spin", "leaked"} \/ WaitsForLeak(r))
=============================================================================
