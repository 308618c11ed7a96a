---------------------------- MODULE PgxService ----------------------------
(***************************************************************************)
(* The requests of LinkService over the other access type, "orm": the      *)
(* pgxpool repositories and their transaction manager.  The services, the  *)
(* handlers and the tables are those of LinkService.                       *)
(*                                                                         *)
(* RegisterChat and AddLink of these repositories end the transaction they *)
(* are given, AddLink in a deferred function that drops the result.  What  *)
(* Do then calls on the transaction is answered ErrTxClosed: its Commit    *)
(* fails, and its loop around Rollback never ends.  The scheduler hears of *)
(* a link after the row is committed, so another request may have deleted  *)
(* the row by then.                                                        *)
(*                                                                         *)
(* An add request at "write" whose transaction "wrote" has its row         *)
(* inserted and is about to run the deferred function.                     *)
(***************************************************************************)
EXTENDS LinkService

VARIABLES
    \* what the properties talk about
    disturbed,  \* links with a request that lost its connection, or that
                \* deleted a row of which the scheduler had not been told
    refused     \* rows of add requests that were answered with an error

pgxGhosts == <<disturbed, refused>>
pgxVars == <<vars, pgxGhosts>>

\* As in LinkService, a transaction can also be "failed": a statement failed
\* and PostgreSQL refuses the next ones; or "closed": committed or rolled back.
Holding == {"open", "wrote", "failed"}

PgxInit == Init /\ disturbed = {} /\ refused = {}

-----------------------------------------------------------------------------
(* The end of txManager.Do. *)

\* Do returns an error and the handler answers 400 or 500.
EndRefused(r) ==
    /\ End(r)
    /\ refused' = IF req[r].op = "add" THEN refused \cup req[r].ids ELSE refused

\* Do calls Rollback until it returns nil.  On a lost connection the first call
\* fails and closes the transaction; on a closed one every call fails.
DoRollback(r) ==
    /\ req[r].pc = "rollback"
    /\ IF tx[r] \in Holding
         THEN EndRefused(r)
         ELSE Goto(r, "spin") /\ UNCHANGED <<tx, refused>>
    /\ UNCHANGED <<sched, tables, ghosts, disturbed>>

\* The links of rows that request r deletes, not known to the scheduler yet.
Unfiled(r) == {w.url : w \in {v \in rows : v.id \in req[r].ids /\ ctx[v.id] = "unused"}}

\* The links that a request touches when its connection breaks.
Struck(r) == Unfiled(r) \cup IF req[r].ids = {} THEN {} ELSE {req[r].link} \cap Links

\* Commit of a transaction that is still open: only DeleteLink and DeleteChat.
DoCommit(r) ==
    /\ req[r].pc = "commit"
    /\ tx[r] = "wrote"
    /\ Applied(r)
    /\ End(r)
    /\ disturbed' = disturbed \cup Unfiled(r)
    /\ UNCHANGED <<sched, severed, refused>>

\* Commit of a transaction that the repository has closed.
DoCommitClosed(r) ==
    /\ req[r].pc = "commit"
    /\ tx[r] = "closed"
    /\ EndRefused(r)
    /\ UNCHANGED <<sched, tables, ghosts, disturbed>>

\* The connection breaks during Commit, before or after the server has done it.
DoCommitFails(r) ==
    /\ req[r].pc = "commit"
    /\ tx[r] \in {"wrote", "lost"}
    /\ \/ tx[r] = "wrote" /\ Applied(r)
       \/ UNCHANGED <<tables, parted>>
    /\ disturbed' = disturbed \cup Struck(r)
    /\ EndRefused(r)
    /\ UNCHANGED <<sched, severed>>

-----------------------------------------------------------------------------
(* The statements of the repositories. *)

\* Mutant of PgxBegin: the handler does not pass the id of the chat on.
PgxBeginNobody(r, op, u, l) == BeginNobody(r, op, u, l) /\ UNCHANGED pgxGhosts

\* A handler calls the service; Do begins the transaction.
PgxBegin(r, op, u, l) == Begin(r, op, u, l) /\ UNCHANGED pgxGhosts

\* GetAllLinks answers.
GetAllLinks(r) ==
    /\ ReadLinks(r) \/ ScanRows(r) \/ CheckChat(r)
    /\ UNCHANGED pgxGhosts

\* GetAllLinks fails.  It does not look at rows.Err(), so that a query which
\* fails while its rows are read answers the rows read so far, here none; and
\* RegisterChat goes on after an error too.  The next statement fails as well.
GetAllLinksFails(r) ==
    /\ req[r].pc = "read"
    /\ \/ req[r].op \in {"add", "deleteChat"} /\ Fail(r)
       \/ /\ req[r].op \in {"add", "deleteChat", "register"}
          /\ Goto(r, "write")
          /\ tx' = [tx EXCEPT ![r] = IF @ = "lost" THEN "lost" ELSE "failed"]
    /\ UNCHANGED <<sched, tables, ghosts, pgxGhosts>>

\* GetLinkIDByURL, and its failure.
GetLinkIDByURL(r) ==
    /\ FindLink(r) \/ (At(r, "delete", "read") /\ StatementFails(r))
    /\ UNCHANGED pgxGhosts

\* linkRepository.AddLink: the INSERT of LinkService.  The deferred function
\* rolls back after an error and stays to be run after success.
AddLink(r) ==
    /\ At(r, "add", "write")
    /\ tx[r] = "open"
    /\ \A q \in Others(r) : ~Inserting(q, req[r].link)
    /\ \A w \in rows : w.url = req[r].link => \A q \in Others(r) : w.id \notin Deleting(q)
    /\ IF (\E w \in rows : w.url = req[r].link) \/ req[r].user \notin chats
         THEN Goto(r, "rollback") /\ tx' = [tx EXCEPT ![r] = "closed"]
         ELSE \E c \in Contexts :
                /\ ctx[c] = "unused"
                /\ c \notin RowIds
                /\ \A q \in Callers : c \notin req[q].ids
                /\ req' = [req EXCEPT ![r].ids = {c}]
                /\ tx' = [tx EXCEPT ![r] = "wrote"]
    /\ UNCHANGED <<sched, tables, ghosts, pgxGhosts>>

\* Any other error of the INSERT.
AddLinkFails(r) ==
    /\ At(r, "add", "write")
    /\ req[r].ids = {}
    /\ Goto(r, "rollback")
    /\ tx' = [tx EXCEPT ![r] = "closed"]
    /\ UNCHANGED <<sched, tables, ghosts, pgxGhosts>>

\* chatRepository.RegisterChat: the INSERT ... ON CONFLICT DO NOTHING, which is
\* content with a chat that exists.
RegisterChat(r) ==
    /\ At(r, "register", "write")
    /\ tx[r] = "open"
    /\ \A q \in Others(r) : ~Registering(q, req[r].user)
    /\ tx' = [tx EXCEPT ![r] = "wrote"]
    /\ UNCHANGED <<sched, tables, req, ghosts, pgxGhosts>>

\* Where a request goes on after the repository's own Commit.
AfterOwnCommit(r) == IF req[r].op = "add" THEN "file" ELSE "commit"

\* The Commit at the end of RegisterChat and of AddLink.
OwnCommit(r) ==
    /\ req[r].pc = "write"
    /\ tx[r] = "wrote"
    /\ Applied(r)
    /\ Goto(r, AfterOwnCommit(r))
    /\ tx' = [tx EXCEPT ![r] = "closed"]
    /\ UNCHANGED <<sched, severed, pgxGhosts>>

\* It fails, done or not: RegisterChat returns the error, AddLink drops it.
OwnCommitFails(r) ==
    /\ req[r].pc = "write"
    /\ tx[r] = "wrote" \/ (tx[r] = "lost" /\ req[r].op = "add" /\ req[r].ids # {})
    /\ \/ tx[r] = "wrote" /\ Applied(r)
       \/ UNCHANGED <<tables, parted>>
    /\ disturbed' = disturbed \cup Struck(r)
    /\ Goto(r, IF req[r].op = "add" THEN "file" ELSE "rollback")
    /\ tx' = [tx EXCEPT ![r] = "closed"]
    /\ UNCHANGED <<sched, severed, refused>>

\* Mutant of DeleteLink: RowsAffected is not looked at.
DeleteLinkAny(r) == DeleteNoRow(r) /\ UNCHANGED pgxGhosts

\* linkRepository.DeleteLink: no row is an error.
DeleteLink(r) == DeleteRow(r) /\ UNCHANGED pgxGhosts

\* linkRepository.DeleteAllLinks: no row is fine.
DeleteAllLinks(r) ==
    /\ At(r, "deleteChat", "write")
    /\ tx[r] = "open"
    /\ \A q \in Others(r) : req[r].ids \cap Deleting(q) = {}
    /\ req' = [req EXCEPT ![r].ids = @ \cap RowIds, ![r].pc = "commit"]
    /\ tx' = [tx EXCEPT ![r] = "wrote"]
    /\ UNCHANGED <<sched, tables, ghosts, pgxGhosts>>

\* DeleteLink, DeleteAllLinks or RegisterChat fails.
StatementRefused(r) ==
    /\ req[r].pc = "write"
    /\ req[r].op # "add"
    /\ tx[r] # "wrote"
    /\ Fail(r)
    /\ UNCHANGED <<sched, tables, ghosts, pgxGhosts>>

-----------------------------------------------------------------------------
(* The scheduler. *)

PgxFile(r) == File(r) /\ UNCHANGED pgxGhosts

\* The rest of scheduler.AddLink.  After its panic the transaction holds nothing.
PgxStart(r) ==
    /\ At(r, "add", "start")
    /\ Sched!Start(r)
    /\ CASE Class[req[r].link] = "rejected" -> Goto(r, "rollback") /\ UNCHANGED <<tx, refused>>
         [] Class[req[r].link] = "short" -> EndRefused(r)
         [] OTHER -> Goto(r, "commit") /\ UNCHANGED <<tx, refused>>
    /\ UNCHANGED <<tables, ghosts, disturbed>>

\* Mutant of PgxUnfile: linkService.DeleteLink leaves the scheduler alone.
PgxUnfileNothing(r) ==
    /\ UnfileNothing(r)
    /\ UNCHANGED pgxGhosts

\* scheduler.RemoveLink.
PgxUnfile(r) ==
    /\ Unfile(r)
    /\ disturbed' = IF req[r].ids = {cancelFuncs[req[r].link]} THEN disturbed
                      ELSE disturbed \cup {req[r].link}
    /\ UNCHANGED refused

PgxRemove(r) == Remove(r) /\ UNCHANGED pgxGhosts

-----------------------------------------------------------------------------

PgxDropConnection(r) ==
    /\ tx[r] \in Holding
    /\ tx' = [tx EXCEPT ![r] = "lost"]
    /\ disturbed' = disturbed \cup Struck(r)
    /\ UNCHANGED <<sched, tables, req, ghosts, refused>>

\* A restart spends the ids of all rows.
PgxRestart == Restart /\ UNCHANGED pgxGhosts

PgxRead(r) == GetAllLinks(r) \/ GetLinkIDByURL(r)
PgxWrite(r) == AddLink(r) \/ RegisterChat(r) \/ DeleteLink(r) \/ DeleteAllLinks(r)
PgxFail(r) == GetAllLinksFails(r) \/ AddLinkFails(r) \/ StatementRefused(r)
PgxCall(r) == PgxFile(r) \/ PgxStart(r) \/ PgxUnfile(r) \/ PgxRemove(r)
PgxFinish(r) ==
    \/ OwnCommit(r)
    \/ OwnCommitFails(r)
    \/ DoRollback(r)
    \/ DoCommit(r)
    \/ DoCommitClosed(r)
    \/ DoCommitFails(r)

PgxSchedulerStep == SchedulerStep /\ UNCHANGED pgxGhosts

PgxNext ==
    \/ \E r \in Callers :
         \/ \E op \in Ops, u \in Users, l \in Links : PgxBegin(r, op, u, l)
         \/ PgxRead(r)
         \/ PgxWrite(r)
         \/ PgxFail(r)
         \/ PgxCall(r)
         \/ PgxFinish(r)
         \/ PgxDropConnection(r)
    \/ PgxSchedulerStep
    \/ PgxRestart

PgxSpec == PgxInit /\ [][PgxNext]_pgxVars

-----------------------------------------------------------------------------
(* Properties. *)

PgxReqStates ==
    [pc : {"idle", "read", "write", "file", "start", "unfile", "remove", "commit",
           "rollback", "spin"},
     op : Ops \cup {None}, user : Users \cup {None}, link : Links \cup {None},
     ids : SUBSET Contexts]

PgxTypeOK ==
    /\ Sched!TypeOK
    /\ chats \subseteq Users
    /\ rows \subseteq [id : Contexts, chat : Users, url : Links]
    /\ req \in [Callers -> PgxReqStates]
    /\ tx \in [Callers -> Holding \cup {"none", "lost", "closed"}]
    /\ parted \cup refused \subseteq Contexts
    /\ disturbed \subseteq Links

\* Also with two commits for one request: a monitor that polls belongs to a
\* committed row or to an add request, unless its chat was deleted, a connection
\* was lost, or the row was deleted before the scheduler was told of it.
PgxLiveIsTracked ==
    \A c \in Contexts : (Sched!Running(c) /\ ctx[c] = "live") =>
        \/ c \in RowIds
        \/ \E r \in Callers : req[r].op = "add" /\ c \in req[r].ids
        \/ c \in parted
        \/ linkOf[c] \in disturbed

\* A committed row can be cancelled through cancelFuncs, with the same
\* exceptions, or while the request that committed it has yet to file it.
PgxTrackedIsFiled ==
    \A w \in rows :
        \/ cancelFuncs[w.url] = w.id
        \/ \E r \in Callers : w.id \in req[r].ids
        \/ w.id \in parted
        \/ w.url \in disturbed

-----------------------------------------------------------------------------
(* What the project's documents say and the code does not do. *)

\* scrapper-api.yaml answers a link that was added with 200: while no connection
\* is lost, a row in the table whose monitor polls was not answered with an error.
AddedIsAcknowledged ==
    \A w \in rows :
        (Sched!Running(w.id) /\ ctx[w.id] = "live" /\ w.url \notin disturbed)
        => w.id \notin refused
=============================================================================
