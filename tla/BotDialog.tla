----------------------------- MODULE BotDialog -----------------------------
(***************************************************************************)
(* The conversations of the Telegram bot: registration, /track, /untrack   *)
(* and /list, with what the bot keeps in memory (domain.Users, the dialog  *)
(* states, the local list of links), the list it caches in Redis, and its  *)
(* requests to the scrapper, whose tables are those of Subscriptions.      *)
(*                                                                         *)
(* telebot runs every handler in a goroutine of its own, so a second       *)
(* message of a user can be handled before the first is answered (Overlap).*)
(* A request can be slow: the client gives up or sends it again while the  *)
(* scrapper is still to serve it.  The bot can restart; Redis and the      *)
(* scrapper do not forget.  Concurrent writes to a Go map, which end the   *)
(* process when they are noticed, are among the restarts.                  *)
(***************************************************************************)
EXTENDS Integers, FiniteSets

CONSTANTS
    Users, Links, None,
    Handlers,  \* goroutines: bound on the messages handled at once
    Calls,     \* bound on the requests under way to the scrapper
    Overlap    \* does a user write on before the answer has come?

\* What the bot sends to the scrapper.
Operations == {"register", "add", "remove"}
Requests == [op : Operations, user : Users, link : Links \cup {None}]

ASSUME OverlapIsBoolean == Overlap \in BOOLEAN
ASSUME NoneAssumption == None \notin Users \cup Links \cup Calls \cup Requests

VARIABLES
    users,         \* domain.Users
    regData,       \* domain.UserRegistrationData: "none", "email" or "password"
    trackState, untrackState,  \* stateManager: the users who are to send a link
    trackData,     \* domain.UserTrackData
    local,         \* repo: how often a link is in a user's list
    cache,         \* Redis: None or the list that /list has stored
    hnd,           \* Handlers -> the handler's place in the code and its locals
    net,           \* Calls -> a request that the scrapper is still to serve
    registered, owner,         \* the scrapper, as in Subscriptions
    \* what the properties talk about
    unpurged,      \* users whose Cache.Delete failed since their list was stored
    resent,        \* <<u, l>>: some RemoveLink for them was sent more than once
    forgotten      \* <<u, l>>: tracked without the bot being told, or after it gave up
                   \* removing l or forgot its lists

memory == <<users, regData, trackState, untrackState, trackData, local>>
scrapper == <<registered, owner>>
ghosts == <<unpurged, resent, forgotten>>
vars == <<memory, cache, hnd, net, scrapper, ghosts>>

Scrapper == INSTANCE Subscriptions

HandlerIdle == [pc |-> "idle", user |-> None, url |-> None, call |-> None, links |-> {}]
NoLinks == [u \in Users |-> [l \in Links |-> 0]]
Listed(u) == {l \in Links : local[u][l] > 0}
Tracked(u) == {l \in Links : owner[l] = u}

Init ==
    /\ users = {}
    /\ regData = [u \in Users |-> "none"]
    /\ trackState = {}
    /\ untrackState = {}
    /\ trackData = [u \in Users |-> None]
    /\ local = NoLinks
    /\ cache = [u \in Users |-> None]
    /\ hnd = [h \in Handlers |-> HandlerIdle]
    /\ net = [c \in Calls |-> None]
    /\ Scrapper!Init
    /\ unpurged = {}
    /\ resent = {}
    /\ forgotten = {}

\* User u can send a message.
Writes(u) == Overlap \/ \A h \in Handlers : hnd[h].user # u

Begin(h, u, pc, url, c) ==
    hnd' = [hnd EXCEPT ![h] = [pc |-> pc, user |-> u, url |-> url, call |-> c, links |-> {}]]

Goto(h, pc) == hnd' = [hnd EXCEPT ![h].pc = pc]
End(h) == hnd' = [hnd EXCEPT ![h] = HandlerIdle]

-----------------------------------------------------------------------------
(* Commands. *)

\* Start for a user it does not know; the others get their data.
Start(h, u) ==
    /\ hnd[h].pc = "idle" /\ Writes(u)
    /\ u \notin users
    /\ Begin(h, u, "greet", None, None)
    /\ UNCHANGED <<memory, cache, net, scrapper, ghosts>>

\* The question for the email is sent before the dialog is entered; when
\* Telegram refuses it, the dialog is not.
Greet(h) ==
    /\ hnd[h].pc = "greet"
    /\ regData' \in {regData, [regData EXCEPT ![hnd[h].user] = "email"]}
    /\ End(h)
    /\ UNCHANGED <<users, trackState, untrackState, trackData, local, cache, net, scrapper, ghosts>>

Track(u) ==
    /\ Writes(u)
    /\ u \in users
    /\ trackState' = trackState \cup {u}
    /\ UNCHANGED <<users, regData, untrackState, trackData, local, cache, hnd, net, scrapper, ghosts>>

Untrack(u) ==
    /\ Writes(u)
    /\ u \in users
    /\ Listed(u) # {}
    /\ untrackState' = untrackState \cup {u}
    /\ UNCHANGED <<users, regData, trackState, trackData, local, cache, hnd, net, scrapper, ghosts>>

\* List up to Cache.Get; an error of it is a miss, an empty list is not.
List(h, u) ==
    /\ hnd[h].pc = "idle" /\ Writes(u)
    /\ u \in users
    /\ \/ Begin(h, u, "fetch", None, None)
       \/ /\ cache[u] # None
          /\ hnd' = [hnd EXCEPT ![h] = [HandlerIdle EXCEPT !.pc = "show", !.user = u,
                                                            !.links = cache[u]]]
    /\ UNCHANGED <<memory, cache, net, scrapper, ghosts>>

-----------------------------------------------------------------------------
(* Message: what a text means depends on the dialog its sender is in. *)

\* HandleRegistrationEmail; a text that is no email leaves the state as it is.
Email(u) ==
    /\ Writes(u)
    /\ regData[u] = "email"
    /\ regData' = [regData EXCEPT ![u] = "password"]
    /\ UNCHANGED <<users, trackState, untrackState, trackData, local, cache, hnd, net, scrapper, ghosts>>

\* Send request m by call c.
Send(h, u, c, m) ==
    /\ net[c] = None
    /\ net' = [net EXCEPT ![c] = m]
    /\ Begin(h, u, m.op, m.link, c)

Request(op, u, l) == [op |-> op, user |-> u, link |-> l]

\* HandleRegistrationPassword takes any text for the password.
Password(h, u, c) ==
    /\ hnd[h].pc = "idle" /\ Writes(u)
    /\ regData[u] = "password"
    /\ Send(h, u, c, Request("register", u, None))
    /\ UNCHANGED <<memory, cache, scrapper, ghosts>>

\* Mutant of TrackLink: an entry of UserTrackData that is there stays.
TrackOldLink(h, u, l, c) ==
    /\ hnd[h].pc = "idle" /\ Writes(u)
    /\ regData[u] = "none"
    /\ u \in trackState
    /\ l \notin Listed(u)
    /\ trackData' = [trackData EXCEPT ![u] = IF @ = None THEN l ELSE @]
    /\ Send(h, u, c, Request("add", u, l))
    /\ UNCHANGED <<users, regData, trackState, untrackState, local, cache, scrapper, ghosts>>

\* HandleTrackLink up to the request; a text that is no link or one in the
\* local list only gets an answer.
TrackLink(h, u, l, c) ==
    /\ hnd[h].pc = "idle" /\ Writes(u)
    /\ regData[u] = "none"
    /\ u \in trackState
    /\ l \notin Listed(u)
    /\ trackData' = [trackData EXCEPT ![u] = l]
    /\ Send(h, u, c, Request("add", u, l))
    /\ UNCHANGED <<users, regData, trackState, untrackState, local, cache, scrapper, ghosts>>

Untracking(u) ==
    /\ Writes(u)
    /\ regData[u] = "none"
    /\ u \in untrackState \ trackState
    /\ Listed(u) # {}

\* Mutant of UntrackLink: DeleteLink does not look for the link.
UntrackUnlisted(h, u, l, c) ==
    /\ hnd[h].pc = "idle" /\ Untracking(u)
    /\ local' = [local EXCEPT ![u][l] = @ - 1]
    /\ Send(h, u, c, Request("remove", u, l))
    /\ UNCHANGED <<users, regData, trackState, untrackState, trackData, cache, scrapper, ghosts>>

\* Mutant of UntrackLink: the local list is left for later.
UntrackLater(h, u, l, c) ==
    /\ hnd[h].pc = "idle" /\ Untracking(u)
    /\ l \in Listed(u)
    /\ Send(h, u, c, Request("remove", u, l))
    /\ UNCHANGED <<users, regData, trackState, untrackState, trackData, local, cache, scrapper, ghosts>>

\* HandleUntrackLink deletes the link from the local list, then at the scrapper.
UntrackLink(h, u, l, c) ==
    /\ hnd[h].pc = "idle" /\ Untracking(u)
    /\ l \in Listed(u)
    /\ local' = [local EXCEPT ![u][l] = @ - 1]
    /\ Send(h, u, c, Request("remove", u, l))
    /\ UNCHANGED <<users, regData, trackState, untrackState, trackData, cache, scrapper, ghosts>>

\* HandleUntrackLink, for a text that is not in the local list.
UntrackOther(h, u) ==
    /\ hnd[h].pc = "idle" /\ Untracking(u)
    /\ Begin(h, u, "nolink", None, None)
    /\ UNCHANGED <<memory, cache, net, scrapper, ghosts>>

-----------------------------------------------------------------------------
(* Requests to the scrapper. *)

Waits(h) == hnd[h].pc \in Operations

\* Where the handler goes on after the status 200.
Success == [register |-> "registered", add |-> "added", remove |-> "removed"]

\* Some handler still waits for the answer to call c.
Awaited(c) == \E h \in Handlers : hnd[h].call = c

\* Call c ends, with or without the answer 200 for the handler that waits.
Answered(c, ok) ==
    /\ net' = [net EXCEPT ![c] = None]
    /\ hnd' = [h \in Handlers |->
                 IF hnd[h].call # c THEN hnd[h]
                 ELSE [hnd[h] EXCEPT !.call = None, !.pc = IF ok THEN Success[@] ELSE @]]

Effect(m) ==
    \/ m.op = "register" /\ Scrapper!Register(m.user)
    \/ m.op = "add" /\ Scrapper!Track(m.user, m.link)
    \/ m.op = "remove" /\ Scrapper!Untrack(m.user, {m.link})

\* The scrapper serves a request; the answer may be an error all the same.
Serve(c) ==
    /\ net[c] # None
    /\ Effect(net[c])
    /\ \E ok \in BOOLEAN :
         /\ Answered(c, ok)
         /\ forgotten' = {p \in Users \X Links :
                            /\ owner'[p[2]] = p[1]
                            /\ \/ p \in forgotten
                               \/ net[c] = Request("add", p[1], p[2]) /\ ~(ok /\ Awaited(c))}
    /\ UNCHANGED <<memory, cache, unpurged, resent>>

\* The scrapper refuses a request, or never gets it.
Refuse(c) ==
    /\ net[c] # None
    /\ Answered(c, FALSE)
    /\ UNCHANGED <<memory, cache, scrapper, ghosts>>

\* HTTPClientWithReliability.Do: after a retryable answer or an error, a timeout
\* for example, the request is sent again.
Resend(h, c) ==
    /\ Waits(h)
    /\ net[c] = None
    /\ net' = [net EXCEPT ![c] = Request(hnd[h].pc, hnd[h].user, hnd[h].url)]
    /\ hnd' = [hnd EXCEPT ![h].call = c]
    /\ resent' = IF hnd[h].pc = "remove"
                   THEN resent \cup {<<hnd[h].user, hnd[h].url>>} ELSE resent
    /\ UNCHANGED <<memory, cache, scrapper, unpurged, forgotten>>

\* The last attempt failed; the handler tells the user to try again.
GiveUp(h) ==
    /\ Waits(h)
    /\ End(h)
    /\ forgotten' = forgotten \cup
         {p \in Users \X Links : /\ owner[p[2]] = p[1]
                                /\ hnd[h].pc = "remove" /\ p = <<hnd[h].user, hnd[h].url>>}
    /\ UNCHANGED <<memory, cache, net, scrapper, unpurged, resent>>

-----------------------------------------------------------------------------
(* The handlers after the scrapper's answer. *)

\* Mutant of Registered: the dialog is not closed.
RegisteredOnly(h) ==
    LET u == hnd[h].user IN
    /\ hnd[h].pc = "registered"
    /\ users' = users \cup {u}
    /\ End(h)
    /\ UNCHANGED <<regData, trackState, untrackState, trackData, local, cache, net, scrapper, ghosts>>

\* HandleRegistrationPassword.
Registered(h) ==
    LET u == hnd[h].user IN
    /\ hnd[h].pc = "registered"
    /\ users' = users \cup {u}
    /\ regData' = [regData EXCEPT ![u] = "none"]
    /\ End(h)
    /\ UNCHANGED <<trackState, untrackState, trackData, local, cache, net, scrapper, ghosts>>

\* HandleTrackLink reads UserTrackData again; an entry that is gone reads as the
\* empty link of user 0, which is nobody.
Added(h) ==
    LET u == hnd[h].user IN
    /\ hnd[h].pc = "added"
    /\ local' = IF trackData[u] = None THEN local
                ELSE [local EXCEPT ![u][trackData[u]] = @ + 1]
    /\ Goto(h, "purge")
    /\ UNCHANGED <<users, regData, trackState, untrackState, trackData, cache, net, scrapper, ghosts>>

\* Cache.Delete, whose error is only logged.
DeleteCached(u) ==
    \/ /\ cache' = [cache EXCEPT ![u] = None]
       /\ unpurged' = unpurged \ {u}
    \/ /\ unpurged' = unpurged \cup {u}
       /\ UNCHANGED cache

\* Mutant of Purge: the cached list stays, as HandleUntrackLink lets it.
PurgeNothing(h) ==
    LET u == hnd[h].user IN
    /\ hnd[h].pc = "purge"
    /\ trackState' = trackState \ {u}
    /\ trackData' = [trackData EXCEPT ![u] = None]
    /\ End(h)
    /\ UNCHANGED <<users, regData, untrackState, local, cache, net, scrapper, ghosts>>

\* The end of HandleTrackLink.
Purge(h) ==
    LET u == hnd[h].user IN
    /\ hnd[h].pc = "purge"
    /\ DeleteCached(u)
    /\ trackState' = trackState \ {u}
    /\ trackData' = [trackData EXCEPT ![u] = None]
    /\ End(h)
    /\ UNCHANGED <<users, regData, untrackState, local, net, scrapper, resent, forgotten>>

\* HandleUntrackLink leaves the cached list alone ...
Removed(h) ==
    /\ hnd[h].pc = "removed"
    /\ untrackState' = untrackState \ {hnd[h].user}
    /\ End(h)
    /\ UNCHANGED <<users, regData, trackState, trackData, local, cache, net, scrapper, ghosts>>

\* ... and drops it when there was no link to remove.
NoSuchLink(h) ==
    LET u == hnd[h].user IN
    /\ hnd[h].pc = "nolink"
    /\ DeleteCached(u)
    /\ untrackState' = untrackState \ {u}
    /\ End(h)
    /\ UNCHANGED <<users, regData, trackState, trackData, local, net, scrapper, resent, forgotten>>

\* getLinksFromScraperAndCache: GetLinks, then Cache.Set, each of which may fail.
Fetch(h) ==
    /\ hnd[h].pc = "fetch"
    /\ \/ hnd' = [hnd EXCEPT ![h].pc = "store", ![h].links = Tracked(hnd[h].user)]
       \/ End(h)
    /\ UNCHANGED <<memory, cache, net, scrapper, ghosts>>

Store(h) ==
    LET u == hnd[h].user IN
    /\ hnd[h].pc = "store"
    /\ \/ /\ cache' = [cache EXCEPT ![u] = hnd[h].links]
          /\ unpurged' = unpurged \ {u}
          /\ Goto(h, "show")
       \/ /\ End(h)
          /\ UNCHANGED <<cache, unpurged>>
    /\ UNCHANGED <<memory, net, scrapper, resent, forgotten>>

\* The list is sent.
Show(h) ==
    /\ hnd[h].pc = "show"
    /\ End(h)
    /\ UNCHANGED <<memory, cache, net, scrapper, ghosts>>

-----------------------------------------------------------------------------
\* The minute that a list stays in Redis is over.
CacheExpires(u) ==
    /\ cache' = [cache EXCEPT ![u] = None]
    /\ unpurged' = unpurged \ {u}
    /\ UNCHANGED <<memory, hnd, net, scrapper, resent, forgotten>>

\* The bot ends and starts again with empty maps; its requests are under way.
Restart ==
    /\ users' = {}
    /\ regData' = [u \in Users |-> "none"]
    /\ trackState' = {}
    /\ untrackState' = {}
    /\ trackData' = [u \in Users |-> None]
    /\ local' = NoLinks
    /\ hnd' = [h \in Handlers |-> HandlerIdle]
    /\ forgotten' = {p \in Users \X Links : owner[p[2]] = p[1]}
    /\ UNCHANGED <<cache, net, scrapper, unpurged, resent>>

Command(u) ==
    \/ Track(u) \/ Untrack(u) \/ Email(u)
    \/ \E h \in Handlers : Start(h, u) \/ List(h, u)

Text(u) ==
    \E h \in Handlers :
        \/ UntrackOther(h, u)
        \/ \E c \in Calls :
             \/ Password(h, u, c)
             \/ \E l \in Links : TrackLink(h, u, l, c) \/ UntrackLink(h, u, l, c)

HandlerStep(h) ==
    \/ Greet(h) \/ Registered(h) \/ Added(h) \/ Purge(h) \/ Removed(h)
    \/ NoSuchLink(h) \/ Fetch(h) \/ Store(h) \/ Show(h)

Next ==
    \/ \E u \in Users : Command(u) \/ Text(u) \/ CacheExpires(u)
    \/ \E h \in Handlers : HandlerStep(h) \/ GiveUp(h) \/ \E c \in Calls : Resend(h, c)
    \/ \E c \in Calls : Serve(c) \/ Refuse(c)
    \/ Restart

Spec == Init /\ [][Next]_vars

-----------------------------------------------------------------------------
(* Properties. *)

HandlerStates ==
    [pc : Operations \cup {"idle", "greet", "fetch", "store", "show", "registered", "added",
                           "purge", "removed", "nolink"},
     user : Users \cup {None}, url : Links \cup {None},
     call : Calls \cup {None}, links : SUBSET Links]

TypeOK ==
    /\ users \subseteq Users
    /\ regData \in [Users -> {"none", "email", "password"}]
    /\ trackState \subseteq Users
    /\ untrackState \subseteq Users
    /\ trackData \in [Users -> Links \cup {None}]
    /\ local \in [Users -> [Links -> Nat]]
    /\ cache \in [Users -> (SUBSET Links) \cup {None}]
    /\ hnd \in [Handlers -> HandlerStates]
    /\ net \in [Calls -> Requests \cup {None}]
    /\ registered \subseteq Users
    /\ owner \in [Links -> Users \cup {None}]
    /\ unpurged \subseteq Users
    /\ resent \subseteq Users \X Links
    /\ forgotten \subseteq Users \X Links

\* A link that the bot lists for a user is listed once and is tracked for the
\* user by the scrapper, however late a request that the bot gave up is served,
\* unless the client has sent a RemoveLink for it more than once.
\* What keeps this is that HandleUntrackLink deletes the local entry first: a
\* late RemoveLink never finds the link listed again.
ListedIsTracked ==
    \A u \in Users : \A l \in Listed(u) :
        local[u][l] = 1 /\ (owner[l] = u \/ <<u, l>> \in resent)

\* /list answered from Redis shows at least the links the bot itself lists, from
\* the moment "added" is answered, unless Redis failed to delete the old list
\* or RemoveLink was sent twice.
CachedHasListed ==
    \A u \in Users :
        \/ cache[u] = None
        \/ u \in unpurged
        \/ \E h \in Handlers : hnd[h].user = u /\ hnd[h].pc = "purge"
        \/ \A l \in Listed(u) \ cache[u] : <<u, l>> \in resent

\* A user the bot knows is registered at the scrapper and has left the
\* registration dialog, where every text is taken for an email or a password.
KnownHasRegistered ==
    \A u \in users : u \in registered /\ regData[u] = "none"

\* A link that the scrapper tracks for a user is listed by the bot or on its way
\* into or out of the list, when users wait for the answer (~Overlap): the link
\* that AddLink registered is the one that the handler, reading UserTrackData again
\* after the answer, lists, so that /untrack finds it.  The exceptions (forgotten)
\* are the links that the bot cannot know of: AddLink took effect and its answer
\* was an error, was lost or came after the handler gave up; RemoveLink was given
\* up after the local entry was deleted; the bot restarted.
TrackedIsListed ==
    \A u \in Users : \A l \in Tracked(u) :
        \/ l \in Listed(u)
        \/ <<u, l>> \in forgotten
        \/ \E h \in Handlers : /\ hnd[h].user = u /\ hnd[h].url = l
                               /\ hnd[h].pc \in {"added", "remove"}
=============================================================================
