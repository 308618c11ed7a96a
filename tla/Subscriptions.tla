--------------------------- MODULE Subscriptions ---------------------------
(***************************************************************************)
(* What the scrapper promises about chats and links, without transactions, *)
(* locks and failures: a link belongs to at most one registered chat, only *)
(* a link nobody tracks can be added, and only the owner's links go when   *)
(* that chat removes links.  LinkService implements it.                    *)
(***************************************************************************)
CONSTANTS Users, Links, None

VARIABLES
    registered,  \* the chats
    owner        \* Links -> the chat that tracks the link

vars == <<registered, owner>>

Init ==
    /\ registered = {}
    /\ owner = [l \in Links |-> None]

Register(u) ==
    /\ u \notin registered
    /\ registered' = registered \cup {u}
    /\ UNCHANGED owner

Track(u, l) ==
    /\ u \in registered
    /\ owner[l] = None
    /\ owner' = [owner EXCEPT ![l] = u]
    /\ UNCHANGED registered

\* One link, or several at once when the chat is deleted.
Untrack(u, S) ==
    /\ S # {}
    /\ \A l \in S : owner[l] = u
    /\ owner' = [l \in Links |-> IF l \in S THEN None ELSE owner[l]]
    /\ UNCHANGED registered

Next ==
    \E u \in Users :
        \/ Register(u)
        \/ \E l \in Links : Track(u, l)
        \/ \E S \in SUBSET Links : Untrack(u, S)

Spec == Init /\ [][Next]_vars
=============================================================================
