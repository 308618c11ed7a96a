--------------------------- MODULE BotDialogProofs ---------------------------
(***************************************************************************)
(* The safety properties of BotDialog, for any numbers of users, links,    *)
(* goroutines and requests.  The types hold for every user; what the bot   *)
(* lists, caches and answers, for users who wait for an answer before they *)
(* write on: without that the properties are false.                        *)
(***************************************************************************)
EXTENDS BotDialog, TLAPS

\* Only a registration names no link.
Fits(op, l) == (l \in Links) <=> op # "register"

\* Which locals a handler has at its place, and that the scrapper has the request
\* of the call a handler waits for.
Shaped(r, requests) ==
    /\ r.pc = "idle" <=> r.user = None
    /\ r.pc \in Operations \cup {"added", "purge", "removed"} => Fits(r.pc, r.url)
    /\ r.call # None => /\ r.pc \in Operations
                        /\ requests[r.call] = Request(r.pc, r.user, r.url)

Shape ==
    /\ \A c \in Calls : net[c] # None => Fits(net[c].op, net[c].link)
    /\ \A h \in Handlers : Shaped(hnd[h], net)

-----------------------------------------------------------------------------
(* What the steps do to the handlers. *)

\* Handler h goes to r, the others stay.
Moves(h, r) ==
    /\ hnd'[h] = r
    /\ \A k \in Handlers : k # h => hnd'[k] = hnd[k]

Message(u, pc, url, c) == [pc |-> pc, user |-> u, url |-> url, call |-> c, links |-> {}]

LEMMA MovesTypes ==
  ASSUME TypeOK, NEW h \in Handlers, NEW r \in HandlerStates, hnd' = [hnd EXCEPT ![h] = r]
  PROVE  Moves(h, r) /\ hnd' \in [Handlers -> HandlerStates]
BY DEF TypeOK, Moves

LEMMA EndMoves ==
  ASSUME TypeOK, NEW h \in Handlers, End(h)
  PROVE  Moves(h, HandlerIdle) /\ hnd' \in [Handlers -> HandlerStates]
<1>1. HandlerIdle \in HandlerStates
  BY DEF HandlerIdle, HandlerStates
<1>. QED
  BY <1>1, MovesTypes DEF End

LEMMA BeginMoves ==
  ASSUME TypeOK, NEW h \in Handlers, NEW u \in Users,
         NEW pc \in Operations \cup {"greet", "fetch", "nolink"},
         NEW url \in Links \cup {None}, NEW c \in Calls \cup {None},
         Begin(h, u, pc, url, c)
  PROVE  Moves(h, Message(u, pc, url, c)) /\ hnd' \in [Handlers -> HandlerStates]
<1>1. Message(u, pc, url, c) \in HandlerStates
  BY DEF Message, HandlerStates
<1>. QED
  BY <1>1, MovesTypes DEF Begin, Message

LEMMA GotoMoves ==
  ASSUME TypeOK, NEW h \in Handlers, NEW pc \in {"purge", "show"}, Goto(h, pc)
  PROVE  Moves(h, [hnd[h] EXCEPT !.pc = pc]) /\ hnd' \in [Handlers -> HandlerStates]
<1>1. [hnd[h] EXCEPT !.pc = pc] \in HandlerStates
  BY DEF TypeOK, HandlerStates
<1>. QED
  BY <1>1, MovesTypes DEF Goto

Asked(r, ok) == [r EXCEPT !.call = None, !.pc = IF ok THEN Success[@] ELSE @]

LEMMA AnsweredMoves ==
  ASSUME TypeOK, Shape, NEW c \in Calls, NEW ok \in BOOLEAN, Answered(c, ok)
  PROVE  /\ hnd' \in [Handlers -> HandlerStates]
         /\ net' \in [Calls -> Requests \cup {None}]
         /\ \A k \in Handlers :
              /\ hnd[k].call # c => hnd'[k] = hnd[k]
              /\ hnd[k].call = c => hnd'[k] = Asked(hnd[k], ok)
              /\ hnd'[k].user = hnd[k].user /\ hnd'[k].url = hnd[k].url
              /\ hnd'[k].links = hnd[k].links
<1>1. net' \in [Calls -> Requests \cup {None}]
  BY DEF Answered, TypeOK
<1>2. ASSUME NEW k \in Handlers
      PROVE  /\ hnd'[k] \in HandlerStates
             /\ hnd[k].call # c => hnd'[k] = hnd[k]
             /\ hnd[k].call = c => hnd'[k] = Asked(hnd[k], ok)
             /\ hnd'[k].user = hnd[k].user /\ hnd'[k].url = hnd[k].url
             /\ hnd'[k].links = hnd[k].links
  <2>1. hnd[k] \in HandlerStates
    BY DEF TypeOK
  <2>2. CASE hnd[k].call # c
    BY <2>1, <2>2 DEF Answered
  <2>3. CASE hnd[k].call = c
    <3>1. hnd[k].pc \in Operations
      BY <2>3, NoneAssumption DEF Shape, Shaped
    <3>2. hnd'[k] = Asked(hnd[k], ok)
      BY <2>3 DEF Answered, Asked
    <3>3. Success[hnd[k].pc] \in {"registered", "added", "removed"}
      BY <3>1 DEF Success, Operations
    <3>4. Asked(hnd[k], ok) \in HandlerStates
      BY <2>1, <3>3 DEF Asked, HandlerStates
    <3>. QED
      BY <2>1, <2>3, <3>2, <3>4 DEF Asked, HandlerStates
  <2>. QED
    BY <2>2, <2>3
<1>3. hnd' \in [Handlers -> HandlerStates]
  <2>1. hnd' = [h \in Handlers |-> IF hnd[h].call # c THEN hnd[h] ELSE Asked(hnd[h], ok)]
    BY DEF Answered, Asked
  <2>2. \A h \in Handlers :
          (IF hnd[h].call # c THEN hnd[h] ELSE Asked(hnd[h], ok)) \in HandlerStates
    BY <1>2, <2>1
  <2>. QED
    BY <2>1, <2>2
<1>. QED
  BY <1>1, <1>2, <1>3

LEMMA MovesShape ==
  ASSUME TypeOK, Shape, NEW h \in Handlers, NEW r, Moves(h, r), Shaped(r, net), UNCHANGED net
  PROVE  Shape'
BY DEF Moves, Shape

\* A request is sent by a call that no handler waits for.
LEMMA SendsShape ==
  ASSUME TypeOK, Shape, NEW h \in Handlers, NEW r \in HandlerStates, Moves(h, r),
         NEW c \in Calls, net[c] = None, r.call = c, r.user \in Users, r.pc \in Operations,
         Fits(r.pc, r.url), net' = [net EXCEPT ![c] = Request(r.pc, r.user, r.url)]
  PROVE  net' \in [Calls -> Requests \cup {None}] /\ Shape'
<1>1. Request(r.pc, r.user, r.url) \in Requests
  BY DEF Request, Requests, HandlerStates
<1>2. net' \in [Calls -> Requests \cup {None}]
  BY <1>1 DEF TypeOK
<1>3. net'[c] = Request(r.pc, r.user, r.url) /\ \A d \in Calls : d # c => net'[d] = net[d]
  BY DEF TypeOK
<1>4. \A d \in Calls : net'[d] # None => Fits(net'[d].op, net'[d].link)
  BY <1>3 DEF Shape, Request
<1>5. ASSUME NEW k \in Handlers, k # h PROVE Shaped(hnd'[k], net')
  <2>1. hnd'[k] = hnd[k] /\ Shaped(hnd[k], net) /\ hnd[k] \in HandlerStates
    BY <1>5 DEF Moves, Shape, TypeOK
  <2>2. hnd[k].call # c
    <3>. SUFFICES ASSUME hnd[k].call = c PROVE FALSE
      OBVIOUS
    <3>1. c # None
      BY NoneAssumption
    <3>2. None = Request(hnd[k].pc, hnd[k].user, hnd[k].url) /\ hnd[k].pc \in Operations
      BY <2>1, <3>1 DEF Shaped
    <3>3. hnd[k].user \in Users
      BY <2>1, <3>2 DEF Shaped, HandlerStates, Operations
    <3>4. Request(hnd[k].pc, hnd[k].user, hnd[k].url) \in Requests
      BY <2>1, <3>2, <3>3 DEF Request, Requests, HandlerStates
    <3>. QED
      BY <3>2, <3>4, NoneAssumption
  <2>. QED
    BY <1>3, <2>1, <2>2 DEF Shaped, HandlerStates
<1>6. Shaped(hnd'[h], net')
  BY <1>3, NoneAssumption DEF Moves, Shaped, Operations
<1>. QED
  BY <1>2, <1>4, <1>5, <1>6 DEF Shape

LEMMA AnsweredShape ==
  ASSUME TypeOK, Shape, NEW c \in Calls, NEW ok \in BOOLEAN, Answered(c, ok)
  PROVE  Shape'
<1>1. net'[c] = None /\ \A d \in Calls : d # c => net'[d] = net[d]
  BY DEF Answered, TypeOK
<1>2. ASSUME NEW k \in Handlers PROVE Shaped(hnd'[k], net')
  <2>1. hnd[k] \in HandlerStates /\ Shaped(hnd[k], net)
    BY DEF TypeOK, Shape
  <2>2. CASE hnd[k].call # c
    <3>1. hnd'[k] = hnd[k]
      BY <2>2, AnsweredMoves
    <3>. QED
      BY <1>1, <2>1, <2>2, <3>1 DEF Shaped, HandlerStates
  <2>3. CASE hnd[k].call = c
    <3>1. hnd[k].pc \in Operations
      BY <2>1, <2>3, NoneAssumption DEF Shaped
    <3>2. hnd'[k] = Asked(hnd[k], ok)
      BY <2>3, AnsweredMoves
    <3>3. /\ hnd'[k].user = hnd[k].user /\ hnd'[k].url = hnd[k].url /\ hnd'[k].call = None
          /\ hnd'[k].pc = IF ok THEN Success[hnd[k].pc] ELSE hnd[k].pc
      BY <2>1, <3>2 DEF Asked, HandlerStates
    <3>. QED
      BY <2>1, <3>1, <3>3 DEF Shaped, Success, Operations, Fits
  <2>. QED
    BY <2>2, <2>3
<1>3. \A d \in Calls : net'[d] # None => Fits(net'[d].op, net'[d].link)
  BY <1>1 DEF Shape
<1>. QED
  BY <1>2, <1>3 DEF Shape

LEMMA HandlerFields ==
  ASSUME TypeOK, NEW h \in Handlers
  PROVE  /\ hnd[h] \in HandlerStates
         /\ hnd[h].user \in Users \cup {None} /\ hnd[h].url \in Links \cup {None}
         /\ hnd[h].call \in Calls \cup {None} /\ hnd[h].links \subseteq Links
BY DEF TypeOK, HandlerStates

LEMMA BeginStep ==
  ASSUME TypeOK, Shape, NEW h \in Handlers, NEW u \in Users,
         NEW pc \in {"greet", "fetch", "nolink"}, Begin(h, u, pc, None, None), UNCHANGED net
  PROVE  hnd' \in [Handlers -> HandlerStates] /\ Shape'
<1>1. Moves(h, Message(u, pc, None, None)) /\ hnd' \in [Handlers -> HandlerStates]
  BY BeginMoves
<1>2. Shaped(Message(u, pc, None, None), net)
  BY NoneAssumption DEF Shaped, Message, Operations
<1>. QED
  BY <1>1, <1>2, MovesShape

LEMMA EndStep ==
  ASSUME TypeOK, Shape, NEW h \in Handlers, End(h), UNCHANGED net
  PROVE  hnd' \in [Handlers -> HandlerStates] /\ Shape'
<1>1. Moves(h, HandlerIdle) /\ hnd' \in [Handlers -> HandlerStates]
  BY EndMoves
<1>2. Shaped(HandlerIdle, net)
  BY DEF Shaped, HandlerIdle, Operations
<1>. QED
  BY <1>1, <1>2, MovesShape

LEMMA SendStep ==
  ASSUME TypeOK, Shape, NEW h \in Handlers, NEW u \in Users, NEW c \in Calls,
         NEW op \in Operations, NEW l \in Links \cup {None}, Fits(op, l),
         Send(h, u, c, Request(op, u, l))
  PROVE  /\ hnd' \in [Handlers -> HandlerStates]
         /\ net' \in [Calls -> Requests \cup {None}]
         /\ Shape'
<1>. DEFINE r == Message(u, op, l, c)
<1>1. Begin(h, u, op, l, c) /\ net[c] = None /\ net' = [net EXCEPT ![c] = Request(op, u, l)]
  BY DEF Send, Request
<1>2. Moves(h, r) /\ hnd' \in [Handlers -> HandlerStates]
  BY <1>1, BeginMoves
<1>3. r \in HandlerStates /\ r.call = c /\ r.user = u /\ r.pc = op /\ r.url = l
  BY DEF Message, HandlerStates
<1>. HIDE DEF r
<1>. QED
  BY <1>1, <1>2, <1>3, SendsShape

-----------------------------------------------------------------------------
(* Types. *)

\* The types of all that is neither a handler nor a request.
Tables ==
    /\ users \subseteq Users
    /\ regData \in [Users -> {"none", "email", "password"}]
    /\ trackState \subseteq Users
    /\ untrackState \subseteq Users
    /\ trackData \in [Users -> Links \cup {None}]
    /\ local \in [Users -> [Links -> Nat]]
    /\ cache \in [Users -> (SUBSET Links) \cup {None}]
    /\ registered \subseteq Users
    /\ owner \in [Links -> Users \cup {None}]
    /\ unpurged \subseteq Users
    /\ resent \subseteq Users \X Links
    /\ forgotten \subseteq Users \X Links

LEMMA TypeParts ==
  TypeOK <=> Tables /\ hnd \in [Handlers -> HandlerStates] /\ net \in [Calls -> Requests \cup {None}]
BY DEF TypeOK, Tables

LEMMA TypePartsNext ==
  TypeOK' <=> /\ Tables'
              /\ (hnd \in [Handlers -> HandlerStates])'
              /\ (net \in [Calls -> Requests \cup {None}])'
BY TypeParts, PTL

LEMMA CommandTypes ==
  ASSUME TypeOK, Shape, NEW u \in Users, Command(u) \/ CacheExpires(u)
  PROVE  TypeOK' /\ Shape'
<1>. USE DEF memory, scrapper, ghosts
<1>1. CASE Track(u) \/ Untrack(u) \/ Email(u) \/ CacheExpires(u)
  <2>1. Tables' /\ UNCHANGED <<hnd, net>>
    BY <1>1 DEF Track, Untrack, Email, CacheExpires, TypeOK, Tables
  <2>2. Shape'
    BY <2>1 DEF Shape
  <2>. QED
    BY <2>1, <2>2, TypeParts, TypePartsNext
<1>2. ASSUME NEW h \in Handlers, Start(h, u) PROVE TypeOK' /\ Shape'
  <2>1. Tables' /\ UNCHANGED net
    BY <1>2, TypeParts DEF Start, Tables
  <2>2. hnd' \in [Handlers -> HandlerStates] /\ Shape'
    BY <1>2, <2>1, BeginStep DEF Start
  <2>. QED
    BY <2>1, <2>2, TypeParts, TypePartsNext
<1>3. ASSUME NEW h \in Handlers, List(h, u) PROVE TypeOK' /\ Shape'
  <2>1. Tables' /\ UNCHANGED net
    BY <1>3, TypeParts DEF List, Tables
  <2>2. CASE Begin(h, u, "fetch", None, None)
    <3>1. hnd' \in [Handlers -> HandlerStates] /\ Shape'
      BY <2>1, <2>2, BeginStep
    <3>. QED
      BY <2>1, <3>1, TypeParts, TypePartsNext
  <2>3. CASE /\ cache[u] # None
             /\ hnd' = [hnd EXCEPT ![h] = [HandlerIdle EXCEPT !.pc = "show", !.user = u,
                                                               !.links = cache[u]]]
    <3>. DEFINE r == [HandlerIdle EXCEPT !.pc = "show", !.user = u, !.links = cache[u]]
    <3>1. r \in HandlerStates /\ Shaped(r, net)
      BY <2>3, NoneAssumption
         DEF TypeOK, HandlerStates, HandlerIdle, Shaped, Operations
    <3>. HIDE DEF r
    <3>2. Moves(h, r) /\ hnd' \in [Handlers -> HandlerStates]
      BY <2>3, <3>1, MovesTypes DEF r
    <3>3. Shape'
      BY <2>1, <3>1, <3>2, MovesShape
    <3>. QED
      BY <2>1, <3>2, <3>3, TypeParts, TypePartsNext
  <2>. QED
    BY <1>3, <2>2, <2>3 DEF List
<1>. QED
  BY <1>1, <1>2, <1>3 DEF Command

LEMMA TextTypes ==
  ASSUME TypeOK, Shape, NEW u \in Users, Text(u)
  PROVE  TypeOK' /\ Shape'
<1>. USE DEF memory, scrapper, ghosts
<1>1. ASSUME NEW h \in Handlers, UntrackOther(h, u) PROVE TypeOK' /\ Shape'
  <2>1. Tables' /\ UNCHANGED net
    BY <1>1, TypeParts DEF UntrackOther, Tables
  <2>2. hnd' \in [Handlers -> HandlerStates] /\ Shape'
    BY <1>1, <2>1, BeginStep DEF UntrackOther
  <2>. QED
    BY <2>1, <2>2, TypeParts, TypePartsNext
<1>2. ASSUME NEW h \in Handlers, NEW c \in Calls, Password(h, u, c) PROVE TypeOK' /\ Shape'
  <2>1. Tables'
    BY <1>2, TypeParts DEF Password, Tables
  <2>2. Send(h, u, c, Request("register", u, None)) /\ Fits("register", None)
    BY <1>2, NoneAssumption DEF Password, Fits
  <2>3. /\ hnd' \in [Handlers -> HandlerStates] /\ net' \in [Calls -> Requests \cup {None}]
        /\ Shape'
    BY <2>2, SendStep DEF Operations
  <2>. QED
    BY <2>1, <2>3, TypePartsNext
<1>3. ASSUME NEW h \in Handlers, NEW c \in Calls, NEW l \in Links, TrackLink(h, u, l, c)
      PROVE  TypeOK' /\ Shape'
  <2>1. Tables'
    BY <1>3, TypeParts DEF TrackLink, Tables
  <2>2. Send(h, u, c, Request("add", u, l)) /\ Fits("add", l)
    BY <1>3 DEF TrackLink, Fits
  <2>3. /\ hnd' \in [Handlers -> HandlerStates] /\ net' \in [Calls -> Requests \cup {None}]
        /\ Shape'
    BY <2>2, SendStep DEF Operations
  <2>. QED
    BY <2>1, <2>3, TypePartsNext
<1>4. ASSUME NEW h \in Handlers, NEW c \in Calls, NEW l \in Links, UntrackLink(h, u, l, c)
      PROVE  TypeOK' /\ Shape'
  <2>1. local' \in [Users -> [Links -> Nat]]
    BY <1>4 DEF UntrackLink, Listed, TypeOK
  <2>2. Tables'
    BY <1>4, <2>1, TypeParts DEF UntrackLink, Tables
  <2>3. Send(h, u, c, Request("remove", u, l)) /\ Fits("remove", l)
    BY <1>4 DEF UntrackLink, Fits
  <2>4. /\ hnd' \in [Handlers -> HandlerStates] /\ net' \in [Calls -> Requests \cup {None}]
        /\ Shape'
    BY <2>3, SendStep DEF Operations
  <2>. QED
    BY <2>2, <2>4, TypePartsNext
<1>. QED
  BY <1>1, <1>2, <1>3, <1>4 DEF Text

LEMMA CallTypes ==
  ASSUME TypeOK, Shape, NEW c \in Calls, Serve(c) \/ Refuse(c)
  PROVE  TypeOK' /\ Shape'
<1>. USE DEF memory, scrapper, ghosts
<1>1. \E ok \in BOOLEAN : Answered(c, ok)
  BY DEF Serve, Refuse
<1>2. /\ hnd' \in [Handlers -> HandlerStates] /\ net' \in [Calls -> Requests \cup {None}]
      /\ Shape'
  BY <1>1, AnsweredMoves, AnsweredShape
<1>3. registered' \subseteq Users /\ owner' \in [Links -> Users \cup {None}]
  <2>1. CASE Refuse(c)
    BY <2>1 DEF Refuse, TypeOK
  <2>2. CASE Serve(c)
    <3>1. net[c] \in Requests /\ Effect(net[c])
      BY <2>2 DEF Serve, TypeOK
    <3>. QED
      BY <3>1 DEF Effect, Scrapper!Register, Scrapper!Track, Scrapper!Untrack, TypeOK, Requests
  <2>. QED
    BY <2>1, <2>2
<1>4. UNCHANGED <<memory, cache, unpurged, resent>> /\ forgotten' \subseteq Users \X Links
  BY DEF Serve, Refuse, TypeOK
<1>5. Tables'
  BY <1>3, <1>4, TypeParts DEF Tables
<1>. QED
  BY <1>2, <1>5, TypePartsNext

LEMMA WaitTypes ==
  ASSUME TypeOK, Shape, NEW h \in Handlers, GiveUp(h) \/ \E c \in Calls : Resend(h, c)
  PROVE  TypeOK' /\ Shape'
<1>. USE DEF memory, scrapper, ghosts
<1>1. CASE GiveUp(h)
  <2>1. Tables' /\ UNCHANGED net
    BY <1>1, TypeParts DEF GiveUp, Tables
  <2>. QED
    BY <1>1, <2>1, EndStep, TypeParts, TypePartsNext DEF GiveUp
<1>2. ASSUME NEW c \in Calls, Resend(h, c) PROVE TypeOK' /\ Shape'
  <2>. DEFINE r == [hnd[h] EXCEPT !.call = c]
  <2>1. /\ hnd[h] \in HandlerStates /\ hnd[h].pc \in Operations
        /\ hnd[h].user \in Users /\ Fits(hnd[h].pc, hnd[h].url)
    BY <1>2, HandlerFields DEF Resend, Waits, Shape, Shaped, Operations
  <2>2. /\ r \in HandlerStates /\ r.call = c /\ r.user = hnd[h].user
        /\ r.pc = hnd[h].pc /\ r.url = hnd[h].url
    BY <2>1 DEF HandlerStates
  <2>3. hnd' = [hnd EXCEPT ![h] = r]
    BY <1>2 DEF Resend
  <2>. HIDE DEF r
  <2>4. Moves(h, r) /\ hnd' \in [Handlers -> HandlerStates]
    BY <2>2, <2>3, MovesTypes
  <2>5. net' \in [Calls -> Requests \cup {None}] /\ Shape'
    BY <1>2, <2>1, <2>2, <2>4, SendsShape DEF Resend
  <2>6. resent' \subseteq Users \X Links
    BY <1>2, <2>1 DEF Resend, TypeOK, Fits
  <2>7. Tables'
    BY <1>2, <2>6, TypeParts DEF Resend, Tables
  <2>. QED
    BY <2>4, <2>5, <2>7, TypePartsNext
<1>. QED
  BY <1>1, <1>2

LEMMA HandlerTypes ==
  ASSUME TypeOK, Shape, NEW h \in Handlers, HandlerStep(h)
  PROVE  TypeOK' /\ Shape'
<1>. USE DEF memory, scrapper, ghosts
<1>0. /\ hnd[h] \in HandlerStates /\ Shaped(hnd[h], net)
      /\ hnd[h].user \in Users \/ hnd[h].pc = "idle"
  BY HandlerFields DEF Shape, Shaped
<1>1. CASE Greet(h) \/ Registered(h) \/ Purge(h) \/ Removed(h) \/ NoSuchLink(h) \/ Show(h)
  <2>1. hnd[h].user \in Users /\ End(h) /\ UNCHANGED net
    BY <1>0, <1>1 DEF Greet, Registered, Purge, Removed, NoSuchLink, Show
  <2>2. Tables'
    BY <1>1, <2>1, TypeParts
       DEF Greet, Registered, Purge, Removed, NoSuchLink, Show, DeleteCached, Tables
  <2>. QED
    BY <2>1, <2>2, EndStep, TypeParts, TypePartsNext
<1>2. CASE Added(h)
  <2>. DEFINE r == [hnd[h] EXCEPT !.pc = "purge"]
  <2>1. hnd[h].user \in Users /\ Goto(h, "purge") /\ UNCHANGED net
    BY <1>0, <1>2 DEF Added
  <2>2. local' \in [Users -> [Links -> Nat]]
    BY <1>2, <2>1 DEF Added, TypeOK
  <2>3. Tables'
    BY <1>2, <2>2, TypeParts DEF Added, Tables
  <2>4. Moves(h, r) /\ hnd' \in [Handlers -> HandlerStates]
    BY <2>1, GotoMoves
  <2>5. Shaped(r, net)
    BY <1>0, <1>2, <2>1, NoneAssumption DEF Added, Shaped, HandlerStates, Operations, Fits
  <2>. HIDE DEF r
  <2>. QED
    BY <2>1, <2>3, <2>4, <2>5, MovesShape, TypeParts, TypePartsNext
<1>3. CASE Fetch(h)
  <2>1. Tables' /\ UNCHANGED net /\ hnd[h].user \in Users
    BY <1>0, <1>3, TypeParts DEF Fetch, Tables
  <2>2. CASE End(h)
    BY <2>1, <2>2, EndStep, TypeParts, TypePartsNext
  <2>3. CASE hnd' = [hnd EXCEPT ![h].pc = "store", ![h].links = Tracked(hnd[h].user)]
    <3>. DEFINE r == [hnd[h] EXCEPT !.pc = "store", !.links = Tracked(hnd[h].user)]
    <3>1. hnd' = [hnd EXCEPT ![h] = r]
      BY <2>3 DEF TypeOK
    <3>2. r \in HandlerStates /\ Shaped(r, net)
      BY <1>0, <1>3, <2>1, NoneAssumption
         DEF Fetch, Shaped, HandlerStates, Operations, Tracked
    <3>. HIDE DEF r
    <3>3. Moves(h, r) /\ hnd' \in [Handlers -> HandlerStates]
      BY <3>1, <3>2, MovesTypes
    <3>. QED
      BY <2>1, <3>2, <3>3, MovesShape, TypeParts, TypePartsNext
  <2>. QED
    BY <1>3, <2>2, <2>3 DEF Fetch
<1>4. CASE Store(h)
  <2>1. UNCHANGED net /\ hnd[h].user \in Users /\ hnd[h].links \subseteq Links
    BY <1>0, <1>4, HandlerFields DEF Store
  <2>2. Tables'
    BY <1>4, <2>1, TypeParts DEF Store, Tables
  <2>3. CASE End(h)
    BY <2>1, <2>2, <2>3, EndStep, TypeParts, TypePartsNext
  <2>4. CASE Goto(h, "show")
    <3>. DEFINE r == [hnd[h] EXCEPT !.pc = "show"]
    <3>1. Moves(h, r) /\ hnd' \in [Handlers -> HandlerStates]
      BY <2>4, GotoMoves
    <3>2. Shaped(r, net)
      BY <1>0, <1>4, <2>1, NoneAssumption DEF Store, Shaped, HandlerStates, Operations
    <3>. HIDE DEF r
    <3>. QED
      BY <2>1, <2>2, <3>1, <3>2, MovesShape, TypeParts, TypePartsNext
  <2>. QED
    BY <1>4, <2>3, <2>4 DEF Store
<1>. QED
  BY <1>1, <1>2, <1>3, <1>4 DEF HandlerStep

LEMMA TypeStep == TypeOK /\ Shape /\ [Next]_vars => TypeOK' /\ Shape'
<1>. SUFFICES ASSUME TypeOK, Shape, [Next]_vars PROVE TypeOK' /\ Shape'
  OBVIOUS
<1>1. CASE Restart
  <2>1. HandlerIdle \in HandlerStates /\ Shaped(HandlerIdle, net)
    BY DEF HandlerIdle, HandlerStates, Shaped, Operations
  <2>2. hnd' \in [Handlers -> HandlerStates] /\ UNCHANGED net
    BY <1>1, <2>1 DEF Restart
  <2>3. Tables'
    BY <1>1, TypeParts DEF Restart, Tables, NoLinks, scrapper, ghosts
  <2>4. Shape'
    BY <1>1, <2>1, <2>2 DEF Restart, Shape
  <2>. QED
    BY <2>2, <2>3, <2>4, TypeParts, TypePartsNext
<1>2. CASE UNCHANGED vars
  <2>1. UNCHANGED <<hnd, net>> /\ Tables'
    BY <1>2, TypeParts DEF vars, memory, scrapper, ghosts, Tables
  <2>2. Shape'
    BY <2>1 DEF Shape
  <2>. QED
    BY <2>1, <2>2, TypeParts, TypePartsNext
<1>. QED
  BY <1>1, <1>2, CommandTypes, TextTypes, CallTypes, WaitTypes, HandlerTypes DEF Next

LEMMA InitTypes == Init => TypeOK /\ Shape
<1>. SUFFICES ASSUME Init PROVE TypeOK /\ Shape
  OBVIOUS
<1>1. HandlerIdle \in HandlerStates /\ Shaped(HandlerIdle, net)
  BY DEF HandlerIdle, HandlerStates, Shaped, Operations
<1>2. TypeOK
  BY <1>1 DEF Init, TypeOK, NoLinks, Scrapper!Init
<1>. QED
  BY <1>1, <1>2 DEF Init, Shape

-----------------------------------------------------------------------------
(* Users who wait. *)

\* A user who waits has one message in work.
OneHandler == \A h, k \in Handlers : h # k => hnd[h].user = None \/ hnd[h].user # hnd[k].user

Missing(u, S) == \A l \in S : <<u, l>> \in resent

\* What a handler relies on while it serves its user.
Relies(r) ==
    /\ r.pc \in {"add", "added", "purge"} => trackData[r.user] = r.url
    /\ r.pc \in {"add", "added"} => local[r.user][r.url] = 0
    /\ r.pc = "added" => owner[r.url] = r.user \/ <<r.user, r.url>> \in resent
    /\ r.pc = "greet" => r.user \notin users
    /\ r.pc = "registered" => r.user \in registered
    /\ r.pc = "store" => Missing(r.user, Listed(r.user) \ r.links)

\* The properties, for one user.
Consistent(u) ==
    /\ u \in users => u \in registered /\ regData[u] = "none"
    /\ \A l \in Listed(u) : local[u][l] = 1 /\ (owner[l] = u \/ <<u, l>> \in resent)
    /\ \/ cache[u] = None
       \/ u \in unpurged
       \/ \E h \in Handlers : hnd[h].user = u /\ hnd[h].pc = "purge"
       \/ Missing(u, Listed(u) \ cache[u])

\* A RemoveLink under way, sent once, is the only one for a link that the scrapper
\* tracks and the bot does not list: it comes before any new AddLink can succeed.
Removes(c) ==
    LET u == net[c].user
        l == net[c].link
    IN  net[c] # None /\ net[c].op = "remove" /\ <<u, l>> \notin resent =>
          /\ owner[l] = u
          /\ local[u][l] = 0
          /\ \A d \in Calls : net[d] = net[c] => d = c
          /\ \A h \in Handlers : ~(hnd[h].pc = "added" /\ hnd[h].user = u /\ hnd[h].url = l)

Inv == /\ OneHandler
       /\ \A h \in Handlers : Relies(hnd[h])
       /\ \A u \in Users : Consistent(u)
       /\ \A c \in Calls : Removes(c)

\* A step of user u: what the bot keeps for the others stays.
Only(u) ==
    /\ \A v \in Users : v # u =>
         /\ v \in users' <=> v \in users
         /\ v \in unpurged' <=> v \in unpurged
         /\ regData'[v] = regData[v]
         /\ trackData'[v] = trackData[v]
         /\ local'[v] = local[v]
         /\ cache'[v] = cache[v]
    /\ UNCHANGED scrapper
    /\ resent \subseteq resent'

\* Handler h serves u, or u can write and h is free to serve it.
Serves(h, u) ==
    /\ hnd[h].user \in {u, None}
    /\ \A k \in Handlers : k # h => hnd[k].user # u

\* A step of u in its handler leaves what the other handlers and users rely on.
LEMMA OthersKeep ==
  ASSUME TypeOK, Shape, Inv, NEW u \in Users, Only(u), NEW h \in Handlers, Serves(h, u),
         NEW r, Moves(h, r), r.user \in {u, None}
  PROVE  /\ OneHandler'
         /\ \A k \in Handlers : k # h => Relies(hnd[k])'
         /\ \A v \in Users : v # u => Consistent(v)'
<1>1. OneHandler'
  BY DEF Inv, OneHandler, Moves, Serves
<1>2. ASSUME NEW k \in Handlers, k # h PROVE Relies(hnd[k])'
  <2>1. hnd'[k] = hnd[k] /\ hnd[k].user # u /\ Relies(hnd[k]) /\ Shaped(hnd[k], net)
    BY <1>2 DEF Moves, Serves, Inv, Shape
  <2>2. CASE hnd[k].user \notin Users
    <3>1. hnd[k].pc = "idle"
      BY <2>1, <2>2, HandlerFields DEF Shaped
    <3>. QED
      BY <2>1, <3>1 DEF Relies
  <2>3. CASE hnd[k].user \in Users
    BY <2>1, <2>3 DEF Relies, Only, Missing, Listed, scrapper
  <2>. QED
    BY <2>2, <2>3
<1>3. ASSUME NEW v \in Users, v # u PROVE Consistent(v)'
  <2>1. Consistent(v)
    BY DEF Inv
  <2>2. \A k \in Handlers : hnd[k].user = v /\ hnd[k].pc = "purge" =>
                            hnd'[k].user = v /\ hnd'[k].pc = "purge"
    BY <1>3, NoneAssumption DEF Moves, Serves
  <2>3. /\ v \in users' <=> v \in users
        /\ v \in unpurged' <=> v \in unpurged
        /\ regData'[v] = regData[v] /\ local'[v] = local[v] /\ cache'[v] = cache[v]
        /\ UNCHANGED <<registered, owner>> /\ resent \subseteq resent'
    BY <1>3 DEF Only, scrapper
  <2>. QED
    BY <2>1, <2>2, <2>3 DEF Consistent, Missing, Listed
<1>. QED
  BY <1>1, <1>2, <1>3

LEMMA WaitingUser ==
  ASSUME TypeOK, Shape, Inv, ~Overlap, NEW h \in Handlers, NEW u \in Users
  PROVE  /\ hnd[h].pc = "idle" /\ Writes(u) => Serves(h, u) /\ hnd[h].user = None
         /\ hnd[h].user = u => Serves(h, u)
<1>1. hnd[h].pc = "idle" <=> hnd[h].user = None
  BY DEF Shape, Shaped
<1>. QED
  BY <1>1, NoneAssumption DEF Writes, Serves, Inv, OneHandler

LEMMA RemovesKept ==
  ASSUME Inv, NEW h \in Handlers, NEW r, Moves(h, r), r.pc # "added",
         UNCHANGED <<net, scrapper, local>>, resent \subseteq resent'
  PROVE  \A c \in Calls : Removes(c)'
BY DEF Inv, Removes, Moves, scrapper

\* A step in which h sends no request, and changes at most what concerns its user.
LEMMA StepKeeps ==
  ASSUME TypeOK, Shape, Inv, NEW u \in Users, Only(u), NEW h \in Handlers, Serves(h, u),
         NEW r, Moves(h, r), r.user \in {u, None}, r.pc # "added",
         UNCHANGED <<net, local>>, Relies(hnd[h])', Consistent(u)'
  PROVE  Inv'
BY OthersKeep, RemovesKept DEF Inv, Only

LEMMA CommandInv ==
  ASSUME TypeOK, Shape, Inv, ~Overlap, NEW u \in Users, Command(u) \/ CacheExpires(u)
  PROVE  Inv'
<1>. USE DEF memory, scrapper, ghosts
<1>1. ASSUME Track(u) \/ Untrack(u) \/ Email(u) \/ CacheExpires(u) PROVE Inv'
  <2>1. /\ UNCHANGED <<users, trackData, local, hnd, net, registered, owner, resent>>
        /\ \A v \in Users : v \in users => regData'[v] = regData[v]
        /\ \A v \in Users : \/ cache'[v] = cache[v] /\ (v \in unpurged' <=> v \in unpurged)
                            \/ cache'[v] = None
    BY <1>1 DEF Track, Untrack, Email, CacheExpires, Inv, Consistent, TypeOK
  <2>2. OneHandler' /\ \A c \in Calls : Removes(c)'
    BY <2>1 DEF Inv, OneHandler, Removes
  <2>3. \A h \in Handlers : Relies(hnd[h])'
    BY <2>1 DEF Inv, Relies, Missing, Listed
  <2>4. \A v \in Users : Consistent(v)'
    BY <2>1 DEF Inv, Consistent, Missing, Listed
  <2>. QED
    BY <2>2, <2>3, <2>4 DEF Inv
<1>2. ASSUME NEW h \in Handlers, Start(h, u) PROVE Inv'
  <2>1. /\ Serves(h, u) /\ hnd[h].user = None /\ u \notin users
        /\ UNCHANGED <<memory, cache, net, scrapper, ghosts>>
    BY <1>2, WaitingUser DEF Start
  <2>. DEFINE r == Message(u, "greet", None, None)
  <2>2. Moves(h, r)
    BY <1>2, BeginMoves DEF Start
  <2>3. r.user = u /\ r.pc = "greet"
    BY DEF Message
  <2>. HIDE DEF r
  <2>4. Relies(hnd[h])'
    BY <2>1, <2>2, <2>3 DEF Relies, Moves
  <2>5. Consistent(u)'
    BY <2>1, <2>2, <2>3, NoneAssumption DEF Inv, Consistent, Missing, Listed, Moves
  <2>. QED
    BY <2>1, <2>2, <2>3, <2>4, <2>5, StepKeeps DEF Only
<1>3. ASSUME NEW h \in Handlers, List(h, u) PROVE Inv'
  <2>1. /\ Serves(h, u) /\ hnd[h].user = None
        /\ UNCHANGED <<memory, cache, net, scrapper, ghosts>>
    BY <1>3, WaitingUser DEF List
  <2>2. PICK r \in HandlerStates : Moves(h, r) /\ r.user = u /\ r.pc \in {"fetch", "show"}
    <3>1. CASE Begin(h, u, "fetch", None, None)
      <4>1. Moves(h, Message(u, "fetch", None, None))
        BY <3>1, BeginMoves
      <4>2. Message(u, "fetch", None, None) \in HandlerStates
        BY DEF Message, HandlerStates
      <4>. QED
        BY <4>1, <4>2 DEF Message
    <3>2. CASE /\ cache[u] # None
               /\ hnd' = [hnd EXCEPT ![h] = [HandlerIdle EXCEPT !.pc = "show", !.user = u,
                                                                 !.links = cache[u]]]
      <4>. DEFINE q == [HandlerIdle EXCEPT !.pc = "show", !.user = u, !.links = cache[u]]
      <4>1. q \in HandlerStates /\ q.user = u /\ q.pc = "show"
        BY <3>2 DEF TypeOK, HandlerStates, HandlerIdle
      <4>. HIDE DEF q
      <4>2. Moves(h, q)
        BY <3>2, <4>1, MovesTypes DEF q
      <4>. QED
        BY <4>1, <4>2
    <3>. QED
      BY <1>3, <3>1, <3>2 DEF List
  <2>3. Relies(hnd[h])'
    BY <2>2 DEF Relies, Moves
  <2>4. Consistent(u)'
    BY <2>1, <2>2, NoneAssumption DEF Inv, Consistent, Missing, Listed, Moves
  <2>. QED
    BY <2>1, <2>2, <2>3, <2>4, StepKeeps DEF Only
<1>. QED
  BY <1>1, <1>2, <1>3 DEF Command

\* Nothing is added to a list.
ListsNoMore == \A v \in Users : \A k \in Links : local[v][k] = 0 => local'[v][k] = 0

\* A request is sent in a handler that begins, or once more in one that waits; a
\* RemoveLink is new, or is no longer sent once only.
LEMMA SendRemoves ==
  ASSUME TypeOK, Shape, Inv, NEW h \in Handlers, NEW r, Moves(h, r),
         NEW u \in Users, NEW c \in Calls, net[c] = None, NEW op \in Operations,
         NEW l \in Links \cup {None}, net' = [net EXCEPT ![c] = Request(op, u, l)],
         r.pc = op, UNCHANGED scrapper, resent \subseteq resent',
         ListsNoMore,
         op = "remove" =>
            \/ <<u, l>> \in resent'
            \/ /\ l \in Listed(u) /\ local'[u][l] = 0
               /\ \A k \in Handlers : k # h => hnd[k].user # u
  PROVE  \A d \in Calls : Removes(d)'
<1>1. /\ net'[c].op = op /\ net'[c].user = u /\ net'[c].link = l
      /\ \A d \in Calls : d # c => net'[d] = net[d]
  BY DEF TypeOK, Request
<1>2. r.pc # "added"
  BY DEF Operations
<1>3. ASSUME NEW d \in Calls, d # c, net[d] # None, net[d].op = "remove"
      PROVE  net[d].user \in Users /\ net[d].link \in Links
  BY <1>3 DEF TypeOK, Requests, Shape, Fits
<1>4. ASSUME NEW d \in Calls, net'[d] # None, net'[d].op = "remove",
             <<net'[d].user, net'[d].link>> \notin resent'
      PROVE  /\ owner[net'[d].link] = net'[d].user
             /\ local'[net'[d].user][net'[d].link] = 0
             /\ \A e \in Calls : net'[e] = net'[d] => e = d
             /\ \A k \in Handlers : ~(/\ hnd'[k].pc = "added" /\ hnd'[k].user = net'[d].user
                                      /\ hnd'[k].url = net'[d].link)
  <2>1. CASE d = c
    <3>1. /\ op = "remove" /\ l \in Listed(u) /\ local'[u][l] = 0 /\ l \in Links
          /\ \A k \in Handlers : k # h => hnd[k].user # u
          /\ <<u, l>> \notin resent
      BY <1>1, <1>4, <2>1 DEF Listed
    <3>2. owner[l] = u /\ local[u][l] = 1
      BY <3>1 DEF Inv, Consistent
    <3>3. ASSUME NEW e \in Calls, e # c PROVE net'[e] # net'[c]
      <4>. SUFFICES ASSUME net'[e] = net'[c] PROVE FALSE
        OBVIOUS
      <4>1. net[e] = net'[c] /\ net[e].op = "remove" /\ net[e].user = u /\ net[e].link = l
        BY <1>1, <3>1, <3>3
      <4>2. net[e] # None
        BY <1>4, <2>1, <4>1
      <4>3. local[u][l] = 0
        BY <3>1, <4>1, <4>2 DEF Inv, Removes
      <4>. QED
        BY <3>2, <4>3
    <3>4. \A k \in Handlers : ~(hnd'[k].pc = "added" /\ hnd'[k].user = u)
      BY <1>2, <3>1 DEF Moves
    <3>. QED
      BY <1>1, <2>1, <3>1, <3>2, <3>3, <3>4
  <2>2. CASE d # c
    <3>1. /\ net'[d] = net[d] /\ net[d] # None /\ net[d].op = "remove"
          /\ <<net[d].user, net[d].link>> \notin resent
          /\ net[d].user \in Users /\ net[d].link \in Links
      BY <1>1, <1>3, <1>4, <2>2
    <3>2. /\ owner[net[d].link] = net[d].user
          /\ local[net[d].user][net[d].link] = 0
          /\ \A e \in Calls : net[e] = net[d] => e = d
          /\ \A k \in Handlers : ~(/\ hnd[k].pc = "added" /\ hnd[k].user = net[d].user
                                   /\ hnd[k].url = net[d].link)
      BY <3>1 DEF Inv, Removes
    <3>3. net'[c] # net'[d]
      <4>. SUFFICES ASSUME net'[c] = net'[d] PROVE FALSE
        OBVIOUS
      <4>1. op = "remove" /\ net[d].user = u /\ net[d].link = l
        BY <1>1, <3>1
      <4>2. l \in Listed(u)
        BY <1>1, <1>4, <3>1, <4>1
      <4>. QED
        BY <3>2, <4>1, <4>2 DEF Listed
    <3>4. \A e \in Calls : net'[e] = net'[d] => e = d
      BY <1>1, <2>2, <3>1, <3>2, <3>3
    <3>5. \A k \in Handlers : ~(/\ hnd'[k].pc = "added" /\ hnd'[k].user = net[d].user
                                /\ hnd'[k].url = net[d].link)
      BY <1>2, <3>2 DEF Moves
    <3>. QED
      BY <3>1, <3>2, <3>4, <3>5 DEF ListsNoMore
  <2>. QED
    BY <2>1, <2>2
<1>. QED
  BY <1>4 DEF Removes, scrapper

LEMMA TextInv ==
  ASSUME TypeOK, Shape, Inv, ~Overlap, NEW u \in Users, Text(u)
  PROVE  Inv'
<1>. USE DEF memory, scrapper, ghosts
<1>1. ASSUME NEW h \in Handlers, UntrackOther(h, u) PROVE Inv'
  <2>1. /\ Serves(h, u) /\ hnd[h].user = None
        /\ UNCHANGED <<memory, cache, net, scrapper, ghosts>>
    BY <1>1, WaitingUser DEF UntrackOther, Untracking
  <2>. DEFINE r == Message(u, "nolink", None, None)
  <2>2. Moves(h, r)
    BY <1>1, BeginMoves DEF UntrackOther
  <2>3. r.user = u /\ r.pc = "nolink"
    BY DEF Message
  <2>. HIDE DEF r
  <2>4. Relies(hnd[h])'
    BY <2>2, <2>3 DEF Relies, Moves
  <2>5. Consistent(u)'
    BY <2>1, <2>2, <2>3, NoneAssumption DEF Inv, Consistent, Missing, Listed, Moves
  <2>. QED
    BY <2>1, <2>2, <2>3, <2>4, <2>5, StepKeeps DEF Only
<1>2. ASSUME NEW h \in Handlers, NEW c \in Calls, NEW op \in Operations, NEW l \in Links \cup {None},
             Serves(h, u), hnd[h].user = None, Send(h, u, c, Request(op, u, l)),
             Only(u), UNCHANGED <<users, regData, cache, scrapper, ghosts>>,
             \A k \in Links : \/ local'[u][k] = local[u][k]
                              \/ k \in Listed(u) /\ local'[u][k] = 0,
             op = "add" => trackData'[u] = l /\ local'[u][l] = 0,
             op = "remove" => l \in Listed(u) /\ local'[u][l] = 0
      PROVE  Inv'
  <2>. DEFINE r == Message(u, op, l, c)
  <2>1. Begin(h, u, op, l, c) /\ net[c] = None /\ net' = [net EXCEPT ![c] = Request(op, u, l)]
    BY <1>2 DEF Send, Request
  <2>2. Moves(h, r)
    BY <2>1, BeginMoves
  <2>3. r.user = u /\ r.pc = op /\ r.url = l
    BY DEF Message
  <2>. HIDE DEF r
  <2>4. Relies(hnd[h])'
    BY <1>2, <2>2, <2>3 DEF Relies, Moves, Operations
  <2>5. Consistent(u)'
    <3>1. \A k \in Handlers : hnd[k].user # u
      BY <1>2, NoneAssumption DEF Serves
    <3>2. /\ Listed(u)' \subseteq Listed(u)
          /\ \A k \in Listed(u)' : local'[u][k] = local[u][k]
      BY <1>2 DEF Listed
    <3>3. \/ cache[u] = None
          \/ u \in unpurged
          \/ Missing(u, Listed(u) \ cache[u])
      BY <3>1 DEF Inv, Consistent
    <3>4. \/ cache'[u] = None
          \/ u \in unpurged'
          \/ Missing(u, Listed(u) \ cache[u])'
      BY <1>2, <3>2, <3>3 DEF Missing
    <3>5. u \in users => u \in registered /\ regData[u] = "none"
      BY DEF Inv, Consistent
    <3>6. \A k \in Listed(u) : local[u][k] = 1 /\ (owner[k] = u \/ <<u, k>> \in resent)
      BY DEF Inv, Consistent
    <3>. QED
      BY <1>2, <3>2, <3>4, <3>5, <3>6 DEF Consistent
  <2>6. ListsNoMore
    BY <1>2 DEF Only, Listed, ListsNoMore
  <2>7. \A d \in Calls : Removes(d)'
    <3>1. UNCHANGED scrapper /\ resent \subseteq resent'
      BY <1>2
    <3>2. op = "remove" =>
            \/ <<u, l>> \in resent'
            \/ /\ l \in Listed(u) /\ local'[u][l] = 0
               /\ \A k \in Handlers : k # h => hnd[k].user # u
      BY <1>2 DEF Serves
    <3>3. Moves(h, r) /\ r.pc = op /\ net[c] = None /\ net' = [net EXCEPT ![c] = Request(op, u, l)]
      BY <2>1, <2>2, <2>3
    <3>. HIDE DEF scrapper
    <3>. QED
      BY <2>6, <3>1, <3>2, <3>3, SendRemoves
  <2>. QED
    BY <1>2, <2>2, <2>3, <2>4, <2>5, <2>7, OthersKeep DEF Inv
<1>3. ASSUME NEW h \in Handlers, NEW c \in Calls, Password(h, u, c) PROVE Inv'
  <2>1. Serves(h, u) /\ hnd[h].user = None
    BY <1>3, WaitingUser DEF Password
  <2>. QED
    BY <1>2, <1>3, <2>1 DEF Password, Only, Operations
<1>4. ASSUME NEW h \in Handlers, NEW c \in Calls, NEW l \in Links, TrackLink(h, u, l, c)
      PROVE  Inv'
  <2>1. Serves(h, u) /\ hnd[h].user = None
    BY <1>4, WaitingUser DEF TrackLink
  <2>2. Only(u) /\ trackData'[u] = l /\ local'[u][l] = 0 /\ UNCHANGED local
    BY <1>4 DEF TrackLink, Only, TypeOK, Listed
  <2>. QED
    BY <1>2, <1>4, <2>1, <2>2 DEF TrackLink, Operations
<1>5. ASSUME NEW h \in Handlers, NEW c \in Calls, NEW l \in Links, UntrackLink(h, u, l, c)
      PROVE  Inv'
  <2>1. Serves(h, u) /\ hnd[h].user = None
    BY <1>5, WaitingUser DEF UntrackLink, Untracking
  <2>2. l \in Listed(u) /\ local[u][l] = 1
    BY <1>5 DEF UntrackLink, Inv, Consistent
  <2>3. /\ Only(u) /\ local'[u][l] = 0
        /\ \A k \in Links : k # l => local'[u][k] = local[u][k]
    BY <1>5, <2>2 DEF UntrackLink, Only, TypeOK
  <2>. QED
    BY <1>2, <1>5, <2>1, <2>2, <2>3 DEF UntrackLink, Operations
<1>. QED
  BY <1>1, <1>3, <1>4, <1>5 DEF Text

\* A step of u that leaves the lists of the bot and of the scrapper alone, and what
\* it must show of users and the cache.
LEMMA ConsistentKept ==
  ASSUME Inv, NEW u \in Users, NEW h \in Handlers, NEW r, Moves(h, r),
         UNCHANGED <<local, scrapper>>, resent \subseteq resent',
         UNCHANGED <<users, regData>>
           \/ (u \in users' => u \in registered /\ regData'[u] = "none"),
         \/ UNCHANGED <<cache, unpurged>> /\ hnd[h].pc # "purge"
         \/ cache'[u] = None
         \/ u \in unpurged'
         \/ Missing(u, Listed(u) \ cache'[u])
  PROVE  Consistent(u)'
<1>1. UNCHANGED <<registered, owner>> /\ Consistent(u)
  BY DEF scrapper, Inv
<1>2. u \in users' => u \in registered' /\ regData'[u] = "none"
  BY <1>1 DEF Consistent
<1>3. \A l \in Listed(u)' : local'[u][l] = 1 /\ (owner'[l] = u \/ <<u, l>> \in resent')
  BY <1>1 DEF Consistent, Listed
<1>4. \/ cache'[u] = None
      \/ u \in unpurged'
      \/ \E k \in Handlers : hnd'[k].user = u /\ hnd'[k].pc = "purge"
      \/ Missing(u, Listed(u) \ cache[u])' 
  <2>1. Listed(u)' = Listed(u) /\ \A S : Missing(u, S) => Missing(u, S)'
    BY DEF Listed, Missing
  <2>2. CASE UNCHANGED <<cache, unpurged>> /\ hnd[h].pc # "purge"
    <3>1. \A k \in Handlers : hnd[k].user = u /\ hnd[k].pc = "purge" =>
                              hnd'[k].user = u /\ hnd'[k].pc = "purge"
      BY <2>2 DEF Moves
    <3>. QED
      BY <1>1, <2>1, <2>2, <3>1 DEF Consistent, Missing
  <2>. QED
    BY <2>1, <2>2 DEF Missing
<1>. QED
  BY <1>2, <1>3, <1>4 DEF Consistent

LEMMA WaitInv ==
  ASSUME TypeOK, Shape, Inv, ~Overlap, NEW h \in Handlers, GiveUp(h) \/ \E c \in Calls : Resend(h, c)
  PROVE  Inv'
<1>. USE DEF memory, scrapper, ghosts
<1>1. PICK u \in Users : /\ u = hnd[h].user /\ Serves(h, u)
                        /\ hnd[h].pc \in Operations /\ Relies(hnd[h])
  <2>1. hnd[h].user \in Users /\ hnd[h].pc \in Operations
    BY HandlerFields DEF GiveUp, Resend, Waits, Shape, Shaped, Operations
  <2>. QED
    BY <2>1, WaitingUser DEF Inv
<1>2. \A k \in Handlers : k # h => hnd[k].user # u
  BY <1>1 DEF Serves
<1>3. CASE GiveUp(h)
  <2>1. Moves(h, HandlerIdle) /\ HandlerIdle.user = None /\ HandlerIdle.pc = "idle"
    BY <1>3, EndMoves DEF GiveUp, HandlerIdle
  <2>2. Relies(hnd[h])'
    BY <2>1 DEF Relies, Moves
  <2>3. UNCHANGED <<memory, cache, net, scrapper, unpurged, resent>>
    BY <1>3 DEF GiveUp
  <2>4. hnd[h].pc # "purge"
    BY <1>1 DEF Operations
  <2>5. Consistent(u)'
    BY <1>1, <2>1, <2>3, <2>4, ConsistentKept
  <2>6. Only(u)
    BY <2>3 DEF Only
  <2>. QED
    BY <1>1, <2>1, <2>2, <2>3, <2>5, <2>6, StepKeeps
<1>4. ASSUME NEW c \in Calls, Resend(h, c) PROVE Inv'
  <2>. DEFINE r == [hnd[h] EXCEPT !.call = c]
              op == hnd[h].pc
              l == hnd[h].url
  <2>1. /\ r \in HandlerStates /\ r.user = u /\ r.pc = op /\ r.url = l
        /\ op \in Operations /\ l \in Links \cup {None}
    BY <1>1, HandlerFields DEF HandlerStates
  <2>2. /\ hnd' = [hnd EXCEPT ![h] = r] /\ net[c] = None
        /\ net' = [net EXCEPT ![c] = Request(op, u, l)]
        /\ resent \subseteq resent' /\ (op = "remove" => <<u, l>> \in resent')
        /\ UNCHANGED <<memory, cache, scrapper, unpurged>>
    BY <1>1, <1>4 DEF Resend
  <2>. HIDE DEF r, op, l
  <2>3. Moves(h, r)
    BY <2>1, <2>2, MovesTypes
  <2>4. Relies(hnd[h])'
    BY <1>1, <2>1, <2>2, <2>3 DEF Relies, Moves, Operations, op, l
  <2>5. hnd[h].pc # "purge"
    BY <1>1 DEF Operations
  <2>6. Consistent(u)'
    BY <1>1, <2>2, <2>3, <2>5, ConsistentKept
  <2>7. \A d \in Calls : Removes(d)'
    <3>1. ListsNoMore
      BY <2>2 DEF ListsNoMore
    <3>. QED
      BY <1>1, <2>1, <2>2, <2>3, <3>1, SendRemoves
  <2>8. Only(u)
    BY <2>2 DEF Only
  <2>9. /\ OneHandler'
        /\ \A k \in Handlers : k # h => Relies(hnd[k])'
        /\ \A v \in Users : v # u => Consistent(v)'
    BY <1>1, <2>1, <2>3, <2>8, OthersKeep
  <2>. QED
    BY <2>4, <2>6, <2>7, <2>9 DEF Inv
<1>. QED
  BY <1>3, <1>4

LEMMA HandlerInv ==
  ASSUME TypeOK, Shape, Inv, ~Overlap, NEW h \in Handlers, HandlerStep(h)
  PROVE  Inv'
<1>. USE DEF memory, scrapper, ghosts
<1>1. PICK u \in Users : /\ u = hnd[h].user /\ Serves(h, u)
                        /\ Relies(hnd[h]) /\ Shaped(hnd[h], net)
  <2>1. hnd[h].user \in Users /\ Shaped(hnd[h], net)
    BY HandlerFields
       DEF HandlerStep, Greet, Registered, Added, Purge, Removed, NoSuchLink, Fetch, Store,
           Show, Shape, Shaped
  <2>. QED
    BY <2>1, WaitingUser DEF Inv
<1>. DEFINE EndKeeps == End(h) /\ UNCHANGED <<net, local>> /\ Only(u) /\ Consistent(u)' => Inv'
<1>2. EndKeeps
  <2>. SUFFICES ASSUME End(h), UNCHANGED <<net, local>>, Only(u), Consistent(u)' PROVE Inv'
    OBVIOUS
  <2>1. Moves(h, HandlerIdle) /\ HandlerIdle.user = None /\ HandlerIdle.pc = "idle"
    BY EndMoves DEF HandlerIdle
  <2>2. Relies(hnd[h])'
    BY <2>1 DEF Relies, Moves
  <2>. QED
    BY <1>1, <2>1, <2>2, StepKeeps
<1>. HIDE DEF EndKeeps
<1>3. CASE Greet(h) \/ Registered(h)
  <2>1. /\ End(h) /\ UNCHANGED <<net, local, scrapper, resent, cache, unpurged>>
        /\ hnd[h].pc # "purge"
    BY <1>3 DEF Greet, Registered
  <2>2. Only(u)
    BY <1>1, <1>3 DEF Greet, Registered, Only, TypeOK
  <2>3. u \in users' => u \in registered /\ regData'[u] = "none"
    BY <1>1, <1>3 DEF Greet, Registered, Relies, TypeOK
  <2>4. Moves(h, HandlerIdle)
    BY <2>1, EndMoves
  <2>5. Consistent(u)'
    BY <1>1, <2>1, <2>3, <2>4, ConsistentKept
  <2>. QED
    BY <1>2, <2>1, <2>2, <2>5 DEF EndKeeps
<1>4. CASE Purge(h) \/ NoSuchLink(h)
  <2>1. End(h) /\ UNCHANGED <<net, local, scrapper, resent, users, regData>>
    BY <1>1, <1>4 DEF Purge, NoSuchLink
  <2>2. DeleteCached(u) /\ \A v \in Users : v # u => trackData'[v] = trackData[v]
    BY <1>1, <1>4 DEF Purge, NoSuchLink, TypeOK
  <2>3. Only(u) /\ (cache'[u] = None \/ u \in unpurged')
    BY <1>1, <2>1, <2>2 DEF DeleteCached, Only, TypeOK
  <2>4. Moves(h, HandlerIdle)
    BY <2>1, EndMoves
  <2>5. Consistent(u)'
    BY <1>1, <2>1, <2>3, <2>4, ConsistentKept
  <2>. QED
    BY <1>2, <2>1, <2>3, <2>5 DEF EndKeeps
<1>5. CASE Removed(h) \/ Show(h) \/ (Fetch(h) /\ End(h)) \/ (Store(h) /\ End(h) /\ UNCHANGED <<cache, unpurged>>)
  <2>1. /\ End(h) /\ UNCHANGED <<net, local, scrapper, resent, users, regData, cache, unpurged>>
        /\ UNCHANGED trackData /\ hnd[h].pc # "purge"
    BY <1>5 DEF Removed, Show, Fetch, Store
  <2>2. Only(u)
    BY <2>1 DEF Only
  <2>3. Moves(h, HandlerIdle)
    BY <2>1, EndMoves
  <2>4. Consistent(u)'
    BY <1>1, <2>1, <2>3, ConsistentKept
  <2>. QED
    BY <1>2, <2>1, <2>2, <2>4 DEF EndKeeps
<1>6. CASE Fetch(h) /\ hnd' = [hnd EXCEPT ![h].pc = "store", ![h].links = Tracked(hnd[h].user)]
  <2>. DEFINE r == [hnd[h] EXCEPT !.pc = "store", !.links = Tracked(u)]
  <2>1. hnd' = [hnd EXCEPT ![h] = r]
    BY <1>1, <1>6 DEF TypeOK
  <2>2. r \in HandlerStates /\ r.user = u /\ r.pc = "store" /\ r.links = Tracked(u)
    BY <1>1, HandlerFields DEF HandlerStates, Tracked
  <2>. HIDE DEF r
  <2>3. Moves(h, r)
    BY <2>1, <2>2, MovesTypes
  <2>4. UNCHANGED <<memory, cache, net, scrapper, ghosts>> /\ hnd[h].pc # "purge"
    BY <1>6 DEF Fetch
  <2>5. Missing(u, Listed(u) \ Tracked(u))
    BY <1>1 DEF Inv, Consistent, Missing, Tracked, Listed
  <2>6. Relies(hnd[h])'
    BY <2>2, <2>3, <2>4, <2>5 DEF Relies, Moves, Missing, Listed
  <2>7. Consistent(u)'
    BY <1>1, <2>3, <2>4, ConsistentKept
  <2>8. Only(u)
    BY <2>4 DEF Only
  <2>. QED
    BY <1>1, <2>2, <2>3, <2>4, <2>6, <2>7, <2>8, StepKeeps
<1>7. CASE /\ Store(h) /\ Goto(h, "show")
           /\ cache' = [cache EXCEPT ![u] = hnd[h].links] /\ unpurged' = unpurged \ {u}
  <2>. DEFINE r == [hnd[h] EXCEPT !.pc = "show"]
  <2>1. r.user = u /\ r.pc = "show"
    BY <1>1, HandlerFields DEF HandlerStates
  <2>2. Moves(h, r)
    BY <1>7, GotoMoves
  <2>. HIDE DEF r
  <2>3. UNCHANGED <<memory, net, scrapper, resent>> /\ hnd[h].pc = "store"
    BY <1>7 DEF Store
  <2>4. Missing(u, Listed(u) \ cache'[u])
    BY <1>1, <1>7, <2>3 DEF Relies, TypeOK
  <2>5. Relies(hnd[h])'
    BY <2>1, <2>2 DEF Relies, Moves
  <2>6. Consistent(u)'
    BY <1>1, <2>2, <2>3, <2>4, ConsistentKept
  <2>7. Only(u)
    BY <1>7, <2>3 DEF Only, TypeOK
  <2>. QED
    BY <1>1, <2>1, <2>2, <2>3, <2>5, <2>6, <2>7, StepKeeps
<1>8. CASE Added(h)
  <2>. DEFINE r == [hnd[h] EXCEPT !.pc = "purge"]
              l == hnd[h].url
  <2>1. r.user = u /\ r.pc = "purge" /\ r.url = l
    BY <1>1, HandlerFields DEF HandlerStates
  <2>2. Moves(h, r)
    BY <1>8, GotoMoves DEF Added
  <2>3. /\ l \in Links /\ trackData[u] = l /\ local[u][l] = 0
        /\ owner[l] = u \/ <<u, l>> \in resent
    BY <1>1, <1>8 DEF Added, Relies, Shaped, Fits
  <2>4. hnd[h].pc = "added" /\ hnd[h].url = l
    BY <1>8 DEF Added
  <2>. HIDE DEF r, l
  <2>5. UNCHANGED <<users, regData, trackData, cache, net, scrapper, ghosts>>
    BY <1>8 DEF Added
  <2>6. local' = [local EXCEPT ![u][l] = @ + 1]
    BY <1>1, <1>8, <2>3, NoneAssumption DEF Added
  <2>7. /\ local'[u][l] = 1
        /\ \A v \in Users : \A k \in Links : v # u \/ k # l => local'[v][k] = local[v][k]
        /\ \A v \in Users : v # u => local'[v] = local[v]
    BY <1>1, <2>3, <2>6 DEF TypeOK
  <2>8. Relies(hnd[h])'
    BY <2>1, <2>2, <2>3, <2>5 DEF Relies, Moves
  <2>9. Consistent(u)'
    <3>1. \A k \in Listed(u)' : local'[u][k] = 1 /\ (owner'[k] = u \/ <<u, k>> \in resent')
      <4>1. ASSUME NEW k \in Links, local'[u][k] > 0, k # l
            PROVE  local'[u][k] = 1 /\ (owner'[k] = u \/ <<u, k>> \in resent')
        <5>1. Consistent(u) /\ local'[u][k] = local[u][k]
          BY <2>7, <4>1 DEF Inv
        <5>. QED
          BY <2>5, <4>1, <5>1 DEF Consistent, Listed
      <4>2. owner'[l] = u \/ <<u, l>> \in resent'
        BY <2>3, <2>5
      <4>. QED
        BY <2>7, <4>1, <4>2 DEF Listed
    <3>2. u \in users' => u \in registered' /\ regData'[u] = "none"
      BY <1>1, <2>5 DEF Inv, Consistent
    <3>3. hnd'[h].user = u /\ hnd'[h].pc = "purge"
      BY <2>1, <2>2 DEF Moves
    <3>. QED
      BY <3>1, <3>2, <3>3 DEF Consistent
  <2>10. Only(u)
    BY <2>5, <2>7 DEF Only
  <2>11. ASSUME NEW c \in Calls PROVE Removes(c)'
    <3>1. /\ Removes(c)
          /\ net[c] # None => net[c].user \in Users /\ (net[c].op = "remove" => net[c].link \in Links)
      BY DEF Inv, TypeOK, Requests, Shape, Fits
    <3>2. net[c] # None /\ net[c].op = "remove" /\ <<net[c].user, net[c].link>> \notin resent =>
            net[c].user # u \/ net[c].link # l
      BY <1>1, <2>4, <3>1 DEF Removes
    <3>3. \A k \in Handlers : hnd'[k].pc = "added" => hnd'[k] = hnd[k]
      BY <2>1, <2>2 DEF Moves
    <3>. QED
      BY <2>5, <2>7, <3>1, <3>2, <3>3 DEF Removes
  <2>12. /\ OneHandler'
         /\ \A k \in Handlers : k # h => Relies(hnd[k])'
         /\ \A v \in Users : v # u => Consistent(v)'
    BY <1>1, <2>1, <2>2, <2>10, OthersKeep
  <2>. QED
    BY <2>8, <2>9, <2>11, <2>12 DEF Inv
<1>. QED
  BY <1>1, <1>3, <1>4, <1>5, <1>6, <1>7, <1>8 DEF HandlerStep, Fetch, Store

\* What serving a request does to the scrapper's tables: nothing that the bot
\* relies on goes, but by the one RemoveLink that is under way for it.
LEMMA AnswerInv ==
  ASSUME TypeOK, Shape, Inv, NEW c \in Calls, NEW ok \in BOOLEAN, Answered(c, ok),
         net[c] # None, ok => Effect(net[c]), Effect(net[c]) \/ UNCHANGED scrapper,
         UNCHANGED <<memory, cache, unpurged, resent>>
  PROVE  Inv'
<1>. DEFINE m == net[c]
<1>1. m \in Requests /\ Fits(m.op, m.link) /\ c # None /\ m # None
  BY NoneAssumption DEF TypeOK, Shape
<1>2. UNCHANGED <<users, regData, trackData, local, cache, unpurged, resent>>
  BY DEF memory
<1>4. /\ registered \subseteq registered'
      /\ ok /\ m.op = "register" => m.user \in registered'
      /\ ok /\ m.op = "add" => owner[m.link] = None /\ owner'[m.link] = m.user
      /\ \A v \in Users : \A l \in Links :
           owner[l] = v => owner'[l] = v \/ m = Request("remove", v, l)
  <2>1. CASE UNCHANGED scrapper /\ ~Effect(m)
    BY <2>1 DEF scrapper
  <2>2. CASE m.op = "register" /\ Scrapper!Register(m.user)
    BY <2>2 DEF Scrapper!Register
  <2>3. CASE m.op = "add" /\ Scrapper!Track(m.user, m.link)
    <3>1. m.link \in Links
      BY <1>1, <2>3 DEF Fits
    <3>2. owner'[m.link] = m.user /\ \A l \in Links : l # m.link => owner'[l] = owner[l]
      BY <2>3, <3>1 DEF Scrapper!Track, TypeOK
    <3>3. registered' = registered /\ owner[m.link] = None
      BY <2>3 DEF Scrapper!Track
    <3>. QED
      BY <2>3, <3>1, <3>2, <3>3, NoneAssumption
  <2>4. CASE m.op = "remove" /\ Scrapper!Untrack(m.user, {m.link})
    <3>1. /\ registered' = registered /\ owner[m.link] = m.user
          /\ \A l \in Links : l # m.link => owner'[l] = owner[l]
      BY <2>4 DEF Scrapper!Untrack
    <3>2. m = Request("remove", m.user, m.link)
      BY <1>1, <2>4 DEF Requests, Request
    <3>. QED
      BY <2>4, <3>1, <3>2
  <2>. QED
    BY <2>1, <2>2, <2>3, <2>4 DEF Effect
<1>. HIDE DEF m
<1>5. /\ net'[c] = None
      /\ \A d \in Calls : d # c => net'[d] = net[d]
  BY DEF Answered, TypeOK
<1>6. ASSUME NEW k \in Handlers
      PROVE  /\ hnd'[k].user = hnd[k].user /\ hnd'[k].url = hnd[k].url
             /\ hnd'[k].links = hnd[k].links
             /\ \/ hnd'[k].pc = hnd[k].pc
                \/ /\ ok /\ m = Request(hnd[k].pc, hnd[k].user, hnd[k].url)
                   /\ hnd[k].pc \in Operations /\ hnd'[k].pc = Success[hnd[k].pc]
             /\ hnd[k].user \in Users \/ hnd[k].pc = "idle"
             /\ hnd[k].pc \in {"add", "added"} => hnd[k].url \in Links
  <2>1. hnd[k] \in HandlerStates /\ Shaped(hnd[k], net)
    BY HandlerFields DEF Shape
  <2>2. /\ hnd[k].call # c => hnd'[k] = hnd[k]
        /\ hnd[k].call = c => hnd'[k] = Asked(hnd[k], ok)
        /\ hnd'[k].user = hnd[k].user /\ hnd'[k].url = hnd[k].url
        /\ hnd'[k].links = hnd[k].links
    BY AnsweredMoves
  <2>3. hnd[k].call = c => m = Request(hnd[k].pc, hnd[k].user, hnd[k].url) /\ hnd[k].pc \in Operations
    BY <1>1, <2>1 DEF Shaped, m
  <2>4. Asked(hnd[k], ok).pc = IF ok THEN Success[hnd[k].pc] ELSE hnd[k].pc
    BY <2>1 DEF Asked, HandlerStates
  <2>. QED
    BY <2>1, <2>2, <2>3, <2>4 DEF Shaped, Fits, HandlerStates, Operations
<1>7. \A v \in Users : \A l \in Links :
        m = Request("remove", v, l) /\ <<v, l>> \notin resent =>
          /\ local[v][l] = 0
          /\ \A d \in Calls : net[d] = m => d = c
          /\ \A k \in Handlers : ~(hnd[k].pc = "added" /\ hnd[k].user = v /\ hnd[k].url = l)
  BY <1>1 DEF Inv, Removes, Request, m
<1>8. \A v \in Users : \A l \in Links :
        owner[l] = v /\ m # Request("remove", v, l) => owner'[l] = v
  BY <1>4
<1>9. OneHandler'
  BY <1>6 DEF Inv, OneHandler
<1>10. ASSUME NEW k \in Handlers PROVE Relies(hnd[k])'
  <2>1. Relies(hnd[k])
    BY DEF Inv
  <2>2. CASE hnd'[k].pc = hnd[k].pc
    <3>1. hnd[k].pc = "added" => owner'[hnd[k].url] = hnd[k].user
                                 \/ <<hnd[k].user, hnd[k].url>> \in resent
      BY <1>6, <1>7, <1>8, <2>1 DEF Relies
    <3>2. hnd[k].pc = "store" => Missing(hnd[k].user, Listed(hnd[k].user) \ hnd[k].links)'
      BY <1>2, <1>6, <2>1 DEF Relies, Missing, Listed
    <3>. QED
      BY <1>2, <1>4, <1>6, <2>1, <2>2, <3>1, <3>2 DEF Relies
  <2>3. CASE /\ ok /\ m = Request(hnd[k].pc, hnd[k].user, hnd[k].url)
             /\ hnd[k].pc \in Operations /\ hnd'[k].pc = Success[hnd[k].pc]
    <3>1. m.op = hnd[k].pc /\ m.user = hnd[k].user /\ m.link = hnd[k].url
      BY <2>3 DEF Request
    <3>2. \/ hnd[k].pc = "register" /\ hnd'[k].pc = "registered"
          \/ hnd[k].pc = "add" /\ hnd'[k].pc = "added"
          \/ hnd[k].pc = "remove" /\ hnd'[k].pc = "removed"
      BY <2>3 DEF Operations, Success
    <3>. QED
      BY <1>2, <1>4, <1>6, <2>1, <2>3, <3>1, <3>2 DEF Relies
  <2>. QED
    BY <1>6, <2>2, <2>3
<1>11. ASSUME NEW v \in Users PROVE Consistent(v)'
  <2>1. Consistent(v)
    BY DEF Inv
  <2>2. \A l \in Listed(v) : local[v][l] = 1 /\ (owner'[l] = v \/ <<v, l>> \in resent)
    BY <1>7, <1>8, <2>1 DEF Consistent, Listed
  <2>3. \A k \in Handlers : hnd[k].user = v /\ hnd[k].pc = "purge" =>
                            hnd'[k].user = v /\ hnd'[k].pc = "purge"
    BY <1>6 DEF Operations
  <2>. QED
    BY <1>2, <1>4, <2>1, <2>2, <2>3 DEF Consistent, Missing, Listed
<1>12. ASSUME NEW d \in Calls PROVE Removes(d)'
  <2>. DEFINE v == net[d].user
              l == net[d].link
  <2>. SUFFICES ASSUME net'[d] # None, net'[d].op = "remove",
                       <<net'[d].user, net'[d].link>> \notin resent'
                PROVE  /\ owner'[net'[d].link] = net'[d].user
                       /\ local'[net'[d].user][net'[d].link] = 0
                       /\ \A e \in Calls : net'[e] = net'[d] => e = d
                       /\ \A k \in Handlers :
                            ~(/\ hnd'[k].pc = "added" /\ hnd'[k].user = net'[d].user
                              /\ hnd'[k].url = net'[d].link)
    BY DEF Removes
  <2>1. d # c /\ net'[d] = net[d]
    BY <1>5
  <2>2. /\ net[d] \in Requests /\ v \in Users /\ l \in Links /\ net[d] = Request("remove", v, l)
        /\ <<v, l>> \notin resent
    BY <1>2, <2>1 DEF TypeOK, Requests, Request, Shape, Fits
  <2>3. /\ owner[l] = v /\ local[v][l] = 0
        /\ \A e \in Calls : net[e] = net[d] => e = d
        /\ \A k \in Handlers : ~(hnd[k].pc = "added" /\ hnd[k].user = v /\ hnd[k].url = l)
    BY <2>1, <2>2 DEF Inv, Removes
  <2>. HIDE DEF v, l
  <2>4. m # Request("remove", v, l)
    BY <2>1, <2>2, <2>3 DEF m
  <2>5. owner'[l] = v
    BY <1>8, <2>2, <2>3, <2>4
  <2>6. \A e \in Calls : net'[e] = net[d] => e = d
    BY <1>5, <2>1, <2>3
  <2>7. ASSUME NEW k \in Handlers PROVE ~(hnd'[k].pc = "added" /\ hnd'[k].user = v /\ hnd'[k].url = l)
    <3>. SUFFICES ASSUME hnd'[k].pc = "added", hnd'[k].user = v, hnd'[k].url = l PROVE FALSE
      OBVIOUS
    <3>1. /\ ok /\ m = Request(hnd[k].pc, v, l) /\ hnd[k].pc \in Operations
          /\ Success[hnd[k].pc] = "added"
      BY <1>6, <2>3
    <3>2. hnd[k].pc = "add"
      BY <3>1 DEF Operations, Success
    <3>3. owner[l] = None
      BY <1>4, <3>1, <3>2 DEF Request
    <3>. QED
      BY <2>2, <2>3, <3>3, NoneAssumption
  <2>. QED
    BY <1>2, <2>1, <2>3, <2>5, <2>6, <2>7 DEF v, l
<1>. QED
  BY <1>9, <1>10, <1>11, <1>12 DEF Inv

LEMMA CallInv ==
  ASSUME TypeOK, Shape, Inv, NEW c \in Calls, Serve(c) \/ Refuse(c)
  PROVE  Inv'
<1>1. CASE Serve(c)
  BY <1>1, AnswerInv DEF Serve
<1>2. CASE Refuse(c)
  BY <1>2, AnswerInv DEF Refuse, ghosts
<1>. QED
  BY <1>1, <1>2

LEMMA InvStep == TypeOK /\ Shape /\ Inv /\ ~Overlap /\ [Next]_vars => Inv'
<1>. SUFFICES ASSUME TypeOK, Shape, Inv, ~Overlap, [Next]_vars PROVE Inv'
  OBVIOUS
<1>1. CASE Restart
  <2>1. /\ \A h \in Handlers : hnd'[h] = HandlerIdle
        /\ users' = {} /\ UNCHANGED <<net, owner, resent>>
        /\ \A u \in Users : \A l \in Links : local'[u][l] = 0
    BY <1>1 DEF Restart, NoLinks, scrapper, ghosts
  <2>2. HandlerIdle.pc = "idle" /\ HandlerIdle.user = None
    BY DEF HandlerIdle
  <2>3. OneHandler' /\ \A h \in Handlers : Relies(hnd[h])'
    BY <2>1, <2>2 DEF OneHandler, Relies
  <2>4. \A u \in Users : Consistent(u)'
    BY <2>1 DEF Consistent, Missing, Listed
  <2>5. \A c \in Calls : net[c] # None /\ net[c].op = "remove" =>
                         net[c].user \in Users /\ net[c].link \in Links
    BY DEF TypeOK, Requests, Shape, Fits
  <2>6. \A c \in Calls : Removes(c)'
    BY <2>1, <2>2, <2>5 DEF Inv, Removes
  <2>. QED
    BY <2>3, <2>4, <2>6 DEF Inv
<1>2. CASE UNCHANGED vars
  <2>1. /\ UNCHANGED <<users, regData, trackData, local, cache, hnd, net>>
        /\ UNCHANGED <<registered, owner, unpurged, resent>>
    BY <1>2 DEF vars, memory, scrapper, ghosts
  <2>2. OneHandler' /\ \A h \in Handlers : Relies(hnd[h])'
    BY <2>1 DEF Inv, OneHandler, Relies, Missing, Listed
  <2>3. \A u \in Users : Consistent(u)'
    BY <2>1 DEF Inv, Consistent, Missing, Listed
  <2>4. \A c \in Calls : Removes(c)'
    BY <2>1 DEF Inv, Removes
  <2>. QED
    BY <2>2, <2>3, <2>4 DEF Inv
<1>. QED
  BY <1>1, <1>2, CommandInv, TextInv, CallInv, WaitInv, HandlerInv DEF Next

LEMMA InitInv == Init => Inv
<1>. SUFFICES ASSUME Init PROVE Inv
  OBVIOUS
<1>1. OneHandler /\ \A h \in Handlers : Relies(hnd[h])
  BY DEF Init, OneHandler, Relies, HandlerIdle
<1>2. \A u \in Users : Consistent(u)
  BY DEF Init, Consistent, Listed, NoLinks
<1>3. \A c \in Calls : Removes(c)
  BY DEF Init, Removes
<1>. QED
  BY <1>1, <1>2, <1>3 DEF Inv

-----------------------------------------------------------------------------
(* What the scrapper tracks, the bot lists. *)

\* TrackedIsListed, as it is kept by the steps.
Sees ==
    \A u \in Users : \A l \in Links : owner[l] = u =>
        \/ local[u][l] > 0
        \/ <<u, l>> \in forgotten
        \/ \E h \in Handlers : /\ hnd[h].user = u /\ hnd[h].url = l
                               /\ hnd[h].pc \in {"added", "remove"}

\* Handlers with a link on its way go on with it.
Carried ==
    \A k \in Handlers : hnd[k].pc \in {"added", "remove"} =>
        hnd'[k].pc = hnd[k].pc /\ hnd'[k].user = hnd[k].user /\ hnd'[k].url = hnd[k].url

LEMMA SeesKept ==
  ASSUME Sees, Carried, UNCHANGED owner, forgotten \subseteq forgotten',
         \A v \in Users : \A k \in Links : local[v][k] > 0 => local'[v][k] > 0
  PROVE  Sees'
BY DEF Sees, Carried

LEMMA UserSees ==
  ASSUME TypeOK, Inv, Sees, NEW u \in Users, Command(u) \/ Text(u) \/ CacheExpires(u)
  PROVE  Sees'
<1>. USE DEF memory, scrapper, ghosts
<1>1. CASE Command(u) \/ CacheExpires(u)
  <2>1. Carried /\ UNCHANGED <<owner, forgotten, local>>
    BY <1>1 DEF Command, Track, Untrack, Email, Start, List, CacheExpires, Begin, Carried, TypeOK
  <2>. QED
    BY <2>1, SeesKept
<1>2. ASSUME NEW h \in Handlers, UntrackOther(h, u) PROVE Sees'
  <2>1. Carried /\ UNCHANGED <<owner, forgotten, local>>
    BY <1>2 DEF UntrackOther, Begin, Carried, TypeOK
  <2>. QED
    BY <2>1, SeesKept
<1>3. ASSUME NEW h \in Handlers, NEW c \in Calls,
             Password(h, u, c) \/ \E l \in Links : TrackLink(h, u, l, c)
      PROVE  Sees'
  <2>1. Carried /\ UNCHANGED <<owner, forgotten, local>>
    BY <1>3 DEF Password, TrackLink, Send, Begin, Carried, TypeOK
  <2>. QED
    BY <2>1, SeesKept
<1>4. ASSUME NEW h \in Handlers, NEW c \in Calls, NEW l \in Links, UntrackLink(h, u, l, c)
      PROVE  Sees'
  <2>1. Carried /\ UNCHANGED <<owner, forgotten>>
    BY <1>4 DEF UntrackLink, Send, Begin, Carried, TypeOK
  <2>2. hnd'[h].user = u /\ hnd'[h].url = l /\ hnd'[h].pc = "remove"
    BY <1>4 DEF UntrackLink, Send, Begin, Request, TypeOK
  <2>3. \A v \in Users : \A k \in Links : v # u \/ k # l => local'[v][k] = local[v][k]
    BY <1>4 DEF UntrackLink, TypeOK
  <2>. QED
    BY <2>1, <2>2, <2>3 DEF Sees, Carried
<1>. QED
  BY <1>1, <1>2, <1>3, <1>4 DEF Text

\* A link that AddLink registers is on its way into the list, when a handler gets
\* the answer, or forgotten.
LEMMA CallSees ==
  ASSUME TypeOK, Shape, Sees, NEW c \in Calls, Serve(c) \/ Refuse(c)
  PROVE  Sees'
<1>. USE DEF memory, scrapper, ghosts
<1>1. CASE Refuse(c)
  <2>1. UNCHANGED <<owner, forgotten, local>>
    BY <1>1 DEF Refuse
  <2>2. Carried
    BY <1>1 DEF Refuse, Answered, Carried, TypeOK, HandlerStates
  <2>. QED
    BY <2>1, <2>2, SeesKept
<1>2. CASE Serve(c)
  <2>. DEFINE m == net[c]
  <2>1. PICK ok \in BOOLEAN :
          /\ Answered(c, ok)
          /\ forgotten' = {p \in Users \X Links :
                             /\ owner'[p[2]] = p[1]
                             /\ \/ p \in forgotten
                                \/ m = Request("add", p[1], p[2]) /\ ~(ok /\ Awaited(c))}
    BY <1>2 DEF Serve
  <2>2. m \in Requests /\ Fits(m.op, m.link) /\ c # None /\ Effect(m) /\ UNCHANGED local
    BY <1>2, NoneAssumption DEF Serve, TypeOK, Shape
  <2>3. ASSUME NEW k \in Handlers
        PROVE  /\ hnd'[k].user = hnd[k].user /\ hnd'[k].url = hnd[k].url
               /\ hnd[k].call # c => hnd'[k].pc = hnd[k].pc
               /\ hnd[k].call = c =>
                    /\ m = Request(hnd[k].pc, hnd[k].user, hnd[k].url)
                    /\ hnd[k].pc \in Operations
                    /\ hnd'[k].pc = IF ok THEN Success[hnd[k].pc] ELSE hnd[k].pc
    <3>1. hnd[k] \in HandlerStates /\ Shaped(hnd[k], net)
      BY HandlerFields DEF Shape
    <3>2. hnd[k].call = c => m = Request(hnd[k].pc, hnd[k].user, hnd[k].url) /\ hnd[k].pc \in Operations
      BY <2>2, <3>1 DEF Shaped
    <3>3. /\ hnd[k].call # c => hnd'[k] = hnd[k]
          /\ hnd[k].call = c => hnd'[k] = Asked(hnd[k], ok)
          /\ hnd'[k].user = hnd[k].user /\ hnd'[k].url = hnd[k].url
      BY <2>1, AnsweredMoves
    <3>4. Asked(hnd[k], ok).pc = IF ok THEN Success[hnd[k].pc] ELSE hnd[k].pc
      BY <3>1 DEF Asked, HandlerStates
    <3>. QED
      BY <3>2, <3>3, <3>4
  <2>4. SUFFICES ASSUME NEW u \in Users, NEW l \in Links, owner'[l] = u
                 PROVE  \/ local[u][l] > 0
                        \/ <<u, l>> \in forgotten'
                        \/ \E h \in Handlers : /\ hnd'[h].user = u /\ hnd'[h].url = l
                                               /\ hnd'[h].pc \in {"added", "remove"}
    BY <2>2 DEF Sees
  <2>5. /\ owner[l] = u \/ m = Request("add", u, l)
        /\ m # Request("remove", u, l)
    <3>1. CASE m.op = "register" /\ Scrapper!Register(m.user)
      BY <2>4, <3>1 DEF Scrapper!Register, Request
    <3>2. CASE m.op = "add" /\ Scrapper!Track(m.user, m.link)
      <4>1. m.link \in Links
        BY <2>2, <3>2 DEF Fits
      <4>2. owner'[m.link] = m.user /\ \A k \in Links : k # m.link => owner'[k] = owner[k]
        BY <3>2, <4>1 DEF Scrapper!Track, TypeOK
      <4>3. m = Request("add", m.user, m.link)
        BY <2>2, <3>2 DEF Requests, Request
      <4>. QED
        BY <2>4, <3>2, <4>2, <4>3 DEF Request
    <3>3. CASE m.op = "remove" /\ Scrapper!Untrack(m.user, {m.link})
      <4>1. m.link \in Links
        BY <2>2, <3>3 DEF Fits
      <4>2. owner'[m.link] = None /\ \A k \in Links : k # m.link => owner'[k] = owner[k]
        BY <3>3, <4>1 DEF Scrapper!Untrack, TypeOK
      <4>. QED
        BY <2>4, <3>3, <4>2, NoneAssumption DEF Request
    <3>. QED
      BY <2>2, <3>1, <3>2, <3>3 DEF Effect
  <2>. HIDE DEF m
  <2>6. CASE m = Request("add", u, l)
    <3>1. CASE ok /\ Awaited(c)
      <4>1. PICK h \in Handlers : hnd[h].call = c
        BY <3>1 DEF Awaited
      <4>2. /\ hnd[h].pc = "add" /\ hnd[h].user = u /\ hnd[h].url = l
            /\ hnd'[h].pc = Success[hnd[h].pc]
        BY <2>3, <2>6, <3>1, <4>1 DEF Request
      <4>3. hnd'[h].pc = "added" /\ hnd'[h].user = u /\ hnd'[h].url = l
        BY <2>3, <4>2 DEF Success, Operations
      <4>. QED
        BY <4>3
    <3>2. CASE ~(ok /\ Awaited(c))
      BY <2>1, <2>4, <2>6, <3>2
    <3>. QED
      BY <3>1, <3>2
  <2>7. CASE owner[l] = u
    <3>1. CASE <<u, l>> \in forgotten
      BY <2>1, <2>4, <3>1
    <3>2. ASSUME NEW h \in Handlers, hnd[h].user = u, hnd[h].url = l,
                 hnd[h].pc \in {"added", "remove"}
          PROVE  hnd'[h].pc = hnd[h].pc
      BY <2>3, <2>5, <3>2 DEF Operations
    <3>. QED
      BY <2>3, <2>7, <3>1, <3>2 DEF Sees
  <2>. QED
    BY <2>5, <2>6, <2>7
<1>. QED
  BY <1>1, <1>2

LEMMA WaitSees ==
  ASSUME TypeOK, Shape, Sees, NEW h \in Handlers, GiveUp(h) \/ \E c \in Calls : Resend(h, c)
  PROVE  Sees'
<1>. USE DEF memory, scrapper, ghosts
<1>1. CASE GiveUp(h)
  <2>1. /\ \A k \in Handlers : k # h => hnd'[k] = hnd[k]
        /\ UNCHANGED <<owner, local>> /\ forgotten \subseteq forgotten' /\ hnd[h].pc # "added"
    BY <1>1, EndMoves DEF GiveUp, Moves, Waits, Operations
  <2>2. \A l \in Links : hnd[h].pc = "remove" /\ hnd[h].url = l /\ owner[l] = hnd[h].user
                           /\ hnd[h].user \in Users => <<hnd[h].user, l>> \in forgotten'
    BY <1>1 DEF GiveUp
  <2>. QED
    BY <2>1, <2>2 DEF Sees
<1>2. ASSUME NEW c \in Calls, Resend(h, c) PROVE Sees'
  <2>1. UNCHANGED <<owner, forgotten, local>>
    BY <1>2 DEF Resend
  <2>2. Carried
    BY <1>2 DEF Resend, Carried, TypeOK, HandlerStates
  <2>. QED
    BY <2>1, <2>2, SeesKept
<1>. QED
  BY <1>1, <1>2

LEMMA HandlerSees ==
  ASSUME TypeOK, Shape, Inv, Sees, NEW h \in Handlers, HandlerStep(h)
  PROVE  Sees'
<1>. USE DEF memory, scrapper, ghosts
<1>1. CASE Added(h)
  <2>. DEFINE u == hnd[h].user
              l == hnd[h].url
  <2>1. u \in Users /\ l \in Links /\ trackData[u] = l
    BY <1>1, HandlerFields DEF Added, Shape, Shaped, Fits, Inv, Relies
  <2>2. /\ local' = [local EXCEPT ![u][l] = @ + 1] /\ local \in [Users -> [Links -> Nat]]
        /\ UNCHANGED <<owner, forgotten>>
    BY <1>1, <2>1, NoneAssumption DEF Added, TypeOK
  <2>3. \A k \in Handlers : k # h => hnd'[k] = hnd[k]
    BY <1>1, GotoMoves DEF Added, Moves
  <2>4. local'[u][l] > 0 /\ \A v \in Users : \A k \in Links : local[v][k] > 0 => local'[v][k] > 0
    BY <2>1, <2>2
  <2>. QED
    BY <2>2, <2>3, <2>4 DEF Sees
<1>2. CASE Greet(h) \/ Registered(h) \/ Purge(h) \/ Removed(h) \/ NoSuchLink(h) \/ Show(h)
  <2>1. UNCHANGED <<owner, forgotten, local>>
    BY <1>2 DEF Greet, Registered, Purge, Removed, NoSuchLink, Show
  <2>2. Carried
    BY <1>2 DEF Greet, Registered, Purge, Removed, NoSuchLink, Show, End, Carried, TypeOK
  <2>. QED
    BY <2>1, <2>2, SeesKept
<1>3. CASE Fetch(h) \/ Store(h)
  <2>1. UNCHANGED <<owner, forgotten, local>>
    BY <1>3 DEF Fetch, Store
  <2>2. Carried
    BY <1>3 DEF Fetch, Store, End, Goto, Carried, TypeOK
  <2>. QED
    BY <2>1, <2>2, SeesKept
<1>. QED
  BY <1>1, <1>2, <1>3 DEF HandlerStep

LEMMA SeesStep == TypeOK /\ Shape /\ Inv /\ Sees /\ [Next]_vars => Sees'
<1>. SUFFICES ASSUME TypeOK, Shape, Inv, Sees, [Next]_vars PROVE Sees'
  OBVIOUS
<1>1. CASE Restart
  <2>1. UNCHANGED owner /\ forgotten' = {p \in Users \X Links : owner[p[2]] = p[1]}
    BY <1>1 DEF Restart, scrapper
  <2>. QED
    BY <2>1 DEF Sees
<1>2. CASE UNCHANGED vars
  BY <1>2 DEF vars, memory, scrapper, ghosts, Sees
<1>. QED
  BY <1>1, <1>2, UserSees, CallSees, WaitSees, HandlerSees DEF Next

-----------------------------------------------------------------------------
(* Theorems. *)

\* The bot's maps, its cached lists, its requests and the scrapper's tables keep
\* their types, whether or not users wait for answers.
THEOREM TypeCorrect == Spec => []TypeOK
<1>1. Init => TypeOK /\ Shape
  BY InitTypes
<1>2. TypeOK /\ Shape /\ [Next]_vars => (TypeOK /\ Shape)'
  BY TypeStep
<1>. QED
  BY <1>1, <1>2, PTL DEF Spec

LEMMA AlwaysInv == ASSUME ~Overlap PROVE Spec => [](TypeOK /\ Shape /\ Inv)
<1>1. Init => TypeOK /\ Shape /\ Inv
  BY InitTypes, InitInv
<1>2. TypeOK /\ Shape /\ Inv /\ [Next]_vars => (TypeOK /\ Shape /\ Inv)'
  BY TypeStep, InvStep
<1>. QED
  BY <1>1, <1>2, PTL DEF Spec

\* For users who wait for the answer, what the bot lists for a
\* user is what the scrapper tracks for that user, unless a RemoveLink was sent twice.
THEOREM ListedTracked == ASSUME ~Overlap PROVE Spec => []ListedIsTracked
<1>1. TypeOK /\ Shape /\ Inv => ListedIsTracked
  BY DEF Inv, Consistent, ListedIsTracked
<1>. QED
  BY <1>1, AlwaysInv, PTL

\* For users who wait for the answer, a list in Redis has every link the bot lists,
\* from the moment the addition is answered.
THEOREM CachedListed == ASSUME ~Overlap PROVE Spec => []CachedHasListed
<1>1. TypeOK /\ Shape /\ Inv => CachedHasListed
  BY DEF Inv, Consistent, Missing, CachedHasListed
<1>. QED
  BY <1>1, AlwaysInv, PTL

\* For users who wait for the answer, whoever the bot knows is registered and is out
\* of the registration dialog.
THEOREM KnownRegistered == ASSUME ~Overlap PROVE Spec => []KnownHasRegistered
<1>1. TypeOK /\ Shape /\ Inv => KnownHasRegistered
  BY DEF Inv, Consistent, TypeOK, KnownHasRegistered
<1>. QED
  BY <1>1, AlwaysInv, PTL

\* For users who wait for the answer, a link that the scrapper tracks is in the bot's
\* list or on its way, unless the bot could not learn of it or forgot it.
THEOREM TrackedListed == ASSUME ~Overlap PROVE Spec => []TrackedIsListed
<1>1. Init => Sees
  <2>. SUFFICES ASSUME Init PROVE Sees
    OBVIOUS
  <2>1. \A l \in Links : owner[l] = None
    BY DEF Init, Scrapper!Init
  <2>. QED
    BY <2>1, NoneAssumption DEF Sees
<1>2. TypeOK /\ Shape /\ Inv /\ Sees /\ [Next]_vars => Sees'
  BY SeesStep
<1>3. Sees => TrackedIsListed
  <2>. SUFFICES ASSUME Sees, NEW u \in Users, NEW l \in Tracked(u)
                PROVE  \/ l \in Listed(u)
                       \/ <<u, l>> \in forgotten
                       \/ \E h \in Handlers : /\ hnd[h].user = u /\ hnd[h].url = l
                                              /\ hnd[h].pc \in {"added", "remove"}
    BY Zenon DEF TrackedIsListed
  <2>1. l \in Links /\ owner[l] = u
    BY DEF Tracked
  <2>. QED
    BY <2>1 DEF Sees, Listed
<1>. QED
  BY <1>1, <1>2, <1>3, AlwaysInv, PTL DEF Spec
=============================================================================
