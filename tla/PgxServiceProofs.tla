--------------------------- MODULE PgxServiceProofs ---------------------------
(***************************************************************************)
(* The safety properties of PgxService, for any numbers of chats, links,   *)
(* requests and contexts.  What the scheduler keeps by itself is taken     *)
(* from SchedulerProofs, the locks from LinkServiceProofs.                 *)
(***************************************************************************)
EXTENDS PgxService, LinkServiceProofs

-----------------------------------------------------------------------------
(* The invariant. *)

\* Where a request can be, and what its transaction can be there.  The
\* repositories have closed that of an add or a register past "write".
PgxStages(r) ==
    LET q == req[r] IN
    /\ q.pc = "idle" => q = ReqIdle /\ tx[r] = "none"
    /\ q.pc # "idle" => /\ tx[r] # "none" /\ q.op \in Ops /\ q.user \in Users
                        /\ IF q.op \in {"add", "delete"} THEN q.link \in Links ELSE q.link = None
    /\ q.pc = "read" => tx[r] \in {"open", "lost"} /\ q.ids = {}
    /\ q.pc \in {"file", "start", "unfile", "remove", "commit"} =>
         IF q.op \in {"add", "register"} THEN tx[r] = "closed" ELSE tx[r] \in {"wrote", "lost"}
    /\ q.pc \in {"file", "start"} => q.op = "add"
    /\ q.pc \in {"unfile", "remove"} => q.op = "delete"
    /\ q.pc \in {"write", "unfile", "remove", "commit"} \/ tx[r] # "wrote"
    /\ q.pc = "write" /\ tx[r] = "wrote" => q.op \in {"add", "register"}
    /\ tx[r] = "lost" /\ q.ids # {} /\ q.link \in Links => q.link \in disturbed
    /\ q.op = "register" => q.ids = {}

\* The row of an add request is its own.  Once it is committed, and before its
\* context is filed, another request can find it in the table and delete it.
PgxAdds(r) ==
    LET q == req[r] IN
    q.op = "add" =>
      /\ q.ids = {} \/ \E c \in Contexts : q.ids = {c}
      /\ q.pc \in {"file", "start", "commit"} \/ tx[r] = "wrote" => q.ids # {}
      /\ q.pc = "write" /\ tx[r] \in {"open", "failed"} => q.ids = {}
      /\ \A c \in q.ids :
           /\ \A p \in Others(r) : req[p].op = "add" \/ q.pc = "write" => c \notin req[p].ids
           /\ \A w \in rows : w.id = c => w.url = q.link
           /\ q.pc = "write" => c \notin RowIds
           /\ IF q.pc \in {"write", "file"} THEN ctx[c] = "unused" ELSE linkOf[c] = q.link
           /\ q.pc = "file" => c \in RowIds \/ q.link \in disturbed
           /\ q.pc \in {"start", "commit"} =>
                c \in RowIds \/ c \in parted \/ q.link \in disturbed \/ ctx[c] # "live"
           /\ q.pc \in {"rollback", "spin"} => monitor[c].pc = "none"

\* A delete request that is past the scheduler has had the monitor cancelled.
PgxDeletes(r) ==
    LET q == req[r] IN
    q.op = "delete" =>
      /\ q.pc \in {"write", "unfile", "remove", "commit"} => q.ids # {}
      /\ \A c \in q.ids :
           /\ \A w \in rows : w.id = c => w.url = q.link
           /\ q.pc \in {"remove", "commit"} => ctx[c] = "done" \/ q.link \in disturbed

PgxSound(r) == PgxStages(r) /\ Calling(r) /\ PgxAdds(r) /\ PgxDeletes(r)

\* The entry of a row is there, or is about to be stored by the request that
\* committed it, or is being dropped by the one that deletes it.
PgxFiled(w) ==
    \/ cancelFuncs[w.url] = w.id
    \/ \E r \in Callers : req[r].op = "add" /\ req[r].pc = "file" /\ w.id \in req[r].ids
    \/ \E r \in Callers : /\ req[r].op = "delete" /\ req[r].pc \in {"remove", "commit"}
                          /\ tx[r] = "wrote" /\ w.id \in req[r].ids
    \/ w.id \in parted
    \/ w.url \in disturbed

PgxTable ==
    /\ \A v, w \in rows : v.url = w.url \/ v.id = w.id => v = w
    /\ \A w \in rows : linkOf[w.id] \in {w.url, None}
    /\ \A w \in rows : PgxFiled(w)

PgxInv == /\ PgxTypeOK /\ Wired
          /\ \A r \in Callers : PgxSound(r)
          /\ Locks /\ PgxTable /\ PgxLiveIsTracked

-----------------------------------------------------------------------------
(* What no step takes back. *)

PgxKept ==
    /\ disturbed \subseteq disturbed' /\ parted \subseteq parted' /\ chats \subseteq chats'
    /\ \A c \in Contexts : ctx[c] # "unused" =>
         /\ ctx'[c] # "unused" /\ linkOf'[c] = linkOf[c]
         /\ ctx[c] = "done" => ctx'[c] = "done"

LEMMA PgxRequestFields ==
  ASSUME PgxTypeOK, NEW r \in Callers
  PROVE  /\ req[r] \in PgxReqStates
         /\ req[r].op \in Ops \cup {None} /\ req[r].user \in Users \cup {None}
         /\ req[r].link \in Links \cup {None} /\ req[r].ids \subseteq Contexts
         /\ tx[r] \in {"none", "open", "wrote", "failed", "lost", "closed"}
BY DEF PgxTypeOK, PgxReqStates, Holding

LEMMA PgxPlaced == PgxTypeOK => Placed
<1>1. PgxReqStates \subseteq ReqStates
  BY DEF PgxReqStates, ReqStates
<1>. QED
  BY <1>1 DEF PgxTypeOK, Placed, Holding

\* What a step of somebody else must not do to request q.
PgxSpares(q) ==
    /\ req'[q] = req[q] /\ tx'[q] = tx[q] /\ caller'[q] = caller[q]
    /\ req[q].op \in {"add", "delete"} => \A w \in rows' : w.id \in req[q].ids => w \in rows
    /\ req[q].op = "add" => \A c \in req[q].ids :
         /\ \A p \in Others(q) : req'[p].op = "add" \/ req[q].pc = "write" => c \notin req'[p].ids
         /\ ctx[c] = "unused" => ctx'[c] = "unused"
         /\ monitor[c].pc = "none" => monitor'[c].pc = "none"
         /\ \A w \in rows : w.id = c =>
              \/ c \in RowIds'
              \/ req[q].link \in disturbed'
              \/ ctx[c] # "unused" /\ (c \in parted' \/ ctx[c] = "done")

LEMMA PgxSoundKept ==
  ASSUME PgxTypeOK, Wired, PgxKept, NEW q \in Callers, PgxSound(q), PgxSpares(q)
  PROVE  PgxSound(q)'
<1>. DEFINE m == req[q]
<1>1. /\ m.link \in Links \cup {None} /\ m.ids \subseteq Contexts
      /\ req'[q] = m /\ tx'[q] = tx[q] /\ caller'[q] = caller[q]
  BY PgxRequestFields DEF PgxSpares
<1>2. \A c \in Contexts : ctx[c] \in {"unused", "live", "done"}
  BY DEF PgxTypeOK, Sched!TypeOK
<1>3. PgxStages(q)'
  BY <1>1 DEF PgxSound, PgxStages, PgxKept
<1>4. Calling(q)'
  BY <1>1 DEF PgxSound, Calling
<1>5. ASSUME m.op = "add" PROVE PgxAdds(q)'
  <2>1. m.ids # {} => m.link \in Links
    BY <1>5, NoneAssumption DEF PgxSound, PgxStages, ReqIdle
  <2>2. ASSUME NEW c \in m.ids
        PROVE  /\ \A p \in Others(q) : req'[p].op = "add" \/ m.pc = "write" => c \notin req'[p].ids
               /\ \A w \in rows' : w.id = c => w.url = m.link
               /\ m.pc = "write" => c \notin RowIds'
               /\ IF m.pc \in {"write", "file"} THEN ctx'[c] = "unused" ELSE linkOf'[c] = m.link
               /\ m.pc = "file" => c \in RowIds' \/ m.link \in disturbed'
               /\ m.pc \in {"start", "commit"} =>
                    c \in RowIds' \/ c \in parted' \/ m.link \in disturbed' \/ ctx'[c] # "live"
               /\ m.pc \in {"rollback", "spin"} => monitor'[c].pc = "none"
    <3>1. c \in Contexts /\ m.link \in Links
      BY <1>1, <2>1
    <3>2. /\ \A w \in rows : w.id = c => w.url = m.link
          /\ m.pc = "write" => c \notin RowIds
          /\ IF m.pc \in {"write", "file"} THEN ctx[c] = "unused" ELSE linkOf[c] = m.link
          /\ m.pc = "file" => c \in RowIds \/ m.link \in disturbed
          /\ m.pc \in {"start", "commit"} =>
               c \in RowIds \/ c \in parted \/ m.link \in disturbed \/ ctx[c] # "live"
          /\ m.pc \in {"rollback", "spin"} => monitor[c].pc = "none"
      BY <1>5 DEF PgxSound, PgxAdds
    <3>3. m.pc \notin {"write", "file"} => ctx[c] # "unused" /\ linkOf'[c] = m.link
      BY <3>1, <3>2, UsedContext DEF PgxKept
    <3>4. \A w \in rows' : w.id = c => w \in rows
      BY <1>5 DEF PgxSpares
    <3>5. m.pc = "write" => c \notin RowIds'
      BY <3>2, <3>4 DEF RowIds
    <3>6. c \in RowIds => \/ c \in RowIds' \/ m.link \in disturbed'
                          \/ ctx[c] # "unused" /\ (c \in parted' \/ ctx[c] = "done")
      BY <1>5 DEF PgxSpares, RowIds
    <3>7. ctx[c] \in {"live", "done", "unused"} /\ (ctx[c] = "done" => ctx'[c] = "done")
      BY <1>2, <3>1 DEF PgxKept
    <3>8. /\ \A p \in Others(q) : req'[p].op = "add" \/ m.pc = "write" => c \notin req'[p].ids
          /\ ctx[c] = "unused" => ctx'[c] = "unused"
          /\ monitor[c].pc = "none" => monitor'[c].pc = "none"
      BY <1>5 DEF PgxSpares
    <3>9. m.pc = "file" => c \in RowIds' \/ m.link \in disturbed'
      BY <3>2, <3>6 DEF PgxKept
    <3>10. m.pc \in {"start", "commit"} =>
             c \in RowIds' \/ c \in parted' \/ m.link \in disturbed' \/ ctx'[c] # "live"
      BY <3>2, <3>3, <3>6, <3>7 DEF PgxKept
    <3>. QED
      BY <3>2, <3>3, <3>4, <3>5, <3>8, <3>9, <3>10
  <2>3. /\ m.ids = {} \/ \E c \in Contexts : m.ids = {c}
        /\ m.pc \in {"file", "start", "commit"} \/ tx[q] = "wrote" => m.ids # {}
        /\ m.pc = "write" /\ tx[q] \in {"open", "failed"} => m.ids = {}
    BY <1>5 DEF PgxSound, PgxAdds
  <2>. QED
    BY <1>1, <2>2, <2>3 DEF PgxAdds
<1>6. ASSUME m.op = "delete" PROVE PgxDeletes(q)'
  <2>1. \A w \in rows' : w.id \in m.ids => w \in rows
    BY <1>6 DEF PgxSpares
  <2>. QED
    BY <1>1, <1>6, <2>1 DEF PgxSound, PgxDeletes, PgxKept
<1>7. m.op # "add" => PgxAdds(q)'
  BY <1>1 DEF PgxAdds
<1>8. m.op # "delete" => PgxDeletes(q)'
  BY <1>1 DEF PgxDeletes
<1>. QED
  BY <1>3, <1>4, <1>5, <1>6, <1>7, <1>8 DEF PgxSound

-----------------------------------------------------------------------------
(* The steps of one request. *)

\* A step of request r leaves the others alone: what it takes or makes is its own.
PgxAlone(r) ==
    /\ PgxKept
    /\ \A q \in Others(r) : req'[q] = req[q] /\ tx'[q] = tx[q] /\ caller'[q] = caller[q]
    /\ \A c \in req'[r].ids :
         \/ c \in req[r].ids /\ req[r].op = req'[r].op
         \/ \A q \in Callers : c \notin req[q].ids
         \/ c \in RowIds /\ req'[r].op # "add"
    /\ \A w \in rows' :
         w \in rows \/ (req[r].op = "add" /\ req[r].pc = "write" /\ w.id \in req[r].ids)
    /\ \A w \in rows :
         \/ w \in rows'
         \/ w.url \in disturbed'
         \/ ctx[w.id] # "unused" /\ (w.id \in parted' \/ ctx[w.id] = "done")
    /\ \A c \in Contexts : (req[r].op = "add" => c \notin req[r].ids) =>
         /\ ctx[c] = "unused" => ctx'[c] = "unused"
         /\ monitor[c].pc = "none" => monitor'[c].pc = "none"

LEMMA PgxOthersSound ==
  ASSUME PgxTypeOK, Wired, \A q \in Callers : PgxSound(q), NEW r \in Callers, PgxAlone(r)
  PROVE  \A q \in Others(r) : PgxSound(q)'
<1>. SUFFICES ASSUME NEW q \in Others(r) PROVE PgxSound(q)'
  OBVIOUS
<1>1. q \in Callers /\ q # r /\ r \in Others(q) /\ PgxSound(q) /\ PgxSound(r)
  BY DEF Others
<1>2. req'[q] = req[q] /\ tx'[q] = tx[q] /\ caller'[q] = caller[q]
  BY DEF PgxAlone
<1>3. ASSUME req[q].op \in {"add", "delete"}, NEW w \in rows', w.id \in req[q].ids
      PROVE  w \in rows
  <2>1. req[r].op = "add" /\ req[r].pc = "write" => \A c \in req[r].ids : c \notin req[q].ids
    BY <1>1 DEF PgxSound, PgxAdds, Others
  <2>. QED
    BY <1>3, <2>1 DEF PgxAlone
<1>4. ASSUME req[q].op = "add", NEW c \in req[q].ids
      PROVE  /\ \A p \in Others(q) : req'[p].op = "add" \/ req[q].pc = "write" => c \notin req'[p].ids
             /\ ctx[c] = "unused" => ctx'[c] = "unused"
             /\ monitor[c].pc = "none" => monitor'[c].pc = "none"
             /\ \A w \in rows : w.id = c =>
                  \/ c \in RowIds'
                  \/ req[q].link \in disturbed'
                  \/ ctx[c] # "unused" /\ (c \in parted' \/ ctx[c] = "done")
  <2>1. /\ c \in Contexts
        /\ \A p \in Others(q) : req[p].op = "add" \/ req[q].pc = "write" => c \notin req[p].ids
        /\ \A w \in rows : w.id = c => w.url = req[q].link
        /\ req[q].pc = "write" => c \notin RowIds
    BY <1>1, <1>4, PgxRequestFields DEF PgxSound, PgxAdds
  <2>2. req[r].op = "add" => c \notin req[r].ids
    BY <1>1, <2>1
  <2>3. ASSUME NEW p \in Others(q), req'[p].op = "add" \/ req[q].pc = "write"
        PROVE  c \notin req'[p].ids
    <3>1. CASE p = r
      <4>1. c \in req'[r].ids => \/ c \in req[r].ids /\ req[r].op = req'[r].op
                                 \/ c \in RowIds /\ req'[r].op # "add"
        BY <1>1, <1>4 DEF PgxAlone
      <4>. QED
        BY <1>1, <2>1, <2>3, <3>1, <4>1
    <3>2. CASE p # r
      BY <2>1, <2>3, <3>2 DEF PgxAlone, Others
    <3>. QED
      BY <3>1, <3>2
  <2>4. ASSUME NEW w \in rows, w.id = c
        PROVE  \/ c \in RowIds'
               \/ req[q].link \in disturbed'
               \/ ctx[c] # "unused" /\ (c \in parted' \/ ctx[c] = "done")
    <3>1. w \in rows' => c \in RowIds'
      BY <2>4 DEF RowIds
    <3>2. w.url = req[q].link
      BY <2>1, <2>4
    <3>. QED
      BY <2>4, <3>1, <3>2 DEF PgxAlone
  <2>. QED
    BY <2>1, <2>2, <2>3, <2>4 DEF PgxAlone
<1>5. PgxSpares(q)
  BY <1>2, <1>3, <1>4 DEF PgxSpares
<1>. QED
  BY <1>1, <1>5, PgxSoundKept DEF PgxAlone

\* A step of r in which it neither calls the scheduler nor commits keeps the
\* invariant, if r itself keeps what it must.
LEMMA PgxBecomesInv ==
  ASSUME PgxInv, NEW r \in Callers, NEW m \in PgxReqStates,
         NEW t \in Holding \cup {"none", "lost", "closed"},
         Becomes(r, m, t), MayHold(r, m, t), PgxSound(r)',
         disturbed \subseteq disturbed', disturbed' \subseteq Links, refused' \subseteq Contexts,
         \A c \in m.ids : \/ c \in req[r].ids /\ req[r].op = m.op
                          \/ \A q \in Callers : c \notin req[q].ids
                          \/ c \in RowIds /\ m.op # "add",
         req[r].pc # "file",
         tx[r] = "wrote" /\ req[r].op = "delete" /\ req[r].pc \in {"remove", "commit"} =>
            req[r].link \in disturbed',
         req[r].op = "add" =>
            \A c \in req[r].ids : \/ m.op = "add" /\ c \in m.ids
                                  \/ monitor[c].pc = "none"
                                  \/ c \in RowIds \/ c \in parted
                                  \/ linkOf[c] \in disturbed' \/ ctx[c] # "live"
  PROVE  PgxInv'
<1>0. /\ UNCHANGED <<rows, chats, parted, cancelFuncs, ctx, linkOf, monitor, caller, RowIds>>
      /\ req'[r] = m /\ tx'[r] = t
      /\ \A q \in Callers : q # r => req'[q] = req[q] /\ tx'[q] = tx[q]
  BY DEF Becomes, tables, sched, PgxInv, PgxTypeOK, RowIds
<1>1. Wired' /\ Sched!TypeOK'
  <2>1. Wired'
    BY WiredSame DEF Becomes, PgxInv
  <2>. QED
    BY <2>1 DEF Wired
<1>2. PgxTypeOK'
  <2>1. /\ req' \in [Callers -> PgxReqStates]
        /\ tx' \in [Callers -> Holding \cup {"none", "lost", "closed"}]
    BY DEF Becomes, PgxInv, PgxTypeOK
  <2>. QED
    BY <1>0, <1>1, <2>1 DEF PgxInv, PgxTypeOK
<1>3. PgxKept
  BY <1>0 DEF PgxKept
<1>4. PgxAlone(r)
  <2>1. \A q \in Others(r) : req'[q] = req[q] /\ tx'[q] = tx[q] /\ caller'[q] = caller[q]
    BY <1>0 DEF Others
  <2>2. \A c \in req'[r].ids :
          \/ c \in req[r].ids /\ req[r].op = req'[r].op
          \/ \A q \in Callers : c \notin req[q].ids
          \/ c \in RowIds /\ req'[r].op # "add"
    BY <1>0
  <2>3. /\ \A w \in rows' : w \in rows
        /\ \A w \in rows : w \in rows'
        /\ \A c \in Contexts : /\ ctx[c] = "unused" => ctx'[c] = "unused"
                               /\ monitor[c].pc = "none" => monitor'[c].pc = "none"
    BY <1>0
  <2>. QED
    BY <1>3, <2>1, <2>2, <2>3 DEF PgxAlone
<1>5. \A q \in Callers : PgxSound(q)'
  BY <1>4, PgxOthersSound DEF PgxInv, Others
<1>6. Locks'
  BY LocksTaken, PgxPlaced DEF PgxInv
<1>7. PgxTable'
  <2>1. ASSUME NEW w \in rows PROVE PgxFiled(w)'
    <3>1. PgxFiled(w)
      BY DEF PgxInv, PgxTable
    <3>2. CASE tx[r] = "wrote" /\ req[r].op = "delete" /\ req[r].pc \in {"remove", "commit"}
               /\ w.id \in req[r].ids
      <4>1. w.url = req[r].link
        BY <3>2 DEF PgxInv, PgxSound, PgxDeletes
      <4>. QED
        BY <3>2, <4>1 DEF PgxFiled
    <3>3. CASE ~(tx[r] = "wrote" /\ req[r].op = "delete" /\ req[r].pc \in {"remove", "commit"}
                 /\ w.id \in req[r].ids)
      BY <1>0, <3>1, <3>3 DEF PgxFiled
    <3>. QED
      BY <3>2, <3>3
  <2>. QED
    BY <1>0, <2>1 DEF PgxInv, PgxTable
<1>8. PgxLiveIsTracked'
  <2>. SUFFICES ASSUME NEW c \in Contexts, Sched!Running(c), ctx[c] = "live"
                PROVE  \/ c \in RowIds
                       \/ \E q \in Callers : req'[q].op = "add" /\ c \in req'[q].ids
                       \/ c \in parted
                       \/ linkOf[c] \in disturbed'
    BY <1>0 DEF PgxLiveIsTracked, RowIds, Sched!Running
  <2>1. \/ c \in RowIds
        \/ \E q \in Callers : req[q].op = "add" /\ c \in req[q].ids
        \/ c \in parted
        \/ linkOf[c] \in disturbed
    BY DEF PgxInv, PgxLiveIsTracked
  <2>2. monitor[c].pc # "none"
    BY DEF Sched!Running
  <2>. QED
    BY <1>0, <2>1, <2>2
<1>. QED
  BY <1>1, <1>2, <1>5, <1>6, <1>7, <1>8 DEF PgxInv

\* Request r is m next: what it keeps is to be shown of m.
LEMMA PgxBecomesFacts ==
  ASSUME PgxTypeOK, NEW r \in Callers, NEW m, NEW t, Becomes(r, m, t)
  PROVE  /\ req'[r] = m /\ tx'[r] = t /\ caller'[r] = caller[r]
         /\ \A q \in Others(r) : req'[q] = req[q]
         /\ UNCHANGED <<rows, chats, parted, cancelFuncs, ctx, linkOf, monitor, caller, RowIds>>
BY BecomesFacts, PgxPlaced

\* Only the place of the request and its transaction change.
LEMMA PgxMoved ==
  ASSUME PgxTypeOK, NEW r \in Callers, NEW p \in {"write", "file", "commit", "rollback", "spin"},
         NEW t, Goto(r, p), tx' = [tx EXCEPT ![r] = t], UNCHANGED <<sched, tables, parted>>
  PROVE  \E m \in PgxReqStates :
           /\ m.pc = p /\ m.op = req[r].op /\ m.user = req[r].user /\ m.link = req[r].link
           /\ m.ids = req[r].ids /\ Becomes(r, m, t)
<1>. DEFINE m == [req[r] EXCEPT !.pc = p]
<1>1. /\ m \in PgxReqStates /\ m.pc = p /\ m.op = req[r].op /\ m.user = req[r].user
      /\ m.link = req[r].link /\ m.ids = req[r].ids
  BY PgxRequestFields DEF PgxReqStates
<1>2. Becomes(r, m, t)
  BY PgxRequestFields DEF Goto, Becomes, PgxTypeOK
<1>. QED
  BY <1>1, <1>2

\* A request is refused before its transaction has written anything.
LEMMA PgxRefusedInv ==
  ASSUME PgxInv, NEW r \in Callers, req[r].pc \in {"read", "write"}, tx[r] # "wrote",
         NEW t \in {tx[r], "closed"}, Goto(r, "rollback"), tx' = [tx EXCEPT ![r] = t],
         req[r].op = "add" => req[r].ids = {},
         UNCHANGED <<sched, tables, ghosts, pgxGhosts>>
  PROVE  PgxInv'
<1>1. PICK m \in PgxReqStates :
        /\ m.pc = "rollback" /\ m.op = req[r].op /\ m.user = req[r].user /\ m.link = req[r].link
        /\ m.ids = req[r].ids /\ Becomes(r, m, t)
  BY PgxMoved DEF PgxInv, ghosts
<1>2. UNCHANGED <<disturbed, refused>> /\ disturbed \subseteq Links /\ refused \subseteq Contexts
  BY DEF pgxGhosts, PgxInv, PgxTypeOK
<1>3. PgxSound(r) /\ t \in Holding \cup {"none", "lost", "closed"} /\ t # "wrote"
  BY PgxRequestFields DEF PgxInv, Holding
<1>4. PgxSound(r)'
  <2>1. /\ req'[r] = m /\ tx'[r] = t /\ caller'[r] = caller[r]
        /\ UNCHANGED <<rows, RowIds>>
    BY <1>1, PgxBecomesFacts DEF PgxInv
  <2>2. PgxStages(r)' /\ Calling(r)'
    BY <1>1, <1>2, <1>3, <2>1 DEF PgxSound, PgxStages, Calling
  <2>3. PgxAdds(r)' /\ PgxDeletes(r)'
    BY <1>1, <1>2, <1>3, <2>1 DEF PgxSound, PgxAdds, PgxDeletes
  <2>. QED
    BY <2>2, <2>3 DEF PgxSound
<1>5. MayHold(r, m, t)
  BY <1>3 DEF MayHold
<1>. QED
  BY <1>1, <1>2, <1>3, <1>4, <1>5, PgxBecomesInv

\* GetAllLinks answers, or fails unnoticed: the request goes on to write.
LEMMA PgxGoesOnInv ==
  ASSUME PgxInv, NEW r \in Callers, req[r].pc = "read", req[r].op \in {"add", "register", "deleteChat"},
         NEW t \in {tx[r], "failed"}, Goto(r, "write"), tx' = [tx EXCEPT ![r] = t],
         UNCHANGED <<sched, tables, ghosts, pgxGhosts>>
  PROVE  PgxInv'
<1>1. PICK m \in PgxReqStates :
        /\ m.pc = "write" /\ m.op = req[r].op /\ m.user = req[r].user /\ m.link = req[r].link
        /\ m.ids = req[r].ids /\ Becomes(r, m, t)
  BY PgxMoved DEF PgxInv, ghosts
<1>2. UNCHANGED <<disturbed, refused>> /\ disturbed \subseteq Links /\ refused \subseteq Contexts
  BY DEF pgxGhosts, PgxInv, PgxTypeOK
<1>3. PgxSound(r) /\ t \in {"open", "lost", "failed"} /\ req[r].ids = {}
  BY DEF PgxInv, PgxSound, PgxStages
<1>4. PgxSound(r)'
  <2>1. /\ req'[r] = m /\ tx'[r] = t /\ caller'[r] = caller[r]
        /\ UNCHANGED <<rows, RowIds>>
    BY <1>1, PgxBecomesFacts DEF PgxInv
  <2>2. PgxStages(r)' /\ Calling(r)'
    BY <1>1, <1>2, <1>3, <2>1 DEF PgxSound, PgxStages, Calling
  <2>3. PgxAdds(r)' /\ PgxDeletes(r)'
    BY <1>1, <1>3, <2>1 DEF PgxAdds, PgxDeletes
  <2>. QED
    BY <2>2, <2>3 DEF PgxSound
<1>5. MayHold(r, m, t) /\ t \in Holding \cup {"none", "lost", "closed"}
  BY <1>3 DEF MayHold, Holding
<1>. QED
  BY <1>1, <1>2, <1>3, <1>4, <1>5, PgxBecomesInv

\* The ids that a delete or a deleteChat request found are those of rows.
LEMMA PgxFoundInv ==
  ASSUME PgxInv, NEW r \in Callers, req[r].pc = "read", req[r].op \in {"delete", "deleteChat"},
         NEW S \in SUBSET RowIds, req[r].op = "delete" => S # {}, tx[r] = "open",
         UNCHANGED <<sched, tables, tx, ghosts, pgxGhosts>>,
         req[r].op = "delete" => \A w \in rows : w.id \in S => w.url = req[r].link,
         req' = [req EXCEPT ![r].ids = S, ![r].pc = "write"]
  PROVE  PgxInv'
<1>. DEFINE m == [req[r] EXCEPT !.ids = S, !.pc = "write"]
<1>0. RowIds \subseteq Contexts
  BY DEF PgxInv, PgxTypeOK, RowIds
<1>1. /\ m \in PgxReqStates /\ m.pc = "write" /\ m.op = req[r].op /\ m.user = req[r].user
      /\ m.link = req[r].link /\ m.ids = S
  BY <1>0, PgxRequestFields DEF PgxInv, PgxReqStates
<1>2. Becomes(r, m, "open")
  <2>1. req' = [req EXCEPT ![r] = m]
    BY PgxRequestFields DEF PgxInv, PgxTypeOK, PgxReqStates
  <2>2. tx' = [tx EXCEPT ![r] = "open"]
    BY DEF PgxInv, PgxTypeOK
  <2>. QED
    BY <2>1, <2>2 DEF Becomes, ghosts
<1>3. UNCHANGED <<disturbed, refused>> /\ disturbed \subseteq Links /\ refused \subseteq Contexts
  BY DEF pgxGhosts, PgxInv, PgxTypeOK
<1>4. PgxSound(r)
  BY DEF PgxInv
<1>. HIDE DEF m
<1>5. PgxSound(r)'
  <2>1. /\ req'[r] = m /\ tx'[r] = "open" /\ caller'[r] = caller[r]
        /\ UNCHANGED <<rows, RowIds>>
    BY <1>2, PgxBecomesFacts DEF PgxInv
  <2>2. PgxStages(r)' /\ Calling(r)'
    BY <1>1, <1>3, <1>4, <2>1 DEF PgxSound, PgxStages, Calling
  <2>3. PgxAdds(r)' /\ PgxDeletes(r)'
    BY <1>1, <2>1 DEF PgxAdds, PgxDeletes
  <2>. QED
    BY <2>2, <2>3 DEF PgxSound
<1>6. MayHold(r, m, "open") /\ "open" \in Holding \cup {"none", "lost", "closed"}
  BY DEF MayHold, Holding
<1>7. \A c \in m.ids : c \in RowIds /\ m.op # "add"
  BY <1>1
<1>. QED
  BY <1>1, <1>2, <1>3, <1>5, <1>6, <1>7, PgxBecomesInv

LEMMA PgxBeginInv ==
  ASSUME PgxInv, NEW r \in Callers, NEW op \in Ops, NEW u \in Users, NEW l \in Links,
         PgxBegin(r, op, u, l)
  PROVE  PgxInv'
<1>. DEFINE m == [ReqIdle EXCEPT !.pc = "read", !.op = op, !.user = u,
                                 !.link = IF op \in {"add", "delete"} THEN l ELSE None]
<1>1. /\ m \in PgxReqStates /\ m.pc = "read" /\ m.op = op /\ m.user = u /\ m.ids = {}
      /\ m.link = IF op \in {"add", "delete"} THEN l ELSE None
  BY DEF ReqIdle, PgxReqStates
<1>2. Becomes(r, m, "open") /\ UNCHANGED <<disturbed, refused>>
  BY DEF PgxBegin, Begin, Becomes, ghosts, pgxGhosts
<1>3. PgxSound(r) /\ req[r] = ReqIdle
  BY DEF PgxBegin, Begin, PgxInv, PgxSound, PgxStages
<1>. HIDE DEF m
<1>4. PgxSound(r)'
  <2>1. req'[r] = m /\ tx'[r] = "open" /\ caller'[r] = caller[r]
    BY <1>2, PgxBecomesFacts DEF PgxInv
  <2>2. PgxStages(r)' /\ Calling(r)'
    BY <1>1, <1>3, <2>1 DEF PgxSound, PgxStages, Calling, ReqIdle
  <2>3. PgxAdds(r)' /\ PgxDeletes(r)'
    BY <1>1, <2>1 DEF PgxAdds, PgxDeletes
  <2>. QED
    BY <2>2, <2>3 DEF PgxSound
<1>5. disturbed' \subseteq Links /\ refused' \subseteq Contexts /\ disturbed \subseteq disturbed'
  BY <1>2 DEF PgxInv, PgxTypeOK
<1>6. MayHold(r, m, "open") /\ "open" \in Holding \cup {"none", "lost", "closed"}
  BY DEF MayHold, Holding
<1>7. /\ \A c \in m.ids : FALSE
      /\ req[r].pc = "idle" /\ req[r].op = None /\ req[r].ids = {}
  BY <1>1, <1>3 DEF ReqIdle
<1>. QED
  BY <1>1, <1>2, <1>4, <1>5, <1>6, <1>7, PgxBecomesInv

LEMMA PgxReadInv ==
  ASSUME PgxInv, NEW r \in Callers, PgxRead(r)
  PROVE  PgxInv'
<1>0. /\ tx = [tx EXCEPT ![r] = tx[r]] /\ tx[r] \in {tx[r], "failed"} /\ tx[r] \in {tx[r], "closed"}
      /\ PgxSound(r)
  BY DEF PgxInv, PgxTypeOK
<1>1. req[r].pc = "read" => req[r].ids = {} /\ tx[r] # "wrote"
  BY <1>0 DEF PgxSound, PgxStages
<1>2. CASE ReadLinks(r) /\ UNCHANGED pgxGhosts
  <2>1. /\ req[r].pc = "read" /\ req[r].op = "add" /\ UNCHANGED <<sched, tables, tx, ghosts, pgxGhosts>>
        /\ Goto(r, "rollback") \/ Goto(r, "write")
    BY <1>2 DEF ReadLinks, At, Fail
  <2>. QED
    BY <1>0, <1>1, <2>1, PgxRefusedInv, PgxGoesOnInv
<1>3. CASE CheckChat(r) /\ UNCHANGED pgxGhosts
  <2>1. /\ req[r].pc = "read" /\ req[r].op = "register" /\ UNCHANGED <<sched, tables, tx, ghosts, pgxGhosts>>
        /\ Goto(r, "rollback") \/ Goto(r, "write")
    BY <1>3 DEF CheckChat, At, Fail
  <2>. QED
    BY <1>0, <1>1, <2>1, PgxRefusedInv, PgxGoesOnInv
<1>4. CASE ScanRows(r) /\ UNCHANGED pgxGhosts
  <2>. DEFINE S == {w.id : w \in RowsOf(req[r].user)}
  <2>1. S \in SUBSET RowIds
    BY DEF RowIds, RowsOf
  <2>2. /\ req' = [req EXCEPT ![r].ids = S, ![r].pc = "write"]
        /\ req[r].pc = "read" /\ req[r].op = "deleteChat" /\ tx[r] = "open"
        /\ UNCHANGED <<sched, tables, tx, ghosts, pgxGhosts>>
    BY <1>4 DEF ScanRows, At
  <2>. HIDE DEF S
  <2>. QED
    BY <2>1, <2>2, PgxFoundInv
<1>5. CASE FindLink(r) /\ UNCHANGED pgxGhosts
  <2>. DEFINE S == {w.id : w \in {v \in RowsOf(req[r].user) : v.url = req[r].link}}
  <2>1. /\ req[r].pc = "read" /\ req[r].op = "delete" /\ tx[r] = "open"
        /\ UNCHANGED <<sched, tables, ghosts, pgxGhosts>>
    BY <1>5 DEF FindLink, At
  <2>2. CASE S = {}
    <3>1. Goto(r, "rollback") /\ UNCHANGED tx
      BY <1>5, <2>2 DEF FindLink, Fail
    <3>. QED
      BY <1>0, <1>1, <2>1, <3>1, PgxRefusedInv
  <2>3. CASE S # {}
    <3>1. S \in SUBSET RowIds
      BY DEF RowIds, RowsOf
    <3>2. \A w \in rows : w.id \in S => w.url = req[r].link
      <4>. SUFFICES ASSUME NEW w \in rows, w.id \in S
                    PROVE  w.url = req[r].link
        OBVIOUS
      <4>1. PICK v \in rows : v.id = w.id /\ v.url = req[r].link
        BY DEF RowsOf
      <4>2. v = w
        BY <4>1 DEF PgxInv, PgxTable
      <4>. QED
        BY <4>1, <4>2
    <3>3. req' = [req EXCEPT ![r].ids = S, ![r].pc = "write"] /\ UNCHANGED tx
      BY <1>5, <2>3 DEF FindLink
    <3>. HIDE DEF S
    <3>. QED
      BY <2>1, <2>3, <3>1, <3>2, <3>3, PgxFoundInv
  <2>. QED
    BY <2>2, <2>3
<1>6. CASE At(r, "delete", "read") /\ StatementFails(r) /\ UNCHANGED pgxGhosts
  <2>1. /\ req[r].pc = "read" /\ req[r].op = "delete" /\ UNCHANGED <<sched, tables, tx, ghosts, pgxGhosts>>
        /\ Goto(r, "rollback")
    BY <1>6 DEF StatementFails, At, Fail
  <2>. QED
    BY <1>0, <1>1, <2>1, PgxRefusedInv
<1>. QED
  BY <1>2, <1>3, <1>4, <1>5, <1>6 DEF PgxRead, GetAllLinks, GetLinkIDByURL

\* The statements that fail.
LEMMA PgxFailInv ==
  ASSUME PgxInv, NEW r \in Callers, PgxFail(r)
  PROVE  PgxInv'
<1>0. /\ tx = [tx EXCEPT ![r] = tx[r]] /\ tx[r] \in {tx[r], "closed"}
      /\ PgxSound(r)
  BY DEF PgxInv, PgxTypeOK
<1>1. CASE GetAllLinksFails(r)
  <2>1. req[r].pc = "read" /\ UNCHANGED <<sched, tables, ghosts, pgxGhosts>>
    BY <1>1 DEF GetAllLinksFails
  <2>2. req[r].ids = {} /\ tx[r] # "wrote"
    BY <1>0, <2>1 DEF PgxSound, PgxStages
  <2>3. CASE Fail(r)
    BY <1>0, <2>1, <2>2, <2>3, PgxRefusedInv DEF Fail
  <2>4. CASE ~Fail(r)
    <3>1. PICK t \in {tx[r], "failed"} : tx' = [tx EXCEPT ![r] = t]
      BY <1>1, <2>4 DEF GetAllLinksFails
    <3>2. Goto(r, "write") /\ req[r].op \in {"add", "register", "deleteChat"}
      BY <1>1, <2>4 DEF GetAllLinksFails
    <3>. QED
      BY <2>1, <3>1, <3>2, PgxGoesOnInv
  <2>. QED
    BY <2>3, <2>4
<1>2. CASE AddLinkFails(r)
  <2>1. /\ req[r].pc = "write" /\ req[r].op = "add" /\ req[r].ids = {} /\ Goto(r, "rollback")
        /\ tx' = [tx EXCEPT ![r] = "closed"] /\ UNCHANGED <<sched, tables, ghosts, pgxGhosts>>
    BY <1>2 DEF AddLinkFails, At
  <2>2. tx[r] # "wrote"
    BY <1>0, <2>1 DEF PgxSound, PgxAdds
  <2>. QED
    BY <2>1, <2>2, PgxRefusedInv
<1>3. CASE StatementRefused(r)
  BY <1>0, <1>3, PgxRefusedInv DEF StatementRefused, Fail
<1>. QED
  BY <1>1, <1>2, <1>3 DEF PgxFail

LEMMA PgxAddLinkInv ==
  ASSUME PgxInv, NEW r \in Callers, AddLink(r)
  PROVE  PgxInv'
<1>1. /\ req[r].pc = "write" /\ req[r].op = "add" /\ tx[r] = "open" /\ PgxSound(r)
      /\ UNCHANGED <<sched, tables, ghosts, pgxGhosts>>
      /\ \A q \in Others(r) : ~Inserting(q, req[r].link)
  BY DEF AddLink, At, PgxInv
<1>2. req[r].ids = {}
  BY <1>1 DEF PgxSound, PgxAdds
<1>3. CASE (\E w \in rows : w.url = req[r].link) \/ req[r].user \notin chats
  <2>1. Goto(r, "rollback") /\ tx' = [tx EXCEPT ![r] = "closed"]
    BY <1>3 DEF AddLink
  <2>. QED
    BY <1>1, <1>2, <2>1, PgxRefusedInv
<1>4. CASE ~((\E w \in rows : w.url = req[r].link) \/ req[r].user \notin chats)
  <2>1. PICK c \in Contexts :
          /\ ctx[c] = "unused"
          /\ c \notin RowIds
          /\ \A q \in Callers : c \notin req[q].ids
          /\ req' = [req EXCEPT ![r].ids = {c}]
          /\ tx' = [tx EXCEPT ![r] = "wrote"]
    BY <1>4 DEF AddLink
  <2>. DEFINE m == [req[r] EXCEPT !.ids = {c}]
  <2>2. /\ m \in PgxReqStates /\ m.pc = "write" /\ m.op = "add" /\ m.user = req[r].user
        /\ m.link = req[r].link /\ m.ids = {c}
    BY <1>1, PgxRequestFields DEF PgxInv, PgxReqStates
  <2>3. Becomes(r, m, "wrote")
    BY <1>1, <2>1, PgxRequestFields DEF PgxInv, PgxTypeOK, Becomes, ghosts
  <2>. HIDE DEF m
  <2>4. UNCHANGED <<disturbed, refused>> /\ disturbed \subseteq Links /\ refused \subseteq Contexts
    BY <1>1 DEF pgxGhosts, PgxInv, PgxTypeOK
  <2>5. PgxSound(r)'
    <3>1. /\ req'[r] = m /\ tx'[r] = "wrote" /\ caller'[r] = caller[r]
          /\ \A q \in Others(r) : req'[q] = req[q]
          /\ UNCHANGED <<rows, RowIds, ctx>>
      BY <2>3, PgxBecomesFacts DEF PgxInv
    <3>2. PgxStages(r)' /\ Calling(r)'
      BY <1>1, <2>2, <3>1 DEF PgxSound, PgxStages, Calling
    <3>3. PgxAdds(r)'
      <4>1. /\ \A p \in Others(r) : c \notin req'[p].ids
            /\ \A w \in rows' : w.id # c
            /\ c \notin RowIds' /\ ctx'[c] = "unused"
        BY <2>1, <3>1 DEF RowIds, Others
      <4>. QED
        BY <2>2, <3>1, <4>1 DEF PgxAdds
    <3>4. PgxDeletes(r)'
      BY <2>2, <3>1 DEF PgxDeletes
    <3>. QED
      BY <3>2, <3>3, <3>4 DEF PgxSound
  <2>6. MayHold(r, m, "wrote") /\ "wrote" \in Holding \cup {"none", "lost", "closed"}
    BY <1>1, <1>4, <2>2 DEF MayHold, Holding
  <2>. QED
    BY <1>1, <1>2, <2>1, <2>2, <2>3, <2>4, <2>5, <2>6, PgxBecomesInv
<1>. QED
  BY <1>3, <1>4

LEMMA PgxRegisterChatInv ==
  ASSUME PgxInv, NEW r \in Callers, RegisterChat(r)
  PROVE  PgxInv'
<1>1. /\ req[r].pc = "write" /\ req[r].op = "register" /\ tx[r] = "open" /\ PgxSound(r)
      /\ UNCHANGED <<sched, tables, ghosts, pgxGhosts>>
      /\ Becomes(r, req[r], "wrote")
  BY DEF RegisterChat, At, PgxInv, PgxTypeOK, Becomes, ghosts
<1>2. UNCHANGED <<disturbed, refused>> /\ disturbed \subseteq Links /\ refused \subseteq Contexts
  BY <1>1 DEF pgxGhosts, PgxInv, PgxTypeOK
<1>3. PgxSound(r)'
  <2>1. /\ req'[r] = req[r] /\ tx'[r] = "wrote" /\ caller'[r] = caller[r]
    BY <1>1, PgxBecomesFacts DEF PgxInv
  <2>2. PgxStages(r)' /\ Calling(r)'
    BY <1>1, <2>1 DEF PgxSound, PgxStages, Calling
  <2>3. PgxAdds(r)' /\ PgxDeletes(r)'
    BY <1>1, <2>1 DEF PgxAdds, PgxDeletes
  <2>. QED
    BY <2>2, <2>3 DEF PgxSound
<1>4. /\ MayHold(r, req[r], "wrote") /\ "wrote" \in Holding \cup {"none", "lost", "closed"}
      /\ req[r] \in PgxReqStates
  BY <1>1, PgxRequestFields DEF MayHold, Holding, PgxInv
<1>. QED
  BY <1>1, <1>2, <1>3, <1>4, PgxBecomesInv

\* A delete statement takes the locks of the rows that it finds.
LEMMA PgxDeletedInv ==
  ASSUME PgxInv, NEW r \in Callers, req[r].pc = "write", req[r].op \in {"delete", "deleteChat"},
         NEW S \in SUBSET req[r].ids, req[r].op = "delete" => S # {}, S \subseteq RowIds,
         tx[r] = "open", \A q \in Others(r) : req[r].ids \cap Deleting(q) = {},
         UNCHANGED pgxGhosts,
         NEW m \in PgxReqStates, Becomes(r, m, "wrote"),
         m.op = req[r].op, m.user = req[r].user, m.link = req[r].link, m.ids = S,
         m.pc = IF req[r].op = "delete" THEN "unfile" ELSE "commit"
  PROVE  PgxInv'
<1>1. PgxSound(r)
  BY DEF PgxInv
<1>2. UNCHANGED <<disturbed, refused>> /\ disturbed \subseteq Links /\ refused \subseteq Contexts
  BY DEF pgxGhosts, PgxInv, PgxTypeOK
<1>3. PgxSound(r)'
  <2>1. /\ req'[r] = m /\ tx'[r] = "wrote" /\ caller'[r] = caller[r]
        /\ UNCHANGED <<rows, RowIds>>
    BY PgxBecomesFacts DEF PgxInv
  <2>2. PgxStages(r)' /\ Calling(r)'
    BY <1>1, <2>1 DEF PgxSound, PgxStages, Calling
  <2>3. PgxAdds(r)' /\ PgxDeletes(r)'
    BY <1>1, <2>1 DEF PgxSound, PgxAdds, PgxDeletes
  <2>. QED
    BY <2>2, <2>3 DEF PgxSound
<1>4. MayHold(r, m, "wrote") /\ "wrote" \in Holding \cup {"none", "lost", "closed"}
  BY DEF MayHold, Holding
<1>. QED
  BY <1>2, <1>3, <1>4, PgxBecomesInv

LEMMA PgxWriteInv ==
  ASSUME PgxInv, NEW r \in Callers, PgxWrite(r)
  PROVE  PgxInv'
<1>1. CASE AddLink(r)
  BY <1>1, PgxAddLinkInv
<1>2. CASE RegisterChat(r)
  BY <1>2, PgxRegisterChatInv
<1>3. CASE DeleteLink(r)
  <2>1. /\ req[r].pc = "write" /\ req[r].op = "delete" /\ tx[r] = "open" /\ PgxSound(r)
        /\ UNCHANGED <<sched, tables, ghosts, pgxGhosts>>
        /\ \A q \in Others(r) : req[r].ids \cap Deleting(q) = {}
    BY <1>3 DEF DeleteLink, DeleteRow, At, PgxInv
  <2>2. CASE req[r].ids \subseteq RowIds
    <3>. DEFINE m == [req[r] EXCEPT !.pc = "unfile"]
    <3>1. /\ m \in PgxReqStates /\ m.pc = "unfile" /\ m.op = req[r].op /\ m.user = req[r].user
          /\ m.link = req[r].link /\ m.ids = req[r].ids
      BY PgxRequestFields DEF PgxInv, PgxReqStates
    <3>2. Becomes(r, m, "wrote")
      BY <1>3, <2>2, PgxRequestFields
      DEF DeleteLink, DeleteRow, Goto, PgxInv, PgxTypeOK, Becomes, ghosts
    <3>3. req[r].ids # {}
      BY <2>1 DEF PgxSound, PgxDeletes
    <3>. HIDE DEF m
    <3>. QED
      BY <2>1, <2>2, <3>1, <3>2, <3>3, PgxDeletedInv
  <2>3. CASE ~(req[r].ids \subseteq RowIds)
    <3>1. Goto(r, "rollback") /\ UNCHANGED tx
      BY <1>3, <2>3 DEF DeleteLink, DeleteRow, Fail
    <3>2. tx = [tx EXCEPT ![r] = tx[r]]
      BY DEF PgxInv, PgxTypeOK
    <3>. QED
      BY <2>1, <3>1, <3>2, PgxRefusedInv
  <2>. QED
    BY <2>2, <2>3
<1>4. CASE DeleteAllLinks(r)
  <2>. DEFINE S == req[r].ids \cap RowIds
              m == [req[r] EXCEPT !.ids = S, !.pc = "commit"]
  <2>1. /\ req[r].pc = "write" /\ req[r].op = "deleteChat" /\ tx[r] = "open"
        /\ UNCHANGED <<sched, tables, ghosts, pgxGhosts>>
        /\ \A q \in Others(r) : req[r].ids \cap Deleting(q) = {}
    BY <1>4 DEF DeleteAllLinks, At
  <2>2. /\ m \in PgxReqStates /\ m.pc = "commit" /\ m.op = req[r].op /\ m.user = req[r].user
        /\ m.link = req[r].link /\ m.ids = S
    BY PgxRequestFields DEF PgxInv, PgxReqStates
  <2>3. Becomes(r, m, "wrote")
    <3>1. req' = [req EXCEPT ![r] = m]
      BY <1>4, PgxRequestFields DEF DeleteAllLinks, PgxInv, PgxTypeOK, PgxReqStates
    <3>. QED
      BY <1>4, <3>1 DEF DeleteAllLinks, Becomes, ghosts
  <2>4. S \in SUBSET req[r].ids /\ S \subseteq RowIds
    OBVIOUS
  <2>. HIDE DEF S, m
  <2>. QED
    BY <2>1, <2>2, <2>3, <2>4, PgxDeletedInv
<1>. QED
  BY <1>1, <1>2, <1>3, <1>4 DEF PgxWrite

-----------------------------------------------------------------------------
(* The end of a request. *)

LEMMA PgxEndedInv ==
  ASSUME PgxInv, NEW r \in Callers, req[r].pc \in {"commit", "rollback"}, End(r),
         UNCHANGED <<sched, tables, parted>>,
         disturbed \subseteq disturbed', disturbed' \subseteq Links, refused' \subseteq Contexts,
         tx[r] = "wrote" /\ req[r].op = "delete" => req[r].link \in disturbed'
  PROVE  PgxInv'
<1>1. Becomes(r, ReqIdle, "none") /\ PgxSound(r)
  BY DEF End, Becomes, PgxInv
<1>2. ReqIdle \in PgxReqStates /\ ReqIdle.ids = {} /\ ReqIdle.pc = "idle"
  BY DEF ReqIdle, PgxReqStates
<1>3. PgxSound(r)'
  <2>1. req'[r] = ReqIdle /\ tx'[r] = "none" /\ caller'[r] = caller[r]
    BY <1>1, PgxBecomesFacts DEF PgxInv
  <2>2. PgxStages(r)' /\ Calling(r)'
    BY <1>1, <1>2, <2>1 DEF PgxSound, PgxStages, Calling
  <2>3. PgxAdds(r)' /\ PgxDeletes(r)'
    BY <1>2, <2>1 DEF PgxAdds, PgxDeletes
  <2>. QED
    BY <2>2, <2>3 DEF PgxSound
<1>4. MayHold(r, ReqIdle, "none") /\ "none" \in Holding \cup {"none", "lost", "closed"}
  BY DEF MayHold
<1>5. req[r].op = "add" =>
        \A c \in req[r].ids : \/ monitor[c].pc = "none"
                              \/ c \in RowIds \/ c \in parted
                              \/ linkOf[c] \in disturbed' \/ ctx[c] # "live"
  BY <1>1 DEF PgxSound, PgxAdds
<1>6. req[r].pc # "file"
  OBVIOUS
<1>. QED
  BY <1>1, <1>2, <1>3, <1>4, <1>5, <1>6, PgxBecomesInv

\* What a broken connection or a commit may disturb.
LEMMA StruckLinks ==
  ASSUME PgxTypeOK, NEW r \in Callers
  PROVE  /\ Unfiled(r) \subseteq Struck(r) /\ Struck(r) \subseteq Links
         /\ req[r].ids # {} /\ req[r].link \in Links => req[r].link \in Struck(r)
<1>1. Unfiled(r) \subseteq Links
  BY DEF PgxTypeOK, Unfiled
<1>. QED
  BY <1>1 DEF Struck

LEMMA RefusedTyped ==
  ASSUME PgxTypeOK, NEW r \in Callers, EndRefused(r)
  PROVE  refused' \subseteq Contexts
BY PgxRequestFields DEF EndRefused, PgxTypeOK

LEMMA PgxRollbackInv ==
  ASSUME PgxInv, NEW r \in Callers, DoRollback(r)
  PROVE  PgxInv'
<1>1. req[r].pc = "rollback" /\ UNCHANGED <<sched, tables, ghosts, disturbed>> /\ PgxSound(r)
  BY DEF DoRollback, PgxInv
<1>2. disturbed \subseteq Links /\ PgxTypeOK
  BY DEF PgxInv, PgxTypeOK
<1>3. CASE tx[r] \in Holding
  <2>1. EndRefused(r) /\ End(r)
    BY <1>3 DEF DoRollback, EndRefused
  <2>2. tx[r] # "wrote"
    BY <1>1 DEF PgxSound, PgxStages
  <2>. QED
    BY <1>1, <1>2, <2>1, <2>2, RefusedTyped, PgxEndedInv DEF ghosts
<1>4. CASE tx[r] \notin Holding
  <2>1. Goto(r, "spin") /\ UNCHANGED <<tx, refused>> /\ tx' = [tx EXCEPT ![r] = tx[r]]
    BY <1>4 DEF DoRollback, PgxInv, PgxTypeOK
  <2>2. PICK m \in PgxReqStates :
          /\ m.pc = "spin" /\ m.op = req[r].op /\ m.user = req[r].user /\ m.link = req[r].link
          /\ m.ids = req[r].ids /\ Becomes(r, m, tx[r])
    BY <1>1, <1>2, <2>1, PgxMoved DEF ghosts
  <2>3. PgxSound(r)'
    <3>1. /\ req'[r] = m /\ tx'[r] = tx[r] /\ caller'[r] = caller[r]
          /\ \A q \in Others(r) : req'[q] = req[q]
          /\ UNCHANGED <<rows, RowIds, linkOf, monitor, ctx>>
      BY <1>2, <2>2, PgxBecomesFacts
    <3>2. PgxStages(r)' /\ Calling(r)'
      BY <1>1, <1>4, <2>2, <3>1 DEF PgxSound, PgxStages, Calling, Holding
    <3>3. PgxAdds(r)'
      BY <1>1, <1>4, <2>2, <3>1 DEF PgxSound, PgxAdds, Holding
    <3>4. PgxDeletes(r)'
      BY <1>1, <2>2, <3>1 DEF PgxSound, PgxDeletes
    <3>. QED
      BY <3>2, <3>3, <3>4 DEF PgxSound
  <2>4. MayHold(r, m, tx[r]) /\ tx[r] \in Holding \cup {"none", "lost", "closed"}
    BY <1>2, <1>4, PgxRequestFields DEF MayHold, Holding
  <2>5. refused' \subseteq Contexts /\ UNCHANGED disturbed
    BY <1>1, <1>2, <2>1 DEF PgxTypeOK
  <2>. QED
    BY <1>1, <1>2, <2>2, <2>3, <2>4, <2>5, PgxBecomesInv
<1>. QED
  BY <1>3, <1>4

\* The repository's Commit fails and the server has not done it.
LEMMA PgxOwnCommitLostInv ==
  ASSUME PgxInv, NEW r \in Callers, OwnCommitFails(r), UNCHANGED <<tables, parted>>
  PROVE  PgxInv'
<1>0. /\ PgxSound(r) /\ PgxTypeOK /\ req[r].pc = "write"
      /\ tx[r] = "wrote" \/ (tx[r] = "lost" /\ req[r].op = "add" /\ req[r].ids # {})
      /\ disturbed' = disturbed \cup Struck(r)
      /\ UNCHANGED <<sched, tables, parted, refused>>
      /\ tx' = [tx EXCEPT ![r] = "closed"]
  BY DEF OwnCommitFails, PgxInv
<1>. DEFINE p == IF req[r].op = "add" THEN "file" ELSE "rollback"
<1>1. Goto(r, p) /\ p \in {"file", "rollback"}
  BY DEF OwnCommitFails
<1>2. PICK m \in PgxReqStates :
        /\ m.pc = p /\ m.op = req[r].op /\ m.user = req[r].user /\ m.link = req[r].link
        /\ m.ids = req[r].ids /\ Becomes(r, m, "closed")
  BY <1>0, <1>1, PgxMoved
<1>3. /\ req[r].op \in {"add", "register"}
      /\ req[r].op = "add" => req[r].ids # {}
      /\ req[r].op = "add" => req[r].link \in Links
      /\ req[r].op = "register" => req[r].ids = {} /\ req[r].link = None
  BY <1>0 DEF PgxSound, PgxStages, PgxAdds
<1>4. req[r].op = "add" => req[r].link \in disturbed'
  BY <1>0, <1>3, StruckLinks
<1>5. PgxSound(r)'
  <2>1. /\ req'[r] = m /\ tx'[r] = "closed" /\ caller'[r] = caller[r]
        /\ \A q \in Others(r) : req'[q] = req[q]
        /\ UNCHANGED <<rows, RowIds, ctx>>
    BY <1>0, <1>2, PgxBecomesFacts
  <2>2. PgxStages(r)' /\ Calling(r)'
    BY <1>0, <1>2, <1>3, <2>1 DEF PgxSound, PgxStages, Calling
  <2>3. PgxAdds(r)'
    BY <1>0, <1>2, <1>3, <1>4, <2>1 DEF PgxSound, PgxAdds
  <2>4. PgxDeletes(r)'
    BY <1>2, <1>3, <2>1 DEF PgxDeletes
  <2>. QED
    BY <2>2, <2>3, <2>4 DEF PgxSound
<1>6. MayHold(r, m, "closed") /\ "closed" \in Holding \cup {"none", "lost", "closed"}
  BY DEF MayHold
<1>7. disturbed \subseteq disturbed' /\ disturbed' \subseteq Links /\ refused' \subseteq Contexts
  BY <1>0, StruckLinks DEF PgxTypeOK
<1>. QED
  BY <1>0, <1>2, <1>3, <1>5, <1>6, <1>7, PgxBecomesInv

LEMMA PgxDropInv ==
  ASSUME PgxInv, NEW r \in Callers, PgxDropConnection(r)
  PROVE  PgxInv'
<1>. DEFINE m == req[r]
<1>1. /\ Becomes(r, m, "lost") /\ PgxSound(r) /\ PgxTypeOK /\ m \in PgxReqStates
      /\ disturbed' = disturbed \cup Struck(r) /\ UNCHANGED refused /\ tx[r] \in Holding
  BY PgxRequestFields DEF PgxDropConnection, PgxInv, PgxTypeOK, Becomes, ghosts
<1>2. disturbed \subseteq disturbed' /\ disturbed' \subseteq Links /\ refused' \subseteq Contexts
  BY <1>1, StruckLinks DEF PgxTypeOK
<1>3. m.ids # {} /\ m.link \in Links => m.link \in disturbed'
  BY <1>1, StruckLinks
<1>4. m.pc # "file"
  BY <1>1 DEF PgxSound, PgxStages, Holding
<1>5. tx[r] = "wrote" /\ m.op = "delete" /\ m.pc \in {"remove", "commit"} => m.link \in disturbed'
  BY <1>1, <1>3 DEF PgxSound, PgxStages, PgxDeletes
<1>6. PgxSound(r)'
  <2>1. /\ req'[r] = m /\ tx'[r] = "lost" /\ caller'[r] = caller[r]
        /\ \A q \in Others(r) : req'[q] = req[q]
        /\ UNCHANGED <<rows, RowIds, ctx, linkOf, monitor, parted>>
    BY <1>1, PgxBecomesFacts
  <2>2. PgxStages(r)' /\ Calling(r)'
    BY <1>1, <1>3, <2>1 DEF PgxSound, PgxStages, Calling, Holding
  <2>3. PgxAdds(r)'
    BY <1>1, <2>1 DEF PgxSound, PgxAdds
  <2>4. PgxDeletes(r)'
    BY <1>1, <2>1 DEF PgxSound, PgxDeletes
  <2>. QED
    BY <2>2, <2>3, <2>4 DEF PgxSound
<1>7. MayHold(r, m, "lost") /\ "lost" \in Holding \cup {"none", "lost", "closed"}
  BY DEF MayHold
<1>. QED
  BY <1>1, <1>2, <1>4, <1>5, <1>6, <1>7, PgxBecomesInv

\* What a commit makes of the rows.
LEMMA PgxAppliedRows ==
  ASSUME PgxInv, NEW r \in Callers, tx[r] = "wrote", Applied(r)
  PROVE  /\ req[r].op = "add" =>
              \E c \in Contexts, l \in Links :
                 /\ req[r].pc = "write" /\ req[r].ids = {c} /\ req[r].link = l
                 /\ c \notin RowIds /\ linkOf[c] = None
                 /\ \A w \in rows : w.url # l
                 /\ rows' = rows \cup {[id |-> c, chat |-> req[r].user, url |-> l]}
                 /\ RowIds' = RowIds \cup {c}
         /\ req[r].op # "add" =>
              rows' = {w \in rows : w.id \notin req[r].ids} /\ RowIds' = RowIds \ req[r].ids
         /\ req[r].op \notin {"delete", "deleteChat"} => \A w \in rows : w \in rows'
         /\ parted' = IF req[r].op = "deleteChat" THEN parted \cup req[r].ids ELSE parted
         /\ chats \subseteq chats' /\ chats' \subseteq Users
         /\ rows' \subseteq [id : Contexts, chat : Users, url : Links]
         /\ req[r].op \in Ops
<1>1. /\ PgxSound(r) /\ req[r].pc # "idle" /\ req[r].op \in Ops /\ req[r].user \in Users
      /\ chats \subseteq Users /\ rows \subseteq [id : Contexts, chat : Users, url : Links]
  BY DEF PgxInv, PgxTypeOK, PgxSound, PgxStages
<1>2. ASSUME req[r].op = "add"
      PROVE  \E c \in Contexts, l \in Links :
                 /\ req[r].pc = "write" /\ req[r].ids = {c} /\ req[r].link = l
                 /\ c \notin RowIds /\ linkOf[c] = None
                 /\ \A w \in rows : w.url # l
                 /\ rows' = rows \cup {[id |-> c, chat |-> req[r].user, url |-> l]}
                 /\ RowIds' = RowIds \cup {c}
  <2>1. PICK l \in Links : l = req[r].link
    BY <1>1, <1>2 DEF PgxSound, PgxStages
  <2>2. PICK c \in Contexts : req[r].ids = {c}
    BY <1>1, <1>2 DEF PgxSound, PgxAdds
  <2>3. req[r].pc = "write"
    BY <1>1, <1>2 DEF PgxSound, PgxStages
  <2>4. c \notin RowIds /\ ctx[c] = "unused"
    BY <1>1, <1>2, <2>2, <2>3 DEF PgxSound, PgxAdds
  <2>5. linkOf[c] = None
    BY <2>4 DEF PgxInv, Wired, Sched!Wiring
  <2>6. \A w \in rows : w.url # l
    BY <1>2, <2>1 DEF PgxInv, Locks, Inserting
  <2>7. rows' = rows \cup {[id |-> c, chat |-> req[r].user, url |-> l]}
    BY <1>2, <2>1, <2>2 DEF Applied
  <2>8. RowIds' = RowIds \cup {c}
    <3>. DEFINE n == [id |-> c, chat |-> req[r].user, url |-> l]
    <3>1. rows' = rows \cup {n} /\ n.id = c
      BY <2>7
    <3>. HIDE DEF n
    <3>. QED
      BY <3>1 DEF RowIds
  <2>. QED
    BY <2>1, <2>2, <2>3, <2>4, <2>5, <2>6, <2>7, <2>8
<1>3. req[r].op # "add" => rows' = {w \in rows : w.id \notin req[r].ids}
  BY DEF Applied
<1>4. req[r].op # "add" => RowIds' = RowIds \ req[r].ids
  BY <1>3 DEF RowIds
<1>5. req[r].op = "register" => req[r].ids = {}
  BY <1>1 DEF PgxSound, PgxStages
<1>6. req[r].op \notin {"delete", "deleteChat"} => \A w \in rows : w \in rows'
  BY <1>1, <1>2, <1>3, <1>5 DEF Ops
<1>7. rows' \subseteq [id : Contexts, chat : Users, url : Links]
  BY <1>1, <1>2, <1>3
<1>8. /\ parted' = IF req[r].op = "deleteChat" THEN parted \cup req[r].ids ELSE parted
      /\ chats \subseteq chats' /\ chats' \subseteq Users
  BY <1>1 DEF Applied
<1>. QED
  BY <1>1, <1>2, <1>3, <1>4, <1>6, <1>7, <1>8

\* A row that a commit deletes has had its monitor cancelled, or is excused.
LEMMA PgxDeletedRow ==
  ASSUME PgxInv, NEW r \in Callers, tx[r] = "wrote", Applied(r),
         disturbed \subseteq disturbed', req[r].op \in {"delete", "deleteChat"} =>
            req[r].pc = "commit" /\ Unfiled(r) \subseteq disturbed',
         NEW w \in rows, w \notin rows'
  PROVE  \/ w.url \in disturbed'
         \/ ctx[w.id] # "unused" /\ (w.id \in parted' \/ ctx[w.id] = "done")
<1>1. req[r].op \in {"delete", "deleteChat"} /\ PgxSound(r)
  BY PgxAppliedRows DEF PgxInv
<1>2. w.id \in req[r].ids
  BY <1>1 DEF Applied
<1>3. CASE req[r].op = "delete"
  <2>1. w.url = req[r].link /\ (ctx[w.id] = "done" \/ req[r].link \in disturbed)
    BY <1>1, <1>2, <1>3 DEF PgxSound, PgxDeletes
  <2>. QED
    BY <2>1
<1>4. CASE req[r].op = "deleteChat"
  <2>1. ctx[w.id] = "unused" => w.url \in Unfiled(r)
    BY <1>2 DEF Unfiled
  <2>2. w.id \in parted'
    BY <1>2, <1>4 DEF Applied
  <2>. QED
    BY <1>1, <2>1, <2>2
<1>. QED
  BY <1>1, <1>3, <1>4

LEMMA PgxAppliedInv ==
  ASSUME PgxInv, NEW r \in Callers, tx[r] = "wrote", Applied(r), UNCHANGED sched,
         NEW m \in PgxReqStates, NEW t \in {"none", "closed"},
         req' = [req EXCEPT ![r] = m], tx' = [tx EXCEPT ![r] = t], PgxSound(r)',
         disturbed \subseteq disturbed', disturbed' \subseteq Links, refused' \subseteq Contexts,
         req[r].op = "add" => m.op = "add" /\ m.pc = "file" /\ m.ids = req[r].ids,
         req[r].op # "add" => m.ids = {},
         req[r].op \in {"delete", "deleteChat"} =>
            req[r].pc = "commit" /\ Unfiled(r) \subseteq disturbed'
  PROVE  PgxInv'
<1>0. /\ PgxTypeOK /\ PgxSound(r)
      /\ UNCHANGED <<cancelFuncs, ctx, linkOf, monitor, caller>>
      /\ req'[r] = m /\ tx'[r] = t /\ t # "wrote"
      /\ \A q \in Callers : q # r => req'[q] = req[q] /\ tx'[q] = tx[q]
  BY DEF PgxInv, PgxTypeOK, sched
<1>1. Wired' /\ Sched!TypeOK'
  <2>1. Wired'
    BY WiredSame DEF PgxInv
  <2>. QED
    BY <2>1 DEF Wired
<1>2. PgxTypeOK'
  <2>1. /\ req' \in [Callers -> PgxReqStates]
        /\ tx' \in [Callers -> Holding \cup {"none", "lost", "closed"}]
    BY <1>0 DEF PgxTypeOK
  <2>2. parted' \subseteq Contexts
    BY <1>0, PgxAppliedRows, PgxRequestFields DEF PgxTypeOK
  <2>3. chats' \subseteq Users /\ rows' \subseteq [id : Contexts, chat : Users, url : Links]
    BY PgxAppliedRows
  <2>. QED
    BY <1>1, <2>1, <2>2, <2>3 DEF PgxTypeOK
<1>3. PgxKept
  BY <1>0, PgxAppliedRows DEF PgxKept
<1>4. PgxAlone(r)
  <2>1. \A q \in Others(r) : req'[q] = req[q] /\ tx'[q] = tx[q] /\ caller'[q] = caller[q]
    BY <1>0 DEF Others
  <2>2. \A c \in req'[r].ids : c \in req[r].ids /\ req[r].op = req'[r].op
    BY <1>0
  <2>3. \A w \in rows' :
          w \in rows \/ (req[r].op = "add" /\ req[r].pc = "write" /\ w.id \in req[r].ids)
    BY PgxAppliedRows
  <2>4. \A w \in rows :
           \/ w \in rows'
           \/ w.url \in disturbed'
           \/ ctx[w.id] # "unused" /\ (w.id \in parted' \/ ctx[w.id] = "done")
    BY PgxDeletedRow
  <2>5. \A c \in Contexts : /\ ctx[c] = "unused" => ctx'[c] = "unused"
                            /\ monitor[c].pc = "none" => monitor'[c].pc = "none"
    BY <1>0
  <2>. QED
    BY <1>3, <2>1, <2>2, <2>3, <2>4, <2>5 DEF PgxAlone
<1>5. \A q \in Callers : PgxSound(q)'
  BY <1>4, PgxOthersSound DEF PgxInv, Others
<1>6. Locks'
  <2>1. \A q \in Callers : q # r =>
           /\ Deleting(q)' = Deleting(q)
           /\ \A l \in Links : Inserting(q, l)' = Inserting(q, l)
    BY <1>0 DEF Deleting, Inserting
  <2>2. Deleting(r)' = {} /\ \A l \in Links : ~Inserting(r, l)'
    BY <1>0 DEF Deleting, Inserting
  <2>3. \A p, q \in Callers, l \in Links : Inserting(p, l)' /\ Inserting(q, l)' => p = q
    BY <2>1, <2>2 DEF PgxInv, Locks
  <2>4. ASSUME NEW q \in Callers, NEW w \in rows' PROVE ~Inserting(q, w.url)'
    <3>0. PICK l \in Links : l = w.url
      BY <1>2 DEF PgxTypeOK
    <3>1. CASE w \in rows
      <4>1. q # r => ~Inserting(q, l)
        BY <3>0, <3>1 DEF PgxInv, Locks
      <4>2. ~Inserting(q, l)'
        BY <2>1, <2>2, <4>1
      <4>. QED
        BY <3>0, <4>2 DEF Inserting
    <3>2. CASE w \notin rows
      <4>1. req[r].op = "add" /\ req[r].link = l
        BY <3>0, <3>2, PgxAppliedRows
      <4>2. Inserting(r, l)
        BY <4>1 DEF Inserting
      <4>3. q # r => ~Inserting(q, l)
        BY <4>2 DEF PgxInv, Locks
      <4>4. ~Inserting(q, l)'
        BY <2>1, <2>2, <4>3
      <4>. QED
        BY <3>0, <4>4 DEF Inserting
    <3>. QED
      BY <3>1, <3>2
  <2>5. ASSUME NEW q \in Callers PROVE Deleting(q)' \subseteq RowIds'
    <3>1. CASE q = r
      BY <2>2, <3>1
    <3>2. CASE q # r
      <4>1. Deleting(q) \subseteq RowIds /\ Deleting(q) \cap Deleting(r) = {}
        BY <3>2 DEF PgxInv, Locks, Others
      <4>2. req[r].op \in {"delete", "deleteChat"} => Deleting(r) = req[r].ids
        BY DEF Deleting
      <4>3. req[r].op \notin {"delete", "deleteChat"} => RowIds \subseteq RowIds'
        BY PgxAppliedRows DEF RowIds
      <4>4. req[r].op \in {"delete", "deleteChat"} => RowIds' = RowIds \ req[r].ids
        BY PgxAppliedRows
      <4>. QED
        BY <2>1, <3>2, <4>1, <4>2, <4>3, <4>4
    <3>. QED
      BY <3>1, <3>2
  <2>6. \A p \in Callers : \A q \in Others(p) : Deleting(p)' \cap Deleting(q)' = {}
    <3>. SUFFICES ASSUME NEW p \in Callers, NEW q \in Others(p)
                  PROVE  Deleting(p)' \cap Deleting(q)' = {}
      OBVIOUS
    <3>1. q \in Callers /\ Deleting(p) \cap Deleting(q) = {}
      BY DEF PgxInv, Locks, Others
    <3>. QED
      BY <2>1, <2>2, <3>1
  <2>. QED
    BY <2>3, <2>4, <2>5, <2>6 DEF Locks, Others
<1>7. PgxTable'
  <2>1. \A v, w \in rows' : v.url = w.url \/ v.id = w.id => v = w
    <3>1. CASE req[r].op = "add"
      <4>1. PICK c \in Contexts, l \in Links :
                 /\ c \notin RowIds /\ \A w \in rows : w.url # l
                 /\ rows' = rows \cup {[id |-> c, chat |-> req[r].user, url |-> l]}
        BY <3>1, PgxAppliedRows
      <4>2. \A w \in rows : w.id # c
        BY <4>1 DEF RowIds
      <4>. QED
        BY <4>1, <4>2 DEF PgxInv, PgxTable
    <3>2. CASE req[r].op # "add"
      BY <3>2, PgxAppliedRows DEF PgxInv, PgxTable
    <3>. QED
      BY <3>1, <3>2
  <2>2. \A w \in rows' : linkOf[w.id] \in {w.url, None}
    BY PgxAppliedRows DEF PgxInv, PgxTable
  <2>3. ASSUME NEW w \in rows' PROVE PgxFiled(w)'
    <3>1. CASE w \notin rows
      <4>1. req[r].op = "add" /\ w.id \in req[r].ids
        BY <3>1, PgxAppliedRows
      <4>. QED
        BY <1>0, <4>1 DEF PgxFiled
    <3>2. CASE w \in rows
      <4>1. PgxFiled(w)
        BY <3>2 DEF PgxInv, PgxTable
      <4>2. ~(req[r].op = "add" /\ req[r].pc = "file")
        BY PgxAppliedRows
      <4>3. ~(req[r].op = "delete" /\ w.id \in req[r].ids)
        BY PgxAppliedRows
      <4>4. parted \subseteq parted'
        BY <1>3 DEF PgxKept
      <4>. QED
        BY <1>0, <4>1, <4>2, <4>3, <4>4 DEF PgxFiled
    <3>. QED
      BY <3>1, <3>2
  <2>. QED
    BY <1>0, <2>1, <2>2, <2>3 DEF PgxTable
<1>8. PgxLiveIsTracked'
  <2>. SUFFICES ASSUME NEW c \in Contexts, Sched!Running(c), ctx[c] = "live"
                PROVE  \/ c \in RowIds'
                       \/ \E q \in Callers : req'[q].op = "add" /\ c \in req'[q].ids
                       \/ c \in parted'
                       \/ linkOf[c] \in disturbed'
    BY <1>0 DEF PgxLiveIsTracked, Sched!Running
  <2>1. linkOf[c] \in Links
    BY <1>0 DEF PgxInv, PgxTypeOK, Wired, Sched!TypeOK, Sched!Wiring, Sched!Running
  <2>2. CASE c \in RowIds
    <3>1. PICK w \in rows : w.id = c
      BY <2>2 DEF RowIds
    <3>2. linkOf[c] = w.url
      BY <2>1, <3>1, NoneAssumption DEF PgxInv, PgxTable
    <3>3. w \in rows' => c \in RowIds'
      BY <3>1 DEF RowIds
    <3>. QED
      BY <3>1, <3>2, <3>3, PgxDeletedRow
  <2>3. CASE \E q \in Callers : req[q].op = "add" /\ c \in req[q].ids
    BY <1>0, <2>3
  <2>4. CASE c \in parted \/ linkOf[c] \in disturbed
    BY <1>3, <2>4 DEF PgxKept
  <2>. QED
    BY <2>2, <2>3, <2>4 DEF PgxInv, PgxLiveIsTracked
<1>. QED
  BY <1>1, <1>2, <1>5, <1>6, <1>7, <1>8 DEF PgxInv

\* The repository's Commit is done: a chat, or the row of an add request.
LEMMA PgxOwnCommitDoneInv ==
  ASSUME PgxInv, NEW r \in Callers, req[r].pc = "write", tx[r] = "wrote", Applied(r),
         NEW p \in {"file", "commit", "rollback"}, Goto(r, p), p = "file" <=> req[r].op = "add",
         tx' = [tx EXCEPT ![r] = "closed"], UNCHANGED <<sched, refused>>,
         disturbed \subseteq disturbed', disturbed' \subseteq Links
  PROVE  PgxInv'
<1>0. PgxSound(r) /\ PgxTypeOK /\ req[r].op \in {"add", "register"}
  BY DEF PgxInv, PgxSound, PgxStages
<1>. DEFINE m == [req[r] EXCEPT !.pc = p]
<1>1. /\ m \in PgxReqStates /\ m.pc = p /\ m.op = req[r].op /\ m.user = req[r].user
      /\ m.link = req[r].link /\ m.ids = req[r].ids
      /\ req' = [req EXCEPT ![r] = m]
  BY <1>0, PgxRequestFields DEF PgxReqStates, Goto, PgxTypeOK
<1>. HIDE DEF m
<1>2. /\ req'[r] = m /\ tx'[r] = "closed" /\ caller'[r] = caller[r] /\ ctx' = ctx
      /\ \A q \in Others(r) : req'[q] = req[q]
  BY <1>0, <1>1 DEF PgxTypeOK, sched, Others
<1>3. req[r].op = "register" => req[r].ids = {}
  BY <1>0 DEF PgxSound, PgxStages
<1>4. PgxSound(r)'
  <2>1. PgxStages(r)' /\ Calling(r)'
    BY <1>0, <1>1, <1>2, <1>3 DEF PgxSound, PgxStages, Calling
  <2>2. ASSUME req[r].op = "add" PROVE PgxAdds(r)'
    <3>1. PICK c \in Contexts, l \in Links :
            /\ req[r].ids = {c} /\ req[r].link = l
            /\ c \notin RowIds
            /\ rows' = rows \cup {[id |-> c, chat |-> req[r].user, url |-> l]}
            /\ RowIds' = RowIds \cup {c}
      BY <2>2, PgxAppliedRows
    <3>2. \A w \in rows' : w.id = c => w.url = l
      <4>1. \A w \in rows : w.id # c
        BY <3>1 DEF RowIds
      <4>. QED
        BY <3>1, <4>1
    <3>3. ctx[c] = "unused" /\ \A q \in Others(r) : c \notin req[q].ids
      BY <1>0, <2>2, <3>1 DEF PgxSound, PgxAdds
    <3>. QED
      BY <1>1, <1>2, <2>2, <3>1, <3>2, <3>3 DEF PgxAdds
  <2>3. ASSUME req[r].op = "register" PROVE PgxAdds(r)'
    BY <1>1, <1>2, <2>3 DEF PgxAdds
  <2>4. PgxDeletes(r)'
    BY <1>0, <1>1, <1>2 DEF PgxDeletes
  <2>. QED
    BY <1>0, <2>1, <2>2, <2>3, <2>4 DEF PgxSound
<1>5. refused' \subseteq Contexts
  BY <1>0 DEF PgxTypeOK
<1>. QED
  BY <1>0, <1>1, <1>3, <1>4, <1>5, PgxAppliedInv

\* Do's Commit is done: the rows of a delete or a deleteChat request are gone.
LEMMA PgxDoCommitDoneInv ==
  ASSUME PgxInv, NEW r \in Callers, req[r].pc = "commit", tx[r] = "wrote", Applied(r), End(r),
         UNCHANGED sched, disturbed \cup Unfiled(r) \subseteq disturbed', disturbed' \subseteq Links,
         refused' \subseteq Contexts
  PROVE  PgxInv'
<1>0. PgxSound(r) /\ PgxTypeOK /\ req[r].op \in {"delete", "deleteChat"}
  BY DEF PgxInv, PgxSound, PgxStages, Ops
<1>1. ReqIdle \in PgxReqStates /\ ReqIdle.ids = {} /\ ReqIdle.pc = "idle"
  BY DEF ReqIdle, PgxReqStates
<1>2. /\ req' = [req EXCEPT ![r] = ReqIdle] /\ tx' = [tx EXCEPT ![r] = "none"]
      /\ req'[r] = ReqIdle /\ tx'[r] = "none" /\ caller'[r] = caller[r]
  BY <1>0 DEF End, PgxTypeOK, sched
<1>3. PgxSound(r)'
  <2>1. PgxStages(r)' /\ Calling(r)'
    BY <1>0, <1>1, <1>2 DEF PgxSound, PgxStages, Calling
  <2>2. PgxAdds(r)' /\ PgxDeletes(r)'
    BY <1>1, <1>2 DEF PgxAdds, PgxDeletes
  <2>. QED
    BY <2>1, <2>2 DEF PgxSound
<1>. QED
  BY <1>0, <1>1, <1>2, <1>3, PgxAppliedInv

LEMMA PgxFinishInv ==
  ASSUME PgxInv, NEW r \in Callers, PgxFinish(r)
  PROVE  PgxInv'
<1>0. PgxTypeOK /\ PgxSound(r) /\ disturbed \subseteq Links /\ refused \subseteq Contexts
  BY DEF PgxInv, PgxTypeOK
<1>1. CASE OwnCommit(r)
  <2>1. /\ req[r].pc = "write" /\ tx[r] = "wrote" /\ Applied(r)
        /\ Goto(r, AfterOwnCommit(r)) /\ tx' = [tx EXCEPT ![r] = "closed"]
        /\ UNCHANGED <<sched, disturbed, refused>>
    BY <1>1 DEF OwnCommit, pgxGhosts
  <2>2. /\ AfterOwnCommit(r) \in {"file", "commit", "rollback"}
        /\ AfterOwnCommit(r) = "file" <=> req[r].op = "add"
    BY DEF AfterOwnCommit
  <2>. QED
    BY <1>0, <2>1, <2>2, PgxOwnCommitDoneInv
<1>2. CASE OwnCommitFails(r)
  <2>1. CASE UNCHANGED <<tables, parted>>
    BY <1>2, <2>1, PgxOwnCommitLostInv
  <2>2. CASE ~(UNCHANGED <<tables, parted>>)
    <3>. DEFINE p == IF req[r].op = "add" THEN "file" ELSE "rollback"
    <3>1. /\ req[r].pc = "write" /\ tx[r] = "wrote" /\ Applied(r)
          /\ Goto(r, p) /\ tx' = [tx EXCEPT ![r] = "closed"]
          /\ UNCHANGED <<sched, refused>> /\ disturbed' = disturbed \cup Struck(r)
      BY <1>2, <2>2 DEF OwnCommitFails
    <3>2. p \in {"file", "commit", "rollback"} /\ (p = "file" <=> req[r].op = "add")
      OBVIOUS
    <3>3. disturbed \subseteq disturbed' /\ disturbed' \subseteq Links
      BY <1>0, <3>1, StruckLinks
    <3>. HIDE DEF p
    <3>. QED
      BY <3>1, <3>2, <3>3, PgxOwnCommitDoneInv
  <2>. QED
    BY <2>1, <2>2
<1>3. CASE DoRollback(r)
  BY <1>3, PgxRollbackInv
<1>4. CASE DoCommit(r)
  <2>1. /\ req[r].pc = "commit" /\ tx[r] = "wrote" /\ Applied(r) /\ End(r)
        /\ disturbed' = disturbed \cup Unfiled(r) /\ UNCHANGED <<sched, refused>>
    BY <1>4 DEF DoCommit
  <2>2. disturbed' \subseteq Links
    BY <1>0, <2>1, StruckLinks
  <2>. QED
    BY <1>0, <2>1, <2>2, PgxDoCommitDoneInv
<1>5. CASE DoCommitClosed(r)
  <2>1. /\ req[r].pc = "commit" /\ tx[r] = "closed" /\ EndRefused(r) /\ End(r)
        /\ UNCHANGED <<sched, tables, parted, disturbed>>
    BY <1>5 DEF DoCommitClosed, EndRefused, ghosts
  <2>. QED
    BY <1>0, <2>1, RefusedTyped, PgxEndedInv
<1>6. CASE DoCommitFails(r)
  <2>1. /\ req[r].pc = "commit" /\ EndRefused(r) /\ End(r)
        /\ disturbed' = disturbed \cup Struck(r) /\ UNCHANGED sched
    BY <1>6 DEF DoCommitFails, EndRefused
  <2>2. disturbed \cup Unfiled(r) \subseteq disturbed' /\ disturbed' \subseteq Links
    BY <1>0, <2>1, StruckLinks
  <2>3. CASE UNCHANGED <<tables, parted>>
    <3>1. req[r].op = "delete" => req[r].ids # {} /\ req[r].link \in Links
      BY <1>0, <2>1 DEF PgxSound, PgxStages, PgxDeletes
    <3>2. req[r].op = "delete" => req[r].link \in disturbed'
      BY <1>0, <2>1, <3>1, StruckLinks
    <3>. QED
      BY <1>0, <2>1, <2>2, <2>3, <3>2, RefusedTyped, PgxEndedInv
  <2>4. CASE tx[r] = "wrote" /\ Applied(r)
    BY <1>0, <2>1, <2>2, <2>4, RefusedTyped, PgxDoCommitDoneInv
  <2>. QED
    BY <1>6, <2>3, <2>4 DEF DoCommitFails
<1>. QED
  BY <1>1, <1>2, <1>3, <1>4, <1>5, <1>6 DEF PgxFinish

-----------------------------------------------------------------------------
(* The calls of the scheduler. *)

\* r has called the scheduler for its link, and is m next.
PgxCalls(r, m, t) ==
    /\ req' = [req EXCEPT ![r] = m] /\ tx' = [tx EXCEPT ![r] = t]
    /\ \/ t = tx[r] /\ m.op = req[r].op /\ m.link = req[r].link /\ m.ids = req[r].ids
       \/ t = "none" /\ m = ReqIdle
    /\ UNCHANGED <<tables, ghosts>>
    /\ disturbed \subseteq disturbed' /\ disturbed' \subseteq Links /\ refused' \subseteq Contexts
    /\ \A q \in Others(r) : caller'[q] = caller[q]
    /\ \A c \in Contexts : (req[r].op = "add" => c \notin req[r].ids) =>
         /\ ctx[c] = "unused" => ctx'[c] = "unused"
         /\ monitor[c].pc = "none" => monitor'[c].pc = "none"
    /\ \A c \in Contexts : (monitor'[c].pc \notin {"none", "stopped"} /\ ctx'[c] = "live") =>
         \/ /\ monitor[c].pc \notin {"none", "stopped"} /\ ctx[c] = "live"
            /\ req[r].op = "add" => c \notin req[r].ids
         \/ m.op = "add" /\ c \in m.ids

LEMMA PgxCallsInv ==
  ASSUME PgxInv, NEW r \in Callers, NEW m \in PgxReqStates, NEW t, PgxCalls(r, m, t),
         Wired', PgxKept, PgxSound(r)', req[r].pc \in {"file", "start", "unfile", "remove"},
         \A w \in rows : PgxFiled(w)' /\ linkOf'[w.id] \in {w.url, None}
  PROVE  PgxInv'
<1>0. /\ PgxTypeOK /\ PgxSound(r) /\ UNCHANGED <<rows, chats, parted, RowIds>>
      /\ req'[r] = m /\ tx'[r] = t
      /\ \A q \in Callers : q # r => req'[q] = req[q] /\ tx'[q] = tx[q]
  BY DEF PgxCalls, tables, ghosts, PgxInv, PgxTypeOK, RowIds
<1>1. PgxTypeOK'
  <2>1. tx[r] \in Holding \cup {"none", "lost", "closed"}
    BY <1>0, PgxRequestFields DEF Holding
  <2>2. /\ req' \in [Callers -> PgxReqStates]
        /\ tx' \in [Callers -> Holding \cup {"none", "lost", "closed"}]
    BY <1>0, <2>1 DEF PgxCalls, PgxTypeOK
  <2>3. Sched!TypeOK' /\ disturbed' \subseteq Links /\ refused' \subseteq Contexts
    BY DEF Wired, PgxCalls
  <2>. QED
    BY <1>0, <2>2, <2>3 DEF PgxTypeOK
<1>2. PgxAlone(r)
  <2>1. \A q \in Others(r) : req'[q] = req[q] /\ tx'[q] = tx[q] /\ caller'[q] = caller[q]
    BY <1>0 DEF PgxCalls, Others
  <2>2. \A c \in req'[r].ids : c \in req[r].ids /\ req[r].op = req'[r].op
    BY <1>0 DEF PgxCalls, ReqIdle
  <2>3. /\ \A w \in rows' : w \in rows
        /\ \A w \in rows : w \in rows'
    BY <1>0
  <2>4. \A c \in Contexts : (req[r].op = "add" => c \notin req[r].ids) =>
          /\ ctx[c] = "unused" => ctx'[c] = "unused"
          /\ monitor[c].pc = "none" => monitor'[c].pc = "none"
    BY DEF PgxCalls
  <2>. QED
    BY <2>1, <2>2, <2>3, <2>4 DEF PgxAlone
<1>3. \A q \in Callers : PgxSound(q)'
  BY <1>0, <1>2, PgxOthersSound DEF PgxInv, Others
<1>4. \A q \in Callers : /\ Deleting(q)' \subseteq Deleting(q)
                         /\ \A l \in Links : Inserting(q, l)' => Inserting(q, l)
  BY <1>0 DEF PgxCalls, Deleting, Inserting
<1>5. Locks'
  <2>1. /\ \A p, q \in Callers, l \in Links : Inserting(p, l)' /\ Inserting(q, l)' => p = q
        /\ \A q \in Callers : Deleting(q)' \subseteq RowIds
        /\ \A p \in Callers : \A q \in Others(p) : Deleting(p)' \cap Deleting(q)' = {}
    BY <1>4 DEF PgxInv, Locks, Others
  <2>2. \A q \in Callers : \A w \in rows : ~Inserting(q, w.url)'
    BY <1>4 DEF PgxInv, Locks, PgxTypeOK
  <2>. QED
    BY <1>0, <2>1, <2>2 DEF Locks, Others
<1>6. PgxTable'
  BY <1>0 DEF PgxInv, PgxTable
<1>7. PgxLiveIsTracked'
  <2>. SUFFICES ASSUME NEW c \in Contexts, Sched!Running(c)', ctx'[c] = "live"
                PROVE  \/ c \in RowIds'
                       \/ \E q \in Callers : req'[q].op = "add" /\ c \in req'[q].ids
                       \/ c \in parted'
                       \/ linkOf'[c] \in disturbed'
    BY DEF PgxLiveIsTracked, Sched!Running
  <2>1. CASE m.op = "add" /\ c \in m.ids
    BY <1>0, <2>1
  <2>2. CASE /\ monitor[c].pc \notin {"none", "stopped"} /\ ctx[c] = "live"
             /\ req[r].op = "add" => c \notin req[r].ids
    <3>1. linkOf'[c] = linkOf[c]
      BY <2>2 DEF PgxKept
    <3>2. \/ c \in RowIds
          \/ \E q \in Callers : req[q].op = "add" /\ c \in req[q].ids
          \/ c \in parted
          \/ linkOf[c] \in disturbed
      BY <2>2 DEF PgxInv, PgxLiveIsTracked, Sched!Running
    <3>. QED
      BY <1>0, <2>2, <3>1, <3>2 DEF PgxKept
  <2>. QED
    BY <2>1, <2>2 DEF PgxCalls, Sched!Running
<1>. QED
  BY <1>1, <1>3, <1>5, <1>6, <1>7 DEF PgxInv

\* Before its context is filed the row of an add request can only be deleted
\* unnoticed, and the link is disturbed then.
LEMMA PgxFileInv ==
  ASSUME PgxInv, NEW r \in Callers, PgxFile(r)
  PROVE  PgxInv'
<1>. DEFINE m == [req[r] EXCEPT !.pc = "start"]
<1>0. PgxTypeOK /\ PgxSound(r)
  BY DEF PgxInv
<1>1. /\ m \in PgxReqStates /\ m.pc = "start" /\ m.op = req[r].op /\ m.user = req[r].user
      /\ m.link = req[r].link /\ m.ids = req[r].ids
  BY <1>0, PgxRequestFields DEF PgxReqStates
<1>2. /\ req[r].op = "add" /\ req[r].pc = "file" /\ req' = [req EXCEPT ![r] = m]
      /\ UNCHANGED <<tables, tx, ghosts, pgxGhosts>>
  BY <1>0, PgxRequestFields DEF PgxFile, File, At, Goto, PgxTypeOK
<1>. HIDE DEF m
<1>3. PICK c \in req[r].ids : Sched!FileCancel(r, req[r].link, c)
  BY DEF PgxFile, File
<1>4. req[r].ids = {c} /\ c \in Contexts
  BY <1>0, <1>2, PgxRequestFields DEF PgxSound, PgxAdds
<1>5. PICK l \in Links : l = req[r].link
  BY <1>0, <1>2 DEF PgxSound, PgxStages
<1>6. /\ ctx[c] = "unused" /\ ctx'[c] = "live" /\ linkOf'[c] = l /\ cancelFuncs'[l] = c
      /\ \A d \in Contexts : d # c => ctx'[d] = ctx[d] /\ linkOf'[d] = linkOf[d]
      /\ \A k \in Links : k # l => cancelFuncs'[k] = cancelFuncs[k]
      /\ caller'[r].pc = "start" /\ caller'[r].link = l /\ caller'[r].ctx = c
      /\ \A q \in Others(r) : caller'[q] = caller[q]
      /\ UNCHANGED monitor
  BY <1>3, <1>4, <1>5, FileEffect DEF PgxInv
<1>7. Wired'
  BY <1>3, <1>4, <1>5, CallsProved, ProvedStep DEF PgxInv
<1>8. PgxKept
  BY <1>2, <1>6 DEF PgxKept, ghosts, pgxGhosts, tables
<1>9. /\ req'[r] = m /\ tx'[r] = tx[r]
      /\ UNCHANGED <<rows, RowIds, parted, disturbed, refused, tx>>
      /\ \A q \in Others(r) : req'[q] = req[q]
  BY <1>0, <1>2 DEF tables, ghosts, pgxGhosts, RowIds, Others, PgxTypeOK
<1>10. monitor[c].pc = "none"
  BY <1>4, <1>6 DEF PgxInv, Wired, Sched!Wiring
<1>11. PgxCalls(r, m, tx[r])
  <2>1. tx' = [tx EXCEPT ![r] = tx[r]] /\ disturbed' \subseteq Links /\ refused' \subseteq Contexts
    BY <1>0, <1>9 DEF PgxTypeOK
  <2>. QED
    BY <1>1, <1>2, <1>4, <1>6, <1>9, <1>10, <2>1 DEF PgxCalls
<1>12. /\ \A w \in rows : w.id = c => w.url = l
       /\ c \in RowIds \/ l \in disturbed
       /\ \A p \in Others(r) : req[p].op = "add" => c \notin req[p].ids
  BY <1>0, <1>2, <1>4, <1>5 DEF PgxSound, PgxAdds
<1>13. PgxSound(r)'
  <2>1. PgxStages(r)'
    BY <1>0, <1>1, <1>2, <1>9 DEF PgxSound, PgxStages
  <2>2. Calling(r)'
    BY <1>1, <1>4, <1>5, <1>6, <1>9 DEF Calling
  <2>3. PgxAdds(r)'
    BY <1>1, <1>4, <1>5, <1>6, <1>9, <1>12 DEF PgxAdds
  <2>4. PgxDeletes(r)'
    BY <1>1, <1>2, <1>9 DEF PgxDeletes
  <2>. QED
    BY <2>1, <2>2, <2>3, <2>4 DEF PgxSound
<1>14. ASSUME NEW w \in rows PROVE PgxFiled(w)' /\ linkOf'[w.id] \in {w.url, None}
  <2>1. /\ w.url \in Links /\ w.id \in Contexts /\ PgxFiled(w)
        /\ linkOf[w.id] \in {w.url, None}
    BY DEF PgxInv, PgxTable, PgxTypeOK
  <2>2. CASE w.url = l
    <3>1. w.id = c \/ l \in disturbed
      BY <1>12, <2>2 DEF PgxInv, PgxTable, RowIds
    <3>. QED
      BY <1>6, <1>9, <2>1, <2>2, <3>1 DEF PgxFiled
  <2>3. CASE w.url # l
    <3>1. w.id # c
      BY <1>12, <2>3
    <3>2. ASSUME NEW q \in Callers, w.id \in req[q].ids PROVE req'[q] = req[q] /\ tx'[q] = tx[q]
      BY <1>4, <1>9, <3>1, <3>2 DEF Others
    <3>. QED
      BY <1>6, <1>9, <2>1, <2>3, <3>1, <3>2 DEF PgxFiled
  <2>. QED
    BY <2>2, <2>3
<1>. QED
  BY <1>1, <1>2, <1>7, <1>8, <1>11, <1>13, <1>14, PgxCallsInv

LEMMA PgxStartInv ==
  ASSUME PgxInv, NEW r \in Callers, PgxStart(r)
  PROVE  PgxInv'
<1>0. PgxTypeOK /\ PgxSound(r)
  BY DEF PgxInv
<1>1. /\ req[r].op = "add" /\ req[r].pc = "start" /\ Sched!Start(r) /\ tx[r] = "closed"
      /\ UNCHANGED <<tables, ghosts, disturbed>>
  BY <1>0 DEF PgxStart, At, PgxSound, PgxStages
<1>2. PICK l \in Links : l = req[r].link
  BY <1>0, <1>1 DEF PgxSound, PgxStages
<1>3. PICK c \in Contexts : req[r].ids = {c} /\ caller[r].ctx = c /\ caller[r].link = l
  BY <1>0, <1>1, <1>2, PgxRequestFields DEF PgxSound, Calling
<1>4. Class[l] \in Sched!Classes
  BY ClassAssumption
<1>5. /\ monitor' = IF Sched!KindsOf(l) = {} THEN monitor ELSE [monitor EXCEPT ![c].pc = "select"]
      /\ monitor[c].pc = "none" /\ \A d \in Contexts : d # c => monitor'[d] = monitor[d]
      /\ caller'[r] = Sched!CallerIdle /\ \A q \in Others(r) : caller'[q] = caller[q]
      /\ UNCHANGED <<cancelFuncs, ctx, linkOf>>
  BY <1>1, <1>3, StartEffect DEF PgxInv
<1>. DEFINE Goes(m, t) ==
        /\ req' = [req EXCEPT ![r] = m] /\ tx' = [tx EXCEPT ![r] = t] /\ refused' \subseteq Contexts
        /\ \/ /\ t = tx[r] /\ m.pc \in {"rollback", "commit"} /\ m.op = req[r].op
              /\ m.user = req[r].user /\ m.link = req[r].link /\ m.ids = req[r].ids
           \/ t = "none" /\ m = ReqIdle
        /\ m.pc # "commit" => Class[l] \in {"rejected", "short"}
<1>6. \E m \in PgxReqStates, t \in {tx[r], "none"} : Goes(m, t)
  <2>1. ASSUME NEW p \in {"rollback", "commit"}, Goto(r, p), UNCHANGED <<tx, refused>>,
               p # "commit" => Class[l] = "rejected"
        PROVE  \E m \in PgxReqStates, t \in {tx[r], "none"} : Goes(m, t)
    <3>. DEFINE m == [req[r] EXCEPT !.pc = p]
    <3>1. /\ m \in PgxReqStates /\ m.pc = p /\ m.op = req[r].op /\ m.user = req[r].user
          /\ m.link = req[r].link /\ m.ids = req[r].ids
      BY <1>0, PgxRequestFields DEF PgxReqStates
    <3>2. /\ req' = [req EXCEPT ![r] = m] /\ tx' = [tx EXCEPT ![r] = tx[r]]
          /\ refused' \subseteq Contexts
      BY <1>0, <2>1 DEF Goto, PgxTypeOK
    <3>. HIDE DEF m
    <3>. QED
      BY <2>1, <3>1, <3>2
  <2>2. ASSUME EndRefused(r), Class[l] = "short" PROVE \E m \in PgxReqStates, t \in {tx[r], "none"} : Goes(m, t)
    <3>1. ReqIdle \in PgxReqStates
      BY DEF ReqIdle, PgxReqStates
    <3>2. refused' \subseteq Contexts
      BY <1>0, <2>2, RefusedTyped
    <3>. QED
      BY <2>2, <3>1, <3>2 DEF EndRefused, End
  <2>. QED
    BY <1>2, <2>1, <2>2 DEF PgxStart
<1>7. PICK m \in PgxReqStates, t \in {tx[r], "none"} : Goes(m, t)
  BY <1>6
<1>8. m.pc # "commit" => monitor'[c].pc = "none"
  <2>1. Class[l] \in {"rejected", "short"} => Sched!KindsOf(l) = {}
    BY DEF Sched!KindsOf
  <2>. QED
    BY <1>5, <1>7, <2>1
<1>9. Wired'
  BY <1>1, CallsProved, ProvedStep DEF PgxInv
<1>10. PgxKept
  BY <1>1, <1>5 DEF PgxKept, ghosts, tables
<1>11. /\ req'[r] = m /\ tx'[r] = t /\ UNCHANGED <<rows, RowIds, parted, disturbed>>
       /\ \A q \in Others(r) : req'[q] = req[q] /\ tx'[q] = tx[q]
  BY <1>0, <1>1, <1>7 DEF tables, ghosts, RowIds, Others, PgxTypeOK
<1>12. PgxCalls(r, m, t)
  <2>1. \A d \in Contexts : (monitor'[d].pc \notin {"none", "stopped"} /\ ctx'[d] = "live") =>
          \/ /\ monitor[d].pc \notin {"none", "stopped"} /\ ctx[d] = "live"
             /\ req[r].op = "add" => d \notin req[r].ids
          \/ m.op = "add" /\ d \in m.ids
    <3>1. m.pc = "commit" => m.op = "add" /\ c \in m.ids
      BY <1>1, <1>3, <1>7 DEF ReqIdle
    <3>. QED
      BY <1>3, <1>5, <1>8, <3>1
  <2>2. \A d \in Contexts : (req[r].op = "add" => d \notin req[r].ids) =>
         /\ ctx[d] = "unused" => ctx'[d] = "unused"
         /\ monitor[d].pc = "none" => monitor'[d].pc = "none"
    BY <1>1, <1>3, <1>5
  <2>3. disturbed \subseteq disturbed' /\ disturbed' \subseteq Links
    BY <1>0, <1>11 DEF PgxTypeOK
  <2>. QED
    BY <1>1, <1>5, <1>7, <2>1, <2>2, <2>3 DEF PgxCalls
<1>13. PgxSound(r)'
  <2>1. CASE t = "none" /\ m = ReqIdle
    BY <1>5, <1>11, <2>1, NoneAssumption DEF PgxSound, PgxStages, Calling, PgxAdds, PgxDeletes, ReqIdle, Ops
  <2>2. CASE /\ t = tx[r] /\ m.pc \in {"rollback", "commit"} /\ m.op = req[r].op
             /\ m.user = req[r].user /\ m.link = req[r].link /\ m.ids = req[r].ids
    <3>1. PgxStages(r)'
      BY <1>0, <1>1, <1>11, <2>2 DEF PgxSound, PgxStages
    <3>2. Calling(r)'
      BY <1>5, <1>11, <2>2 DEF Calling
    <3>3. PgxAdds(r)'
      <4>1. /\ \A p \in Others(r) : req[p].op = "add" => c \notin req[p].ids
            /\ \A w \in rows : w.id = c => w.url = l
            /\ linkOf[c] = l
            /\ c \in RowIds \/ c \in parted \/ l \in disturbed \/ ctx[c] # "live"
        BY <1>0, <1>1, <1>2, <1>3 DEF PgxSound, PgxAdds
      <4>. QED
        BY <1>1, <1>2, <1>3, <1>5, <1>8, <1>11, <2>2, <4>1 DEF PgxAdds
    <3>4. PgxDeletes(r)'
      BY <1>1, <1>11, <2>2 DEF PgxDeletes
    <3>. QED
      BY <3>1, <3>2, <3>3, <3>4 DEF PgxSound
  <2>. QED
    BY <1>7, <2>1, <2>2
<1>14. ASSUME NEW w \in rows PROVE PgxFiled(w)' /\ linkOf'[w.id] \in {w.url, None}
  <2>1. PgxFiled(w) /\ linkOf[w.id] \in {w.url, None}
    BY DEF PgxInv, PgxTable
  <2>2. \A q \in Callers : \/ req'[q] = req[q] /\ tx'[q] = tx[q]
                           \/ req[q].pc = "start"
    BY <1>1, <1>11 DEF Others
  <2>. QED
    BY <1>5, <1>11, <2>1, <2>2 DEF PgxFiled
<1>. QED
  BY <1>1, <1>9, <1>10, <1>12, <1>13, <1>14, PgxCallsInv

\* What the two steps of RemoveLink share: request r deletes, keeps its
\* transaction and goes on to "remove" or "commit".
LEMMA PgxRemovingInv ==
  ASSUME PgxInv, NEW r \in Callers, req[r].op = "delete", req[r].pc \in {"unfile", "remove"},
         NEW to \in {"commit", "remove"}, Goto(r, to),
         UNCHANGED <<tables, tx, ghosts, refused, linkOf, monitor>>,
         disturbed \subseteq disturbed', disturbed' \subseteq Links, Wired',
         NEW l \in Links, l = req[r].link,
         \A q \in Others(r) : caller'[q] = caller[q],
         IF to = "commit" THEN caller'[r] = Sched!CallerIdle
           ELSE caller'[r].pc \in {"drop"} \cup Sched!Kinds /\ caller'[r].link = l,
         \A c \in Contexts : ctx'[c] = ctx[c] \/ (ctx'[c] = "done" /\ ctx[c] # "unused"),
         \A c \in req[r].ids : ctx'[c] = "done" \/ l \in disturbed',
         \A k \in Links : \/ cancelFuncs'[k] = cancelFuncs[k]
                          \/ k = l /\ req[r].pc = "remove"
  PROVE  PgxInv'
<1>. DEFINE m == [req[r] EXCEPT !.pc = to]
<1>0. PgxTypeOK /\ PgxSound(r)
  BY DEF PgxInv
<1>1. /\ m \in PgxReqStates /\ m.pc = to /\ m.op = req[r].op /\ m.user = req[r].user
      /\ m.link = req[r].link /\ m.ids = req[r].ids
  BY <1>0, PgxRequestFields DEF PgxReqStates
<1>2. req' = [req EXCEPT ![r] = m]
  BY <1>0, PgxRequestFields DEF Goto, PgxTypeOK
<1>. HIDE DEF m
<1>3. /\ req'[r] = m /\ tx'[r] = tx[r] /\ UNCHANGED <<rows, RowIds, parted, tx>>
      /\ \A q \in Others(r) : req'[q] = req[q]
  BY <1>0, <1>2 DEF tables, ghosts, RowIds, Others, PgxTypeOK
<1>4. PgxKept
  BY DEF PgxKept, tables, ghosts
<1>5. PgxCalls(r, m, tx[r])
  <2>1. tx' = [tx EXCEPT ![r] = tx[r]] /\ refused' \subseteq Contexts
    BY <1>0, <1>3 DEF PgxTypeOK
  <2>2. \A c \in Contexts : /\ ctx[c] = "unused" => ctx'[c] = "unused"
                            /\ ctx'[c] = "live" => ctx[c] = "live"
    OBVIOUS
  <2>. QED
    BY <1>1, <1>2, <2>1, <2>2 DEF PgxCalls
<1>6. /\ req[r].ids # {} /\ tx[r] \in {"wrote", "lost"}
      /\ \A c \in req[r].ids : \A w \in rows : w.id = c => w.url = l
      /\ tx[r] = "lost" => l \in disturbed
  BY <1>0 DEF PgxSound, PgxStages, PgxDeletes
<1>7. PgxSound(r)'
  <2>1. PgxStages(r)'
    BY <1>0, <1>1, <1>3, <1>6 DEF PgxSound, PgxStages
  <2>2. Calling(r)'
    BY <1>1, <1>3 DEF Calling
  <2>3. PgxAdds(r)'
    BY <1>1, <1>3 DEF PgxAdds
  <2>4. PgxDeletes(r)'
    BY <1>1, <1>3, <1>6 DEF PgxDeletes
  <2>. QED
    BY <2>1, <2>2, <2>3, <2>4 DEF PgxSound
<1>8. ASSUME NEW w \in rows PROVE PgxFiled(w)' /\ linkOf'[w.id] \in {w.url, None}
  <2>1. w.url \in Links /\ PgxFiled(w) /\ linkOf[w.id] \in {w.url, None}
    BY DEF PgxInv, PgxTable, PgxTypeOK
  <2>2. \A q \in Callers :
           /\ req[q].op = "add" => req'[q] = req[q]
           /\ (req[q].op = "delete" /\ req[q].pc \in {"remove", "commit"}) =>
                /\ req'[q].op = "delete" /\ req'[q].pc \in {"remove", "commit"}
                /\ req'[q].ids = req[q].ids /\ tx'[q] = tx[q]
    BY <1>1, <1>3 DEF Others
  <2>3. CASE cancelFuncs'[w.url] = cancelFuncs[w.url]
    BY <1>3, <2>1, <2>2, <2>3 DEF PgxFiled
  <2>4. linkOf'[w.id] \in {w.url, None}
    BY <2>1
  <2>5. CASE w.url = l /\ req[r].pc = "remove"
    <3>1. CASE tx[r] = "lost"
      <4>1. w.url \in disturbed'
        BY <1>6, <2>5, <3>1
      <4>. QED
        BY <2>4, <4>1 DEF PgxFiled
    <3>2. CASE tx[r] = "wrote"
      <4>1. PICK c \in req[r].ids : c \in RowIds
        BY <1>6, <3>2 DEF PgxInv, Locks, Deleting
      <4>2. PICK v \in rows : v.id = c
        BY <4>1 DEF RowIds
      <4>3. v = w
        BY <1>6, <2>5, <4>1, <4>2 DEF PgxInv, PgxTable
      <4>. QED
        <5>1. /\ req'[r].op = "delete" /\ req'[r].pc \in {"remove", "commit"}
              /\ tx'[r] = "wrote" /\ w.id \in req'[r].ids
          BY <1>1, <1>3, <3>2, <4>1, <4>2, <4>3
        <5>. QED
          BY <2>4, <5>1 DEF PgxFiled
    <3>. QED
      BY <1>6, <3>1, <3>2
  <2>. QED
    BY <2>1, <2>3, <2>5
<1>. QED
  BY <1>1, <1>4, <1>5, <1>7, <1>8, PgxCallsInv

\* If RemoveLink finds another entry than its own, or none, the monitor of the
\* row was not told of yet or belongs to another row: the link is disturbed.
LEMMA PgxUnfileInv ==
  ASSUME PgxInv, NEW r \in Callers, PgxUnfile(r)
  PROVE  PgxInv'
<1>0. PgxTypeOK /\ PgxSound(r)
  BY DEF PgxInv
<1>1. /\ req[r].op = "delete" /\ req[r].pc = "unfile" /\ UNCHANGED <<tables, tx, ghosts, refused>>
  BY DEF PgxUnfile, Unfile, At
<1>2. PICK l \in Links : l = req[r].link
  BY <1>0, <1>1 DEF PgxSound, PgxStages
<1>3. PICK to \in {"commit", "remove"} :
        /\ Goto(r, to)
        /\ \/ to = "commit" /\ cancelFuncs[l] = None /\ UNCHANGED sched
           \/ to = "remove" /\ Sched!Cancel(r, l)
  BY <1>2 DEF PgxUnfile, Unfile
<1>4. disturbed' = IF req[r].ids = {cancelFuncs[l]} THEN disturbed ELSE disturbed \cup {l}
  BY <1>2 DEF PgxUnfile
<1>5. disturbed \subseteq disturbed' /\ disturbed' \subseteq Links
  BY <1>0, <1>4 DEF PgxTypeOK
<1>6. /\ UNCHANGED <<cancelFuncs, linkOf, monitor>> /\ Wired'
      /\ \A q \in Others(r) : caller'[q] = caller[q]
      /\ \A c \in Contexts : ctx'[c] = ctx[c] \/ (ctx'[c] = "done" /\ ctx[c] # "unused")
      /\ \A c \in Contexts : cancelFuncs[l] = c => ctx'[c] = "done"
      /\ IF to = "commit" THEN caller'[r] = Sched!CallerIdle
           ELSE caller'[r].pc \in {"drop"} \cup Sched!Kinds /\ caller'[r].link = l
  <2>1. CASE to = "commit"
    <3>1. Wired' /\ caller[r] = Sched!CallerIdle /\ UNCHANGED sched /\ cancelFuncs[l] = None
      BY <1>0, <1>1, <1>3, <2>1, WiredSame DEF PgxInv, PgxSound, Calling
    <3>. QED
      BY <2>1, <3>1, NoneAssumption DEF sched
  <2>2. CASE to = "remove"
    <3>1. Sched!Cancel(r, l)
      BY <1>3, <2>2
    <3>2. Wired'
      BY <3>1, CallsProved, ProvedStep DEF PgxInv
    <3>. QED
      BY <2>2, <3>1, <3>2, CancelEffect DEF PgxInv
  <2>. QED
    BY <2>1, <2>2
<1>7. \A c \in req[r].ids : ctx'[c] = "done" \/ l \in disturbed'
  BY <1>0, <1>4, <1>6, PgxRequestFields
<1>. QED
  BY <1>1, <1>2, <1>3, <1>5, <1>6, <1>7, PgxRemovingInv

LEMMA PgxRemoveInv ==
  ASSUME PgxInv, NEW r \in Callers, PgxRemove(r)
  PROVE  PgxInv'
<1>0. PgxTypeOK /\ PgxSound(r)
  BY DEF PgxInv
<1>1. /\ req[r].op = "delete" /\ req[r].pc = "remove"
      /\ UNCHANGED <<tables, tx, ghosts, disturbed, refused>>
      /\ Sched!DropCancel(r) \/ Sched!Forget(r)
  BY DEF PgxRemove, Remove, At, pgxGhosts
<1>2. PICK l \in Links : l = req[r].link /\ l = caller[r].link
  BY <1>0, <1>1 DEF PgxSound, PgxStages, Calling
<1>3. PICK to \in {"commit", "remove"} :
        /\ Goto(r, to)
        /\ to = IF caller'[r].pc = "idle" THEN "commit" ELSE "remove"
  BY DEF PgxRemove, Remove
<1>4. /\ UNCHANGED <<ctx, linkOf, monitor>>
      /\ \A q \in Others(r) : caller'[q] = caller[q]
      /\ \A k \in Links : k # l => cancelFuncs'[k] = cancelFuncs[k]
      /\ IF to = "commit" THEN caller'[r] = Sched!CallerIdle
           ELSE caller'[r].pc \in {"drop"} \cup Sched!Kinds /\ caller'[r].link = l
  BY <1>1, <1>2, <1>3, DropEffect DEF PgxInv
<1>5. Wired'
  BY <1>1, CallsProved, ProvedStep DEF PgxInv
<1>6. \A c \in req[r].ids : ctx'[c] = "done" \/ l \in disturbed'
  BY <1>0, <1>1, <1>2, <1>4 DEF PgxSound, PgxDeletes
<1>7. disturbed' \subseteq Links
  BY <1>0, <1>1 DEF PgxTypeOK
<1>. QED
  BY <1>1, <1>2, <1>3, <1>4, <1>5, <1>6, <1>7, PgxRemovingInv

-----------------------------------------------------------------------------
(* Monitors, the restart, and the invariant. *)

LEMMA PgxQuietInv ==
  ASSUME PgxInv, Quiet, UNCHANGED pgxGhosts, Wired'
  PROVE  PgxInv'
<1>1. UNCHANGED <<rows, chats, RowIds, req, tx, parted, disturbed, refused, caller, cancelFuncs, linkOf>>
  BY DEF Quiet, tables, ghosts, pgxGhosts, RowIds
<1>2. PgxTypeOK'
  BY <1>1 DEF PgxInv, PgxTypeOK, Wired
<1>3. PgxKept
  <2>1. \A c \in Contexts : ctx'[c] \in {"unused", "live", "done"}
    BY <1>2 DEF PgxTypeOK, Sched!TypeOK
  <2>. QED
    BY <1>1, <2>1 DEF Quiet, PgxKept
<1>4. ASSUME NEW q \in Callers PROVE PgxSound(q)'
  <2>1. PgxSound(q) /\ req[q].ids \subseteq Contexts
    BY PgxRequestFields DEF PgxInv
  <2>2. req[q].op = "add" => \A c \in req[q].ids :
           /\ \A p \in Others(q) : req[p].op = "add" \/ req[q].pc = "write" => c \notin req[p].ids
           /\ \A w \in rows : w.id = c => c \in RowIds
    BY <2>1 DEF PgxSound, PgxAdds, RowIds
  <2>3. PgxSpares(q)
    BY <1>1, <2>1, <2>2 DEF Quiet, PgxSpares
  <2>. QED
    BY <1>3, <2>1, <2>3, PgxSoundKept DEF PgxInv
<1>5. Locks'
  BY <1>1 DEF PgxInv, Locks, Inserting, Deleting, Others, RowIds
<1>6. PgxTable'
  BY <1>1 DEF PgxInv, PgxTable, PgxFiled
<1>7. PgxLiveIsTracked'
  BY <1>1 DEF PgxInv, PgxLiveIsTracked, Sched!Running, Quiet
<1>. QED
  BY <1>2, <1>4, <1>5, <1>6, <1>7 DEF PgxInv

LEMMA IdleSound ==
  ASSUME NEW r \in Callers, req[r] = ReqIdle, tx[r] = "none", caller[r] = Sched!CallerIdle
  PROVE  PgxSound(r)
<1>1. PgxStages(r) /\ Calling(r)
  BY DEF PgxStages, Calling, ReqIdle
<1>2. PgxAdds(r) /\ PgxDeletes(r)
  BY DEF PgxAdds, PgxDeletes, ReqIdle
<1>. QED
  BY <1>1, <1>2 DEF PgxSound

LEMMA IdleSoundNext ==
  ASSUME NEW r \in Callers, req'[r] = ReqIdle, tx'[r] = "none", caller'[r] = Sched!CallerIdle
  PROVE  PgxSound(r)'
<1>1. PgxStages(r)' /\ Calling(r)'
  BY DEF PgxStages, Calling, ReqIdle
<1>2. PgxAdds(r)' /\ PgxDeletes(r)'
  BY DEF PgxAdds, PgxDeletes, ReqIdle
<1>. QED
  BY <1>1, <1>2 DEF PgxSound

LEMMA PgxRestartInv ==
  ASSUME PgxInv, PgxRestart
  PROVE  PgxInv'
<1>0. PgxTypeOK
  BY DEF PgxInv
<1>1. Wired' /\ Sched!TypeOK'
  BY RestartWired DEF PgxInv, Wired, PgxRestart
<1>2. /\ req' = [r \in Callers |-> ReqIdle] /\ tx' = [r \in Callers |-> "none"]
      /\ caller' = [r \in Callers |-> Sched!CallerIdle] /\ parted' = parted \cup RowIds
      /\ UNCHANGED <<rows, chats, linkOf, disturbed, refused, RowIds>>
      /\ \A c \in Contexts : ctx'[c] # "live"
  BY DEF PgxRestart, pgxGhosts, Restart, tables, RowIds
<1>3. PgxTypeOK'
  <2>1. ReqIdle \in PgxReqStates
    BY DEF ReqIdle, PgxReqStates
  <2>2. RowIds \subseteq Contexts
    BY <1>0 DEF RowIds, PgxTypeOK
  <2>. QED
    BY <1>0, <1>1, <1>2, <2>1, <2>2 DEF PgxTypeOK
<1>4. \A r \in Callers : PgxSound(r)'
  BY <1>2, IdleSoundNext
<1>5. Locks'
  <2>1. \A q \in Callers : Deleting(q)' = {} /\ \A l : ~Inserting(q, l)'
    BY <1>2 DEF Deleting, Inserting
  <2>. QED
    BY <2>1 DEF Locks, Others
<1>6. PgxTable'
  BY <1>2 DEF PgxInv, PgxTable, PgxFiled, RowIds
<1>7. PgxLiveIsTracked'
  BY <1>2 DEF PgxLiveIsTracked
<1>. QED
  BY <1>1, <1>3, <1>4, <1>5, <1>6, <1>7 DEF PgxInv

LEMMA PgxStepInv == PgxInv /\ [PgxNext]_pgxVars => PgxInv'
<1>. SUFFICES ASSUME PgxInv, [PgxNext]_pgxVars PROVE PgxInv'
  OBVIOUS
<1>1. ASSUME NEW r \in Callers, PgxCall(r) PROVE PgxInv'
  BY <1>1, PgxFileInv, PgxStartInv, PgxUnfileInv, PgxRemoveInv DEF PgxCall
<1>2. CASE PgxSchedulerStep
  <2>1. SchedulerStep /\ UNCHANGED pgxGhosts
    BY <1>2 DEF PgxSchedulerStep
  <2>2. Quiet
    BY <2>1, SchedulerStepQuiet DEF PgxInv, Wired
  <2>3. Wired'
    BY <2>1, MonitorsProved, ProvedStep DEF PgxInv
  <2>. QED
    BY <2>1, <2>2, <2>3, PgxQuietInv
<1>3. CASE UNCHANGED pgxVars
  <2>1. Wired' /\ Quiet /\ UNCHANGED pgxGhosts
    BY <1>3, WiredSame DEF PgxInv, pgxVars, vars, sched, Quiet
  <2>. QED
    BY <2>1, PgxQuietInv
<1>. QED
  BY <1>1, <1>2, <1>3, PgxBeginInv, PgxReadInv, PgxWriteInv, PgxFailInv, PgxFinishInv,
     PgxDropInv, PgxRestartInv
  DEF PgxNext

LEMMA PgxInitInv == PgxInit => PgxInv
<1>. SUFFICES ASSUME PgxInit PROVE PgxInv
  OBVIOUS
<1>1. /\ Sched!Init /\ rows = {} /\ chats = {} /\ parted = {} /\ disturbed = {} /\ refused = {}
      /\ req = [r \in Callers |-> ReqIdle] /\ tx = [r \in Callers |-> "none"]
  BY DEF PgxInit, Init
<1>2. Wired
  BY InitInv DEF PgxInit, Inv
<1>3. PgxTypeOK
  <2>1. ReqIdle \in PgxReqStates
    BY DEF ReqIdle, PgxReqStates
  <2>. QED
    BY <1>1, <1>2, <2>1 DEF PgxTypeOK, Wired
<1>4. \A r \in Callers : PgxSound(r)
  BY <1>1, IdleSound DEF Sched!Init
<1>5. Locks
  BY <1>1 DEF Locks, Inserting, Deleting, Others
<1>6. PgxTable /\ PgxLiveIsTracked
  BY <1>1 DEF PgxTable, PgxLiveIsTracked, Sched!Init, Sched!Running, Sched!MonitorNew
<1>. QED
  BY <1>2, <1>3, <1>4, <1>5, <1>6 DEF PgxInv

LEMMA PgxAlwaysInv == PgxSpec => []PgxInv
BY PgxInitInv, PgxStepInv, PTL DEF PgxSpec

-----------------------------------------------------------------------------
(* The properties. *)

\* Every variable keeps its type over the "orm" repositories too: a request and
\* its transaction are at places the code can be in, a closed one included.
THEOREM PgxTypeCorrect == PgxSpec => []PgxTypeOK
<1>1. PgxInv => PgxTypeOK
  BY DEF PgxInv
<1>. QED
  BY <1>1, PgxAlwaysInv, PTL

\* Two commits for one request leave no stray monitor behind: one that polls has
\* a row or a request, or else a deleted chat, a lost connection or a row
\* deleted before the scheduler was told of it explains it.
THEOREM PgxLiveTracked == PgxSpec => []PgxLiveIsTracked
<1>1. PgxInv => PgxLiveIsTracked
  BY DEF PgxInv
<1>. QED
  BY <1>1, PgxAlwaysInv, PTL

\* RemoveLink finds the entry of every committed row, with the same exceptions
\* or while a request that added or deletes the row is under way.
THEOREM PgxTrackedFiled == PgxSpec => []PgxTrackedIsFiled
<1>1. PgxInv => PgxTrackedIsFiled
  BY DEF PgxInv, PgxTable, PgxFiled, PgxTrackedIsFiled
<1>. QED
  BY <1>1, PgxAlwaysInv, PTL

-----------------------------------------------------------------------------
(* The refinement of Subscriptions. *)

\* A request adds for a chat that is registered, and deletes rows of its chat.
PgxOfChats(r) ==
    LET q == req[r] IN
    /\ q.op = "add" /\ q.ids # {} => q.user \in chats
    /\ q.op \in {"delete", "deleteChat"} =>
         \A c \in q.ids : \A w \in rows : w.id = c => w.chat = q.user

\* A new row is one that an add request has written.
RowsWritten ==
    \A w \in rows' :
        w \in rows \/ \E p \in Callers : /\ req[p].op = "add" /\ req[p].pc = "write"
                                         /\ w.id \in req[p].ids

\* Request q takes no further rows.
Narrows(q) ==
    /\ req'[q].ids \subseteq req[q].ids
    /\ req'[q].ids # {} => req'[q].op = req[q].op /\ req'[q].user = req[q].user

LEMMA NarrowsOfChats ==
  ASSUME PgxInv, chats \subseteq chats', RowsWritten, NEW q \in Callers, PgxOfChats(q), Narrows(q)
  PROVE  PgxOfChats(q)'
<1>1. req'[q].op = "add" /\ req'[q].ids # {} => req'[q].user \in chats'
  BY DEF Narrows, PgxOfChats
<1>2. ASSUME req'[q].op \in {"delete", "deleteChat"}, NEW c \in req'[q].ids, NEW w \in rows', w.id = c
      PROVE  w.chat = req'[q].user
  <2>1. c \in req[q].ids /\ req[q].op = req'[q].op /\ req[q].user = req'[q].user
    BY <1>2 DEF Narrows
  <2>2. w \in rows
    <3>1. ASSUME NEW p \in Callers, req[p].op = "add", req[p].pc = "write", w.id \in req[p].ids
          PROVE  FALSE
      <4>1. q \in Others(p)
        BY <1>2, <2>1, <3>1 DEF Others
      <4>. QED
        BY <1>2, <2>1, <3>1, <4>1 DEF PgxInv, PgxSound, PgxAdds
    <3>. QED
      BY <3>1 DEF RowsWritten
  <2>. QED
    BY <1>2, <2>1, <2>2 DEF PgxOfChats
<1>. QED
  BY <1>1, <1>2 DEF PgxOfChats

\* What only moves request r, or ends it, narrows every request.
LEMMA GotoNarrows ==
  ASSUME PgxTypeOK, NEW r \in Callers, NEW p, Goto(r, p)
  PROVE  \A q \in Callers : Narrows(q)
BY PgxRequestFields DEF Goto, Narrows, PgxTypeOK, PgxReqStates

LEMMA EndNarrows ==
  ASSUME PgxTypeOK, NEW r \in Callers, End(r)
  PROVE  \A q \in Callers : Narrows(q)
BY DEF End, Narrows, PgxTypeOK, ReqIdle

\* The steps that find or make the rows of a request.
Finds(r) == FindLink(r) \/ ScanRows(r) \/ AddLink(r)

LEMMA StepNarrows ==
  ASSUME PgxTypeOK, NEW r \in Callers, ~Finds(r),
         \/ \E op \in Ops, u \in Users, l \in Links : PgxBegin(r, op, u, l)
         \/ PgxRead(r) \/ PgxWrite(r) \/ PgxFail(r) \/ PgxCall(r) \/ PgxFinish(r)
         \/ PgxDropConnection(r)
  PROVE  \A q \in Callers : Narrows(q)
<1>0. req' = req => \A q \in Callers : Narrows(q)
  BY DEF Narrows
<1>1. ASSUME NEW op \in Ops, NEW u \in Users, NEW l \in Links, PgxBegin(r, op, u, l)
      PROVE  \A q \in Callers : Narrows(q)
  BY <1>1 DEF PgxBegin, Begin, Narrows, PgxTypeOK, PgxReqStates, ReqIdle
<1>2. CASE PgxRead(r)
  <2>1. \E p : Goto(r, p)
    BY <1>2 DEF PgxRead, GetAllLinks, GetLinkIDByURL, Finds, ReadLinks, CheckChat, Fail, StatementFails
  <2>. QED
    BY <2>1, GotoNarrows
<1>3. CASE PgxWrite(r)
  <2>1. CASE DeleteAllLinks(r)
    BY <2>1 DEF DeleteAllLinks, Narrows, PgxTypeOK, PgxReqStates
  <2>2. CASE ~DeleteAllLinks(r)
    <3>1. req' = req \/ \E p : Goto(r, p)
      BY <1>3, <2>2 DEF PgxWrite, Finds, RegisterChat, DeleteLink, DeleteRow, Fail
    <3>. QED
      BY <1>0, <3>1, GotoNarrows
  <2>. QED
    BY <2>1, <2>2
<1>4. CASE PgxFail(r)
  <2>1. \E p : Goto(r, p)
    BY <1>4 DEF PgxFail, GetAllLinksFails, AddLinkFails, StatementRefused, Fail
  <2>. QED
    BY <2>1, GotoNarrows
<1>5. CASE PgxCall(r)
  <2>1. End(r) \/ \E p : Goto(r, p)
    BY <1>5 DEF PgxCall, PgxFile, File, PgxStart, EndRefused, PgxUnfile, Unfile, PgxRemove, Remove
  <2>. QED
    BY <2>1, GotoNarrows, EndNarrows
<1>6. CASE PgxFinish(r)
  <2>1. End(r) \/ \E p : Goto(r, p)
    BY <1>6 DEF PgxFinish, OwnCommit, OwnCommitFails, DoRollback, DoCommit, DoCommitClosed,
                DoCommitFails, EndRefused
  <2>. QED
    BY <2>1, GotoNarrows, EndNarrows
<1>7. CASE PgxDropConnection(r)
  BY <1>0, <1>7 DEF PgxDropConnection
<1>. QED
  BY <1>1, <1>2, <1>3, <1>4, <1>5, <1>6, <1>7

\* Only a commit changes the tables.
LEMMA TablesStay ==
  ASSUME NEW r \in Callers,
         \/ \E op \in Ops, u \in Users, l \in Links : PgxBegin(r, op, u, l)
         \/ PgxRead(r) \/ PgxWrite(r) \/ PgxFail(r) \/ PgxCall(r) \/ PgxFinish(r)
         \/ PgxDropConnection(r)
  PROVE  UNCHANGED tables \/ (tx[r] = "wrote" /\ Applied(r))
<1>1. CASE \E op \in Ops, u \in Users, l \in Links : PgxBegin(r, op, u, l)
  BY <1>1 DEF PgxBegin, Begin
<1>2. CASE PgxRead(r)
  BY <1>2 DEF PgxRead, GetAllLinks, GetLinkIDByURL, ReadLinks, FindLink, ScanRows, CheckChat, StatementFails
<1>3. CASE PgxWrite(r)
  BY <1>3 DEF PgxWrite, AddLink, RegisterChat, DeleteLink, DeleteRow, DeleteAllLinks
<1>4. CASE PgxFail(r)
  BY <1>4 DEF PgxFail, GetAllLinksFails, AddLinkFails, StatementRefused
<1>5. CASE PgxCall(r)
  BY <1>5 DEF PgxCall, PgxFile, File, PgxStart, PgxUnfile, Unfile, PgxRemove, Remove
<1>6. CASE PgxFinish(r)
  BY <1>6 DEF PgxFinish, OwnCommit, OwnCommitFails, DoRollback, DoCommit, DoCommitClosed, DoCommitFails
<1>7. CASE PgxDropConnection(r)
  BY <1>7 DEF PgxDropConnection
<1>. QED
  BY <1>1, <1>2, <1>3, <1>4, <1>5, <1>6, <1>7

\* A request that finds rows finds those of its chat; one that writes a row has
\* seen its chat registered.
LEMMA FindsOfChats ==
  ASSUME PgxInv, \A q \in Callers : PgxOfChats(q), NEW r \in Callers, Finds(r), UNCHANGED tables
  PROVE  \A q \in Callers : PgxOfChats(q)'
<1>0. PgxTypeOK /\ UNCHANGED <<chats, rows>>
  BY DEF PgxInv, tables
<1>1. ASSUME NEW q \in Others(r) PROVE PgxOfChats(q)'
  <2>1. req'[q] = req[q]
    BY <1>0 DEF Finds, FindLink, ScanRows, AddLink, Goto, Fail, Others, PgxTypeOK
  <2>. QED
    BY <1>0, <2>1 DEF PgxOfChats, Others
<1>2. PgxOfChats(r)'
  <2>1. ASSUME NEW S, S \subseteq {w.id : w \in RowsOf(req[r].user)},
               req'[r].ids = S, req'[r].user = req[r].user, req'[r].op \in {"delete", "deleteChat"}
        PROVE  PgxOfChats(r)'
    <3>1. ASSUME NEW c \in S, NEW w \in rows, w.id = c PROVE w.chat = req[r].user
      <4>1. PICK v \in rows : v.id = c /\ v.chat = req[r].user
        BY <2>1 DEF RowsOf
      <4>. QED
        BY <3>1, <4>1 DEF PgxInv, PgxTable
    <3>. QED
      BY <1>0, <2>1, <3>1 DEF PgxOfChats
  <2>2. \A q \in Callers : Narrows(q) => PgxOfChats(q)'
    BY <1>0, NarrowsOfChats DEF RowsWritten
  <2>3. CASE FindLink(r)
    <3>1. CASE Fail(r)
      BY <1>0, <2>2, <3>1, GotoNarrows DEF Fail
    <3>2. CASE ~Fail(r)
      <4>. DEFINE S == {w.id : w \in {v \in RowsOf(req[r].user) : v.url = req[r].link}}
      <4>1. req' = [req EXCEPT ![r].ids = S, ![r].pc = "write"] /\ req[r].op = "delete"
        BY <2>3, <3>2 DEF FindLink, At
      <4>2. req'[r].ids = S /\ req'[r].user = req[r].user /\ req'[r].op = "delete"
        BY <1>0, <4>1 DEF PgxTypeOK, PgxReqStates
      <4>3. S \subseteq {w.id : w \in RowsOf(req[r].user)}
        OBVIOUS
      <4>. HIDE DEF S
      <4>. QED
        BY <2>1, <4>2, <4>3
    <3>. QED
      BY <3>1, <3>2
  <2>4. CASE ScanRows(r)
    <3>. DEFINE S == {w.id : w \in RowsOf(req[r].user)}
    <3>1. req' = [req EXCEPT ![r].ids = S, ![r].pc = "write"] /\ req[r].op = "deleteChat"
      BY <2>4 DEF ScanRows, At
    <3>2. req'[r].ids = S /\ req'[r].user = req[r].user /\ req'[r].op = "deleteChat"
      BY <1>0, <3>1 DEF PgxTypeOK, PgxReqStates
    <3>. QED
      BY <2>1, <3>2
  <2>5. CASE AddLink(r)
    <3>1. CASE Goto(r, "rollback")
      BY <1>0, <2>2, <3>1, GotoNarrows
    <3>2. CASE ~Goto(r, "rollback")
      <4>1. PICK c \in Contexts : req' = [req EXCEPT ![r].ids = {c}]
        BY <2>5, <3>2 DEF AddLink
      <4>2. req'[r].user = req[r].user /\ req'[r].op = "add" /\ req[r].user \in chats
        BY <1>0, <2>5, <3>2, <4>1 DEF AddLink, At, PgxTypeOK, PgxReqStates
      <4>. QED
        BY <1>0, <4>2 DEF PgxOfChats
    <3>. QED
      BY <3>1, <3>2
  <2>. QED
    BY <2>3, <2>4, <2>5 DEF Finds
<1>. QED
  BY <1>1, <1>2 DEF Others

LEMMA PgxOfChatsStep ==
  PgxInv /\ (\A q \in Callers : PgxOfChats(q)) /\ [PgxNext]_pgxVars
     => (\A q \in Callers : PgxOfChats(q)')
<1>. SUFFICES ASSUME PgxInv, \A q \in Callers : PgxOfChats(q), [PgxNext]_pgxVars
              PROVE  \A q \in Callers : PgxOfChats(q)'
  OBVIOUS
<1>0. PgxTypeOK
  BY DEF PgxInv
<1>1. ASSUME UNCHANGED tables, \A q \in Callers : Narrows(q) PROVE \A q \in Callers : PgxOfChats(q)'
  BY <1>1, NarrowsOfChats DEF RowsWritten, tables
<1>2. ASSUME NEW r \in Callers,
             \/ \E op \in Ops, u \in Users, l \in Links : PgxBegin(r, op, u, l)
             \/ PgxRead(r) \/ PgxWrite(r) \/ PgxFail(r) \/ PgxCall(r) \/ PgxFinish(r)
             \/ PgxDropConnection(r)
      PROVE  \A q \in Callers : PgxOfChats(q)'
  <2>1. CASE Finds(r)
    <3>1. UNCHANGED tables
      BY <2>1 DEF Finds, FindLink, ScanRows, AddLink
    <3>. QED
      BY <2>1, <3>1, FindsOfChats
  <2>2. CASE ~Finds(r)
    <3>1. \A q \in Callers : Narrows(q)
      BY <1>0, <1>2, <2>2, StepNarrows
    <3>2. CASE UNCHANGED tables
      BY <1>1, <3>1, <3>2
    <3>3. CASE tx[r] = "wrote" /\ Applied(r)
      <4>1. chats \subseteq chats' /\ RowsWritten
        BY <3>3, PgxAppliedRows DEF RowsWritten
      <4>. QED
        BY <3>1, <4>1, NarrowsOfChats
    <3>. QED
      BY <1>2, <3>2, <3>3, TablesStay
  <2>. QED
    BY <2>1, <2>2
<1>3. CASE PgxSchedulerStep \/ UNCHANGED pgxVars
  <2>1. UNCHANGED <<tables, req>>
    BY <1>3 DEF PgxSchedulerStep, SchedulerStep, pgxVars, vars
  <2>. QED
    BY <1>1, <2>1 DEF Narrows
<1>4. CASE PgxRestart
  <2>1. req' = [q \in Callers |-> ReqIdle] /\ UNCHANGED tables
    BY <1>4 DEF PgxRestart, Restart
  <2>2. \A q \in Callers : Narrows(q)
    BY <2>1 DEF Narrows, ReqIdle
  <2>. QED
    BY <1>1, <2>1, <2>2
<1>. QED
  BY <1>2, <1>3, <1>4 DEF PgxNext

LEMMA PgxAppliedPromise ==
  ASSUME PgxInv, PgxInv', NEW r \in Callers, PgxOfChats(r), tx[r] = "wrote", Applied(r)
  PROVE  [Promise!Next]_Promise!vars
<1>0. /\ PgxSound(r) /\ req[r].op \in Ops /\ UniqueUrls /\ UniqueUrls'
      /\ PgxTypeOK
  BY PgxAppliedRows DEF PgxInv, PgxTable, UniqueUrls
<1>1. PICK u \in Users : u = req[r].user
  BY <1>0 DEF PgxSound, PgxStages
<1>2. CASE req[r].op = "register"
  <2>1. req[r].ids = {}
    BY <1>0, <1>2 DEF PgxSound, PgxStages
  <2>2. rows' = rows /\ chats' = chats \cup {u}
    BY <1>1, <1>2, <2>1 DEF Applied
  <2>. QED
    BY <2>2, RegisterPromise
<1>3. CASE req[r].op = "add"
  <2>1. PICK c \in Contexts, l \in Links :
          /\ req[r].ids = {c} /\ \A w \in rows : w.url # l
          /\ rows' = rows \cup {[id |-> c, chat |-> u, url |-> l]}
    BY <1>1, <1>3, PgxAppliedRows
  <2>2. u \in chats /\ chats' = chats
    BY <1>1, <1>3, <2>1 DEF PgxOfChats, Applied
  <2>. QED
    BY <1>0, <2>1, <2>2, TrackPromise
<1>4. CASE req[r].op \in {"delete", "deleteChat"}
  <2>1. rows' = {w \in rows : w.id \notin req[r].ids} /\ chats' = chats
    BY <1>4 DEF Applied
  <2>2. \A w \in rows : w.url \in Links /\ (w.id \in req[r].ids => w.chat = u)
    BY <1>0, <1>1, <1>4 DEF PgxOfChats, PgxTypeOK
  <2>. QED
    BY <1>0, <2>1, <2>2, UntrackPromise
<1>. QED
  BY <1>0, <1>2, <1>3, <1>4 DEF Ops

LEMMA PgxPromiseStep ==
  PgxInv /\ PgxInv' /\ (\A r \in Callers : PgxOfChats(r)) /\ [PgxNext]_pgxVars
     => [Promise!Next]_Promise!vars
<1>. SUFFICES ASSUME PgxInv, PgxInv', \A r \in Callers : PgxOfChats(r), [PgxNext]_pgxVars
              PROVE  [Promise!Next]_Promise!vars
  OBVIOUS
<1>1. ASSUME UNCHANGED tables PROVE UNCHANGED Promise!vars
  BY <1>1 DEF tables, Promise!vars, Owner
<1>2. PgxSchedulerStep \/ PgxRestart \/ UNCHANGED pgxVars => UNCHANGED tables
  BY DEF PgxSchedulerStep, SchedulerStep, PgxRestart, Restart, pgxVars, vars
<1>. QED
  BY <1>1, <1>2, TablesStay, PgxAppliedPromise DEF PgxNext

\* The repositories that commit by themselves implement Subscriptions too: a
\* request answered with an error may have changed the tables, and yet no link
\* is taken over from another chat, tracked by a chat that is not registered, or
\* removed for one.
THEOREM PgxSubscriptionsImplemented == PgxSpec => ImplementsSubscriptions
<1>. DEFINE OfChatsInv == \A r \in Callers : PgxOfChats(r)
<1>1. PgxInit => OfChatsInv /\ Promise!Init
  <2>. SUFFICES ASSUME PgxInit PROVE OfChatsInv /\ Promise!Init
    OBVIOUS
  <2>1. rows = {} /\ chats = {} /\ req = [r \in Callers |-> ReqIdle]
    BY DEF PgxInit, Init
  <2>2. \A l \in Links : Owner(l) = None
    BY <2>1 DEF Owner
  <2>. QED
    BY <2>1, <2>2 DEF Promise!Init, PgxOfChats, ReqIdle
<1>2. PgxInv /\ OfChatsInv /\ [PgxNext]_pgxVars => OfChatsInv'
  BY PgxOfChatsStep
<1>3. PgxInv /\ PgxInv' /\ OfChatsInv /\ [PgxNext]_pgxVars => [Promise!Next]_Promise!vars
  BY PgxPromiseStep
<1>. HIDE DEF OfChatsInv
<1>. QED
  BY <1>1, <1>2, <1>3, PgxAlwaysInv, PTL DEF PgxSpec, Promise!Spec, ImplementsSubscriptions
=============================================================================
