-------------------------- MODULE HttpConnectionMgr --------------------------
(***************************************************************************)
(* nsHttpConnectionMgr (netwerk/protocol/http/src/nsHttpConnectionMgr.cpp) *)
(* and what it relies on in nsHttpConnection and nsHttpTransaction.  The   *)
(* main thread only posts messages; the socket thread handles them one at  *)
(* a time, and in between is told by sockets how connections fare.  All of *)
(* mgr belongs to the socket thread, so a handler is one action.           *)
(*                                                                         *)
(* mActiveConns is a set: the order of its array decides nothing.  An      *)
(* entry of mCT is there for every host: one whose lists are all empty     *)
(* does what a missing one does.  CanReuse of a connection is one flag,    *)
(* keepAlive, which the passing of time or its server may clear.           *)
(***************************************************************************)
EXTENDS Integers, Sequences, FiniteSets, FiniteSetsExt, SequencesExt

CONSTANTS Hosts,        \* connection infos
          Transactions,
          Conns,        \* bound: connections that exist at a time
          Requests,     \* what transactions are made for: a host, a set caps of
                        \* "keep-alive" and "sticky", a priority
          Priorities,   \* others it may be given; the smaller, the more urgent
          Limits,       \* values of [conns, perHost, persist]: mMaxConns,
                        \* mMaxConnsPerHost, mMaxPersistConnsPerHost
          InitLimits,
          MaxRestarts,  \* MaxRequestAttempts() - 1
          MaxPosted,    \* bound: messages under way when the main thread posts
          MaxEvents,    \* bound: calls of CancelTransaction, RescheduleTransaction,
                        \* UpdateParam and PruneDeadConnections, and all that does
                        \* not go to plan: a restart, a failure of Activate, a
                        \* connection that dies, hangs or is kept otherwise than asked
          MayFail       \* conn->Activate may fail, once

LimitsType == [conns : Nat \ {0}, perHost : Nat \ {0}, persist : Nat \ {0}]

ASSUME HttpAssumption ==
  /\ Transactions \subseteq Nat \ {0} /\ Conns \subseteq Nat \ {0} /\ Priorities \subseteq Int
  /\ Requests \subseteq [host : Hosts, caps : SUBSET {"keep-alive", "sticky"}, priority : Priorities]
  /\ Limits \union {InitLimits} \subseteq LimitsType
  /\ {MaxRestarts, MaxEvents} \subseteq Nat /\ MayFail \in BOOLEAN /\ IsFiniteSet(Conns)

None == 0

VARIABLES
  mgr,        \* mPendingQ, mActiveConns, mIdleConns, mNumActiveConns, mNumIdleConns
  max,        \* the limits in force
  mSocketThreadTarget, \* is it set?
  msgs,       \* nsConnEvents on their way to the socket thread
  main,       \* where the main thread is in Shutdown
  trans,      \* per transaction: its fields, and how it stands
  carried,    \* per connection: its mTransaction
  keepAlive,  \* the connections that stay open
  events,     \* bound: how many of them there were
  failed      \* history: Activate failed

vars == <<mgr, max, mSocketThreadTarget, msgs, main, trans, carried, keepAlive, events, failed>>

Unused == [state |-> "unused", host |-> "", caps |-> {}, priority |-> 0, conn |-> None,
           restarts |-> 0]
NoConns == [mPendingQ |-> [h \in Hosts |-> <<>>], mActiveConns |-> [h \in Hosts |-> {}],
            mIdleConns |-> [h \in Hosts |-> <<>>], mNumActiveConns |-> 0, mNumIdleConns |-> 0]

Init ==
  /\ mgr = NoConns /\ max = InitLimits /\ mSocketThreadTarget = TRUE
  /\ msgs = <<>> /\ main = "run"
  /\ trans = [t \in Transactions |-> Unused]
  /\ carried = [c \in Conns |-> None] /\ keepAlive = {}
  /\ events = 0 /\ failed = FALSE

-----------------------------------------------------------------------------
(* PostEvent: refused once Shutdown has cleared mSocketThreadTarget.        *)
Post(posted) == msgs' = IF mSocketThreadTarget THEN msgs \o posted ELSE msgs

Message(type) == msgs # <<>> /\ Head(msgs).type = type
Received == msgs' = Tail(msgs)

Closed(t) == trans[t].state \in {"ok", "error"}
Keeps(t) == "keep-alive" \in trans[t].caps

Idle(m) == UNION {ToSet(m.mIdleConns[h]) : h \in Hosts}
Active(m) == UNION {m.mActiveConns[h] : h \in Hosts}

\* A connection that no list and no transaction refers to is destroyed.
Destroyed(m) ==
  {c \in Conns \ (Idle(m) \union Active(m)) :
     carried[c] = None /\ \A t \in Transactions : trans[t].conn # c}

\* Mutation: a transaction goes behind less urgent ones.
InsertAtEnd(q, t) == Append(q, t)

InsertTransactionSorted(q, t) ==
  LET behind == {i \in DOMAIN q : trans'[t].priority >= trans'[q[i]].priority}
  IN InsertAt(q, IF behind = {} THEN 1 ELSE Max(behind) + 1, t)

AtActiveConnectionLimit(m, h, keep) ==
  \/ m.mNumActiveConns >= max.conns
  \/ Cardinality(m.mActiveConns[h]) >= max.perHost
  \/ keep /\ Cardinality(m.mActiveConns[h] \intersect keepAlive) >= max.persist

\* Mutation: the connection about to be made is not counted.
RoomForgettingNew(m) == m.mNumIdleConns + m.mNumActiveConns <= max.conns

Room(m) == m.mNumIdleConns + m.mNumActiveConns + 1 <= max.conns

\* Mutation: the count goes down by one however many are dropped.
DropCountingOne(m, h, n) ==
  [m EXCEPT !.mIdleConns[h] = SubSeq(@, n + 1, Len(@)), !.mNumIdleConns = @ - 1]

DropOldest(m, h, n) ==
  [m EXCEPT !.mIdleConns[h] = SubSeq(@, n + 1, Len(@)), !.mNumIdleConns = @ - n]

\* PurgeOneIdleConnectionCB: the oldest of whichever entry comes first.
Purged(m) ==
  IF Room(m) \/ Idle(m) = {} THEN {m}
  ELSE {DropOldest(m, h, 1) : h \in {g \in Hosts : m.mIdleConns[g] # <<>>}}

(* GetConnection below the limit: the oldest idle connection that can be    *)
(* reused, those before it being closed, or a new one.                      *)
GetConnection(m, h, keep) ==
  LET q == m.mIdleConns[h]
      good == {i \in DOMAIN q : keep /\ q[i] \in keepAlive}
      stale == DropOldest(m, h, IF keep THEN Len(q) ELSE 0)
  IN IF good # {} THEN {[mgr |-> DropOldest(m, h, Min(good)), conn |-> q[Min(good)]]}
     ELSE {[mgr |-> p, conn |-> CHOOSE c \in Destroyed(p) : TRUE] :
             p \in {x \in Purged(stale) : Destroyed(x) # {}}}

(* DispatchTransaction: if Activate fails the connection is destroyed.      *)
Activated(m, h, c) ==
  [m EXCEPT !.mActiveConns[h] = @ \union {c}, !.mNumActiveConns = @ + 1]

DispatchTransaction(m, h, t, c) ==
  /\ mgr' = Activated(m, h, c)
  /\ carried' = [carried EXCEPT ![c] = t]
  /\ keepAlive' = (keepAlive \intersect (Idle(m) \union Active(m)))
                    \union (IF Keeps(t) THEN {c} ELSE {})

Lost(m) == keepAlive' = keepAlive \intersect (Idle(m) \union Active(m))

ActivateFails(m) ==
  /\ MayFail /\ ~failed /\ failed' = TRUE
  /\ events < MaxEvents /\ events' = events + 1
  /\ mgr' = m /\ Lost(m) /\ UNCHANGED carried

\* Mutation: a sticky transaction that ended badly keeps its connection too.
StickyKeeps(t, state) == "sticky" \in trans[t].caps

(* nsHttpTransaction::Close.  A sticky transaction that ended well keeps    *)
(* its handle; otherwise the handle goes, and its destructor reclaims.      *)
KeepsHandle(t, state) == state = "ok" /\ "sticky" \in trans[t].caps

Close(t, state) ==
  trans' = [trans EXCEPT ![t].state = state,
              ![t].conn = IF KeepsHandle(t, state) THEN @ ELSE None]

Reclaim(c) == <<[type |-> "reclaim", conn |-> c]>>
New(t, p) == <<[type |-> "new", trans |-> t, priority |-> p]>>
HostOf(c) == CHOOSE h \in Hosts : c \in mgr.mActiveConns[h]

-----------------------------------------------------------------------------
(* The main thread.                                                         *)
AddTransaction(t, req) ==
  /\ main = "run" /\ trans[t].state = "unused" /\ Len(msgs) < MaxPosted
  /\ trans' = [trans EXCEPT ![t].state = "accepted", ![t].host = req.host, ![t].caps = req.caps]
  /\ Post(New(t, req.priority))
  /\ UNCHANGED <<mgr, max, mSocketThreadTarget, main, carried, keepAlive, events, failed>>

\* nsHttpChannel::DoAuthRetry: another transaction on the connection of one
\* that is done.
DoAuthRetry(t, u, p) ==
  /\ trans[t].state = "ok" /\ trans[t].conn # None /\ trans[u].state = "unused"
  /\ main = "run"
  /\ trans' = [trans EXCEPT ![t].conn = None,
                 ![u] = [trans[t] EXCEPT !.state = "accepted", !.priority = 0, !.restarts = 0]]
  /\ Post(New(u, p))
  /\ UNCHANGED <<mgr, max, mSocketThreadTarget, main, carried, keepAlive, events, failed>>

\* The channel lets go of a transaction that is done.
ReleaseTransaction(t) ==
  /\ trans[t].state = "ok" /\ trans[t].conn # None
  /\ trans' = [trans EXCEPT ![t].conn = None] /\ Post(Reclaim(trans[t].conn))
  /\ UNCHANGED <<mgr, max, mSocketThreadTarget, main, carried, keepAlive, events, failed>>

\* CancelTransaction, RescheduleTransaction, UpdateParam, PruneDeadConnections.
Call(message) ==
  /\ main = "run" /\ Len(msgs) < MaxPosted /\ events < MaxEvents /\ events' = events + 1
  /\ Post(<<message>>)
  /\ UNCHANGED <<mgr, max, mSocketThreadTarget, main, trans, carried, keepAlive, failed>>

\* Mutation: the message comes after mSocketThreadTarget is cleared, which
\* refuses it.
AnnounceTooLate == UNCHANGED msgs

AnnounceShutdown == Post(<<[type |-> "shutdown"]>>)

\* Shutdown holds mMonitor from the post to the wait.
Shutdown ==
  /\ main = "run" /\ main' = "waiting"
  /\ AnnounceShutdown /\ mSocketThreadTarget' = FALSE
  /\ UNCHANGED <<mgr, max, trans, carried, keepAlive, events, failed>>

-----------------------------------------------------------------------------
(* ProcessNewTransaction.                                                   *)
Arrived(t) ==
  Message("new") /\ Head(msgs).trans = t /\ UNCHANGED <<max, mSocketThreadTarget, main>>

Prioritized(t) == [trans EXCEPT ![t].priority = Head(msgs).priority]

\* Mutation: a transaction that was canceled meanwhile is dispatched.
NeverDropped(t) == FALSE

DroppedAsCanceled(t) == Closed(t)

NewDropped(t) ==
  /\ Arrived(t) /\ DroppedAsCanceled(t)
  /\ trans' = Prioritized(t) /\ Received
  /\ UNCHANGED <<mgr, carried, keepAlive, events, failed>>

\* A connection that the transaction brought along is used again: it leaves
\* the active list and returns to it.
NewSticky(t) ==
  LET c == trans[t].conn
      h == trans[t].host
      rest == [mgr EXCEPT !.mActiveConns[h] = @ \ {c}, !.mNumActiveConns = @ - 1]
  IN /\ Arrived(t) /\ ~DroppedAsCanceled(t) /\ c # None /\ c \in mgr.mActiveConns[h]
     /\ Received
     /\ \/ /\ DispatchTransaction(rest, h, t, c) /\ trans' = Prioritized(t)
           /\ UNCHANGED <<events, failed>>
        \/ ActivateFails(rest) /\ Close(t, "error")

NewTransaction(t) ==
  LET h == trans[t].host
  IN /\ Arrived(t) /\ ~DroppedAsCanceled(t) /\ trans[t].conn = None /\ Received
     /\ IF AtActiveConnectionLimit(mgr, h, Keeps(t))
        THEN /\ trans' = Prioritized(t)
             /\ mgr' = [mgr EXCEPT !.mPendingQ[h] = InsertTransactionSorted(@, t)]
             /\ UNCHANGED <<carried, keepAlive, events, failed>>
        ELSE \E r \in GetConnection(mgr, h, Keeps(t)) :
               \/ /\ DispatchTransaction(r.mgr, h, t, r.conn)
                  /\ trans' = [Prioritized(t) EXCEPT ![t].conn = r.conn]
                  /\ UNCHANGED <<events, failed>>
               \/ ActivateFails(r.mgr) /\ Close(t, "error")

-----------------------------------------------------------------------------
(* ProcessPendingQForEntry: the first transaction that the limits let       *)
(* through; if its dispatch fails it is put back.                           *)
Dispatchable(m, h) ==
  {i \in DOMAIN m.mPendingQ[h] : ~AtActiveConnectionLimit(m, h, Keeps(m.mPendingQ[h][i]))}

ProcessPendingQForEntry(m, h) ==
  LET i == Min(Dispatchable(m, h))
      t == m.mPendingQ[h][i]
  IN \E r \in GetConnection(m, h, Keeps(t)) :
       \/ /\ DispatchTransaction([r.mgr EXCEPT !.mPendingQ[h] = RemoveAt(@, i)], h, t, r.conn)
          /\ trans' = [trans EXCEPT ![t].conn = r.conn] /\ UNCHANGED <<events, failed>>
       \/ ActivateFails(r.mgr) /\ UNCHANGED trans

\* Mutation: only the entry at hand is looked at.
OnlyOwnEntry(m, h) == {h}

Others(m, h) == IF Dispatchable(m, h) # {} THEN {h} ELSE Hosts

\* OnMsgProcessPendingQ: one transaction of h, else one of any other entry.
OnMsgProcessPendingQ(m, h) ==
  LET ready == {g \in Others(m, h) : Dispatchable(m, g) # {}}
  IN IF ready = {} THEN mgr' = m /\ Lost(m) /\ UNCHANGED <<trans, carried, events, failed>>
     ELSE \E g \in ready : ProcessPendingQForEntry(m, g)

OnMsgProcess ==
  /\ Message("process") /\ Received /\ OnMsgProcessPendingQ(mgr, Head(msgs).host)
  /\ UNCHANGED <<max, mSocketThreadTarget, main>>

\* Mutation: the reclaimed connection stays in the active count.
StillActive(m, h, c) == [m EXCEPT !.mActiveConns[h] = @ \ {c}]

Deactivated(m, h, c) ==
  [m EXCEPT !.mActiveConns[h] = @ \ {c}, !.mNumActiveConns = @ - 1]

\* The idle time may have run out, and the socket may be found dead.
OnMsgReclaimConnection ==
  LET c == Head(msgs).conn
      h == HostOf(c)
      m == Deactivated(mgr, h, c)
  IN /\ Message("reclaim") /\ Received
     /\ \/ OnMsgProcessPendingQ(m, h)
        \/ /\ c \in keepAlive
           /\ OnMsgProcessPendingQ([m EXCEPT !.mIdleConns[h] = Append(@, c),
                                             !.mNumIdleConns = @ + 1], h)
     /\ UNCHANGED <<max, mSocketThreadTarget, main>>

-----------------------------------------------------------------------------
(* The other messages.                                                      *)
OnMsgReschedTransaction ==
  LET t == Head(msgs).trans
      h == trans[t].host
  IN /\ Message("resched") /\ Received /\ trans' = Prioritized(t)
     /\ mgr' = IF Contains(mgr.mPendingQ[h], t)
               THEN [mgr EXCEPT !.mPendingQ[h] = InsertTransactionSorted(RemoveFirst(@, t), t)]
               ELSE mgr
     /\ UNCHANGED <<max, mSocketThreadTarget, main, carried, keepAlive, events, failed>>

Unpended(m, t) == [m EXCEPT !.mPendingQ[trans[t].host] = RemoveFirst(@, t)]

\* A transaction on a connection is closed with the connection.
OnMsgCancelTransaction ==
  LET t == Head(msgs).trans
      c == trans[t].conn
  IN /\ Message("cancel")
     /\ IF Closed(t) THEN Received /\ UNCHANGED <<mgr, trans, carried, keepAlive>>
        ELSE /\ Close(t, "error")
             /\ IF c = None
                THEN Received /\ mgr' = Unpended(mgr, t) /\ UNCHANGED <<carried, keepAlive>>
                ELSE /\ msgs' = Tail(msgs) \o IF mSocketThreadTarget THEN Reclaim(c) ELSE <<>>
                     /\ carried' = [carried EXCEPT ![c] = None]
                     /\ keepAlive' = keepAlive \ {c} /\ UNCHANGED mgr
     /\ UNCHANGED <<max, mSocketThreadTarget, main, events, failed>>

OnMsgUpdateParam ==
  /\ Message("param") /\ Received /\ max' = Head(msgs).limits
  /\ UNCHANGED <<mgr, mSocketThreadTarget, main, trans, carried, keepAlive, events, failed>>

\* The connections of q that can be reused, in their order.
Reusable(q) ==
  LET live == {i \in DOMAIN q : q[i] \in keepAlive}
  IN [k \in 1 .. Cardinality(live) |->
        q[CHOOSE i \in live : Cardinality({j \in live : j <= i}) = k]]

OnMsgPruneDeadConnections ==
  /\ Message("prune") /\ Received
  /\ mgr' = [mgr EXCEPT !.mIdleConns = [h \in Hosts |-> Reusable(mgr.mIdleConns[h])],
                        !.mNumIdleConns = @ - Cardinality(Idle(mgr) \ keepAlive)]
  /\ UNCHANGED <<max, mSocketThreadTarget, main, trans, carried, keepAlive, events, failed>>

PendingAnywhere == UNION {ToSet(mgr.mPendingQ[h]) : h \in Hosts}

\* Mutation: the pending transactions are dropped without a word.
NobodyTold == {}

TellPending == PendingAnywhere

\* ShutdownPassCB: everything is closed; the sockets of the active
\* connections report that to their transactions later.
OnMsgShutdown ==
  /\ Message("shutdown") /\ Received
  /\ mgr' = NoConns /\ keepAlive' = {} /\ main' = "down"
  /\ trans' = [t \in Transactions |-> IF t \in TellPending THEN [trans[t] EXCEPT !.state = "error"]
                                      ELSE trans[t]]
  /\ UNCHANGED <<max, mSocketThreadTarget, carried, events, failed>>

-----------------------------------------------------------------------------
(* What sockets report.                                                     *)
\* nsHttpConnection::CloseTransaction: the response is complete, or the
\* connection is lost.
CloseTransaction(c, state) ==
  LET t == carried[c]
  IN /\ t # None /\ (state = "ok" => c \in Active(mgr)) /\ Close(t, state)
     /\ Post(IF KeepsHandle(t, state) THEN <<>> ELSE Reclaim(c))
     /\ carried' = [carried EXCEPT ![c] = None]
     /\ keepAlive' = IF state = "ok" THEN keepAlive ELSE keepAlive \ {c}
     /\ UNCHANGED <<mgr, max, mSocketThreadTarget, main, events, failed>>

\* The same, before any data came: nsHttpTransaction::Restart lets go of the
\* connection and posts the transaction again.
Restart(c) ==
  LET t == carried[c]
  IN /\ t # None /\ trans[t].restarts < MaxRestarts /\ mSocketThreadTarget
     /\ events < MaxEvents /\ events' = events + 1
     /\ trans' = [trans EXCEPT ![t].conn = None, ![t].restarts = @ + 1]
     /\ Post(Reclaim(c) \o New(t, trans[t].priority))
     /\ carried' = [carried EXCEPT ![c] = None] /\ keepAlive' \in {keepAlive, keepAlive \ {c}}
     /\ UNCHANGED <<mgr, max, mSocketThreadTarget, main, failed>>

\* OnHeadersAvailable: whatever the transaction asked for, the server closes
\* the connection or keeps it open.
OnHeadersAvailable(c) ==
  /\ carried[c] # None /\ c \in Active(mgr)
  /\ keepAlive' = IF c \in keepAlive THEN keepAlive \ {c} ELSE keepAlive \union {c}
  /\ events < MaxEvents /\ events' = events + 1
  /\ UNCHANGED <<mgr, max, mSocketThreadTarget, msgs, main, trans, carried, failed>>

\* OnSocketReadable after mMaxHangTime: the connection is given up on, to
\* make way for a new one.
MaxHangTimeExceeded(c) ==
  /\ carried[c] # None /\ c \in Active(mgr) \intersect keepAlive
  /\ events < MaxEvents /\ events' = events + 1
  /\ keepAlive' = keepAlive \ {c} /\ Post(<<[type |-> "process", host |-> HostOf(c)]>>)
  /\ UNCHANGED <<mgr, max, mSocketThreadTarget, main, trans, carried, failed>>

\* An idle connection is closed by its server, or has been idle too long.
IdleDies(c) ==
  /\ c \in Idle(mgr) \intersect keepAlive /\ keepAlive' = keepAlive \ {c}
  /\ events < MaxEvents /\ events' = events + 1
  /\ UNCHANGED <<mgr, max, mSocketThreadTarget, msgs, main, trans, carried, failed>>

-----------------------------------------------------------------------------
(* Transactions are interchangeable: they are used in order. *)
NextUnused(t) == \A u \in Transactions : u < t => trans[u].state # "unused"

MainStep ==
  \/ \E t \in Transactions, p \in Priorities :
       \/ \E u \in Transactions : NextUnused(u) /\ DoAuthRetry(t, u, p)
       \/ trans[t].state = "accepted" /\ Call([type |-> "resched", trans |-> t, priority |-> p])
  \/ \E t \in Transactions :
       \/ \E req \in Requests : NextUnused(t) /\ AddTransaction(t, req)
       \/ trans[t].state = "accepted" /\ Call([type |-> "cancel", trans |-> t])
  \/ \E limits \in Limits : Call([type |-> "param", limits |-> limits])
  \/ Call([type |-> "prune"])
  \/ Shutdown

HandleMessage ==
  \/ \E t \in Transactions : NewDropped(t) \/ NewSticky(t) \/ NewTransaction(t)
  \/ OnMsgProcess \/ OnMsgReclaimConnection \/ OnMsgReschedTransaction
  \/ OnMsgCancelTransaction \/ OnMsgUpdateParam \/ OnMsgPruneDeadConnections \/ OnMsgShutdown

SocketDone(c) == Restart(c) \/ \E state \in {"ok", "error"} : CloseTransaction(c, state)

Next ==
  \/ MainStep \/ HandleMessage
  \/ \E t \in Transactions : ReleaseTransaction(t)
  \/ \E c \in Conns :
       SocketDone(c) \/ OnHeadersAvailable(c) \/ MaxHangTimeExceeded(c) \/ IdleDies(c)

(* The socket thread is scheduled; the channel of a transaction that is     *)
(* done lets go of it.  That a server answers or its connection fails is an *)
(* assumption about the network: the transport sets no timeout of its own.  *)
Fairness ==
  /\ WF_vars(HandleMessage)
  /\ \A c \in Conns : WF_vars(SocketDone(c))
  /\ \A t \in Transactions : WF_vars(ReleaseTransaction(t))

Spec == Init /\ [][Next]_vars /\ Fairness

-----------------------------------------------------------------------------
TypeOK ==
  /\ mgr.mPendingQ \in [Hosts -> Seq(Transactions)]
  /\ mgr.mActiveConns \in [Hosts -> SUBSET Conns] /\ mgr.mIdleConns \in [Hosts -> Seq(Conns)]
  /\ {mgr.mNumActiveConns, mgr.mNumIdleConns} \subseteq 0 .. Cardinality(Conns)
  /\ max \in Limits \union {InitLimits} /\ {mSocketThreadTarget, failed} \subseteq BOOLEAN
  /\ main \in {"run", "waiting", "down"} /\ events \in 0 .. MaxEvents
  /\ trans \in [Transactions ->
       [state : {"unused", "accepted", "ok", "error"}, host : Hosts \union {""},
        caps : SUBSET {"keep-alive", "sticky"}, priority : Priorities \union {0},
        conn : Conns \union {None}, restarts : 0 .. MaxRestarts]]
  /\ carried \in [Conns -> Transactions \union {None}] /\ keepAlive \subseteq Conns

(* The counters that the limits are tested against, kept by hand at every   *)
(* move of a connection, agree with the lists, and no connection is listed  *)
(* twice, in one entry or in two.                                           *)
CountsExact ==
  /\ mgr.mNumActiveConns = Cardinality(Active(mgr)) /\ mgr.mNumIdleConns = Cardinality(Idle(mgr))
  /\ Active(mgr) \intersect Idle(mgr) = {}
  /\ \A h \in Hosts : IsInjective(mgr.mIdleConns[h])
  /\ \A g, h \in Hosts : g # h =>
       /\ mgr.mActiveConns[g] \intersect mgr.mActiveConns[h] = {}
       /\ ToSet(mgr.mIdleConns[g]) \intersect ToSet(mgr.mIdleConns[h]) = {}

(* However connections are reused, purged and reclaimed, no step takes the  *)
(* open ones of all hosts, active and idle, past mMaxConns.                 *)
Total == mgr.mNumActiveConns + mgr.mNumIdleConns
NeverGrowsPastMax == [][Total' > Total => Total' <= max.conns]_vars

Arriving(t) == \E i \in DOMAIN msgs : msgs[i].type = "new" /\ msgs[i].trans = t

(* Until Shutdown, an active connection carries a transaction, or belongs   *)
(* to one that is done and may be retried, or is about to be reclaimed:     *)
(* none is left in the count for good.                                      *)
ActiveAccounted ==
  mSocketThreadTarget => \A c \in Active(mgr) :
    \/ carried[c] # None /\ trans[carried[c]].conn = c
    \/ \E t \in Transactions : trans[t].conn = c /\ (trans[t].state = "ok" \/ Arriving(t))
    \/ \E i \in DOMAIN msgs : msgs[i].type = "reclaim" /\ msgs[i].conn = c

(* A transaction that is not closed is in one place only: in a message, on  *)
(* the pending queue of its host or on a connection; one that was closed,   *)
(* by whatever race of cancel, restart and answer, is on neither.           *)
Places(t) ==
  Cardinality({h \in Hosts : Contains(mgr.mPendingQ[h], t)})
    + Cardinality({c \in Conns : carried[c] = t})
TransactionInOnePlace ==
  \A t \in Transactions :
    IF trans[t].state = "accepted" THEN Places(t) = IF Arriving(t) THEN 0 ELSE 1
    ELSE Places(t) = 0

(* mPendingQ stays sorted, whatever is added, rescheduled and put back.     *)
PendingSorted ==
  \A h \in Hosts : \A i, j \in DOMAIN mgr.mPendingQ[h] :
    i < j => trans[mgr.mPendingQ[h][i]].priority <= trans[mgr.mPendingQ[h][j]].priority

(* The books of the manager.                                                *)
ManagerInv == TypeOK /\ CountsExact /\ ActiveAccounted /\ PendingSorted

(* A transaction waits for a connection only while some connection of some  *)
(* host is active, whose reclaiming will look at the queues: limits are     *)
(* global and per host, and each reclaiming dispatches one transaction.     *)
NothingStranded ==
  (PendingAnywhere # {} /\ ~failed) => Active(mgr) # {}

(* Every transaction that was accepted is closed in the end, also those     *)
(* that Shutdown finds waiting; and Shutdown returns.                       *)
EventuallyClosed ==
  /\ \A t \in Transactions : (trans[t].state = "accepted") ~> (Closed(t) \/ failed)
  /\ (main = "waiting") ~> (main = "down")
=============================================================================
