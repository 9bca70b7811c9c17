---------------------------- MODULE HostResolver ----------------------------
(***************************************************************************)
(* nsHostResolver (src/netwerk/dns/src/nsHostResolver.cpp): a cache of     *)
(* reference counted host records, a pool of at most MAX_THREADS lookup    *)
(* threads, and callbacks that are told when a record has been looked up.  *)
(* Every action is one hold of mLock, or one callback made outside it.     *)
(***************************************************************************)
EXTENDS Integers, Sequences, FiniteSets, SequencesExt

CONSTANTS Hosts,       \* host names
          Literals,    \* the ones that are IP address literals
          Callbacks,   \* nsResolveHostCallback objects, each used once
          Threads,     \* lookup threads; there are MAX_THREADS of them
          MaxRecs,     \* bound: host records that exist at a time
          MaxCache,    \* mMaxCacheEntries
          Bypass,      \* values of the flag RES_BYPASS_CACHE that callers use
          MayFail      \* PR_CreateThread may fail

Main == "main"                      \* the thread that calls Shutdown

ASSUME ResolverAssumption ==
  /\ Literals \subseteq Hosts /\ Bypass \subseteq BOOLEAN /\ MayFail \in BOOLEAN
  /\ Callbacks \subseteq Nat /\ MaxRecs \in Nat /\ MaxCache \in Nat
  /\ IsFiniteSet(Threads) /\ Threads # {}
  /\ Main \notin Threads /\ "" \notin Hosts      \* names of their own, see below

Workers == Threads \union {Main}
Rec == 1 .. MaxRecs
None == 0                           \* no record

VARIABLES
  mDB,         \* records in the hash table
  key,         \* per record: its host, and the flag its entry was hashed with
  refc, callbacks, resolving,
  hasResult,   \* per record: addr_info or addr is set
  mPendingQ, mEvictionQ, mEvictionQSize,
  mHaveIdleThread, mThreadCount, mShutdown,
  notified,    \* the idle thread was notified and has not run yet
  pc,          \* where each thread is
  work,        \* the record each thread owns
  cbs, status, \* per thread: callbacks it is still to call, and with what
  pendingQ, evictionQ,  \* Shutdown's own lists
  asked,       \* per callback: the key it was given to ResolveHost with
  hand,        \* per callback: the record it is called with after ResolveHost
               \* or DetachCallback left the lock
  owed,        \* history: accepted and not yet called
  calls,       \* history: how often each callback was called
  failed       \* history: PR_CreateThread failed

db      == <<mDB, key>>
records == <<callbacks, resolving, hasResult>>
queues  == <<mPendingQ, mEvictionQ, mEvictionQSize>>
pool    == <<mHaveIdleThread, mThreadCount, notified>>
thread  == <<pc, work, cbs, status>>
local   == <<pendingQ, evictionQ>>
caller  == <<asked, hand>>
hist    == <<owed, calls, failed>>
vars == <<db, refc, records, queues, pool, mShutdown, thread, local, caller, hist>>

Bit(p) == IF p THEN 1 ELSE 0
NoKey == [host |-> "", bypass |-> FALSE]
Key == [host : Hosts, bypass : BOOLEAN] \union {NoKey}
Idle == {t \in Threads : pc[t] = "none"}  \* threads not created

TypeOK ==
  /\ mDB \subseteq Rec /\ key \in [Rec -> Key]
  /\ refc \in [Rec -> Nat] /\ resolving \in [Rec -> BOOLEAN] /\ hasResult \in [Rec -> BOOLEAN]
  /\ \A r \in Rec : ToSet(callbacks[r]) \subseteq Callbacks
  /\ ToSet(mPendingQ) \union ToSet(mEvictionQ) \subseteq Rec
  /\ mEvictionQSize \in 0 .. MaxCache /\ mThreadCount \in 0 .. Cardinality(Threads)
  /\ {mHaveIdleThread, mShutdown, notified, failed} \subseteq BOOLEAN
  /\ pc \in [Workers -> {"none", "get", "idle", "lookup", "calling", "run", "abort", "down"}]
  /\ work \in [Workers -> Rec \union {None}] /\ status \in [Workers -> BOOLEAN]
  /\ \A t \in Workers : ToSet(cbs[t]) \subseteq Callbacks
  /\ ToSet(pendingQ) \union ToSet(evictionQ) \subseteq Rec
  /\ asked \in [Callbacks -> Key]
  /\ hand \in [Callbacks -> Rec \union {None}]
  /\ owed \subseteq Callbacks /\ calls \in [Callbacks -> Nat]

Init ==
  /\ mDB = {} /\ key = [r \in Rec |-> NoKey]
  /\ refc = [r \in Rec |-> 0] /\ callbacks = [r \in Rec |-> <<>>]
  /\ resolving = [r \in Rec |-> FALSE] /\ hasResult = [r \in Rec |-> FALSE]
  /\ mPendingQ = <<>> /\ mEvictionQ = <<>> /\ mEvictionQSize = 0
  /\ mHaveIdleThread = FALSE /\ mThreadCount = 0 /\ mShutdown = FALSE /\ notified = FALSE
  /\ pc = [t \in Workers |-> IF t = Main THEN "run" ELSE "none"]
  /\ work = [t \in Workers |-> None] /\ cbs = [t \in Workers |-> <<>>]
  /\ status = [t \in Workers |-> FALSE]
  /\ pendingQ = <<>> /\ evictionQ = <<>>
  /\ asked = [c \in Callbacks |-> NoKey] /\ hand = [c \in Callbacks |-> None]
  /\ owed = {} /\ calls = [c \in Callbacks |-> 0] /\ failed = FALSE

-----------------------------------------------------------------------------
(* HostDB_MatchEntry compares a record's filtered flags with the flags of   *)
(* the key as the caller gave them: a key with RES_BYPASS_CACHE matches no  *)
(* entry.  HostDB_HashKey hashes the flags too: an entry added with such a  *)
(* key is not where a key without the flag is looked for.                   *)
Found(h, b) == {r \in mDB : ~b /\ key[r] = [host |-> h, bypass |-> b]}

(* The last release destroys a record. *)
SetRefs(rc) ==
  /\ refc' = rc
  /\ key' = [r \in Rec |-> IF rc[r] = 0 THEN NoKey ELSE key[r]]
  /\ hasResult' = [r \in Rec |-> rc[r] # 0 /\ hasResult[r]]

(* PL_DHASH_ADD: the entry of the key, or a new one with a record of its    *)
(* own (HostDB_InitEntry, nsHostRecord::Create).                            *)
Entry(h, b) == IF Found(h, b) # {} THEN CHOOSE r \in Found(h, b) : TRUE
               ELSE CHOOSE r \in Rec : refc[r] = 0

AddEntry(r, h, b) ==
  /\ Found(h, b) # {} \/ \E x \in Rec : refc[x] = 0
  /\ r = Entry(h, b)
  /\ mDB' = mDB \union {r}
  /\ key' = [key EXCEPT ![r] = [host |-> h, bypass |-> b]]

Ask(c, h, b) ==
  /\ asked[c] = NoKey /\ ~mShutdown
  /\ asked' = [asked EXCEPT ![c] = [host |-> h, bypass |-> b]]

(* ResolveHost has an answer at once: a cached record that has not expired, *)
(* or an address literal; the callback is called after the lock is left.    *)
ResolveNow(c, h, b, r) ==
  /\ Ask(c, h, b) /\ AddEntry(r, h, b)
  /\ h \in Literals \/ (~b /\ hasResult[r])
  /\ hasResult' = [hasResult EXCEPT ![r] = TRUE]
  /\ refc' = [refc EXCEPT ![r] = @ + 1 + Bit(r \notin mDB)]
  /\ hand' = [hand EXCEPT ![c] = r] /\ owed' = owed \union {c}
  /\ UNCHANGED <<callbacks, resolving, queues, pool, mShutdown, thread, local,
                 calls, failed>>

(* ResolveHost joins a lookup that is under way. *)
ResolveJoin(c, h, b, r) ==
  /\ Ask(c, h, b) /\ h \notin Literals /\ r \in Found(h, b) /\ resolving[r]
  /\ callbacks' = [callbacks EXCEPT ![r] = Append(@, c)] /\ owed' = owed \union {c}
  /\ UNCHANGED <<db, refc, resolving, hasResult, queues, pool, mShutdown, thread, local,
                 hand, calls, failed>>

(* The pool's part of IssueLookup: wake the idle thread, or create one; if  *)
(* that fails the record stays on mPendingQ.                                *)
WakeOrCreate(ok) ==
  IF mHaveIdleThread
  THEN ok /\ notified' = TRUE /\ UNCHANGED <<mThreadCount, pc, failed>>
  ELSE IF mThreadCount < Cardinality(Threads)
  THEN /\ ok \/ MayFail
       /\ failed' = (failed \/ ~ok) /\ UNCHANGED notified
       /\ mThreadCount' = mThreadCount + Bit(ok)
       /\ IF ok THEN pc' = [pc EXCEPT ![CHOOSE t \in Idle : TRUE] = "get"] ELSE UNCHANGED pc
  ELSE ok /\ UNCHANGED <<notified, mThreadCount, pc, failed>>

(* IssueLookup: "if r is on mEvictionQ, then we can just move the owning    *)
(* reference over to mPendingQ".                                            *)
\* Mutation: a reference is always added, as if the record were on no queue.
NoOwnerYet(r) == FALSE

OnEvictionQ(r) == r \in ToSet(mEvictionQ)

\* Mutation: the record leaves the eviction queue and is still counted.
SizeAnyway(r) == mEvictionQSize

SizeWithout(r) == mEvictionQSize - Bit(OnEvictionQ(r))

(* ResolveHost starts a lookup.                                             *)
ResolveLookup(c, h, b, r, ok) ==
  /\ Ask(c, h, b) /\ h \notin Literals /\ AddEntry(r, h, b)
  /\ r \in mDB => ~resolving[r]
  /\ refc' = [refc EXCEPT ![r] = @ + Bit(~OnEvictionQ(r)) + Bit(r \notin mDB)]
  /\ mEvictionQ' = RemoveFirst(mEvictionQ, r)
  /\ mEvictionQSize' = SizeWithout(r)
  /\ mPendingQ' = Append(mPendingQ, r)
  /\ resolving' = [resolving EXCEPT ![r] = TRUE] /\ UNCHANGED hasResult
  /\ WakeOrCreate(ok)
  /\ callbacks' = [callbacks EXCEPT ![r] = IF ok THEN Append(@, c) ELSE @]
  /\ owed' = IF ok THEN owed \union {c} ELSE owed
  /\ UNCHANGED <<mHaveIdleThread, mShutdown, work, cbs, status, local, hand, calls>>

(* DetachCallback finds the callback on the record of its key. *)
DetachCallback(c, r) ==
  /\ asked[c] # NoKey /\ r \in Found(asked[c].host, asked[c].bypass)
  /\ c \in ToSet(callbacks[r])
  /\ callbacks' = [callbacks EXCEPT ![r] = RemoveFirst(@, c)]
  /\ hand' = [hand EXCEPT ![c] = r] /\ refc' = [refc EXCEPT ![r] = @ + 1]
  /\ UNCHANGED <<db, resolving, hasResult, queues, pool, mShutdown, thread, local,
                 asked, hist>>

(* ResolveHost or DetachCallback calls the callback after it left the lock. *)
(* The status of a detached callback is its caller's own failure.           *)
CallFromHand(c) ==
  /\ hand[c] # None
  /\ calls' = [calls EXCEPT ![c] = @ + 1] /\ owed' = owed \ {c}
  /\ hand' = [hand EXCEPT ![c] = None] /\ SetRefs([refc EXCEPT ![hand[c]] = @ - 1])
  /\ UNCHANGED <<mDB, callbacks, resolving, queues, pool, mShutdown, thread, local, asked, failed>>

-----------------------------------------------------------------------------
(* GetHostToLookup, from its loop's test on, when mHaveIdleThread is idle:  *)
(* become the idle thread, take a record, or exit.                          *)
\* Mutation: the queue is not looked at before the wait.
MayIdleAnyway(idle) == ~idle /\ ~mShutdown

MayIdle(idle) == mPendingQ = <<>> /\ ~idle /\ ~mShutdown

\* Mutation: a thread that ends is not counted off.
NeverCountedOff == mThreadCount

CountAfterExit == mThreadCount - 1

GetHostToLookup(t, idle, expired) ==
  /\ IF MayIdle(idle) /\ ~expired
     THEN /\ pc' = [pc EXCEPT ![t] = "idle"] /\ mHaveIdleThread' = TRUE
          /\ UNCHANGED <<mPendingQ, work, mThreadCount>>
     ELSE /\ mHaveIdleThread' = idle
          /\ IF mPendingQ # <<>>
             THEN /\ work' = [work EXCEPT ![t] = Head(mPendingQ)] /\ mPendingQ' = Tail(mPendingQ)
                  /\ pc' = [pc EXCEPT ![t] = "lookup"] /\ UNCHANGED mThreadCount
             ELSE /\ pc' = [pc EXCEPT ![t] = "none"] /\ mThreadCount' = CountAfterExit
                  /\ UNCHANGED <<work, mPendingQ>>
  /\ UNCHANGED <<db, refc, records, mEvictionQ, mEvictionQSize, mShutdown, cbs, status,
                 local, caller, hist>>

GetHost(t) ==
  /\ pc[t] = "get" /\ GetHostToLookup(t, mHaveIdleThread, FALSE) /\ UNCHANGED notified

(* PR_WaitCondVar returns: notified, or after the timeout. *)
WakeIdle(t, expired) ==
  /\ pc[t] = "idle" /\ (notified \/ expired)
  /\ GetHostToLookup(t, FALSE, expired) /\ notified' = FALSE

-----------------------------------------------------------------------------
(* OnLookupComplete under the lock: take the callbacks; a result goes to    *)
(* the eviction queue, which beyond mMaxCacheEntries gives up its head, and *)
(* with it the database entry found under the head's own key.               *)
\* Mutation: one entry more than the cache may hold.
OverByOne == mEvictionQSize > MaxCache

Over == mEvictionQSize >= MaxCache

\* Mutation: the record keeps the callbacks that are about to be called.
LeaveCallbacks(r) == callbacks

TakeCallbacks(r) == [callbacks EXCEPT ![r] = <<>>]

\* Mutation: a lookup that failed is not ended.
OnlyIfOk(r, ok) == [resolving EXCEPT ![r] = ~ok]

EndResolving(r, ok) == [resolving EXCEPT ![r] = FALSE]

Complete(t, r, ok) ==
  LET keep == ok /\ ~mShutdown
      q == Append(mEvictionQ, r)
      over == keep /\ Over
      gone == IF over THEN Found(key[Head(q)].host, FALSE) ELSE {}
  IN /\ cbs' = [cbs EXCEPT ![t] = callbacks[r]]
     /\ callbacks' = TakeCallbacks(r)
     /\ status' = [status EXCEPT ![t] = ok]
     /\ work' = [work EXCEPT ![t] = r] /\ pc' = [pc EXCEPT ![t] = "calling"]
     /\ resolving' = EndResolving(r, ok)
     /\ mEvictionQ' = IF over THEN Tail(q) ELSE IF keep THEN q ELSE mEvictionQ
     /\ mEvictionQSize' = mEvictionQSize + Bit(keep /\ ~over)
     /\ mDB' = mDB \ gone
     /\ LET rc == [x \in Rec |-> refc[x] + Bit(keep /\ x = r) - Bit(over /\ x = Head(q))
                                          - Bit(x \in gone)]
        IN /\ refc' = rc
           /\ key' = [x \in Rec |-> IF rc[x] = 0 THEN NoKey ELSE key[x]]
           /\ hasResult' = [x \in Rec |-> rc[x] # 0 /\ IF x = r THEN ok ELSE hasResult[x]]
     /\ UNCHANGED <<mPendingQ, pool, mShutdown, caller, hist>>

LookupDone(t, ok) ==
  /\ pc[t] = "lookup" /\ Complete(t, work[t], ok) /\ UNCHANGED local

(* The callbacks, one by one, outside the lock ... *)
CallNext(t) ==
  /\ pc[t] = "calling" /\ cbs[t] # <<>>
  /\ cbs' = [cbs EXCEPT ![t] = Tail(@)]
  /\ calls' = [calls EXCEPT ![Head(cbs[t])] = @ + 1] /\ owed' = owed \ {Head(cbs[t])}
  /\ UNCHANGED <<db, refc, records, queues, pool, mShutdown, pc, work, status, local,
                 caller, failed>>

(* ... then the reference that the queue had passed on is released. *)
CallsDone(t) ==
  /\ pc[t] = "calling" /\ cbs[t] = <<>>
  /\ SetRefs([refc EXCEPT ![work[t]] = @ - 1])
  /\ work' = [work EXCEPT ![t] = None] /\ status' = [status EXCEPT ![t] = FALSE]
  /\ pc' = [pc EXCEPT ![t] = IF t = Main THEN "abort" ELSE "get"]
  /\ UNCHANGED <<mDB, callbacks, resolving, queues, pool, mShutdown, cbs, local, caller, hist>>

-----------------------------------------------------------------------------
(* Shutdown under the lock: both queues become local, the idle thread is    *)
(* notified, the database is emptied.                                       *)
\* Mutation: what is pending is dropped.
NoPending == <<>>

LocalPending == mPendingQ

(* "wake the thread that is waiting", if there is one. *)
\* Mutation: it is left to its timeout.
LeaveIdleThread == notified

NotifyIdleThread == notified \/ mHaveIdleThread

Shutdown ==
  /\ pc[Main] = "run" /\ mShutdown' = TRUE
  /\ pendingQ' = LocalPending /\ evictionQ' = mEvictionQ
  /\ mPendingQ' = <<>> /\ mEvictionQ' = <<>> /\ mEvictionQSize' = 0
  /\ notified' = NotifyIdleThread
  /\ mDB' = {} /\ SetRefs([r \in Rec |-> refc[r] - Bit(r \in mDB)])
  /\ pc' = [pc EXCEPT ![Main] = "abort"]
  /\ UNCHANGED <<callbacks, resolving, mHaveIdleThread, mThreadCount, work, cbs, status,
                 caller, hist>>

(* Then each pending lookup is completed with NS_ERROR_ABORT ... *)
Abort ==
  /\ pc[Main] = "abort" /\ pendingQ # <<>>
  /\ pendingQ' = Tail(pendingQ) /\ UNCHANGED evictionQ
  /\ Complete(Main, Head(pendingQ), FALSE)

(* ... and the eviction queue's references are released. *)
ReleaseEvicted ==
  /\ pc[Main] = "abort" /\ pendingQ = <<>>
  /\ SetRefs([r \in Rec |-> refc[r] - Bit(r \in ToSet(evictionQ))])
  /\ evictionQ' = <<>> /\ pc' = [pc EXCEPT ![Main] = "down"]
  /\ UNCHANGED <<mDB, callbacks, resolving, queues, pool, mShutdown, work, cbs, status, pendingQ,
                 caller, hist>>

-----------------------------------------------------------------------------
(* Callbacks are interchangeable: they are used in order. *)
Resolve(c) ==
  /\ \A d \in Callbacks : d < c => asked[d] # NoKey
  /\ \E h \in Hosts, b \in Bypass, r \in Rec :
       \/ ResolveNow(c, h, b, r) \/ ResolveJoin(c, h, b, r)
       \/ \E ok \in BOOLEAN : ResolveLookup(c, h, b, r, ok)

ThreadStep(t) ==
  \/ GetHost(t) \/ CallNext(t) \/ CallsDone(t)
  \/ WakeIdle(t, FALSE)
  \/ \E ok \in BOOLEAN : LookupDone(t, ok)

ShutdownStep == CallNext(Main) \/ CallsDone(Main) \/ Abort \/ ReleaseEvicted

Next ==
  \/ \E c \in Callbacks : Resolve(c) \/ CallFromHand(c) \/ \E r \in Rec : DetachCallback(c, r)
  \/ \E t \in Threads : ThreadStep(t) \/ WakeIdle(t, TRUE)
  \/ Shutdown \/ ShutdownStep

(* Every name service call returns and, while some lookup thread can run,   *)
(* one does; so it is for callers about to call back, and for Shutdown.     *)
(* That the idle thread's wait times out is not assumed: nothing may depend *)
(* on it.                                                                   *)
Fairness ==
  /\ WF_vars(\E t \in Threads : ThreadStep(t))
  /\ WF_vars(\E c \in Callbacks : CallFromHand(c))
  /\ WF_vars(ShutdownStep)

Spec == Init /\ [][Next]_vars /\ Fairness

-----------------------------------------------------------------------------
Occurs(r, s) == Bit(r \in ToSet(s))

(* The reference count of a record is the number of places that own one: the *)
(* database, a queue, a thread, a caller about to be called back.  So a      *)
(* record is neither freed in use nor leaked.                                *)
RefsExact ==
  \A r \in Rec :
    refc[r] = Bit(r \in mDB) + Occurs(r, mPendingQ) + Occurs(r, mEvictionQ)
              + Occurs(r, pendingQ) + Occurs(r, evictionQ)
              + Cardinality({t \in Workers : work[t] = r})
              + Cardinality({c \in Callbacks : hand[c] = r})

(* A callback that is owed its call is in exactly one place from which it    *)
(* will be called, every other callback is in none, and none is called twice.*)
CalledOnce ==
  \A c \in Callbacks :
    /\ Cardinality({r \in Rec : refc[r] > 0 /\ c \in ToSet(callbacks[r])})
       + Cardinality({t \in Workers : c \in ToSet(cbs[t])})
       + Bit(hand[c] # None) = Bit(c \in owed)
    /\ calls[c] + Bit(c \in owed) <= 1

(* nsHostRecord::resolving: "true if this record is being resolved, which    *)
(* means that it is either on the pending queue or owned by one of the       *)
(* worker threads".                                                          *)
ResolvingExact ==
  \A r \in Rec : refc[r] > 0 =>
    (resolving[r] <=> \/ r \in ToSet(mPendingQ) \union ToSet(pendingQ)
                      \/ \E t \in Threads : pc[t] = "lookup" /\ work[t] = r)

(* The sizes the code keeps by hand agree with what they count: the eviction *)
(* queue, the threads, the one idle thread.                                  *)
CountsExact ==
  /\ mEvictionQSize = Len(mEvictionQ)
  /\ mThreadCount = Cardinality(Threads \ Idle)
  /\ mHaveIdleThread <=> \E t \in Threads : pc[t] = "idle"
  /\ Cardinality({t \in Threads : pc[t] = "idle"}) <= 1

(* The books of the resolver.                                                *)
ResolverInv == TypeOK /\ RefsExact /\ ResolvingExact /\ CountsExact

(* A pending lookup always has a thread on its way to it: no notification    *)
(* and no decision to exit leaves it to the idle thread's timeout.           *)
LookupHasThread ==
  (mPendingQ # <<>> /\ ~failed) =>
     \E t \in Threads : pc[t] \in {"get", "lookup", "calling"} \/ (pc[t] = "idle" /\ notified)

(* Every callback that ResolveHost accepted is called, through lookups,      *)
(* evictions and Shutdown.                                                   *)
EventuallyCalled == \A c \in Callbacks : (c \in owed) ~> (c \notin owed \/ failed)

(* Shutdown lets every thread exit.                                          *)
ThreadsExit == mShutdown ~> (mThreadCount = 0 /\ pc[Main] = "down")
=============================================================================
