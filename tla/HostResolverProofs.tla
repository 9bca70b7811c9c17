-------------------------- MODULE HostResolverProofs --------------------------
(***************************************************************************)
(* For every number of names, callbacks, lookup threads, records and cache *)
(* entries, bypassing callers and failing thread creation included: a      *)
(* record's reference count is the number of its owners, every callback is *)
(* in at most one place and called once at most, and a pending lookup has  *)
(* a thread on its way to it.                                              *)
(***************************************************************************)
EXTENDS HostResolver, ListFacts, FiniteSetTheorems, TLAPS

PlacesOfPc == {"none", "get", "idle", "lookup", "calling", "run", "abort", "down"}

\* The thread t is inside the name service call for r.
Looking(t, r) == pc[t] = "lookup" /\ work[t] = r

Typed ==
    /\ mDB \subseteq Rec /\ key \in [Rec -> Key] /\ refc \in [Rec -> Int]
    /\ callbacks \in [Rec -> Seq(Callbacks)]
    /\ resolving \in [Rec -> BOOLEAN] /\ hasResult \in [Rec -> BOOLEAN]
    /\ mPendingQ \in Seq(Rec) /\ mEvictionQ \in Seq(Rec)
    /\ pendingQ \in Seq(Rec) /\ evictionQ \in Seq(Rec)
    /\ {mHaveIdleThread, mShutdown, notified, failed} \subseteq BOOLEAN
    /\ pc \in [Workers -> PlacesOfPc] /\ work \in [Workers -> Rec \cup {None}]
    /\ cbs \in [Workers -> Seq(Callbacks)] /\ status \in [Workers -> BOOLEAN]
    /\ asked \in [Callbacks -> Key] /\ hand \in [Callbacks -> Rec \cup {None}]
    /\ owed \subseteq Callbacks /\ calls \in [Callbacks -> Nat]

\* What each thread may be at, and with what.
ThreadsOK ==
    /\ \A t \in Threads : pc[t] \in {"none", "get", "idle", "lookup", "calling"}
    /\ pc[Main] \in {"run", "abort", "calling", "down"}
    /\ \A t \in Workers : work[t] # None <=> pc[t] \in {"lookup", "calling"}
    /\ \A t \in Workers : pc[t] # "calling" => cbs[t] = << >>
    /\ \A t, u \in Threads : pc[t] = "idle" /\ pc[u] = "idle" => t = u

\* The pool's counts.
PoolOK ==
    /\ mThreadCount = Cardinality(Threads \ Idle)
    /\ mHaveIdleThread <=> \E t \in Threads : pc[t] = "idle"
    /\ LookupHasThread

\* The queues and what they are when.
QueuesOK ==
    /\ Distinct(mPendingQ) /\ Distinct(mEvictionQ) /\ Distinct(pendingQ)
    /\ pc[Main] = "run" <=> ~ mShutdown
    /\ ~ mShutdown => pendingQ = << >> /\ evictionQ = << >>
    /\ mShutdown => mPendingQ = << >> /\ mEvictionQ = << >>

\* A record is pending, or looked up, in one place at most, and then it is
\* resolving; callbacks wait for resolving records only.
Pending(r) == r \in ToSet(mPendingQ) \/ r \in ToSet(pendingQ)
LookupsOK ==
    /\ \A t, u \in Threads : \A r \in Rec : Looking(t, r) /\ Looking(u, r) => t = u
    /\ \A t \in Threads, r \in Rec : Looking(t, r) => ~ Pending(r)
    /\ \A r \in Rec : resolving[r] <=> Pending(r) \/ \E t \in Threads : Looking(t, r)
    /\ \A r \in Rec : resolving[r] => r \notin ToSet(mEvictionQ)
    /\ \A r \in Rec : ~ resolving[r] => callbacks[r] = << >>

\* Who owns a reference to r, besides the table and the queues.
WorkOf(r) == {t \in Workers : work[t] = r}
HandOf(r) == {c \in Callbacks : hand[c] = r}
OwnersOK ==
    /\ \A r \in Rec : IsFiniteSet(HandOf(r))
    /\ RefsExact
    /\ mEvictionQSize = Len(mEvictionQ) /\ mEvictionQSize <= MaxCache

\* A callback that is owed its call is in one place, once.
Waits(c, r) == c \in ToSet(callbacks[r])
DueFrom(c, t) == c \in ToSet(cbs[t])
CallbackOK(c) ==
    /\ c \in owed <=> \/ \E r \in Rec : Waits(c, r)
                      \/ \E t \in Workers : DueFrom(c, t)
                      \/ hand[c] # None
    /\ \A r \in Rec : Waits(c, r) => hand[c] = None /\ \A t \in Workers : ~ DueFrom(c, t)
    /\ \A t \in Workers : DueFrom(c, t) => hand[c] = None
    /\ \A r, x \in Rec : Waits(c, r) /\ Waits(c, x) => r = x
    /\ \A t, u \in Workers : DueFrom(c, t) /\ DueFrom(c, u) => t = u
    /\ asked[c] = NoKey => c \notin owed /\ calls[c] = 0
    /\ c \in owed => calls[c] = 0
    /\ calls[c] <= 1
CallbacksOK ==
    /\ \A r \in Rec : Distinct(callbacks[r])
    /\ \A t \in Workers : Distinct(cbs[t])
    /\ \A c \in Callbacks : CallbackOK(c)

Inv == Typed /\ ThreadsOK /\ PoolOK /\ QueuesOK /\ LookupsOK /\ OwnersOK /\ CallbacksOK

-----------------------------------------------------------------------------
(* Types, and where each thread is.                                        *)

LEMMA ConstantFacts ==
    /\ Main \in Workers /\ Main \notin Threads /\ Threads \subseteq Workers
    /\ \A t \in Workers : t = Main \/ t \in Threads
    /\ IsFiniteSet(Workers) /\ IsFiniteSet(Threads) /\ IsFiniteSet(Rec)
    /\ None \notin Rec /\ NoKey \in Key /\ MaxCache \in Nat /\ Rec \subseteq Int
    /\ \A h \in Hosts, b \in BOOLEAN :
         [host |-> h, bypass |-> b] \in Key /\ [host |-> h, bypass |-> b] # NoKey
<1>1. IsFiniteSet(Workers)
  <2>1. IsFiniteSet(Threads)
    BY ResolverAssumption DEF ResolverAssumption
  <2>2. IsFiniteSet(Threads \cup {Main})
    BY <2>1, FS_AddElement
  <2> QED BY <2>2 DEF Workers
<1>2. IsFiniteSet(Rec)
  <2>1. MaxRecs \in Nat
    BY ResolverAssumption DEF ResolverAssumption
  <2>2. IsFiniteSet(1 .. MaxRecs)
    BY <2>1, FS_Interval
  <2> QED BY <2>2 DEF Rec
<1>3. ASSUME NEW h \in Hosts, NEW b \in BOOLEAN
      PROVE  [host |-> h, bypass |-> b] \in Key /\ [host |-> h, bypass |-> b] # NoKey
  <2>1. h # ""
    BY ResolverAssumption DEF ResolverAssumption
  <2>2. [host |-> h, bypass |-> b].host = h /\ NoKey.host = ""
    BY DEF NoKey
  <2> QED BY <2>1, <2>2 DEF Key
<1>4. None \notin Rec /\ NoKey \in Key /\ MaxCache \in Nat /\ Rec \subseteq Int
  <2>1. MaxRecs \in Nat /\ MaxCache \in Nat
    BY ResolverAssumption DEF ResolverAssumption
  <2>2. None \notin Rec /\ Rec \subseteq Int
    BY <2>1 DEF None, Rec
  <2>3. NoKey \in Key
    BY DEF Key
  <2> QED BY <2>1, <2>2, <2>3
<1> QED BY <1>1, <1>2, <1>3, <1>4, ResolverAssumption DEF ResolverAssumption, Workers

\* What the thread that takes a turn has in its hands.
LEMMA Handles ==
    ASSUME Typed, ThreadsOK
    PROVE  /\ \A t \in Workers : pc[t] \in {"lookup", "calling"} => work[t] \in Rec
           /\ \A t \in Workers : cbs[t] \in Seq(Callbacks)
           /\ \A r \in Rec : callbacks[r] \in Seq(Callbacks)
           /\ \A c \in Callbacks : hand[c] # None => hand[c] \in Rec
BY ConstantFacts DEF Typed, ThreadsOK

LEMMA SetRefsTyped ==
    ASSUME Typed, NEW rc \in [Rec -> Int], SetRefs(rc)
    PROVE  /\ refc' \in [Rec -> Int] /\ key' \in [Rec -> Key]
           /\ hasResult' \in [Rec -> BOOLEAN]
BY ConstantFacts DEF Typed, SetRefs

LEMMA InitTyped == Init => Typed /\ ThreadsOK
<1> SUFFICES ASSUME Init PROVE Typed /\ ThreadsOK
  OBVIOUS
<1>. USE ConstantFacts
<1>1. << >> \in Seq(Rec) /\ << >> \in Seq(Callbacks)
  OBVIOUS
<1>2. /\ mDB \subseteq Rec /\ key \in [Rec -> Key] /\ refc \in [Rec -> Int]
      /\ callbacks \in [Rec -> Seq(Callbacks)]
      /\ resolving \in [Rec -> BOOLEAN] /\ hasResult \in [Rec -> BOOLEAN]
      /\ asked \in [Callbacks -> Key] /\ hand \in [Callbacks -> Rec \cup {None}]
      /\ owed \subseteq Callbacks /\ calls \in [Callbacks -> Nat]
  BY <1>1 DEF Init
<1>3. /\ mPendingQ \in Seq(Rec) /\ mEvictionQ \in Seq(Rec)
      /\ pendingQ \in Seq(Rec) /\ evictionQ \in Seq(Rec)
      /\ {mHaveIdleThread, mShutdown, notified, failed} \subseteq BOOLEAN
  BY <1>1 DEF Init
<1>4. /\ pc \in [Workers -> PlacesOfPc] /\ work \in [Workers -> Rec \cup {None}]
      /\ cbs \in [Workers -> Seq(Callbacks)] /\ status \in [Workers -> BOOLEAN]
  BY <1>1 DEF Init, PlacesOfPc
<1>5. ThreadsOK
  BY DEF Init, ThreadsOK
<1> QED BY <1>2, <1>3, <1>4, <1>5 DEF Typed

\* Where the record of an entry is found.
LEMMA EntryFacts ==
    ASSUME Typed, NEW h \in Hosts, NEW b \in Bypass, NEW r \in Rec, AddEntry(r, h, b)
    PROVE  /\ b \in BOOLEAN /\ (r \in mDB \/ refc[r] = 0)
           /\ mDB' = mDB \cup {r} /\ mDB' \subseteq Rec
           /\ key' = [key EXCEPT ![r] = [host |-> h, bypass |-> b]] /\ key' \in [Rec -> Key]
<1>1. b \in BOOLEAN
  BY ResolverAssumption DEF ResolverAssumption
<1>2. [host |-> h, bypass |-> b] \in Key
  BY <1>1, ConstantFacts
<1>3. r \in mDB \/ refc[r] = 0
  <2>1. CASE Found(h, b) # {}
    <3>1. r \in Found(h, b)
      BY <2>1 DEF AddEntry, Entry
    <3> QED BY <3>1 DEF Found
  <2>2. CASE Found(h, b) = {}
    <3>1. \E x \in Rec : refc[x] = 0
      BY <2>2 DEF AddEntry
    <3>2. r = CHOOSE x \in Rec : refc[x] = 0
      BY <2>2 DEF AddEntry, Entry
    <3> QED BY <3>1, <3>2
  <2> QED BY <2>1, <2>2
<1> QED BY <1>1, <1>2, <1>3 DEF AddEntry, Typed

LEMMA ResolveNowTyped ==
    ASSUME Typed, ThreadsOK, NEW c \in Callbacks, NEW h \in Hosts, NEW b \in Bypass, NEW r \in Rec,
           ResolveNow(c, h, b, r)
    PROVE  Typed' /\ ThreadsOK'
<1>. USE ConstantFacts
<1>1. b \in BOOLEAN /\ mDB' \subseteq Rec /\ key' \in [Rec -> Key]
  BY EntryFacts DEF ResolveNow
<1>2. asked' \in [Callbacks -> Key]
  BY <1>1 DEF ResolveNow, Ask, Typed
<1>3. refc' \in [Rec -> Int] /\ hasResult' \in [Rec -> BOOLEAN] /\ hand' \in [Callbacks -> Rec \cup {None}]
  <2>1. Bit(r \notin mDB) \in Int
    BY DEF Bit
  <2> QED BY <2>1 DEF ResolveNow, Typed
<1>4. owed' \subseteq Callbacks
  BY DEF ResolveNow, Typed
<1> QED BY <1>1, <1>2, <1>3, <1>4
        DEF ResolveNow, Typed, ThreadsOK, Idle, queues, pool, thread, local

LEMMA ResolveJoinTyped ==
    ASSUME Typed, ThreadsOK, NEW c \in Callbacks, NEW h \in Hosts, NEW b \in Bypass, NEW r \in Rec,
           ResolveJoin(c, h, b, r)
    PROVE  Typed' /\ ThreadsOK'
<1>. USE ConstantFacts
<1>1. b \in BOOLEAN
  BY ResolverAssumption DEF ResolverAssumption
<1>2. asked' \in [Callbacks -> Key]
  BY <1>1 DEF ResolveJoin, Ask, Typed
<1>3. callbacks' \in [Rec -> Seq(Callbacks)]
  <2>1. Append(callbacks[r], c) \in Seq(Callbacks)
    BY Handles, AppendSet
  <2> QED BY <2>1 DEF ResolveJoin, Typed
<1>4. owed' \subseteq Callbacks
  BY DEF ResolveJoin, Typed
<1> QED BY <1>2, <1>3, <1>4
        DEF ResolveJoin, Typed, ThreadsOK, Idle, db, queues, pool, thread, local

\* WakeOrCreate starts a thread that was not there, if any.
LEMMA WakeOrCreateStep ==
    ASSUME Typed, ThreadsOK, PoolOK, NEW ok \in BOOLEAN, WakeOrCreate(ok)
    PROVE  /\ notified' \in BOOLEAN /\ failed' \in BOOLEAN
           /\ failed => failed'
           /\ \/ /\ mHaveIdleThread /\ notified' /\ ok
                 /\ UNCHANGED <<mThreadCount, pc, failed>>
              \/ /\ ~ mHaveIdleThread /\ ~ ok /\ failed'
                 /\ UNCHANGED <<mThreadCount, pc, notified>>
              \/ /\ ~ mHaveIdleThread /\ ok /\ UNCHANGED <<failed, notified>>
                 /\ \E t \in Idle : pc' = [pc EXCEPT ![t] = "get"]
                 /\ mThreadCount' = mThreadCount + 1
              \/ /\ ~ mHaveIdleThread /\ ok /\ Threads = Threads \ Idle
                 /\ UNCHANGED <<mThreadCount, pc, notified, failed>>
<1>1. IsFiniteSet(Threads) /\ Idle \subseteq Threads
  BY ConstantFacts DEF Idle
<1>2. /\ IsFiniteSet(Threads \ Idle) /\ Cardinality(Threads \ Idle) <= Cardinality(Threads)
      /\ Cardinality(Threads \ Idle) = Cardinality(Threads) => Threads \ Idle = Threads
      /\ Cardinality(Threads) \in Nat /\ Cardinality(Threads \ Idle) \in Nat
  BY <1>1, FS_Subset, FS_CardinalityType
<1>3. CASE mHaveIdleThread
  BY <1>3 DEF WakeOrCreate, Typed
<1>4. CASE ~ mHaveIdleThread /\ mThreadCount < Cardinality(Threads)
  <2>1. Idle # {}
    BY <1>2, <1>4 DEF PoolOK
  <2>2. (CHOOSE t \in Idle : TRUE) \in Idle
    BY <2>1
  <2>3. CASE ok
    <3>1. mThreadCount' = mThreadCount + 1
      BY <1>4, <2>3 DEF WakeOrCreate, Bit
    <3>2. UNCHANGED notified /\ failed' = (failed \/ ~ ok)
          /\ pc' = [pc EXCEPT ![CHOOSE t \in Idle : TRUE] = "get"]
      BY <1>4, <2>3 DEF WakeOrCreate
    <3>3. failed' = failed /\ failed \in BOOLEAN /\ notified \in BOOLEAN
      BY <2>3, <3>2 DEF Typed
    <3> QED BY <1>4, <2>2, <2>3, <3>1, <3>2, <3>3
  <2>4. CASE ~ ok
    <3>1. mThreadCount' = mThreadCount + 0
      BY <1>4, <2>4 DEF WakeOrCreate, Bit
    <3>2. mThreadCount \in Nat
      BY <1>2 DEF PoolOK
    <3>3. UNCHANGED <<notified, pc>> /\ failed'
      BY <1>4, <2>4 DEF WakeOrCreate
    <3>4. mThreadCount' = mThreadCount
      BY <3>1, <3>2
    <3>5. notified \in BOOLEAN
      BY DEF Typed
    <3> QED BY <1>4, <2>4, <3>3, <3>4, <3>5
  <2> QED BY <2>3, <2>4
<1>5. CASE ~ mHaveIdleThread /\ ~ (mThreadCount < Cardinality(Threads))
  <2>1. Threads \ Idle = Threads
    BY <1>2, <1>5 DEF PoolOK
  <2>2. ok /\ UNCHANGED <<notified, mThreadCount, pc, failed>>
    BY <1>5 DEF WakeOrCreate
  <2>3. notified \in BOOLEAN /\ failed \in BOOLEAN
    BY DEF Typed
  <2> QED BY <1>5, <2>1, <2>2, <2>3
<1> QED BY <1>3, <1>4, <1>5

LEMMA ResolveLookupTyped ==
    ASSUME Typed, ThreadsOK, PoolOK, OwnersOK, QueuesOK, NEW c \in Callbacks, NEW h \in Hosts,
           NEW b \in Bypass, NEW r \in Rec, NEW ok \in BOOLEAN, ResolveLookup(c, h, b, r, ok)
    PROVE  Typed' /\ ThreadsOK'
<1>. USE ConstantFacts
<1>1. b \in BOOLEAN /\ mDB' \subseteq Rec /\ key' \in [Rec -> Key]
  BY EntryFacts DEF ResolveLookup
<1>2. asked' \in [Callbacks -> Key]
  BY <1>1 DEF ResolveLookup, Ask, Typed
<1>3. refc' \in [Rec -> Int] /\ resolving' \in [Rec -> BOOLEAN]
  <2>1. Bit(~ OnEvictionQ(r)) \in Int /\ Bit(r \notin mDB) \in Int
    BY DEF Bit
  <2>2. /\ refc \in [Rec -> Int] /\ resolving \in [Rec -> BOOLEAN]
        /\ refc' = [refc EXCEPT ![r] = @ + Bit(~ OnEvictionQ(r)) + Bit(r \notin mDB)]
        /\ resolving' = [resolving EXCEPT ![r] = TRUE]
    BY DEF ResolveLookup, Typed
  <2> QED BY <2>1, <2>2
<1>4. callbacks' \in [Rec -> Seq(Callbacks)] /\ owed' \subseteq Callbacks
  <2>1. Append(callbacks[r], c) \in Seq(Callbacks) /\ callbacks[r] \in Seq(Callbacks)
    BY Handles, AppendSet
  <2>2. callbacks' = [callbacks EXCEPT ![r] = IF ok THEN Append(callbacks[r], c) ELSE callbacks[r]]
    BY DEF ResolveLookup
  <2> QED BY <2>1, <2>2 DEF ResolveLookup, Typed
<1>5. mPendingQ' \in Seq(Rec) /\ mEvictionQ' \in Seq(Rec)
  BY AppendSet, RemoveSet DEF ResolveLookup, Typed, QueuesOK
<1>6. WakeOrCreate(ok)
  BY DEF ResolveLookup
<1>7. /\ notified' \in BOOLEAN /\ failed' \in BOOLEAN
      /\ \/ pc' = pc
         \/ /\ ~ mHaveIdleThread
            /\ \E t \in Idle : pc' = [pc EXCEPT ![t] = "get"]
  BY <1>6, WakeOrCreateStep
<1>8. pc' \in [Workers -> PlacesOfPc] /\ ThreadsOK'
  <2>1. CASE pc' = pc
    BY <2>1 DEF ResolveLookup, Typed, ThreadsOK
  <2>2. ASSUME NEW t \in Idle, pc' = [pc EXCEPT ![t] = "get"]
        PROVE  pc' \in [Workers -> PlacesOfPc] /\ ThreadsOK'
    <3>1. t \in Threads /\ pc[t] = "none"
      BY DEF Idle
    <3>2. pc' \in [Workers -> PlacesOfPc]
      BY <2>2 DEF Typed, PlacesOfPc
    <3>3. pc'[t] = "get" /\ \A u \in Workers : u # t => pc'[u] = pc[u]
      BY <2>2, <3>1 DEF Typed
    <3>4. UNCHANGED <<work, cbs>>
      BY DEF ResolveLookup
    <3> QED BY <3>1, <3>2, <3>3, <3>4 DEF ThreadsOK
  <2> QED BY <1>7, <2>1, <2>2
<1>9. UNCHANGED <<hasResult, mHaveIdleThread, mShutdown, work, cbs, status, local, hand, calls>>
  BY DEF ResolveLookup
<1> QED BY <1>1, <1>2, <1>3, <1>4, <1>5, <1>7, <1>8, <1>9 DEF Typed, local

LEMMA DetachCallbackTyped ==
    ASSUME Typed, ThreadsOK, CallbacksOK, NEW c \in Callbacks, NEW r \in Rec, DetachCallback(c, r)
    PROVE  Typed' /\ ThreadsOK'
<1>. USE ConstantFacts
<1>1. callbacks' \in [Rec -> Seq(Callbacks)]
  <2>1. RemoveFirst(callbacks[r], c) \in Seq(Callbacks)
    BY Handles, RemoveSet DEF CallbacksOK
  <2> QED BY <2>1 DEF DetachCallback, Typed
<1>2. hand' \in [Callbacks -> Rec \cup {None}] /\ refc' \in [Rec -> Int]
  BY DEF DetachCallback, Typed
<1>3. UNCHANGED <<db, resolving, hasResult, queues, pool, mShutdown, thread, local, asked, hist>>
  BY DEF DetachCallback
<1> QED BY <1>1, <1>2, <1>3 DEF Typed, ThreadsOK, db, queues, pool, thread, local, hist

LEMMA CallFromHandTyped ==
    ASSUME Typed, ThreadsOK, NEW c \in Callbacks, CallFromHand(c)
    PROVE  Typed' /\ ThreadsOK'
<1>. USE ConstantFacts
<1>1. hand[c] \in Rec
  BY Handles DEF CallFromHand
<1>2. [refc EXCEPT ![hand[c]] = @ - 1] \in [Rec -> Int]
  <2>1. PICK x \in Rec : x = hand[c]
    BY <1>1
  <2>2. refc \in [Rec -> Int] /\ refc[x] \in Int
    BY DEF Typed
  <2>3. [refc EXCEPT ![x] = @ - 1] \in [Rec -> Int]
    BY <2>2
  <2> QED BY <2>1, <2>3
<1>3. /\ refc' \in [Rec -> Int] /\ key' \in [Rec -> Key]
      /\ hasResult' \in [Rec -> BOOLEAN]
  BY <1>2, SetRefsTyped DEF CallFromHand
<1>4. hand' \in [Callbacks -> Rec \cup {None}] /\ calls' \in [Callbacks -> Nat]
      /\ owed' \subseteq Callbacks
  BY DEF CallFromHand, Typed
<1>5. UNCHANGED <<mDB, callbacks, resolving, queues, pool, mShutdown, thread, local, asked, failed>>
  BY DEF CallFromHand
<1> QED BY <1>3, <1>4, <1>5 DEF Typed, ThreadsOK, queues, pool, thread, local

\* GetHostToLookup ends with the idle thread, a record or the thread's end.
LEMMA GetHostToLookupStep ==
    ASSUME Typed, ThreadsOK, NEW t \in Threads, NEW idle \in BOOLEAN, NEW expired \in BOOLEAN,
           GetHostToLookup(t, idle, expired)
    PROVE  /\ UNCHANGED <<db, refc, records, mEvictionQ, mEvictionQSize, mShutdown, cbs, status,
                          local, caller, hist>>
           /\ \/ /\ mPendingQ = << >> /\ ~ idle /\ ~ mShutdown /\ mHaveIdleThread' = TRUE
                 /\ pc' = [pc EXCEPT ![t] = "idle"] /\ UNCHANGED <<mPendingQ, work, mThreadCount>>
              \/ /\ mPendingQ # << >> /\ mHaveIdleThread' = idle
                 /\ pc' = [pc EXCEPT ![t] = "lookup"] /\ UNCHANGED mThreadCount
                 /\ work' = [work EXCEPT ![t] = Head(mPendingQ)] /\ mPendingQ' = Tail(mPendingQ)
              \/ /\ mPendingQ = << >> /\ mHaveIdleThread' = idle
                 /\ pc' = [pc EXCEPT ![t] = "none"] /\ mThreadCount' = mThreadCount - 1
                 /\ UNCHANGED <<work, mPendingQ>>
BY DEF GetHostToLookup, MayIdle, CountAfterExit

LEMMA GetHostToLookupTyped ==
    ASSUME Typed, ThreadsOK, NEW t \in Threads, NEW idle \in BOOLEAN, NEW expired \in BOOLEAN,
           pc[t] \in {"get", "idle"}, GetHostToLookup(t, idle, expired), notified' \in BOOLEAN,
           idle <=> \E u \in Threads : u # t /\ pc[u] = "idle"
    PROVE  Typed' /\ ThreadsOK'
<1>. USE ConstantFacts
<1>1. UNCHANGED <<db, refc, records, mEvictionQ, mEvictionQSize, mShutdown, cbs, status,
                  local, caller, hist>>
  BY GetHostToLookupStep
<1>2. work[t] = None
  BY DEF ThreadsOK
<1>3. CASE /\ mPendingQ = << >> /\ ~ idle /\ mHaveIdleThread' = TRUE
           /\ pc' = [pc EXCEPT ![t] = "idle"] /\ UNCHANGED <<mPendingQ, work>>
  <2>1. pc' \in [Workers -> PlacesOfPc] /\ pc'[t] = "idle"
        /\ \A u \in Workers : u # t => pc'[u] = pc[u]
    BY <1>3 DEF Typed, PlacesOfPc
  <2>2. ThreadsOK'
    BY <1>1, <1>2, <1>3, <2>1 DEF ThreadsOK
  <2> QED BY <1>1, <1>3, <2>1, <2>2 DEF Typed, db, records, local, caller, hist
<1>4. CASE /\ mPendingQ # << >> /\ mHaveIdleThread' = idle
           /\ pc' = [pc EXCEPT ![t] = "lookup"]
           /\ work' = [work EXCEPT ![t] = Head(mPendingQ)] /\ mPendingQ' = Tail(mPendingQ)
  <2>1. pc' \in [Workers -> PlacesOfPc] /\ pc'[t] = "lookup"
        /\ \A u \in Workers : u # t => pc'[u] = pc[u]
    BY <1>4 DEF Typed, PlacesOfPc
  <2>2. mPendingQ' \in Seq(Rec) /\ Head(mPendingQ) \in Rec
    BY <1>4, TailSet DEF Typed
  <2>3. work' \in [Workers -> Rec \cup {None}] /\ work'[t] \in Rec
        /\ \A u \in Workers : u # t => work'[u] = work[u]
    BY <1>4, <2>2 DEF Typed
  <2>4. ThreadsOK'
    BY <1>1, <1>2, <1>4, <2>1, <2>3 DEF ThreadsOK
  <2> QED BY <1>1, <1>4, <2>1, <2>2, <2>3, <2>4 DEF Typed, db, records, local, caller, hist
<1>5. CASE /\ mHaveIdleThread' = idle
           /\ pc' = [pc EXCEPT ![t] = "none"] /\ UNCHANGED <<work, mPendingQ>>
  <2>1. pc' \in [Workers -> PlacesOfPc] /\ pc'[t] = "none"
        /\ \A u \in Workers : u # t => pc'[u] = pc[u]
    BY <1>5 DEF Typed, PlacesOfPc
  <2>2. ThreadsOK'
    BY <1>1, <1>2, <1>5, <2>1 DEF ThreadsOK
  <2> QED BY <1>1, <1>5, <2>1, <2>2 DEF Typed, db, records, local, caller, hist
<1> QED BY <1>3, <1>4, <1>5, GetHostToLookupStep

LEMMA GetHostTyped ==
    ASSUME Typed, ThreadsOK, PoolOK, NEW t \in Threads, GetHost(t)
    PROVE  Typed' /\ ThreadsOK'
<1>1. mHaveIdleThread \in BOOLEAN /\ notified' \in BOOLEAN
  BY DEF Typed, GetHost
<1>2. mHaveIdleThread <=> \E u \in Threads : u # t /\ pc[u] = "idle"
  BY DEF PoolOK, GetHost
<1> QED BY <1>1, <1>2, GetHostToLookupTyped DEF GetHost

LEMMA WakeIdleTyped ==
    ASSUME Typed, ThreadsOK, NEW t \in Threads, NEW expired \in BOOLEAN, WakeIdle(t, expired)
    PROVE  Typed' /\ ThreadsOK'
<1>1. ~ \E u \in Threads : u # t /\ pc[u] = "idle"
  BY DEF ThreadsOK, WakeIdle
<1> QED BY <1>1, GetHostToLookupTyped DEF WakeIdle

\* Complete leaves only the thread t with something to call.
LEMMA CompleteTyped ==
    ASSUME Typed, NEW t \in Workers, NEW r \in Rec, NEW ok \in BOOLEAN, Complete(t, r, ok)
    PROVE  /\ mDB' \subseteq Rec /\ key' \in [Rec -> Key] /\ refc' \in [Rec -> Int]
           /\ callbacks' \in [Rec -> Seq(Callbacks)]
           /\ resolving' \in [Rec -> BOOLEAN] /\ hasResult' \in [Rec -> BOOLEAN]
           /\ mEvictionQ' \in Seq(Rec) /\ status' \in [Workers -> BOOLEAN]
           /\ cbs' = [cbs EXCEPT ![t] = callbacks[r]] /\ cbs' \in [Workers -> Seq(Callbacks)]
           /\ work' = [work EXCEPT ![t] = r] /\ work' \in [Workers -> Rec \cup {None}]
           /\ pc' = [pc EXCEPT ![t] = "calling"] /\ pc' \in [Workers -> PlacesOfPc]
           /\ UNCHANGED <<mPendingQ, pool, mShutdown, caller, hist>>
<1>. USE ConstantFacts
<1>1. Append(mEvictionQ, r) \in Seq(Rec) /\ Append(mEvictionQ, r) # << >>
  BY AppendSet DEF Typed
<1>2. Tail(Append(mEvictionQ, r)) \in Seq(Rec)
  BY <1>1, TailSet
<1>3. mEvictionQ' \in Seq(Rec)
  BY <1>1, <1>2 DEF Complete, Typed
<1>4. refc' \in [Rec -> Int] /\ key' \in [Rec -> Key] /\ hasResult' \in [Rec -> BOOLEAN]
  <2>1. PICK f \in [Rec -> Int] : /\ refc' = f
                                  /\ key' = [x \in Rec |-> IF f[x] = 0 THEN NoKey ELSE key[x]]
                                  /\ hasResult' = [x \in Rec |-> f[x] # 0 /\ IF x = r THEN ok ELSE hasResult[x]]
    <3> DEFINE keep == ok /\ ~ mShutdown
               q == Append(mEvictionQ, r)
               over == keep /\ Over
               gone == IF over THEN Found(key[Head(q)].host, FALSE) ELSE {}
               rc == [x \in Rec |-> refc[x] + Bit(keep /\ x = r) - Bit(over /\ x = Head(q))
                                          - Bit(x \in gone)]
    <3>1. rc \in [Rec -> Int]
      <4>1. \A p : Bit(p) \in Int
        BY DEF Bit
      <4>2. refc \in [Rec -> Int]
        BY DEF Typed
      <4> HIDE DEF keep, q, over, gone
      <4> QED BY <4>1, <4>2
    <3>2. /\ refc' = rc
          /\ key' = [x \in Rec |-> IF rc[x] = 0 THEN NoKey ELSE key[x]]
          /\ hasResult' = [x \in Rec |-> rc[x] # 0 /\ IF x = r THEN ok ELSE hasResult[x]]
      BY DEF Complete
    <3> HIDE DEF rc
    <3> QED BY <3>1, <3>2
  <2> QED BY <2>1 DEF Typed
<1>5. /\ callbacks' = [callbacks EXCEPT ![r] = << >>] /\ resolving' = [resolving EXCEPT ![r] = FALSE]
      /\ cbs' = [cbs EXCEPT ![t] = callbacks[r]] /\ work' = [work EXCEPT ![t] = r]
      /\ pc' = [pc EXCEPT ![t] = "calling"] /\ status' = [status EXCEPT ![t] = ok]
      /\ UNCHANGED <<mPendingQ, pool, mShutdown, caller, hist>>
  BY DEF Complete, TakeCallbacks, EndResolving
<1>6. mDB' \subseteq Rec
  BY DEF Complete, Typed
<1>7. << >> \in Seq(Callbacks) /\ callbacks[r] \in Seq(Callbacks)
  BY DEF Typed
<1> QED BY <1>3, <1>4, <1>5, <1>6, <1>7 DEF Typed, PlacesOfPc

LEMMA LookupDoneTyped ==
    ASSUME Typed, ThreadsOK, NEW t \in Threads, NEW ok \in BOOLEAN, LookupDone(t, ok)
    PROVE  Typed' /\ ThreadsOK'
<1>. USE ConstantFacts
<1>1. t \in Workers /\ work[t] \in Rec /\ pc[t] = "lookup"
  BY Handles DEF LookupDone
<1>2. PICK r \in Rec : r = work[t]
  BY <1>1
<1>3. Complete(t, r, ok) /\ UNCHANGED local
  BY <1>2 DEF LookupDone
<1>4. /\ mDB' \subseteq Rec /\ key' \in [Rec -> Key] /\ refc' \in [Rec -> Int]
      /\ callbacks' \in [Rec -> Seq(Callbacks)]
      /\ resolving' \in [Rec -> BOOLEAN] /\ hasResult' \in [Rec -> BOOLEAN]
      /\ mEvictionQ' \in Seq(Rec) /\ status' \in [Workers -> BOOLEAN]
      /\ cbs' = [cbs EXCEPT ![t] = callbacks[r]] /\ cbs' \in [Workers -> Seq(Callbacks)]
      /\ work' = [work EXCEPT ![t] = r] /\ work' \in [Workers -> Rec \cup {None}]
      /\ pc' = [pc EXCEPT ![t] = "calling"] /\ pc' \in [Workers -> PlacesOfPc]
      /\ UNCHANGED <<mPendingQ, pool, mShutdown, caller, hist>>
  BY <1>1, <1>3, CompleteTyped
<1>5. Typed'
  BY <1>3, <1>4 DEF Typed, pool, caller, hist, local
<1>6. pc'[t] = "calling" /\ work'[t] = r
      /\ \A u \in Workers : u # t => pc'[u] = pc[u] /\ work'[u] = work[u] /\ cbs'[u] = cbs[u]
  BY <1>1, <1>4 DEF Typed
<1>7. ThreadsOK'
  BY <1>1, <1>6 DEF ThreadsOK
<1> QED BY <1>5, <1>7

LEMMA AbortTyped ==
    ASSUME Typed, ThreadsOK, Abort
    PROVE  Typed' /\ ThreadsOK'
<1>. USE ConstantFacts
<1>1. pc[Main] = "abort" /\ Head(pendingQ) \in Rec /\ Tail(pendingQ) \in Seq(Rec)
  BY TailSet DEF Abort, Typed
<1>2. PICK r \in Rec : r = Head(pendingQ)
  BY <1>1
<1>3. Complete(Main, r, FALSE) /\ pendingQ' = Tail(pendingQ) /\ UNCHANGED evictionQ
  BY <1>2 DEF Abort
<1>4. /\ mDB' \subseteq Rec /\ key' \in [Rec -> Key] /\ refc' \in [Rec -> Int]
      /\ callbacks' \in [Rec -> Seq(Callbacks)]
      /\ resolving' \in [Rec -> BOOLEAN] /\ hasResult' \in [Rec -> BOOLEAN]
      /\ mEvictionQ' \in Seq(Rec) /\ status' \in [Workers -> BOOLEAN]
      /\ cbs' = [cbs EXCEPT ![Main] = callbacks[r]] /\ cbs' \in [Workers -> Seq(Callbacks)]
      /\ work' = [work EXCEPT ![Main] = r] /\ work' \in [Workers -> Rec \cup {None}]
      /\ pc' = [pc EXCEPT ![Main] = "calling"] /\ pc' \in [Workers -> PlacesOfPc]
      /\ UNCHANGED <<mPendingQ, pool, mShutdown, caller, hist>>
  BY <1>3, CompleteTyped
<1>5. Typed'
  BY <1>1, <1>3, <1>4 DEF Typed, pool, caller, hist
<1>6. pc'[Main] = "calling" /\ work'[Main] = r
      /\ \A u \in Workers : u # Main => pc'[u] = pc[u] /\ work'[u] = work[u] /\ cbs'[u] = cbs[u]
  BY <1>4 DEF Typed
<1>7. ThreadsOK'
  BY <1>1, <1>6 DEF ThreadsOK
<1> QED BY <1>5, <1>7

LEMMA CallNextTyped ==
    ASSUME Typed, ThreadsOK, NEW t \in Workers, CallNext(t)
    PROVE  Typed' /\ ThreadsOK'
<1>1. Tail(cbs[t]) \in Seq(Callbacks) /\ Head(cbs[t]) \in Callbacks
  BY TailSet, Handles DEF CallNext
<1>2. PICK h \in Callbacks : h = Head(cbs[t])
  BY <1>1
<1>3. cbs' \in [Workers -> Seq(Callbacks)] /\ calls' \in [Callbacks -> Nat] /\ owed' \subseteq Callbacks
      /\ \A u \in Workers : u # t => cbs'[u] = cbs[u]
  <2>1. cbs' = [cbs EXCEPT ![t] = Tail(cbs[t])] /\ calls' = [calls EXCEPT ![h] = @ + 1]
        /\ owed' = owed \ {h}
    BY <1>2 DEF CallNext
  <2> QED BY <1>1, <2>1 DEF Typed
<1>4. UNCHANGED <<db, refc, records, queues, pool, mShutdown, pc, work, status, local, caller, failed>>
  BY DEF CallNext
<1>5. ThreadsOK'
  BY <1>3, <1>4 DEF ThreadsOK, CallNext
<1> QED BY <1>3, <1>4, <1>5 DEF Typed, db, records, queues, pool, local, caller

LEMMA CallsDoneTyped ==
    ASSUME Typed, ThreadsOK, NEW t \in Workers, CallsDone(t)
    PROVE  Typed' /\ ThreadsOK'
<1>. USE ConstantFacts
<1>1. work[t] \in Rec
  BY Handles DEF CallsDone
<1>2. [refc EXCEPT ![work[t]] = @ - 1] \in [Rec -> Int]
  <2>1. PICK x \in Rec : x = work[t]
    BY <1>1
  <2>2. refc \in [Rec -> Int] /\ refc[x] \in Int
    BY DEF Typed
  <2>3. [refc EXCEPT ![x] = @ - 1] \in [Rec -> Int]
    BY <2>2
  <2> QED BY <2>1, <2>3
<1>3. /\ refc' \in [Rec -> Int] /\ key' \in [Rec -> Key]
      /\ hasResult' \in [Rec -> BOOLEAN]
  BY <1>2, SetRefsTyped DEF CallsDone
<1>4. /\ work' = [work EXCEPT ![t] = None] /\ status' = [status EXCEPT ![t] = FALSE]
      /\ pc' = [pc EXCEPT ![t] = IF t = Main THEN "abort" ELSE "get"]
      /\ UNCHANGED <<mDB, callbacks, resolving, queues, pool, mShutdown, cbs, local, caller, hist>>
  BY DEF CallsDone
<1>5. /\ work' \in [Workers -> Rec \cup {None}] /\ status' \in [Workers -> BOOLEAN]
      /\ pc' \in [Workers -> PlacesOfPc]
      /\ pc'[t] = (IF t = Main THEN "abort" ELSE "get") /\ work'[t] = None
      /\ \A u \in Workers : u # t => pc'[u] = pc[u] /\ work'[u] = work[u]
  BY <1>4 DEF Typed, PlacesOfPc
<1>6. ThreadsOK'
  BY <1>4, <1>5 DEF ThreadsOK, CallsDone
<1> QED BY <1>3, <1>4, <1>5, <1>6 DEF Typed, queues, pool, local, caller, hist

LEMMA ShutdownTyped ==
    ASSUME Typed, ThreadsOK, Shutdown
    PROVE  Typed' /\ ThreadsOK'
<1>. USE ConstantFacts
<1>1. [r \in Rec |-> refc[r] - Bit(r \in mDB)] \in [Rec -> Int]
  BY DEF Typed, Bit
<1>2. /\ refc' \in [Rec -> Int] /\ key' \in [Rec -> Key]
      /\ hasResult' \in [Rec -> BOOLEAN]
  BY <1>1, SetRefsTyped DEF Shutdown
<1>3. << >> \in Seq(Rec)
  OBVIOUS
<1>4. pc' \in [Workers -> PlacesOfPc] /\ pc'[Main] = "abort"
      /\ \A u \in Workers : u # Main => pc'[u] = pc[u]
  BY DEF Shutdown, Typed, PlacesOfPc
<1>5. ThreadsOK'
  BY <1>4 DEF ThreadsOK, Shutdown
<1>6. Typed'
  BY <1>2, <1>3, <1>4 DEF Typed, Shutdown, LocalPending, NotifyIdleThread, caller, hist
<1> QED BY <1>5, <1>6

LEMMA ReleaseEvictedTyped ==
    ASSUME Typed, ThreadsOK, ReleaseEvicted
    PROVE  Typed' /\ ThreadsOK'
<1>. USE ConstantFacts
<1>1. [r \in Rec |-> refc[r] - Bit(r \in ToSet(evictionQ))] \in [Rec -> Int]
  BY DEF Typed, Bit
<1>2. /\ refc' \in [Rec -> Int] /\ key' \in [Rec -> Key]
      /\ hasResult' \in [Rec -> BOOLEAN]
  BY <1>1, SetRefsTyped DEF ReleaseEvicted
<1>3. << >> \in Seq(Rec)
  OBVIOUS
<1>4. pc' \in [Workers -> PlacesOfPc] /\ pc'[Main] = "down"
      /\ \A u \in Workers : u # Main => pc'[u] = pc[u]
  BY DEF ReleaseEvicted, Typed, PlacesOfPc
<1>5. ThreadsOK'
  BY <1>4 DEF ThreadsOK, ReleaseEvicted
<1>6. Typed'
  BY <1>2, <1>3, <1>4 DEF Typed, ReleaseEvicted, queues, pool, caller, hist
<1> QED BY <1>5, <1>6

-----------------------------------------------------------------------------
(* The pool: its counts, and a thread for every pending lookup.            *)

LEMMA InitPool == Init => PoolOK
<1> SUFFICES ASSUME Init PROVE PoolOK
  OBVIOUS
<1>1. \A t \in Threads : pc[t] = "none"
  BY ConstantFacts DEF Init
<1>2. Threads \ Idle = {}
  BY <1>1 DEF Idle
<1>3. mThreadCount = Cardinality(Threads \ Idle)
  BY <1>2, FS_EmptySet DEF Init
<1>4. mPendingQ = << >> /\ mHaveIdleThread = FALSE
  BY DEF Init
<1> QED BY <1>1, <1>3, <1>4 DEF PoolOK, LookupHasThread

\* Threads that neither start nor end nor become idle.
LEMMA PoolFrame ==
    ASSUME ThreadsOK, PoolOK, ThreadsOK', UNCHANGED <<mThreadCount, mHaveIdleThread>>,
           \A t \in Threads : /\ pc'[t] = "none" <=> pc[t] = "none"
                              /\ pc'[t] = "idle" <=> pc[t] = "idle",
           mPendingQ' = << >> \/ UNCHANGED <<mPendingQ, notified, failed>>
    PROVE  PoolOK'
<1>1. Idle' = Idle
  BY DEF Idle
<1>2. mThreadCount' = Cardinality(Threads \ Idle)'
  BY <1>1 DEF PoolOK
<1>3. mHaveIdleThread' <=> \E t \in Threads : pc'[t] = "idle"
  BY DEF PoolOK
<1>4. LookupHasThread'
  BY DEF PoolOK, LookupHasThread, ThreadsOK
<1> QED BY <1>2, <1>3, <1>4 DEF PoolOK

\* One thread more or less.
LEMMA ThreadCounted ==
    ASSUME Typed, NEW t \in Threads, NEW v \in PlacesOfPc, pc' = [pc EXCEPT ![t] = v]
    PROVE  /\ Cardinality(Threads \ Idle) \in Int
           /\ pc[t] = "none" /\ v # "none" =>
                Cardinality(Threads \ Idle)' = Cardinality(Threads \ Idle) + 1
           /\ pc[t] # "none" /\ v = "none" =>
                Cardinality(Threads \ Idle)' = Cardinality(Threads \ Idle) - 1
           /\ pc[t] # "none" /\ v # "none" => (Threads \ Idle)' = Threads \ Idle
<1>1. IsFiniteSet(Threads \ Idle)
  BY ConstantFacts, FS_Subset
<1>2. pc'[t] = v /\ \A u \in Threads : u # t => pc'[u] = pc[u]
  BY ConstantFacts DEF Typed
<1>3. \A u \in Threads : /\ u \in Threads \ Idle <=> pc[u] # "none"
                         /\ u \in (Threads \ Idle)' <=> pc'[u] # "none"
  BY DEF Idle
<1>4. Threads \ Idle \subseteq Threads /\ (Threads \ Idle)' \subseteq Threads
  BY DEF Idle
<1>. HIDE DEF Idle
<1>5. ASSUME pc[t] = "none", v # "none"
      PROVE  Cardinality(Threads \ Idle)' = Cardinality(Threads \ Idle) + 1
  <2>1. t \notin Threads \ Idle /\ (Threads \ Idle)' = (Threads \ Idle) \cup {t}
    BY <1>2, <1>3, <1>4, <1>5
  <2> QED BY <1>1, <2>1, FS_AddElement
<1>6. ASSUME pc[t] # "none", v = "none"
      PROVE  Cardinality(Threads \ Idle)' = Cardinality(Threads \ Idle) - 1
  <2>1. t \in Threads \ Idle /\ (Threads \ Idle)' = (Threads \ Idle) \ {t}
    BY <1>2, <1>3, <1>4, <1>6
  <2> QED BY <1>1, <2>1, FS_RemoveElement
<1>7. pc[t] # "none" /\ v # "none" => (Threads \ Idle)' = Threads \ Idle
  BY <1>2, <1>3, <1>4
<1>8. Cardinality(Threads \ Idle) \in Int
  BY <1>1, FS_CardinalityType
<1> QED BY <1>5, <1>6, <1>7, <1>8

LEMMA ResolveLookupPool ==
    ASSUME Typed, ThreadsOK, PoolOK, NEW c \in Callbacks, NEW h \in Hosts,
           NEW b \in Bypass, NEW r \in Rec, NEW ok \in BOOLEAN, ResolveLookup(c, h, b, r, ok)
    PROVE  PoolOK'
<1>. USE ConstantFacts
<1>1. WakeOrCreate(ok) /\ UNCHANGED mHaveIdleThread
  BY DEF ResolveLookup
<1>2. CASE mHaveIdleThread /\ notified' /\ ok /\ UNCHANGED <<mThreadCount, pc, failed>>
  <2>1. Idle' = Idle
    BY <1>2 DEF Idle
  <2>2. PICK t \in Threads : pc[t] = "idle"
    BY <1>2 DEF PoolOK
  <2>3. LookupHasThread'
    BY <1>2, <2>2 DEF LookupHasThread
  <2> QED BY <1>1, <1>2, <2>1, <2>3 DEF PoolOK
<1>3. CASE failed' /\ UNCHANGED <<mThreadCount, pc, notified>>
  <2>1. Idle' = Idle
    BY <1>3 DEF Idle
  <2>2. LookupHasThread'
    BY <1>3 DEF LookupHasThread
  <2> QED BY <1>1, <1>3, <2>1, <2>2 DEF PoolOK
<1>4. ASSUME NEW t \in Idle, pc' = [pc EXCEPT ![t] = "get"], mThreadCount' = mThreadCount + 1
      PROVE  PoolOK'
  <2>1. t \in Threads /\ pc[t] = "none"
    BY DEF Idle
  <2>2. pc'[t] = "get" /\ \A u \in Threads : u # t => pc'[u] = pc[u]
    BY <1>4, <2>1 DEF Typed
  <2>3. "get" \in PlacesOfPc
    BY DEF PlacesOfPc
  <2>4. Cardinality(Threads \ Idle)' = Cardinality(Threads \ Idle) + 1
    BY <1>4, <2>1, <2>3, ThreadCounted
  <2>5. mThreadCount' = Cardinality(Threads \ Idle)'
    BY <1>4, <2>4 DEF PoolOK
  <2>6. mHaveIdleThread' <=> \E u \in Threads : pc'[u] = "idle"
    BY <1>1, <2>1, <2>2 DEF PoolOK
  <2>7. LookupHasThread'
    BY <2>1, <2>2 DEF LookupHasThread
  <2> QED BY <2>5, <2>6, <2>7 DEF PoolOK
<1>5. CASE ~ mHaveIdleThread /\ Threads = Threads \ Idle /\ UNCHANGED <<mThreadCount, pc, notified, failed>>
  <2>1. Idle' = Idle
    BY <1>5 DEF Idle
  <2>2. PICK t : t \in Threads
    BY ResolverAssumption DEF ResolverAssumption
  <2>3. pc[t] # "none" /\ pc[t] # "idle"
    BY <1>5, <2>2 DEF PoolOK, Idle
  <2>4. LookupHasThread'
    BY <1>5, <2>2, <2>3 DEF LookupHasThread, ThreadsOK
  <2> QED BY <1>1, <1>5, <2>1, <2>4 DEF PoolOK
<1> QED BY <1>1, <1>2, <1>3, <1>4, <1>5, WakeOrCreateStep

LEMMA GetHostToLookupPool ==
    ASSUME Typed, ThreadsOK, PoolOK, NEW t \in Threads, NEW idle \in BOOLEAN, NEW expired \in BOOLEAN,
           pc[t] \in {"get", "idle"}, GetHostToLookup(t, idle, expired),
           idle <=> \E u \in Threads : u # t /\ pc[u] = "idle"
    PROVE  PoolOK'
<1>. USE ConstantFacts
<1>1. ASSUME NEW v, pc' = [pc EXCEPT ![t] = v]
      PROVE  pc'[t] = v /\ \A u \in Threads : u # t => pc'[u] = pc[u]
  BY <1>1 DEF Typed
<1>2. /\ pc' = [pc EXCEPT ![t] = "idle"] => (Threads \ Idle)' = Threads \ Idle
      /\ pc' = [pc EXCEPT ![t] = "lookup"] => (Threads \ Idle)' = Threads \ Idle
      /\ pc' = [pc EXCEPT ![t] = "none"] =>
           Cardinality(Threads \ Idle)' = Cardinality(Threads \ Idle) - 1
  <2>1. "idle" \in PlacesOfPc /\ "lookup" \in PlacesOfPc /\ "none" \in PlacesOfPc
    BY DEF PlacesOfPc
  <2>2. pc[t] # "none"
    OBVIOUS
  <2>3. ASSUME pc' = [pc EXCEPT ![t] = "idle"] PROVE (Threads \ Idle)' = Threads \ Idle
    <3>1. "idle" # "none"
      OBVIOUS
    <3> QED BY <2>1, <2>2, <2>3, <3>1, ThreadCounted
  <2>4. ASSUME pc' = [pc EXCEPT ![t] = "lookup"] PROVE (Threads \ Idle)' = Threads \ Idle
    <3>1. "lookup" # "none"
      OBVIOUS
    <3> QED BY <2>1, <2>2, <2>4, <3>1, ThreadCounted
  <2>5. ASSUME pc' = [pc EXCEPT ![t] = "none"]
        PROVE  Cardinality(Threads \ Idle)' = Cardinality(Threads \ Idle) - 1
    BY <2>1, <2>2, <2>5, ThreadCounted
  <2> QED BY <2>3, <2>4, <2>5
<1>3. CASE /\ mPendingQ = << >> /\ mHaveIdleThread' = TRUE
           /\ pc' = [pc EXCEPT ![t] = "idle"] /\ UNCHANGED <<mPendingQ, mThreadCount>>
  <2>1. (Threads \ Idle)' = Threads \ Idle /\ pc'[t] = "idle"
    BY <1>1, <1>3, <1>2
  <2>2. LookupHasThread'
    BY <1>3 DEF LookupHasThread
  <2> QED BY <1>3, <2>1, <2>2 DEF PoolOK
<1>4. CASE /\ mHaveIdleThread' = idle /\ pc' = [pc EXCEPT ![t] = "lookup"] /\ UNCHANGED mThreadCount
  <2>1. (Threads \ Idle)' = Threads \ Idle
    BY <1>4, <1>2
  <2>2. pc'[t] = "lookup" /\ \A u \in Threads : u # t => pc'[u] = pc[u]
    BY <1>1, <1>4
  <2>3. LookupHasThread'
    BY <2>2 DEF LookupHasThread
  <2> QED BY <1>4, <2>1, <2>2, <2>3 DEF PoolOK
<1>5. CASE /\ mPendingQ = << >> /\ mHaveIdleThread' = idle
           /\ pc' = [pc EXCEPT ![t] = "none"] /\ mThreadCount' = mThreadCount - 1
           /\ UNCHANGED mPendingQ
  <2>1. mThreadCount' = Cardinality(Threads \ Idle)'
    BY <1>5, <1>2 DEF PoolOK
  <2>2. pc'[t] = "none" /\ \A u \in Threads : u # t => pc'[u] = pc[u]
    BY <1>1, <1>5
  <2>3. LookupHasThread'
    BY <1>5 DEF LookupHasThread
  <2> QED BY <1>5, <2>1, <2>2, <2>3 DEF PoolOK
<1> QED BY <1>3, <1>4, <1>5, GetHostToLookupStep

-----------------------------------------------------------------------------
(* The queues and the lookups.                                             *)

LEMMA InitLookups == Init => QueuesOK /\ LookupsOK
<1> SUFFICES ASSUME Init PROVE QueuesOK /\ LookupsOK
  OBVIOUS
<1>1. \A t \in Threads : \A r \in Rec : ~ Looking(t, r)
  BY ConstantFacts DEF Init, Looking
<1>2. \A r \in Rec : ~ Pending(r) /\ r \notin ToSet(mEvictionQ)
  BY EmptyList DEF Init, Pending
<1>3. QueuesOK
  BY EmptyList, ConstantFacts DEF Init, QueuesOK
<1>4. \A r \in Rec : ~ resolving[r] /\ callbacks[r] = << >>
  BY DEF Init
<1> QED BY <1>1, <1>2, <1>3, <1>4 DEF LookupsOK

\* No lookup begins or ends.
LEMMA LookupsFrame ==
    ASSUME QueuesOK, LookupsOK,
           UNCHANGED <<mPendingQ, mEvictionQ, pendingQ, mShutdown, resolving>>,
           evictionQ' = evictionQ \/ evictionQ' = << >>,
           pc'[Main] = "run" <=> pc[Main] = "run",
           \A t \in Threads : \A r \in Rec : Looking(t, r)' <=> Looking(t, r),
           \A r \in Rec : ~ resolving[r] /\ callbacks[r] = << >> => callbacks'[r] = << >>
    PROVE  QueuesOK' /\ LookupsOK'
<1>1. QueuesOK'
  BY DEF QueuesOK
<1>2. \A r \in Rec : Pending(r)' <=> Pending(r)
  BY DEF Pending
<1> QED BY <1>1, <1>2 DEF LookupsOK

LEMMA SameLooking ==
    ASSUME UNCHANGED <<pc, work>>
    PROVE  \A t \in Threads : \A r \in Rec : Looking(t, r)' <=> Looking(t, r)
BY DEF Looking

LEMMA ResolveNowLookups ==
    ASSUME QueuesOK, LookupsOK, NEW c \in Callbacks, NEW h \in Hosts, NEW b \in Bypass, NEW r \in Rec,
           ResolveNow(c, h, b, r)
    PROVE  QueuesOK' /\ LookupsOK'
<1>1. UNCHANGED <<callbacks, resolving, queues, mShutdown, thread, local>>
  BY DEF ResolveNow
<1> QED BY <1>1, SameLooking, LookupsFrame DEF queues, thread, local

LEMMA ResolveJoinLookups ==
    ASSUME Typed, QueuesOK, LookupsOK, NEW c \in Callbacks, NEW h \in Hosts, NEW b \in Bypass,
           NEW r \in Rec, ResolveJoin(c, h, b, r)
    PROVE  QueuesOK' /\ LookupsOK'
<1>1. UNCHANGED <<resolving, queues, mShutdown, thread, local>> /\ resolving[r]
      /\ callbacks' = [callbacks EXCEPT ![r] = Append(@, c)]
  BY DEF ResolveJoin
<1>2. \A x \in Rec : ~ resolving[x] => callbacks'[x] = callbacks[x]
  BY <1>1 DEF Typed
<1> QED BY <1>1, <1>2, SameLooking, LookupsFrame DEF queues, thread, local

LEMMA DetachCallbackLookups ==
    ASSUME Typed, QueuesOK, LookupsOK, NEW c \in Callbacks, NEW r \in Rec, DetachCallback(c, r)
    PROVE  QueuesOK' /\ LookupsOK'
<1>1. UNCHANGED <<resolving, queues, mShutdown, thread, local>> /\ c \in ToSet(callbacks[r])
      /\ callbacks' = [callbacks EXCEPT ![r] = RemoveFirst(@, c)]
  BY DEF DetachCallback
<1>2. resolving[r]
  BY <1>1, EmptyList DEF LookupsOK
<1>3. \A x \in Rec : ~ resolving[x] => callbacks'[x] = callbacks[x]
  BY <1>1, <1>2 DEF Typed
<1> QED BY <1>1, <1>3, SameLooking, LookupsFrame DEF queues, thread, local

LEMMA CallFromHandLookups ==
    ASSUME QueuesOK, LookupsOK, NEW c \in Callbacks, CallFromHand(c)
    PROVE  QueuesOK' /\ LookupsOK'
<1>1. UNCHANGED <<callbacks, resolving, queues, mShutdown, thread, local>>
  BY DEF CallFromHand
<1> QED BY <1>1, SameLooking, LookupsFrame DEF queues, thread, local

LEMMA CallNextLookups ==
    ASSUME QueuesOK, LookupsOK, NEW t \in Workers, CallNext(t)
    PROVE  QueuesOK' /\ LookupsOK'
<1>1. UNCHANGED <<records, queues, mShutdown, pc, work, local>>
  BY DEF CallNext
<1> QED BY <1>1, SameLooking, LookupsFrame DEF records, queues, local

LEMMA CallsDoneLookups ==
    ASSUME Typed, ThreadsOK, QueuesOK, LookupsOK, NEW t \in Workers, CallsDone(t)
    PROVE  QueuesOK' /\ LookupsOK'
<1>1. UNCHANGED <<callbacks, resolving, queues, mShutdown, local>> /\ pc[t] = "calling"
      /\ work' = [work EXCEPT ![t] = None]
      /\ pc' = [pc EXCEPT ![t] = IF t = Main THEN "abort" ELSE "get"]
  BY DEF CallsDone
<1>2. /\ pc'[t] = (IF t = Main THEN "abort" ELSE "get")
      /\ \A u \in Workers : u # t => pc'[u] = pc[u] /\ work'[u] = work[u]
  BY <1>1 DEF Typed
<1>3. \A u \in Threads : \A r \in Rec : Looking(u, r)' <=> Looking(u, r)
  BY <1>1, <1>2, ConstantFacts DEF Looking
<1>4. pc'[Main] = "run" <=> pc[Main] = "run"
  BY <1>1, <1>2, ConstantFacts
<1> QED BY <1>1, <1>3, <1>4, LookupsFrame DEF queues, local

LEMMA ReleaseEvictedLookups ==
    ASSUME Typed, ThreadsOK, QueuesOK, LookupsOK, ReleaseEvicted
    PROVE  QueuesOK' /\ LookupsOK'
<1>1. UNCHANGED <<callbacks, resolving, queues, mShutdown, work, pendingQ>> /\ evictionQ' = << >>
      /\ pc[Main] = "abort" /\ pc' = [pc EXCEPT ![Main] = "down"]
  BY DEF ReleaseEvicted
<1>2. pc'[Main] = "down" /\ \A u \in Workers : u # Main => pc'[u] = pc[u]
  BY <1>1, ConstantFacts DEF Typed
<1>3. \A u \in Threads : \A r \in Rec : Looking(u, r)' <=> Looking(u, r)
  BY <1>1, <1>2, ConstantFacts DEF Looking
<1>4. pc'[Main] = "run" <=> pc[Main] = "run"
  BY <1>1, <1>2
<1> QED BY <1>1, <1>3, <1>4, LookupsFrame DEF queues

\* A record without an owner is nowhere.
LEMMA Bits == \A p \in BOOLEAN : Bit(p) \in {0, 1} /\ (Bit(p) = 0 <=> ~ p) /\ (Bit(p) = 1 <=> p)
BY DEF Bit

LEMMA OwnerCounts ==
    ASSUME Typed, OwnersOK, NEW r \in Rec
    PROVE  /\ IsFiniteSet(WorkOf(r)) /\ IsFiniteSet(HandOf(r))
           /\ Cardinality(WorkOf(r)) \in Nat /\ Cardinality(HandOf(r)) \in Nat
           /\ refc[r] = Bit(r \in mDB) + Bit(r \in ToSet(mPendingQ)) + Bit(r \in ToSet(mEvictionQ))
                        + Bit(r \in ToSet(pendingQ)) + Bit(r \in ToSet(evictionQ))
                        + Cardinality(WorkOf(r)) + Cardinality(HandOf(r))
<1>1. WorkOf(r) \subseteq Workers
  BY DEF WorkOf
<1>2. IsFiniteSet(WorkOf(r)) /\ IsFiniteSet(HandOf(r))
  BY <1>1, ConstantFacts, FS_Subset DEF OwnersOK
<1>3. Cardinality(WorkOf(r)) \in Nat /\ Cardinality(HandOf(r)) \in Nat
  BY <1>2, FS_CardinalityType
<1> QED BY <1>2, <1>3 DEF OwnersOK, RefsExact, Occurs, WorkOf, HandOf

LEMMA FreeNowhere ==
    ASSUME Typed, OwnersOK, NEW r \in Rec, refc[r] = 0
    PROVE  /\ r \notin mDB /\ r \notin ToSet(mPendingQ) /\ r \notin ToSet(mEvictionQ)
           /\ r \notin ToSet(pendingQ) /\ r \notin ToSet(evictionQ)
           /\ \A t \in Workers : work[t] # r
           /\ \A c \in Callbacks : hand[c] # r
<1>1. Cardinality(WorkOf(r)) = 0 /\ Cardinality(HandOf(r)) = 0
      /\ r \notin mDB /\ r \notin ToSet(mPendingQ) /\ r \notin ToSet(mEvictionQ)
      /\ r \notin ToSet(pendingQ) /\ r \notin ToSet(evictionQ)
  <2>1. /\ Bit(r \in mDB) \in {0, 1} /\ Bit(r \in ToSet(mPendingQ)) \in {0, 1}
        /\ Bit(r \in ToSet(mEvictionQ)) \in {0, 1} /\ Bit(r \in ToSet(pendingQ)) \in {0, 1}
        /\ Bit(r \in ToSet(evictionQ)) \in {0, 1}
    BY DEF Bit
  <2>2. /\ Bit(r \in mDB) = 0 /\ Bit(r \in ToSet(mPendingQ)) = 0
        /\ Bit(r \in ToSet(mEvictionQ)) = 0 /\ Bit(r \in ToSet(pendingQ)) = 0
        /\ Bit(r \in ToSet(evictionQ)) = 0
        /\ Cardinality(WorkOf(r)) = 0 /\ Cardinality(HandOf(r)) = 0
    BY <2>1, OwnerCounts
  <2> QED BY <2>2 DEF Bit
<1>2. WorkOf(r) = {} /\ HandOf(r) = {}
  BY <1>1, OwnerCounts, FS_EmptySet
<1> QED BY <1>1, <1>2 DEF WorkOf, HandOf

\* A record that is not in the table and has no owner is not resolving.
LEMMA NotResolving ==
    ASSUME Typed, OwnersOK, LookupsOK, NEW r \in Rec, refc[r] = 0
    PROVE  ~ resolving[r] /\ callbacks[r] = << >>
<1>1. ~ resolving[r]
  BY FreeNowhere, ConstantFacts DEF LookupsOK, Looking, Pending
<1> QED BY <1>1 DEF LookupsOK

LEMMA ResolveLookupLookups ==
    ASSUME Typed, ThreadsOK, PoolOK, OwnersOK, QueuesOK, LookupsOK, NEW c \in Callbacks, NEW h \in Hosts,
           NEW b \in Bypass, NEW r \in Rec, NEW ok \in BOOLEAN, ResolveLookup(c, h, b, r, ok)
    PROVE  /\ QueuesOK' /\ LookupsOK'
           /\ ~ resolving[r] /\ callbacks[r] = << >> /\ ~ Pending(r)
           /\ mPendingQ' = Append(mPendingQ, r) /\ ToSet(mPendingQ)' = ToSet(mPendingQ) \cup {r}
           /\ ToSet(mEvictionQ)' = ToSet(mEvictionQ) \ {r}
           /\ Len(mEvictionQ') = Len(mEvictionQ) - Bit(r \in ToSet(mEvictionQ))
<1>. USE ConstantFacts
<1>1. ~ mShutdown /\ UNCHANGED <<mShutdown, local, work>>
      /\ mEvictionQ' = RemoveFirst(mEvictionQ, r) /\ mPendingQ' = Append(mPendingQ, r)
      /\ resolving' = [resolving EXCEPT ![r] = TRUE]
      /\ callbacks' = [callbacks EXCEPT ![r] = IF ok THEN Append(@, c) ELSE @]
  BY DEF ResolveLookup, Ask
<1>2. ~ resolving[r]
  <2>1. r \in mDB \/ refc[r] = 0
    BY EntryFacts DEF ResolveLookup
  <2> QED BY <2>1, NotResolving DEF ResolveLookup
<1>3. callbacks[r] = << >> /\ ~ Pending(r)
  BY <1>2 DEF LookupsOK
<1>4. mPendingQ \in Seq(Rec) /\ mEvictionQ \in Seq(Rec)
  BY DEF Typed
<1>5. Distinct(mPendingQ') /\ ToSet(mPendingQ)' = ToSet(mPendingQ) \cup {r}
  BY <1>1, <1>3, <1>4, AppendSet DEF Pending, QueuesOK
<1>6. Distinct(mEvictionQ') /\ ToSet(mEvictionQ)' = ToSet(mEvictionQ) \ {r}
      /\ Len(mEvictionQ') = Len(mEvictionQ) - Bit(r \in ToSet(mEvictionQ))
  BY <1>1, <1>4, RemoveSet DEF QueuesOK, Bit
<1>7. WakeOrCreate(ok)
  BY DEF ResolveLookup
<1>8. \A t \in Workers : pc'[t] = pc[t] \/ (t \in Threads /\ pc[t] = "none" /\ pc'[t] = "get")
  <2>1. pc' = pc \/ \E t \in Idle : pc' = [pc EXCEPT ![t] = "get"]
    BY <1>7, WakeOrCreateStep
  <2> QED BY <2>1 DEF Idle, Typed
<1>9. QueuesOK'
  BY <1>1, <1>5, <1>6, <1>8 DEF QueuesOK, local
<1>10. \A t \in Threads : \A x \in Rec : Looking(t, x)' <=> Looking(t, x)
  BY <1>1, <1>8 DEF Looking
<1>11. \A x \in Rec : Pending(x)' <=> Pending(x) \/ x = r
  BY <1>1, <1>5 DEF Pending, local
<1>12. /\ resolving'[r] /\ \A x \in Rec : x # r => resolving'[x] = resolving[x]
       /\ \A x \in Rec : x # r => callbacks'[x] = callbacks[x]
  BY <1>1 DEF Typed
<1>13. \A t \in Threads : ~ Looking(t, r)
  BY <1>2 DEF LookupsOK
<1>14. LookupsOK'
  BY <1>6, <1>10, <1>11, <1>12, <1>13 DEF LookupsOK
<1> QED BY <1>1, <1>2, <1>3, <1>5, <1>6, <1>9, <1>14

LEMMA GetHostToLookupLookups ==
    ASSUME Typed, ThreadsOK, QueuesOK, LookupsOK, NEW t \in Threads, NEW idle \in BOOLEAN,
           NEW expired \in BOOLEAN, pc[t] \in {"get", "idle"}, GetHostToLookup(t, idle, expired)
    PROVE  QueuesOK' /\ LookupsOK'
<1>. USE ConstantFacts
<1>1. UNCHANGED <<records, mEvictionQ, mShutdown, local>>
  BY GetHostToLookupStep
<1>2. ASSUME NEW v \in {"idle", "none"}, pc' = [pc EXCEPT ![t] = v], UNCHANGED <<work, mPendingQ>>
      PROVE  QueuesOK' /\ LookupsOK'
  <2>1. pc'[t] = v /\ \A u \in Workers : u # t => pc'[u] = pc[u]
    BY <1>2 DEF Typed
  <2>2. \A u \in Threads : \A r \in Rec : Looking(u, r)' <=> Looking(u, r)
    BY <1>2, <2>1 DEF Looking
  <2>3. pc'[Main] = pc[Main]
    BY <2>1
  <2> QED BY <1>1, <1>2, <2>2, <2>3, LookupsFrame DEF records, local
<1>3. CASE /\ mPendingQ # << >> /\ pc' = [pc EXCEPT ![t] = "lookup"]
           /\ work' = [work EXCEPT ![t] = Head(mPendingQ)] /\ mPendingQ' = Tail(mPendingQ)
  <2>1. /\ mPendingQ' \in Seq(Rec) /\ Head(mPendingQ) \in Rec /\ Head(mPendingQ) \in ToSet(mPendingQ)
        /\ Distinct(mPendingQ') /\ ToSet(mPendingQ)' = ToSet(mPendingQ) \ {Head(mPendingQ)}
    BY <1>3, TailSet DEF Typed, QueuesOK
  <2>2. PICK r \in Rec : r = Head(mPendingQ)
    BY <2>1
  <2>3. /\ pc'[t] = "lookup" /\ work'[t] = r
        /\ \A u \in Workers : u # t => pc'[u] = pc[u] /\ work'[u] = work[u]
    BY <1>3, <2>2 DEF Typed
  <2>4. QueuesOK'
    BY <1>1, <1>3, <2>1, <2>3 DEF QueuesOK, local
  <2>5. \A x \in Rec : Pending(x)' <=> Pending(x) /\ x # r
    <3>1. r \in ToSet(mPendingQ) /\ r \notin ToSet(pendingQ)
      BY <2>1, <2>2, EmptyList DEF QueuesOK
    <3> QED BY <1>1, <2>1, <2>2, <3>1 DEF Pending, local
  <2>6. \A u \in Threads : \A x \in Rec : Looking(u, x)' <=> Looking(u, x) \/ (u = t /\ x = r)
    BY <2>3 DEF Looking
  <2>7. Pending(r) /\ \A u \in Threads : ~ Looking(u, r)
    BY <2>1, <2>2 DEF LookupsOK, Pending
  <2>8. \A x \in Rec : ~ Looking(t, x)
    BY DEF Looking
  <2>9. LookupsOK'
    <3>1. UNCHANGED <<mEvictionQ, resolving, callbacks>>
      BY <1>1 DEF records
    <3>2. \A u, v \in Threads : \A x \in Rec : Looking(u, x)' /\ Looking(v, x)' => u = v
      BY <2>6, <2>7 DEF LookupsOK
    <3>3. \A u \in Threads, x \in Rec : Looking(u, x)' => ~ Pending(x)'
      BY <2>5, <2>6 DEF LookupsOK
    <3>4. \A x \in Rec : resolving'[x] <=> Pending(x)' \/ \E u \in Threads : Looking(u, x)'
      BY <2>5, <2>6, <2>7, <3>1 DEF LookupsOK
    <3>5. /\ \A x \in Rec : resolving'[x] => x \notin ToSet(mEvictionQ')
          /\ \A x \in Rec : ~ resolving'[x] => callbacks'[x] = << >>
      BY <3>1 DEF LookupsOK
    <3> QED BY <3>2, <3>3, <3>4, <3>5 DEF LookupsOK
  <2> QED BY <2>4, <2>9
<1> QED BY <1>2, <1>3, GetHostToLookupStep

\* What OnLookupComplete does to the queues and to the record.
LEMMA CompleteQueues ==
    ASSUME Typed, QueuesOK, OwnersOK, NEW t \in Workers, NEW r \in Rec, NEW ok \in BOOLEAN,
           r \notin ToSet(mEvictionQ), Complete(t, r, ok)
    PROVE  /\ mEvictionQ' \in Seq(Rec) /\ Distinct(mEvictionQ')
           /\ mShutdown => mEvictionQ' = mEvictionQ
           /\ ToSet(mEvictionQ)' \subseteq ToSet(mEvictionQ) \cup {r}
           /\ mEvictionQSize' = Len(mEvictionQ') /\ mEvictionQSize' <= MaxCache
<1>. USE ConstantFacts
<1>. PICK q \in Seq(Rec) : q = Append(mEvictionQ, r)
  BY AppendSet DEF Typed
<1>1. q # << >> /\ Distinct(q) /\ ToSet(q) = ToSet(mEvictionQ) \cup {r} /\ Len(q) = Len(mEvictionQ) + 1
  <2>1. mEvictionQ \in Seq(Rec) /\ Distinct(mEvictionQ)
    BY DEF Typed, QueuesOK
  <2>2. /\ q # << >> /\ ToSet(q) = ToSet(mEvictionQ) \cup {r} /\ Len(q) = Len(mEvictionQ) + 1
        /\ Distinct(mEvictionQ) /\ r \notin ToSet(mEvictionQ) => Distinct(q)
    BY <2>1, AppendSet
  <2> QED BY <2>1, <2>2
<1>2. Tail(q) \in Seq(Rec) /\ Distinct(Tail(q)) /\ ToSet(Tail(q)) \subseteq ToSet(q)
      /\ Len(Tail(q)) = Len(q) - 1
  <2>1. /\ Tail(q) \in Seq(Rec) /\ Len(Tail(q)) = Len(q) - 1
        /\ Distinct(q) => Distinct(Tail(q)) /\ ToSet(Tail(q)) = ToSet(q) \ {Head(q)}
    BY <1>1, TailSet
  <2> QED BY <1>1, <2>1
<1>3. mEvictionQ \in Seq(Rec) /\ Len(mEvictionQ) \in Nat /\ MaxCache \in Nat
      /\ mEvictionQSize = Len(mEvictionQ) /\ mEvictionQSize <= MaxCache
  BY DEF Typed, OwnersOK
<1>4. /\ mEvictionQ' = IF (ok /\ ~ mShutdown) /\ Over THEN Tail(q)
                       ELSE IF ok /\ ~ mShutdown THEN q ELSE mEvictionQ
      /\ mEvictionQSize' = mEvictionQSize + Bit((ok /\ ~ mShutdown) /\ ~ ((ok /\ ~ mShutdown) /\ Over))
  BY DEF Complete
<1>5. CASE (ok /\ ~ mShutdown) /\ Over
  <2>1. mEvictionQ' = Tail(q) /\ mEvictionQSize' = mEvictionQSize + 0
    BY <1>4, <1>5 DEF Bit
  <2> QED BY <1>1, <1>2, <1>3, <1>5, <2>1
<1>6. CASE (ok /\ ~ mShutdown) /\ ~ Over
  <2>1. mEvictionQ' = q /\ mEvictionQSize' = mEvictionQSize + 1
    BY <1>4, <1>6 DEF Bit
  <2> QED BY <1>1, <1>3, <1>6, <2>1 DEF Over
<1>7. CASE ~ (ok /\ ~ mShutdown)
  <2>1. mEvictionQ' = mEvictionQ /\ mEvictionQSize' = mEvictionQSize + 0
    BY <1>4, <1>7 DEF Bit
  <2> QED BY <1>3, <2>1 DEF QueuesOK
<1> QED BY <1>5, <1>6, <1>7

LEMMA LookupDoneLookups ==
    ASSUME Typed, ThreadsOK, QueuesOK, LookupsOK, OwnersOK, NEW t \in Threads, NEW ok \in BOOLEAN,
           LookupDone(t, ok)
    PROVE  QueuesOK' /\ LookupsOK'
<1>. USE ConstantFacts
<1>1. PICK r \in Rec : r = work[t]
  BY Handles DEF LookupDone
<1>2. pc[t] = "lookup" /\ Looking(t, r) /\ Complete(t, r, ok) /\ UNCHANGED local
  BY <1>1 DEF LookupDone, Looking
<1>3. resolving[r] /\ r \notin ToSet(mEvictionQ) /\ ~ Pending(r)
      /\ \A u \in Threads : Looking(u, r) => u = t
  BY <1>2 DEF LookupsOK
<1>4. /\ Distinct(mEvictionQ')
      /\ mShutdown => mEvictionQ' = mEvictionQ
      /\ ToSet(mEvictionQ)' \subseteq ToSet(mEvictionQ) \cup {r}
  BY <1>2, <1>3, CompleteQueues
<1>5. /\ callbacks' = [callbacks EXCEPT ![r] = << >>] /\ resolving' = [resolving EXCEPT ![r] = FALSE]
      /\ UNCHANGED <<mPendingQ, mShutdown>>
  BY <1>2 DEF Complete, TakeCallbacks, EndResolving
<1>6. /\ pc'[t] = "calling" /\ \A u \in Workers : u # t => pc'[u] = pc[u] /\ work'[u] = work[u]
  <2>1. pc' = [pc EXCEPT ![t] = "calling"] /\ work' = [work EXCEPT ![t] = r]
    BY <1>2 DEF Complete
  <2> QED BY <2>1 DEF Typed
<1>7. QueuesOK'
  BY <1>2, <1>4, <1>5, <1>6 DEF QueuesOK, local
<1>8. \A x \in Rec : Pending(x)' <=> Pending(x)
  BY <1>2, <1>5 DEF Pending, local
<1>9. \A u \in Threads : \A x \in Rec : Looking(u, x)' <=> Looking(u, x) /\ u # t
  BY <1>6 DEF Looking
<1>10. \A x \in Rec : Looking(t, x) => x = r
  BY <1>1 DEF Looking
<1>11. /\ ~ resolving'[r] /\ callbacks'[r] = << >>
       /\ \A x \in Rec : x # r => resolving'[x] = resolving[x] /\ callbacks'[x] = callbacks[x]
  BY <1>5 DEF Typed
<1>12. LookupsOK'
  BY <1>3, <1>4, <1>8, <1>9, <1>10, <1>11 DEF LookupsOK
<1> QED BY <1>7, <1>12

LEMMA AbortLookups ==
    ASSUME Typed, ThreadsOK, QueuesOK, LookupsOK, OwnersOK, Abort
    PROVE  QueuesOK' /\ LookupsOK'
<1>. USE ConstantFacts
<1>1. pc[Main] = "abort" /\ pendingQ # << >> /\ pendingQ \in Seq(Rec) /\ Distinct(pendingQ)
  BY DEF Abort, Typed, QueuesOK
<1>2. PICK r \in Rec : r = Head(pendingQ)
  BY <1>1, TailSet
<1>3. /\ Complete(Main, r, FALSE) /\ pendingQ' = Tail(pendingQ) /\ UNCHANGED evictionQ
      /\ r \in ToSet(pendingQ) /\ Distinct(pendingQ') /\ ToSet(pendingQ)' = ToSet(pendingQ) \ {r}
  BY <1>1, <1>2, TailSet DEF Abort
<1>4. mShutdown /\ mPendingQ = << >> /\ mEvictionQ = << >>
  BY <1>1 DEF QueuesOK
<1>5. resolving[r] /\ \A u \in Threads : ~ Looking(u, r)
  BY <1>3 DEF LookupsOK, Pending
<1>6. /\ callbacks' = [callbacks EXCEPT ![r] = << >>] /\ resolving' = [resolving EXCEPT ![r] = FALSE]
      /\ UNCHANGED <<mPendingQ, mShutdown>> /\ mEvictionQ' = mEvictionQ
  BY <1>3, <1>4 DEF Complete, TakeCallbacks, EndResolving
<1>7. /\ pc'[Main] = "calling" /\ \A u \in Workers : u # Main => pc'[u] = pc[u] /\ work'[u] = work[u]
  <2>1. pc' = [pc EXCEPT ![Main] = "calling"] /\ work' = [work EXCEPT ![Main] = r]
    BY <1>3 DEF Complete
  <2> QED BY <2>1 DEF Typed
<1>8. QueuesOK'
  BY <1>3, <1>4, <1>6, <1>7 DEF QueuesOK
<1>9. \A x \in Rec : Pending(x)' <=> Pending(x) /\ x # r
  BY <1>3, <1>4, <1>6, EmptyList DEF Pending
<1>10. \A u \in Threads : \A x \in Rec : Looking(u, x)' <=> Looking(u, x)
  BY <1>7 DEF Looking
<1>11. /\ ~ resolving'[r] /\ callbacks'[r] = << >>
       /\ \A x \in Rec : x # r => resolving'[x] = resolving[x] /\ callbacks'[x] = callbacks[x]
  BY <1>6 DEF Typed
<1>12. LookupsOK'
  BY <1>5, <1>6, <1>9, <1>10, <1>11 DEF LookupsOK
<1> QED BY <1>8, <1>12

LEMMA ShutdownLookups ==
    ASSUME Typed, ThreadsOK, QueuesOK, LookupsOK, Shutdown
    PROVE  QueuesOK' /\ LookupsOK'
<1>. USE ConstantFacts
<1>1. /\ pc[Main] = "run" /\ mShutdown' /\ pendingQ' = mPendingQ
      /\ mPendingQ' = << >> /\ mEvictionQ' = << >>
      /\ UNCHANGED <<callbacks, resolving, work>> /\ pc' = [pc EXCEPT ![Main] = "abort"]
  BY DEF Shutdown, LocalPending
<1>2. pc'[Main] = "abort" /\ \A u \in Workers : u # Main => pc'[u] = pc[u]
  BY <1>1 DEF Typed
<1>3. QueuesOK'
  BY <1>1, <1>2, EmptyList DEF QueuesOK
<1>4. \A x \in Rec : Pending(x)' <=> Pending(x)
  BY <1>1, EmptyList DEF Pending, QueuesOK
<1>5. \A u \in Threads : \A x \in Rec : Looking(u, x)' <=> Looking(u, x)
  BY <1>1, <1>2 DEF Looking
<1>6. LookupsOK'
  BY <1>1, <1>4, <1>5, EmptyList DEF LookupsOK
<1> QED BY <1>3, <1>6

-----------------------------------------------------------------------------
(* Reference counts.                                                       *)

\* The number of places that own a reference to r.
Owned(r) == Bit(r \in mDB) + Bit(r \in ToSet(mPendingQ)) + Bit(r \in ToSet(mEvictionQ))
            + Bit(r \in ToSet(pendingQ)) + Bit(r \in ToSet(evictionQ))
            + Cardinality(WorkOf(r)) + Cardinality(HandOf(r))

LEMMA OwnersUnfold ==
    OwnersOK <=> /\ \A r \in Rec : IsFiniteSet(HandOf(r)) /\ refc[r] = Owned(r)
                 /\ mEvictionQSize = Len(mEvictionQ) /\ mEvictionQSize <= MaxCache
BY DEF OwnersOK, RefsExact, Owned, Occurs, WorkOf, HandOf

LEMMA OwnersUnfoldNext ==
    OwnersOK' <=> /\ \A r \in Rec : IsFiniteSet(HandOf(r))' /\ refc'[r] = Owned(r)'
                  /\ mEvictionQSize' = Len(mEvictionQ') /\ mEvictionQSize' <= MaxCache
BY DEF OwnersOK, RefsExact, Owned, Occurs, WorkOf, HandOf

LEMMA SameWork ==
    ASSUME UNCHANGED work PROVE \A r \in Rec : Cardinality(WorkOf(r))' = Cardinality(WorkOf(r))
BY DEF WorkOf

LEMMA SameHand ==
    ASSUME UNCHANGED hand
    PROVE  \A r \in Rec : /\ Cardinality(HandOf(r))' = Cardinality(HandOf(r))
                          /\ IsFiniteSet(HandOf(r)) => IsFiniteSet(HandOf(r))'
BY DEF HandOf

\* A thread gets a record ...
LEMMA WorkGained ==
    ASSUME Typed, NEW t \in Workers, NEW v \in Rec, work[t] = None, work' = [work EXCEPT ![t] = v],
           NEW r \in Rec
    PROVE  Cardinality(WorkOf(r))' = Cardinality(WorkOf(r)) + Bit(r = v)
<1>. USE ConstantFacts
<1>1. work'[t] = v /\ \A u \in Workers : u # t => work'[u] = work[u]
  BY DEF Typed
<1>2. IsFiniteSet(WorkOf(r)) /\ Cardinality(WorkOf(r)) \in Nat
  <2>1. WorkOf(r) \subseteq Workers
    BY DEF WorkOf
  <2> QED BY <2>1, FS_Subset, FS_CardinalityType
<1>3. CASE r = v
  <2>1. t \notin WorkOf(r) /\ WorkOf(r)' = WorkOf(r) \cup {t}
    BY <1>1, <1>3 DEF WorkOf
  <2> QED BY <1>2, <1>3, <2>1, FS_AddElement DEF Bit
<1>4. CASE r # v
  <2>1. WorkOf(r)' = WorkOf(r)
    BY <1>1, <1>4 DEF WorkOf
  <2> QED BY <1>2, <1>4, <2>1 DEF Bit
<1> QED BY <1>3, <1>4

\* ... and lets go of it.
LEMMA WorkLost ==
    ASSUME Typed, NEW t \in Workers, NEW v \in Rec, work[t] = v, work' = [work EXCEPT ![t] = None],
           NEW r \in Rec
    PROVE  Cardinality(WorkOf(r))' = Cardinality(WorkOf(r)) - Bit(r = v)
<1>. USE ConstantFacts
<1>1. work'[t] = None /\ \A u \in Workers : u # t => work'[u] = work[u]
  BY DEF Typed
<1>2. IsFiniteSet(WorkOf(r)) /\ Cardinality(WorkOf(r)) \in Nat
  <2>1. WorkOf(r) \subseteq Workers
    BY DEF WorkOf
  <2> QED BY <2>1, FS_Subset, FS_CardinalityType
<1>3. CASE r = v
  <2>1. t \in WorkOf(r) /\ WorkOf(r)' = WorkOf(r) \ {t}
    BY <1>1, <1>3 DEF WorkOf
  <2>2. Cardinality(WorkOf(r) \ {t}) = Cardinality(WorkOf(r)) - 1
    BY <1>2, <2>1, FS_RemoveElement
  <2>3. Bit(r = v) = 1
    BY <1>3 DEF Bit
  <2> QED BY <2>1, <2>2, <2>3
<1>4. CASE r # v
  <2>1. WorkOf(r)' = WorkOf(r)
    BY <1>1, <1>4 DEF WorkOf
  <2> QED BY <1>2, <1>4, <2>1 DEF Bit
<1> QED BY <1>3, <1>4

\* The same for a caller that is about to be called back.
LEMMA HandGained ==
    ASSUME Typed, OwnersOK, NEW c \in Callbacks, NEW v \in Rec, hand[c] = None,
           hand' = [hand EXCEPT ![c] = v], NEW r \in Rec
    PROVE  /\ Cardinality(HandOf(r))' = Cardinality(HandOf(r)) + Bit(r = v)
           /\ IsFiniteSet(HandOf(r))'
<1>. USE ConstantFacts
<1>1. hand'[c] = v /\ \A d \in Callbacks : d # c => hand'[d] = hand[d]
  BY DEF Typed
<1>2. IsFiniteSet(HandOf(r)) /\ Cardinality(HandOf(r)) \in Nat
  BY OwnerCounts
<1>3. CASE r = v
  <2>1. c \notin HandOf(r) /\ HandOf(r)' = HandOf(r) \cup {c}
    BY <1>1, <1>3 DEF HandOf
  <2> QED BY <1>2, <1>3, <2>1, FS_AddElement DEF Bit
<1>4. CASE r # v
  <2>1. HandOf(r)' = HandOf(r)
    BY <1>1, <1>4 DEF HandOf
  <2> QED BY <1>2, <1>4, <2>1 DEF Bit
<1> QED BY <1>3, <1>4

LEMMA HandLost ==
    ASSUME Typed, OwnersOK, NEW c \in Callbacks, NEW v \in Rec, hand[c] = v,
           hand' = [hand EXCEPT ![c] = None], NEW r \in Rec
    PROVE  /\ Cardinality(HandOf(r))' = Cardinality(HandOf(r)) - Bit(r = v)
           /\ IsFiniteSet(HandOf(r))'
<1>. USE ConstantFacts
<1>1. hand'[c] = None /\ \A d \in Callbacks : d # c => hand'[d] = hand[d]
  BY DEF Typed
<1>2. IsFiniteSet(HandOf(r)) /\ Cardinality(HandOf(r)) \in Nat
  BY OwnerCounts
<1>3. CASE r = v
  <2>1. c \in HandOf(r) /\ HandOf(r)' = HandOf(r) \ {c}
    BY <1>1, <1>3 DEF HandOf
  <2> QED BY <1>2, <1>3, <2>1, FS_RemoveElement DEF Bit
<1>4. CASE r # v
  <2>1. HandOf(r)' = HandOf(r)
    BY <1>1, <1>4 DEF HandOf
  <2> QED BY <1>2, <1>4, <2>1 DEF Bit
<1> QED BY <1>3, <1>4

LEMMA InitOwners == Init => OwnersOK
<1> SUFFICES ASSUME Init PROVE OwnersOK
  OBVIOUS
<1>1. ASSUME NEW r \in Rec PROVE IsFiniteSet(HandOf(r)) /\ refc[r] = Owned(r)
  <2>1. WorkOf(r) = {} /\ HandOf(r) = {}
    BY ConstantFacts DEF Init, WorkOf, HandOf
  <2>2. Cardinality(WorkOf(r)) = 0 /\ Cardinality(HandOf(r)) = 0 /\ IsFiniteSet(HandOf(r))
    BY <2>1, FS_EmptySet
  <2>3. refc[r] = 0 /\ r \notin mDB /\ r \notin ToSet(mPendingQ) /\ r \notin ToSet(mEvictionQ)
        /\ r \notin ToSet(pendingQ) /\ r \notin ToSet(evictionQ)
    BY EmptyList DEF Init
  <2> QED BY <2>2, <2>3 DEF Owned, Bit
<1>2. mEvictionQSize = Len(mEvictionQ) /\ mEvictionQSize <= MaxCache
  BY ConstantFacts DEF Init
<1> QED BY <1>1, <1>2, OwnersUnfold

LEMMA ResolveNowOwners ==
    ASSUME Typed, OwnersOK, CallbacksOK, NEW c \in Callbacks, NEW h \in Hosts, NEW b \in Bypass, NEW r \in Rec,
           ResolveNow(c, h, b, r)
    PROVE  OwnersOK'
<1>1. /\ UNCHANGED <<queues, thread, local>> /\ hand' = [hand EXCEPT ![c] = r]
      /\ refc' = [refc EXCEPT ![r] = @ + 1 + Bit(r \notin mDB)] /\ mDB' = mDB \cup {r}
  BY EntryFacts DEF ResolveNow
<1>2. hand[c] = None
  BY DEF ResolveNow, Ask, CallbacksOK, CallbackOK
<1>3. ASSUME NEW x \in Rec PROVE IsFiniteSet(HandOf(x))' /\ refc'[x] = Owned(x)'
  <2>1. Cardinality(HandOf(x))' = Cardinality(HandOf(x)) + Bit(x = r) /\ IsFiniteSet(HandOf(x))'
    BY <1>1, <1>2, HandGained
  <2>2. Cardinality(WorkOf(x))' = Cardinality(WorkOf(x))
    BY <1>1, SameWork DEF thread
  <2>3. refc'[x] = refc[x] + IF x = r THEN 1 + Bit(r \notin mDB) ELSE 0
    <3>1. Bit(r \notin mDB) \in Int /\ refc \in [Rec -> Int]
      BY DEF Bit, Typed
    <3> QED BY <1>1, <3>1
  <2>4. refc[x] = Owned(x) /\ Cardinality(WorkOf(x)) \in Nat /\ Cardinality(HandOf(x)) \in Nat
    BY OwnersUnfold, OwnerCounts
  <2> QED BY <1>1, <2>1, <2>2, <2>3, <2>4 DEF Owned, Bit, queues, local
<1>4. mEvictionQSize' = Len(mEvictionQ') /\ mEvictionQSize' <= MaxCache
  BY <1>1 DEF OwnersOK, queues
<1> QED BY <1>3, <1>4, OwnersUnfoldNext

LEMMA OwnersFrame ==
    ASSUME OwnersOK, UNCHANGED <<mDB, refc, queues, local, work, hand>>
    PROVE  OwnersOK'
BY DEF OwnersOK, RefsExact, HandOf, queues, local

LEMMA ResolveLookupOwners ==
    ASSUME Inv, NEW c \in Callbacks, NEW h \in Hosts,
           NEW b \in Bypass, NEW r \in Rec, NEW ok \in BOOLEAN, ResolveLookup(c, h, b, r, ok)
    PROVE  OwnersOK'
<1>1. /\ UNCHANGED <<work, local, hand>> /\ mDB' = mDB \cup {r}
      /\ refc' = [refc EXCEPT ![r] = @ + Bit(~ OnEvictionQ(r)) + Bit(r \notin mDB)]
      /\ mEvictionQSize' = mEvictionQSize - Bit(OnEvictionQ(r))
  BY EntryFacts DEF ResolveLookup, SizeWithout, Inv
<1>2. /\ ~ Pending(r) /\ ToSet(mPendingQ)' = ToSet(mPendingQ) \cup {r}
      /\ ToSet(mEvictionQ)' = ToSet(mEvictionQ) \ {r}
      /\ Len(mEvictionQ') = Len(mEvictionQ) - Bit(r \in ToSet(mEvictionQ))
  BY ResolveLookupLookups DEF Inv
<1>3. Typed /\ OwnersOK
  BY DEF Inv
<1>4. ASSUME NEW x \in Rec PROVE IsFiniteSet(HandOf(x))' /\ refc'[x] = Owned(x)'
  <2>1. Cardinality(HandOf(x))' = Cardinality(HandOf(x)) /\ IsFiniteSet(HandOf(x))'
    BY <1>1, <1>3, SameHand DEF OwnersOK
  <2>2. Cardinality(WorkOf(x))' = Cardinality(WorkOf(x))
    BY <1>1, SameWork
  <2>3. refc'[x] = refc[x] + IF x = r THEN Bit(~ OnEvictionQ(r)) + Bit(r \notin mDB) ELSE 0
    <3>1. Bit(r \notin mDB) \in Int /\ Bit(~ OnEvictionQ(r)) \in Int /\ refc \in [Rec -> Int]
      BY <1>3 DEF Bit, Typed
    <3> QED BY <1>1, <3>1
  <2>4. refc[x] = Owned(x) /\ Cardinality(WorkOf(x)) \in Nat /\ Cardinality(HandOf(x)) \in Nat
    BY <1>3, OwnersUnfold, OwnerCounts
  <2>5. ToSet(pendingQ)' = ToSet(pendingQ) /\ ToSet(evictionQ)' = ToSet(evictionQ)
    BY <1>1 DEF local
  <2>6. CASE x # r
    <3>1. /\ x \in mDB' <=> x \in mDB
          /\ x \in ToSet(mPendingQ)' <=> x \in ToSet(mPendingQ)
          /\ x \in ToSet(mEvictionQ)' <=> x \in ToSet(mEvictionQ)
      BY <1>1, <1>2, <2>6
    <3> QED BY <2>1, <2>2, <2>3, <2>4, <2>5, <2>6, <3>1 DEF Owned, Bit
  <2>7. CASE x = r
    <3>1. x \in mDB' /\ x \in ToSet(mPendingQ)' /\ x \notin ToSet(mEvictionQ)'
          /\ x \notin ToSet(mPendingQ)
      BY <1>1, <1>2, <2>7 DEF Pending
    <3>2. refc'[x] = refc[x] + Bit(x \notin ToSet(mEvictionQ)) + Bit(x \notin mDB)
      <4>1. refc[x] \in Int
        BY <1>3 DEF Typed
      <4> QED BY <2>3, <2>7, <4>1 DEF OnEvictionQ, Bit
    <3> QED BY <2>1, <2>2, <2>4, <2>5, <3>1, <3>2 DEF Owned, Bit
  <2> QED BY <2>1, <2>6, <2>7
<1>5. mEvictionQSize' = Len(mEvictionQ') /\ mEvictionQSize' <= MaxCache
  <2>1. Len(mEvictionQ) \in Nat /\ mEvictionQSize = Len(mEvictionQ) /\ mEvictionQSize <= MaxCache
        /\ MaxCache \in Nat
    BY <1>3, ConstantFacts DEF Typed, OwnersOK
  <2> QED BY <1>1, <1>2, <2>1 DEF OnEvictionQ, Bit
<1> QED BY <1>4, <1>5, OwnersUnfoldNext

LEMMA DetachCallbackOwners ==
    ASSUME Typed, OwnersOK, CallbacksOK, NEW c \in Callbacks, NEW r \in Rec, DetachCallback(c, r)
    PROVE  OwnersOK'
<1>1. /\ UNCHANGED <<mDB, queues, work, local>> /\ hand' = [hand EXCEPT ![c] = r]
      /\ refc' = [refc EXCEPT ![r] = @ + 1] /\ c \in ToSet(callbacks[r])
  BY DEF DetachCallback, db, thread
<1>2. hand[c] = None
  BY <1>1 DEF CallbacksOK, CallbackOK, Waits
<1>3. ASSUME NEW x \in Rec PROVE IsFiniteSet(HandOf(x))' /\ refc'[x] = Owned(x)'
  <2>1. Cardinality(HandOf(x))' = Cardinality(HandOf(x)) + Bit(x = r) /\ IsFiniteSet(HandOf(x))'
    BY <1>1, <1>2, HandGained
  <2>2. Cardinality(WorkOf(x))' = Cardinality(WorkOf(x))
    BY <1>1, SameWork
  <2>3. refc'[x] = refc[x] + IF x = r THEN 1 ELSE 0
    BY <1>1 DEF Typed
  <2>4. refc[x] = Owned(x) /\ Cardinality(WorkOf(x)) \in Nat /\ Cardinality(HandOf(x)) \in Nat
    BY OwnersUnfold, OwnerCounts
  <2> QED BY <1>1, <2>1, <2>2, <2>3, <2>4 DEF Owned, Bit, queues, local
<1>4. mEvictionQSize' = Len(mEvictionQ') /\ mEvictionQSize' <= MaxCache
  BY <1>1 DEF OwnersOK, queues
<1> QED BY <1>3, <1>4, OwnersUnfoldNext

LEMMA CallFromHandOwners ==
    ASSUME Typed, OwnersOK, NEW c \in Callbacks, CallFromHand(c)
    PROVE  OwnersOK'
<1>1. PICK r \in Rec : r = hand[c]
  BY ConstantFacts DEF CallFromHand, Typed
<1>2. /\ UNCHANGED <<mDB, queues, work, local>> /\ hand' = [hand EXCEPT ![c] = None]
      /\ refc' = [refc EXCEPT ![r] = @ - 1]
  BY <1>1 DEF CallFromHand, SetRefs, thread
<1>3. ASSUME NEW x \in Rec PROVE IsFiniteSet(HandOf(x))' /\ refc'[x] = Owned(x)'
  <2>1. Cardinality(HandOf(x))' = Cardinality(HandOf(x)) - Bit(x = r) /\ IsFiniteSet(HandOf(x))'
    BY <1>1, <1>2, HandLost
  <2>2. Cardinality(WorkOf(x))' = Cardinality(WorkOf(x))
    BY <1>2, SameWork
  <2>3. refc'[x] = refc[x] - IF x = r THEN 1 ELSE 0
    BY <1>2 DEF Typed
  <2>4. refc[x] = Owned(x) /\ Cardinality(WorkOf(x)) \in Nat /\ Cardinality(HandOf(x)) \in Nat
    BY OwnersUnfold, OwnerCounts
  <2> QED BY <1>2, <2>1, <2>2, <2>3, <2>4 DEF Owned, Bit, queues, local
<1>4. mEvictionQSize' = Len(mEvictionQ') /\ mEvictionQSize' <= MaxCache
  BY <1>2 DEF OwnersOK, queues
<1> QED BY <1>3, <1>4, OwnersUnfoldNext

LEMMA GetHostToLookupOwners ==
    ASSUME Typed, ThreadsOK, QueuesOK, OwnersOK, NEW t \in Threads, NEW idle \in BOOLEAN,
           NEW expired \in BOOLEAN, pc[t] \in {"get", "idle"}, GetHostToLookup(t, idle, expired)
    PROVE  OwnersOK'
<1>. USE ConstantFacts
<1>1. UNCHANGED <<mDB, refc, mEvictionQ, mEvictionQSize, local, hand>>
  BY GetHostToLookupStep DEF db, caller
<1>2. CASE UNCHANGED <<work, mPendingQ>>
  BY <1>1, <1>2, OwnersFrame DEF queues
<1>3. CASE /\ mPendingQ # << >>
           /\ work' = [work EXCEPT ![t] = Head(mPendingQ)] /\ mPendingQ' = Tail(mPendingQ)
  <2>1. /\ Head(mPendingQ) \in Rec /\ Head(mPendingQ) \in ToSet(mPendingQ)
        /\ ToSet(mPendingQ)' = ToSet(mPendingQ) \ {Head(mPendingQ)}
    BY <1>3, TailSet DEF Typed, QueuesOK
  <2>2. PICK r \in Rec : r = Head(mPendingQ)
    BY <2>1
  <2>3. work[t] = None
    BY DEF ThreadsOK
  <2>4. ASSUME NEW x \in Rec PROVE IsFiniteSet(HandOf(x))' /\ refc'[x] = Owned(x)'
    <3>1. Cardinality(WorkOf(x))' = Cardinality(WorkOf(x)) + Bit(x = r)
      <4>1. t \in Workers /\ work' = [work EXCEPT ![t] = r]
        BY <1>3, <2>2
      <4> HIDE ConstantFacts
      <4> QED BY <2>3, <4>1, WorkGained
    <3>2. Cardinality(HandOf(x))' = Cardinality(HandOf(x)) /\ IsFiniteSet(HandOf(x))'
      BY <1>1, SameHand DEF OwnersOK
    <3>3. refc[x] = Owned(x) /\ Cardinality(WorkOf(x)) \in Nat /\ Cardinality(HandOf(x)) \in Nat
      BY OwnersUnfold, OwnerCounts
    <3>4. Bit(x \in ToSet(mPendingQ)') = Bit(x \in ToSet(mPendingQ)) - Bit(x = r)
      BY <2>1, <2>2 DEF Bit
    <3> QED BY <1>1, <3>1, <3>2, <3>3, <3>4 DEF Owned, Bit, local
  <2>5. mEvictionQSize' = Len(mEvictionQ') /\ mEvictionQSize' <= MaxCache
    BY <1>1 DEF OwnersOK
  <2> QED BY <2>4, <2>5, OwnersUnfoldNext
<1> QED BY <1>2, <1>3, GetHostToLookupStep

\* OnLookupComplete counts what it does to the eviction queue and the table.
LEMMA CompleteRefs ==
    ASSUME Typed, QueuesOK, NEW t \in Workers, NEW r \in Rec, NEW ok \in BOOLEAN,
           r \notin ToSet(mEvictionQ), Complete(t, r, ok), NEW x \in Rec
    PROVE  refc'[x] = refc[x] + Bit(x \in mDB') - Bit(x \in mDB)
                      + Bit(x \in ToSet(mEvictionQ)') - Bit(x \in ToSet(mEvictionQ))
<1>. PICK q \in Seq(Rec) : q = Append(mEvictionQ, r)
  BY AppendSet DEF Typed
<1>1. q # << >> /\ Distinct(q) /\ ToSet(q) = ToSet(mEvictionQ) \cup {r}
  <2>1. mEvictionQ \in Seq(Rec) /\ Distinct(mEvictionQ)
    BY DEF Typed, QueuesOK
  <2> QED BY <2>1, AppendSet
<1>2. Head(q) \in ToSet(q) /\ ToSet(Tail(q)) = ToSet(q) \ {Head(q)}
  BY <1>1, TailSet
<1>. PICK keep \in BOOLEAN : keep = (ok /\ ~ mShutdown)
  OBVIOUS
<1>. PICK over \in BOOLEAN : over = (keep /\ Over)
  OBVIOUS
<1>3. mEvictionQ' = IF over THEN Tail(q) ELSE IF keep THEN q ELSE mEvictionQ
  BY DEF Complete
<1>4. PICK gone \in SUBSET mDB :
        /\ mDB' = mDB \ gone
        /\ refc' = [y \in Rec |-> refc[y] + Bit(keep /\ y = r) - Bit(over /\ y = Head(q)) - Bit(y \in gone)]
  <2>. DEFINE entry == IF over THEN Found(key[Head(q)].host, FALSE) ELSE {}
  <2>1. entry \in SUBSET mDB
    BY DEF Found
  <2>2. /\ mDB' = mDB \ entry
        /\ refc' = [y \in Rec |-> refc[y] + Bit(keep /\ y = r) - Bit(over /\ y = Head(q)) - Bit(y \in entry)]
    BY DEF Complete
  <2> QED BY <2>1, <2>2
<1>5. PICK kept \in Int : kept = Bit(keep /\ x = r)
  BY DEF Bit
<1>6. PICK evicted \in Int : evicted = Bit(over /\ x = Head(q))
  BY DEF Bit
<1>7. PICK dropped \in Int : dropped = Bit(x \in gone)
  BY DEF Bit
<1>8. refc'[x] = refc[x] + kept - evicted - dropped /\ refc[x] \in Int
  BY <1>4, <1>5, <1>6, <1>7 DEF Typed
<1>9. Bit(x \in mDB') = Bit(x \in mDB) - dropped
  <2>1. CASE x \in gone
    BY <1>4, <1>7, <2>1 DEF Bit
  <2>2. CASE x \notin gone
    BY <1>4, <1>7, <2>2 DEF Bit
  <2> QED BY <2>1, <2>2
<1>10. Bit(x \in ToSet(mEvictionQ)') = Bit(x \in ToSet(mEvictionQ)) + kept - evicted
  <2>1. CASE over
    <3>1. ToSet(mEvictionQ)' = ToSet(q) \ {Head(q)} /\ keep
      BY <1>2, <1>3, <2>1
    <3> QED BY <1>1, <1>2, <1>5, <1>6, <2>1, <3>1 DEF Bit
  <2>2. CASE ~ over /\ keep
    <3>1. ToSet(mEvictionQ)' = ToSet(q)
      BY <1>3, <2>2
    <3> QED BY <1>1, <1>5, <1>6, <2>2, <3>1 DEF Bit
  <2>3. CASE ~ keep
    <3>1. ToSet(mEvictionQ)' = ToSet(mEvictionQ) /\ ~ over
      BY <1>3, <2>3
    <3> QED BY <1>5, <1>6, <2>3, <3>1 DEF Bit
  <2> QED BY <2>1, <2>2, <2>3
<1>11. PICK db0 \in Int, db1 \in Int : db0 = Bit(x \in mDB) /\ db1 = Bit(x \in mDB')
  BY DEF Bit
<1>12. PICK ev0 \in Int, ev1 \in Int :
         ev0 = Bit(x \in ToSet(mEvictionQ)) /\ ev1 = Bit(x \in ToSet(mEvictionQ)')
  BY DEF Bit
<1>13. db1 = db0 - dropped /\ ev1 = ev0 + kept - evicted
  <2>1. db1 = db0 - dropped
    BY <1>9, <1>11 DEF Bit
  <2>2. ev1 = ev0 + kept - evicted
    BY <1>10, <1>12 DEF Bit
  <2> QED BY <2>1, <2>2
<1>14. refc'[x] = refc[x] + db1 - db0 + ev1 - ev0
  BY <1>8, <1>13
<1> QED BY <1>11, <1>12, <1>14 DEF Bit

LEMMA LookupDoneOwners ==
    ASSUME Typed, ThreadsOK, QueuesOK, LookupsOK, OwnersOK, NEW t \in Threads, NEW ok \in BOOLEAN,
           LookupDone(t, ok)
    PROVE  OwnersOK'
<1>. USE ConstantFacts
<1>1. PICK r \in Rec : r = work[t]
  BY Handles DEF LookupDone
<1>2. pc[t] = "lookup" /\ Complete(t, r, ok) /\ UNCHANGED local
  BY <1>1 DEF LookupDone
<1>3. r \notin ToSet(mEvictionQ)
  BY <1>1, <1>2 DEF LookupsOK, Looking
<1>4. UNCHANGED <<mPendingQ, hand>> /\ work' = work
  <2>1. work' = [work EXCEPT ![t] = r] /\ UNCHANGED <<mPendingQ, hand>>
    BY <1>2 DEF Complete, caller
  <2> QED BY <1>1, <2>1 DEF Typed
<1>5. ASSUME NEW x \in Rec PROVE IsFiniteSet(HandOf(x))' /\ refc'[x] = Owned(x)'
  <2>1. Cardinality(HandOf(x))' = Cardinality(HandOf(x)) /\ IsFiniteSet(HandOf(x))'
    BY <1>4, SameHand DEF OwnersOK
  <2>2. Cardinality(WorkOf(x))' = Cardinality(WorkOf(x))
    BY <1>4, SameWork
  <2>3. refc'[x] = refc[x] + Bit(x \in mDB') - Bit(x \in mDB)
                   + Bit(x \in ToSet(mEvictionQ)') - Bit(x \in ToSet(mEvictionQ))
    BY <1>2, <1>3, CompleteRefs
  <2>4. refc[x] = Owned(x) /\ Cardinality(WorkOf(x)) \in Nat /\ Cardinality(HandOf(x)) \in Nat
    BY OwnersUnfold, OwnerCounts
  <2> QED BY <1>2, <1>4, <2>1, <2>2, <2>3, <2>4 DEF Owned, Bit, local
<1>6. mEvictionQSize' = Len(mEvictionQ') /\ mEvictionQSize' <= MaxCache
  BY <1>2, <1>3, CompleteQueues
<1> QED BY <1>5, <1>6, OwnersUnfoldNext

LEMMA AbortOwners ==
    ASSUME Typed, ThreadsOK, QueuesOK, LookupsOK, OwnersOK, Abort
    PROVE  OwnersOK'
<1>. USE ConstantFacts
<1>1. pc[Main] = "abort" /\ pendingQ # << >> /\ pendingQ \in Seq(Rec) /\ Distinct(pendingQ)
  BY DEF Abort, Typed, QueuesOK
<1>2. PICK r \in Rec : r = Head(pendingQ)
  BY <1>1, TailSet
<1>3. /\ Complete(Main, r, FALSE) /\ UNCHANGED evictionQ
      /\ r \in ToSet(pendingQ) /\ ToSet(pendingQ)' = ToSet(pendingQ) \ {r}
  BY <1>1, <1>2, TailSet DEF Abort
<1>4. r \notin ToSet(mEvictionQ)
  BY <1>3 DEF LookupsOK, Pending
<1>5. UNCHANGED <<mPendingQ, hand>> /\ work' = [work EXCEPT ![Main] = r] /\ work[Main] = None
  BY <1>1, <1>3 DEF Complete, caller, ThreadsOK
<1>6. \A x \in Rec : Cardinality(WorkOf(x))' = Cardinality(WorkOf(x)) + Bit(x = r)
  <2>1. PICK t \in Workers : t = Main
    OBVIOUS
  <2>2. work[t] = None /\ work' = [work EXCEPT ![t] = r]
    BY <1>5, <2>1
  <2> HIDE ConstantFacts
  <2> QED BY <2>2, WorkGained
<1>7. ASSUME NEW x \in Rec PROVE IsFiniteSet(HandOf(x))' /\ refc'[x] = Owned(x)'
  <2>1. Cardinality(HandOf(x))' = Cardinality(HandOf(x)) /\ IsFiniteSet(HandOf(x))'
    BY <1>5, SameHand DEF OwnersOK
  <2>2. Cardinality(WorkOf(x))' = Cardinality(WorkOf(x)) + Bit(x = r)
    BY <1>6
  <2>3. refc'[x] = refc[x] + Bit(x \in mDB') - Bit(x \in mDB)
                   + Bit(x \in ToSet(mEvictionQ)') - Bit(x \in ToSet(mEvictionQ))
    BY <1>3, <1>4, CompleteRefs
  <2>4. refc[x] = Owned(x) /\ Cardinality(WorkOf(x)) \in Nat /\ Cardinality(HandOf(x)) \in Nat
    BY OwnersUnfold, OwnerCounts
  <2>5. Bit(x \in ToSet(pendingQ)') = Bit(x \in ToSet(pendingQ)) - Bit(x = r)
    BY <1>3 DEF Bit
  <2> QED BY <1>3, <1>5, <2>1, <2>2, <2>3, <2>4, <2>5 DEF Owned, Bit
<1>8. mEvictionQSize' = Len(mEvictionQ') /\ mEvictionQSize' <= MaxCache
  BY <1>3, <1>4, CompleteQueues
<1> QED BY <1>7, <1>8, OwnersUnfoldNext

LEMMA CallsDoneOwners ==
    ASSUME Typed, ThreadsOK, OwnersOK, NEW t \in Workers, CallsDone(t)
    PROVE  OwnersOK'
<1>1. PICK r \in Rec : r = work[t]
  BY Handles DEF CallsDone
<1>2. /\ UNCHANGED <<mDB, queues, local, hand>> /\ work' = [work EXCEPT ![t] = None]
      /\ refc' = [refc EXCEPT ![r] = @ - 1]
  BY <1>1 DEF CallsDone, SetRefs, caller
<1>3. ASSUME NEW x \in Rec PROVE IsFiniteSet(HandOf(x))' /\ refc'[x] = Owned(x)'
  <2>1. Cardinality(HandOf(x))' = Cardinality(HandOf(x)) /\ IsFiniteSet(HandOf(x))'
    BY <1>2, SameHand DEF OwnersOK
  <2>2. Cardinality(WorkOf(x))' = Cardinality(WorkOf(x)) - Bit(x = r)
    BY <1>1, <1>2, WorkLost
  <2>3. refc'[x] = refc[x] - IF x = r THEN 1 ELSE 0
    BY <1>2 DEF Typed
  <2>4. refc[x] = Owned(x) /\ Cardinality(WorkOf(x)) \in Nat /\ Cardinality(HandOf(x)) \in Nat
    BY OwnersUnfold, OwnerCounts
  <2> QED BY <1>2, <2>1, <2>2, <2>3, <2>4 DEF Owned, Bit, queues, local
<1>4. mEvictionQSize' = Len(mEvictionQ') /\ mEvictionQSize' <= MaxCache
  BY <1>2 DEF OwnersOK, queues
<1> QED BY <1>3, <1>4, OwnersUnfoldNext

LEMMA ShutdownOwners ==
    ASSUME Typed, QueuesOK, OwnersOK, Shutdown
    PROVE  OwnersOK'
<1>1. /\ pendingQ' = mPendingQ /\ evictionQ' = mEvictionQ /\ mPendingQ' = << >> /\ mEvictionQ' = << >>
      /\ mEvictionQSize' = 0 /\ mDB' = {} /\ UNCHANGED <<work, hand>>
      /\ refc' = [r \in Rec |-> refc[r] - Bit(r \in mDB)] /\ pendingQ = << >> /\ evictionQ = << >>
  BY DEF Shutdown, LocalPending, SetRefs, caller, QueuesOK
<1>2. ASSUME NEW x \in Rec PROVE IsFiniteSet(HandOf(x))' /\ refc'[x] = Owned(x)'
  <2>1. Cardinality(HandOf(x))' = Cardinality(HandOf(x)) /\ IsFiniteSet(HandOf(x))'
    BY <1>1, SameHand DEF OwnersOK
  <2>2. Cardinality(WorkOf(x))' = Cardinality(WorkOf(x))
    BY <1>1, SameWork
  <2>3. refc[x] = Owned(x) /\ Cardinality(WorkOf(x)) \in Nat /\ Cardinality(HandOf(x)) \in Nat
    BY OwnersUnfold, OwnerCounts
  <2>4. refc'[x] = refc[x] - Bit(x \in mDB)
    BY <1>1
  <2> QED BY <1>1, <2>1, <2>2, <2>3, <2>4, EmptyList DEF Owned, Bit
<1>3. mEvictionQSize' = Len(mEvictionQ') /\ mEvictionQSize' <= MaxCache
  BY <1>1, ConstantFacts
<1> QED BY <1>2, <1>3, OwnersUnfoldNext

LEMMA ReleaseEvictedOwners ==
    ASSUME Typed, OwnersOK, ReleaseEvicted
    PROVE  OwnersOK'
<1>1. /\ UNCHANGED <<mDB, queues, pendingQ, work, hand>> /\ evictionQ' = << >>
      /\ refc' = [r \in Rec |-> refc[r] - Bit(r \in ToSet(evictionQ))]
  BY DEF ReleaseEvicted, SetRefs, caller
<1>2. ASSUME NEW x \in Rec PROVE IsFiniteSet(HandOf(x))' /\ refc'[x] = Owned(x)'
  <2>1. Cardinality(HandOf(x))' = Cardinality(HandOf(x)) /\ IsFiniteSet(HandOf(x))'
    BY <1>1, SameHand DEF OwnersOK
  <2>2. Cardinality(WorkOf(x))' = Cardinality(WorkOf(x))
    BY <1>1, SameWork
  <2>3. refc[x] = Owned(x) /\ Cardinality(WorkOf(x)) \in Nat /\ Cardinality(HandOf(x)) \in Nat
    BY OwnersUnfold, OwnerCounts
  <2>4. refc'[x] = refc[x] - Bit(x \in ToSet(evictionQ))
    BY <1>1
  <2> QED BY <1>1, <2>1, <2>2, <2>3, <2>4, EmptyList DEF Owned, Bit, queues
<1>3. mEvictionQSize' = Len(mEvictionQ') /\ mEvictionQSize' <= MaxCache
  BY <1>1 DEF OwnersOK, queues
<1> QED BY <1>2, <1>3, OwnersUnfoldNext

-----------------------------------------------------------------------------
(* Where each callback is.                                                 *)

LEMMA CallbackFrame ==
    ASSUME NEW c \in Callbacks, CallbackOK(c),
           \A r \in Rec : Waits(c, r)' <=> Waits(c, r),
           \A t \in Workers : DueFrom(c, t)' <=> DueFrom(c, t),
           hand'[c] = hand[c], calls'[c] = calls[c],
           c \in owed' <=> c \in owed,
           asked'[c] = NoKey => asked[c] = NoKey
    PROVE  CallbackOK(c)'
BY DEF CallbackOK

\* Asked for nothing yet, or owed no call: nowhere.
LEMMA NotYetAsked ==
    ASSUME CallbacksOK, NEW c \in Callbacks, asked[c] = NoKey
    PROVE  /\ c \notin owed /\ calls[c] = 0 /\ hand[c] = None
           /\ \A r \in Rec : ~ Waits(c, r)
           /\ \A t \in Workers : ~ DueFrom(c, t)
BY DEF CallbacksOK, CallbackOK

LEMMA InitCallbacks == Init => CallbacksOK
<1> SUFFICES ASSUME Init PROVE CallbacksOK
  OBVIOUS
<1>1. ASSUME NEW r \in Rec PROVE callbacks[r] = << >>
  BY DEF Init
<1>2. ASSUME NEW t \in Workers PROVE cbs[t] = << >>
  BY DEF Init
<1>3. ASSUME NEW c \in Callbacks PROVE CallbackOK(c)
  <2>1. hand[c] = None /\ calls[c] = 0 /\ c \notin owed
    BY DEF Init
  <2> QED BY <1>1, <1>2, <2>1, EmptyList DEF CallbackOK, Waits, DueFrom
<1> QED BY <1>1, <1>2, <1>3, EmptyList DEF CallbacksOK

LEMMA CallbacksSame ==
    ASSUME CallbacksOK, UNCHANGED <<callbacks, cbs, asked, hand, owed, calls>>
    PROVE  CallbacksOK'
<1>1. ASSUME NEW c \in Callbacks PROVE CallbackOK(c)'
  <2>1. /\ \A r \in Rec : Waits(c, r)' <=> Waits(c, r)
        /\ \A t \in Workers : DueFrom(c, t)' <=> DueFrom(c, t)
    BY DEF Waits, DueFrom
  <2>2. CallbackOK(c)
    BY DEF CallbacksOK
  <2> QED BY <2>1, <2>2, CallbackFrame
<1> QED BY <1>1 DEF CallbacksOK

LEMMA AskFacts ==
    ASSUME Typed, NEW c \in Callbacks, NEW h \in Hosts, NEW b \in Bypass, Ask(c, h, b)
    PROVE  /\ asked[c] = NoKey /\ asked'[c] # NoKey
           /\ \A d \in Callbacks : d # c => asked'[d] = asked[d]
<1>1. b \in BOOLEAN
  BY ResolverAssumption DEF ResolverAssumption
<1>2. [host |-> h, bypass |-> b] # NoKey
  BY <1>1, ConstantFacts
<1> QED BY <1>2 DEF Ask, Typed

LEMMA ResolveNowCallbacks ==
    ASSUME Typed, CallbacksOK, NEW c \in Callbacks, NEW h \in Hosts, NEW b \in Bypass, NEW r \in Rec,
           ResolveNow(c, h, b, r)
    PROVE  CallbacksOK'
<1>. USE ConstantFacts
<1>1. /\ UNCHANGED <<callbacks, cbs, calls>> /\ owed' = owed \cup {c}
      /\ hand' = [hand EXCEPT ![c] = r] /\ Ask(c, h, b)
  BY DEF ResolveNow, thread
<1>2. /\ asked[c] = NoKey /\ asked'[c] # NoKey
      /\ \A d \in Callbacks : d # c => asked'[d] = asked[d]
  BY <1>1, AskFacts
<1>3. /\ c \notin owed /\ calls[c] = 0 /\ hand[c] = None
      /\ \A x \in Rec : ~ Waits(c, x)
      /\ \A t \in Workers : ~ DueFrom(c, t)
  BY <1>2, NotYetAsked
<1>4. /\ \A d \in Callbacks, x \in Rec : Waits(d, x)' <=> Waits(d, x)
      /\ \A d \in Callbacks, t \in Workers : DueFrom(d, t)' <=> DueFrom(d, t)
  BY <1>1 DEF Waits, DueFrom
<1>5. hand'[c] = r /\ hand'[c] # None /\ \A d \in Callbacks : d # c => hand'[d] = hand[d]
  BY <1>1 DEF Typed
<1>6. CallbackOK(c)'
  <2>1. /\ \A x \in Rec : ~ Waits(c, x)'
        /\ \A t \in Workers : ~ DueFrom(c, t)'
    BY <1>3, <1>4
  <2>2. c \in owed' /\ calls'[c] = 0
    BY <1>1, <1>3
  <2> QED BY <1>2, <1>5, <2>1, <2>2 DEF CallbackOK
<1>7. ASSUME NEW d \in Callbacks, d # c PROVE CallbackOK(d)'
  <2>1. CallbackOK(d) /\ calls'[d] = calls[d] /\ (d \in owed' <=> d \in owed)
    BY <1>1, <1>7 DEF CallbacksOK
  <2> QED BY <1>2, <1>4, <1>5, <1>7, <2>1, CallbackFrame
<1>8. /\ \A x \in Rec : Distinct(callbacks'[x])
      /\ \A t \in Workers : Distinct(cbs'[t])
  BY <1>1 DEF CallbacksOK
<1> QED BY <1>6, <1>7, <1>8 DEF CallbacksOK

\* ResolveHost leaves the callback with a record that is being looked up.
LEMMA JoinCallbacks ==
    ASSUME Typed, CallbacksOK, NEW c \in Callbacks, NEW h \in Hosts, NEW b \in Bypass, NEW r \in Rec,
           Ask(c, h, b), callbacks' = [callbacks EXCEPT ![r] = Append(@, c)], owed' = owed \cup {c},
           UNCHANGED <<cbs, hand, calls>>
    PROVE  CallbacksOK'
<1>1. /\ asked[c] = NoKey /\ asked'[c] # NoKey
      /\ \A d \in Callbacks : d # c => asked'[d] = asked[d]
  BY AskFacts
<1>2. /\ c \notin owed /\ calls[c] = 0 /\ hand[c] = None
      /\ \A x \in Rec : ~ Waits(c, x)
      /\ \A t \in Workers : ~ DueFrom(c, t)
  BY <1>1, NotYetAsked
<1>3. callbacks'[r] = Append(callbacks[r], c) /\ \A x \in Rec : x # r => callbacks'[x] = callbacks[x]
  BY DEF Typed
<1>4. /\ ToSet(callbacks'[r]) = ToSet(callbacks[r]) \cup {c} /\ Distinct(callbacks'[r])
  <2>1. callbacks[r] \in Seq(Callbacks) /\ Distinct(callbacks[r]) /\ c \notin ToSet(callbacks[r])
    BY <1>2 DEF Typed, CallbacksOK, Waits
  <2> QED BY <1>3, <2>1, AppendSet
<1>5. /\ \A d \in Callbacks, x \in Rec : Waits(d, x)' <=> Waits(d, x) \/ (d = c /\ x = r)
      /\ \A d \in Callbacks, t \in Workers : DueFrom(d, t)' <=> DueFrom(d, t)
  BY <1>3, <1>4 DEF Waits, DueFrom
<1>6. CallbackOK(c)'
  <2>1. /\ \A x \in Rec : Waits(c, x)' <=> x = r
        /\ \A t \in Workers : ~ DueFrom(c, t)'
    BY <1>2, <1>5
  <2>2. c \in owed' /\ calls'[c] = 0 /\ hand'[c] = None
    BY <1>2
  <2> QED BY <1>1, <2>1, <2>2 DEF CallbackOK
<1>7. ASSUME NEW d \in Callbacks, d # c PROVE CallbackOK(d)'
  <2>1. CallbackOK(d) /\ calls'[d] = calls[d] /\ hand'[d] = hand[d] /\ (d \in owed' <=> d \in owed)
    BY <1>7 DEF CallbacksOK
  <2> QED BY <1>1, <1>5, <1>7, <2>1, CallbackFrame
<1>8. /\ \A x \in Rec : Distinct(callbacks'[x])
      /\ \A t \in Workers : Distinct(cbs'[t])
  BY <1>3, <1>4 DEF CallbacksOK
<1> QED BY <1>6, <1>7, <1>8 DEF CallbacksOK

LEMMA ResolveJoinCallbacks ==
    ASSUME Typed, CallbacksOK, NEW c \in Callbacks, NEW h \in Hosts, NEW b \in Bypass, NEW r \in Rec,
           ResolveJoin(c, h, b, r)
    PROVE  CallbacksOK'
<1>1. /\ Ask(c, h, b) /\ callbacks' = [callbacks EXCEPT ![r] = Append(@, c)] /\ owed' = owed \cup {c}
      /\ UNCHANGED <<cbs, hand, calls>>
  BY DEF ResolveJoin, thread
<1> QED BY <1>1, JoinCallbacks

LEMMA ResolveLookupCallbacks ==
    ASSUME Typed, CallbacksOK, NEW c \in Callbacks, NEW h \in Hosts, NEW b \in Bypass, NEW r \in Rec,
           NEW ok \in BOOLEAN, ResolveLookup(c, h, b, r, ok)
    PROVE  CallbacksOK'
<1>1. Ask(c, h, b) /\ UNCHANGED <<cbs, hand, calls>>
  BY DEF ResolveLookup
<1>2. CASE ok
  <2>1. callbacks' = [callbacks EXCEPT ![r] = Append(@, c)] /\ owed' = owed \cup {c}
    BY <1>2 DEF ResolveLookup
  <2> QED BY <1>1, <2>1, JoinCallbacks
<1>3. CASE ~ ok
  <2>1. callbacks' = callbacks /\ owed' = owed
    BY <1>3 DEF ResolveLookup, Typed
  <2>2. /\ asked[c] = NoKey /\ asked'[c] # NoKey
        /\ \A d \in Callbacks : d # c => asked'[d] = asked[d]
    BY <1>1, AskFacts
  <2>3. ASSUME NEW d \in Callbacks PROVE CallbackOK(d)'
    <3>1. /\ \A x \in Rec : Waits(d, x)' <=> Waits(d, x)
          /\ \A t \in Workers : DueFrom(d, t)' <=> DueFrom(d, t)
      BY <1>1, <2>1 DEF Waits, DueFrom
    <3>2. CallbackOK(d) /\ hand'[d] = hand[d] /\ calls'[d] = calls[d] /\ (d \in owed' <=> d \in owed)
          /\ (asked'[d] = NoKey => asked[d] = NoKey)
      BY <1>1, <2>1, <2>2 DEF CallbacksOK
    <3> QED BY <3>1, <3>2, CallbackFrame
  <2>4. /\ \A x \in Rec : Distinct(callbacks'[x])
        /\ \A t \in Workers : Distinct(cbs'[t])
    BY <1>1, <2>1 DEF CallbacksOK
  <2> QED BY <2>3, <2>4 DEF CallbacksOK
<1> QED BY <1>2, <1>3

LEMMA DetachCallbackCallbacks ==
    ASSUME Typed, CallbacksOK, NEW c \in Callbacks, NEW r \in Rec, DetachCallback(c, r)
    PROVE  CallbacksOK'
<1>. USE ConstantFacts
<1>1. /\ UNCHANGED <<cbs, asked, owed, calls>> /\ hand' = [hand EXCEPT ![c] = r]
      /\ callbacks' = [callbacks EXCEPT ![r] = RemoveFirst(@, c)] /\ c \in ToSet(callbacks[r])
  BY DEF DetachCallback, thread, hist
<1>2. Waits(c, r) /\ CallbackOK(c) /\ calls[c] \in Nat
  BY <1>1 DEF Waits, CallbacksOK, Typed
<1>3. callbacks'[r] = RemoveFirst(callbacks[r], c) /\ \A x \in Rec : x # r => callbacks'[x] = callbacks[x]
  BY <1>1 DEF Typed
<1>4. ToSet(callbacks'[r]) = ToSet(callbacks[r]) \ {c} /\ Distinct(callbacks'[r])
  <2>1. callbacks[r] \in Seq(Callbacks) /\ Distinct(callbacks[r])
    BY DEF Typed, CallbacksOK
  <2> QED BY <1>3, <2>1, RemoveSet
<1>5. /\ \A d \in Callbacks, x \in Rec : Waits(d, x)' <=> Waits(d, x) /\ ~ (d = c /\ x = r)
      /\ \A d \in Callbacks, t \in Workers : DueFrom(d, t)' <=> DueFrom(d, t)
  BY <1>1, <1>3, <1>4 DEF Waits, DueFrom
<1>6. hand'[c] = r /\ hand'[c] # None /\ \A d \in Callbacks : d # c => hand'[d] = hand[d]
  BY <1>1 DEF Typed
<1>7. CallbackOK(c)'
  <2>1. /\ \A x \in Rec : ~ Waits(c, x)'
        /\ \A t \in Workers : ~ DueFrom(c, t)'
    BY <1>2, <1>5 DEF CallbackOK
  <2>2. c \in owed' /\ asked'[c] # NoKey /\ calls'[c] = 0
    BY <1>1, <1>2 DEF CallbackOK
  <2> QED BY <1>6, <2>1, <2>2 DEF CallbackOK
<1>8. ASSUME NEW d \in Callbacks, d # c PROVE CallbackOK(d)'
  <2>1. CallbackOK(d) /\ calls'[d] = calls[d] /\ asked'[d] = asked[d] /\ (d \in owed' <=> d \in owed)
    BY <1>1 DEF CallbacksOK
  <2> QED BY <1>5, <1>6, <1>8, <2>1, CallbackFrame
<1>9. /\ \A x \in Rec : Distinct(callbacks'[x])
      /\ \A t \in Workers : Distinct(cbs'[t])
  BY <1>1, <1>3, <1>4 DEF CallbacksOK
<1> QED BY <1>7, <1>8, <1>9 DEF CallbacksOK

\* A call: c was owed it, is called for the first time, and is nowhere any more.
LEMMA Called ==
    ASSUME Typed, NEW c \in Callbacks, CallbackOK(c), c \in owed,
           calls' = [calls EXCEPT ![c] = @ + 1], owed' = owed \ {c}, UNCHANGED asked,
           hand'[c] = None, \A r \in Rec : ~ Waits(c, r)', \A t \in Workers : ~ DueFrom(c, t)'
    PROVE  /\ CallbackOK(c)'
           /\ \A d \in Callbacks : d # c => calls'[d] = calls[d] /\ (d \in owed' <=> d \in owed)
<1>1. calls[c] = 0 /\ asked[c] # NoKey
  BY DEF CallbackOK
<1>2. calls'[c] = 1 /\ c \notin owed' /\ asked'[c] # NoKey
  BY <1>1 DEF Typed
<1>3. CallbackOK(c)'
  BY <1>2 DEF CallbackOK
<1>4. \A d \in Callbacks : d # c => calls'[d] = calls[d] /\ (d \in owed' <=> d \in owed)
  BY DEF Typed
<1> QED BY <1>3, <1>4

LEMMA CallFromHandCallbacks ==
    ASSUME Typed, CallbacksOK, NEW c \in Callbacks, CallFromHand(c)
    PROVE  CallbacksOK'
<1>1. /\ UNCHANGED <<callbacks, cbs, asked>> /\ hand' = [hand EXCEPT ![c] = None] /\ hand[c] # None
      /\ calls' = [calls EXCEPT ![c] = @ + 1] /\ owed' = owed \ {c}
  BY DEF CallFromHand, thread
<1>2. CallbackOK(c)
  BY DEF CallbacksOK
<1>3. /\ c \in owed /\ \A r \in Rec : ~ Waits(c, r)
      /\ \A t \in Workers : ~ DueFrom(c, t)
  BY <1>1, <1>2 DEF CallbackOK
<1>4. /\ \A d \in Callbacks, r \in Rec : Waits(d, r)' <=> Waits(d, r)
      /\ \A d \in Callbacks, t \in Workers : DueFrom(d, t)' <=> DueFrom(d, t)
  BY <1>1 DEF Waits, DueFrom
<1>5. hand'[c] = None /\ \A d \in Callbacks : d # c => hand'[d] = hand[d]
  BY <1>1 DEF Typed
<1>6. /\ CallbackOK(c)'
      /\ \A d \in Callbacks : d # c => calls'[d] = calls[d] /\ (d \in owed' <=> d \in owed)
  <2>1. /\ \A r \in Rec : ~ Waits(c, r)'
        /\ \A t \in Workers : ~ DueFrom(c, t)'
    BY <1>3, <1>4
  <2> QED BY <1>1, <1>2, <1>3, <1>5, <2>1, Called
<1>7. ASSUME NEW d \in Callbacks, d # c PROVE CallbackOK(d)'
  <2>1. CallbackOK(d) /\ asked'[d] = asked[d]
    BY <1>1 DEF CallbacksOK
  <2> QED BY <1>4, <1>5, <1>6, <1>7, <2>1, CallbackFrame
<1>8. /\ \A r \in Rec : Distinct(callbacks'[r])
      /\ \A t \in Workers : Distinct(cbs'[t])
  BY <1>1 DEF CallbacksOK
<1> QED BY <1>6, <1>7, <1>8 DEF CallbacksOK

\* OnLookupComplete moves the record's callbacks to the thread that calls them.
LEMMA CompleteCallbacks ==
    ASSUME Typed, CallbacksOK, NEW t \in Workers, NEW r \in Rec, NEW ok \in BOOLEAN,
           cbs[t] = << >>, Complete(t, r, ok)
    PROVE  CallbacksOK'
<1>1. /\ UNCHANGED <<asked, hand, owed, calls>>
      /\ callbacks' = [callbacks EXCEPT ![r] = << >>] /\ cbs' = [cbs EXCEPT ![t] = callbacks[r]]
  BY DEF Complete, TakeCallbacks, caller, hist
<1>2. /\ callbacks'[r] = << >> /\ \A x \in Rec : x # r => callbacks'[x] = callbacks[x]
      /\ cbs'[t] = callbacks[r] /\ \A u \in Workers : u # t => cbs'[u] = cbs[u]
  BY <1>1 DEF Typed
<1>3. ASSUME NEW d \in Callbacks PROVE CallbackOK(d)'
  <2>1. ~ DueFrom(d, t) /\ CallbackOK(d)
    BY EmptyList DEF DueFrom, CallbacksOK
  <2>2. /\ \A x \in Rec : Waits(d, x)' <=> Waits(d, x) /\ x # r
        /\ \A u \in Workers : DueFrom(d, u)' <=> (IF u = t THEN Waits(d, r) ELSE DueFrom(d, u))
    BY <1>2, EmptyList DEF Waits, DueFrom
  <2>3. hand'[d] = hand[d] /\ calls'[d] = calls[d] /\ (d \in owed' <=> d \in owed) /\ asked'[d] = asked[d]
    BY <1>1
  <2>4. CASE Waits(d, r)
    <3>1. /\ d \in owed /\ hand[d] = None
          /\ \A x \in Rec : Waits(d, x) => x = r
          /\ \A u \in Workers : ~ DueFrom(d, u)
      BY <2>1, <2>4 DEF CallbackOK
    <3>2. /\ \A x \in Rec : ~ Waits(d, x)'
          /\ \A u \in Workers : DueFrom(d, u)' <=> u = t
      BY <2>2, <2>4, <3>1
    <3>3. d \in owed' /\ hand'[d] = None /\ calls'[d] = 0 /\ asked'[d] # NoKey
      BY <2>1, <2>3, <3>1 DEF CallbackOK
    <3> QED BY <3>2, <3>3 DEF CallbackOK
  <2>5. CASE ~ Waits(d, r)
    <3>1. /\ \A x \in Rec : Waits(d, x)' <=> Waits(d, x)
          /\ \A u \in Workers : DueFrom(d, u)' <=> DueFrom(d, u)
      BY <2>1, <2>2, <2>5
    <3> QED BY <2>1, <2>3, <3>1, CallbackFrame
  <2> QED BY <2>4, <2>5
<1>4. /\ \A x \in Rec : Distinct(callbacks'[x])
      /\ \A u \in Workers : Distinct(cbs'[u])
  BY <1>2, EmptyList DEF CallbacksOK
<1> QED BY <1>3, <1>4 DEF CallbacksOK

LEMMA LookupDoneCallbacks ==
    ASSUME Typed, ThreadsOK, CallbacksOK, NEW t \in Threads, NEW ok \in BOOLEAN, LookupDone(t, ok)
    PROVE  CallbacksOK'
<1>1. t \in Workers /\ pc[t] = "lookup" /\ Complete(t, work[t], ok)
  BY ConstantFacts DEF LookupDone
<1>2. PICK r \in Rec : r = work[t]
  BY <1>1, Handles
<1>3. Complete(t, r, ok)
  BY <1>1, <1>2
<1>4. cbs[t] = << >>
  BY <1>1 DEF ThreadsOK
<1> QED BY <1>1, <1>3, <1>4, CompleteCallbacks

LEMMA AbortCallbacks ==
    ASSUME Typed, ThreadsOK, CallbacksOK, Abort
    PROVE  CallbacksOK'
<1>1. Main \in Workers /\ pc[Main] = "abort" /\ pendingQ # << >> /\ Complete(Main, Head(pendingQ), FALSE)
  BY ConstantFacts DEF Abort
<1>2. PICK r \in Rec : r = Head(pendingQ)
  BY <1>1, TailSet DEF Typed
<1>3. Complete(Main, r, FALSE)
  BY <1>1, <1>2
<1>4. cbs[Main] = << >>
  BY <1>1 DEF ThreadsOK
<1> QED BY <1>1, <1>3, <1>4, CompleteCallbacks

LEMMA CallNextCallbacks ==
    ASSUME Typed, CallbacksOK, NEW t \in Workers, CallNext(t)
    PROVE  CallbacksOK'
<1>1. cbs[t] # << >> /\ cbs[t] \in Seq(Callbacks) /\ Distinct(cbs[t])
  BY DEF CallNext, Typed, CallbacksOK
<1>2. PICK c \in Callbacks : c = Head(cbs[t])
  BY <1>1, TailSet
<1>3. /\ UNCHANGED <<callbacks, asked, hand>> /\ cbs' = [cbs EXCEPT ![t] = Tail(@)]
      /\ calls' = [calls EXCEPT ![c] = @ + 1] /\ owed' = owed \ {c}
  BY <1>2 DEF CallNext, records, caller
<1>4. cbs'[t] = Tail(cbs[t]) /\ \A u \in Workers : u # t => cbs'[u] = cbs[u]
  BY <1>3 DEF Typed
<1>5. c \in ToSet(cbs[t]) /\ ToSet(cbs'[t]) = ToSet(cbs[t]) \ {c} /\ Distinct(cbs'[t])
  BY <1>1, <1>2, <1>4, TailSet
<1>6. /\ \A d \in Callbacks, r \in Rec : Waits(d, r)' <=> Waits(d, r)
      /\ \A d \in Callbacks, u \in Workers : DueFrom(d, u)' <=> DueFrom(d, u) /\ ~ (d = c /\ u = t)
  BY <1>3, <1>4, <1>5 DEF Waits, DueFrom
<1>7. /\ DueFrom(c, t) /\ CallbackOK(c)
  BY <1>5 DEF DueFrom, CallbacksOK
<1>8. /\ c \in owed /\ hand[c] = None /\ \A r \in Rec : ~ Waits(c, r)
      /\ \A u \in Workers : DueFrom(c, u) => u = t
  BY <1>7 DEF CallbackOK
<1>9. /\ CallbackOK(c)'
      /\ \A d \in Callbacks : d # c => calls'[d] = calls[d] /\ (d \in owed' <=> d \in owed)
  <2>1. /\ hand'[c] = None /\ \A r \in Rec : ~ Waits(c, r)'
        /\ \A u \in Workers : ~ DueFrom(c, u)'
    BY <1>3, <1>6, <1>8
  <2> QED BY <1>3, <1>7, <1>8, <2>1, Called
<1>10. ASSUME NEW d \in Callbacks, d # c PROVE CallbackOK(d)'
  <2>1. CallbackOK(d) /\ asked'[d] = asked[d] /\ hand'[d] = hand[d]
    BY <1>3 DEF CallbacksOK
  <2> QED BY <1>6, <1>9, <1>10, <2>1, CallbackFrame
<1>11. /\ \A r \in Rec : Distinct(callbacks'[r])
       /\ \A u \in Workers : Distinct(cbs'[u])
  BY <1>3, <1>4, <1>5 DEF CallbacksOK
<1> QED BY <1>9, <1>10, <1>11 DEF CallbacksOK

-----------------------------------------------------------------------------
(* Every step keeps the invariant.                                         *)

LEMMA InitInv == Init => Inv
BY InitTyped, InitPool, InitLookups, InitOwners, InitCallbacks DEF Inv

LEMMA SamePlaces ==
    ASSUME UNCHANGED pc
    PROVE  \A t \in Threads : /\ pc'[t] = "none" <=> pc[t] = "none"
                              /\ pc'[t] = "idle" <=> pc[t] = "idle"
OBVIOUS

LEMMA ResolveNowInv ==
    ASSUME Inv, NEW c \in Callbacks, NEW h \in Hosts, NEW b \in Bypass, NEW r \in Rec,
           ResolveNow(c, h, b, r)
    PROVE  Inv'
<1>1. Typed' /\ ThreadsOK'
  BY ResolveNowTyped DEF Inv
<1>2. PoolOK'
  <2>1. UNCHANGED <<mThreadCount, mHaveIdleThread, mPendingQ, notified, failed, pc>>
    BY DEF ResolveNow, pool, queues, thread
  <2> QED BY <1>1, <2>1, SamePlaces, PoolFrame DEF Inv
<1>3. QueuesOK' /\ LookupsOK'
  BY ResolveNowLookups DEF Inv
<1>4. OwnersOK'
  BY ResolveNowOwners DEF Inv
<1>5. CallbacksOK'
  BY ResolveNowCallbacks DEF Inv
<1> QED BY <1>1, <1>2, <1>3, <1>4, <1>5 DEF Inv

LEMMA ResolveJoinInv ==
    ASSUME Inv, NEW c \in Callbacks, NEW h \in Hosts, NEW b \in Bypass, NEW r \in Rec,
           ResolveJoin(c, h, b, r)
    PROVE  Inv'
<1>1. Typed' /\ ThreadsOK'
  BY ResolveJoinTyped DEF Inv
<1>2. PoolOK'
  <2>1. UNCHANGED <<mThreadCount, mHaveIdleThread, mPendingQ, notified, failed, pc>>
    BY DEF ResolveJoin, pool, queues, thread
  <2> QED BY <1>1, <2>1, SamePlaces, PoolFrame DEF Inv
<1>3. QueuesOK' /\ LookupsOK'
  BY ResolveJoinLookups DEF Inv
<1>4. OwnersOK'
  <2>1. UNCHANGED <<mDB, refc, queues, local, work, hand>>
    BY DEF ResolveJoin, db, thread
  <2> QED BY <2>1, OwnersFrame DEF Inv
<1>5. CallbacksOK'
  BY ResolveJoinCallbacks DEF Inv
<1> QED BY <1>1, <1>2, <1>3, <1>4, <1>5 DEF Inv

LEMMA ResolveLookupInv ==
    ASSUME Inv, NEW c \in Callbacks, NEW h \in Hosts, NEW b \in Bypass, NEW r \in Rec,
           NEW ok \in BOOLEAN, ResolveLookup(c, h, b, r, ok)
    PROVE  Inv'
<1>1. Typed' /\ ThreadsOK'
  BY ResolveLookupTyped DEF Inv
<1>2. PoolOK'
  BY ResolveLookupPool DEF Inv
<1>3. QueuesOK' /\ LookupsOK'
  BY ResolveLookupLookups DEF Inv
<1>4. OwnersOK'
  BY ResolveLookupOwners DEF Inv
<1>5. CallbacksOK'
  BY ResolveLookupCallbacks DEF Inv
<1> QED BY <1>1, <1>2, <1>3, <1>4, <1>5 DEF Inv

LEMMA DetachCallbackInv ==
    ASSUME Inv, NEW c \in Callbacks, NEW r \in Rec, DetachCallback(c, r)
    PROVE  Inv'
<1>1. Typed' /\ ThreadsOK'
  BY DetachCallbackTyped DEF Inv
<1>2. PoolOK'
  <2>1. UNCHANGED <<mThreadCount, mHaveIdleThread, mPendingQ, notified, failed, pc>>
    BY DEF DetachCallback, pool, queues, thread, hist
  <2> QED BY <1>1, <2>1, SamePlaces, PoolFrame DEF Inv
<1>3. QueuesOK' /\ LookupsOK'
  BY DetachCallbackLookups DEF Inv
<1>4. OwnersOK'
  BY DetachCallbackOwners DEF Inv
<1>5. CallbacksOK'
  BY DetachCallbackCallbacks DEF Inv
<1> QED BY <1>1, <1>2, <1>3, <1>4, <1>5 DEF Inv

LEMMA CallFromHandInv ==
    ASSUME Inv, NEW c \in Callbacks, CallFromHand(c)
    PROVE  Inv'
<1>1. Typed' /\ ThreadsOK'
  BY CallFromHandTyped DEF Inv
<1>2. PoolOK'
  <2>1. UNCHANGED <<mThreadCount, mHaveIdleThread, mPendingQ, notified, failed, pc>>
    BY DEF CallFromHand, pool, queues, thread
  <2> QED BY <1>1, <2>1, SamePlaces, PoolFrame DEF Inv
<1>3. QueuesOK' /\ LookupsOK'
  BY CallFromHandLookups DEF Inv
<1>4. OwnersOK'
  BY CallFromHandOwners DEF Inv
<1>5. CallbacksOK'
  BY CallFromHandCallbacks DEF Inv
<1> QED BY <1>1, <1>2, <1>3, <1>4, <1>5 DEF Inv

LEMMA GetHostInv ==
    ASSUME Inv, NEW t \in Threads, GetHost(t)
    PROVE  Inv'
<1>1. /\ mHaveIdleThread \in BOOLEAN /\ FALSE \in BOOLEAN /\ pc[t] \in {"get", "idle"}
      /\ GetHostToLookup(t, mHaveIdleThread, FALSE)
      /\ mHaveIdleThread <=> \E u \in Threads : u # t /\ pc[u] = "idle"
  BY DEF GetHost, Inv, PoolOK, Typed
<1>2. PICK idle \in BOOLEAN : idle = mHaveIdleThread
  BY <1>1
<1>3. GetHostToLookup(t, idle, FALSE) /\ (idle <=> \E u \in Threads : u # t /\ pc[u] = "idle")
  BY <1>1, <1>2
<1>4. Typed' /\ ThreadsOK'
  BY GetHostTyped DEF Inv
<1>5. PoolOK'
  BY <1>1, <1>3, GetHostToLookupPool DEF Inv
<1>6. QueuesOK' /\ LookupsOK'
  BY <1>1, <1>3, GetHostToLookupLookups DEF Inv
<1>7. OwnersOK'
  BY <1>1, <1>3, GetHostToLookupOwners DEF Inv
<1>8. CallbacksOK'
  <2>1. UNCHANGED <<callbacks, cbs, asked, hand, owed, calls>>
    BY DEF GetHost, GetHostToLookup, records, caller, hist
  <2> QED BY <2>1, CallbacksSame DEF Inv
<1> QED BY <1>4, <1>5, <1>6, <1>7, <1>8 DEF Inv

LEMMA WakeIdleInv ==
    ASSUME Inv, NEW t \in Threads, NEW expired \in BOOLEAN, WakeIdle(t, expired)
    PROVE  Inv'
<1>1. /\ FALSE \in BOOLEAN /\ pc[t] \in {"get", "idle"}
      /\ GetHostToLookup(t, FALSE, expired)
      /\ FALSE <=> \E u \in Threads : u # t /\ pc[u] = "idle"
  BY DEF WakeIdle, Inv, ThreadsOK
<1>2. PICK idle \in BOOLEAN : idle = FALSE
  OBVIOUS
<1>3. GetHostToLookup(t, idle, expired) /\ (idle <=> \E u \in Threads : u # t /\ pc[u] = "idle")
  BY <1>1, <1>2
<1>4. Typed' /\ ThreadsOK'
  BY WakeIdleTyped DEF Inv
<1>5. PoolOK'
  BY <1>1, <1>3, GetHostToLookupPool DEF Inv
<1>6. QueuesOK' /\ LookupsOK'
  BY <1>1, <1>3, GetHostToLookupLookups DEF Inv
<1>7. OwnersOK'
  BY <1>1, <1>3, GetHostToLookupOwners DEF Inv
<1>8. CallbacksOK'
  <2>1. UNCHANGED <<callbacks, cbs, asked, hand, owed, calls>>
    BY DEF WakeIdle, GetHostToLookup, records, caller, hist
  <2> QED BY <2>1, CallbacksSame DEF Inv
<1> QED BY <1>4, <1>5, <1>6, <1>7, <1>8 DEF Inv

LEMMA LookupDoneInv ==
    ASSUME Inv, NEW t \in Threads, NEW ok \in BOOLEAN, LookupDone(t, ok)
    PROVE  Inv'
<1>1. Typed' /\ ThreadsOK'
  BY LookupDoneTyped DEF Inv
<1>2. PoolOK'
  <2>1. UNCHANGED <<mThreadCount, mHaveIdleThread, mPendingQ, notified, failed>>
    BY DEF LookupDone, Complete, pool, hist
  <2>2. pc[t] = "lookup" /\ pc' = [pc EXCEPT ![t] = "calling"]
    BY DEF LookupDone, Complete
  <2>3. \A u \in Threads : /\ pc'[u] = "none" <=> pc[u] = "none"
                           /\ pc'[u] = "idle" <=> pc[u] = "idle"
    BY <2>2, ConstantFacts DEF Inv, Typed
  <2> QED BY <1>1, <2>1, <2>3, PoolFrame DEF Inv
<1>3. QueuesOK' /\ LookupsOK'
  BY LookupDoneLookups DEF Inv
<1>4. OwnersOK'
  BY LookupDoneOwners DEF Inv
<1>5. CallbacksOK'
  BY LookupDoneCallbacks DEF Inv
<1> QED BY <1>1, <1>2, <1>3, <1>4, <1>5 DEF Inv

LEMMA CallNextInv ==
    ASSUME Inv, NEW t \in Workers, CallNext(t)
    PROVE  Inv'
<1>1. Typed' /\ ThreadsOK'
  BY CallNextTyped DEF Inv
<1>2. PoolOK'
  <2>1. UNCHANGED <<mThreadCount, mHaveIdleThread, mPendingQ, notified, failed, pc>>
    BY DEF CallNext, pool, queues
  <2> QED BY <1>1, <2>1, SamePlaces, PoolFrame DEF Inv
<1>3. QueuesOK' /\ LookupsOK'
  BY CallNextLookups DEF Inv
<1>4. OwnersOK'
  <2>1. UNCHANGED <<mDB, refc, queues, local, work, hand>>
    BY DEF CallNext, db, caller
  <2> QED BY <2>1, OwnersFrame DEF Inv
<1>5. CallbacksOK'
  BY CallNextCallbacks DEF Inv
<1> QED BY <1>1, <1>2, <1>3, <1>4, <1>5 DEF Inv

LEMMA CallsDoneInv ==
    ASSUME Inv, NEW t \in Workers, CallsDone(t)
    PROVE  Inv'
<1>1. Typed' /\ ThreadsOK'
  BY CallsDoneTyped DEF Inv
<1>2. PoolOK'
  <2>1. UNCHANGED <<mThreadCount, mHaveIdleThread, mPendingQ, notified, failed>>
    BY DEF CallsDone, pool, queues, hist
  <2>2. pc[t] = "calling" /\ pc' = [pc EXCEPT ![t] = IF t = Main THEN "abort" ELSE "get"]
    BY DEF CallsDone
  <2>3. \A u \in Threads : /\ pc'[u] = "none" <=> pc[u] = "none"
                           /\ pc'[u] = "idle" <=> pc[u] = "idle"
    BY <2>2, ConstantFacts DEF Inv, Typed
  <2> QED BY <1>1, <2>1, <2>3, PoolFrame DEF Inv
<1>3. QueuesOK' /\ LookupsOK'
  BY CallsDoneLookups DEF Inv
<1>4. OwnersOK'
  BY CallsDoneOwners DEF Inv
<1>5. CallbacksOK'
  <2>1. UNCHANGED <<callbacks, cbs, asked, hand, owed, calls>>
    BY DEF CallsDone, caller, hist
  <2> QED BY <2>1, CallbacksSame DEF Inv
<1> QED BY <1>1, <1>2, <1>3, <1>4, <1>5 DEF Inv

LEMMA ShutdownInv ==
    ASSUME Inv, Shutdown
    PROVE  Inv'
<1>1. Typed' /\ ThreadsOK'
  BY ShutdownTyped DEF Inv
<1>2. PoolOK'
  <2>1. UNCHANGED <<mThreadCount, mHaveIdleThread>> /\ mPendingQ' = << >>
    BY DEF Shutdown
  <2>2. pc' = [pc EXCEPT ![Main] = "abort"]
    BY DEF Shutdown
  <2>3. \A u \in Threads : pc'[u] = pc[u]
    BY <2>2, ConstantFacts DEF Inv, Typed
  <2> QED BY <1>1, <2>1, <2>3, PoolFrame DEF Inv
<1>3. QueuesOK' /\ LookupsOK'
  BY ShutdownLookups DEF Inv
<1>4. OwnersOK'
  BY ShutdownOwners DEF Inv
<1>5. CallbacksOK'
  <2>1. UNCHANGED <<callbacks, cbs, asked, hand, owed, calls>>
    BY DEF Shutdown, caller, hist
  <2> QED BY <2>1, CallbacksSame DEF Inv
<1> QED BY <1>1, <1>2, <1>3, <1>4, <1>5 DEF Inv

LEMMA AbortInv ==
    ASSUME Inv, Abort
    PROVE  Inv'
<1>1. Typed' /\ ThreadsOK'
  BY AbortTyped DEF Inv
<1>2. PoolOK'
  <2>1. UNCHANGED <<mThreadCount, mHaveIdleThread, mPendingQ, notified, failed>>
    BY DEF Abort, Complete, pool, hist
  <2>2. pc' = [pc EXCEPT ![Main] = "calling"]
    BY DEF Abort, Complete
  <2>3. \A u \in Threads : pc'[u] = pc[u]
    BY <2>2, ConstantFacts DEF Inv, Typed
  <2> QED BY <1>1, <2>1, <2>3, PoolFrame DEF Inv
<1>3. QueuesOK' /\ LookupsOK'
  BY AbortLookups DEF Inv
<1>4. OwnersOK'
  BY AbortOwners DEF Inv
<1>5. CallbacksOK'
  BY AbortCallbacks DEF Inv
<1> QED BY <1>1, <1>2, <1>3, <1>4, <1>5 DEF Inv

LEMMA ReleaseEvictedInv ==
    ASSUME Inv, ReleaseEvicted
    PROVE  Inv'
<1>1. Typed' /\ ThreadsOK'
  BY ReleaseEvictedTyped DEF Inv
<1>2. PoolOK'
  <2>1. UNCHANGED <<mThreadCount, mHaveIdleThread, mPendingQ, notified, failed>>
    BY DEF ReleaseEvicted, pool, queues, hist
  <2>2. pc' = [pc EXCEPT ![Main] = "down"]
    BY DEF ReleaseEvicted
  <2>3. \A u \in Threads : pc'[u] = pc[u]
    BY <2>2, ConstantFacts DEF Inv, Typed
  <2> QED BY <1>1, <2>1, <2>3, PoolFrame DEF Inv
<1>3. QueuesOK' /\ LookupsOK'
  BY ReleaseEvictedLookups DEF Inv
<1>4. OwnersOK'
  BY ReleaseEvictedOwners DEF Inv
<1>5. CallbacksOK'
  <2>1. UNCHANGED <<callbacks, cbs, asked, hand, owed, calls>>
    BY DEF ReleaseEvicted, caller, hist
  <2> QED BY <2>1, CallbacksSame DEF Inv
<1> QED BY <1>1, <1>2, <1>3, <1>4, <1>5 DEF Inv

LEMMA StutterInv ==
    ASSUME Inv, UNCHANGED vars
    PROVE  Inv'
<1>1. UNCHANGED <<db, refc, records, queues, pool, mShutdown, thread, local, caller, hist>>
  BY DEF vars
<1>2. /\ UNCHANGED <<mDB, key, refc, callbacks, resolving, hasResult>>
      /\ UNCHANGED <<mPendingQ, mEvictionQ, mEvictionQSize, pendingQ, evictionQ>>
      /\ UNCHANGED <<mHaveIdleThread, mThreadCount, notified, mShutdown>>
      /\ UNCHANGED <<pc, work, cbs, status, asked, hand, owed, calls, failed>>
  BY <1>1 DEF db, records, queues, pool, thread, local, caller, hist
<1>3. Typed' /\ ThreadsOK'
  <2>1. Typed'
    BY <1>2 DEF Inv, Typed
  <2>2. ThreadsOK'
    BY <1>2 DEF Inv, ThreadsOK
  <2> QED BY <2>1, <2>2
<1>4. PoolOK'
  BY <1>2, <1>3, SamePlaces, PoolFrame DEF Inv
<1>5. QueuesOK' /\ LookupsOK'
  BY <1>2, SameLooking, LookupsFrame DEF Inv
<1>6. OwnersOK'
  BY <1>1, <1>2, OwnersFrame DEF Inv
<1>7. CallbacksOK'
  BY <1>2, CallbacksSame DEF Inv
<1> QED BY <1>3, <1>4, <1>5, <1>6, <1>7 DEF Inv

LEMMA NextInv == Inv /\ [Next]_vars => Inv'
<1> SUFFICES ASSUME Inv, [Next]_vars PROVE Inv'
  OBVIOUS
<1>1. ASSUME NEW c \in Callbacks, Resolve(c) PROVE Inv'
  <2>1. PICK h \in Hosts, b \in Bypass, r \in Rec :
          \/ ResolveNow(c, h, b, r) \/ ResolveJoin(c, h, b, r)
          \/ \E ok \in BOOLEAN : ResolveLookup(c, h, b, r, ok)
    BY <1>1 DEF Resolve
  <2> QED BY <2>1, ResolveNowInv, ResolveJoinInv, ResolveLookupInv
<1>2. ASSUME NEW c \in Callbacks, CallFromHand(c) PROVE Inv'
  BY <1>2, CallFromHandInv
<1>3. ASSUME NEW c \in Callbacks, NEW r \in Rec, DetachCallback(c, r) PROVE Inv'
  BY <1>3, DetachCallbackInv
<1>4. ASSUME NEW t \in Threads, ThreadStep(t) \/ WakeIdle(t, TRUE) PROVE Inv'
  <2>1. t \in Workers
    BY ConstantFacts
  <2> QED BY <1>4, <2>1, GetHostInv, CallNextInv, CallsDoneInv, WakeIdleInv, LookupDoneInv
          DEF ThreadStep
<1>5. CASE Shutdown
  BY <1>5, ShutdownInv
<1>6. CASE ShutdownStep
  <2>1. Main \in Workers
    BY ConstantFacts
  <2> QED BY <1>6, <2>1, CallNextInv, CallsDoneInv, AbortInv, ReleaseEvictedInv DEF ShutdownStep
<1>7. CASE UNCHANGED vars
  BY <1>7, StutterInv
<1> QED BY <1>1, <1>2, <1>3, <1>4, <1>5, <1>6, <1>7 DEF Next

-----------------------------------------------------------------------------
(* What the invariant says of the properties that the runs check.          *)

LEMMA InvTypeOK == Inv => TypeOK
<1> SUFFICES ASSUME Inv PROVE TypeOK
  OBVIOUS
<1>. USE ConstantFacts
<1>1. Typed /\ ThreadsOK /\ PoolOK /\ OwnersOK
  BY DEF Inv
<1>2. refc \in [Rec -> Nat]
  <2>1. ASSUME NEW r \in Rec PROVE refc[r] \in Nat
    BY <1>1, OwnerCounts DEF Bit
  <2> QED BY <1>1, <2>1 DEF Typed
<1>3. /\ \A r \in Rec : ToSet(callbacks[r]) \subseteq Callbacks
      /\ \A t \in Workers : ToSet(cbs[t]) \subseteq Callbacks
  <2>1. /\ \A r \in Rec : callbacks[r] \in Seq(Callbacks)
        /\ \A t \in Workers : cbs[t] \in Seq(Callbacks)
    BY <1>1 DEF Typed
  <2> QED BY <2>1, ToSetContains
<1>4. /\ ToSet(mPendingQ) \subseteq Rec /\ ToSet(mEvictionQ) \subseteq Rec
      /\ ToSet(pendingQ) \subseteq Rec /\ ToSet(evictionQ) \subseteq Rec
  <2>1. /\ mPendingQ \in Seq(Rec) /\ mEvictionQ \in Seq(Rec)
        /\ pendingQ \in Seq(Rec) /\ evictionQ \in Seq(Rec)
    BY <1>1 DEF Typed
  <2> QED BY <2>1, ToSetContains
<1>5. mEvictionQSize \in 0 .. MaxCache
  <2>1. mEvictionQSize = Len(mEvictionQ) /\ mEvictionQSize <= MaxCache /\ mEvictionQ \in Seq(Rec)
    BY <1>1 DEF OwnersOK, Typed
  <2> QED BY <2>1
<1>6. mThreadCount \in 0 .. Cardinality(Threads)
  <2>1. mThreadCount = Cardinality(Threads \ Idle)
    BY <1>1 DEF PoolOK
  <2>2. IsFiniteSet(Threads) /\ Threads \ Idle \subseteq Threads
    OBVIOUS
  <2>3. IsFiniteSet(Threads \ Idle) /\ Cardinality(Threads \ Idle) <= Cardinality(Threads)
    BY <2>2, FS_Subset
  <2>4. Cardinality(Threads \ Idle) \in Nat /\ Cardinality(Threads) \in Nat
    BY <2>2, <2>3, FS_CardinalityType
  <2> QED BY <2>1, <2>3, <2>4
<1> QED BY <1>1, <1>2, <1>3, <1>4, <1>5, <1>6 DEF TypeOK, Typed, PlacesOfPc

\* A record that is being looked up has an owner.
LEMMA ResolvingOwned ==
    ASSUME Inv, NEW r \in Rec, resolving[r]
    PROVE  refc[r] > 0
<1>1. Typed /\ OwnersOK /\ LookupsOK
  BY DEF Inv
<1>2. Pending(r) \/ \E t \in Threads : Looking(t, r)
  BY <1>1 DEF LookupsOK
<1>3. refc[r] # 0
  <2>1. ASSUME refc[r] = 0 PROVE FALSE
    BY <1>1, <1>2, <2>1, FreeNowhere, ConstantFacts DEF Pending, Looking
  <2> QED BY <2>1
<1>4. refc[r] \in Nat
  BY InvTypeOK DEF TypeOK
<1> QED BY <1>3, <1>4

LEMMA InvResolverInv == Inv => ResolverInv
<1> SUFFICES ASSUME Inv PROVE ResolverInv
  OBVIOUS
<1>1. TypeOK
  BY InvTypeOK
<1>2. RefsExact
  BY DEF Inv, OwnersOK
<1>3. ResolvingExact
  BY DEF Inv, LookupsOK, ResolvingExact, Pending, Looking
<1>4. CountsExact
  <2>1. Cardinality({t \in Threads : pc[t] = "idle"}) <= 1
    <3>1. CASE {t \in Threads : pc[t] = "idle"} = {}
      BY <3>1, FS_EmptySet
    <3>2. ASSUME NEW t \in Threads, pc[t] = "idle"
          PROVE  Cardinality({u \in Threads : pc[u] = "idle"}) <= 1
      <4>1. {u \in Threads : pc[u] = "idle"} = {t}
        BY <3>2 DEF Inv, ThreadsOK
      <4>2. Cardinality({t}) = 1
        BY FS_Singleton
      <4> QED BY <4>1, <4>2
    <3> QED BY <3>1, <3>2
  <2> QED BY <2>1 DEF Inv, PoolOK, OwnersOK, CountsExact
<1> QED BY <1>1, <1>2, <1>3, <1>4 DEF ResolverInv

LEMMA InvCalledOnce == Inv => CalledOnce
<1> SUFFICES ASSUME Inv, NEW c \in Callbacks
             PROVE  /\ Cardinality({r \in Rec : refc[r] > 0 /\ c \in ToSet(callbacks[r])})
                       + Cardinality({t \in Workers : c \in ToSet(cbs[t])})
                       + Bit(hand[c] # None) = Bit(c \in owed)
                    /\ calls[c] + Bit(c \in owed) <= 1
  BY DEF CalledOnce
<1>. DEFINE R == {r \in Rec : refc[r] > 0 /\ c \in ToSet(callbacks[r])}
            T == {t \in Workers : c \in ToSet(cbs[t])}
<1>1. CallbackOK(c) /\ calls[c] \in Nat
  BY DEF Inv, CallbacksOK, Typed
<1>2. ASSUME NEW r \in Rec, Waits(c, r) PROVE r \in R
  <2>1. callbacks[r] # << >>
    BY <1>2, EmptyList DEF Waits
  <2>2. resolving[r]
    BY <2>1 DEF Inv, LookupsOK
  <2> QED BY <1>2, <2>2, ResolvingOwned DEF Waits
<1>3. /\ R = {r \in Rec : Waits(c, r)}
      /\ T = {t \in Workers : DueFrom(c, t)}
  BY <1>2 DEF Waits, DueFrom
<1>. HIDE DEF R, T
<1>4. calls[c] + Bit(c \in owed) <= 1
  BY <1>1 DEF CallbackOK, Bit
<1>5. CASE c \notin owed
  <2>1. R = {} /\ T = {} /\ hand[c] = None
    BY <1>1, <1>3, <1>5 DEF CallbackOK
  <2>2. Cardinality(R) = 0 /\ Cardinality(T) = 0
    BY <2>1, FS_EmptySet
  <2> QED BY <1>4, <1>5, <2>1, <2>2 DEF Bit, R, T
<1>6. ASSUME c \in owed, NEW r \in Rec, Waits(c, r)
      PROVE  Cardinality(R) + Cardinality(T) + Bit(hand[c] # None) = Bit(c \in owed)
  <2>1. R = {r} /\ T = {} /\ hand[c] = None
    BY <1>1, <1>3, <1>6 DEF CallbackOK
  <2>2. Cardinality(R) = 1 /\ Cardinality(T) = 0
    BY <2>1, FS_EmptySet, FS_Singleton
  <2> QED BY <1>6, <2>1, <2>2 DEF Bit
<1>7. ASSUME c \in owed, NEW t \in Workers, DueFrom(c, t)
      PROVE  Cardinality(R) + Cardinality(T) + Bit(hand[c] # None) = Bit(c \in owed)
  <2>1. R = {} /\ T = {t} /\ hand[c] = None
    BY <1>1, <1>3, <1>7 DEF CallbackOK
  <2>2. Cardinality(R) = 0 /\ Cardinality(T) = 1
    BY <2>1, FS_EmptySet, FS_Singleton
  <2> QED BY <1>7, <2>1, <2>2 DEF Bit
<1>8. ASSUME c \in owed, hand[c] # None
      PROVE  Cardinality(R) + Cardinality(T) + Bit(hand[c] # None) = Bit(c \in owed)
  <2>1. R = {} /\ T = {}
    BY <1>1, <1>3, <1>8 DEF CallbackOK
  <2>2. Cardinality(R) = 0 /\ Cardinality(T) = 0
    BY <2>1, FS_EmptySet
  <2> QED BY <1>8, <2>2 DEF Bit
<1>9. Cardinality(R) + Cardinality(T) + Bit(hand[c] # None) = Bit(c \in owed)
  BY <1>1, <1>5, <1>6, <1>7, <1>8 DEF CallbackOK, R, T
<1> QED BY <1>4, <1>9 DEF R, T

(* Safety of a specification needs its initial states and its steps only.  *)
LEMMA SpecInv == Spec => []Inv
BY InitInv, NextInv, PTL DEF Spec

(* nsHostResolver's books are right in every state: a record's reference   *)
(* count is the number of its owners (so OnLookupComplete, the eviction    *)
(* queue, Shutdown and the callers neither free a record in use nor leak   *)
(* one), "resolving" is true exactly while the record is queued for or in  *)
(* a lookup, and the sizes of the eviction queue and of the thread pool,   *)
(* kept by hand, agree with what they count.                               *)
THEOREM ResolverInvariant == Spec => []ResolverInv
BY SpecInv, InvResolverInv, PTL

(* A callback that ResolveHost accepted and that was not called yet waits  *)
(* on one record that has an owner, or is on one thread's list, or is in   *)
(* its caller's hand; every other callback is nowhere, and none is called  *)
(* twice, whether the lookup completes, is detached or is aborted.         *)
THEOREM CallbacksCalledOnce == Spec => []CalledOnce
BY SpecInv, InvCalledOnce, PTL

(* As long as every lookup thread could be created, a record on mPendingQ  *)
(* has a thread that will look at the queue again without waiting for the  *)
(* idle timeout: IssueLookup and GetHostToLookup lose no wakeup.           *)
THEOREM LookupsHaveThreads == Spec => []LookupHasThread
<1>1. Inv => LookupHasThread
  BY DEF Inv, PoolOK
<1> QED BY <1>1, SpecInv, PTL
=============================================================================
