--------------------------- MODULE ThreadPoolProofs ---------------------------
(***************************************************************************)
(* For every number of callers, pool threads and events, every limit, with *)
(* failing allocations and Shutdown at any moment: PoolInv is an invariant *)
(* of ThreadPool, and with it the number of members stays within the       *)
(* limit, no thread sleeps on a queued event and, where no allocation      *)
(* fails, a queued event has a server.                                     *)
(***************************************************************************)
EXTENDS ThreadPool, FiniteSetTheorems, TLAPS

\* The idle threads as a finite set: what one thread more or less does to
\* their number.
LEMMA IdleFacts ==
    ASSUME TypeOK, IdleCountExact, NEW w \in Workers
    PROVE  /\ IsFiniteSet(IdleThreads)
           /\ mIdleCount = Cardinality(IdleThreads)
           /\ mIdleCount \in Nat
           /\ w \in IdleThreads => /\ mIdleCount - 1 \in Nat
                                   /\ Cardinality(IdleThreads \ {w}) = mIdleCount - 1
           /\ w \notin IdleThreads => /\ IdleThreads \ {w} = IdleThreads
                                      /\ Cardinality(IdleThreads \cup {w}) = mIdleCount + 1
<1>1. IsFiniteSet(IdleThreads)
  BY FS_Subset, PoolAssumption DEF IdleThreads, PoolAssumption
<1>2. mIdleCount = Cardinality(IdleThreads) /\ mIdleCount \in Nat
  BY DEF IdleCountExact, TypeOK
<1>3. ASSUME w \in IdleThreads
      PROVE  /\ mIdleCount - 1 \in Nat
             /\ Cardinality(IdleThreads \ {w}) = mIdleCount - 1
  <2>1. Cardinality(IdleThreads \ {w}) = mIdleCount - 1
    BY <1>1, <1>2, <1>3, FS_RemoveElement
  <2>2. mIdleCount # 0
    BY <1>1, <1>2, <1>3, FS_EmptySet
  <2> QED BY <1>2, <2>1, <2>2
<1>4. ASSUME w \notin IdleThreads
      PROVE  /\ IdleThreads \ {w} = IdleThreads
             /\ Cardinality(IdleThreads \cup {w}) = mIdleCount + 1
  <2>1. Cardinality(IdleThreads \cup {w}) = Cardinality(IdleThreads) + 1
    BY <1>1, <1>4, FS_AddElement
  <2>2. IdleThreads \ {w} = IdleThreads
    BY <1>4
  <2> QED BY <1>2, <2>1, <2>2
<1> QED BY <1>1, <1>2, <1>3, <1>4

\* A pool without threads satisfies the invariant.
LEMMA InitPool == Init => PoolInv
<1> SUFFICES ASSUME Init PROVE PoolInv
  OBVIOUS
<1> USE PoolAssumption DEF PoolAssumption
<1>1. TypeOK
  <2>1. NewWorker("dead") \in WorkerStates /\ IdleDispatcher \in DispatcherStates
    BY DEF NewWorker, IdleDispatcher, WorkerStates, DispatcherStates
  <2>2. << >> \in Seq({"run", "shutdown"}) /\ << >> \in Seq(Events)
    OBVIOUS
  <2>3. NewWorker("dead").pc # "running" /\ IdleDispatcher.pc # "put"
    BY DEF NewWorker, IdleDispatcher
  <2> QED BY <2>1, <2>2, <2>3 DEF Init, TypeOK
<1>2. IdleThreads = {}
  BY DEF Init, IdleThreads, NewWorker
<1>3. IdleCountExact
  BY <1>2, FS_EmptySet DEF Init, IdleCountExact
<1>4. RunByMembersOnce
  <2>1. Runners = {} /\ Pending = {} /\ DispatchedOnce
    BY DEF Init, Runners, Pending, DispatchedOnce, NewWorker
  <2>2. HoldersApart
    BY DEF Init, HoldersApart, IdleDispatcher
  <2> QED BY <1>2, <2>1, <2>2 DEF RunByMembersOnce
<1> QED BY <1>1, <1>3, <1>4 DEF PoolInv

\* Steps that leave the pool's members, the callers and the threads' queues
\* alone, and after which no other threads are in Run or idle.
LEMMA SameMembers ==
    ASSUME RunByMembersOnce, IdleCountExact,
           UNCHANGED <<mThreads, mIdleCount, threadQueue, dispatcher>>,
           \A v \in Workers :
             /\ worker'[v].wasIdle <=> worker[v].wasIdle
             /\ worker'[v].pc \in {"loop", "waiting", "running"}
                  <=> worker[v].pc \in {"loop", "waiting", "running"}
    PROVE  RunByMembersOnce' /\ IdleCountExact'
<1>1. IdleThreads' = IdleThreads /\ Runners' = Runners
  BY DEF IdleThreads, Runners
<1>2. Pending' = Pending /\ (DispatchedOnce' <=> DispatchedOnce)
  BY DEF Pending, DispatchedOnce
<1>3. HoldersApart'
  BY <1>1, <1>2 DEF HoldersApart, RunByMembersOnce
<1> QED BY <1>1, <1>2, <1>3 DEF RunByMembersOnce, IdleCountExact

\* nsThread::Shutdown puts nothing that starts Run into a thread's queue.
LEMMA PostShutdownFacts ==
    ASSUME TypeOK, NEW w \in Workers, PostShutdown(w)
    PROVE  /\ threadQueue' \in [Workers -> Seq({"run", "shutdown"})]
           /\ shutdownReq' \in [Workers -> BOOLEAN]
           /\ Pending' = Pending
           /\ DispatchedOnce => DispatchedOnce'
<1>1. /\ threadQueue \in [Workers -> Seq({"run", "shutdown"})]
      /\ shutdownReq \in [Workers -> BOOLEAN]
  BY DEF TypeOK
<1>2. /\ threadQueue' \in [Workers -> Seq({"run", "shutdown"})]
      /\ shutdownReq' \in [Workers -> BOOLEAN]
  BY <1>1 DEF PostShutdown
<1>3. ASSUME NEW v \in Workers
      PROVE  /\ Len(threadQueue[v]) \in Nat
             /\ DOMAIN threadQueue[v] = 1 .. Len(threadQueue[v])
             /\ \A i \in DOMAIN threadQueue'[v] : threadQueue'[v][i] = "run" =>
                  i \in DOMAIN threadQueue[v] /\ threadQueue[v][i] = "run"
             /\ \A i \in DOMAIN threadQueue[v] :
                  i \in DOMAIN threadQueue'[v] /\ threadQueue'[v][i] = threadQueue[v][i]
  <2>1. CASE threadQueue'[v] = threadQueue[v]
    BY <1>1, <2>1
  <2>2. CASE threadQueue'[v] = Append(threadQueue[v], "shutdown")
    BY <1>1, <2>2
  <2> QED BY <1>1, <2>1, <2>2 DEF PostShutdown
<1>4. Pending' = Pending
  BY <1>3 DEF Pending
<1>5. DispatchedOnce => DispatchedOnce'
  BY <1>3 DEF DispatchedOnce
<1> QED BY <1>2, <1>4, <1>5

\* What the steps of one caller do to its own record.
LEMMA ReturnType ==
    ASSUME TypeOK, NEW d \in Dispatchers, Return(d)
    PROVE  /\ dispatcher' \in [Dispatchers -> DispatcherStates]
           /\ \A c \in Dispatchers : c # d => dispatcher'[c] = dispatcher[c]
           /\ dispatcher'[d].pc \in {"idle", "sync"}
           /\ dispatcher'[d].thread = NoWorker
<1> DEFINE s == [dispatcher[d] EXCEPT !.pc = "sync", !.thread = NoWorker]
<1>1. dispatcher \in [Dispatchers -> DispatcherStates]
  BY DEF TypeOK
<1>2. s \in DispatcherStates /\ s.pc = "sync" /\ s.thread = NoWorker
  BY <1>1 DEF DispatcherStates
<1>3. /\ IdleDispatcher \in DispatcherStates
      /\ IdleDispatcher.pc = "idle" /\ IdleDispatcher.thread = NoWorker
  BY DEF DispatcherStates, IdleDispatcher
<1>4. PICK r \in {s, IdleDispatcher} : dispatcher' = [dispatcher EXCEPT ![d] = r]
  BY <1>1 DEF Return
<1> HIDE DEF s
<1> QED BY <1>1, <1>2, <1>3, <1>4

\* A caller that goes on inside PutEvent keeps the thread it holds.
LEMMA GotoType ==
    ASSUME TypeOK, NEW d \in Dispatchers,
           NEW pc \in {"spawn", "append", "start", "kill", "joining"}, Goto(d, pc)
    PROVE  /\ dispatcher' \in [Dispatchers -> DispatcherStates]
           /\ \A c \in Dispatchers : c # d => dispatcher'[c] = dispatcher[c]
           /\ dispatcher'[d].pc = pc
           /\ dispatcher'[d].thread = dispatcher[d].thread
<1> DEFINE r == [dispatcher[d] EXCEPT !.pc = pc]
<1>1. dispatcher \in [Dispatchers -> DispatcherStates]
  BY DEF TypeOK
<1>2. r \in DispatcherStates /\ r.pc = pc /\ r.thread = dispatcher[d].thread
  BY <1>1 DEF DispatcherStates
<1>3. dispatcher' = [dispatcher EXCEPT ![d] = r]
  BY DEF Goto
<1> HIDE DEF r
<1> QED BY <1>1, <1>2, <1>3

\* Notifying the idle threads changes nothing but where they are.
LEMMA NotifyFacts ==
    ASSUME TypeOK, NotifyAll
    PROVE  /\ worker' \in [Workers -> WorkerStates]
           /\ \A v \in Workers :
                /\ worker'[v].wasIdle <=> worker[v].wasIdle
                /\ worker'[v].pc \in {"loop", "waiting", "running"}
                     <=> worker[v].pc \in {"loop", "waiting", "running"}
                /\ worker'[v].pc = "running" => worker'[v].event \in Events
<1>1. ASSUME NEW v \in Workers
      PROVE  /\ worker'[v] \in WorkerStates
             /\ worker'[v].pc = "running" => worker'[v].event \in Events
             /\ worker'[v].wasIdle <=> worker[v].wasIdle
             /\ worker'[v].pc \in {"loop", "waiting", "running"}
                  <=> worker[v].pc \in {"loop", "waiting", "running"}
  <2>1. /\ worker[v] \in WorkerStates
        /\ worker[v].pc = "running" => worker[v].event \in Events
    BY DEF TypeOK
  <2>2. CASE worker[v].pc = "waiting"
    <3>1. worker'[v] = [worker[v] EXCEPT !.pc = "loop"]
      BY <2>2 DEF NotifyAll, Woken
    <3> QED BY <2>1, <2>2, <3>1 DEF WorkerStates
  <2>3. CASE worker[v].pc # "waiting"
    <3>1. worker'[v] = worker[v]
      BY <2>3 DEF NotifyAll, Woken
    <3> QED BY <2>1, <3>1
  <2> QED BY <2>2, <2>3
<1>2. worker' = [v \in Workers |-> worker'[v]]
  BY DEF NotifyAll, Woken
<1> QED BY <1>1, <1>2

\* A caller that holds no thread in a new way keeps the callers apart.
LEMMA HolderStep ==
    ASSUME TypeOK, HoldersApart, NEW d \in Dispatchers,
           \A c \in Dispatchers : c # d => dispatcher'[c] = dispatcher[c],
           dispatcher'[d].pc \in {"idle", "put", "spawn", "sync"},
           dispatcher'[d].thread \in {NoWorker, dispatcher[d].thread},
           UNCHANGED mThreads, Runners' \subseteq Runners, Pending' \subseteq Pending
    PROVE  HoldersApart'
BY DEF HoldersApart

\* A call of Dispatch touches the record of its caller only.
LEMMA DispatchInv ==
    ASSUME PoolInv, NEW d \in Dispatchers, NEW e \in Events, NEW sync \in BOOLEAN,
           Dispatch(d, e, sync)
    PROVE  PoolInv'
<1> USE DEF PoolInv
<1>1. /\ dispatcher' \in [Dispatchers -> DispatcherStates]
      /\ \A c \in Dispatchers : c # d => dispatcher'[c] = dispatcher[c]
      /\ dispatcher'[d].pc = "put" /\ dispatcher'[d].event = e
      /\ dispatcher'[d].thread = dispatcher[d].thread
  <2> DEFINE r == [dispatcher[d] EXCEPT !.pc = "put", !.event = e, !.sync = sync]
  <2>1. dispatcher \in [Dispatchers -> DispatcherStates]
    BY DEF TypeOK
  <2>2. /\ r \in DispatcherStates
        /\ r.pc = "put" /\ r.event = e /\ r.thread = dispatcher[d].thread
    BY <2>1 DEF DispatcherStates
  <2>3. dispatcher' = [dispatcher EXCEPT ![d] = r]
    BY DEF Dispatch
  <2> HIDE DEF r
  <2> QED BY <2>1, <2>2, <2>3
<1>2. TypeOK'
  BY <1>1 DEF Dispatch, TypeOK, poolVars
<1>3. /\ Runners' = Runners /\ Pending' = Pending /\ IdleThreads' = IdleThreads
      /\ DispatchedOnce' = DispatchedOnce
      /\ UNCHANGED <<mThreads, mIdleCount>>
  BY DEF Dispatch, poolVars, Runners, Pending, IdleThreads, DispatchedOnce
<1>4. HoldersApart'
  BY <1>1, <1>3, HolderStep DEF RunByMembersOnce
<1> QED BY <1>2, <1>3, <1>4 DEF RunByMembersOnce, IdleCountExact

\* The first hold of PutEvent: no member comes or goes.
LEMMA PutEventInv ==
    ASSUME PoolInv, NEW d \in Dispatchers, PutEvent(d)
    PROVE  PoolInv'
<1> USE DEF PoolInv
<1>1. /\ worker' \in [Workers -> WorkerStates]
      /\ \A v \in Workers :
           /\ worker'[v].wasIdle <=> worker[v].wasIdle
           /\ worker'[v].pc \in {"loop", "waiting", "running"}
                <=> worker[v].pc \in {"loop", "waiting", "running"}
           /\ worker'[v].pc = "running" => worker'[v].event \in Events
  <2>1. CASE NotifyAll
    BY <2>1, NotifyFacts
  <2>2. CASE UNCHANGED worker
    BY <2>2 DEF TypeOK
  <2> QED BY <2>1, <2>2 DEF PutEvent
<1>2. /\ dispatcher' \in [Dispatchers -> DispatcherStates]
      /\ \A c \in Dispatchers : c # d => dispatcher'[c] = dispatcher[c]
      /\ dispatcher'[d].pc \in {"idle", "spawn", "sync"}
      /\ dispatcher'[d].thread \in {NoWorker, dispatcher[d].thread}
  <2>1. CASE Goto(d, "spawn")
    BY <2>1, GotoType
  <2>2. CASE Return(d)
    BY <2>2, ReturnType
  <2> QED BY <2>1, <2>2 DEF PutEvent
<1>3. TypeOK'
  <2>1. mEvents' \in Seq(Events)
    <3>1. mEvents \in Seq(Events) /\ dispatcher[d].event \in Events
      BY DEF PutEvent, TypeOK
    <3>2. mEvents' = mEvents \/ mEvents' = Append(mEvents, dispatcher[d].event)
      BY DEF PutEvent
    <3> QED BY <3>1, <3>2
  <2> QED BY <1>1, <1>2, <2>1 DEF PutEvent, TypeOK
<1>4. /\ Runners' = Runners /\ IdleThreads' = IdleThreads
  BY <1>1 DEF Runners, IdleThreads
<1>5. /\ Pending' = Pending /\ DispatchedOnce' = DispatchedOnce
      /\ UNCHANGED <<mThreads, mIdleCount>>
  BY DEF PutEvent, Pending, DispatchedOnce
<1>6. HoldersApart'
  BY <1>2, <1>4, <1>5, HolderStep DEF RunByMembersOnce
<1> QED BY <1>3, <1>4, <1>5, <1>6 DEF RunByMembersOnce, IdleCountExact

\* A new thread is neither a member nor held by another caller.
LEMMA SpawnThreadInv ==
    ASSUME PoolInv, NEW d \in Dispatchers, SpawnThread(d)
    PROVE  PoolInv'
<1> USE DEF PoolInv
<1>0. /\ Pending \subseteq mThreads /\ IdleThreads \subseteq Runners /\ HoldersApart
      /\ UNCHANGED <<mThreads, mIdleCount>>
  BY DEF RunByMembersOnce, SpawnThread, poolVars
<1>1. CASE UNCHANGED <<worker, threadQueue, shutdownReq>> /\ Return(d)
  <2>1. /\ dispatcher' \in [Dispatchers -> DispatcherStates]
        /\ \A c \in Dispatchers : c # d => dispatcher'[c] = dispatcher[c]
        /\ dispatcher'[d].pc \in {"idle", "sync"}
        /\ dispatcher'[d].thread = NoWorker
    BY <1>1, ReturnType
  <2>2. TypeOK'
    BY <1>1, <2>1 DEF SpawnThread, poolVars, TypeOK
  <2>3. /\ Runners' = Runners /\ Pending' = Pending /\ IdleThreads' = IdleThreads
        /\ DispatchedOnce' = DispatchedOnce
    BY <1>1 DEF Runners, Pending, IdleThreads, DispatchedOnce
  <2>4. HoldersApart'
    BY <1>0, <2>1, <2>3, HolderStep
  <2> QED BY <1>0, <2>2, <2>3, <2>4 DEF RunByMembersOnce, IdleCountExact
<1>2. ASSUME NEW w \in Workers, Free(w),
             worker' = [worker EXCEPT ![w] = NewWorker("top")],
             threadQueue' = [threadQueue EXCEPT ![w] = << >>],
             shutdownReq' = [shutdownReq EXCEPT ![w] = TRUE],
             dispatcher' = [dispatcher EXCEPT ![d].pc = "append", ![d].thread = w]
      PROVE  PoolInv'
  <2>0. worker[w].pc = "dead" /\ w \notin mThreads /\ NewWorker("top") \in WorkerStates
        /\ \A c \in Dispatchers : dispatcher[c].thread # w
    BY <1>2 DEF Free, NewWorker, WorkerStates
  <2>1. /\ dispatcher' \in [Dispatchers -> DispatcherStates]
        /\ \A c \in Dispatchers : c # d => dispatcher'[c] = dispatcher[c]
        /\ dispatcher'[d].pc = "append"
        /\ dispatcher'[d].thread = w
    <3>1. dispatcher \in [Dispatchers -> DispatcherStates]
      BY DEF TypeOK
    <3>2. [dispatcher[d] EXCEPT !.pc = "append", !.thread = w] \in DispatcherStates
      BY <3>1 DEF DispatcherStates
    <3>3. dispatcher' = [dispatcher EXCEPT ![d] =
                           [dispatcher[d] EXCEPT !.pc = "append", !.thread = w]]
      BY <1>2, <3>1
    <3>4. [dispatcher[d] EXCEPT !.pc = "append", !.thread = w].pc = "append"
          /\ [dispatcher[d] EXCEPT !.pc = "append", !.thread = w].thread = w
      BY <3>1 DEF DispatcherStates
    <3> QED BY <3>1, <3>2, <3>3, <3>4
  <2>2. /\ worker' \in [Workers -> WorkerStates]
        /\ \A v \in Workers : v # w => worker'[v] = worker[v]
        /\ worker'[w].pc = "top" /\ ~ worker'[w].wasIdle
    BY <1>2, <2>0 DEF TypeOK, NewWorker
  <2>3. /\ threadQueue' \in [Workers -> Seq({"run", "shutdown"})]
        /\ \A v \in Workers : v # w => threadQueue'[v] = threadQueue[v]
        /\ threadQueue'[w] = << >>
        /\ shutdownReq' \in [Workers -> BOOLEAN]
    BY <1>2 DEF TypeOK
  <2>4. TypeOK'
    BY <2>1, <2>2, <2>3 DEF SpawnThread, poolVars, TypeOK
  <2>5. w \notin Runners
    BY <2>0 DEF Runners
  <2>6. Runners' = Runners /\ IdleThreads' = IdleThreads
    BY <1>0, <2>2, <2>5 DEF Runners, IdleThreads
  <2>7. Pending' = Pending
    BY <1>0, <2>0, <2>3 DEF Pending
  <2>8. DispatchedOnce'
    BY <2>3 DEF DispatchedOnce, RunByMembersOnce
  <2>9. HoldersApart'
    BY <1>0, <2>0, <2>1, <2>6, <2>7 DEF HoldersApart
  <2> QED BY <1>0, <2>4, <2>6, <2>7, <2>8, <2>9 DEF RunByMembersOnce, IdleCountExact
<1> QED BY <1>1, <1>2 DEF SpawnThread

\* The new thread becomes a member, not yet in Run, or stays out.
LEMMA AppendThreadInv ==
    ASSUME PoolInv, NEW d \in Dispatchers, AppendThread(d)
    PROVE  PoolInv'
<1> USE DEF PoolInv
<1> DEFINE w == dispatcher[d].thread
<1>0. w \in Workers \ mThreads /\ HoldersApart
  BY DEF AppendThread, RunByMembersOnce, HoldersApart
<1>1. PICK pc \in {"start", "kill"} :
        /\ Goto(d, pc)
        /\ mThreads' = IF pc = "start" THEN mThreads \cup {w} ELSE mThreads
  BY DEF AppendThread
<1>2. /\ dispatcher' \in [Dispatchers -> DispatcherStates]
      /\ \A c \in Dispatchers : c # d => dispatcher'[c] = dispatcher[c]
      /\ dispatcher'[d].pc = pc
      /\ dispatcher'[d].thread = w
  BY <1>1, GotoType
<1>3. TypeOK'
  BY <1>0, <1>1, <1>2 DEF AppendThread, TypeOK
<1>4. /\ Runners' = Runners /\ Pending' = Pending /\ IdleThreads' = IdleThreads
      /\ DispatchedOnce' = DispatchedOnce /\ UNCHANGED mIdleCount
  BY DEF AppendThread, Runners, Pending, IdleThreads, DispatchedOnce
<1>5. w \notin Runners \cup Pending
  BY <1>0 DEF RunByMembersOnce
<1>6. HoldersApart'
  <2>1. \A c \in Dispatchers : c # d => dispatcher[c].thread # w
    BY <1>0, PoolAssumption DEF HoldersApart, PoolAssumption
  <2>2. ASSUME NEW b \in Dispatchers
        PROVE  /\ dispatcher'[b].pc \in {"append", "kill", "joining"} =>
                    dispatcher'[b].thread \in Workers \ mThreads'
               /\ dispatcher'[b].pc = "start" =>
                    dispatcher'[b].thread \in mThreads' \ (Runners' \cup Pending')
    <3>1. CASE b = d
      BY <1>0, <1>1, <1>2, <1>4, <1>5, <3>1
    <3>2. CASE b # d
      BY <1>0, <1>1, <1>2, <1>4, <2>1, <3>2 DEF HoldersApart
    <3> QED BY <3>1, <3>2
  <2>3. \A b \in Dispatchers : dispatcher'[b].thread = dispatcher[b].thread
    BY <1>2
  <2> HIDE DEF w
  <2> QED BY <1>0, <2>2, <2>3 DEF HoldersApart
<1> QED BY <1>1, <1>3, <1>4, <1>6 DEF RunByMembersOnce, IdleCountExact

\* The member that is started was not started before.
LEMMA StartThreadInv ==
    ASSUME PoolInv, NEW d \in Dispatchers, StartThread(d)
    PROVE  PoolInv'
<1> USE DEF PoolInv
<1> DEFINE w == dispatcher[d].thread
<1>0. w \in mThreads \ (Runners \cup Pending) /\ w \in Workers /\ HoldersApart
  BY DEF StartThread, RunByMembersOnce, HoldersApart, TypeOK
<1>1. /\ dispatcher' \in [Dispatchers -> DispatcherStates]
      /\ \A c \in Dispatchers : c # d => dispatcher'[c] = dispatcher[c]
      /\ dispatcher'[d].pc \in {"idle", "sync"}
      /\ dispatcher'[d].thread = NoWorker
  BY ReturnType DEF StartThread
<1>2. /\ threadQueue \in [Workers -> Seq({"run", "shutdown"})]
      /\ threadQueue' = [threadQueue EXCEPT ![w] = Append(@, "run")]
  BY DEF StartThread, TypeOK
<1> HIDE DEF w
<1>3. threadQueue' \in [Workers -> Seq({"run", "shutdown"})]
  BY <1>0, <1>2
<1>4. TypeOK'
  BY <1>1, <1>3 DEF StartThread, poolVars, TypeOK
<1>5. /\ \A v \in Workers : v # w => threadQueue'[v] = threadQueue[v]
      /\ Len(threadQueue[w]) \in Nat
      /\ DOMAIN threadQueue[w] = 1 .. Len(threadQueue[w])
      /\ DOMAIN threadQueue'[w] = 1 .. Len(threadQueue[w]) + 1
      /\ \A i \in 1 .. Len(threadQueue[w]) : threadQueue'[w][i] = threadQueue[w][i]
      /\ threadQueue'[w][Len(threadQueue[w]) + 1] = "run"
  <2>1. threadQueue[w] \in Seq({"run", "shutdown"})
        /\ threadQueue'[w] = Append(threadQueue[w], "run")
    BY <1>0, <1>2
  <2>2. \A v \in Workers : v # w => threadQueue'[v] = threadQueue[v]
    BY <1>2
  <2> QED BY <2>1, <2>2
<1>6. Pending' = Pending \cup {w}
  BY <1>0, <1>5 DEF Pending
<1>7. DispatchedOnce'
  <2>1. \A i \in 1 .. Len(threadQueue[w]) : threadQueue[w][i] # "run"
    BY <1>0, <1>5 DEF Pending
  <2>2. \A i \in DOMAIN threadQueue'[w] :
          threadQueue'[w][i] = "run" => i = Len(threadQueue[w]) + 1
    BY <1>5, <2>1
  <2> QED BY <1>5, <2>2 DEF DispatchedOnce, RunByMembersOnce
<1>8. /\ Runners' = Runners /\ IdleThreads' = IdleThreads
      /\ UNCHANGED <<mThreads, mIdleCount>>
  BY DEF StartThread, poolVars, Runners, IdleThreads
<1>9. HoldersApart'
  <2>1. \A c \in Dispatchers : c # d => dispatcher[c].thread # w
    BY <1>0, PoolAssumption DEF HoldersApart, PoolAssumption, w
  <2> QED BY <1>0, <1>1, <1>6, <1>8, <2>1 DEF HoldersApart
<1> QED BY <1>0, <1>4, <1>6, <1>7, <1>8, <1>9 DEF RunByMembersOnce, IdleCountExact

\* The surplus thread is told to end; it never was a member.
LEMMA KillThreadInv ==
    ASSUME PoolInv, NEW d \in Dispatchers, KillThread(d)
    PROVE  PoolInv'
<1> USE DEF PoolInv
<1>0. dispatcher[d].thread \in Workers \ mThreads
  BY DEF KillThread, RunByMembersOnce, HoldersApart
<1>1. /\ dispatcher' \in [Dispatchers -> DispatcherStates]
      /\ \A c \in Dispatchers : c # d => dispatcher'[c] = dispatcher[c]
      /\ dispatcher'[d].pc = "joining"
      /\ dispatcher'[d].thread = dispatcher[d].thread
  BY GotoType DEF KillThread
<1>2. /\ threadQueue' \in [Workers -> Seq({"run", "shutdown"})]
      /\ shutdownReq' \in [Workers -> BOOLEAN]
      /\ Pending' = Pending
      /\ DispatchedOnce => DispatchedOnce'
  BY <1>0, PostShutdownFacts DEF KillThread
<1>3. TypeOK'
  BY <1>1, <1>2 DEF KillThread, poolVars, TypeOK
<1>4. /\ Runners' = Runners /\ IdleThreads' = IdleThreads
      /\ UNCHANGED <<mThreads, mIdleCount>>
  BY DEF KillThread, poolVars, Runners, IdleThreads
<1>5. HoldersApart'
  <2>1. HoldersApart
    BY DEF RunByMembersOnce
  <2>2. \A c \in Dispatchers : dispatcher'[c].thread = dispatcher[c].thread
    BY <1>1
  <2> HIDE DEF PoolInv
  <2>3. ASSUME NEW b \in Dispatchers
        PROVE  /\ dispatcher'[b].pc \in {"append", "kill", "joining"} =>
                    dispatcher'[b].thread \in Workers \ mThreads'
               /\ dispatcher'[b].pc = "start" =>
                    dispatcher'[b].thread \in mThreads' \ (Runners' \cup Pending')
    <3>1. CASE b = d
      BY <1>0, <1>1, <1>4, <3>1
    <3>2. CASE b # d
      <4>1. dispatcher'[b] = dispatcher[b]
        BY <1>1, <3>2
      <4> QED BY <1>2, <1>4, <2>1, <4>1 DEF HoldersApart
    <3> QED BY <3>1, <3>2
  <2>4. \A b, c \in Dispatchers : dispatcher'[c].thread = dispatcher'[b].thread
          => c = b \/ dispatcher'[b].thread = NoWorker
    BY <2>1, <2>2 DEF HoldersApart
  <2> QED BY <2>3, <2>4 DEF HoldersApart
<1> QED BY <1>2, <1>3, <1>4, <1>5 DEF RunByMembersOnce, IdleCountExact

\* A caller comes back from joining the surplus thread, or from its wait for a
\* synchronous event.
LEMMA CallerBackInv ==
    ASSUME PoolInv, NEW d \in Dispatchers, KillDone(d) \/ SyncDone(d)
    PROVE  PoolInv'
<1> USE DEF PoolInv
<1>1. /\ dispatcher' \in [Dispatchers -> DispatcherStates]
      /\ \A c \in Dispatchers : c # d => dispatcher'[c] = dispatcher[c]
      /\ dispatcher'[d].pc \in {"idle", "sync"}
      /\ dispatcher'[d].thread = NoWorker
  <2>1. CASE KillDone(d)
    BY <2>1, ReturnType DEF KillDone
  <2>2. CASE SyncDone(d)
    BY <2>2 DEF SyncDone, TypeOK, IdleDispatcher, DispatcherStates
  <2> QED BY <2>1, <2>2
<1>2. UNCHANGED <<poolVars, worker, threadQueue, shutdownReq, mainQueue, owner, used, ran>>
  BY DEF KillDone, SyncDone
<1>3. TypeOK'
  BY <1>1, <1>2 DEF poolVars, TypeOK
<1>4. /\ Runners' = Runners /\ Pending' = Pending /\ IdleThreads' = IdleThreads
      /\ DispatchedOnce' = DispatchedOnce
      /\ UNCHANGED <<mThreads, mIdleCount>>
  BY <1>2 DEF poolVars, Runners, Pending, IdleThreads, DispatchedOnce
<1>5. HoldersApart'
  BY <1>1, <1>4, HolderStep DEF RunByMembersOnce
<1> QED BY <1>3, <1>4, <1>5 DEF RunByMembersOnce, IdleCountExact

\* nsThread::Shutdown from the main thread or from the pool's owner.
LEMMA PostShutdownInv ==
    ASSUME PoolInv, NEW w \in Workers, MainShutdown(w) \/ ShutdownJoin(w)
    PROVE  PoolInv'
<1> USE DEF PoolInv
<1>1. /\ threadQueue' \in [Workers -> Seq({"run", "shutdown"})]
      /\ shutdownReq' \in [Workers -> BOOLEAN]
      /\ Pending' = Pending
      /\ DispatchedOnce => DispatchedOnce'
  BY PostShutdownFacts DEF MainShutdown, ShutdownJoin
<1>2. UNCHANGED <<poolVars, worker, dispatcher, used, ran>>
  BY DEF MainShutdown, ShutdownJoin
<1>3. TypeOK'
  <2>1. CASE MainShutdown(w)
    BY <1>1, <1>2, <2>1 DEF MainShutdown, poolVars, TypeOK
  <2>2. CASE ShutdownJoin(w)
    BY <1>1, <1>2, <2>2 DEF ShutdownJoin, poolVars, TypeOK
  <2> QED BY <2>1, <2>2
<1>4. /\ Runners' = Runners /\ IdleThreads' = IdleThreads
      /\ UNCHANGED <<mThreads, mIdleCount>>
  BY <1>2 DEF poolVars, Runners, IdleThreads
<1>5. HoldersApart'
  BY <1>1, <1>2, <1>4 DEF HoldersApart, RunByMembersOnce
<1> QED BY <1>1, <1>3, <1>4, <1>5 DEF RunByMembersOnce, IdleCountExact

\* Steps of a pool thread that neither begin nor end its Run and do not change
\* whether it calls itself idle.
LEMMA WorkerStepInv ==
    ASSUME PoolInv, NEW w \in Workers,
           RunEvent(w) \/ ShutdownThread(w) \/ ThreadExit(w) \/ WaitTimeout(w)
    PROVE  PoolInv'
<1> USE DEF PoolInv
<1>0. worker \in [Workers -> WorkerStates] /\ worker[w] \in WorkerStates
  BY DEF TypeOK
<1>1. /\ worker' \in [Workers -> WorkerStates]
      /\ \A v \in Workers : v # w => worker'[v] = worker[v]
      /\ worker'[w].wasIdle = worker[w].wasIdle
      /\ worker'[w].pc # "running"
      /\ worker'[w].pc \in {"loop", "waiting", "running"}
           <=> worker[w].pc \in {"loop", "waiting", "running"}
  <2>1. CASE RunEvent(w)
    BY <1>0, <2>1 DEF RunEvent, WorkerStates
  <2>2. CASE ShutdownThread(w)
    BY <1>0, <2>2 DEF ShutdownThread, WorkerStates
  <2>3. CASE ThreadExit(w)
    BY <1>0, <2>3 DEF ThreadExit, WorkerStates
  <2>4. CASE WaitTimeout(w)
    BY <1>0, <2>4 DEF WaitTimeout, WorkerStates
  <2> QED BY <2>1, <2>2, <2>3, <2>4
<1>2. UNCHANGED <<poolVars, threadQueue, shutdownReq, dispatcher, owner, used>>
  BY DEF RunEvent, ShutdownThread, ThreadExit, WaitTimeout
<1>3. ran' \in SUBSET Events /\ mainQueue' \in SUBSET Workers
  BY DEF RunEvent, ShutdownThread, ThreadExit, WaitTimeout, TypeOK
<1>4. TypeOK'
  BY <1>1, <1>2, <1>3 DEF poolVars, TypeOK
<1>5. \A v \in Workers :
        /\ worker'[v].wasIdle <=> worker[v].wasIdle
        /\ worker'[v].pc \in {"loop", "waiting", "running"}
             <=> worker[v].pc \in {"loop", "waiting", "running"}
  BY <1>1
<1> QED BY <1>2, <1>4, <1>5, SameMembers DEF poolVars

\* The owner's calls, which wake the idle threads.
LEMMA OwnerCallInv ==
    ASSUME PoolInv,
           \/ \E n \in ThreadLimits : SetThreadLimit(n)
           \/ \E n \in IdleLimits : SetIdleThreadLimit(n)
           \/ SetIdleThreadTimeout
           \/ Shutdown
    PROVE  PoolInv'
<1> USE DEF PoolInv
<1>1. /\ NotifyAll
      /\ UNCHANGED <<mEvents, mThreads, mIdleCount, threadQueue, shutdownReq, mainQueue,
                     dispatcher, used, ran>>
  BY DEF SetThreadLimit, SetIdleThreadLimit, SetIdleThreadTimeout, Shutdown, poolVars
<1>2. /\ worker' \in [Workers -> WorkerStates]
      /\ \A v \in Workers :
           /\ worker'[v].wasIdle <=> worker[v].wasIdle
           /\ worker'[v].pc \in {"loop", "waiting", "running"}
                <=> worker[v].pc \in {"loop", "waiting", "running"}
           /\ worker'[v].pc = "running" => worker'[v].event \in Events
  BY <1>1, NotifyFacts
<1>3. /\ mThreadLimit' \in Nat \ {0} /\ mIdleThreadLimit' \in Nat
      /\ mShutdown' \in BOOLEAN
      /\ owner' \in [pc : {"idle", "joining", "done"}, join : SUBSET Workers,
                     thread : Workers \cup {NoWorker}]
  BY PoolAssumption DEF PoolAssumption, SetThreadLimit, SetIdleThreadLimit, LimitIdle,
     SetIdleThreadTimeout, Shutdown, poolVars, TypeOK
<1>4. TypeOK'
  BY <1>1, <1>2, <1>3 DEF TypeOK
<1> QED BY <1>1, <1>2, <1>4, SameMembers

\* The owner comes back from a thread it joined, or from Shutdown.
LEMMA OwnerBackInv ==
    ASSUME PoolInv, ShutdownJoined \/ ShutdownReturn
    PROVE  PoolInv'
<1> USE DEF PoolInv
<1>1. UNCHANGED <<poolVars, worker, threadQueue, shutdownReq, mainQueue, dispatcher,
                  used, ran>>
  BY DEF ShutdownJoined, ShutdownReturn
<1>2. owner' \in [pc : {"idle", "joining", "done"}, join : SUBSET Workers,
                  thread : Workers \cup {NoWorker}]
  BY DEF ShutdownJoined, ShutdownReturn, TypeOK
<1>3. TypeOK'
  BY <1>1, <1>2 DEF poolVars, TypeOK
<1> QED BY <1>1, <1>3, SameMembers DEF poolVars

\* A thread that takes an event is not idle any more, and is uncounted if it was.
LEMMA TakeEventInv ==
    ASSUME PoolInv, NEW w \in Workers, TakeEvent(w)
    PROVE  PoolInv'
<1> USE DEF PoolInv
<1>0. /\ worker \in [Workers -> WorkerStates] /\ worker[w] \in WorkerStates
      /\ mEvents \in Seq(Events) /\ mEvents # << >>
  BY DEF TakeEvent, TypeOK
<1>1. Head(mEvents) \in Events /\ Tail(mEvents) \in Seq(Events)
  BY <1>0
<1>2. /\ worker' \in [Workers -> WorkerStates]
      /\ \A v \in Workers : v # w => worker'[v] = worker[v]
      /\ worker'[w].pc = "running" /\ worker'[w].wasIdle = FALSE
      /\ worker'[w].event \in Events
  BY <1>0, <1>1 DEF TakeEvent, WorkerStates
<1>3. IdleThreads' = IdleThreads \ {w}
  BY <1>2 DEF IdleThreads
<1>4. mIdleCount' = Cardinality(IdleThreads \ {w}) /\ mIdleCount' \in Nat
  <2>1. mIdleCount' = IF w \in IdleThreads THEN mIdleCount - 1 ELSE mIdleCount
    BY DEF TakeEvent, IdleThreads
  <2> QED BY <2>1, IdleFacts
<1>5. TypeOK'
  BY <1>1, <1>2, <1>4 DEF TakeEvent, TypeOK
<1>6. w \in Runners
  BY DEF TakeEvent, Runners
<1>7. Runners' = Runners
  BY <1>2, <1>6 DEF Runners
<1>8. /\ Pending' = Pending /\ DispatchedOnce' = DispatchedOnce
      /\ UNCHANGED <<mThreads, dispatcher>>
  BY DEF TakeEvent, Pending, DispatchedOnce
<1>9. HoldersApart'
  BY <1>7, <1>8 DEF HoldersApart, RunByMembersOnce
<1> QED BY <1>3, <1>4, <1>5, <1>7, <1>8, <1>9 DEF RunByMembersOnce, IdleCountExact

\* A thread that leaves is uncounted if it was idle, and no member any more.
LEMMA LeaveInv ==
    ASSUME PoolInv, NEW w \in Workers, Leave(w)
    PROVE  PoolInv'
<1> USE DEF PoolInv
<1>0. worker \in [Workers -> WorkerStates] /\ worker[w] \in WorkerStates
  BY DEF TypeOK
<1>1. /\ worker' \in [Workers -> WorkerStates]
      /\ \A v \in Workers : v # w => worker'[v] = worker[v]
      /\ worker'[w].pc \in {"leaving", "top"} /\ worker'[w].wasIdle = FALSE
  <2>1. PICK pc \in {"leaving", "top"} :
          worker' = [worker EXCEPT ![w].wasIdle = FALSE, ![w].pc = pc]
    BY DEF Leave
  <2> QED BY <1>0, <2>1 DEF WorkerStates
<1>2. IdleThreads' = IdleThreads \ {w} /\ Runners' = Runners \ {w}
  BY <1>1 DEF IdleThreads, Runners
<1>3. mIdleCount' = Cardinality(IdleThreads \ {w}) /\ mIdleCount' \in Nat
  <2>1. mIdleCount' = IF w \in IdleThreads THEN mIdleCount - 1 ELSE mIdleCount
    BY DEF Leave, IdleThreads
  <2> QED BY <2>1, IdleFacts
<1>4. TypeOK'
  BY <1>1, <1>3 DEF Leave, TypeOK
<1>5. w \in Runners /\ w \notin Pending
  BY DEF Leave, Runners, RunByMembersOnce
<1>6. /\ Pending' = Pending /\ DispatchedOnce' = DispatchedOnce
      /\ mThreads' = mThreads \ {w} /\ UNCHANGED dispatcher
  BY DEF Leave, Pending, DispatchedOnce
<1>7. HoldersApart'
  <2>1. \A d \in Dispatchers : dispatcher[d].pc = "start" => dispatcher[d].thread # w
    BY <1>5 DEF HoldersApart, RunByMembersOnce
  <2> QED BY <1>2, <1>6, <2>1 DEF HoldersApart, RunByMembersOnce
<1> QED BY <1>2, <1>3, <1>4, <1>5, <1>6, <1>7 DEF RunByMembersOnce, IdleCountExact

\* A thread that goes to sleep is counted, once.
LEMMA WaitIdleInv ==
    ASSUME PoolInv, NEW w \in Workers, WaitIdle(w)
    PROVE  PoolInv'
<1> USE DEF PoolInv
<1>0. worker \in [Workers -> WorkerStates] /\ worker[w] \in WorkerStates
  BY DEF TypeOK
<1>1. /\ worker' \in [Workers -> WorkerStates]
      /\ \A v \in Workers : v # w => worker'[v] = worker[v]
      /\ worker'[w].pc = "waiting" /\ worker'[w].wasIdle = TRUE
  BY <1>0 DEF WaitIdle, WorkerStates
<1>2. IdleThreads' = IdleThreads \cup {w}
  BY <1>1 DEF IdleThreads
<1>3. mIdleCount' = Cardinality(IdleThreads \cup {w}) /\ mIdleCount' \in Nat
  <2>1. mIdleCount' = IF w \in IdleThreads THEN mIdleCount ELSE mIdleCount + 1
    BY DEF WaitIdle, IdleThreads
  <2>2. CASE w \in IdleThreads
    <3>1. IdleThreads \cup {w} = IdleThreads
      BY <2>2
    <3> QED BY <2>1, <2>2, <3>1, IdleFacts
  <2>3. CASE w \notin IdleThreads
    <3>1. /\ mIdleCount \in Nat
          /\ Cardinality(IdleThreads \cup {w}) = mIdleCount + 1
      BY <2>3, IdleFacts
    <3> QED BY <2>1, <2>3, <3>1
  <2> QED BY <2>2, <2>3
<1>4. TypeOK'
  BY <1>1, <1>3 DEF WaitIdle, TypeOK
<1>5. w \in Runners
  BY DEF WaitIdle, Runners
<1>6. Runners' = Runners
  BY <1>1, <1>5 DEF Runners
<1>7. /\ Pending' = Pending /\ DispatchedOnce' = DispatchedOnce
      /\ UNCHANGED <<mThreads, dispatcher>>
  BY DEF WaitIdle, Pending, DispatchedOnce
<1>8. HoldersApart'
  BY <1>6, <1>7 DEF HoldersApart, RunByMembersOnce
<1> QED BY <1>2, <1>3, <1>4, <1>5, <1>6, <1>7, <1>8 DEF RunByMembersOnce, IdleCountExact

\* A thread begins Run, or learns that it is to end.
LEMMA ProcessNextEventInv ==
    ASSUME PoolInv, NEW w \in Workers, ProcessNextEvent(w)
    PROVE  PoolInv'
<1> USE DEF PoolInv
<1>0. /\ worker \in [Workers -> WorkerStates] /\ worker[w] \in WorkerStates
      /\ worker[w].pc = "top"
      /\ threadQueue \in [Workers -> Seq({"run", "shutdown"})]
      /\ threadQueue[w] \in Seq({"run", "shutdown"}) /\ threadQueue[w] # << >>
      /\ threadQueue' = [threadQueue EXCEPT ![w] = Tail(threadQueue[w])]
      /\ UNCHANGED <<poolVars, shutdownReq, mainQueue, dispatcher, owner, used, ran>>
  BY DEF ProcessNextEvent, TypeOK
<1>1. /\ \A v \in Workers : v # w => threadQueue'[v] = threadQueue[v]
      /\ threadQueue'[w] = Tail(threadQueue[w])
      /\ Tail(threadQueue[w]) \in Seq({"run", "shutdown"})
  BY <1>0
<1>2. threadQueue' \in [Workers -> Seq({"run", "shutdown"})]
  BY <1>0, <1>1
<1>3. /\ Len(threadQueue[w]) \in Nat \ {0}
      /\ DOMAIN threadQueue[w] = 1 .. Len(threadQueue[w])
      /\ DOMAIN threadQueue'[w] = 1 .. Len(threadQueue[w]) - 1
      /\ \A i \in 1 .. Len(threadQueue[w]) - 1 : threadQueue'[w][i] = threadQueue[w][i + 1]
      /\ Head(threadQueue[w]) = threadQueue[w][1]
  BY <1>0, <1>1
<1>4. DispatchedOnce'
  <2>1. \A i, j \in DOMAIN threadQueue[w] :
          threadQueue[w][i] = "run" /\ threadQueue[w][j] = "run" => i = j
    BY DEF RunByMembersOnce, DispatchedOnce
  <2>2. ASSUME NEW i \in DOMAIN threadQueue'[w], NEW j \in DOMAIN threadQueue'[w],
               threadQueue'[w][i] = "run", threadQueue'[w][j] = "run"
        PROVE  i = j
    <3>1. i + 1 \in DOMAIN threadQueue[w] /\ j + 1 \in DOMAIN threadQueue[w]
      BY <1>3
    <3>2. i + 1 = j + 1
      BY <1>3, <2>1, <2>2, <3>1
    <3> QED BY <1>3, <3>2
  <2> QED BY <1>1, <2>2 DEF RunByMembersOnce, DispatchedOnce
<1>5. Pending' \subseteq Pending
  <2>1. ASSUME NEW i \in DOMAIN threadQueue'[w]
        PROVE  i + 1 \in DOMAIN threadQueue[w] /\ threadQueue'[w][i] = threadQueue[w][i + 1]
    BY <1>3
  <2>2. ASSUME NEW v \in Pending' PROVE v \in Pending
    <3>1. v \in Workers /\ \E i \in DOMAIN threadQueue'[v] : threadQueue'[v][i] = "run"
      BY DEF Pending
    <3>2. CASE v = w
      BY <2>1, <3>1, <3>2 DEF Pending
    <3>3. CASE v # w
      BY <1>1, <3>1, <3>3 DEF Pending
    <3> QED BY <3>2, <3>3
  <2> QED BY <2>2
<1>6. /\ w \notin Runners /\ w \notin IdleThreads
      /\ HoldersApart /\ Runners \cap Pending = {} /\ Runners \cup Pending \subseteq mThreads
      /\ UNCHANGED <<mThreads, mIdleCount>>
  BY <1>0 DEF Runners, RunByMembersOnce, poolVars
<1>7. CASE Head(threadQueue[w]) = "run"
  <2>1. /\ worker' \in [Workers -> WorkerStates]
        /\ \A v \in Workers : v # w => worker'[v] = worker[v]
        /\ worker'[w].pc = "loop" /\ worker'[w].wasIdle = worker[w].wasIdle
    BY <1>0, <1>7 DEF ProcessNextEvent, WorkerStates
  <2>2. TypeOK'
    BY <1>0, <1>2, <2>1 DEF poolVars, TypeOK
  <2>3. w \in Pending
    BY <1>3, <1>7 DEF Pending
  <2>4. w \notin Pending'
    <3>1. \A i \in DOMAIN threadQueue[w] : threadQueue[w][i] = "run" => i = 1
      BY <1>3, <1>7 DEF RunByMembersOnce, DispatchedOnce
    <3>2. ASSUME NEW i \in DOMAIN threadQueue'[w] PROVE threadQueue'[w][i] # "run"
      <4>1. i + 1 \in DOMAIN threadQueue[w] /\ i + 1 # 1
            /\ threadQueue'[w][i] = threadQueue[w][i + 1]
        BY <1>3
      <4> QED BY <3>1, <4>1
    <3> QED BY <3>2 DEF Pending
  <2>5. Runners' = Runners \cup {w} /\ IdleThreads' = IdleThreads
    BY <2>1 DEF Runners, IdleThreads
  <2>6. HoldersApart'
    <3>1. \A d \in Dispatchers : dispatcher[d].pc = "start" => dispatcher[d].thread # w
      BY <1>6, <2>3 DEF HoldersApart
    <3> QED BY <1>0, <1>5, <1>6, <2>5, <3>1 DEF HoldersApart
  <2> QED BY <1>4, <1>5, <1>6, <2>2, <2>3, <2>4, <2>5, <2>6
          DEF RunByMembersOnce, IdleCountExact
<1>8. CASE Head(threadQueue[w]) # "run"
  <2>1. /\ worker' \in [Workers -> WorkerStates]
        /\ \A v \in Workers : v # w => worker'[v] = worker[v]
        /\ worker'[w].pc = "top" /\ worker'[w].wasIdle = worker[w].wasIdle
    BY <1>0, <1>8 DEF ProcessNextEvent, WorkerStates
  <2>2. TypeOK'
    BY <1>0, <1>2, <2>1 DEF poolVars, TypeOK
  <2>3. Runners' = Runners /\ IdleThreads' = IdleThreads
    BY <1>6, <2>1 DEF Runners, IdleThreads
  <2>4. HoldersApart'
    BY <1>0, <1>5, <1>6, <2>3 DEF HoldersApart
  <2> QED BY <1>4, <1>5, <1>6, <2>2, <2>3, <2>4 DEF RunByMembersOnce, IdleCountExact
<1> QED BY <1>7, <1>8

\* PoolInv is inductive: one case for each action.
LEMMA NextInv == PoolInv /\ [Next]_vars => PoolInv'
<1> SUFFICES ASSUME PoolInv, [Next]_vars PROVE PoolInv'
  OBVIOUS
<1>1. CASE UNCHANGED vars
  <2>1. UNCHANGED <<mEvents, mThreads, mIdleCount, mThreadLimit, mIdleThreadLimit,
                    mShutdown, worker, threadQueue, shutdownReq, mainQueue, dispatcher,
                    owner, used, ran>>
    BY <1>1 DEF vars, poolVars
  <2>2. TypeOK'
    BY <2>1 DEF PoolInv, TypeOK
  <2> QED BY <2>1, <2>2, SameMembers DEF PoolInv
<1>2. CASE \E d \in Dispatchers, e \in Events \ used, sync \in BOOLEAN : Dispatch(d, e, sync)
  BY <1>2, DispatchInv
<1>3. ASSUME NEW d \in Dispatchers, PutStep(d) PROVE PoolInv'
  BY <1>3, PutEventInv, SpawnThreadInv, AppendThreadInv, StartThreadInv, KillThreadInv,
     CallerBackInv DEF PutStep
<1>4. ASSUME NEW w \in Workers, RunStep(w) \/ WaitTimeout(w) \/ MainShutdown(w)
      PROVE  PoolInv'
  BY <1>4, TakeEventInv, LeaveInv, WaitIdleInv, WorkerStepInv, ProcessNextEventInv,
     PostShutdownInv DEF RunStep
<1>5. CASE \/ \E n \in ThreadLimits : SetThreadLimit(n)
           \/ \E n \in IdleLimits : SetIdleThreadLimit(n)
           \/ SetIdleThreadTimeout
           \/ Shutdown
  BY <1>5, OwnerCallInv
<1>6. CASE OwnerStep
  BY <1>6, PostShutdownInv, OwnerBackInv DEF OwnerStep
<1> QED BY <1>1, <1>2, <1>3, <1>4, <1>5, <1>6 DEF Next

\* The pool keeps its idle count exact and runs nsThreadPool::Run in members
\* only, once each, whatever callers, limits, failures and Shutdown do.
THEOREM PoolInvariant == SafetySpec => []PoolInv
<1>1. Init => PoolInv
  BY InitPool
<1>2. PoolInv /\ [Next]_vars => PoolInv'
  BY NextInv
<1> QED BY <1>1, <1>2, PTL DEF SafetySpec

\* The count PutEvent trusts when it decides not to create a thread is the
\* number of threads that really wait, and never wraps below zero.
THEOREM IdleCountAlwaysExact == SafetySpec => []IdleCountExact
<1>1. PoolInv => IdleCountExact
  BY DEF PoolInv
<1> QED BY <1>1, PoolInvariant, PTL

\* nsThreadPool::Run is executed by members of mThreads, once at most for each.
THEOREM RunAlwaysByMembersOnce == SafetySpec => []RunByMembersOnce
<1>1. PoolInv => RunByMembersOnce
  BY DEF PoolInv
<1> QED BY <1>1, PoolInvariant, PTL

\* The one step that adds a member is the second hold of PutEvent.
LEMMA OnlyAppendAdds ==
    ASSUME TypeOK, [Next]_vars, ~ (mThreads' \subseteq mThreads)
    PROVE  \E d \in Dispatchers :
             /\ Cardinality(mThreads) < mThreadLimit
             /\ mThreads' = mThreads \cup {dispatcher[d].thread}
<1>1. ~ UNCHANGED mThreads
  OBVIOUS
<1>2. ~ UNCHANGED vars /\ ~ UNCHANGED poolVars
  BY <1>1 DEF vars, poolVars
<1>3. ASSUME NEW w \in Workers PROVE ~ (RunStep(w) \/ WaitTimeout(w) \/ MainShutdown(w))
  BY <1>1, <1>2 DEF RunStep, TakeEvent, Leave, WaitIdle, RunEvent, ShutdownThread,
     ProcessNextEvent, ThreadExit, WaitTimeout, MainShutdown
<1>4. ~ (\E n \in ThreadLimits : SetThreadLimit(n)) /\ ~ SetIdleThreadTimeout
      /\ ~ (\E n \in IdleLimits : SetIdleThreadLimit(n)) /\ ~ Shutdown
  BY <1>1, <1>2 DEF SetThreadLimit, SetIdleThreadLimit, SetIdleThreadTimeout, Shutdown
<1>5. ~ OwnerStep
  BY <1>2 DEF OwnerStep, ShutdownJoin, ShutdownJoined, ShutdownReturn
<1>6. ~ \E d \in Dispatchers, e \in Events \ used, sync \in BOOLEAN : Dispatch(d, e, sync)
  BY <1>2 DEF Dispatch
<1>7. PICK d \in Dispatchers : PutStep(d)
  BY <1>2, <1>3, <1>4, <1>5, <1>6 DEF Next
<1>8. AppendThread(d)
  BY <1>1, <1>2, <1>7 DEF PutStep, PutEvent, SpawnThread, StartThread, KillThread,
     KillDone, SyncDone
<1> QED BY <1>1, <1>8 DEF AppendThread

\* PutEvent creates the thread between two holds of the monitor, and yet the
\* array never grows past the limit in force.
THEOREM PoolNeverGrowsPastLimit == SafetySpec => NeverGrowsPastLimit
<1>1. ASSUME PoolInv, [Next]_vars, ~ (mThreads' \subseteq mThreads)
      PROVE  Cardinality(mThreads') <= mThreadLimit
  <2>1. TypeOK /\ mThreads \in SUBSET Workers /\ mThreadLimit \in Nat
    BY <1>1 DEF PoolInv, TypeOK
  <2>2. PICK d \in Dispatchers :
          /\ Cardinality(mThreads) < mThreadLimit
          /\ mThreads' = mThreads \cup {dispatcher[d].thread}
    BY <1>1, <2>1, OnlyAppendAdds
  <2>3. IsFiniteSet(mThreads)
    BY <2>1, FS_Subset, PoolAssumption DEF PoolAssumption
  <2>4. Cardinality(mThreads) \in Nat
    BY <2>3, FS_CardinalityType
  <2>5. dispatcher[d].thread \notin mThreads
    BY <1>1, <2>2
  <2>6. Cardinality(mThreads') = Cardinality(mThreads) + 1
    BY <2>2, <2>3, <2>5, FS_AddElement
  <2> QED BY <2>1, <2>2, <2>4, <2>6
<1>2. PoolInv /\ [Next]_vars =>
        [~ (mThreads' \subseteq mThreads) => Cardinality(mThreads') <= mThreadLimit]_vars
  BY <1>1
<1> QED BY <1>2, PoolInvariant, PTL DEF SafetySpec, NeverGrowsPastLimit

\* Waking the idle threads leaves no sleeper.
LEMMA NobodySleeps == ASSUME TypeOK, NotifyAll PROVE SleepersAreIdle'
<1> SUFFICES ASSUME NEW v \in Workers PROVE worker'[v].pc # "waiting"
  BY DEF SleepersAreIdle
<1>1. worker[v] \in WorkerStates
  BY DEF TypeOK
<1>2. CASE worker[v].pc = "waiting"
  <2>1. worker'[v] = [worker[v] EXCEPT !.pc = "loop"]
    BY <1>2 DEF NotifyAll, Woken
  <2> QED BY <1>1, <2>1 DEF WorkerStates
<1>3. CASE worker[v].pc # "waiting"
  <2>1. worker'[v] = worker[v]
    BY <1>3 DEF NotifyAll, Woken
  <2> QED BY <1>3, <2>1
<1> QED BY <1>2, <1>3

\* A step of one pool thread keeps the sleepers as they are: the thread does
\* not sleep after it, or has just found the queue empty.
LEMMA SleepersAfterWorker ==
    ASSUME TypeOK, SleepersAreIdle, NEW w \in Workers,
           RunStep(w) \/ WaitTimeout(w) \/ MainShutdown(w)
    PROVE  SleepersAreIdle'
<1>0. worker \in [Workers -> WorkerStates] /\ worker[w] \in WorkerStates
      /\ mEvents \in Seq(Events)
  BY DEF TypeOK
<1>1. CASE TakeEvent(w)
  <2>1. worker'[w].pc = "running" /\ \A v \in Workers : v # w => worker'[v] = worker[v]
    BY <1>0, <1>1 DEF TakeEvent, WorkerStates
  <2>2. \A v \in Workers : worker[v].pc # "waiting"
    BY <1>1 DEF TakeEvent, SleepersAreIdle
  <2> QED BY <2>1, <2>2 DEF SleepersAreIdle
<1>2. CASE WaitIdle(w)
  <2>1. /\ worker'[w].wasIdle /\ mEvents' = << >> /\ mEvents = << >>
        /\ \A v \in Workers : v # w => worker'[v] = worker[v]
    BY <1>0, <1>2 DEF WaitIdle, WorkerStates
  <2> QED BY <2>1 DEF SleepersAreIdle
<1>3. CASE Leave(w)
  <2>1. PICK pc \in {"leaving", "top"} :
          worker' = [worker EXCEPT ![w].wasIdle = FALSE, ![w].pc = pc]
    BY <1>3 DEF Leave
  <2>2. worker'[w].pc # "waiting" /\ \A v \in Workers : v # w => worker'[v] = worker[v]
    BY <1>0, <2>1 DEF WorkerStates
  <2> QED BY <1>3, <2>2 DEF SleepersAreIdle, Leave
<1>4. CASE RunEvent(w) \/ ShutdownThread(w) \/ ThreadExit(w) \/ WaitTimeout(w)
           \/ ProcessNextEvent(w) \/ MainShutdown(w)
  <2>1. mEvents' = mEvents
    BY <1>4 DEF RunEvent, ShutdownThread, ThreadExit, WaitTimeout, ProcessNextEvent,
       MainShutdown, poolVars
  <2>2. CASE UNCHANGED worker
    BY <2>1, <2>2 DEF SleepersAreIdle
  <2>3. CASE RunEvent(w) \/ WaitTimeout(w)
    <3>1. worker'[w].pc = "loop" /\ \A v \in Workers : v # w => worker'[v] = worker[v]
      BY <1>0, <2>3 DEF RunEvent, WaitTimeout, WorkerStates
    <3> QED BY <2>1, <3>1 DEF SleepersAreIdle
  <2>4. CASE ShutdownThread(w) \/ ThreadExit(w) \/ ProcessNextEvent(w)
    <3>1. worker'[w].pc # "waiting" /\ \A v \in Workers : v # w => worker'[v] = worker[v]
      BY <1>0, <2>4 DEF ShutdownThread, ThreadExit, ProcessNextEvent, WorkerStates
    <3> QED BY <2>1, <3>1 DEF SleepersAreIdle
  <2> QED BY <1>4, <2>2, <2>3, <2>4 DEF MainShutdown
<1> QED BY <1>1, <1>2, <1>3, <1>4 DEF RunStep

\* The steps of a caller, of the owner and of nobody.
LEMMA SleepersAfterOthers ==
    ASSUME PoolInv, SleepersAreIdle,
           \/ UNCHANGED vars
           \/ \E d \in Dispatchers, e \in Events \ used, sync \in BOOLEAN :
                Dispatch(d, e, sync)
           \/ \E d \in Dispatchers : PutStep(d)
           \/ \E n \in ThreadLimits : SetThreadLimit(n)
           \/ \E n \in IdleLimits : SetIdleThreadLimit(n)
           \/ SetIdleThreadTimeout \/ Shutdown \/ OwnerStep
    PROVE  SleepersAreIdle'
<1>0. TypeOK
  BY DEF PoolInv
<1>1. CASE NotifyAll
  BY <1>0, <1>1, NobodySleeps
<1>2. CASE UNCHANGED <<mEvents, worker>>
  BY <1>2 DEF SleepersAreIdle
<1>3. ASSUME NEW d \in Dispatchers, NEW w \in Workers, Free(w),
             worker' = [worker EXCEPT ![w] = NewWorker("top")], UNCHANGED mEvents
      PROVE  SleepersAreIdle'
  <2>1. worker'[w].pc = "top" /\ \A v \in Workers : v # w => worker'[v] = worker[v]
    BY <1>0, <1>3 DEF TypeOK, NewWorker
  <2> QED BY <1>3, <2>1 DEF SleepersAreIdle
<1>4. ASSUME NEW d \in Dispatchers, PutStep(d) PROVE SleepersAreIdle'
  <2>1. CASE PutEvent(d)
    BY <1>1, <1>2, <2>1 DEF PutEvent
  <2>2. CASE SpawnThread(d)
    BY <1>2, <1>3, <2>2 DEF SpawnThread, poolVars
  <2>3. CASE AppendThread(d) \/ StartThread(d) \/ KillThread(d) \/ KillDone(d) \/ SyncDone(d)
    BY <1>2, <2>3 DEF AppendThread, StartThread, KillThread, KillDone, SyncDone, poolVars
  <2> QED BY <1>4, <2>1, <2>2, <2>3 DEF PutStep
<1>5. CASE \/ \E n \in ThreadLimits : SetThreadLimit(n)
           \/ \E n \in IdleLimits : SetIdleThreadLimit(n)
           \/ SetIdleThreadTimeout \/ Shutdown
  BY <1>1, <1>5 DEF SetThreadLimit, SetIdleThreadLimit, SetIdleThreadTimeout, Shutdown
<1>6. CASE OwnerStep
  BY <1>2, <1>6 DEF OwnerStep, ShutdownJoin, ShutdownJoined, ShutdownReturn, poolVars
<1>7. CASE \E d \in Dispatchers, e \in Events \ used, sync \in BOOLEAN : Dispatch(d, e, sync)
  BY <1>2, <1>7 DEF Dispatch, poolVars
<1>8. CASE UNCHANGED vars
  BY <1>2, <1>8 DEF vars, poolVars
<1> QED BY <1>4, <1>5, <1>6, <1>7, <1>8

\* No lost wakeup: a thread sleeps in mon.Wait only while the queue is empty,
\* and is counted idle, so PutEvent relies on it rightly.
THEOREM SleepersAlwaysIdle == SafetySpec => []SleepersAreIdle
<1>1. Init => SleepersAreIdle
  BY DEF Init, SleepersAreIdle, NewWorker
<1>2. PoolInv /\ SleepersAreIdle /\ [Next]_vars => SleepersAreIdle'
  BY SleepersAfterWorker, SleepersAfterOthers DEF PoolInv, Next
<1> QED BY <1>1, <1>2, PoolInvariant, PTL DEF SafetySpec

\* With no allocation failing, PutEvent leaves the queue with a server: it
\* creates a thread, or an idle member exists, or the array is full.
LEMMA PutEventServed ==
    ASSUME PoolInv, ~ MayFail, NEW d \in Dispatchers, PutEvent(d)
    PROVE  mThreads' # {} \/ Spawning' # {}
<1>1. CASE NeedThread
  <2>1. Goto(d, "spawn")
    BY <1>1 DEF PutEvent
  <2>2. dispatcher'[d].pc = "spawn"
    BY <2>1, GotoType DEF PoolInv
  <2> QED BY <2>2 DEF Spawning
<1>2. CASE ~ NeedThread
  <2>1. mThreads' = mThreads /\ mThreadLimit \in Nat \ {0}
        /\ mIdleCount = Cardinality(IdleThreads) /\ IdleThreads \subseteq mThreads
    BY DEF PoolInv, TypeOK, IdleCountExact, PutEvent
  <2>2. ASSUME mThreads = {} PROVE FALSE
    <3>1. IdleThreads = {} /\ Cardinality({}) = 0
      BY <2>1, <2>2, FS_EmptySet
    <3> QED BY <1>2, <2>1, <2>2, <3>1 DEF NeedThread
  <2> QED BY <2>1, <2>2
<1> QED BY <1>1, <1>2

\* No step takes the last server away from a queued event.
LEMMA ServerKept ==
    ASSUME PoolInv, ~ MayFail, EventHasServer, [Next]_vars
    PROVE  EventHasServer'
<1>0. TypeOK
  BY DEF PoolInv
<1> SUFFICES ASSUME mEvents' # << >> PROVE mThreads' # {} \/ Spawning' # {}
  BY DEF EventHasServer
<1>1. CASE mEvents # << >> /\ mThreads' = mThreads /\ Spawning \subseteq Spawning'
  BY <1>1 DEF EventHasServer
<1>2. CASE UNCHANGED <<mEvents, mThreads, dispatcher>>
  <2>1. Spawning' = Spawning
    BY <1>2 DEF Spawning
  <2> QED BY <1>1, <1>2, <2>1
<1>3. ASSUME NEW d \in Dispatchers,
             \A c \in Dispatchers : c # d => dispatcher'[c] = dispatcher[c],
             d \notin Spawning, UNCHANGED <<mEvents, mThreads>>
      PROVE  mThreads' # {} \/ Spawning' # {}
  <2>1. Spawning \subseteq Spawning'
    BY <1>3 DEF Spawning
  <2> QED BY <1>1, <1>3, <2>1
<1>4. CASE \E d \in Dispatchers, e \in Events \ used, sync \in BOOLEAN : Dispatch(d, e, sync)
  <2>1. PICK d \in Dispatchers, e \in Events \ used, sync \in BOOLEAN : Dispatch(d, e, sync)
    BY <1>4
  <2>2. /\ \A c \in Dispatchers : c # d => dispatcher'[c] = dispatcher[c]
        /\ d \notin Spawning /\ UNCHANGED <<mEvents, mThreads>>
    BY <1>0, <2>1 DEF TypeOK, Dispatch, Spawning, poolVars
  <2> QED BY <1>3, <2>2
<1>5. ASSUME NEW d \in Dispatchers, PutStep(d) PROVE mThreads' # {} \/ Spawning' # {}
  <2>1. CASE PutEvent(d)
    BY <2>1, PutEventServed
  <2>2. CASE SpawnThread(d)
    <3>1. PICK w \in Workers : dispatcher' = [dispatcher EXCEPT ![d].pc = "append",
                                                                ![d].thread = w]
      BY <2>2 DEF SpawnThread
    <3>2. dispatcher'[d].pc = "append"
      BY <1>0, <3>1 DEF TypeOK, DispatcherStates
    <3> QED BY <3>2 DEF Spawning
  <2>3. CASE AppendThread(d)
    <3>1. mThreadLimit \in Nat \ {0} /\ Cardinality({}) = 0
      BY <1>0, FS_EmptySet DEF TypeOK
    <3>2. CASE mThreads = {}
      <4>1. Cardinality(mThreads) < mThreadLimit
        BY <3>1, <3>2
      <4>2. dispatcher[d].thread \in mThreads'
        BY <2>3, <4>1 DEF AppendThread
      <4> QED BY <4>2
    <3>3. CASE mThreads # {}
      <4>1. mThreads \subseteq mThreads'
        BY <2>3 DEF AppendThread
      <4> QED BY <3>3, <4>1
    <3> QED BY <3>2, <3>3
  <2>4. CASE StartThread(d) \/ KillThread(d) \/ KillDone(d) \/ SyncDone(d)
    <3>1. d \notin Spawning /\ UNCHANGED <<mEvents, mThreads>>
      BY <2>4 DEF StartThread, KillThread, KillDone, SyncDone, Spawning, poolVars
    <3>2. CASE Goto(d, "joining")
      BY <1>0, <1>3, <3>1, <3>2, GotoType
    <3>3. CASE Return(d)
      BY <1>0, <1>3, <3>1, <3>3, ReturnType
    <3>4. CASE SyncDone(d)
      <4>1. \A c \in Dispatchers : c # d => dispatcher'[c] = dispatcher[c]
        BY <1>0, <3>4 DEF TypeOK, SyncDone
      <4> QED BY <1>3, <3>1, <4>1
    <3> QED BY <2>4, <3>2, <3>3, <3>4 DEF StartThread, KillThread, KillDone
  <2> QED BY <1>5, <2>1, <2>2, <2>3, <2>4 DEF PutStep
<1>6. ASSUME NEW w \in Workers, RunStep(w) \/ WaitTimeout(w) \/ MainShutdown(w)
      PROVE  mThreads' # {} \/ Spawning' # {}
  <2>1. CASE TakeEvent(w)
    <3>1. Spawning' = Spawning
      BY <2>1 DEF TakeEvent, Spawning
    <3> QED BY <1>1, <2>1, <3>1 DEF TakeEvent
  <2>2. ~ Leave(w)
    BY DEF Leave
  <2>3. CASE ~ TakeEvent(w)
    BY <1>2, <1>6, <2>2, <2>3 DEF RunStep, WaitIdle, RunEvent, ShutdownThread,
       ProcessNextEvent, ThreadExit, WaitTimeout, MainShutdown, poolVars
  <2> QED BY <2>1, <2>3
<1>7. CASE \/ \E n \in ThreadLimits : SetThreadLimit(n)
           \/ \E n \in IdleLimits : SetIdleThreadLimit(n)
           \/ SetIdleThreadTimeout \/ Shutdown \/ OwnerStep
  BY <1>2, <1>7 DEF SetThreadLimit, SetIdleThreadLimit, SetIdleThreadTimeout, Shutdown,
     OwnerStep, ShutdownJoin, ShutdownJoined, ShutdownReturn, poolVars
<1>8. CASE UNCHANGED vars
  BY <1>2, <1>8 DEF vars, poolVars
<1> QED BY <1>4, <1>5, <1>6, <1>7, <1>8 DEF Next

\* Where no allocation fails, a queued event is never left without a member
\* of the pool or a caller about to add one.
THEOREM EventAlwaysHasServer == ~ MayFail /\ SafetySpec => []EventHasServer
<1> SUFFICES ASSUME ~ MayFail PROVE SafetySpec => []EventHasServer
  OBVIOUS
<1>1. Init => EventHasServer
  BY DEF Init, EventHasServer
<1>2. PoolInv /\ EventHasServer /\ [Next]_vars => EventHasServer'
  BY ServerKept
<1> QED BY <1>1, <1>2, PoolInvariant, PTL DEF SafetySpec
==============================================================================
