------------------------------ MODULE ThreadPool ------------------------------
(***************************************************************************)
(* nsThreadPool (xpcom/threads/nsThreadPool.cpp) and the part of nsThread  *)
(* it relies on.  Pool threads run nsThreadPool::Run as an ordinary event  *)
(* of an anonymous nsThread; they share the queue mEvents, whose monitor   *)
(* also guards mThreads, mIdleCount and the limits.  One action is one     *)
(* hold of that monitor or one step outside it.                            *)
(*                                                                         *)
(* mEvents is the first-in first-out sequence that EventQueue implements.  *)
(* mThreads is a set: the order of the nsCOMArray only decides in which    *)
(* order Shutdown joins, which is left open here.                          *)
(***************************************************************************)
EXTENDS Naturals, Sequences, FiniteSets

CONSTANTS Workers,       \* nsThread objects the pool can create
          NoWorker,
          Dispatchers,   \* threads that call Dispatch
          Events,        \* each is dispatched at most once
          NoEvent,
          ThreadLimits,  \* values given to SetThreadLimit
          IdleLimits,    \* values given to SetIdleThreadLimit
          InitThreadLimit, InitIdleLimit,
          MayFail,       \* may NewThread or the queue's allocation fail?
          ShutdownWhen   \* when the owner may call Shutdown: "never", "quiet"
                         \* (no caller is inside Dispatch) or "anytime"

ASSUME PoolAssumption ==
    /\ IsFiniteSet(Workers)
    /\ ThreadLimits \subseteq Nat \ {0}
    /\ IdleLimits \subseteq Nat
    /\ InitThreadLimit \in Nat \ {0}
    /\ InitIdleLimit \in Nat
    /\ NoWorker \notin Workers
    /\ NoEvent \notin Events
    /\ ShutdownWhen \in {"never", "quiet", "anytime"}

VARIABLES
    mEvents, mThreads, mIdleCount, mThreadLimit, mIdleThreadLimit, mShutdown,
    worker,       \* worker[w]: where thread w is, and Run's locals
    threadQueue,  \* threadQueue[w]: nsThread events not yet processed
    shutdownReq,  \* nsThread::mShutdownRequired of each thread
    mainQueue,    \* threads whose Shutdown is proxied to the main thread
    dispatcher,   \* dispatcher[d]: where caller d is in Dispatch
    owner,        \* where the pool's owner is in Shutdown
    used,         \* history: events given to Dispatch
    ran           \* history: events whose Run returned

poolVars == <<mEvents, mThreads, mIdleCount, mThreadLimit, mIdleThreadLimit,
              mShutdown>>
vars == <<poolVars, worker, threadQueue, shutdownReq, mainQueue, dispatcher,
          owner, used, ran>>

NewWorker(pc) == [pc |-> pc, wasIdle |-> FALSE, event |-> NoEvent,
                  shuttingDown |-> FALSE]
IdleDispatcher == [pc |-> "idle", event |-> NoEvent, sync |-> FALSE,
                   thread |-> NoWorker]

Init ==
    /\ mEvents = << >>
    /\ mThreads = {}
    /\ mIdleCount = 0
    /\ mThreadLimit = InitThreadLimit
    /\ mIdleThreadLimit = InitIdleLimit
    /\ mShutdown = FALSE
    /\ worker = [w \in Workers |-> NewWorker("dead")]
    /\ threadQueue = [w \in Workers |-> << >>]
    /\ shutdownReq = [w \in Workers |-> FALSE]
    /\ mainQueue = {}
    /\ dispatcher = [d \in Dispatchers |-> IdleDispatcher]
    /\ owner = [pc |-> "idle", join |-> {}, thread |-> NoWorker]
    /\ used = {}
    /\ ran = {}
-----------------------------------------------------------------------------
(* The monitor of mEvents and the nsThread calls the pool makes.           *)

Woken == [w \in Workers |-> IF worker[w].pc = "waiting"
                            THEN [worker[w] EXCEPT !.pc = "loop"]
                            ELSE worker[w]]

\* Mutation: the idle threads are not woken.
NotifyNone == UNCHANGED worker

NotifyAll == worker' = Woken

\* nsThread::Shutdown up to its wait: only the first call posts the event.
PostShutdown(w) ==
    /\ shutdownReq' = [shutdownReq EXCEPT ![w] = FALSE]
    /\ threadQueue' = IF shutdownReq[w]
                      THEN [threadQueue EXCEPT ![w] = Append(@, "shutdown")]
                      ELSE threadQueue

\* An nsThread object nobody refers to any more can be allocated again.
Free(w) ==
    /\ worker[w].pc = "dead"
    /\ w \notin mThreads \cup mainQueue \cup owner.join \cup {owner.thread}
    /\ \A d \in Dispatchers : dispatcher[d].thread # w
-----------------------------------------------------------------------------
(* Dispatch and PutEvent, run by a caller d.                               *)

Goto(d, pc) == dispatcher' = [dispatcher EXCEPT ![d].pc = pc]

\* A synchronous Dispatch goes on to wait for its nsThreadSyncDispatch.
Return(d) ==
    dispatcher' = [dispatcher EXCEPT ![d] =
                     IF @.sync THEN [@ EXCEPT !.pc = "sync", !.thread = NoWorker]
                               ELSE IdleDispatcher]

\* Dispatch: mShutdown is read without the monitor.
Dispatch(d, e, sync) ==
    /\ dispatcher[d].pc = "idle"
    /\ ~ mShutdown
    /\ used' = used \cup {e}
    /\ dispatcher' = [dispatcher EXCEPT ![d] =
                        [@ EXCEPT !.pc = "put", !.event = e, !.sync = sync]]
    /\ UNCHANGED <<poolVars, worker, threadQueue, shutdownReq, mainQueue,
                   owner, ran>>

\* PutEvent, first hold.  A failed mEvents.PutEvent goes unnoticed.
NeedThread == mIdleCount = 0 /\ Cardinality(mThreads) < mThreadLimit

PutEvent(d) ==
    /\ dispatcher[d].pc = "put"
    /\ \/ /\ mEvents' = Append(mEvents, dispatcher[d].event)
          /\ NotifyAll
       \/ /\ MayFail
          /\ UNCHANGED <<mEvents, worker>>
    /\ IF NeedThread THEN Goto(d, "spawn") ELSE Return(d)
    /\ UNCHANGED <<mThreads, mIdleCount, mThreadLimit, mIdleThreadLimit,
                   mShutdown, threadQueue, shutdownReq, mainQueue, owner,
                   used, ran>>

\* nsThreadManager::NewThread; its failure is not reported to the caller.
SpawnThread(d) ==
    /\ dispatcher[d].pc = "spawn"
    /\ \/ \E w \in Workers :
            /\ Free(w)
            /\ worker' = [worker EXCEPT ![w] = NewWorker("top")]
            /\ threadQueue' = [threadQueue EXCEPT ![w] = << >>]
            /\ shutdownReq' = [shutdownReq EXCEPT ![w] = TRUE]
            /\ dispatcher' = [dispatcher EXCEPT ![d].pc = "append",
                                                ![d].thread = w]
       \/ /\ MayFail
          /\ Return(d)
          /\ UNCHANGED <<worker, threadQueue, shutdownReq>>
    /\ UNCHANGED <<poolVars, mainQueue, owner, used, ran>>

\* Mutation: the limit is not checked again.
AppendUnchecked(d) ==
    /\ dispatcher[d].pc = "append"
    /\ mThreads' = mThreads \cup {dispatcher[d].thread}
    /\ Goto(d, "start")
    /\ UNCHANGED <<mEvents, mIdleCount, mThreadLimit, mIdleThreadLimit,
                   mShutdown, worker, threadQueue, shutdownReq, mainQueue,
                   owner, used, ran>>

\* Mutation: a surplus thread is started all the same.
AppendAlwaysStarts(d) ==
    /\ dispatcher[d].pc = "append"
    /\ mThreads' = IF Cardinality(mThreads) < mThreadLimit
                   THEN mThreads \cup {dispatcher[d].thread} ELSE mThreads
    /\ Goto(d, "start")
    /\ UNCHANGED <<mEvents, mIdleCount, mThreadLimit, mIdleThreadLimit,
                   mShutdown, worker, threadQueue, shutdownReq, mainQueue,
                   owner, used, ran>>

\* PutEvent, second hold: the limit may have been reached meanwhile.
AppendThread(d) ==
    /\ dispatcher[d].pc = "append"
    /\ IF Cardinality(mThreads) < mThreadLimit
       THEN /\ mThreads' = mThreads \cup {dispatcher[d].thread}
            /\ Goto(d, "start")
       ELSE /\ Goto(d, "kill")
            /\ UNCHANGED mThreads
    /\ UNCHANGED <<mEvents, mIdleCount, mThreadLimit, mIdleThreadLimit,
                   mShutdown, worker, threadQueue, shutdownReq, mainQueue,
                   owner, used, ran>>

\* thread->Dispatch(this): nsThread::Run will call nsThreadPool::Run.
StartThread(d) ==
    /\ dispatcher[d].pc = "start"
    /\ threadQueue' = [threadQueue EXCEPT ![dispatcher[d].thread] =
                                             Append(@, "run")]
    /\ Return(d)
    /\ UNCHANGED <<poolVars, worker, shutdownReq, mainQueue, owner, used, ran>>

\* thread->Shutdown() on the surplus thread: post the event ...
KillThread(d) ==
    /\ dispatcher[d].pc = "kill"
    /\ PostShutdown(dispatcher[d].thread)
    /\ Goto(d, "joining")
    /\ UNCHANGED <<poolVars, worker, mainQueue, owner, used, ran>>

\* ... and come back once the thread has ended.
KillDone(d) ==
    /\ dispatcher[d].pc = "joining"
    /\ worker[dispatcher[d].thread].pc = "dead"
    /\ Return(d)
    /\ UNCHANGED <<poolVars, worker, threadQueue, shutdownReq, mainQueue,
                   owner, used, ran>>

\* Dispatch(DISPATCH_SYNC): while (wrapper->IsPending()).
SyncDone(d) ==
    /\ dispatcher[d].pc = "sync"
    /\ dispatcher[d].event \in ran
    /\ dispatcher' = [dispatcher EXCEPT ![d] = IdleDispatcher]
    /\ UNCHANGED <<poolVars, worker, threadQueue, shutdownReq, mainQueue,
                   owner, used, ran>>
-----------------------------------------------------------------------------
(* nsThreadPool::Run, executed by pool thread w.                           *)

\* Mutation: uncounts a thread that was not idle.
TakeEventUncounted(w) ==
    /\ worker[w].pc = "loop"
    /\ mEvents # << >>
    /\ mEvents' = Tail(mEvents)
    /\ mIdleCount' = mIdleCount - 1
    /\ worker' = [worker EXCEPT ![w].pc = "running", ![w].wasIdle = FALSE,
                                ![w].event = Head(mEvents)]
    /\ UNCHANGED <<mThreads, mThreadLimit, mIdleThreadLimit, mShutdown,
                   threadQueue, shutdownReq, mainQueue, dispatcher, owner,
                   used, ran>>

\* One turn of the loop that finds an event.
TakeEvent(w) ==
    /\ worker[w].pc = "loop"
    /\ mEvents # << >>
    /\ mEvents' = Tail(mEvents)
    /\ mIdleCount' = IF worker[w].wasIdle THEN mIdleCount - 1 ELSE mIdleCount
    /\ worker' = [worker EXCEPT ![w].pc = "running", ![w].wasIdle = FALSE,
                                ![w].event = Head(mEvents)]
    /\ UNCHANGED <<mThreads, mThreadLimit, mIdleThreadLimit, mShutdown,
                   threadQueue, shutdownReq, mainQueue, dispatcher, owner,
                   used, ran>>

\* exitThread, decided with the queue empty; expired stands for
\* now - idleSince >= timeout.
ExitThread(w, expired) ==
    \/ mShutdown
    \/ worker[w].wasIdle /\ (mIdleCount > mIdleThreadLimit \/ expired)
    \/ ~ worker[w].wasIdle /\ mIdleCount = mIdleThreadLimit

\* Mutation: a thread that times out forgets that it was counted.
LeaveUncounted(w) ==
    /\ worker[w].pc = "loop"
    /\ mEvents = << >>
    /\ \E expired \in BOOLEAN : ExitThread(w, expired)
    /\ mThreads' = mThreads \ {w}
    /\ worker' = [worker EXCEPT ![w].wasIdle = FALSE,
                    ![w].pc = IF w \in mThreads THEN "leaving" ELSE "top"]
    /\ UNCHANGED <<mEvents, mIdleCount, mThreadLimit, mIdleThreadLimit, mShutdown,
                   threadQueue, shutdownReq, mainQueue, dispatcher, owner,
                   used, ran>>

\* Mutation: decides to leave without looking at the queue again.
LeaveWithoutLooking(w) ==
    /\ worker[w].pc = "loop"
    /\ \E expired \in BOOLEAN : ExitThread(w, expired)
    /\ mIdleCount' = IF worker[w].wasIdle THEN mIdleCount - 1 ELSE mIdleCount
    /\ mThreads' = mThreads \ {w}
    /\ worker' = [worker EXCEPT ![w].wasIdle = FALSE,
                    ![w].pc = IF w \in mThreads THEN "leaving" ELSE "top"]
    /\ UNCHANGED <<mEvents, mThreadLimit, mIdleThreadLimit, mShutdown,
                   threadQueue, shutdownReq, mainQueue, dispatcher, owner,
                   used, ran>>

\* One turn that ends the thread: uncounted and off mThreads in one hold.
Leave(w) ==
    /\ worker[w].pc = "loop"
    /\ mEvents = << >>
    /\ \E expired \in BOOLEAN : ExitThread(w, expired)
    /\ mIdleCount' = IF worker[w].wasIdle THEN mIdleCount - 1 ELSE mIdleCount
    /\ mThreads' = mThreads \ {w}
    /\ worker' = [worker EXCEPT ![w].wasIdle = FALSE,
                    ![w].pc = IF w \in mThreads THEN "leaving" ELSE "top"]
    /\ UNCHANGED <<mEvents, mThreadLimit, mIdleThreadLimit, mShutdown,
                   threadQueue, shutdownReq, mainQueue, dispatcher, owner,
                   used, ran>>

\* One turn that sleeps in mon.Wait(delta), counted as idle.
WaitIdle(w) ==
    /\ worker[w].pc = "loop"
    /\ mEvents = << >>
    /\ ~ ExitThread(w, FALSE)
    /\ mIdleCount' = IF worker[w].wasIdle THEN mIdleCount ELSE mIdleCount + 1
    /\ worker' = [worker EXCEPT ![w].pc = "waiting", ![w].wasIdle = TRUE]
    /\ UNCHANGED <<mEvents, mThreads, mThreadLimit, mIdleThreadLimit,
                   mShutdown, threadQueue, shutdownReq, mainQueue, dispatcher,
                   owner, used, ran>>

\* mon.Wait(delta) returns because delta has passed.
WaitTimeout(w) ==
    /\ worker[w].pc = "waiting"
    /\ worker' = [worker EXCEPT ![w].pc = "loop"]
    /\ UNCHANGED <<poolVars, threadQueue, shutdownReq, mainQueue, dispatcher,
                   owner, used, ran>>

\* event->Run() returns.
RunEvent(w) ==
    /\ worker[w].pc = "running"
    /\ ran' = ran \cup {worker[w].event}
    /\ worker' = [worker EXCEPT ![w].pc = "loop", ![w].event = NoEvent]
    /\ UNCHANGED <<poolVars, threadQueue, shutdownReq, mainQueue, dispatcher,
                   owner, used>>

\* ShutdownThread: an asynchronous proxy call to the main thread.
ShutdownThread(w) ==
    /\ worker[w].pc = "leaving"
    /\ mainQueue' = mainQueue \cup {w}
    /\ worker' = [worker EXCEPT ![w].pc = "top"]
    /\ UNCHANGED <<poolVars, threadQueue, shutdownReq, dispatcher, owner,
                   used, ran>>

\* The main thread executes the proxied nsThread::Shutdown.  It waits by
\* processing its own events, so it holds up nobody here.
MainShutdown(w) ==
    /\ w \in mainQueue
    /\ mainQueue' = mainQueue \ {w}
    /\ PostShutdown(w)
    /\ UNCHANGED <<poolVars, worker, dispatcher, owner, used, ran>>
-----------------------------------------------------------------------------
(* nsThread::ThreadFunc of pool thread w, between its events.              *)

ProcessNextEvent(w) ==
    /\ worker[w].pc = "top"
    /\ threadQueue[w] # << >>
    /\ threadQueue' = [threadQueue EXCEPT ![w] = Tail(@)]
    /\ worker' = IF Head(threadQueue[w]) = "run"
                 THEN [worker EXCEPT ![w].pc = "loop"]
                 ELSE [worker EXCEPT ![w].shuttingDown = TRUE]
    /\ UNCHANGED <<poolVars, shutdownReq, mainQueue, dispatcher, owner, used,
                   ran>>

\* ShuttingDown() and nothing pending: the thread ends.
ThreadExit(w) ==
    /\ worker[w].pc = "top"
    /\ worker[w].shuttingDown
    /\ threadQueue[w] = << >>
    /\ worker' = [worker EXCEPT ![w].pc = "dead"]
    /\ UNCHANGED <<poolVars, threadQueue, shutdownReq, mainQueue, dispatcher,
                   owner, used, ran>>
-----------------------------------------------------------------------------
(* The owner of the pool: attribute setters and Shutdown.                  *)

LimitIdle(n, limit) == IF n > limit THEN limit ELSE n

SetThreadLimit(n) ==
    /\ owner.pc = "idle"
    /\ mThreadLimit' = n
    /\ mIdleThreadLimit' = LimitIdle(mIdleThreadLimit, n)
    /\ NotifyAll
    /\ UNCHANGED <<mEvents, mThreads, mIdleCount, mShutdown, threadQueue,
                   shutdownReq, mainQueue, dispatcher, owner, used, ran>>

SetIdleThreadLimit(n) ==
    /\ owner.pc = "idle"
    /\ mIdleThreadLimit' = LimitIdle(n, mThreadLimit)
    /\ NotifyAll
    /\ UNCHANGED <<mEvents, mThreads, mIdleCount, mThreadLimit, mShutdown,
                   threadQueue, shutdownReq, mainQueue, dispatcher, owner,
                   used, ran>>

\* SetIdleThreadTimeout only wakes the idle threads: the timeout itself is
\* the free choice of expired in ExitThread.
SetIdleThreadTimeout ==
    /\ owner.pc = "idle"
    /\ NotifyAll
    /\ UNCHANGED <<poolVars, threadQueue, shutdownReq, mainQueue, dispatcher,
                   owner, used, ran>>

MayShutdown ==
    \/ ShutdownWhen = "anytime"
    \/ ShutdownWhen = "quiet" /\ \A d \in Dispatchers : dispatcher[d].pc \in {"idle", "sync"}

\* Mutation: Shutdown sets the flag and wakes nobody.
ShutdownSilently ==
    /\ MayShutdown
    /\ owner.pc = "idle"
    /\ mShutdown' = TRUE
    /\ owner' = [owner EXCEPT !.pc = "joining", !.join = mThreads]
    /\ UNCHANGED <<mEvents, mThreads, mIdleCount, mThreadLimit,
                   mIdleThreadLimit, worker, threadQueue, shutdownReq,
                   mainQueue, dispatcher, used, ran>>

\* Shutdown: under the monitor, the flag, the wakeup and the copy of mThreads.
Shutdown ==
    /\ MayShutdown
    /\ owner.pc = "idle"
    /\ mShutdown' = TRUE
    /\ NotifyAll
    /\ owner' = [owner EXCEPT !.pc = "joining", !.join = mThreads]
    /\ UNCHANGED <<mEvents, mThreads, mIdleCount, mThreadLimit,
                   mIdleThreadLimit, threadQueue, shutdownReq, mainQueue,
                   dispatcher, used, ran>>

\* threads[i]->Shutdown(): an error return, without waiting, when another
\* thread already asked for it.
ShutdownJoin(w) ==
    /\ owner.pc = "joining"
    /\ owner.thread = NoWorker
    /\ w \in owner.join
    /\ owner' = [owner EXCEPT !.join = @ \ {w},
                              !.thread = IF shutdownReq[w] THEN w ELSE NoWorker]
    /\ PostShutdown(w)
    /\ UNCHANGED <<poolVars, worker, mainQueue, dispatcher, used, ran>>

ShutdownJoined ==
    /\ owner.pc = "joining"
    /\ owner.thread # NoWorker
    /\ worker[owner.thread].pc = "dead"
    /\ owner' = [owner EXCEPT !.thread = NoWorker]
    /\ UNCHANGED <<poolVars, worker, threadQueue, shutdownReq, mainQueue,
                   dispatcher, used, ran>>

ShutdownReturn ==
    /\ owner = [pc |-> "joining", join |-> {}, thread |-> NoWorker]
    /\ owner' = [owner EXCEPT !.pc = "done"]
    /\ UNCHANGED <<poolVars, worker, threadQueue, shutdownReq, mainQueue,
                   dispatcher, used, ran>>
-----------------------------------------------------------------------------
PutStep(d) ==
    \/ PutEvent(d) \/ SpawnThread(d) \/ AppendThread(d) \/ StartThread(d)
    \/ KillThread(d) \/ KillDone(d) \/ SyncDone(d)

RunStep(w) ==
    \/ TakeEvent(w) \/ Leave(w) \/ WaitIdle(w) \/ RunEvent(w)
    \/ ShutdownThread(w) \/ ProcessNextEvent(w) \/ ThreadExit(w)

OwnerStep ==
    \/ \E w \in Workers : ShutdownJoin(w)
    \/ ShutdownJoined
    \/ ShutdownReturn

Next ==
    \/ \E d \in Dispatchers, e \in Events \ used, sync \in BOOLEAN :
         Dispatch(d, e, sync)
    \/ \E d \in Dispatchers : PutStep(d)
    \/ \E w \in Workers : RunStep(w) \/ WaitTimeout(w) \/ MainShutdown(w)
    \/ \E n \in ThreadLimits : SetThreadLimit(n)
    \/ \E n \in IdleLimits : SetIdleThreadLimit(n)
    \/ SetIdleThreadTimeout
    \/ Shutdown
    \/ OwnerStep

\* Every thread that can run does run: callers inside Dispatch, pool
\* threads, the main thread's event loop and the owner inside Shutdown.
\* Calling Dispatch, a setter or Shutdown, and a timeout, are not promised.
Fairness ==
    /\ \A d \in Dispatchers : WF_vars(PutStep(d))
    /\ \A w \in Workers : WF_vars(RunStep(w)) /\ WF_vars(MainShutdown(w))
    /\ WF_vars(OwnerStep)

SafetySpec == Init /\ [][Next]_vars

Spec == SafetySpec /\ Fairness
-----------------------------------------------------------------------------
WorkerStates ==
    [pc : {"dead", "top", "loop", "waiting", "running", "leaving"}, wasIdle : BOOLEAN,
     event : Events \cup {NoEvent}, shuttingDown : BOOLEAN]
DispatcherStates ==
    [pc : {"idle", "put", "spawn", "append", "start", "kill", "joining", "sync"},
     event : Events \cup {NoEvent}, sync : BOOLEAN, thread : Workers \cup {NoWorker}]

TypeOK ==
    /\ mEvents \in Seq(Events)
    /\ mThreads \in SUBSET Workers
    /\ mIdleCount \in Nat
    /\ mThreadLimit \in Nat \ {0}
    /\ mIdleThreadLimit \in Nat
    /\ mShutdown \in BOOLEAN
    /\ worker \in [Workers -> WorkerStates]
    /\ threadQueue \in [Workers -> Seq({"run", "shutdown"})]
    /\ shutdownReq \in [Workers -> BOOLEAN]
    /\ mainQueue \in SUBSET Workers
    /\ dispatcher \in [Dispatchers -> DispatcherStates]
    /\ owner \in [pc : {"idle", "joining", "done"}, join : SUBSET Workers,
                  thread : Workers \cup {NoWorker}]
    /\ used \in SUBSET Events
    /\ ran \in SUBSET Events
    /\ \A d \in Dispatchers : dispatcher[d].pc = "put" => dispatcher[d].event \in Events
    /\ \A w \in Workers : worker[w].pc = "running" => worker[w].event \in Events

IdleThreads == {w \in Workers : worker[w].wasIdle}

\* Threads in nsThreadPool::Run, and threads it was dispatched to.
Runners == {w \in Workers : worker[w].pc \in {"loop", "waiting", "running"}}
Pending == {w \in Workers : \E i \in DOMAIN threadQueue[w] : threadQueue[w][i] = "run"}

DispatchedOnce ==
    \A w \in Workers : \A i, j \in DOMAIN threadQueue[w] :
        threadQueue[w][i] = "run" /\ threadQueue[w][j] = "run" => i = j

\* A thread a caller is about to add, start or end is that caller's alone.
HoldersApart ==
    \A d \in Dispatchers :
        /\ dispatcher[d].pc \in {"append", "kill", "joining"} =>
             dispatcher[d].thread \in Workers \ mThreads
        /\ dispatcher[d].pc = "start" =>
             dispatcher[d].thread \in mThreads \ (Runners \cup Pending)
        /\ \A c \in Dispatchers : dispatcher[c].thread = dispatcher[d].thread
             => c = d \/ dispatcher[d].thread = NoWorker

\* nsThreadPool::Run is executed by members of mThreads only and once at most
\* for each, although PutEvent adds the thread in one hold of the monitor and
\* starts it after the next, with Shutdown and other callers in between: Run's
\* own RemoveObject(current) is the only way out of mThreads, and finds it.
RunByMembersOnce ==
    /\ IdleThreads \subseteq Runners
    /\ Runners \cup Pending \subseteq mThreads
    /\ Runners \cap Pending = {}
    /\ DispatchedOnce
    /\ HoldersApart

\* mIdleCount counts exactly the threads that called themselves idle, and
\* they are pool members, so the assertion of PutEvent (mIdleCount <=
\* mThreads.Count()) holds and the unsigned count never wraps below zero.
IdleCountExact ==
    /\ mIdleCount = Cardinality(IdleThreads)
    /\ IdleThreads \subseteq mThreads

\* The inductive invariant of the pool.
PoolInv == TypeOK /\ RunByMembersOnce /\ IdleCountExact

\* The array mThreads never grows past the limit in force, although the
\* thread is created between two holds of the monitor.
NeverGrowsPastLimit ==
    [][~ (mThreads' \subseteq mThreads) => Cardinality(mThreads') <= mThreadLimit]_vars

Spawning == {d \in Dispatchers : dispatcher[d].pc \in {"spawn", "append"}}

\* A queued event always has somebody to serve it: a member of the pool, or
\* a caller still inside PutEvent about to add one.  A pool thread leaves
\* only in a hold in which it found the queue empty.  PoolAssumption leaves
\* out SetThreadLimit(0) (nsThreadPool.cpp:286): PutEvent then creates no
\* thread, and in a pool without members the event waits for the first
\* Dispatch after the limit was raised.
EventHasServer == mEvents # << >> => (mThreads # {} \/ Spawning # {})

\* A pool thread sleeps in mon.Wait only with nothing queued, and only as a
\* counted idle thread.
SleepersAreIdle ==
    \A w \in Workers : worker[w].pc = "waiting" =>
        worker[w].wasIdle /\ mEvents = << >>

\* Every event given to Dispatch is run, whatever the callers, the setters
\* and the idle timeouts do, with thread limits of 1 and more.
EventuallyRun == \A e \in Events : e \in used ~> e \in ran

\* A Shutdown that was called returns: no cycle of threads joining each other.
ShutdownReturns == owner.pc = "joining" ~> owner.pc = "done"
==============================================================================
