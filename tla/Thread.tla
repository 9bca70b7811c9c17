-------------------------------- MODULE Thread --------------------------------
(***************************************************************************)
(* nsThread and nsThreadManager (xpcom/threads), with the event loops of   *)
(* xpcom/glue/nsThreadUtils.cpp: threads that run each other's events,     *)
(* dispatch synchronously, create each other and join each other.          *)
(*                                                                         *)
(* A blocked call of this code is not idle: Dispatch(SYNC), Shutdown and   *)
(* the thread manager's Shutdown all spin the caller's event loop, so      *)
(* events nest.  stack[t] holds the open calls of thread t, the innermost  *)
(* last; only the innermost can return.  queue[t] is the sequence of       *)
(* events that EventQueue implements (the thread is its only consumer).    *)
(*                                                                         *)
(* A task is a user event.  While it runs it may do whatever the code lets *)
(* it do: dispatch to any thread, shut a thread down, create a thread.     *)
(***************************************************************************)
EXTENDS Naturals, Sequences, FiniteSets

CONSTANTS Main,          \* the thread that called nsThreadManager::Init
          Background,    \* threads NewThread can create
          Tasks,         \* user events; each is dispatched at most once
          Creators,      \* threads whose code calls NewThread
          Joiners,       \* threads whose code calls nsIThread::Shutdown
          None,
          MayFail,       \* may the allocation of a queue page fail?
          NestedShutdown,\* is Shutdown called from inside a synchronous event?
          ManagerStops   \* does the application call nsThreadManager::Shutdown?

Threads == Background \cup {Main}

ASSUME ThreadAssumption ==
    /\ Main \notin Background
    /\ Creators \subseteq Threads
    /\ Joiners \subseteq Threads
    /\ None \notin Threads \cup Tasks
    /\ MayFail \in BOOLEAN

VARIABLES
    queue,             \* queue[t]: pending events of t, oldest first
    stack,             \* stack[t]: open calls of t
    asleep,            \* asleep[t]: t blocks in its queue's GetEvent
    life,              \* of the PRThread behind an nsThread
    mShutdownContext,  \* [t] the joining thread, once the event was run
    mShutdownRequired,
    shutdownAck,       \* of the context of the Shutdown call on [t]
    syncTask,          \* tasks in wrappers whose mSyncTask is not yet null
    origin,            \* nsThreadSyncDispatch::mOrigin of a task
    mInitialized,      \* of the thread manager
    registered,        \* mThreadsByPRThread
    manager,           \* progress of nsThreadManager::Shutdown
    dispatched, ran,   \* history: tasks given to Dispatch, tasks run
    acceptedBy,        \* history: the thread whose PutEvent took the task
    late,              \* history: tasks taken after that thread's last look
    failed             \* history: a put failed and its caller went on waiting

vars == <<queue, stack, asleep, life, mShutdownContext, mShutdownRequired,
          shutdownAck, syncTask, origin, mInitialized, registered, manager,
          dispatched, ran, acceptedBy, late, failed>>

Call(op, arg) == [op |-> op, arg |-> arg]

Init ==
    /\ queue = [t \in Threads |-> << >>]
    /\ stack = [t \in Threads |-> IF t = Main THEN <<Call("loop", Main)>> ELSE << >>]
    /\ asleep = [t \in Threads |-> FALSE]
    /\ life = [t \in Threads |-> IF t = Main THEN "running" ELSE "none"]
    /\ mShutdownContext = [t \in Threads |-> None]
    /\ mShutdownRequired = [t \in Threads |-> FALSE]
    /\ shutdownAck = [t \in Threads |-> FALSE]
    /\ syncTask = {}
    /\ origin = [e \in Tasks |-> None]
    /\ mInitialized = TRUE
    /\ registered = {Main}
    /\ manager = [pc |-> "idle", threads |-> {}]
    /\ dispatched = {}
    /\ ran = {}
    /\ acceptedBy = [e \in Tasks |-> None]
    /\ late = {}
    /\ failed = FALSE
-----------------------------------------------------------------------------
Top(t) == stack[t][Len(stack[t])]
Innermost(t, op) == stack[t] # << >> /\ Top(t).op = op
\* t is awake and its innermost call is op.
TopIs(t, op) == ~ asleep[t] /\ Innermost(t, op)
Push(t, call) == stack' = [stack EXCEPT ![t] = Append(@, call)]
Pop(s) == SubSeq(s, 1, Len(s) - 1)
Return(t) == stack' = [stack EXCEPT ![t] = Pop(@)]
Put(t, event) == queue' = [queue EXCEPT ![t] = Append(@, event)]

\* nsThread::PutEvent where the code does not look at its result: with no
\* memory for a page the event is gone and nobody is told.
PutUnchecked(t, event) ==
    \/ Put(t, event) /\ UNCHANGED failed
    \/ MayFail /\ failed' = TRUE /\ UNCHANGED queue

\* u's queue takes task e; too late if u has already looked for the last time.
Accept(u, e) ==
    /\ acceptedBy' = [acceptedBy EXCEPT ![e] = u]
    /\ late' = IF life[u] = "running" THEN late ELSE late \cup {e}

ShuttingDown(t) == mShutdownContext[t] # None

\* User code runs in t: an event's Run, or the application in the main thread.
InUserCode(t) == TopIs(t, "task") \/ TopIs(t, "sync") \/ (t = Main /\ TopIs(t, "loop"))

\* Whoever holds a reference to an nsThread may dispatch to it, whatever has
\* become of its PRThread.
Target(u) == life[u] # "none"
-----------------------------------------------------------------------------
(* nsThread::Dispatch.  Without DISPATCH_SYNC a failed PutEvent is an error  *)
(* returned to the caller and changes nothing here.                        *)

Dispatch(t, u, e) ==
    /\ InUserCode(t)
    /\ Target(u)
    /\ Put(u, Call("task", e))
    /\ Accept(u, e)
    /\ dispatched' = dispatched \cup {e}
    /\ UNCHANGED <<asleep, stack, life, mShutdownContext, mShutdownRequired,
                   shutdownAck, syncTask, origin, mInitialized, registered,
                   manager, ran, failed>>

\* DISPATCH_SYNC: the wrapper is queued and the caller spins its own loop,
\* even when the put has failed and nothing will ever run the wrapper.
DispatchSync(t, u, e) ==
    /\ InUserCode(t)
    /\ Target(u)
    /\ \/ Put(u, Call("sync", e)) /\ Accept(u, e) /\ UNCHANGED failed
       \/ MayFail /\ failed' = TRUE /\ UNCHANGED <<queue, acceptedBy, late>>
    /\ Push(t, Call("syncwait", e))
    /\ syncTask' = syncTask \cup {e}
    /\ origin' = [origin EXCEPT ![e] = t]
    /\ dispatched' = dispatched \cup {e}
    /\ UNCHANGED <<asleep, life, mShutdownContext, mShutdownRequired,
                   shutdownAck, mInitialized, registered, manager, ran>>

\* Mutation: returns after one event, processed or not.
DispatchSyncReturnEarly(t) ==
    /\ TopIs(t, "syncwait")
    /\ Return(t)
    /\ UNCHANGED <<asleep, queue, life, mShutdownContext, mShutdownRequired,
                   shutdownAck, syncTask, origin, mInitialized, registered,
                   manager, dispatched, ran, acceptedBy, late, failed>>

\* while (wrapper->IsPending()) ends.
DispatchSyncReturn(t) ==
    /\ TopIs(t, "syncwait")
    /\ Top(t).arg \notin syncTask
    /\ Return(t)
    /\ UNCHANGED <<asleep, queue, life, mShutdownContext, mShutdownRequired,
                   shutdownAck, syncTask, origin, mInitialized, registered,
                   manager, dispatched, ran, acceptedBy, late, failed>>
-----------------------------------------------------------------------------
(* NS_ProcessNextEvent: the innermost call of t is a loop that wants an    *)
(* event.  The loop's condition is looked at only between two events: with *)
(* nothing queued t sleeps in GetEvent until something is dispatched to it *)
(* (but never once it is shutting down).                                   *)

WantsEvent(t) ==
    \/ TopIs(t, "loop") \/ TopIs(t, "manager")
    \/ TopIs(t, "syncwait") /\ Top(t).arg \in syncTask
    \/ TopIs(t, "join") /\ ~ shutdownAck[Top(t).arg]

\* The application's own loop in the main thread also has native events to
\* wait for, and NS_ProcessPendingEvents does not wait at all.
Sleep(t) ==
    /\ WantsEvent(t)
    /\ Top(t) # Call("loop", Main)
    /\ Top(t).op # "manager"
    /\ queue[t] = << >>
    /\ ~ ShuttingDown(t)
    /\ asleep' = [asleep EXCEPT ![t] = TRUE]
    /\ UNCHANGED <<queue, stack, life, mShutdownContext, mShutdownRequired,
                   shutdownAck, syncTask, origin, mInitialized, registered,
                   manager, dispatched, ran, acceptedBy, late, failed>>

\* Mutation: every event is taken for one that runs user code.
ProcessNextEventAsCall(t) ==
    /\ asleep[t] \/ WantsEvent(t)
    /\ queue[t] # << >>
    /\ asleep' = [asleep EXCEPT ![t] = FALSE]
    /\ queue' = [queue EXCEPT ![t] = Tail(@)]
    /\ Push(t, Head(queue[t]))
    /\ UNCHANGED <<life, mShutdownContext, mShutdownRequired, shutdownAck,
                   syncTask, origin, mInitialized, registered, manager,
                   dispatched, ran, acceptedBy, late, failed>>

\* Run of a task or of a wrapper opens a call; the shutdown event sets
\* mShutdownContext, the ACK sets shutdownAck, the wrapper that comes back
\* does nothing.
ProcessNextEvent(t) ==
    /\ asleep[t] \/ WantsEvent(t)
    /\ queue[t] # << >>
    /\ asleep' = [asleep EXCEPT ![t] = FALSE]
    /\ queue' = [queue EXCEPT ![t] = Tail(@)]
    /\ LET event == Head(queue[t]) IN
         /\ IF event.op \in {"task", "sync"} THEN Push(t, event) ELSE UNCHANGED stack
         /\ shutdownAck' = IF event.op = "ack"
                           THEN [shutdownAck EXCEPT ![event.arg] = TRUE]
                           ELSE shutdownAck
         /\ mShutdownContext' = IF event.op = "shutdown"
                                THEN [mShutdownContext EXCEPT ![t] = event.arg]
                                ELSE mShutdownContext
    /\ UNCHANGED <<life, mShutdownRequired, syncTask, origin, mInitialized,
                   registered, manager, dispatched, ran, acceptedBy, late,
                   failed>>

\* Mutation: the wrapper does not queue itself on the origin thread.
RunReturnUnnoticed(t) ==
    /\ TopIs(t, "task") \/ TopIs(t, "sync")
    /\ Return(t)
    /\ ran' = ran \cup {Top(t).arg}
    /\ syncTask' = syncTask \ {Top(t).arg}
    /\ UNCHANGED <<asleep, queue, life, mShutdownContext, mShutdownRequired,
                   shutdownAck, origin, mInitialized, registered, manager,
                   dispatched, acceptedBy, late, failed>>

\* A task's Run returns.  nsThreadSyncDispatch::Run then clears mSyncTask
\* and queues itself on the origin thread to wake it.
RunReturn(t) ==
    /\ TopIs(t, "task") \/ TopIs(t, "sync")
    /\ Return(t)
    /\ ran' = ran \cup {Top(t).arg}
    /\ IF Top(t).op = "sync"
       THEN /\ syncTask' = syncTask \ {Top(t).arg}
            /\ PutUnchecked(origin[Top(t).arg], Call("wake", Top(t).arg))
       ELSE UNCHANGED <<syncTask, queue, failed>>
    /\ UNCHANGED <<asleep, life, mShutdownContext, mShutdownRequired,
                   shutdownAck, origin, mInitialized, registered, manager,
                   dispatched, acceptedBy, late>>
-----------------------------------------------------------------------------
(* nsThread::Shutdown on thread u, called by t.                            *)

\* Past the early returns: mThread is null, u is the current thread, or
\* another call came first.
BeginShutdown(t, u) ==
    /\ mShutdownRequired[u]
    /\ u # t
    /\ mShutdownRequired' = [mShutdownRequired EXCEPT ![u] = FALSE]
    /\ PutUnchecked(u, Call("shutdown", t))
    /\ Push(t, Call("join", u))

Shutdown(t, u) ==
    /\ t \in Joiners
    /\ InUserCode(t)
    /\ NestedShutdown \/ \A i \in DOMAIN stack[t] : stack[t][i].op # "sync"
    /\ BeginShutdown(t, u)
    /\ UNCHANGED <<asleep, life, mShutdownContext, shutdownAck, syncTask,
                   origin, mInitialized, registered, manager, dispatched, ran,
                   acceptedBy, late>>

\* Mutation: the caller does not wait for the acknowledgement.
ShutdownReturnEarly(t) ==
    /\ TopIs(t, "join")
    /\ Return(t)
    /\ UNCHANGED <<asleep, queue, life, mShutdownContext, mShutdownRequired,
                   shutdownAck, syncTask, origin, mInitialized, registered,
                   manager, dispatched, ran, acceptedBy, late, failed>>

\* while (!context.shutdownAck) ends; PR_JoinThread; mThread = nsnull.
ShutdownReturn(t) ==
    /\ TopIs(t, "join")
    /\ shutdownAck[Top(t).arg]
    /\ life' = [life EXCEPT ![Top(t).arg] = "joined"]
    /\ Return(t)
    /\ UNCHANGED <<asleep, queue, mShutdownContext, mShutdownRequired,
                   shutdownAck, syncTask, origin, mInitialized, registered,
                   manager, dispatched, ran, acceptedBy, late, failed>>
-----------------------------------------------------------------------------
(* nsThreadManager::NewThread, nsThread::Init and nsThread::ThreadFunc.    *)

\* nsThread::Init of u is open: "stuck" if its put of the startup event has
\* failed, so that startup->Wait() never returns.
Initializes(call, u) == call \in {Call("init", u), Call("stuck", u)}

NewThread(t, u) ==
    /\ t \in Creators
    /\ InUserCode(t)
    /\ mInitialized
    /\ life[u] = "none"
    /\ \A v \in Threads : \A i \in DOMAIN stack[v] : ~ Initializes(stack[v][i], u)
    /\ \/ Push(t, Call("init", u)) /\ UNCHANGED failed
       \/ MayFail /\ failed' = TRUE /\ Push(t, Call("stuck", u))
    /\ UNCHANGED <<asleep, queue, life, mShutdownContext, mShutdownRequired,
                   shutdownAck, syncTask, origin, mInitialized, registered,
                   manager, dispatched, ran, acceptedBy, late>>

\* The new thread registers itself and runs the startup event (without one it
\* runs whatever comes first in its place, and goes on).
ThreadStart(u) ==
    /\ life[u] = "none"
    /\ \E t \in Threads : stack[t] # << >> /\ Initializes(Top(t), u)
    /\ life' = [life EXCEPT ![u] = "running"]
    /\ mShutdownRequired' = [mShutdownRequired EXCEPT ![u] = TRUE]
    /\ registered' = registered \cup {u}
    /\ stack' = [stack EXCEPT ![u] = <<Call("loop", u)>>]
    /\ UNCHANGED <<asleep, queue, mShutdownContext, shutdownAck, syncTask,
                   origin, mInitialized, manager, dispatched, ran, acceptedBy,
                   late, failed>>

\* startup->Wait() returns; unlike the other waits it runs no events.
InitReturn(t) ==
    /\ TopIs(t, "init")
    /\ life[Top(t).arg] # "none"
    /\ Return(t)
    /\ UNCHANGED <<asleep, queue, life, mShutdownContext, mShutdownRequired,
                   shutdownAck, syncTask, origin, mInitialized, registered,
                   manager, dispatched, ran, acceptedBy, late, failed>>

\* Mutation: the loop ends without NS_ProcessPendingEvents.
LoopEndAtOnce(u) ==
    /\ life[u] = "running"
    /\ TopIs(u, "loop")
    /\ ShuttingDown(u)
    /\ life' = [life EXCEPT ![u] = "ending"]
    /\ stack' = [stack EXCEPT ![u] = << >>]
    /\ UNCHANGED <<asleep, queue, mShutdownContext, mShutdownRequired,
                   shutdownAck, syncTask, origin, mInitialized, registered,
                   manager, dispatched, ran, acceptedBy, late, failed>>

\* while (!ShuttingDown()) has ended and NS_ProcessPendingEvents found
\* nothing more.
LoopEnd(u) ==
    /\ life[u] = "running"
    /\ TopIs(u, "loop")
    /\ ShuttingDown(u)
    /\ queue[u] = << >>
    /\ life' = [life EXCEPT ![u] = "ending"]
    /\ stack' = [stack EXCEPT ![u] = << >>]
    /\ UNCHANGED <<asleep, queue, mShutdownContext, mShutdownRequired,
                   shutdownAck, syncTask, origin, mInitialized, registered,
                   manager, dispatched, ran, acceptedBy, late, failed>>

\* Mutation: the thread ends without dispatching the ACK.
ThreadExitSilently(u) ==
    /\ life[u] = "ending"
    /\ life' = [life EXCEPT ![u] = "exited"]
    /\ registered' = registered \ {u}
    /\ UNCHANGED <<asleep, queue, stack, mShutdownContext, mShutdownRequired,
                   shutdownAck, syncTask, origin, mInitialized, manager,
                   dispatched, ran, acceptedBy, late, failed>>

\* UnregisterCurrentThread, then the ACK to mShutdownContext->joiningThread.
ThreadExit(u) ==
    /\ life[u] = "ending"
    /\ life' = [life EXCEPT ![u] = "exited"]
    /\ registered' = registered \ {u}
    /\ PutUnchecked(mShutdownContext[u], Call("ack", u))
    /\ UNCHANGED <<asleep, stack, mShutdownContext, mShutdownRequired,
                   shutdownAck, syncTask, origin, mInitialized, manager,
                   dispatched, ran, acceptedBy, late>>
-----------------------------------------------------------------------------
(* nsThreadManager::Shutdown, called by the application's main code.       *)

ManagerShutdown ==
    /\ ManagerStops
    /\ manager.pc = "idle"
    /\ TopIs(Main, "loop")
    /\ mInitialized' = FALSE
    /\ manager' = [manager EXCEPT !.pc = "flush"]
    /\ Push(Main, Call("manager", Main))
    /\ UNCHANGED <<asleep, queue, life, mShutdownContext, mShutdownRequired,
                   shutdownAck, syncTask, origin, registered, dispatched, ran,
                   acceptedBy, late, failed>>

\* NS_ProcessPendingEvents is done; the hashtable is emptied into a list.
ManagerGather ==
    /\ manager.pc = "flush"
    /\ TopIs(Main, "manager")
    /\ queue[Main] = << >>
    /\ manager' = [pc |-> "join", threads |-> registered]
    /\ registered' = {}
    /\ UNCHANGED <<asleep, queue, stack, life, mShutdownContext,
                   mShutdownRequired, shutdownAck, syncTask, origin,
                   mInitialized, dispatched, ran, acceptedBy, late, failed>>

\* Mutation: asks every thread to shut down and waits for none.
ManagerJoinNoWait(u) ==
    /\ manager.pc = "join"
    /\ TopIs(Main, "manager")
    /\ u \in manager.threads
    /\ manager' = [manager EXCEPT !.threads = @ \ {u}]
    /\ mShutdownRequired' = [mShutdownRequired EXCEPT ![u] = FALSE]
    /\ IF mShutdownRequired[u] THEN Put(u, Call("shutdown", Main)) ELSE UNCHANGED queue
    /\ UNCHANGED <<asleep, stack, life, mShutdownContext, shutdownAck,
                   syncTask, origin, mInitialized, registered, dispatched, ran,
                   acceptedBy, late, failed>>

ManagerJoin(u) ==
    /\ manager.pc = "join"
    /\ TopIs(Main, "manager")
    /\ u \in manager.threads
    /\ manager' = [manager EXCEPT !.threads = @ \ {u}]
    /\ \/ BeginShutdown(Main, u)
       \/ /\ ~ mShutdownRequired[u]
          /\ UNCHANGED <<mShutdownRequired, queue, stack, failed>>
    /\ UNCHANGED <<asleep, life, mShutdownContext, shutdownAck, syncTask,
                   origin, mInitialized, registered, dispatched, ran,
                   acceptedBy, late>>

\* The second NS_ProcessPendingEvents found nothing; the table is cleared
\* and the main nsThread released.
ManagerDone ==
    /\ manager = [pc |-> "join", threads |-> {}]
    /\ TopIs(Main, "manager")
    /\ queue[Main] = << >>
    /\ manager' = [manager EXCEPT !.pc = "done"]
    /\ registered' = {}
    /\ stack' = [stack EXCEPT ![Main] = << >>]
    /\ UNCHANGED <<asleep, queue, life, mShutdownContext, mShutdownRequired,
                   shutdownAck, syncTask, origin, mInitialized, dispatched,
                   ran, acceptedBy, late, failed>>
-----------------------------------------------------------------------------
\* What thread t does next without any decision of user code.
Step(t) ==
    \/ Sleep(t) \/ ProcessNextEvent(t) \/ RunReturn(t) \/ DispatchSyncReturn(t)
    \/ ShutdownReturn(t) \/ InitReturn(t)

BackgroundStep(u) == ThreadStart(u) \/ LoopEnd(u) \/ ThreadExit(u)

ManagerStep == ManagerGather \/ (\E u \in Threads : ManagerJoin(u)) \/ ManagerDone

Next ==
    \/ \E t \in Threads, u \in Threads, e \in Tasks \ dispatched :
         Dispatch(t, u, e) \/ DispatchSync(t, u, e)
    \/ \E t \in Threads, u \in Background : Shutdown(t, u) \/ NewThread(t, u)
    \/ \E t \in Threads : Step(t)
    \/ \E u \in Background : BackgroundStep(u)
    \/ ManagerShutdown
    \/ ManagerStep

\* Threads are scheduled and a task's Run returns once the calls it makes do.
Fairness ==
    /\ \A t \in Threads : WF_vars(Step(t))
    /\ \A u \in Background : WF_vars(BackgroundStep(u))
    /\ WF_vars(ManagerStep)

SafetySpec == Init /\ [][Next]_vars

Spec == SafetySpec /\ Fairness
-----------------------------------------------------------------------------
CallOps ==
    {"loop", "task", "sync", "syncwait", "join", "init", "stuck", "manager"}
EventOps == {"task", "sync", "wake", "shutdown", "ack"}

TypeOK ==
    /\ queue \in [Threads -> Seq([op : EventOps, arg : Threads \cup Tasks])]
    /\ stack \in [Threads -> Seq([op : CallOps, arg : Threads \cup Tasks])]
    /\ asleep \in [Threads -> BOOLEAN]
    /\ life \in [Threads -> {"none", "running", "ending", "exited", "joined"}]
    /\ mShutdownContext \in [Threads -> Threads \cup {None}]
    /\ mShutdownRequired \in [Threads -> BOOLEAN]
    /\ shutdownAck \in [Threads -> BOOLEAN]
    /\ syncTask \in SUBSET Tasks
    /\ origin \in [Tasks -> Threads \cup {None}]
    /\ mInitialized \in BOOLEAN
    /\ registered \in SUBSET Threads
    /\ manager \in [pc : {"idle", "flush", "join", "done"},
                    threads : SUBSET Threads]
    /\ dispatched \in SUBSET Tasks
    /\ ran \in SUBSET Tasks
    /\ acceptedBy \in [Tasks -> Threads \cup {None}]
    /\ late \in SUBSET Tasks
    /\ failed \in BOOLEAN

OpenCalls(t) == {stack[t][i] : i \in DOMAIN stack[t]}
Queued(t) == {queue[t][i] : i \in DOMAIN queue[t]}

\* The nsThreadShutdownContext lives in the stack frame of nsThread::Shutdown.
\* Whoever still holds a pointer to it (the shutdown event, the thread being
\* shut down, the ACK event) holds it while that call of the joining thread
\* is open, whatever nested event loops do in between.
ContextAlive ==
    \A t \in Threads, u \in Background :
        (\/ Call("shutdown", t) \in Queued(u)
         \/ mShutdownContext[u] = t /\ life[u] \in {"running", "ending"}
         \/ Call("ack", u) \in Queued(t))
            => Call("join", u) \in OpenCalls(t)

\* A thread that waits for its synchronous event is inside Dispatch, there to
\* be woken, and the wrapper it waits for is where PutEvent left it, in the
\* target's queue or on its stack and nowhere else; nowhere at all if that put
\* has failed.
SyncCallerWaits ==
    \A e \in syncTask :
        /\ Call("syncwait", e) \in OpenCalls(origin[e])
        /\ {t \in Threads : Call("sync", e) \in Queued(t) \cup OpenCalls(t)}
             = {acceptedBy[e]} \ {None}

\* What the waits of Dispatch and Shutdown rest on.
ThreadInv == TypeOK /\ ContextAlive /\ SyncCallerWaits

\* nsIThread.idl:62-64: Shutdown "causes any pending events to run to
\* completion before the thread joins".  Whatever a thread's queue took before
\* the thread looked at it for the last time (nsThread.cpp:253) has been run
\* once the thread has gone that far, also what was put behind the shutdown
\* event and what nested loops took from under one another.  What comes after
\* that look (late) is taken all the same and never run.
AcceptedAreRun ==
    \A e \in Tasks \ late :
        (acceptedBy[e] \in Background /\ life[acceptedBy[e]] # "running")
            => e \in ran

\* nsThreadManager.cpp:150: "There are no more background threads at this
\* point."
NoBackgroundThreads ==
    manager.pc = "done" =>
        \A u \in Background : life[u] \in {"none", "exited", "joined"}
                              /\ \A t \in Threads : \A call \in OpenCalls(t) :
                                    ~ Initializes(call, u)

\* Somebody may wait for ever: for an event no page was found for, or for a
\* synchronous one its target took after its last look.
Hopeless == failed \/ syncTask \cap late # {}

\* A synchronous Dispatch of e is open.
Waited(e) == \E t \in Threads : Call("syncwait", e) \in OpenCalls(t)

\* A synchronous Dispatch returns to its caller (nsIEventTarget.idl: "does not
\* return until the event has been processed"), however many loops are nested
\* on the caller and on the target.
SyncReturns ==
    \A e \in Tasks : Waited(e) ~> ~ Waited(e) \/ Hopeless

\* A Shutdown of a thread ends with the thread joined.
ShutdownReturns ==
    \A u \in Background : (\E t \in Threads : Call("join", u) \in OpenCalls(t))
                            ~> life[u] = "joined" \/ Hopeless

\* nsThreadManager::Shutdown returns.
ManagerReturns == manager.pc = "flush" ~> manager.pc = "done" \/ Hopeless

\* Every join ends, of one thread and of all.
JoinsReturn == ShutdownReturns /\ ManagerReturns
==============================================================================
