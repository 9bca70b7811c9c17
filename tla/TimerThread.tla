----------------------------- MODULE TimerThread -----------------------------
(***************************************************************************)
(* Timers (xpcom/threads/nsTimerImpl.cpp and TimerThread.cpp).  The timer  *)
(* thread keeps the armed timers in mTimers, sleeps until the first is due *)
(* and posts an event to the owner, the thread the timers were made on,    *)
(* which runs the callback.  The owner calls Init, Cancel, SetDelay and    *)
(* SetType, from its event loop or from inside a callback.                 *)
(*                                                                         *)
(* mLock guards mTimers and mArmed only: a timer's type, delay, timeout,   *)
(* generation and mCanceled are read and written by both threads without   *)
(* it.  One action is one hold of mLock or one unguarded access, and a     *)
(* read-modify-write of mTimeout is two.                                   *)
(*                                                                         *)
(* Time is PRIntervalTime: an unsigned counter that wraps at Domain.       *)
(***************************************************************************)
EXTENDS Integers, Sequences, FiniteSets, SequencesExt

CONSTANTS Timers, NoTimer,
          Domain,       \* 2^32 in the code: the values of PRIntervalTime
          Delays,       \* arguments of Init and SetDelay, in intervals
          Types,        \* arguments of Init and SetType
          Adjustments,  \* what UpdateFilter may make of mTimeoutAdjustment
          MaxInits,     \* bound on gGenerator
          MaxPosted,    \* bound on the events the owner lets pile up
          MaxEntries,   \* bound on InUse when SetDelay, SetType or DoAfterSleep
                        \* is called, which may list a timer once more
          MaxLate,      \* how many intervals a thread with work to do may lag
          Reinit,       \* types among which a timer is initialized again
          UseSetDelay, UseSetType, UseSleep, UseShutdown

ASSUME TimerAssumption ==
    /\ Domain \in Nat \ {0} /\ Domain % 2 = 0
    /\ Delays \subseteq Nat
    /\ Types \subseteq {"ONE_SHOT", "REPEATING_SLACK", "REPEATING_PRECISE"}
    /\ Adjustments \subseteq Int /\ 0 \in Adjustments
    /\ MaxInits \in Nat /\ MaxPosted \in Nat
    /\ MaxEntries \in Nat /\ MaxLate \in Nat
    /\ Reinit \subseteq Types
    /\ NoTimer \notin Timers

VARIABLES
    now,                 \* PR_IntervalNow()
    late,                \* intervals that passed with some thread's work undone
    timer,               \* the fields of each nsTimerImpl
    mTimers, mTimeoutAdjustment, mSleeping, mShutdown,
    thread,              \* the timer thread
    queue,               \* nsTimerEvents posted to the owner, oldest first
    owner,               \* the owner's call in progress
    callback,            \* the timer whose callback the owner runs
    gGenerator,
    gThread,             \* is the global pointer to the timer thread set?
    ahead,               \* history: intervals left of the delay given to Init
    fired                \* history: callbacks since Init

sharedVars == <<mTimers, mTimeoutAdjustment, mSleeping, mShutdown>>
ownerVars == <<owner, callback, gGenerator, gThread>>
vars == <<now, late, timer, sharedVars, thread, queue, ownerVars, ahead, fired>>
-----------------------------------------------------------------------------
(* nsTimerImpl.h: time that wraps.                                         *)

DELAY_INTERVAL_LIMIT == Domain \div 2
DELAY_INTERVAL_MAX == DELAY_INTERVAL_LIMIT - 1

\* Mutation: a comparison that forgets the wrap.
TimerLessThanPlain(t, u) == t < u

TIMER_LESS_THAN(t, u) == (t - u) % Domain > DELAY_INTERVAL_LIMIT

Clamp(delay) == IF delay > DELAY_INTERVAL_MAX THEN DELAY_INTERVAL_MAX ELSE delay

\* SetDelayInternal reads mTimeout, then stores the sum.
DelayBase(t) ==
    IF timer[t].timeout = 0 \/ timer[t].type # "REPEATING_PRECISE"
    THEN now ELSE timer[t].timeout

\* Mutation: the sum does not wrap.
DelayedUnwrapped(tm, base, delay) ==
    [tm EXCEPT !.delay = Clamp(delay), !.timeout = base + Clamp(delay)]

Delayed(tm, base, delay) ==
    [tm EXCEPT !.delay = Clamp(delay), !.timeout = (base + Clamp(delay)) % Domain]
-----------------------------------------------------------------------------
NewTimer == [type |-> "ONE_SHOT", delay |-> 0, timeout |-> 0, armed |-> FALSE,
             canceled |-> FALSE, generation |-> 0, firing |-> FALSE]
IdleOwner == [op |-> "none", timer |-> NoTimer, type |-> "ONE_SHOT", delay |-> 0,
              base |-> 0, then |-> "none", wake |-> 0]
\* The timer thread between two of its locals' uses.
ThreadAt(pc) == [pc |-> pc, timer |-> NoTimer, generation |-> 0, base |-> 0,
                 left |-> 0, polling |-> FALSE]
Forever == Domain

Init ==
    /\ now \in 0 .. Domain - 1
    /\ late = 0
    /\ timer = [t \in Timers |-> NewTimer]
    /\ mTimers = << >>
    /\ mTimeoutAdjustment = 0
    /\ mSleeping = FALSE
    /\ mShutdown = FALSE
    /\ thread = ThreadAt("ready")
    /\ queue = << >>
    /\ owner = IdleOwner
    /\ callback = NoTimer
    /\ gGenerator = 0
    /\ gThread = TRUE
    /\ ahead = [t \in Timers |-> 0]
    /\ fired = [t \in Timers |-> 0]
-----------------------------------------------------------------------------
(* TimerThread::AddTimerInternal, RemoveTimerInternal and PR_NotifyCondVar. *)

Listed(t) == Contains(mTimers, t)

\* Past every overdue timer, and before the first that is due later than t.
InsertionPoint(list, t) ==
    LET before == {i \in DOMAIN list :
                     /\ TIMER_LESS_THAN(now, timer[list[i]].timeout)
                     /\ TIMER_LESS_THAN(timer[t].timeout, timer[list[i]].timeout)}
    IN  IF before = {} THEN Len(list) + 1
        ELSE CHOOSE i \in before : \A j \in before : i <= j

Arm(t, b) == timer' = [timer EXCEPT ![t].armed = b]

Notified == IF thread.pc = "waiting" THEN ThreadAt("ready") ELSE thread

\* Mutation: the timer thread is not woken.
AddToSilently(list, t) ==
    /\ mTimers' = InsertAt(list, InsertionPoint(list, t), t)
    /\ Arm(t, TRUE)
    /\ UNCHANGED thread

\* AddTimer and TimerDelayChanged, on what is left of mTimers.  The thread
\* is woken only for a new first element.
AddTo(list, t) ==
    LET i == InsertionPoint(list, t)
    IN  /\ mTimers' = InsertAt(list, i, t)
        /\ Arm(t, TRUE)
        /\ thread' = IF i = 1 THEN Notified ELSE thread

RemoveTimer(t) ==
    /\ mTimers' = RemoveFirst(mTimers, t)
    /\ IF Listed(t) THEN Arm(t, FALSE) ELSE UNCHANGED timer
    /\ thread' = IF Listed(t) THEN Notified ELSE thread
-----------------------------------------------------------------------------
(* TimerThread::Run.                                                       *)

Due(t) == ~ TIMER_LESS_THAN(now, (timer[t].timeout + mTimeoutAdjustment) % Domain)
FirstDue == mTimers # << >> /\ Due(Head(mTimers))

\* The first timer is due: it leaves mTimers and mLock is released.
RunTakesTimer ==
    /\ \/ thread.pc = "ready" /\ ~ mSleeping
       \/ thread.pc = "posted"
    /\ ~ mShutdown
    /\ FirstDue
    /\ mTimers' = Tail(mTimers)
    /\ Arm(Head(mTimers), FALSE)
    /\ thread' = [ThreadAt("post") EXCEPT !.timer = Head(mTimers)]
    /\ UNCHANGED <<now, late, mTimeoutAdjustment, mSleeping, mShutdown, queue,
                   ownerVars, ahead, fired>>

\* Nothing is due: PR_WaitCondVar until the first timer is.
RunWaits ==
    /\ \/ thread.pc = "ready" /\ ~ mSleeping
       \/ thread.pc = "posted"
    /\ ~ mShutdown
    /\ ~ FirstDue
    /\ thread' =
         [ThreadAt("waiting") EXCEPT !.left =
            IF mTimers = << >> THEN Forever
            ELSE (timer[Head(mTimers)].timeout + mTimeoutAdjustment - now) % Domain]
    /\ UNCHANGED <<now, late, timer, sharedVars, queue, ownerVars, ahead, fired>>

\* mSleeping: look again in a while (one interval stands for 0.1 seconds).
RunPolls ==
    /\ thread.pc = "ready"
    /\ mSleeping
    /\ ~ mShutdown
    /\ thread' = [ThreadAt("waiting") EXCEPT !.polling = TRUE, !.left = 1]
    /\ UNCHANGED <<now, late, timer, sharedVars, queue, ownerVars, ahead, fired>>

\* The wait has timed out.
RunWakes ==
    /\ thread.pc = "waiting"
    /\ thread.left = 0
    /\ thread' = ThreadAt("ready")
    /\ UNCHANGED <<now, late, timer, sharedVars, queue, ownerVars, ahead, fired>>

RunEnds ==
    /\ thread.pc \in {"ready", "posted"}
    /\ mShutdown
    /\ thread' = ThreadAt("done")
    /\ UNCHANGED <<now, late, timer, sharedVars, queue, ownerVars, ahead, fired>>
-----------------------------------------------------------------------------
(* nsTimerImpl::PostTimerEvent, run by the timer thread without mLock.     *)

\* new nsTimerEvent(this, mGeneration).
PostReadsGeneration ==
    /\ thread.pc = "post"
    /\ thread' = [thread EXCEPT !.pc = "type",
                                !.generation = timer[thread.timer].generation]
    /\ UNCHANGED <<now, late, timer, sharedVars, queue, ownerVars, ahead, fired>>

\* Mutation: every timer that is not REPEATING_SLACK goes back into the list.
PostReadsTypeRearming ==
    /\ thread.pc = "type"
    /\ thread' = IF timer[thread.timer].type # "REPEATING_SLACK"
                 THEN [thread EXCEPT !.pc = "store", !.base = DelayBase(thread.timer)]
                 ELSE [thread EXCEPT !.pc = "dispatch"]
    /\ UNCHANGED <<now, late, timer, sharedVars, queue, ownerVars, ahead, fired>>

\* A precise timer is armed for its next period before its callback runs.
PostReadsType ==
    /\ thread.pc = "type"
    /\ thread' = IF timer[thread.timer].type = "REPEATING_PRECISE"
                 THEN [thread EXCEPT !.pc = "store", !.base = DelayBase(thread.timer)]
                 ELSE [thread EXCEPT !.pc = "dispatch"]
    /\ UNCHANGED <<now, late, timer, sharedVars, queue, ownerVars, ahead, fired>>

PostStoresTimeout ==
    /\ thread.pc = "store"
    /\ timer' = [timer EXCEPT ![thread.timer] = Delayed(@, thread.base, @.delay)]
    /\ thread' = [thread EXCEPT !.pc = "add", !.base = 0]
    /\ UNCHANGED <<now, late, sharedVars, queue, ownerVars, ahead, fired>>

PostAddsTimer ==
    /\ thread.pc = "add"
    /\ mTimers' = InsertAt(mTimers, InsertionPoint(mTimers, thread.timer), thread.timer)
    /\ Arm(thread.timer, TRUE)
    /\ thread' = [thread EXCEPT !.pc = "dispatch"]
    /\ UNCHANGED <<now, late, mTimeoutAdjustment, mSleeping, mShutdown, queue,
                   ownerVars, ahead, fired>>

PostDispatches ==
    /\ thread.pc = "dispatch"
    /\ queue' = Append(queue, [timer |-> thread.timer, generation |-> thread.generation])
    /\ thread' = ThreadAt("posted")
    /\ UNCHANGED <<now, late, timer, sharedVars, ownerVars, ahead, fired>>
-----------------------------------------------------------------------------
(* The owner: nsTimerEvent::Run and nsTimerImpl::Fire.                     *)

Idle == owner.op = "none" /\ callback = NoTimer /\ owner.wake = 0

\* An event of an older generation, or of a canceled timer, does nothing.
\* Otherwise UpdateFilter may move mTimeoutAdjustment and the callback runs.
Live(event) ==
    /\ event.generation = timer[event.timer].generation
    /\ ~ timer[event.timer].canceled

EventIgnored ==
    /\ Idle
    /\ queue # << >>
    /\ ~ Live(Head(queue))
    /\ queue' = Tail(queue)
    /\ UNCHANGED <<now, late, timer, sharedVars, thread, ownerVars, ahead, fired>>

Fire ==
    /\ Idle
    /\ queue # << >>
    /\ Live(Head(queue))
    /\ queue' = Tail(queue)
    /\ callback' = Head(queue).timer
    /\ timer' = [timer EXCEPT ![callback'].firing = TRUE]
    /\ fired' = [fired EXCEPT ![callback'] = IF @ < 2 THEN @ + 1 ELSE @]
    /\ mTimeoutAdjustment' \in IF gThread THEN Adjustments ELSE {mTimeoutAdjustment}
    /\ UNCHANGED <<now, late, mTimers, mSleeping, mShutdown, thread, owner,
                   gGenerator, gThread, ahead>>

\* Mutation: every repeating timer is put back, precise ones for a second time.
FireReturnsRearming ==
    /\ callback # NoTimer
    /\ owner.op = "none"
    /\ callback' = NoTimer
    /\ timer' = [timer EXCEPT ![callback].firing = FALSE]
    /\ owner' = IF timer[callback].type # "ONE_SHOT" /\ gThread
                THEN [owner EXCEPT !.op = "load", !.timer = callback,
                                   !.delay = timer[callback].delay, !.then = "add"]
                ELSE owner
    /\ UNCHANGED <<now, late, sharedVars, thread, queue, gGenerator, gThread, ahead,
                   fired>>

\* The callback returns.  A slack timer is put back, canceled or not.
FireReturns ==
    /\ callback # NoTimer
    /\ owner.op = "none"
    /\ callback' = NoTimer
    /\ timer' = [timer EXCEPT ![callback].firing = FALSE]
    /\ owner' = IF timer[callback].type = "REPEATING_SLACK" /\ gThread
                THEN [owner EXCEPT !.op = "load", !.timer = callback,
                                   !.delay = timer[callback].delay, !.then = "add"]
                ELSE owner
    /\ UNCHANGED <<now, late, sharedVars, thread, queue, gGenerator, gThread, ahead,
                   fired>>
-----------------------------------------------------------------------------
(* The owner: nsITimer.  Calls come from the event loop or a callback.     *)

MayCall == owner.op = "none" /\ owner.wake = 0 /\ gThread

\* How many times timers are listed, being posted, posted or firing.
InUse == Len(mTimers) + Len(queue) + (IF thread.timer = NoTimer THEN 0 ELSE 1)
           + (IF callback = NoTimer THEN 0 ELSE 1)

MayInit(t, type) ==
    \/ timer[t].generation = 0
    \/ {timer[t].type, type} \subseteq Reinit

\* Mutation: an armed timer is not taken off the list first.
InitCommonKeepingArmed(t, type, delay) ==
    /\ MayCall
    /\ MayInit(t, type)
    /\ gGenerator < MaxInits
    /\ owner' = [owner EXCEPT !.op = "clear", !.timer = t, !.type = type,
                              !.delay = delay]
    /\ UNCHANGED <<now, late, timer, sharedVars, thread, queue, callback,
                   gGenerator, gThread, ahead, fired>>

\* InitCommon tests mArmed without mLock ...
InitCommon(t, type, delay) ==
    /\ MayCall
    /\ MayInit(t, type)
    /\ gGenerator < MaxInits
    /\ owner' = [owner EXCEPT !.op = IF timer[t].armed THEN "remove" ELSE "clear",
                              !.timer = t, !.type = type, !.delay = delay]
    /\ UNCHANGED <<now, late, timer, sharedVars, thread, queue, callback,
                   gGenerator, gThread, ahead, fired>>

\* ... calls RemoveTimer if it was set ...
InitRemoves ==
    /\ owner.op = "remove"
    /\ RemoveTimer(owner.timer)
    /\ owner' = [owner EXCEPT !.op = "clear"]
    /\ UNCHANGED <<now, late, mTimeoutAdjustment, mSleeping, mShutdown, queue,
                   callback, gGenerator, gThread, ahead, fired>>

\* ... stores mCanceled, mGeneration and mType, one after the other, and sets
\* the delay.
InitClears ==
    /\ owner.op = "clear"
    /\ timer' = [timer EXCEPT ![owner.timer].canceled = FALSE]
    /\ owner' = [owner EXCEPT !.op = "generation"]
    /\ UNCHANGED <<now, late, sharedVars, thread, queue, callback, gGenerator,
                   gThread, ahead, fired>>

InitRenews ==
    /\ owner.op = "generation"
    /\ gGenerator' = gGenerator + 1
    /\ timer' = [timer EXCEPT ![owner.timer].generation = gGenerator']
    /\ ahead' = [ahead EXCEPT ![owner.timer] = Clamp(owner.delay)]
    /\ fired' = [fired EXCEPT ![owner.timer] = 0]
    /\ owner' = [owner EXCEPT !.op = "type"]
    /\ UNCHANGED <<now, late, sharedVars, thread, queue, callback, gThread>>

InitRetypes ==
    /\ owner.op = "type"
    /\ timer' = [timer EXCEPT ![owner.timer].type = owner.type]
    /\ owner' = [owner EXCEPT !.op = "load", !.then = "add", !.type = "ONE_SHOT"]
    /\ UNCHANGED <<now, late, sharedVars, thread, queue, callback, gGenerator,
                   gThread, ahead, fired>>

SetDelayLoads ==
    /\ owner.op = "load"
    /\ owner' = [owner EXCEPT !.op = "store", !.base = DelayBase(owner.timer)]
    /\ UNCHANGED <<now, late, timer, sharedVars, thread, queue, callback,
                   gGenerator, gThread, ahead, fired>>

SetDelayStores ==
    /\ owner.op = "store"
    /\ timer' = [timer EXCEPT ![owner.timer] = Delayed(@, owner.base, owner.delay)]
    /\ owner' = IF owner.then = "none" THEN [IdleOwner EXCEPT !.wake = owner.wake]
                ELSE [owner EXCEPT !.op = owner.then, !.base = 0, !.delay = 0]
    /\ UNCHANGED <<now, late, sharedVars, thread, queue, callback, gGenerator,
                   gThread, ahead, fired>>

Done == owner' = [IdleOwner EXCEPT !.wake = owner.wake]

AddTimer ==
    /\ owner.op = "add"
    /\ AddTo(mTimers, owner.timer)
    /\ Done
    /\ UNCHANGED <<now, late, mTimeoutAdjustment, mSleeping, mShutdown, queue,
                   callback, gGenerator, gThread, ahead, fired>>

\* TimerDelayChanged adds the timer whether it was in the list or not.
TimerDelayChanged ==
    /\ owner.op = "changed"
    /\ AddTo(RemoveFirst(mTimers, owner.timer), owner.timer)
    /\ Done
    /\ UNCHANGED <<now, late, mTimeoutAdjustment, mSleeping, mShutdown, queue,
                   callback, gGenerator, gThread, ahead, fired>>

\* SetDelay restarts a precise timer's period; a firing timer is not moved.
BeginSetDelay(t, delay, wake) ==
    /\ timer' = IF timer[t].timeout # 0 /\ timer[t].type = "REPEATING_PRECISE"
                THEN [timer EXCEPT ![t].timeout = now]
                ELSE timer
    /\ owner' = [owner EXCEPT !.op = "load", !.timer = t, !.delay = delay,
                              !.wake = wake,
                              !.then = IF timer[t].firing THEN "none" ELSE "changed"]

SetDelay(t, delay) ==
    /\ UseSetDelay
    /\ MayCall
    /\ InUse < MaxEntries
    /\ timer[t].generation # 0
    /\ BeginSetDelay(t, delay, 0)
    /\ UNCHANGED <<now, late, sharedVars, thread, queue, callback, gGenerator,
                   gThread, ahead, fired>>

SetType(t, type) ==
    /\ UseSetType
    /\ MayCall
    /\ InUse < MaxEntries
    /\ timer[t].generation # 0
    /\ timer' = [timer EXCEPT ![t].type = type]
    /\ UNCHANGED <<now, late, sharedVars, thread, queue, ownerVars, ahead, fired>>

Cancel(t) ==
    /\ MayCall
    /\ timer[t].generation # 0
    /\ timer' = [timer EXCEPT ![t].canceled = TRUE]
    /\ owner' = [owner EXCEPT !.op = "cancel", !.timer = t]
    /\ UNCHANGED <<now, late, sharedVars, thread, queue, callback, gGenerator,
                   gThread, ahead, fired>>

CancelRemoves ==
    /\ owner.op = "cancel"
    /\ RemoveTimer(owner.timer)
    /\ Done
    /\ UNCHANGED <<now, late, mTimeoutAdjustment, mSleeping, mShutdown, queue,
                   callback, gGenerator, gThread, ahead, fired>>
-----------------------------------------------------------------------------
(* The machine goes to sleep and wakes up: TimerThread::Observe, on the    *)
(* main thread, here the owner.                                            *)

DoBeforeSleep ==
    /\ UseSleep
    /\ Idle
    /\ mSleeping' = TRUE
    /\ UNCHANGED <<now, late, timer, mTimers, mTimeoutAdjustment, mShutdown, thread,
                   queue, ownerVars, ahead, fired>>

DoAfterSleep ==
    /\ UseSleep
    /\ Idle
    /\ gThread
    /\ InUse < MaxEntries
    /\ mSleeping' = TRUE
    /\ owner' = [owner EXCEPT !.wake = 1]
    /\ UNCHANGED <<now, late, timer, mTimers, mTimeoutAdjustment, mShutdown, thread,
                   queue, callback, gGenerator, gThread, ahead, fired>>

\* One turn of its loop: SetDelay(delay) on the timer now at this index.
WakeTurn ==
    /\ owner.op = "none"
    /\ owner.wake \in DOMAIN mTimers
    /\ LET t == mTimers[owner.wake]
       IN  BeginSetDelay(t, timer[t].delay, owner.wake + 1)
    /\ UNCHANGED <<now, late, sharedVars, thread, queue, callback, gGenerator,
                   gThread, ahead, fired>>

WakeDone ==
    /\ owner.op = "none"
    /\ owner.wake > Len(mTimers)
    /\ mTimeoutAdjustment' = 0
    /\ mSleeping' = FALSE
    /\ owner' = IdleOwner
    /\ UNCHANGED <<now, late, timer, mTimers, mShutdown, thread, queue, callback,
                   gGenerator, gThread, ahead, fired>>
-----------------------------------------------------------------------------
(* nsTimerImpl::Shutdown and TimerThread::Shutdown.  mThread->Shutdown()   *)
(* runs the owner's event loop until the thread has ended.                 *)

\* Mutation: the sleeping timer thread is not told.
ShutdownSilently ==
    /\ UseShutdown
    /\ Idle
    /\ ~ mShutdown
    /\ mShutdown' = TRUE
    /\ mTimers' = << >>
    /\ timer' = [t \in Timers |-> [timer[t] EXCEPT !.armed = @ /\ ~ Listed(t)]]
    /\ UNCHANGED <<now, late, mTimeoutAdjustment, mSleeping, thread, queue,
                   ownerVars, ahead, fired>>

Shutdown ==
    /\ UseShutdown
    /\ Idle
    /\ ~ mShutdown
    /\ mShutdown' = TRUE
    /\ mTimers' = << >>
    /\ timer' = [t \in Timers |-> [timer[t] EXCEPT !.armed = @ /\ ~ Listed(t)]]
    /\ thread' = Notified
    /\ UNCHANGED <<now, late, mTimeoutAdjustment, mSleeping, queue, ownerVars, ahead,
                   fired>>

ShutdownReturns ==
    /\ mShutdown
    /\ Idle
    /\ gThread
    /\ thread.pc = "done"
    /\ gThread' = FALSE
    /\ UNCHANGED <<now, late, timer, sharedVars, thread, queue, owner, callback,
                   gGenerator, ahead, fired>>
-----------------------------------------------------------------------------
\* An interval passes.  Threads with work to do may lag, by MaxLate intervals
\* in all: the code needs deadlines closer than DELAY_INTERVAL_LIMIT.
Working ==
    \/ thread.pc \notin {"waiting", "done"}
    \/ thread.pc = "waiting" /\ thread.left = 0
    \/ owner.op # "none"
    \/ owner.wake # 0

Tick ==
    /\ IF Working THEN late < MaxLate /\ late' = late + 1 ELSE late' = 0
    /\ Len(queue) < MaxPosted
    /\ now' = (now + 1) % Domain
    /\ ahead' = [t \in Timers |-> IF ahead[t] > 0 THEN ahead[t] - 1 ELSE 0]
    /\ thread' = IF thread.pc = "waiting" /\ thread.left \in 1 .. Domain - 1
                 THEN [thread EXCEPT !.left = @ - 1]
                 ELSE thread
    /\ UNCHANGED <<timer, sharedVars, queue, ownerVars, fired>>

ThreadStep ==
    \/ RunTakesTimer \/ RunWaits \/ RunPolls \/ RunWakes \/ RunEnds
    \/ PostReadsGeneration \/ PostReadsType \/ PostStoresTimeout \/ PostAddsTimer
    \/ PostDispatches

\* The rest of a call the owner has begun.
CallStep ==
    \/ InitRemoves \/ InitClears \/ InitRenews \/ InitRetypes
    \/ SetDelayLoads \/ SetDelayStores \/ AddTimer
    \/ TimerDelayChanged \/ CancelRemoves \/ WakeTurn \/ WakeDone

\* nsTimerEvent::Run.
RunEvent == EventIgnored \/ Fire

OwnerCall ==
    \/ \E t \in Timers, type \in Types, delay \in Delays : InitCommon(t, type, delay)
    \/ \E t \in Timers, delay \in Delays : SetDelay(t, delay)
    \/ \E t \in Timers, type \in Types : SetType(t, type)
    \/ \E t \in Timers : Cancel(t)
    \/ DoBeforeSleep \/ DoAfterSleep \/ Shutdown

Next ==
    \/ ThreadStep
    \/ CallStep \/ RunEvent \/ FireReturns \/ ShutdownReturns
    \/ OwnerCall
    \/ Tick

\* Time passes whatever is called, both threads are scheduled, and a callback
\* that makes calls returns.  The event loop serves its events in turn: other
\* events, which may call nsITimer too, do not keep the owner from a timer event
\* for ever.  That the owner calls anything is not promised.
Fairness ==
    /\ SF_vars(Tick) /\ WF_vars(ThreadStep) /\ WF_vars(CallStep)
    /\ SF_vars(RunEvent) /\ SF_vars(FireReturns) /\ SF_vars(ShutdownReturns)

SafetySpec == Init /\ [][Next]_vars

Spec == SafetySpec /\ Fairness
-----------------------------------------------------------------------------
Times == 0 .. Domain - 1

TypeOK ==
    /\ now \in Times
    /\ late \in 0 .. MaxLate
    /\ timer \in [Timers -> [type : Types \cup {"ONE_SHOT"}, delay : 0 .. DELAY_INTERVAL_MAX,
                             timeout : Times, armed : BOOLEAN, canceled : BOOLEAN,
                             generation : 0 .. MaxInits, firing : BOOLEAN]]
    /\ mTimers \in Seq(Timers)
    /\ mTimeoutAdjustment \in Adjustments
    /\ mSleeping \in BOOLEAN /\ mShutdown \in BOOLEAN /\ gThread \in BOOLEAN
    /\ thread \in [pc : {"ready", "waiting", "post", "type", "store", "add",
                         "dispatch", "posted", "done"},
                   timer : Timers \cup {NoTimer}, generation : 0 .. MaxInits,
                   base : Times, left : 0 .. Forever, polling : BOOLEAN]
    /\ queue \in Seq([timer : Timers, generation : 1 .. MaxInits])
    /\ owner.op \in {"none", "remove", "clear", "generation", "type", "load", "store",
                     "add", "changed", "cancel"}
    /\ callback \in Timers \cup {NoTimer}
    /\ gGenerator \in 0 .. MaxInits

\* mTimers holds a timer at most once, and exactly the timers with mArmed set:
\* InitCommon and Release trust the flag to say whether there is an element to
\* remove.
ArmedIsListedOnce ==
    /\ \A i, j \in DOMAIN mTimers : mTimers[i] = mTimers[j] => i = j
    /\ \A t \in Timers : timer[t].armed <=> Listed(t)

\* What is shared with the timer thread stays consistent.
TimerInv == TypeOK /\ ArmedIsListedOnce

\* Intervals until t is due; 0 when it is overdue.
Remaining(t) ==
    IF TIMER_LESS_THAN(now, timer[t].timeout) THEN (timer[t].timeout - now) % Domain ELSE 0

\* The timer thread never sleeps past the deadline of a timer in mTimers,
\* across wraps of the clock and with overdue timers in the list: it looks at
\* the first element only, and is woken only for a new first element.
\* (States inside a SetDelay, whose timer is out of place, are left out.)
NeverOversleeps ==
    thread.pc = "waiting" /\ ~ thread.polling /\ owner.then # "changed" =>
        \A t \in Timers : Listed(t) => thread.left <= Remaining(t)

\* Whatever the owner calls and whichever threads race, the timer thread does
\* not wait without a timeout while mTimers has an element.
NeverStranded ==
    thread.pc = "waiting" /\ mTimers # << >> => thread.left # Forever

\* No timer has been initialized a second time.
NoReinit == gGenerator = Cardinality({t \in Timers : timer[t].generation # 0})

\* nsITimer.idl:116: a timer "will fire after the said delay": the first
\* callback after Init does not run before that, give or take the adjustment.
FiresNotEarly ==
    [][\A t \in Timers : (NoReinit /\ callback' = t /\ callback # t /\ fired[t] = 0)
         => \E a \in Adjustments : ahead[t] + a <= 0]_vars

\* nsITimer.idl:91: TYPE_ONE_SHOT is the "Type of a timer that fires once
\* only": once for each Init ...
OneShotFiresOnce == \A t \in Timers : timer[t].type = "ONE_SHOT" => fired[t] <= 1

\* ... which holds as long as no timer is initialized again.
OneShotUnlessReinit == NoReinit => OneShotFiresOnce

\* An initialized timer fires, unless it is canceled, its delay is set again, the
\* machine sleeps or the timer thread is shut down.
Awaited(t) ==
    /\ timer[t].generation # 0 /\ fired[t] = 0
    /\ ~ timer[t].canceled /\ ~ mShutdown /\ ~ mSleeping
Postponed(t) == owner.timer = t /\ owner.then = "changed"
EventuallyFires == \A t \in Timers : Awaited(t) ~> (~ Awaited(t) \/ Postponed(t))

\* TimerThread::Shutdown ends: the timer thread is woken from any wait.
ShutdownEnds == mShutdown ~> ~ gThread
==============================================================================
