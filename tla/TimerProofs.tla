----------------------------- MODULE TimerProofs -----------------------------
(***************************************************************************)
(* For every number of timers, of delays and of intervals on the clock:    *)
(* the timer thread is never asleep for good with a timer listed; and,     *)
(* where the owner calls Init and Cancel only, mArmed and mTimers agree,   *)
(* one-shot timers that are initialized once fire once, no timer fires     *)
(* before its first delay is over, and the thread never sleeps past the    *)
(* deadline of a timer.                                                    *)
(***************************************************************************)
EXTENDS TimerThread, ListFacts, FiniteSetTheorems, TLAPS

-----------------------------------------------------------------------------
(* Posted events.                                                          *)

EventType == [timer : Timers, generation : 1 .. MaxInits]

\* Is an event of t in q, and at most one?
InQueue(q, t) == \E i \in DOMAIN q : q[i].timer = t
SingleEvent(q, t) == \A i, j \in DOMAIN q : q[i].timer = t /\ q[j].timer = t => i = j

LEMMA TailEvents ==
    ASSUME NEW q \in Seq(EventType), q # << >>
    PROVE  /\ Tail(q) \in Seq(EventType) /\ Head(q) \in EventType
           /\ InQueue(q, Head(q).timer)
           /\ \A t : InQueue(Tail(q), t) => InQueue(q, t)
           /\ \A t : t # Head(q).timer /\ InQueue(q, t) => InQueue(Tail(q), t)
           /\ \A t : SingleEvent(q, t) => SingleEvent(Tail(q), t)
           /\ SingleEvent(q, Head(q).timer) => ~ InQueue(Tail(q), Head(q).timer)
<1>. PICK r : r = Tail(q)
  OBVIOUS
<1>. PICK h : h = Head(q)
  OBVIOUS
<1>1. /\ r \in Seq(EventType) /\ Len(r) = Len(q) - 1 /\ Len(q) > 0
      /\ \A j \in 1 .. Len(r) : r[j] = q[j + 1]
      /\ h = q[1] /\ q[1] \in EventType
  OBVIOUS
<1>2. DOMAIN r = 1 .. Len(r) /\ DOMAIN q = 1 .. Len(q)
  BY <1>1
<1>3. InQueue(q, h.timer)
  BY <1>1, <1>2 DEF InQueue
<1>4. ASSUME NEW j \in 1 .. Len(r)
      PROVE  j + 1 \in 1 .. Len(q) /\ r[j] = q[j + 1]
  BY <1>1
<1>5. \A t : InQueue(r, t) => InQueue(q, t)
  BY <1>2, <1>4 DEF InQueue
<1>6. ASSUME NEW t, t # h.timer, InQueue(q, t) PROVE InQueue(r, t)
  <2>1. PICK j \in 1 .. Len(q) : q[j].timer = t
    BY <1>2, <1>6 DEF InQueue
  <2>2. j # 1
    BY <1>1, <1>6, <2>1
  <2>3. j - 1 \in 1 .. Len(r) /\ r[j - 1] = q[(j - 1) + 1] /\ (j - 1) + 1 = j
    BY <1>1, <2>2
  <2> QED BY <1>2, <2>1, <2>3 DEF InQueue
<1>7. ASSUME NEW t, SingleEvent(q, t) PROVE SingleEvent(r, t)
  <2> SUFFICES ASSUME NEW j \in 1 .. Len(r), NEW k \in 1 .. Len(r), r[j].timer = t, r[k].timer = t
               PROVE  j = k
    BY <1>2 DEF SingleEvent
  <2>1. j + 1 = k + 1
    BY <1>2, <1>4, <1>7 DEF SingleEvent
  <2> QED BY <2>1
<1>8. SingleEvent(q, h.timer) => ~ InQueue(r, h.timer)
  <2> SUFFICES ASSUME SingleEvent(q, h.timer), NEW j \in 1 .. Len(r), r[j].timer = h.timer
               PROVE  FALSE
    BY <1>2 DEF InQueue
  <2>1. j + 1 \in DOMAIN q /\ q[j + 1].timer = h.timer /\ 1 \in DOMAIN q /\ q[1].timer = h.timer
    BY <1>1, <1>2, <1>4
  <2> QED BY <2>1 DEF SingleEvent
<1> QED BY <1>1, <1>3, <1>5, <1>6, <1>7, <1>8

LEMMA AppendEvents ==
    ASSUME NEW q \in Seq(EventType), NEW e \in EventType
    PROVE  /\ Append(q, e) \in Seq(EventType)
           /\ \A t : InQueue(Append(q, e), t) <=> t = e.timer \/ InQueue(q, t)
           /\ \A t : t # e.timer /\ SingleEvent(q, t) => SingleEvent(Append(q, e), t)
           /\ ~ InQueue(q, e.timer) => SingleEvent(Append(q, e), e.timer)
<1>. PICK r : r = Append(q, e)
  OBVIOUS
<1>1. /\ r \in Seq(EventType) /\ Len(r) = Len(q) + 1 /\ r[Len(q) + 1] = e
      /\ \A j \in 1 .. Len(q) : r[j] = q[j]
  OBVIOUS
<1>2. DOMAIN r = 1 .. Len(q) + 1 /\ DOMAIN q = 1 .. Len(q)
  BY <1>1
<1>3. \A t : InQueue(r, t) <=> t = e.timer \/ InQueue(q, t)
  BY <1>1, <1>2 DEF InQueue
<1>4. \A t : t # e.timer /\ SingleEvent(q, t) => SingleEvent(r, t)
  BY <1>1, <1>2 DEF SingleEvent
<1>5. ~ InQueue(q, e.timer) => SingleEvent(r, e.timer)
  BY <1>1, <1>2 DEF SingleEvent, InQueue
<1> QED BY <1>1, <1>3, <1>4, <1>5

-----------------------------------------------------------------------------
(* The clock.                                                              *)

LEMMA ModRange ==
    ASSUME NEW D \in Nat \ {0}, NEW a \in Int
    PROVE  a % D \in 0 .. D - 1
OBVIOUS

LEMMA Halving ==
    ASSUME NEW D \in Nat \ {0}, D % 2 = 0
    PROVE  D \div 2 \in Nat \ {0} /\ 2 * (D \div 2) = D
OBVIOUS

LEMMA HalfDomain ==
    /\ DELAY_INTERVAL_LIMIT \in Nat \ {0} /\ 2 * DELAY_INTERVAL_LIMIT = Domain
    /\ DELAY_INTERVAL_MAX \in Nat /\ DELAY_INTERVAL_MAX = DELAY_INTERVAL_LIMIT - 1
<1>2. DELAY_INTERVAL_LIMIT \in Nat \ {0} /\ 2 * DELAY_INTERVAL_LIMIT = Domain
  BY Halving, TimerAssumption DEF TimerAssumption, DELAY_INTERVAL_LIMIT
<1> QED BY <1>2 DEF DELAY_INTERVAL_MAX

LEMMA ClampRange ==
    ASSUME NEW delay \in Nat
    PROVE  Clamp(delay) \in 0 .. DELAY_INTERVAL_MAX
BY HalfDomain DEF Clamp

-----------------------------------------------------------------------------
(* Types.                                                                  *)

TimerType == [type : Types \cup {"ONE_SHOT"}, delay : 0 .. DELAY_INTERVAL_MAX,
              timeout : Times, armed : BOOLEAN, canceled : BOOLEAN,
              generation : 0 .. MaxInits, firing : BOOLEAN]
ThreadType == [pc : {"ready", "waiting", "post", "type", "store", "add",
                     "dispatch", "posted", "done"},
               timer : Timers \cup {NoTimer}, generation : 0 .. MaxInits,
               base : Times, left : 0 .. Forever, polling : BOOLEAN]
OwnerType == [op : {"none", "remove", "clear", "generation", "type", "load", "store", "add",
                    "changed", "cancel"},
              timer : Timers \cup {NoTimer}, type : Types \cup {"ONE_SHOT"},
              delay : Nat, base : Times, then : {"none", "add", "changed"}, wake : Nat]

\* Init was called on t.
Made(t) == t \in Timers /\ timer[t].generation # 0

Posting == thread.pc \in {"post", "type", "store", "add", "dispatch"}

ClockTyped ==
    /\ now \in Times /\ late \in 0 .. MaxLate /\ mTimeoutAdjustment \in Adjustments
    /\ mSleeping \in BOOLEAN /\ mShutdown \in BOOLEAN /\ gThread \in BOOLEAN

TimersTyped == timer \in [Timers -> TimerType]

\* Whatever is listed, posted, in a callback or in a call after Init has been
\* initialized.
ListTyped == mTimers \in Seq(Timers) /\ \A t : Contains(mTimers, t) => Made(t)

ThreadTyped ==
    /\ thread \in ThreadType
    /\ thread.timer # NoTimer <=> Posting
    /\ Posting => Made(thread.timer)
    /\ thread.pc \in {"type", "store", "add", "dispatch"} => thread.generation # 0

QueueTyped == queue \in Seq(EventType) /\ \A t : InQueue(queue, t) => Made(t)

OwnerTyped ==
    /\ owner \in OwnerType
    /\ owner.op # "none" => owner.timer \in Timers
    /\ owner.op \in {"type", "load", "store", "add", "changed", "cancel"} => Made(owner.timer)
    /\ owner.op \in {"remove", "clear", "generation"} => gGenerator < MaxInits
    /\ owner.op \in {"add", "changed"} => owner.then = owner.op
    /\ gGenerator \in 0 .. MaxInits

CallbackTyped == callback \in Timers \cup {NoTimer} /\ (callback # NoTimer => Made(callback))

TypeInv ==
    /\ ClockTyped /\ TimersTyped /\ ListTyped /\ ThreadTyped /\ QueueTyped
    /\ OwnerTyped /\ CallbackTyped

LEMMA TypeInvTypes == TypeInv => TypeOK
BY DEF TypeInv, TypeOK, ClockTyped, TimersTyped, ListTyped, ThreadTyped, QueueTyped,
       OwnerTyped, CallbackTyped, TimerType, ThreadType, OwnerType, EventType

\* What is initialized stays so.
KeepsMade == \A t : Made(t) => Made(t)'

\* The parts that a step leaves alone.
LEMMA TypeFrame ==
    ASSUME TypeInv, KeepsMade
    PROVE  /\ UNCHANGED mTimers => ListTyped'
           /\ UNCHANGED thread => ThreadTyped'
           /\ UNCHANGED queue => QueueTyped'
           /\ UNCHANGED <<owner, gGenerator>> => OwnerTyped'
           /\ UNCHANGED callback => CallbackTyped'
           /\ UNCHANGED <<now, late, mTimeoutAdjustment, mSleeping, mShutdown, gThread>>
                => ClockTyped'
<1>1. UNCHANGED mTimers => ListTyped'
  BY DEF TypeInv, KeepsMade, ListTyped
<1>2. UNCHANGED thread => ThreadTyped'
  BY DEF TypeInv, KeepsMade, ThreadTyped, Posting
<1>3. UNCHANGED queue => QueueTyped'
  BY DEF TypeInv, KeepsMade, QueueTyped
<1>4. UNCHANGED <<owner, gGenerator>> => OwnerTyped'
  BY DEF TypeInv, KeepsMade, OwnerTyped
<1>5. UNCHANGED callback => CallbackTyped'
  BY DEF TypeInv, KeepsMade, CallbackTyped
<1>6. UNCHANGED <<now, late, mTimeoutAdjustment, mSleeping, mShutdown, gThread>> => ClockTyped'
  BY DEF TypeInv, ClockTyped
<1> QED BY <1>1, <1>2, <1>3, <1>4, <1>5, <1>6

\* A step that writes no generation.
LEMMA MadeFrame ==
    ASSUME UNCHANGED timer \/ \A t \in Timers : timer'[t].generation = timer[t].generation
    PROVE  KeepsMade /\ \A t : Made(t)' <=> Made(t)
BY DEF KeepsMade, Made

LEMMA TypeInit == Init => TypeInv
<1> SUFFICES ASSUME Init PROVE TypeInv
  OBVIOUS
<1>0. 0 \in 0 .. MaxLate /\ 0 \in Adjustments
  BY TimerAssumption DEF TimerAssumption
<1>1. ClockTyped /\ CallbackTyped
  BY <1>0 DEF Init, ClockTyped, CallbackTyped, Times
<1>2. TimersTyped
  BY TimerAssumption, HalfDomain DEF TimerAssumption, Init, TimersTyped, TimerType, NewTimer, Times
<1>3. ListTyped
  BY DEF Init, ListTyped, Contains
<1>4. ThreadTyped
  BY TimerAssumption
     DEF TimerAssumption, Init, ThreadTyped, ThreadType, ThreadAt, Posting, Times, Forever
<1>5. QueueTyped
  BY DEF Init, QueueTyped, InQueue
<1>6. OwnerTyped
  BY TimerAssumption DEF TimerAssumption, Init, OwnerTyped, OwnerType, IdleOwner, Times
<1> QED BY <1>1, <1>2, <1>3, <1>4, <1>5, <1>6 DEF TypeInv

LEMMA PointRange ==
    ASSUME NEW list \in Seq(Timers), NEW t
    PROVE  /\ InsertionPoint(list, t) \in 1 .. Len(list) + 1
           /\ list = << >> => InsertionPoint(list, t) = 1
<1> DEFINE before == {i \in DOMAIN list :
                        /\ TIMER_LESS_THAN(now, timer[list[i]].timeout)
                        /\ TIMER_LESS_THAN(timer[t].timeout, timer[list[i]].timeout)}
<1>1. before \subseteq 1 .. Len(list)
  OBVIOUS
<1>2. InsertionPoint(list, t) = IF before = {} THEN Len(list) + 1
                                ELSE CHOOSE i \in before : \A j \in before : i <= j
  BY DEF InsertionPoint
<1> HIDE DEF before
<1>3. CASE before = {}
  BY <1>2, <1>3
<1>4. CASE before # {}
  <2>1. \E i \in before : \A j \in before : i <= j
    <3>1. before \in SUBSET Nat
      BY <1>1
    <3> QED BY <1>4, <3>1, LeastNatural
  <2>2. InsertionPoint(list, t) \in before
    BY <1>2, <1>4, <2>1
  <2>3. InsertionPoint(list, t) \in 1 .. Len(list)
    BY <1>1, <2>2
  <2>4. Len(list) \in Nat /\ (list = << >> => Len(list) = 0)
    OBVIOUS
  <2> QED BY <2>3, <2>4
<1> QED BY <1>3, <1>4

\* A timer that comes into the list.
LEMMA AddToEffect ==
    ASSUME NEW list \in Seq(Timers), NEW t \in Timers, AddTo(list, t)
    PROVE  /\ mTimers' \in Seq(Timers) /\ mTimers' # << >>
           /\ \A x : Contains(mTimers', x) <=> x = t \/ Contains(list, x)
           /\ \A x : x # t /\ Single(list, x) => Single(mTimers', x)
           /\ ~ Contains(list, t) => Single(mTimers', t)
           /\ timer' = [timer EXCEPT ![t].armed = TRUE]
           /\ thread' \in {thread, Notified}
           /\ list = << >> => thread' = Notified
<1> DEFINE i == InsertionPoint(list, t)
<1>1. i \in 1 .. Len(list) + 1 /\ (list = << >> => i = 1)
  BY PointRange
<1>2. /\ mTimers' = InsertAt(list, i, t)
      /\ timer' = [timer EXCEPT ![t].armed = TRUE]
      /\ thread' = IF i = 1 THEN Notified ELSE thread
  BY DEF AddTo, Arm
<1> HIDE DEF i
<1> QED BY <1>1, <1>2, InsertContains

\* A timer that is taken off the list, if it is on it.
LEMMA RemoveEffect ==
    ASSUME TimersTyped, mTimers \in Seq(Timers), NEW t \in Timers, RemoveTimer(t)
    PROVE  /\ mTimers' \in Seq(Timers)
           /\ \A x : Contains(mTimers', x) => Contains(mTimers, x)
           /\ \A x : x # t /\ Contains(mTimers, x) => Contains(mTimers', x)
           /\ \A x : Single(mTimers, x) => Single(mTimers', x)
           /\ Single(mTimers, t) => ~ Contains(mTimers', t)
           /\ timer' = IF Contains(mTimers, t) THEN [timer EXCEPT ![t].armed = FALSE] ELSE timer
           /\ thread' \in {thread, Notified}
           /\ mTimers' # << >> => mTimers # << >>
<1>1. /\ mTimers' = RemoveFirst(mTimers, t)
      /\ timer' = IF Contains(mTimers, t) THEN [timer EXCEPT ![t].armed = FALSE] ELSE timer
      /\ thread' \in {thread, Notified}
  BY DEF RemoveTimer, Arm, Listed
<1>2. mTimers = << >> => RemoveFirst(mTimers, t) = << >>
  BY DEF RemoveFirst
<1> QED BY <1>1, <1>2, RemoveContains

\* Fields that a step writes.
LEMMA ArmStep ==
    ASSUME TimersTyped, NEW t \in Timers, NEW b \in BOOLEAN,
           timer' = [timer EXCEPT ![t].armed = b]
    PROVE  TimersTyped' /\ KeepsMade
BY DEF TimersTyped, TimerType, KeepsMade, Made

LEMMA DelayStep ==
    ASSUME TypeInv, NEW t \in Timers, NEW base \in Times, NEW delay \in Nat,
           timer' = [timer EXCEPT ![t] = Delayed(@, base, delay)]
    PROVE  TimersTyped' /\ KeepsMade
<1>1. Clamp(delay) \in 0 .. DELAY_INTERVAL_MAX
  BY ClampRange
<1>2. (base + Clamp(delay)) % Domain \in Times
  <2>1. base + Clamp(delay) \in Int /\ Domain \in Nat \ {0}
    BY <1>1, HalfDomain, TimerAssumption DEF TimerAssumption, Times
  <2> QED BY <2>1, ModRange DEF Times
<1> DEFINE r == Delayed(timer[t], base, delay)
<1>3. r = [timer[t] EXCEPT !.delay = Clamp(delay), !.timeout = (base + Clamp(delay)) % Domain]
  BY DEF Delayed
<1>4. timer[t] \in TimerType
  BY DEF TypeInv, TimersTyped
<1>5. r \in TimerType /\ r.generation = timer[t].generation
  BY <1>1, <1>2, <1>3, <1>4 DEF TimerType
<1>6. timer' = [timer EXCEPT ![t] = r]
  OBVIOUS
<1> HIDE DEF r
<1>7. TimersTyped'
  BY <1>5, <1>6 DEF TypeInv, TimersTyped
<1>8. \A x \in Timers : timer'[x].generation = timer[x].generation
  BY <1>5, <1>6 DEF TypeInv, TimersTyped
<1> QED BY <1>7, <1>8, MadeFrame

LEMMA BaseRange ==
    ASSUME TypeInv, NEW t \in Timers
    PROVE  DelayBase(t) \in Times
BY DEF TypeInv, ClockTyped, TimersTyped, TimerType, DelayBase

\* The timer thread's locals are cleared at every turn.
LEMMA ThreadAtFacts ==
    ASSUME NEW pc \in {"ready", "waiting", "post", "posted", "done"}
    PROVE  /\ ThreadAt(pc) \in ThreadType /\ ThreadAt(pc).pc = pc
           /\ ThreadAt(pc).timer = NoTimer /\ ThreadAt(pc).left = 0
           /\ ThreadAt(pc).polling = FALSE /\ ThreadAt(pc).generation = 0
<1>1. 0 \in Times /\ 0 \in 0 .. Forever /\ 0 \in 0 .. MaxInits
  BY TimerAssumption DEF TimerAssumption, Times, Forever
<1> QED BY <1>1 DEF ThreadAt, ThreadType

LEMMA NotifiedTyped ==
    ASSUME TypeInv, KeepsMade, thread' \in {thread, Notified}
    PROVE  ThreadTyped'
<1>1. CASE thread' = thread
  BY <1>1, TypeFrame
<1>2. CASE thread' = ThreadAt("ready")
  BY <1>2, ThreadAtFacts DEF ThreadTyped, Posting
<1> QED BY <1>1, <1>2 DEF Notified

\* The timer thread with its hands empty.
LEMMA IdleThread ==
    ASSUME NEW pc \in {"ready", "waiting", "posted", "done"}, NEW left \in 0 .. Forever,
           NEW polling \in BOOLEAN,
           \/ thread' = ThreadAt(pc)
           \/ thread' = [ThreadAt(pc) EXCEPT !.left = left]
           \/ thread' = [ThreadAt(pc) EXCEPT !.polling = polling, !.left = left]
    PROVE  ThreadTyped'
<1>1. thread'.timer = NoTimer /\ thread'.pc = pc /\ thread' \in ThreadType
  <2>1. ThreadAt(pc) \in ThreadType /\ ThreadAt(pc).pc = pc /\ ThreadAt(pc).timer = NoTimer
    BY ThreadAtFacts
  <2>2. CASE thread' = ThreadAt(pc)
    BY <2>1, <2>2
  <2>3. CASE thread' = [ThreadAt(pc) EXCEPT !.left = left]
    BY <2>1, <2>3 DEF ThreadType
  <2>4. CASE thread' = [ThreadAt(pc) EXCEPT !.polling = polling, !.left = left]
    BY <2>1, <2>4 DEF ThreadType
  <2> QED BY <2>2, <2>3, <2>4
<1> QED BY <1>1 DEF ThreadTyped, Posting

LEMMA RunTakesTimerTypes == ASSUME TypeInv, RunTakesTimer PROVE TypeInv'
<1>1. mTimers \in Seq(Timers) /\ mTimers # << >>
  BY DEF TypeInv, ListTyped, RunTakesTimer, FirstDue
<1>. PICK t : t = Head(mTimers)
  OBVIOUS
<1>2. t \in Timers /\ Contains(mTimers, t)
  BY <1>1, TailContains
<1>3. timer' = [timer EXCEPT ![t].armed = FALSE] /\ mTimers' = Tail(mTimers)
      /\ thread' = [ThreadAt("post") EXCEPT !.timer = t]
  BY DEF RunTakesTimer, Arm
<1>4. TimersTyped' /\ KeepsMade
  BY <1>2, <1>3, ArmStep DEF TypeInv
<1>5. ListTyped'
  BY <1>1, <1>3, <1>4, TailContains DEF TypeInv, ListTyped, KeepsMade
<1>6. ThreadTyped'
  <2>1. Made(t)' /\ t # NoTimer
    BY <1>2, <1>4, TimerAssumption DEF TimerAssumption, TypeInv, ListTyped, KeepsMade
  <2>2. thread' \in ThreadType /\ thread'.pc = "post" /\ thread'.timer = t
    BY <1>2, <1>3, ThreadAtFacts DEF ThreadType
  <2> QED BY <2>1, <2>2 DEF ThreadTyped, Posting
<1> QED BY <1>4, <1>5, <1>6, TypeFrame DEF TypeInv, RunTakesTimer, ownerVars

\* Steps of the timer thread that only write its locals.
LEMMA LocalStep ==
    ASSUME TypeInv, ThreadTyped', UNCHANGED <<now, late, timer, sharedVars, queue, ownerVars>>
    PROVE  TypeInv'
<1>1. KeepsMade
  BY DEF KeepsMade, Made
<1>2. TimersTyped'
  BY DEF TypeInv, TimersTyped
<1> QED BY <1>1, <1>2, TypeFrame DEF TypeInv, sharedVars, ownerVars

LEMMA RunWaitsTypes == ASSUME TypeInv, RunWaits PROVE TypeInv'
<1> DEFINE left == IF mTimers = << >> THEN Forever
                   ELSE (timer[Head(mTimers)].timeout + mTimeoutAdjustment - now) % Domain
<1>1. left \in 0 .. Forever
  <2>1. CASE mTimers = << >>
    BY <2>1, TimerAssumption DEF TimerAssumption, Forever
  <2>2. CASE mTimers # << >>
    <3>1. Head(mTimers) \in Timers
      BY <2>2 DEF TypeInv, ListTyped
    <3>2. timer[Head(mTimers)].timeout + mTimeoutAdjustment - now \in Int
      BY <3>1, TimerAssumption
         DEF TypeInv, TimersTyped, TimerType, ClockTyped, TimerAssumption, Times
    <3>3. left \in 0 .. Domain - 1
      BY <2>2, <3>2, ModRange, TimerAssumption DEF TimerAssumption
    <3> QED BY <3>3, TimerAssumption DEF TimerAssumption, Forever
  <2> QED BY <2>1, <2>2
<1>2. thread' = [ThreadAt("waiting") EXCEPT !.left = left]
  BY DEF RunWaits
<1> HIDE DEF left
<1>4. ThreadTyped'
  BY <1>1, <1>2, IdleThread
<1> QED BY <1>4, LocalStep DEF RunWaits

LEMMA RunRestTypes == ASSUME TypeInv, RunPolls \/ RunWakes \/ RunEnds PROVE TypeInv'
<1>1. 1 \in 0 .. Forever
  BY TimerAssumption DEF TimerAssumption, Forever
<1>2. CASE RunPolls
  <2>1. thread' = [ThreadAt("waiting") EXCEPT !.polling = TRUE, !.left = 1]
    BY <1>2 DEF RunPolls
  <2> QED BY <1>1, <1>2, <2>1, IdleThread, LocalStep DEF RunPolls
<1>3. CASE RunWakes
  BY <1>1, <1>3, IdleThread, LocalStep DEF RunWakes
<1>4. CASE RunEnds
  BY <1>1, <1>4, IdleThread, LocalStep DEF RunEnds
<1> QED BY <1>2, <1>3, <1>4

LEMMA PostReadsTypes ==
    ASSUME TypeInv, PostReadsGeneration \/ PostReadsType
    PROVE  TypeInv'
<1>1. Posting /\ Made(thread.timer) /\ thread.timer \in Timers /\ thread \in ThreadType
  BY DEF PostReadsGeneration, PostReadsType, TypeInv, ThreadTyped, Posting, Made
<1>. PICK t \in Timers : t = thread.timer
  BY <1>1
<1>2. timer[t].generation \in 0 .. MaxInits /\ timer[t].generation # 0 /\ DelayBase(t) \in Times
  BY <1>1, BaseRange DEF TypeInv, TimersTyped, TimerType, Made
<1>3. UNCHANGED timer
  BY DEF PostReadsGeneration, PostReadsType
<1>4. Made(t)'
  BY <1>1, <1>3 DEF Made
<1>5. CASE PostReadsGeneration
  <2>1. thread' = [thread EXCEPT !.pc = "type", !.generation = timer[t].generation]
    BY <1>5 DEF PostReadsGeneration
  <2>2. thread' \in ThreadType /\ thread'.timer = t /\ thread'.pc = "type" /\ thread'.generation # 0
    BY <1>1, <1>2, <2>1 DEF ThreadType
  <2>3. ThreadTyped'
    BY <1>1, <1>4, <2>2 DEF ThreadTyped, Posting, TypeInv
  <2> QED BY <1>5, <2>3, LocalStep DEF PostReadsGeneration
<1>6. CASE PostReadsType
  <2>1. \/ thread' = [thread EXCEPT !.pc = "store", !.base = DelayBase(t)]
        \/ thread' = [thread EXCEPT !.pc = "dispatch"]
    BY <1>6 DEF PostReadsType
  <2>2. thread' \in ThreadType /\ thread'.timer = t /\ thread'.pc \in {"store", "dispatch"}
        /\ thread'.generation = thread.generation
    BY <1>1, <1>2, <2>1 DEF ThreadType
  <2>3. ThreadTyped'
    BY <1>1, <1>4, <1>6, <2>2 DEF ThreadTyped, Posting, TypeInv, PostReadsType
  <2> QED BY <1>6, <2>3, LocalStep DEF PostReadsType
<1> QED BY <1>5, <1>6

LEMMA PostStoresTypes == ASSUME TypeInv, PostStoresTimeout PROVE TypeInv'
<1>1. Posting /\ Made(thread.timer) /\ thread \in ThreadType /\ thread.pc = "store"
  BY DEF PostStoresTimeout, TypeInv, ThreadTyped, Posting
<1>. PICK t \in Timers : t = thread.timer
  BY <1>1 DEF Made
<1>. PICK base \in Times : base = thread.base
  BY <1>1 DEF ThreadType
<1>. PICK delay \in Nat : delay = timer[t].delay
  BY DEF TypeInv, TimersTyped, TimerType
<1>2. timer' = [timer EXCEPT ![t] = Delayed(@, base, delay)]
  BY DEF PostStoresTimeout
<1>3. TimersTyped' /\ KeepsMade
  BY <1>2, DelayStep
<1>4. 0 \in Times
  BY TimerAssumption DEF TimerAssumption, Times
<1>5. thread' = [thread EXCEPT !.pc = "add", !.base = 0]
  BY DEF PostStoresTimeout
<1>6. thread' \in ThreadType /\ thread'.pc = "add" /\ thread'.timer = t
      /\ thread'.generation = thread.generation
  BY <1>1, <1>4, <1>5 DEF ThreadType
<1>7. ThreadTyped'
  BY <1>1, <1>3, <1>6 DEF ThreadTyped, Posting, TypeInv, KeepsMade
<1> QED BY <1>3, <1>7, TypeFrame DEF TypeInv, PostStoresTimeout, sharedVars, ownerVars

LEMMA PostAddsEffect ==
    ASSUME TypeInv, PostAddsTimer
    PROVE  /\ thread.timer \in Timers /\ Made(thread.timer)
           /\ mTimers' \in Seq(Timers) /\ mTimers' # << >>
           /\ \A x : Contains(mTimers', x) <=> x = thread.timer \/ Contains(mTimers, x)
           /\ \A x : x # thread.timer /\ Single(mTimers, x) => Single(mTimers', x)
           /\ ~ Contains(mTimers, thread.timer) => Single(mTimers', thread.timer)
           /\ timer' = [timer EXCEPT ![thread.timer].armed = TRUE]
<1>1. Made(thread.timer) /\ mTimers \in Seq(Timers)
  BY DEF PostAddsTimer, TypeInv, ThreadTyped, Posting, ListTyped
<1>. PICK t \in Timers : t = thread.timer
  BY <1>1 DEF Made
<1>. PICK i : i = InsertionPoint(mTimers, t)
  OBVIOUS
<1>2. i \in 1 .. Len(mTimers) + 1
  BY <1>1, PointRange
<1>3. mTimers' = InsertAt(mTimers, i, t) /\ timer' = [timer EXCEPT ![t].armed = TRUE]
  BY DEF PostAddsTimer, Arm
<1> QED BY <1>1, <1>2, <1>3, InsertContains

LEMMA PostAddsTypes == ASSUME TypeInv, PostAddsTimer PROVE TypeInv'
<1>. PICK t \in Timers : t = thread.timer
  BY PostAddsEffect
<1>1. TimersTyped' /\ KeepsMade
  BY PostAddsEffect, ArmStep DEF TypeInv
<1>2. ListTyped'
  BY <1>1, PostAddsEffect DEF ListTyped, TypeInv, KeepsMade
<1>3. thread' = [thread EXCEPT !.pc = "dispatch"]
  BY DEF PostAddsTimer
<1>4. thread' \in ThreadType /\ thread'.pc = "dispatch" /\ thread'.timer = t
      /\ thread'.generation = thread.generation
  BY <1>3 DEF TypeInv, ThreadTyped, ThreadType
<1>5. ThreadTyped'
  BY <1>1, <1>4, PostAddsEffect DEF ThreadTyped, Posting, TypeInv, KeepsMade, PostAddsTimer
<1> QED BY <1>1, <1>2, <1>5, TypeFrame DEF TypeInv, PostAddsTimer, ownerVars

LEMMA PostDispatchesEffect ==
    ASSUME TypeInv, PostDispatches
    PROVE  /\ Made(thread.timer) /\ thread.timer \in Timers
           /\ [timer |-> thread.timer, generation |-> thread.generation] \in EventType
           /\ queue' = Append(queue, [timer |-> thread.timer, generation |-> thread.generation])
           /\ thread' = ThreadAt("posted")
           /\ thread'.timer = NoTimer /\ thread'.pc = "posted"
<1>1. Made(thread.timer) /\ thread.generation \in 1 .. MaxInits /\ thread.timer \in Timers
  BY TimerAssumption
     DEF PostDispatches, TypeInv, ThreadTyped, ThreadType, Posting, Made, TimerAssumption
<1> QED BY <1>1, ThreadAtFacts DEF PostDispatches, EventType

LEMMA PostDispatchesTypes == ASSUME TypeInv, PostDispatches PROVE TypeInv'
<1>1. KeepsMade /\ TimersTyped'
  BY MadeFrame DEF PostDispatches, TypeInv, TimersTyped
<1>2. thread' = ThreadAt("posted") /\ 0 \in 0 .. Forever
  BY PostDispatchesEffect, TimerAssumption DEF TimerAssumption, Forever
<1>3. ThreadTyped'
  BY <1>2, IdleThread
<1>. PICK e \in EventType : e = [timer |-> thread.timer, generation |-> thread.generation]
  BY PostDispatchesEffect
<1>4. queue' = Append(queue, e) /\ e.timer = thread.timer /\ queue \in Seq(EventType)
  BY PostDispatchesEffect DEF TypeInv, QueueTyped
<1>5. QueueTyped'
  BY <1>1, <1>4, PostDispatchesEffect, AppendEvents DEF QueueTyped, TypeInv, KeepsMade
<1> QED BY <1>1, <1>3, <1>5, TypeFrame DEF TypeInv, PostDispatches, sharedVars, ownerVars

\* A timer event leaves the queue.
LEMMA DequeueTypes ==
    ASSUME TypeInv, KeepsMade, queue # << >>, queue' = Tail(queue)
    PROVE  QueueTyped' /\ Head(queue) \in EventType /\ Made(Head(queue).timer)
<1>1. queue \in Seq(EventType)
  BY DEF TypeInv, QueueTyped
<1>. PICK h : h = Head(queue)
  OBVIOUS
<1>2. h \in EventType /\ Made(h.timer)
  BY <1>1, TailEvents DEF TypeInv, QueueTyped
<1>3. QueueTyped'
  BY <1>1, TailEvents DEF TypeInv, QueueTyped, KeepsMade
<1> QED BY <1>2, <1>3

LEMMA EventIgnoredTypes == ASSUME TypeInv, EventIgnored PROVE TypeInv'
<1>1. KeepsMade /\ TimersTyped'
  BY MadeFrame DEF EventIgnored, TypeInv, TimersTyped
<1>2. QueueTyped'
  BY <1>1, DequeueTypes DEF EventIgnored
<1> QED BY <1>1, <1>2, TypeFrame DEF TypeInv, EventIgnored, sharedVars, ownerVars

\* Fields that no generation depends on.
LEMMA FieldStep ==
    ASSUME TimersTyped, NEW t \in Timers, NEW r \in TimerType,
           r.generation = timer[t].generation, timer' = [timer EXCEPT ![t] = r]
    PROVE  TimersTyped' /\ KeepsMade
BY DEF TimersTyped, TimerType, KeepsMade, Made

LEMMA FlagStep ==
    ASSUME TimersTyped, NEW t \in Timers, NEW b \in BOOLEAN,
           \/ timer' = [timer EXCEPT ![t].firing = b]
           \/ timer' = [timer EXCEPT ![t].canceled = b]
    PROVE  TimersTyped' /\ KeepsMade
<1>. PICK tm \in TimerType : tm = timer[t]
  BY DEF TimersTyped
<1>1. PICK r : /\ r = [tm EXCEPT !.firing = b] \/ r = [tm EXCEPT !.canceled = b]
               /\ timer' = [timer EXCEPT ![t] = r]
  OBVIOUS
<1>2. r \in TimerType /\ r.generation = tm.generation
  BY <1>1 DEF TimerType
<1> QED BY <1>1, <1>2, FieldStep

LEMMA FireTypes == ASSUME TypeInv, Fire PROVE TypeInv'
<1>0. callback' = Head(queue).timer /\ queue # << >> /\ queue' = Tail(queue)
  BY DEF Fire
<1>. PICK t : t = Head(queue).timer
  OBVIOUS
<1>1. t \in Timers /\ Made(t)
  BY <1>0, TailEvents DEF TypeInv, QueueTyped, Made
<1>2. timer' = [timer EXCEPT ![t].firing = TRUE]
  BY <1>0 DEF Fire
<1>3. TimersTyped' /\ KeepsMade
  BY <1>1, <1>2, FlagStep DEF TypeInv
<1>4. QueueTyped'
  BY <1>0, <1>3, DequeueTypes
<1>5. CallbackTyped'
  BY <1>0, <1>1, <1>3 DEF CallbackTyped, KeepsMade
<1>6. ClockTyped'
  BY DEF TypeInv, ClockTyped, Fire
<1> QED BY <1>3, <1>4, <1>5, <1>6, TypeFrame DEF TypeInv, Fire

LEMMA FireReturnsTypes == ASSUME TypeInv, FireReturns PROVE TypeInv'
<1>. PICK t : t = callback
  OBVIOUS
<1>1. t \in Timers /\ Made(t)
  BY DEF FireReturns, TypeInv, CallbackTyped, Made
<1>2. timer' = [timer EXCEPT ![t].firing = FALSE]
  BY DEF FireReturns
<1>3. TimersTyped' /\ KeepsMade
  BY <1>1, <1>2, FlagStep DEF TypeInv
<1>. PICK delay \in Nat : delay = timer[t].delay
  BY <1>1 DEF TypeInv, TimersTyped, TimerType
<1>4. \/ owner' = [owner EXCEPT !.op = "load", !.timer = t, !.delay = delay, !.then = "add"]
      \/ owner' = owner
  BY DEF FireReturns
<1>5. OwnerTyped'
  <2>1. CASE owner' = owner
    BY <1>3, <2>1 DEF TypeInv, OwnerTyped, KeepsMade, FireReturns
  <2>2. CASE owner' = [owner EXCEPT !.op = "load", !.timer = t, !.delay = delay, !.then = "add"]
    <3>1. owner' \in OwnerType /\ owner'.op = "load" /\ owner'.timer = t
      BY <1>1, <2>2 DEF TypeInv, OwnerTyped, OwnerType
    <3> QED BY <1>1, <1>3, <3>1 DEF TypeInv, OwnerTyped, KeepsMade, FireReturns
  <2> QED BY <1>4, <2>1, <2>2
<1>6. CallbackTyped'
  BY DEF CallbackTyped, FireReturns
<1> QED BY <1>3, <1>5, <1>6, TypeFrame DEF TypeInv, FireReturns, sharedVars

LEMMA InitCommonTypes ==
    ASSUME TypeInv, NEW t \in Timers, NEW type \in Types, NEW delay \in Delays,
           InitCommon(t, type, delay)
    PROVE  TypeInv'
<1>1. KeepsMade /\ TimersTyped'
  BY MadeFrame DEF InitCommon, TypeInv, TimersTyped
<1>2. delay \in Nat
  BY TimerAssumption DEF TimerAssumption
<1>3. owner \in OwnerType
  BY DEF TypeInv, OwnerTyped
<1>. PICK op \in {"remove", "clear"} :
       owner' = [owner EXCEPT !.op = op, !.timer = t, !.type = type, !.delay = delay]
  BY DEF InitCommon
<1>4. owner' \in OwnerType /\ owner'.op = op /\ owner'.timer = t
  BY <1>2, <1>3 DEF OwnerType
<1>5. OwnerTyped'
  BY <1>4 DEF OwnerTyped, InitCommon, TypeInv
<1> QED BY <1>1, <1>5, TypeFrame DEF TypeInv, InitCommon, sharedVars

\* RemoveTimer changes no type.
LEMMA RemoveTypes ==
    ASSUME TypeInv, NEW t \in Timers, RemoveTimer(t)
    PROVE  TimersTyped' /\ KeepsMade /\ ListTyped' /\ ThreadTyped'
<1>1. /\ mTimers' \in Seq(Timers)
      /\ \A x : Contains(mTimers', x) => Contains(mTimers, x)
      /\ timer' = IF Contains(mTimers, t) THEN [timer EXCEPT ![t].armed = FALSE] ELSE timer
      /\ thread' \in {thread, Notified}
  BY RemoveEffect DEF TypeInv, ListTyped
<1>2. TimersTyped' /\ KeepsMade
  <2>1. CASE Contains(mTimers, t)
    BY <1>1, <2>1, ArmStep DEF TypeInv
  <2>2. CASE ~ Contains(mTimers, t)
    BY <1>1, <2>2, MadeFrame DEF TypeInv, TimersTyped
  <2> QED BY <2>1, <2>2
<1>3. ListTyped'
  BY <1>1, <1>2 DEF TypeInv, ListTyped, KeepsMade
<1> QED BY <1>1, <1>2, <1>3, NotifiedTyped

LEMMA AddToTypes ==
    ASSUME TypeInv, NEW list \in Seq(Timers), NEW t \in Timers, AddTo(list, t), Made(t),
           \A x : Contains(list, x) => Contains(mTimers, x)
    PROVE  TimersTyped' /\ KeepsMade /\ ListTyped' /\ ThreadTyped'
<1>1. /\ mTimers' \in Seq(Timers)
      /\ \A x : Contains(mTimers', x) <=> x = t \/ Contains(list, x)
      /\ timer' = [timer EXCEPT ![t].armed = TRUE]
      /\ thread' \in {thread, Notified}
  BY AddToEffect
<1>2. TimersTyped' /\ KeepsMade
  BY <1>1, ArmStep DEF TypeInv
<1>3. ListTyped'
  BY <1>1, <1>2 DEF TypeInv, ListTyped, KeepsMade
<1> QED BY <1>1, <1>2, <1>3, NotifiedTyped

\* The owner's call is over.
LEMMA DoneFacts ==
    ASSUME owner \in OwnerType
    PROVE  /\ [IdleOwner EXCEPT !.wake = owner.wake] \in OwnerType
           /\ [IdleOwner EXCEPT !.wake = owner.wake].op = "none"
           /\ [IdleOwner EXCEPT !.wake = owner.wake].wake = owner.wake
           /\ [IdleOwner EXCEPT !.wake = owner.wake].then = "none"
           /\ IdleOwner \in OwnerType /\ IdleOwner.op = "none" /\ IdleOwner.wake = 0
           /\ IdleOwner.then = "none"
<1>1. 0 \in Times
  BY TimerAssumption DEF TimerAssumption, Times
<1>2. IdleOwner \in OwnerType /\ IdleOwner.op = "none" /\ IdleOwner.wake = 0
      /\ IdleOwner.then = "none"
  BY <1>1 DEF IdleOwner, OwnerType
<1> QED BY <1>2 DEF OwnerType

LEMMA DoneTypes ==
    ASSUME TypeInv, Done, UNCHANGED gGenerator
    PROVE  OwnerTyped'
BY DoneFacts DEF Done, OwnerTyped, TypeInv

LEMMA InitRemovesTypes == ASSUME TypeInv, InitRemoves PROVE TypeInv'
<1>. PICK t \in Timers : t = owner.timer
  BY DEF InitRemoves, TypeInv, OwnerTyped
<1>1. RemoveTimer(t)
  BY DEF InitRemoves
<1>2. TimersTyped' /\ KeepsMade /\ ListTyped' /\ ThreadTyped'
  BY <1>1, RemoveTypes
<1>3. owner' \in OwnerType /\ owner'.op = "clear" /\ owner'.timer = t
  BY DEF InitRemoves, TypeInv, OwnerTyped, OwnerType
<1>4. OwnerTyped'
  BY <1>3 DEF OwnerTyped, InitRemoves, TypeInv
<1> QED BY <1>2, <1>4, TypeFrame DEF TypeInv, InitRemoves

LEMMA InitClearsTypes == ASSUME TypeInv, InitClears PROVE TypeInv'
<1>. PICK t \in Timers : t = owner.timer
  BY DEF InitClears, TypeInv, OwnerTyped
<1>1. TimersTyped' /\ KeepsMade
  <2>1. timer' = [timer EXCEPT ![t].canceled = FALSE]
    BY DEF InitClears
  <2> QED BY <2>1, FlagStep DEF TypeInv
<1>2. owner' \in OwnerType /\ owner'.op = "generation"
  BY DEF InitClears, TypeInv, OwnerTyped, OwnerType
<1>3. owner'.timer = t
  BY DEF InitClears, TypeInv, OwnerTyped, OwnerType
<1>4. OwnerTyped'
  BY <1>2, <1>3 DEF OwnerTyped, InitClears, TypeInv
<1> QED BY <1>1, <1>4, TypeFrame DEF TypeInv, InitClears, sharedVars

LEMMA InitRenewsTypes == ASSUME TypeInv, InitRenews PROVE TypeInv'
<1>. PICK t \in Timers : t = owner.timer
  BY DEF InitRenews, TypeInv, OwnerTyped
<1>1. gGenerator' \in 0 .. MaxInits /\ gGenerator' # 0
  BY TimerAssumption DEF InitRenews, TypeInv, OwnerTyped, TimerAssumption
<1>2. timer' = [timer EXCEPT ![t].generation = gGenerator']
  BY DEF InitRenews
<1>3. TimersTyped' /\ KeepsMade /\ Made(t)'
  <2>. PICK g \in 0 .. MaxInits : g = gGenerator' /\ g # 0
    BY <1>1
  <2>1. \A x \in Timers : timer[x] \in TimerType
    BY DEF TypeInv, TimersTyped
  <2> QED BY <1>2, <2>1 DEF TypeInv, TimersTyped, TimerType, KeepsMade, Made
<1>4. owner' \in OwnerType /\ owner'.op = "type" /\ owner'.timer = t
  BY DEF InitRenews, TypeInv, OwnerTyped, OwnerType
<1>5. OwnerTyped'
  BY <1>1, <1>3, <1>4 DEF OwnerTyped
<1> QED BY <1>3, <1>5, TypeFrame DEF TypeInv, InitRenews, sharedVars

LEMMA InitRetypesTypes == ASSUME TypeInv, InitRetypes PROVE TypeInv'
<1>. PICK t \in Timers : t = owner.timer
  BY DEF InitRetypes, TypeInv, OwnerTyped
<1>. PICK type \in Types \cup {"ONE_SHOT"} : type = owner.type
  BY DEF TypeInv, OwnerTyped, OwnerType
<1>1. timer' = [timer EXCEPT ![t].type = type]
  BY DEF InitRetypes
<1>2. TimersTyped' /\ KeepsMade
  BY <1>1 DEF TypeInv, TimersTyped, TimerType, KeepsMade, Made
<1>3. owner' \in OwnerType /\ owner'.op = "load" /\ owner'.timer = t
  BY DEF InitRetypes, TypeInv, OwnerTyped, OwnerType
<1>4. Made(t)'
  BY <1>2 DEF KeepsMade, InitRetypes, TypeInv, OwnerTyped
<1>5. OwnerTyped'
  BY <1>3, <1>4 DEF OwnerTyped, InitRetypes, TypeInv
<1> QED BY <1>2, <1>5, TypeFrame DEF TypeInv, InitRetypes, sharedVars

LEMMA SetDelayLoadsTypes == ASSUME TypeInv, SetDelayLoads PROVE TypeInv'
<1>1. KeepsMade /\ TimersTyped'
  BY MadeFrame DEF SetDelayLoads, TypeInv, TimersTyped
<1>. PICK base \in Times : base = DelayBase(owner.timer)
  BY BaseRange DEF SetDelayLoads, TypeInv, OwnerTyped
<1>2. owner' = [owner EXCEPT !.op = "store", !.base = base] /\ owner.op = "load"
  BY DEF SetDelayLoads
<1>3. owner' \in OwnerType /\ owner'.op = "store" /\ owner'.timer = owner.timer
  BY <1>2 DEF TypeInv, OwnerTyped, OwnerType
<1>4. OwnerTyped'
  BY <1>1, <1>2, <1>3 DEF OwnerTyped, TypeInv, KeepsMade, SetDelayLoads
<1> QED BY <1>1, <1>4, TypeFrame DEF TypeInv, SetDelayLoads, sharedVars

LEMMA SetDelayStoresTypes == ASSUME TypeInv, SetDelayStores PROVE TypeInv'
<1>0. owner \in OwnerType /\ owner.op = "store" /\ Made(owner.timer)
  BY DEF SetDelayStores, TypeInv, OwnerTyped
<1>. PICK t \in Timers : t = owner.timer
  BY <1>0 DEF Made
<1>. PICK base \in Times, delay \in Nat : base = owner.base /\ delay = owner.delay
  BY <1>0 DEF OwnerType
<1>1. timer' = [timer EXCEPT ![t] = Delayed(@, base, delay)]
  BY DEF SetDelayStores
<1>2. TimersTyped' /\ KeepsMade
  BY <1>1, DelayStep
<1>3. OwnerTyped'
  <2>1. CASE owner.then = "none"
    BY <2>1, DoneTypes DEF SetDelayStores, Done
  <2>2. CASE owner.then # "none"
    <3>. PICK op \in {"add", "changed"} : op = owner.then
      BY <1>0, <2>2 DEF OwnerType
    <3>1. owner' = [owner EXCEPT !.op = op, !.base = 0, !.delay = 0]
      BY <2>2 DEF SetDelayStores
    <3>2. 0 \in Times
      BY TimerAssumption DEF TimerAssumption, Times
    <3>3. owner' \in OwnerType /\ owner'.op = op /\ owner'.timer = t /\ owner'.then = op
      BY <1>0, <3>1, <3>2 DEF OwnerType
    <3> QED BY <1>0, <1>2, <3>3 DEF OwnerTyped, TypeInv, KeepsMade, SetDelayStores
  <2> QED BY <2>1, <2>2
<1> QED BY <1>2, <1>3, TypeFrame DEF TypeInv, SetDelayStores, sharedVars

LEMMA AddTimerTypes == ASSUME TypeInv, AddTimer PROVE TypeInv'
<1>. PICK t \in Timers : t = owner.timer
  BY DEF AddTimer, TypeInv, OwnerTyped
<1>1. AddTo(mTimers, t) /\ Made(t) /\ mTimers \in Seq(Timers)
  BY DEF AddTimer, TypeInv, OwnerTyped, ListTyped
<1>2. TimersTyped' /\ KeepsMade /\ ListTyped' /\ ThreadTyped'
  BY <1>1, AddToTypes
<1>3. OwnerTyped'
  BY DoneTypes DEF AddTimer
<1> QED BY <1>2, <1>3, TypeFrame DEF TypeInv, AddTimer

LEMMA TimerDelayChangedTypes == ASSUME TypeInv, TimerDelayChanged PROVE TypeInv'
<1>. PICK t \in Timers : t = owner.timer
  BY DEF TimerDelayChanged, TypeInv, OwnerTyped
<1>. PICK list : list = RemoveFirst(mTimers, t)
  OBVIOUS
<1>1. AddTo(list, t) /\ Made(t) /\ mTimers \in Seq(Timers)
  BY DEF TimerDelayChanged, TypeInv, OwnerTyped, ListTyped
<1>2. list \in Seq(Timers) /\ \A x : Contains(list, x) => Contains(mTimers, x)
  BY <1>1, RemoveContains
<1>3. TimersTyped' /\ KeepsMade /\ ListTyped' /\ ThreadTyped'
  BY <1>1, <1>2, AddToTypes
<1>4. OwnerTyped'
  BY DoneTypes DEF TimerDelayChanged
<1> QED BY <1>3, <1>4, TypeFrame DEF TypeInv, TimerDelayChanged

LEMMA BeginSetDelayTypes ==
    ASSUME TypeInv, NEW t \in Timers, NEW delay \in Nat, NEW wake \in Nat,
           BeginSetDelay(t, delay, wake), Made(t), UNCHANGED gGenerator
    PROVE  TimersTyped' /\ KeepsMade /\ OwnerTyped'
<1>1. timer' = [timer EXCEPT ![t].timeout = now] \/ timer' = timer
  BY DEF BeginSetDelay
<1>2. TimersTyped' /\ KeepsMade
  BY <1>1 DEF TypeInv, ClockTyped, TimersTyped, TimerType, KeepsMade, Made
<1>. PICK then \in {"none", "changed"} :
       owner' = [owner EXCEPT !.op = "load", !.timer = t, !.delay = delay, !.wake = wake,
                              !.then = then]
  BY DEF BeginSetDelay
<1>3. owner' \in OwnerType /\ owner'.op = "load" /\ owner'.timer = t
  BY DEF TypeInv, OwnerTyped, OwnerType
<1> QED BY <1>2, <1>3 DEF OwnerTyped, TypeInv, KeepsMade

LEMMA SetDelayTypes ==
    ASSUME TypeInv, NEW t \in Timers, NEW delay \in Delays, SetDelay(t, delay)
    PROVE  TypeInv'
<1>1. delay \in Nat /\ Made(t) /\ BeginSetDelay(t, delay, 0)
  BY TimerAssumption DEF TimerAssumption, SetDelay, Made
<1>2. TimersTyped' /\ KeepsMade /\ OwnerTyped'
  BY <1>1, BeginSetDelayTypes DEF SetDelay
<1> QED BY <1>2, TypeFrame DEF TypeInv, SetDelay, sharedVars

LEMMA WakeTurnTypes == ASSUME TypeInv, WakeTurn PROVE TypeInv'
<1>1. owner.wake \in DOMAIN mTimers /\ mTimers \in Seq(Timers)
  BY DEF WakeTurn, TypeInv, ListTyped
<1>. PICK t \in Timers : t = mTimers[owner.wake]
  BY <1>1
<1>2. Contains(mTimers, t)
  BY <1>1 DEF Contains
<1>. PICK delay \in Nat : delay = timer[t].delay
  BY DEF TypeInv, TimersTyped, TimerType
<1>3. Made(t) /\ BeginSetDelay(t, delay, owner.wake + 1) /\ owner.wake + 1 \in Nat
  BY <1>2 DEF WakeTurn, TypeInv, ListTyped, OwnerTyped, OwnerType
<1>4. TimersTyped' /\ KeepsMade /\ OwnerTyped'
  BY <1>3, BeginSetDelayTypes DEF WakeTurn
<1> QED BY <1>4, TypeFrame DEF TypeInv, WakeTurn, sharedVars

LEMMA SetTypeTypes ==
    ASSUME TypeInv, NEW t \in Timers, NEW type \in Types, SetType(t, type)
    PROVE  TypeInv'
<1>1. timer' = [timer EXCEPT ![t].type = type]
  BY DEF SetType
<1>2. TimersTyped' /\ KeepsMade
  BY <1>1 DEF TypeInv, TimersTyped, TimerType, KeepsMade, Made
<1> QED BY <1>2, TypeFrame DEF TypeInv, SetType, sharedVars, ownerVars

LEMMA CancelTypes == ASSUME TypeInv, NEW t \in Timers, Cancel(t) PROVE TypeInv'
<1>1. timer' = [timer EXCEPT ![t].canceled = TRUE]
  BY DEF Cancel
<1>2. TimersTyped' /\ KeepsMade /\ Made(t)'
  <2>1. TimersTyped' /\ KeepsMade
    BY <1>1, FlagStep DEF TypeInv
  <2> QED BY <2>1 DEF KeepsMade, Made, Cancel
<1>3. owner' \in OwnerType /\ owner'.op = "cancel" /\ owner'.timer = t
  BY DEF Cancel, TypeInv, OwnerTyped, OwnerType
<1>4. OwnerTyped'
  BY <1>2, <1>3 DEF OwnerTyped, TypeInv, Cancel
<1> QED BY <1>2, <1>4, TypeFrame DEF TypeInv, Cancel, sharedVars

LEMMA CancelRemovesTypes == ASSUME TypeInv, CancelRemoves PROVE TypeInv'
<1>. PICK t \in Timers : t = owner.timer
  BY DEF CancelRemoves, TypeInv, OwnerTyped
<1>1. RemoveTimer(t)
  BY DEF CancelRemoves
<1>2. TimersTyped' /\ KeepsMade /\ ListTyped' /\ ThreadTyped'
  BY <1>1, RemoveTypes
<1>3. OwnerTyped'
  BY DoneTypes DEF CancelRemoves
<1> QED BY <1>2, <1>3, TypeFrame DEF TypeInv, CancelRemoves

LEMMA SleepTypes ==
    ASSUME TypeInv, DoBeforeSleep \/ DoAfterSleep \/ WakeDone
    PROVE  TypeInv'
<1>1. KeepsMade /\ TimersTyped'
  BY MadeFrame DEF DoBeforeSleep, DoAfterSleep, WakeDone, TypeInv, TimersTyped
<1>2. ClockTyped'
  <2>1. UNCHANGED <<now, late, mShutdown, gThread>> /\ mSleeping' \in {TRUE, FALSE}
    BY DEF DoBeforeSleep, DoAfterSleep, WakeDone, ownerVars
  <2>2. mTimeoutAdjustment' \in {mTimeoutAdjustment, 0}
    BY DEF DoBeforeSleep, DoAfterSleep, WakeDone
  <2>3. mTimeoutAdjustment' \in Adjustments
    BY <2>2, TimerAssumption DEF TypeInv, ClockTyped, TimerAssumption
  <2> QED BY <2>1, <2>3 DEF TypeInv, ClockTyped
<1>3. OwnerTyped'
  <2>1. CASE DoBeforeSleep
    BY <1>1, <2>1, TypeFrame DEF DoBeforeSleep, ownerVars
  <2>2. CASE DoAfterSleep
    <3>1. owner' \in OwnerType /\ owner'.op = "none"
      BY <2>2 DEF DoAfterSleep, Idle, TypeInv, OwnerTyped, OwnerType
    <3> QED BY <2>2, <3>1 DEF OwnerTyped, TypeInv, DoAfterSleep
  <2>3. CASE WakeDone
    BY <2>3, DoneFacts DEF WakeDone, OwnerTyped, TypeInv
  <2> QED BY <2>1, <2>2, <2>3
<1> QED BY <1>1, <1>2, <1>3, TypeFrame
        DEF TypeInv, DoBeforeSleep, DoAfterSleep, WakeDone, ownerVars

LEMMA ShutdownTypes == ASSUME TypeInv, Shutdown PROVE TypeInv'
<1>1. timer' = [t \in Timers |-> [timer[t] EXCEPT !.armed = @ /\ ~ Listed(t)]]
  BY DEF Shutdown
<1>2. ASSUME NEW t \in Timers
      PROVE  timer'[t] \in TimerType /\ timer'[t].generation = timer[t].generation
  <2>. PICK tm \in TimerType : tm = timer[t]
    BY DEF TypeInv, TimersTyped
  <2>. PICK b \in BOOLEAN : b = (tm.armed /\ ~ Listed(t))
    OBVIOUS
  <2>1. timer'[t] = [tm EXCEPT !.armed = b]
    BY <1>1
  <2> QED BY <2>1 DEF TimerType
<1>3. DOMAIN timer' = Timers /\ timer' = [t \in Timers |-> timer'[t]]
  BY <1>1
<1>4. TimersTyped' /\ KeepsMade
  BY <1>2, <1>3 DEF TimersTyped, KeepsMade, Made
<1>5. ListTyped'
  BY DEF Shutdown, ListTyped, Contains
<1>6. ThreadTyped'
  BY <1>4, NotifiedTyped DEF Shutdown
<1>7. ClockTyped'
  <2>1. UNCHANGED <<now, late, mTimeoutAdjustment, mSleeping, gThread>> /\ mShutdown' = TRUE
    BY DEF Shutdown, ownerVars
  <2> QED BY <2>1 DEF TypeInv, ClockTyped
<1> QED BY <1>4, <1>5, <1>6, <1>7, TypeFrame DEF TypeInv, Shutdown, ownerVars

LEMMA ShutdownReturnsTypes == ASSUME TypeInv, ShutdownReturns PROVE TypeInv'
<1>1. KeepsMade /\ TimersTyped'
  BY MadeFrame DEF ShutdownReturns, TypeInv, TimersTyped
<1>2. ClockTyped'
  <2>1. UNCHANGED <<now, late, mTimeoutAdjustment, mSleeping, mShutdown>> /\ gThread' = FALSE
    BY DEF ShutdownReturns, sharedVars
  <2> QED BY <2>1 DEF TypeInv, ClockTyped
<1> QED BY <1>1, <1>2, TypeFrame DEF TypeInv, ShutdownReturns, sharedVars

LEMMA TickTypes == ASSUME TypeInv, Tick PROVE TypeInv'
<1>1. KeepsMade /\ TimersTyped'
  BY MadeFrame DEF Tick, TypeInv, TimersTyped
<1>2. now' \in Times
  <2>1. Domain \in Nat \ {0} /\ now \in 0 .. Domain - 1
    BY TimerAssumption DEF TypeInv, ClockTyped, Times, TimerAssumption
  <2>. PICK next \in Int : next = now + 1
    BY <2>1
  <2>2. now' = next % Domain
    BY DEF Tick
  <2> QED BY <2>1, <2>2, ModRange DEF Times
<1>3. late' \in 0 .. MaxLate
  BY SMTT(40), TimerAssumption DEF Tick, TypeInv, ClockTyped, TimerAssumption
<1>4. ClockTyped'
  <2>1. UNCHANGED <<mTimeoutAdjustment, mSleeping, mShutdown, gThread>>
    BY DEF Tick, sharedVars, ownerVars
  <2> QED BY <1>2, <1>3, <2>1 DEF TypeInv, ClockTyped
<1>5. ThreadTyped'
  <2>1. CASE thread' = thread
    BY <1>1, <2>1, TypeFrame
  <2>2. CASE thread.pc = "waiting" /\ thread' = [thread EXCEPT !.left = @ - 1]
             /\ thread.left \in 1 .. Domain - 1
    <3>1. thread.left - 1 \in 0 .. Forever
      BY <2>2, TimerAssumption DEF TimerAssumption, Forever
    <3>2. thread' \in ThreadType /\ thread'.pc = "waiting" /\ thread'.timer = thread.timer
      BY <2>2, <3>1 DEF TypeInv, ThreadTyped, ThreadType
    <3> QED BY <2>2, <3>2 DEF ThreadTyped, Posting, TypeInv
  <2> QED BY <2>1, <2>2 DEF Tick
<1> QED BY <1>1, <1>4, <1>5, TypeFrame DEF TypeInv, Tick, sharedVars, ownerVars

LEMMA TypeNext == ASSUME TypeInv, [Next]_vars PROVE TypeInv'
<1>1. CASE ThreadStep
  BY <1>1, RunTakesTimerTypes, RunWaitsTypes, RunRestTypes, PostReadsTypes, PostStoresTypes,
     PostAddsTypes, PostDispatchesTypes DEF ThreadStep
<1>2. CASE CallStep
  BY <1>2, InitRemovesTypes, InitClearsTypes, InitRenewsTypes, InitRetypesTypes,
     SetDelayLoadsTypes, SetDelayStoresTypes, AddTimerTypes, TimerDelayChangedTypes,
     CancelRemovesTypes, WakeTurnTypes, SleepTypes
     DEF CallStep
<1>3. CASE RunEvent \/ FireReturns \/ ShutdownReturns \/ Tick
  BY <1>3, EventIgnoredTypes, FireTypes, FireReturnsTypes, ShutdownReturnsTypes, TickTypes
     DEF RunEvent
<1>4. CASE OwnerCall
  BY <1>4, InitCommonTypes, SetDelayTypes, SetTypeTypes, CancelTypes, SleepTypes, ShutdownTypes
     DEF OwnerCall
<1>5. CASE UNCHANGED vars
  <2>1. KeepsMade /\ TimersTyped'
    BY <1>5, MadeFrame DEF vars, TypeInv, TimersTyped
  <2> QED BY <1>5, <2>1, TypeFrame DEF vars, TypeInv, sharedVars, ownerVars
<1> QED BY <1>1, <1>2, <1>3, <1>4, <1>5 DEF Next

-----------------------------------------------------------------------------
(* The wait of the timer thread.                                           *)

\* Steps that put nothing into the list and leave the thread as it is.
LEMMA StrandedFrame ==
    ASSUME NeverStranded, UNCHANGED thread, mTimers' # << >> => mTimers # << >>
    PROVE  NeverStranded'
BY DEF NeverStranded

\* A thread that is told does not wait.
LEMMA NotifiedWorks ==
    /\ Notified.pc # "waiting"
BY ThreadAtFacts DEF Notified

LEMMA StrandedNext ==
    ASSUME TypeInv, NeverStranded, [Next]_vars
    PROVE  NeverStranded'
<1>1. CASE RunWaits
  <2>1. CASE mTimers = << >>
    BY <1>1, <2>1 DEF RunWaits, sharedVars, NeverStranded
  <2>2. CASE mTimers # << >>
    <3>. PICK left : left = (timer[Head(mTimers)].timeout + mTimeoutAdjustment - now) % Domain
      OBVIOUS
    <3>1. thread' = [ThreadAt("waiting") EXCEPT !.left = left]
      BY <1>1, <2>2 DEF RunWaits
    <3>2. Head(mTimers) \in Timers
      BY <2>2 DEF TypeInv, ListTyped
    <3>3. timer[Head(mTimers)].timeout + mTimeoutAdjustment - now \in Int
      BY <3>2, TimerAssumption
         DEF TypeInv, TimersTyped, TimerType, ClockTyped, TimerAssumption, Times
    <3>4. left \in 0 .. Domain - 1
      BY <3>3, ModRange, TimerAssumption DEF TimerAssumption
    <3>5. left # Forever
      BY <3>4, TimerAssumption DEF TimerAssumption, Forever
    <3>6. thread'.left = left
      BY <3>1, ThreadAtFacts DEF ThreadType
    <3> QED BY <3>5, <3>6 DEF NeverStranded
  <2> QED BY <2>1, <2>2
<1>2. CASE RunTakesTimer \/ RunWakes \/ RunEnds \/ PostDispatches
  BY <1>2, ThreadAtFacts
     DEF RunTakesTimer, RunWakes, RunEnds, PostDispatches, NeverStranded, ThreadType
<1>3. CASE RunPolls
  <2>1. thread' = [ThreadAt("waiting") EXCEPT !.polling = TRUE, !.left = 1]
    BY <1>3 DEF RunPolls
  <2>2. thread'.left = 1
    BY <2>1, ThreadAtFacts DEF ThreadType
  <2>3. Forever # 1
    BY TimerAssumption DEF TimerAssumption, Forever
  <2> QED BY <2>2, <2>3 DEF NeverStranded
<1>4. CASE PostReadsGeneration \/ PostReadsType \/ PostStoresTimeout \/ PostAddsTimer
  <2>1. thread \in ThreadType
    BY DEF TypeInv, ThreadTyped
  <2>2. thread'.pc # "waiting"
    BY <1>4, <2>1
       DEF PostReadsGeneration, PostReadsType, PostStoresTimeout, PostAddsTimer, ThreadType
  <2> QED BY <2>2 DEF NeverStranded
<1>5. CASE InitRemoves \/ CancelRemoves
  <2>. PICK t \in Timers : t = owner.timer
    BY <1>5 DEF InitRemoves, CancelRemoves, TypeInv, OwnerTyped
  <2>1. RemoveTimer(t)
    BY <1>5 DEF InitRemoves, CancelRemoves
  <2>2. thread' \in {thread, Notified} /\ (mTimers' # << >> => mTimers # << >>)
    BY <2>1, RemoveEffect DEF TypeInv, ListTyped
  <2> QED BY <2>2, NotifiedWorks, StrandedFrame DEF NeverStranded
<1>6. CASE AddTimer \/ TimerDelayChanged
  <2>. PICK t \in Timers : t = owner.timer
    BY <1>6 DEF AddTimer, TimerDelayChanged, TypeInv, OwnerTyped
  <2>. PICK list \in {mTimers, RemoveFirst(mTimers, t)} : AddTo(list, t)
    BY <1>6 DEF AddTimer, TimerDelayChanged
  <2>1. mTimers \in Seq(Timers)
    BY DEF TypeInv, ListTyped
  <2>2. list \in Seq(Timers)
    BY <2>1, RemoveContains
  <2>3. list # << >> => mTimers # << >>
    <3>1. mTimers = << >> => RemoveFirst(mTimers, t) = << >>
      BY DEF RemoveFirst
    <3> QED BY <3>1
  <2>4. thread' \in {thread, Notified} /\ (list = << >> => thread' = Notified)
    BY <2>2, AddToEffect
  <2> QED BY <2>3, <2>4, NotifiedWorks DEF NeverStranded
<1>7. CASE Shutdown
  BY <1>7 DEF Shutdown, NeverStranded
<1>8. CASE Tick
  <2>1. thread \in ThreadType /\ mTimers' = mTimers
    BY <1>8 DEF Tick, sharedVars, TypeInv, ThreadTyped
  <2>2. CASE thread' = thread
    BY <2>1, <2>2 DEF NeverStranded
  <2>3. CASE thread' = [thread EXCEPT !.left = @ - 1] /\ thread.left \in 1 .. Domain - 1
    <3>1. thread'.left = thread.left - 1
      BY <2>1, <2>3 DEF ThreadType
    <3>2. thread'.left # Forever
      BY <2>3, <3>1, TimerAssumption DEF Forever, TimerAssumption
    <3> QED BY <3>2 DEF NeverStranded
  <2> QED BY <1>8, <2>2, <2>3 DEF Tick
<1>9. CASE InitClears \/ InitRenews \/ InitRetypes \/ SetDelayLoads \/ SetDelayStores \/ WakeTurn
           \/ WakeDone \/ RunEvent \/ FireReturns \/ ShutdownReturns
  BY <1>9, StrandedFrame
     DEF InitClears, InitRenews, InitRetypes, SetDelayLoads, SetDelayStores, WakeTurn, WakeDone,
         RunEvent, EventIgnored, Fire, FireReturns, ShutdownReturns, sharedVars
<1>10. CASE \/ \E t \in Timers, type \in Types, delay \in Delays : InitCommon(t, type, delay)
            \/ \E t \in Timers, delay \in Delays : SetDelay(t, delay)
            \/ \E t \in Timers, type \in Types : SetType(t, type)
            \/ \E t \in Timers : Cancel(t)
            \/ DoBeforeSleep \/ DoAfterSleep
  BY <1>10, StrandedFrame
     DEF InitCommon, SetDelay, SetType, Cancel, DoBeforeSleep, DoAfterSleep, sharedVars
<1>11. CASE UNCHANGED vars
  BY <1>11 DEF vars, sharedVars, NeverStranded
<1> QED BY <1>1, <1>2, <1>3, <1>4, <1>5, <1>6, <1>7, <1>8, <1>9, <1>10, <1>11
        DEF Next, ThreadStep, CallStep, OwnerCall

\* Whatever the owner calls, on however many timers and across wraps of the
\* clock, the timer thread does not wait without a timeout while a timer is
\* listed: TimerThread::Run computes the wait in the hold of mLock in which it
\* waits, and AddTimerInternal at index 0 notifies it.
THEOREM TimersNeverStranded == SafetySpec => []NeverStranded
<1>1. Init => NeverStranded
  BY DEF Init, NeverStranded
<1>2. TypeInv /\ NeverStranded /\ [Next]_vars => (TypeInv /\ NeverStranded)'
  BY TypeNext, StrandedNext
<1> QED BY <1>1, <1>2, TypeInit, PTL DEF SafetySpec

-----------------------------------------------------------------------------
(* Timers that are only initialized and canceled.                          *)

\* The application calls Init and Cancel, on any timer at any moment, but not
\* SetDelay or SetType, and the machine does not sleep.
PlainUse == ~ UseSetDelay /\ ~ UseSetType /\ ~ UseSleep

\* The owner is in an Init that has stored the generation, or in a SetDelay
\* that ends with AddTimer, or about to call it.
Adding(t) == owner.timer = t /\ owner.op \in {"type", "load", "store", "add"}
Assigning(t) == owner.timer = t /\ owner.op \in {"clear", "generation"}

\* The type that goes with the generation: between the two stores it is still
\* in the owner's hand.
Kind(t) == IF owner.op = "type" /\ owner.timer = t THEN owner.type ELSE timer[t].type
Precise(t) == Kind(t) = "REPEATING_PRECISE"
Slack(t) == Kind(t) = "REPEATING_SLACK"

\* The timers that were initialized.
Inited == {t \in Timers : timer[t].generation # 0}

\* There is no TimerDelayChanged; a timer has a type other than that of a new
\* one only since it was initialized; InitCommon was free to begin; gGenerator
\* counts every call of Init.
PlainInv ==
    /\ owner.wake = 0 /\ owner.then # "changed"
    /\ owner.op \in {"load", "store"} => owner.then = "add"
    /\ \A t \in Timers : Kind(t) # "ONE_SHOT" => Made(t)
    /\ owner.op \in {"remove", "clear", "generation"} =>
         MayInit(owner.timer, owner.type) /\ owner.delay \in Delays
    /\ IsFiniteSet(Inited) /\ Cardinality(Inited) <= gGenerator

\* What is left of Next.
PlainStep ==
    \/ ThreadStep \/ RunEvent \/ FireReturns \/ ShutdownReturns \/ Tick
    \/ InitRemoves \/ InitClears \/ InitRenews \/ InitRetypes
    \/ SetDelayLoads \/ SetDelayStores \/ AddTimer \/ CancelRemoves
    \/ \E t \in Timers, type \in Types, delay \in Delays : InitCommon(t, type, delay)
    \/ \E t \in Timers : Cancel(t)
    \/ Shutdown

LEMMA PlainNext ==
    ASSUME TypeInv, PlainInv, PlainUse, Next
    PROVE  PlainStep
<1>1. ~ TimerDelayChanged
  BY DEF TimerDelayChanged, TypeInv, OwnerTyped, PlainInv
<1>2. ~ WakeTurn
  <2>1. DOMAIN mTimers = 1 .. Len(mTimers)
    BY DEF TypeInv, ListTyped
  <2> QED BY <2>1 DEF WakeTurn, PlainInv
<1>3. ~ WakeDone
  <2>1. Len(mTimers) \in Nat
    BY DEF TypeInv, ListTyped
  <2> QED BY <2>1 DEF WakeDone, PlainInv
<1>4. ~ DoBeforeSleep /\ ~ DoAfterSleep
      /\ \A t, delay : ~ SetDelay(t, delay) /\ ~ SetType(t, delay)
  BY DEF PlainUse, DoBeforeSleep, DoAfterSleep, SetDelay, SetType
<1> QED BY <1>1, <1>2, <1>3, <1>4 DEF Next, CallStep, OwnerCall, PlainStep

\* No type and no generation is written.
KeepsFields ==
    \A t \in Timers : /\ timer'[t].type = timer[t].type
                      /\ timer'[t].generation = timer[t].generation

LEMMA FieldsWritten ==
    ASSUME TypeInv, PlainStep, ~ InitRenews, ~ InitRetypes
    PROVE  KeepsFields
<1>. USE DEF KeepsFields
<1>1. timer \in [Timers -> TimerType] /\ \A t \in Timers : timer[t] \in TimerType
  BY DEF TypeInv, TimersTyped
<1>2. CASE UNCHANGED timer
  BY <1>2
<1>3. CASE \E t \in Timers, b \in BOOLEAN : timer' = [timer EXCEPT ![t].armed = b]
  BY <1>1, <1>3 DEF TimerType
<1>4. CASE \E t \in Timers, b \in BOOLEAN : timer' = [timer EXCEPT ![t].firing = b]
  BY <1>1, <1>4 DEF TimerType
<1>5. CASE \E t \in Timers, b \in BOOLEAN : timer' = [timer EXCEPT ![t].canceled = b]
  BY <1>1, <1>5 DEF TimerType
<1>6. CASE \E t, base, delay :
             t \in Timers /\ timer' = [timer EXCEPT ![t] = Delayed(@, base, delay)]
  <2>. PICK t, base, delay :
         t \in Timers /\ timer' = [timer EXCEPT ![t] = Delayed(@, base, delay)]
    BY <1>6
  <2>1. Delayed(timer[t], base, delay).type = timer[t].type
        /\ Delayed(timer[t], base, delay).generation = timer[t].generation
    BY <1>1 DEF Delayed, TimerType
  <2>2. timer' = [timer EXCEPT ![t] = Delayed(timer[t], base, delay)]
    OBVIOUS
  <2> QED BY <1>1, <2>1, <2>2
<1>7. CASE Shutdown
  <2>1. timer' = [t \in Timers |-> [timer[t] EXCEPT !.armed = @ /\ ~ Listed(t)]]
    BY <1>7 DEF Shutdown
  <2>2. ASSUME NEW t \in Timers
        PROVE  timer'[t].type = timer[t].type /\ timer'[t].generation = timer[t].generation
    <3>. PICK tm \in TimerType : tm = timer[t]
      BY <1>1
    <3>. PICK b : b = (tm.armed /\ ~ Listed(t))
      OBVIOUS
    <3>1. timer'[t] = [tm EXCEPT !.armed = b]
      BY <2>1
    <3> QED BY <3>1 DEF TimerType
  <2> QED BY <2>2
<1>8. \/ UNCHANGED timer \/ Shutdown
      \/ \E t \in Timers, b \in BOOLEAN : timer' = [timer EXCEPT ![t].armed = b]
      \/ \E t \in Timers, b \in BOOLEAN : timer' = [timer EXCEPT ![t].firing = b]
      \/ \E t \in Timers, b \in BOOLEAN : timer' = [timer EXCEPT ![t].canceled = b]
      \/ \E t, base, delay :
           t \in Timers /\ timer' = [timer EXCEPT ![t] = Delayed(@, base, delay)]
  <2>1. CASE RunTakesTimer
    <3>1. Head(mTimers) \in Timers
      BY <2>1 DEF RunTakesTimer, FirstDue, TypeInv, ListTyped
    <3> QED BY <2>1, <3>1 DEF RunTakesTimer, Arm
  <2>2. CASE RunWaits \/ RunPolls \/ RunWakes \/ RunEnds \/ PostReadsGeneration
             \/ PostReadsType \/ PostDispatches
    BY <2>2 DEF RunWaits, RunPolls, RunWakes, RunEnds, PostReadsGeneration, PostReadsType,
                PostDispatches
  <2>3. CASE PostStoresTimeout
    <3>. PICK t, base, delay : t = thread.timer /\ base = thread.base /\ delay = timer[t].delay
      OBVIOUS
    <3>1. t \in Timers
      BY <2>3 DEF PostStoresTimeout, TypeInv, ThreadTyped, Posting, Made
    <3>2. timer' = [timer EXCEPT ![t] = Delayed(@, base, delay)]
      BY <2>3, <3>1 DEF PostStoresTimeout, TypeInv, TimersTyped
    <3> QED BY <3>1, <3>2
  <2>4. CASE PostAddsTimer
    BY <2>4, PostAddsEffect
  <2>5. CASE EventIgnored \/ ShutdownReturns \/ Tick
    BY <2>5 DEF EventIgnored, ShutdownReturns, Tick
  <2>6. CASE Fire
    <3>1. queue # << >> /\ timer' = [timer EXCEPT ![Head(queue).timer].firing = TRUE]
      BY <2>6 DEF Fire
    <3>2. Head(queue).timer \in Timers
      BY <3>1, TailEvents DEF TypeInv, QueueTyped, Made
    <3> QED BY <3>1, <3>2
  <2>7. CASE FireReturns
    <3>1. callback \in Timers
      BY <2>7 DEF FireReturns, TypeInv, CallbackTyped
    <3> QED BY <2>7, <3>1 DEF FireReturns
  <2>8. CASE InitRemoves \/ CancelRemoves
    <3>1. owner.timer \in Timers /\ RemoveTimer(owner.timer)
      BY <2>8 DEF InitRemoves, CancelRemoves, TypeInv, OwnerTyped
    <3> QED BY <3>1, RemoveEffect DEF TypeInv, ListTyped
  <2>9. CASE SetDelayLoads \/ \E t \in Timers, type \in Types, delay \in Delays :
                                InitCommon(t, type, delay)
    BY <2>9 DEF SetDelayLoads, InitCommon
  <2>10. CASE SetDelayStores
    BY <2>10 DEF SetDelayStores, TypeInv, OwnerTyped
  <2>11. CASE AddTimer
    BY <2>11 DEF AddTimer, AddTo, Arm, TypeInv, OwnerTyped
  <2>12. CASE \E t \in Timers : Cancel(t)
    BY <2>12 DEF Cancel
  <2>13. CASE Shutdown
    BY <2>13
  <2>14. CASE InitClears
    BY <2>14 DEF InitClears, TypeInv, OwnerTyped
  <2> QED BY <2>1, <2>2, <2>3, <2>4, <2>5, <2>6, <2>7, <2>8, <2>9, <2>10, <2>11, <2>12, <2>13,
             <2>14
          DEF PlainStep, ThreadStep, RunEvent
<1> QED BY <1>2, <1>3, <1>4, <1>5, <1>6, <1>7, <1>8

\* What the steps that write no generation do to the owner.
LEMMA OwnerWritten ==
    ASSUME TypeInv, PlainInv, PlainStep, ~ InitRenews
    PROVE  /\ UNCHANGED gGenerator
           /\ \/ UNCHANGED owner
              \/ /\ owner.op \in {"add", "cancel"}
                 /\ owner' = [IdleOwner EXCEPT !.wake = owner.wake]
              \/ /\ FireReturns
                 /\ owner.op = "none" /\ callback \in Timers /\ Slack(callback)
                 /\ owner' = [owner EXCEPT !.op = "load", !.timer = callback,
                                           !.delay = timer[callback].delay, !.then = "add"]
              \/ \E t \in Timers, type \in Types, delay \in Delays :
                    /\ InitCommon(t, type, delay)
                    /\ owner.op = "none"
                    /\ owner' = [owner EXCEPT !.op = IF timer[t].armed THEN "remove"
                                                     ELSE "clear",
                                              !.timer = t, !.type = type, !.delay = delay]
              \/ InitRemoves /\ owner.op = "remove" /\ owner' = [owner EXCEPT !.op = "clear"]
              \/ InitClears /\ owner.op = "clear" /\ owner' = [owner EXCEPT !.op = "generation"]
              \/ /\ InitRetypes /\ owner.op = "type"
                 /\ owner' = [owner EXCEPT !.op = "load", !.then = "add", !.type = "ONE_SHOT"]
              \/ /\ SetDelayLoads /\ owner.op = "load" /\ owner.timer \in Timers
                 /\ owner' = [owner EXCEPT !.op = "store", !.base = DelayBase(owner.timer)]
              \/ /\ SetDelayStores /\ owner.op = "store"
                 /\ owner' = [owner EXCEPT !.op = "add", !.base = 0, !.delay = 0]
              \/ \E t \in Timers :
                    owner.op = "none" /\ owner' = [owner EXCEPT !.op = "cancel", !.timer = t]
<1>1. CASE ThreadStep \/ EventIgnored \/ Fire \/ ShutdownReturns \/ Tick \/ Shutdown
  BY <1>1
     DEF ThreadStep, RunTakesTimer, RunWaits, RunPolls, RunWakes, RunEnds, PostReadsGeneration,
         PostReadsType, PostStoresTimeout, PostAddsTimer, PostDispatches, EventIgnored, Fire,
         ShutdownReturns, Tick, Shutdown, ownerVars
<1>2. CASE AddTimer \/ CancelRemoves
  BY <1>2 DEF AddTimer, CancelRemoves, Done
<1>3. CASE FireReturns
  BY <1>3 DEF FireReturns, Slack, Kind, TypeInv, CallbackTyped
<1>4. CASE \E t \in Timers, type \in Types, delay \in Delays : InitCommon(t, type, delay)
  <2>. PICK t \in Timers, type \in Types, delay \in Delays : InitCommon(t, type, delay)
    BY <1>4
  <2>1. /\ UNCHANGED gGenerator /\ owner.op = "none"
        /\ owner' = [owner EXCEPT !.op = IF timer[t].armed THEN "remove" ELSE "clear",
                                  !.timer = t, !.type = type, !.delay = delay]
    BY DEF InitCommon, MayCall
  <2> QED BY <2>1
<1>5. CASE InitRemoves
  BY <1>5 DEF InitRemoves
<1>6. CASE SetDelayLoads
  BY <1>6 DEF SetDelayLoads, TypeInv, OwnerTyped
<1>7. CASE SetDelayStores
  <2>1. owner.then = "add"
    BY <1>7 DEF SetDelayStores, PlainInv
  <2> QED BY <1>7, <2>1 DEF SetDelayStores
<1>8. CASE \E t \in Timers : Cancel(t)
  BY <1>8 DEF Cancel, MayCall
<1>9. CASE InitClears
  BY <1>9 DEF InitClears
<1>10. CASE InitRetypes
  BY <1>10 DEF InitRetypes
<1> QED BY <1>1, <1>2, <1>3, <1>4, <1>5, <1>6, <1>7, <1>8, <1>9, <1>10 DEF PlainStep, RunEvent

\* The owner is between the stores of the generation and of the type.
LEMMA TypeInHand ==
    ASSUME TypeInv, PlainInv, PlainStep, ~ InitRenews
    PROVE  /\ owner'.op = "type" => UNCHANGED owner
           /\ owner.op = "type" => UNCHANGED owner \/ InitRetypes
           /\ InitRetypes => owner.op = "type" /\ owner'.op = "load" /\ owner'.timer = owner.timer
                              /\ owner'.delay = owner.delay /\ owner'.wake = owner.wake
<1>0. owner \in OwnerType
  BY DEF TypeInv, OwnerTyped
<1>1. InitRetypes => owner.op = "type" /\ owner'.op = "load" /\ owner'.timer = owner.timer
                     /\ owner'.delay = owner.delay /\ owner'.wake = owner.wake
  BY <1>0 DEF InitRetypes, OwnerType
<1>2. CASE UNCHANGED owner
  BY <1>1, <1>2
<1>3. CASE owner.op \in {"add", "cancel"} /\ owner' = [IdleOwner EXCEPT !.wake = owner.wake]
  BY <1>0, <1>1, <1>3, DoneFacts
<1>4. CASE owner.op = "none" /\ owner'.op \in {"load", "remove", "clear", "cancel"}
  BY <1>1, <1>4
<1>5. CASE owner.op \in {"remove", "clear", "load", "store"} /\ owner'.op # "type"
  BY <1>1, <1>5
<1>6. CASE InitRetypes
  BY <1>1, <1>6
<1>7. \/ UNCHANGED owner
      \/ owner.op \in {"add", "cancel"} /\ owner' = [IdleOwner EXCEPT !.wake = owner.wake]
      \/ owner.op = "none" /\ owner'.op \in {"load", "remove", "clear", "cancel"}
      \/ owner.op \in {"remove", "clear", "load", "store"} /\ owner'.op # "type"
      \/ InitRetypes
  BY <1>0, OwnerWritten DEF OwnerType
<1> QED BY <1>1, <1>2, <1>3, <1>4, <1>5, <1>6, <1>7

\* No generation, and no type that goes with one, is written.
KeepsTypes ==
    \A t \in Timers : Kind(t)' = Kind(t) /\ timer'[t].generation = timer[t].generation

LEMMA TypesWritten ==
    ASSUME TypeInv, PlainInv, PlainStep, ~ InitRenews
    PROVE  KeepsTypes
<1>1. CASE InitRetypes
  <2>. PICK t \in Timers : t = owner.timer
    BY <1>1 DEF InitRetypes, TypeInv, OwnerTyped
  <2>. PICK type : type = owner.type
    OBVIOUS
  <2>1. timer' = [timer EXCEPT ![t].type = type] /\ owner.op = "type" /\ owner'.op = "load"
    BY <1>1, TypeInHand DEF InitRetypes
  <2>2. timer \in [Timers -> TimerType] /\ \A x \in Timers : timer[x] \in TimerType
    BY DEF TypeInv, TimersTyped
  <2>3. \A x \in Timers : /\ timer'[x].generation = timer[x].generation
                          /\ timer'[x].type = IF x = t THEN type ELSE timer[x].type
    BY <2>1, <2>2 DEF TimerType
  <2> QED BY <2>1, <2>3 DEF KeepsTypes, Kind
<1>2. CASE ~ InitRetypes
  <2>1. KeepsFields
    BY <1>2, FieldsWritten
  <2>2. (owner'.op = "type" => UNCHANGED owner) /\ (owner.op = "type" => UNCHANGED owner)
    BY <1>2, TypeInHand
  <2> QED BY <2>1, <2>2 DEF KeepsFields, KeepsTypes, Kind
<1> QED BY <1>1, <1>2

LEMMA PlainInit == Init => PlainInv
<1> SUFFICES ASSUME Init PROVE PlainInv
  OBVIOUS
<1>1. Inited = {}
  BY DEF Init, Inited, NewTimer
<1>2. owner.wake = 0 /\ owner.then = "none" /\ owner.op = "none"
  BY DEF Init, IdleOwner
<1>3. \A t \in Timers : Kind(t) = "ONE_SHOT"
  BY <1>2 DEF Init, NewTimer, Kind
<1>4. gGenerator = 0 /\ IsFiniteSet(Inited) /\ Cardinality(Inited) = 0
  BY <1>1, FS_EmptySet DEF Init
<1> QED BY <1>2, <1>3, <1>4 DEF PlainInv

\* InitRenews, field by field.
LEMMA RenewEffect ==
    ASSUME TypeInv, InitRenews, NEW t \in Timers, t = owner.timer
    PROVE  /\ owner.op = "generation"
           /\ gGenerator' = gGenerator + 1
           /\ Kind(t)' = owner.type /\ Kind(t) = timer[t].type
           /\ timer'[t].generation = gGenerator + 1
           /\ timer'[t].type = timer[t].type /\ timer'[t].delay = timer[t].delay
           /\ timer'[t].timeout = timer[t].timeout /\ timer'[t].armed = timer[t].armed
           /\ \A x \in Timers \ {t} : timer'[x] = timer[x] /\ Kind(x)' = Kind(x)
           /\ owner'.op = "type" /\ owner'.then = owner.then /\ owner'.timer = t
           /\ owner'.delay = owner.delay /\ owner'.wake = owner.wake
<1>. PICK g \in Nat : g = gGenerator' /\ g = gGenerator + 1
  BY DEF InitRenews, TypeInv, OwnerTyped
<1>. PICK tm \in TimerType : tm = timer[t]
  BY DEF TypeInv, TimersTyped
<1>. PICK r : r = [tm EXCEPT !.generation = g]
  OBVIOUS
<1>1. r.type = tm.type /\ r.generation = g /\ r.timeout = tm.timeout /\ r.armed = tm.armed
      /\ r.delay = tm.delay
  BY DEF TimerType
<1>2. timer' = [timer EXCEPT ![t] = r]
  BY DEF InitRenews, TypeInv, TimersTyped
<1>3. timer'[t] = r /\ \A x \in Timers \ {t} : timer'[x] = timer[x]
  BY <1>2 DEF TypeInv, TimersTyped
<1>4. owner \in OwnerType /\ owner.op = "generation" /\ owner' = [owner EXCEPT !.op = "type"]
  BY DEF InitRenews, TypeInv, OwnerTyped
<1>5. owner'.op = "type" /\ owner'.then = owner.then /\ owner'.timer = t
      /\ owner'.delay = owner.delay /\ owner'.wake = owner.wake /\ owner'.type = owner.type
  BY <1>4 DEF OwnerType
<1>6. Kind(t)' = owner.type /\ Kind(t) = timer[t].type
      /\ \A x \in Timers \ {t} : Kind(x)' = Kind(x)
  BY <1>3, <1>4, <1>5 DEF Kind
<1> QED BY <1>1, <1>3, <1>4, <1>5, <1>6

\* A timer that is initialized again leaves gGenerator ahead of the timers for
\* good.
LEMMA InitedStep ==
    ASSUME TypeInv, PlainInv, InitRenews
    PROVE  /\ IsFiniteSet(Inited)' /\ (Cardinality(Inited) <= gGenerator)'
           /\ NoReinit' => NoReinit /\ ~ Made(owner.timer)
<1>. PICK t \in Timers : t = owner.timer
  BY DEF InitRenews, TypeInv, OwnerTyped
<1>1. gGenerator' = gGenerator + 1 /\ gGenerator \in Nat
      /\ timer'[t].generation = gGenerator + 1 /\ \A x \in Timers \ {t} : timer'[x] = timer[x]
  BY RenewEffect DEF TypeInv, OwnerTyped
<1>2. Inited' = Inited \cup {t}
  BY <1>1 DEF Inited
<1>3. IsFiniteSet(Inited) /\ Cardinality(Inited) \in Nat /\ Cardinality(Inited) <= gGenerator
  BY FS_CardinalityType DEF PlainInv
<1>4. IsFiniteSet(Inited \cup {t})
      /\ Cardinality(Inited \cup {t}) = IF t \in Inited THEN Cardinality(Inited)
                                        ELSE Cardinality(Inited) + 1
  BY <1>3, FS_AddElement
<1>5. /\ NoReinit <=> gGenerator = Cardinality(Inited)
      /\ NoReinit' <=> gGenerator' = Cardinality(Inited')
  BY DEF NoReinit, Inited
<1>6. Made(t) <=> t \in Inited
  BY DEF Made, Inited
<1> QED BY <1>1, <1>2, <1>3, <1>4, <1>5, <1>6

\* What KeepsTypes keeps.
LEMMA KeepsMore ==
    ASSUME KeepsTypes
    PROVE  /\ Inited' = Inited
           /\ \A t : Made(t)' <=> Made(t)
           /\ \A t \in Timers : (Precise(t)' <=> Precise(t)) /\ (Slack(t)' <=> Slack(t))
           /\ UNCHANGED gGenerator => (NoReinit' <=> NoReinit)
           /\ owner.op # "type" /\ owner'.op # "type" =>
                \A t \in Timers : \A type : MayInit(t, type)' <=> MayInit(t, type)
<1>1. Inited' = Inited
  BY DEF KeepsTypes, Inited
<1>2. UNCHANGED gGenerator => (NoReinit' <=> NoReinit)
  BY <1>1 DEF NoReinit, Inited
<1>3. \A t : Made(t)' <=> Made(t)
  BY DEF KeepsTypes, Made
<1>4. \A t \in Timers : (Precise(t)' <=> Precise(t)) /\ (Slack(t)' <=> Slack(t))
  BY DEF KeepsTypes, Precise, Slack
<1>5. owner.op # "type" /\ owner'.op # "type" =>
        \A t \in Timers : \A type : MayInit(t, type)' <=> MayInit(t, type)
  BY DEF KeepsTypes, MayInit, Kind
<1> QED BY <1>1, <1>2, <1>3, <1>4, <1>5

LEMMA PlainInvNext ==
    ASSUME TypeInv, PlainInv, PlainStep \/ UNCHANGED vars
    PROVE  PlainInv'
<1>0. owner \in OwnerType
  BY DEF TypeInv, OwnerTyped
<1>1. CASE InitRenews
  <2>. PICK t \in Timers : t = owner.timer
    BY <1>1 DEF InitRenews, TypeInv, OwnerTyped
  <2>1. /\ owner'.op = "type" /\ owner'.then # "changed" /\ owner'.wake = 0
        /\ timer'[t].generation # 0
        /\ \A x \in Timers \ {t} : timer'[x] = timer[x] /\ Kind(x)' = Kind(x)
    BY <1>1, RenewEffect DEF PlainInv, TypeInv, OwnerTyped
  <2>2. \A x \in Timers : Kind(x)' # "ONE_SHOT" => Made(x)'
    BY <2>1 DEF PlainInv, Made
  <2> QED BY <1>1, <2>1, <2>2, InitedStep DEF PlainInv
<1>2. CASE PlainStep /\ ~ InitRenews
  <2>1. KeepsTypes /\ UNCHANGED gGenerator
    BY <1>2, TypesWritten, OwnerWritten
  <2>2. \A t \in Timers : Kind(t)' # "ONE_SHOT" => Made(t)'
    BY <2>1, KeepsMore DEF PlainInv, KeepsTypes
  <2>3. (IsFiniteSet(Inited) /\ Cardinality(Inited) <= gGenerator)'
    BY <2>1, KeepsMore DEF PlainInv
  <2>4. /\ owner'.wake = 0 /\ owner'.then # "changed"
        /\ owner'.op \in {"load", "store"} => owner'.then = "add"
        /\ owner'.op \in {"remove", "clear", "generation"} =>
             MayInit(owner.timer, owner.type)' /\ owner'.delay \in Delays
    <3>1. CASE UNCHANGED owner
      BY <2>1, <3>1, KeepsMore DEF PlainInv, TypeInv, OwnerTyped
    <3>2. CASE owner' = [IdleOwner EXCEPT !.wake = owner.wake]
      BY <1>0, <3>2, DoneFacts DEF PlainInv
    <3>3. CASE owner' = [owner EXCEPT !.op = "load", !.timer = callback,
                                      !.delay = timer[callback].delay, !.then = "add"]
      BY <1>0, <3>3 DEF PlainInv, OwnerType
    <3>4. CASE \E t \in Timers, type \in Types, delay \in Delays :
                  /\ InitCommon(t, type, delay)
                  /\ owner.op = "none"
                  /\ owner' = [owner EXCEPT !.op = IF timer[t].armed THEN "remove"
                                                   ELSE "clear",
                                            !.timer = t, !.type = type, !.delay = delay]
      <4>. PICK t \in Timers, type \in Types, delay \in Delays :
                  /\ InitCommon(t, type, delay)
                  /\ owner' = [owner EXCEPT !.op = IF timer[t].armed THEN "remove"
                                                   ELSE "clear",
                                            !.timer = t, !.type = type, !.delay = delay]
        BY <3>4
      <4>2. owner'.timer = t /\ owner'.type = type /\ owner'.delay = delay
            /\ owner'.wake = owner.wake /\ owner'.then = owner.then
            /\ owner'.op \in {"remove", "clear"}
        BY <1>0 DEF OwnerType
      <4>1. MayInit(t, type)'
        BY <2>1, <4>2, KeepsMore DEF InitCommon, MayCall
      <4> QED BY <4>1, <4>2 DEF PlainInv, MayInit
    <3>5. CASE \/ owner.op = "remove" /\ owner' = [owner EXCEPT !.op = "clear"]
               \/ owner.op = "clear" /\ owner' = [owner EXCEPT !.op = "generation"]
      <4>1. owner'.timer = owner.timer /\ owner'.type = owner.type /\ owner'.delay = owner.delay
            /\ owner'.wake = owner.wake /\ owner'.then = owner.then
            /\ owner'.op \in {"clear", "generation"} /\ owner.timer \in Timers
            /\ owner.op \in {"remove", "clear"}
        BY <1>0, <3>5 DEF OwnerType, TypeInv, OwnerTyped
      <4>2. MayInit(owner.timer, owner.type)'
        BY <2>1, <4>1, KeepsMore DEF PlainInv, MayInit
      <4> QED BY <4>1, <4>2 DEF PlainInv, MayInit
    <3>6. CASE owner.op = "load"
               /\ owner' = [owner EXCEPT !.op = "store", !.base = DelayBase(owner.timer)]
      BY <1>0, <3>6 DEF PlainInv, OwnerType
    <3>7. CASE owner.op = "store" /\ owner' = [owner EXCEPT !.op = "add", !.base = 0, !.delay = 0]
      BY <1>0, <3>7 DEF PlainInv, OwnerType
    <3>8. CASE \E t \in Timers :
                 owner.op = "none" /\ owner' = [owner EXCEPT !.op = "cancel", !.timer = t]
      BY <1>0, <3>8 DEF PlainInv, OwnerType
    <3>9. CASE owner' = [owner EXCEPT !.op = "load", !.then = "add", !.type = "ONE_SHOT"]
      BY <1>0, <3>9 DEF PlainInv, OwnerType
    <3> QED BY <1>2, <3>1, <3>2, <3>3, <3>4, <3>5, <3>6, <3>7, <3>8, <3>9, OwnerWritten
  <2> QED BY <2>2, <2>3, <2>4 DEF PlainInv
<1>3. CASE UNCHANGED vars
  <2>1. KeepsTypes /\ UNCHANGED <<gGenerator, owner>>
    BY <1>3 DEF vars, ownerVars, KeepsTypes, Kind
  <2>2. \A t \in Timers : Kind(t)' # "ONE_SHOT" => Made(t)'
    BY <2>1, KeepsMore DEF PlainInv, KeepsTypes
  <2>3. (IsFiniteSet(Inited) /\ Cardinality(Inited) <= gGenerator)'
    BY <2>1, KeepsMore DEF PlainInv
  <2> QED BY <2>1, <2>2, <2>3, KeepsMore DEF PlainInv, TypeInv, OwnerTyped
<1> QED BY <1>1, <1>2, <1>3

-----------------------------------------------------------------------------
(* Where a timer is: listed, in the timer thread's hand, posted, in its     *)
(* callback, or about to be added by the owner.                            *)

\* How a step changes the list.
LEMMA ListWritten ==
    ASSUME TypeInv, PlainInv, PlainStep, NEW x \in Timers
    PROVE  /\ \/ /\ Listed(x)' <=> Listed(x)
                 /\ Single(mTimers, x) => Single(mTimers, x)'
                 /\ timer'[x].armed = timer[x].armed
              \/ /\ RunTakesTimer /\ x = Head(mTimers) /\ Listed(x)
                 /\ Single(mTimers, x) => ~ Listed(x)'
                 /\ Single(mTimers, x) => Single(mTimers, x)'
                 /\ timer'[x].armed = FALSE
              \/ /\ \/ PostAddsTimer /\ x = thread.timer
                    \/ AddTimer /\ x = owner.timer
                 /\ Listed(x)' /\ timer'[x].armed = TRUE
                 /\ ~ Listed(x) => Single(mTimers, x)'
              \/ /\ \/ InitRemoves /\ x = owner.timer
                    \/ CancelRemoves /\ x = owner.timer
                 /\ Single(mTimers, x) => ~ Listed(x)'
                 /\ Single(mTimers, x) => Single(mTimers, x)'
                 /\ Listed(x)' => Listed(x)
                 /\ timer'[x].armed = (timer[x].armed /\ ~ Listed(x))
              \/ /\ Shutdown
                 /\ ~ Listed(x)' /\ Single(mTimers, x)'
                 /\ timer'[x].armed = (timer[x].armed /\ ~ Listed(x))
<1>. USE DEF Listed
<1>1. mTimers \in Seq(Timers) /\ timer \in [Timers -> TimerType] /\ timer[x] \in TimerType
  BY DEF TypeInv, ListTyped, TimersTyped
<1>2. CASE UNCHANGED <<mTimers, timer>>
  BY <1>2
<1>3. CASE RunTakesTimer
  <2>. PICK t \in Timers : t = Head(mTimers)
    BY <1>1, <1>3 DEF RunTakesTimer, FirstDue
  <2>1. mTimers # << >> /\ mTimers' = Tail(mTimers) /\ timer' = [timer EXCEPT ![t].armed = FALSE]
    BY <1>3 DEF RunTakesTimer, FirstDue, Arm
  <2>2. x # t => timer'[x] = timer[x]
    BY <1>1, <2>1
  <2>3. timer'[t].armed = FALSE
    BY <1>1, <2>1 DEF TimerType
  <2> QED BY <1>1, <1>3, <2>1, <2>2, <2>3, TailContains
<1>4. CASE PostAddsTimer
  <2>. PICK t \in Timers : t = thread.timer
    BY <1>4, PostAddsEffect
  <2>1. timer' = [timer EXCEPT ![t].armed = TRUE]
    BY <1>4, PostAddsEffect
  <2>2. x # t => timer'[x] = timer[x]
    BY <1>1, <2>1
  <2>3. timer'[t].armed = TRUE
    BY <1>1, <2>1 DEF TimerType
  <2> QED BY <1>4, <2>2, <2>3, PostAddsEffect
<1>5. CASE AddTimer
  <2>. PICK t \in Timers : t = owner.timer
    BY <1>5 DEF AddTimer, TypeInv, OwnerTyped
  <2>0. AddTo(mTimers, t)
    BY <1>5 DEF AddTimer
  <2>1. timer' = [timer EXCEPT ![t].armed = TRUE]
    BY <1>1, <2>0, AddToEffect
  <2>2. x # t => timer'[x] = timer[x]
    BY <1>1, <2>1
  <2>3. timer'[t].armed = TRUE
    BY <1>1, <2>1 DEF TimerType
  <2>4. /\ \A y : Contains(mTimers', y) <=> y = t \/ Contains(mTimers, y)
        /\ \A y : y # t /\ Single(mTimers, y) => Single(mTimers', y)
        /\ ~ Contains(mTimers, t) => Single(mTimers', t)
    BY <1>1, <2>0, AddToEffect
  <2> QED BY <1>5, <2>2, <2>3, <2>4
<1>6. CASE InitRemoves \/ CancelRemoves
  <2>. PICK t \in Timers : t = owner.timer
    BY <1>6 DEF InitRemoves, CancelRemoves, TypeInv, OwnerTyped
  <2>0. RemoveTimer(t)
    BY <1>6 DEF InitRemoves, CancelRemoves
  <2>1. timer' = IF Contains(mTimers, t) THEN [timer EXCEPT ![t].armed = FALSE] ELSE timer
    BY <1>1, <2>0, RemoveEffect DEF TypeInv
  <2>2. x # t => timer'[x] = timer[x]
    BY <1>1, <2>1
  <2>3. timer'[t].armed = (timer[t].armed /\ ~ Contains(mTimers, t))
    <3>1. timer[t].armed \in BOOLEAN
      BY <1>1 DEF TimerType
    <3>2. CASE Contains(mTimers, t)
      <4>1. timer'[t].armed = FALSE
        BY <1>1, <2>1, <3>2 DEF TimerType
      <4> QED BY <3>2, <4>1
    <3>3. CASE ~ Contains(mTimers, t)
      BY <2>1, <3>1, <3>3
    <3> QED BY <3>2, <3>3
  <2>4. /\ \A y : Contains(mTimers', y) => Contains(mTimers, y)
        /\ \A y : y # t /\ Contains(mTimers, y) => Contains(mTimers', y)
        /\ \A y : Single(mTimers, y) => Single(mTimers', y)
        /\ Single(mTimers, t) => ~ Contains(mTimers', t)
    BY <1>1, <2>0, RemoveEffect DEF TypeInv
  <2>5. CASE x = t
    BY <1>6, <2>3, <2>4, <2>5
  <2>6. CASE x # t
    BY <2>2, <2>4, <2>6
  <2> QED BY <2>5, <2>6
<1>7. CASE Shutdown
  <2>1. mTimers' = << >> /\ timer' = [t \in Timers |-> [timer[t] EXCEPT !.armed = @ /\ ~ Listed(t)]]
    BY <1>7 DEF Shutdown
  <2>2. ~ Listed(x)' /\ Single(mTimers, x)'
    BY <2>1 DEF Contains, Single
  <2>. PICK tm \in TimerType : tm = timer[x]
    BY <1>1
  <2>. PICK b : b = (tm.armed /\ ~ Listed(x))
    OBVIOUS
  <2>3. timer'[x] = [tm EXCEPT !.armed = b]
    BY <2>1
  <2>4. timer'[x].armed = b
    BY <2>3 DEF TimerType
  <2> QED BY <1>7, <2>2, <2>4
<1>8. CASE UNCHANGED mTimers /\ timer'[x].armed = timer[x].armed
  BY <1>8
<1>9. CASE RunWaits \/ RunPolls \/ RunWakes \/ RunEnds \/ PostReadsGeneration \/ PostReadsType
           \/ PostDispatches \/ EventIgnored \/ ShutdownReturns \/ Tick \/ SetDelayLoads
           \/ \E t \in Timers, type \in Types, delay \in Delays : InitCommon(t, type, delay)
  BY <1>2, <1>9
     DEF RunWaits, RunPolls, RunWakes, RunEnds, PostReadsGeneration, PostReadsType,
         PostDispatches, EventIgnored, ShutdownReturns, Tick, SetDelayLoads, InitCommon,
         sharedVars
<1>10. CASE Fire \/ FireReturns
  <2>. PICK t, b : timer' = [timer EXCEPT ![t].firing = b]
    BY <1>10 DEF Fire, FireReturns
  <2>1. timer'[x].armed = timer[x].armed
    BY <1>1 DEF TimerType
  <2> QED BY <1>8, <1>10, <2>1 DEF Fire, FireReturns, sharedVars
<1>11. CASE InitClears \/ \E t \in Timers : Cancel(t)
  <2>. PICK t, b : timer' = [timer EXCEPT ![t].canceled = b]
    BY <1>11 DEF Cancel, InitClears
  <2>1. timer'[x].armed = timer[x].armed
    BY <1>1 DEF TimerType
  <2> QED BY <1>8, <1>11, <2>1 DEF Cancel, InitClears, sharedVars
<1>12. CASE PostStoresTimeout \/ SetDelayStores
  <2>. PICK t, base, delay :
         t \in Timers /\ timer' = [timer EXCEPT ![t] = Delayed(timer[t], base, delay)]
    <3>1. CASE PostStoresTimeout
      <4>. PICK t, base, delay : t = thread.timer /\ base = thread.base /\ delay = timer[t].delay
        OBVIOUS
      <4>1. t \in Timers
        BY <3>1 DEF PostStoresTimeout, TypeInv, ThreadTyped, Posting, Made
      <4>2. timer' = [timer EXCEPT ![t] = Delayed(timer[t], base, delay)]
        BY <1>1, <3>1, <4>1 DEF PostStoresTimeout
      <4> QED BY <4>1, <4>2
    <3>2. CASE SetDelayStores
      <4>1. owner.timer \in Timers
        BY <3>2 DEF SetDelayStores, TypeInv, OwnerTyped
      <4>2. timer' = [timer EXCEPT ![owner.timer]
                        = Delayed(timer[owner.timer], owner.base, owner.delay)]
        BY <1>1, <3>2, <4>1 DEF SetDelayStores
      <4> QED BY <4>1, <4>2
    <3> QED BY <1>12, <3>1, <3>2
  <2>1. timer'[x].armed = timer[x].armed
    <3>1. Delayed(timer[t], base, delay).armed = timer[t].armed
      BY <1>1 DEF Delayed, TypeInv, TimersTyped, TimerType
    <3> QED BY <1>1, <3>1
  <2> QED BY <1>8, <1>12, <2>1 DEF PostStoresTimeout, SetDelayStores, sharedVars
<1>13. CASE InitRenews
  <2>. PICK t \in Timers : t = owner.timer
    BY <1>13 DEF InitRenews, TypeInv, OwnerTyped
  <2>1. timer'[x].armed = timer[x].armed
    BY <1>13, RenewEffect
  <2> QED BY <1>8, <1>13, <2>1 DEF InitRenews, sharedVars
<1>14. CASE InitRetypes
  <2>. PICK t, type : timer' = [timer EXCEPT ![t].type = type]
    BY <1>14 DEF InitRetypes
  <2>1. timer'[x].armed = timer[x].armed
    BY <1>1 DEF TimerType
  <2> QED BY <1>8, <1>14, <2>1 DEF InitRetypes, sharedVars
<1> QED BY <1>3, <1>4, <1>5, <1>6, <1>7, <1>9, <1>10, <1>11, <1>12, <1>13, <1>14
        DEF PlainStep, ThreadStep, RunEvent

\* When the owner begins or ends to add a timer.
LEMMA AddingWritten ==
    ASSUME TypeInv, PlainInv, PlainStep, ~ InitRenews, NEW x \in Timers
    PROVE  /\ Adding(x)' => Adding(x) \/ (FireReturns /\ callback = x /\ Slack(x))
           /\ Assigning(x)' =>
                \/ ~ InitRemoves /\ Assigning(x)
                \/ InitRemoves /\ x = owner.timer
                \/ \E type \in Types, delay \in Delays : InitCommon(x, type, delay)
                                                         /\ ~ timer[x].armed
           /\ AddTimer => ~ Adding(x)' /\ ~ Assigning(x)'
<1>0. owner \in OwnerType
  BY DEF TypeInv, OwnerTyped
<1>1. CASE UNCHANGED owner
  <2>1. ~ AddTimer
    <3>1. [IdleOwner EXCEPT !.wake = owner.wake].op = "none"
      BY <1>0, DoneFacts
    <3> QED BY <1>1, <3>1 DEF AddTimer, Done
  <2> QED BY <1>1, <2>1 DEF Adding, Assigning
<1>2. CASE owner' = [IdleOwner EXCEPT !.wake = owner.wake]
  BY <1>0, <1>2, DoneFacts DEF Adding, Assigning
<1>3. CASE /\ FireReturns
           /\ owner.op = "none" /\ callback \in Timers /\ Slack(callback)
           /\ owner' = [owner EXCEPT !.op = "load", !.timer = callback,
                                     !.delay = timer[callback].delay, !.then = "add"]
  <2>1. owner'.op = "load" /\ owner'.timer = callback
    BY <1>0, <1>3 DEF OwnerType
  <2> QED BY <1>3, <2>1 DEF Adding, Assigning, AddTimer
<1>4. CASE \E t \in Timers, type \in Types, delay \in Delays :
             /\ InitCommon(t, type, delay)
             /\ owner.op = "none"
             /\ owner' = [owner EXCEPT !.op = IF timer[t].armed THEN "remove" ELSE "clear",
                                       !.timer = t, !.type = type, !.delay = delay]
  <2>. PICK t \in Timers, type \in Types, delay \in Delays :
             /\ InitCommon(t, type, delay)
             /\ owner.op = "none"
             /\ owner' = [owner EXCEPT !.op = IF timer[t].armed THEN "remove" ELSE "clear",
                                       !.timer = t, !.type = type, !.delay = delay]
    BY <1>4
  <2>. PICK op : op = IF timer[t].armed THEN "remove" ELSE "clear"
    OBVIOUS
  <2>1. owner'.op = op /\ owner'.timer = t
    BY <1>0 DEF OwnerType
  <2> QED BY <2>1 DEF Adding, Assigning, AddTimer
<1>5. CASE InitRemoves /\ owner.op = "remove" /\ owner' = [owner EXCEPT !.op = "clear"]
  <2>1. owner'.op = "clear" /\ owner'.timer = owner.timer
    BY <1>0, <1>5 DEF OwnerType
  <2> QED BY <1>5, <2>1 DEF Adding, Assigning, AddTimer
<1>6. CASE /\ SetDelayLoads /\ owner.op = "load" /\ owner.timer \in Timers
           /\ owner' = [owner EXCEPT !.op = "store", !.base = DelayBase(owner.timer)]
  <2>1. owner'.op = "store" /\ owner'.timer = owner.timer
    BY <1>0, <1>6 DEF OwnerType
  <2> QED BY <1>6, <2>1 DEF Adding, Assigning, AddTimer
<1>7. CASE SetDelayStores /\ owner.op = "store"
           /\ owner' = [owner EXCEPT !.op = "add", !.base = 0, !.delay = 0]
  <2>1. owner'.op = "add" /\ owner'.timer = owner.timer
    BY <1>0, <1>7 DEF OwnerType
  <2> QED BY <1>7, <2>1 DEF Adding, Assigning, AddTimer
<1>8. CASE \E t \in Timers :
             owner.op = "none" /\ owner' = [owner EXCEPT !.op = "cancel", !.timer = t]
  <2>1. owner'.op = "cancel"
    BY <1>0, <1>8 DEF OwnerType
  <2> QED BY <1>8, <2>1 DEF Adding, Assigning, AddTimer
<1>9. CASE InitClears /\ owner.op = "clear" /\ owner' = [owner EXCEPT !.op = "generation"]
  <2>1. owner'.op = "generation" /\ owner'.timer = owner.timer
    BY <1>0, <1>9 DEF OwnerType
  <2> QED BY <1>9, <2>1 DEF Adding, Assigning, AddTimer, InitRemoves
<1>10. CASE InitRetypes /\ owner.op = "type"
            /\ owner' = [owner EXCEPT !.op = "load", !.then = "add", !.type = "ONE_SHOT"]
  <2>1. owner'.op = "load" /\ owner'.timer = owner.timer
    BY <1>0, <1>10 DEF OwnerType
  <2> QED BY <1>10, <2>1 DEF Adding, Assigning, AddTimer
<1> QED BY ZenonT(40), <1>1, <1>2, <1>3, <1>4, <1>5, <1>6, <1>7, <1>8, <1>9, <1>10, OwnerWritten

\* What the timer thread has in its hand.
LEMMA HandWritten ==
    ASSUME TypeInv, PlainStep
    PROVE  \/ thread'.timer = NoTimer /\ (PostDispatches \/ thread.timer = NoTimer)
           \/ /\ RunTakesTimer /\ thread.timer = NoTimer
              /\ thread'.timer = Head(mTimers) /\ thread'.pc = "post"
           \/ /\ thread'.timer = thread.timer
              /\ ~ RunTakesTimer /\ ~ PostDispatches
              /\ thread'.pc \in {"store", "add"} =>
                   \/ thread.pc \in {"store", "add"}
                   \/ thread.pc = "type" /\ timer[thread.timer].type = "REPEATING_PRECISE"
              /\ thread'.pc \in {"post", "type", "store", "add"} =>
                   thread.pc \in {"post", "type", "store", "add"}
              /\ PostAddsTimer => thread.pc = "add" /\ thread'.pc = "dispatch"
<1>0. thread \in ThreadType /\ (thread.timer # NoTimer <=> Posting)
  BY DEF TypeInv, ThreadTyped
<1>1. CASE RunTakesTimer
  <2>1. thread' = [ThreadAt("post") EXCEPT !.timer = Head(mTimers)]
    BY <1>1 DEF RunTakesTimer
  <2>2. thread'.timer = Head(mTimers) /\ thread'.pc = "post"
    <3>. PICK r \in ThreadType : r = ThreadAt("post") /\ r.pc = "post"
      BY ThreadAtFacts
    <3>. PICK h : h = Head(mTimers)
      OBVIOUS
    <3>1. thread' = [r EXCEPT !.timer = h]
      BY <2>1
    <3> QED BY <3>1 DEF ThreadType
  <2> QED BY <1>0, <1>1, <2>2 DEF RunTakesTimer, Posting
<1>2. CASE RunWaits \/ RunPolls \/ RunWakes \/ RunEnds
  <2>. PICK left, polling :
         \/ thread' = ThreadAt("ready") \/ thread' = ThreadAt("done")
         \/ thread' = [ThreadAt("waiting") EXCEPT !.left = left]
         \/ thread' = [ThreadAt("waiting") EXCEPT !.polling = polling, !.left = left]
    BY <1>2 DEF RunWaits, RunPolls, RunWakes, RunEnds
  <2>1. thread'.timer = NoTimer
    <3>. PICK r \in ThreadType : r = ThreadAt("waiting") /\ r.timer = NoTimer
      BY ThreadAtFacts
    <3>1. ThreadAt("ready").timer = NoTimer /\ ThreadAt("done").timer = NoTimer
      BY ThreadAtFacts
    <3>2. [r EXCEPT !.left = left].timer = NoTimer
          /\ [r EXCEPT !.polling = polling, !.left = left].timer = NoTimer
      BY DEF ThreadType
    <3> QED BY <3>1, <3>2
  <2> QED BY <1>0, <1>2, <2>1 DEF RunWaits, RunPolls, RunWakes, RunEnds, Posting
<1>3. CASE PostReadsGeneration \/ PostReadsType \/ PostStoresTimeout \/ PostAddsTimer
  <2>. PICK generation, base :
         \/ /\ PostReadsGeneration /\ thread.pc = "post"
            /\ thread' = [thread EXCEPT !.pc = "type", !.generation = generation]
         \/ /\ PostReadsType /\ thread.pc = "type" /\ timer[thread.timer].type = "REPEATING_PRECISE"
            /\ thread' = [thread EXCEPT !.pc = "store", !.base = base]
         \/ /\ PostReadsType /\ thread.pc = "type"
            /\ thread' = [thread EXCEPT !.pc = "dispatch"]
         \/ PostStoresTimeout /\ thread.pc = "store" /\ thread' = [thread EXCEPT !.pc = "add", !.base = 0]
         \/ PostAddsTimer /\ thread.pc = "add" /\ thread' = [thread EXCEPT !.pc = "dispatch"]
    BY <1>3 DEF PostReadsGeneration, PostReadsType, PostStoresTimeout, PostAddsTimer
  <2>1. /\ thread'.timer = thread.timer
        /\ \/ thread.pc = "post" /\ thread'.pc = "type"
           \/ thread.pc = "type" /\ timer[thread.timer].type = "REPEATING_PRECISE" /\ thread'.pc = "store"
           \/ thread.pc = "type" /\ thread'.pc = "dispatch"
           \/ thread.pc = "store" /\ thread'.pc = "add"
           \/ thread.pc = "add" /\ thread'.pc = "dispatch"
    BY <1>0 DEF ThreadType
  <2> QED BY <2>1 DEF RunTakesTimer, PostDispatches, PostAddsTimer
<1>4. CASE PostDispatches
  BY <1>4, PostDispatchesEffect
<1>5. CASE UNCHANGED thread /\ ~ PostAddsTimer /\ ~ RunTakesTimer /\ ~ PostDispatches
  BY <1>5
<1>6. CASE thread' \in {thread, Notified} /\ ~ PostAddsTimer /\ ~ RunTakesTimer /\ ~ PostDispatches
  <2>1. Notified.timer = NoTimer \/ Notified = thread
    BY ThreadAtFacts DEF Notified
  <2>2. Notified # thread => thread.timer = NoTimer
    BY <1>0 DEF Notified, Posting
  <2> QED BY <1>5, <1>6, <2>1, <2>2
<1>7. CASE InitRemoves \/ CancelRemoves \/ AddTimer
  <2>1. thread' \in {thread, Notified}
    BY <1>7 DEF InitRemoves, CancelRemoves, AddTimer, RemoveTimer, AddTo
  <2>2. owner' # owner
    <3>1. owner \in OwnerType
      BY DEF TypeInv, OwnerTyped
    <3>2. owner'.op # owner.op
      BY <1>7, <3>1, DoneFacts DEF InitRemoves, CancelRemoves, AddTimer, OwnerType, Done
    <3> QED BY <3>2
  <2> QED BY <1>6, <2>1, <2>2 DEF PostAddsTimer, RunTakesTimer, PostDispatches, ownerVars
<1>8. CASE Shutdown
  <2>1. thread' \in {thread, Notified} /\ mShutdown' # mShutdown
    BY <1>8 DEF Shutdown
  <2> QED BY <1>6, <2>1 DEF PostAddsTimer, RunTakesTimer, PostDispatches, sharedVars
<1>9. CASE Tick
  <2>1. ~ PostAddsTimer /\ ~ RunTakesTimer /\ ~ PostDispatches
    <3>1. now' = (now + 1) % Domain /\ now \in Times
      BY <1>9 DEF Tick, TypeInv, ClockTyped
    <3>2. Domain \in Nat \ {0, 1}
      BY TimerAssumption, HalfDomain DEF TimerAssumption
    <3>3. now' # now
      BY <3>1, <3>2 DEF Times
    <3> QED BY <3>3 DEF PostAddsTimer, RunTakesTimer, PostDispatches
  <2>2. thread' = thread \/ thread' = [thread EXCEPT !.left = @ - 1]
    BY <1>9 DEF Tick
  <2>3. thread'.timer = thread.timer /\ thread'.pc = thread.pc
    BY <1>0, <2>2 DEF ThreadType
  <2> QED BY <2>1, <2>3
<1>10. CASE EventIgnored \/ Fire \/ FireReturns \/ ShutdownReturns
            \/ InitClears \/ InitRenews \/ InitRetypes \/ SetDelayLoads \/ SetDelayStores
            \/ (\E t \in Timers, type \in Types, delay \in Delays : InitCommon(t, type, delay))
            \/ (\E t \in Timers : Cancel(t))
  <2>1. UNCHANGED thread
    BY <1>10 DEF EventIgnored, Fire, FireReturns, ShutdownReturns, InitClears, InitRenews,
                 InitRetypes, SetDelayLoads, SetDelayStores, InitCommon, Cancel
  <2>2. ~ RunTakesTimer /\ ~ PostDispatches /\ ~ PostAddsTimer
    <3>1. RunTakesTimer \/ PostDispatches \/ PostAddsTimer => thread' # thread
      <4>1. PostAddsTimer => thread'.pc # thread.pc
        BY <1>0 DEF PostAddsTimer, ThreadType
      <4>2. PostDispatches => thread'.timer # thread.timer
        BY <1>0, PostDispatchesEffect DEF PostDispatches, Posting
      <4>3. RunTakesTimer => thread'.pc # thread.pc
        <5>. PICK r \in ThreadType : r = ThreadAt("post") /\ r.pc = "post"
          BY ThreadAtFacts
        <5>. PICK h : h = Head(mTimers)
          OBVIOUS
        <5>1. [r EXCEPT !.timer = h].pc = "post"
          BY DEF ThreadType
        <5> QED BY <5>1 DEF RunTakesTimer
      <4> QED BY <4>1, <4>2, <4>3
    <3> QED BY <2>1, <3>1
  <2> QED BY <1>5, <2>1, <2>2
<1>11. \/ RunTakesTimer \/ (RunWaits \/ RunPolls \/ RunWakes \/ RunEnds)
       \/ (PostReadsGeneration \/ PostReadsType \/ PostStoresTimeout \/ PostAddsTimer)
       \/ PostDispatches \/ (InitRemoves \/ CancelRemoves \/ AddTimer) \/ Shutdown \/ Tick
       \/ (EventIgnored \/ Fire \/ FireReturns \/ ShutdownReturns
            \/ InitClears \/ InitRenews \/ InitRetypes \/ SetDelayLoads \/ SetDelayStores
            \/ (\E t \in Timers, type \in Types, delay \in Delays : InitCommon(t, type, delay))
            \/ (\E t \in Timers : Cancel(t)))
  BY DEF PlainStep, ThreadStep, RunEvent
<1> QED BY <1>1, <1>2, <1>3, <1>4, <1>7, <1>8, <1>9, <1>10, <1>11

\* What is posted, and what is in its callback.
LEMMA PostedWritten ==
    ASSUME TypeInv, PlainStep
    PROVE  \/ UNCHANGED <<queue, callback>>
           \/ /\ PostDispatches /\ UNCHANGED callback
              /\ \A x : InQueue(queue, x)' <=> x = thread.timer \/ InQueue(queue, x)
              /\ \A x : (x # thread.timer \/ ~ InQueue(queue, x)) /\ SingleEvent(queue, x)
                          => SingleEvent(queue, x)'
           \/ /\ EventIgnored /\ UNCHANGED callback
              /\ \A x : InQueue(queue, x)' => InQueue(queue, x)
              /\ \A x : SingleEvent(queue, x) => SingleEvent(queue, x)'
           \/ /\ Fire /\ callback = NoTimer /\ owner.op = "none"
              /\ callback' \in Timers /\ InQueue(queue, callback')
              /\ \A x : InQueue(queue, x)' => InQueue(queue, x)
              /\ \A x : SingleEvent(queue, x) => SingleEvent(queue, x)'
              /\ SingleEvent(queue, callback') => ~ InQueue(queue', callback')
           \/ FireReturns /\ callback' = NoTimer /\ UNCHANGED queue
<1>0. queue \in Seq(EventType)
  BY DEF TypeInv, QueueTyped
<1>1. CASE PostDispatches
  <2>. PICK e \in EventType : e = [timer |-> thread.timer, generation |-> thread.generation]
    BY <1>1, PostDispatchesEffect
  <2>1. queue' = Append(queue, e) /\ e.timer = thread.timer
    BY <1>1, PostDispatchesEffect
  <2>2. /\ \A t : InQueue(queue', t) <=> t = e.timer \/ InQueue(queue, t)
        /\ \A t : t # e.timer /\ SingleEvent(queue, t) => SingleEvent(queue', t)
        /\ ~ InQueue(queue, e.timer) => SingleEvent(queue', e.timer)
    BY <1>0, <2>1, AppendEvents
  <2>3. UNCHANGED callback
    BY <1>1 DEF PostDispatches, ownerVars
  <2>4. /\ \A x : InQueue(queue, x)' <=> x = thread.timer \/ InQueue(queue, x)
        /\ \A x : (x # thread.timer \/ ~ InQueue(queue, x)) /\ SingleEvent(queue, x)
                    => SingleEvent(queue, x)'
    BY <2>1, <2>2
  <2> QED BY <1>1, <2>3, <2>4
<1>2. CASE EventIgnored
  <2>1. queue # << >> /\ queue' = Tail(queue)
    BY <1>2 DEF EventIgnored
  <2>2. /\ \A t : InQueue(queue', t) => InQueue(queue, t)
        /\ \A t : SingleEvent(queue, t) => SingleEvent(queue', t)
    BY <1>0, <2>1, TailEvents
  <2> QED BY <1>2, <2>2 DEF EventIgnored, ownerVars
<1>3. CASE Fire
  <2>1. queue # << >> /\ queue' = Tail(queue) /\ callback' = Head(queue).timer
    BY <1>3 DEF Fire
  <2>2. /\ Head(queue) \in EventType
        /\ InQueue(queue, callback')
        /\ \A t : InQueue(queue', t) => InQueue(queue, t)
        /\ \A t : SingleEvent(queue, t) => SingleEvent(queue', t)
        /\ SingleEvent(queue, callback') => ~ InQueue(queue', callback')
    BY <1>0, <2>1, TailEvents
  <2>3. callback' \in Timers
    BY <2>1, <2>2 DEF EventType
  <2> QED BY <1>3, <2>2, <2>3 DEF Fire, Idle
<1>4. CASE FireReturns
  BY <1>4 DEF FireReturns
<1>5. CASE UNCHANGED <<queue, callback>>
  BY <1>5
<1>6. ThreadStep /\ ~ PostDispatches => UNCHANGED <<queue, callback>>
  BY DEF ThreadStep, RunTakesTimer, RunWaits, RunPolls, RunWakes, RunEnds, PostReadsGeneration,
         PostReadsType, PostStoresTimeout, PostAddsTimer, ownerVars
<1>7. CASE \/ InitRemoves \/ InitClears \/ InitRenews \/ InitRetypes \/ SetDelayLoads \/ SetDelayStores \/ AddTimer
           \/ CancelRemoves \/ ShutdownReturns \/ Tick \/ Shutdown
           \/ \E t \in Timers, type \in Types, delay \in Delays : InitCommon(t, type, delay)
           \/ \E t \in Timers : Cancel(t)
  BY <1>7 DEF InitRemoves, InitClears, InitRenews, InitRetypes, SetDelayLoads,
              SetDelayStores, AddTimer, CancelRemoves, ShutdownReturns, Tick, Shutdown, InitCommon, Cancel, ownerVars
<1> QED BY <1>1, <1>2, <1>3, <1>4, <1>5, <1>6, <1>7 DEF PlainStep, RunEvent

\* A timer that is not put back until its callback has run, and that is not
\* initialized again.
Once(t) ==
    /\ Made(t) /\ ~ Precise(t)
    /\ NoReinit \/ (Slack(t) /\ "REPEATING_SLACK" \notin Reinit)

\* It is in one place.
Journey(t) ==
    /\ Single(mTimers, t) /\ SingleEvent(queue, t)
    /\ Listed(t) => thread.timer # t /\ ~ InQueue(queue, t) /\ callback # t /\ ~ Adding(t)
    /\ thread.timer = t =>
         thread.pc \notin {"store", "add"} /\ ~ InQueue(queue, t) /\ callback # t /\ ~ Adding(t)
    /\ InQueue(queue, t) => callback # t /\ ~ Adding(t)
    /\ callback = t => ~ Adding(t)

JourneyInv == \A t \in Timers : Once(t) => Journey(t)

\* A timer that was never initialized is nowhere.
LEMMA Nowhere ==
    ASSUME TypeInv, NEW t \in Timers, ~ Made(t)
    PROVE  /\ ~ Listed(t) /\ Single(mTimers, t)
           /\ ~ InQueue(queue, t) /\ SingleEvent(queue, t)
           /\ thread.timer # t /\ callback # t /\ ~ Adding(t)
<1>1. ~ Listed(t) /\ ~ InQueue(queue, t)
  BY DEF TypeInv, ListTyped, QueueTyped, Listed
<1>2. Single(mTimers, t) /\ SingleEvent(queue, t)
  <2>1. mTimers \in Seq(Timers)
    BY DEF TypeInv, ListTyped
  <2> QED BY <1>1, <2>1 DEF Single, SingleEvent, Listed, Contains, InQueue
<1>3. thread.timer # t /\ callback # t
  BY TimerAssumption DEF TypeInv, ThreadTyped, CallbackTyped, Posting, TimerAssumption
<1>4. ~ Adding(t)
  BY DEF TypeInv, OwnerTyped, Adding
<1> QED BY <1>1, <1>2, <1>3, <1>4

LEMMA JourneyStep ==
    ASSUME TypeInv, PlainInv, PlainStep, ~ InitRenews, NEW x \in Timers, Journey(x), ~ Precise(x)
    PROVE  Journey(x)'
<1>. USE DEF Journey
<1>0. thread.timer # NoTimer <=> Posting
  BY DEF TypeInv, ThreadTyped
<1>1. x # NoTimer
  BY TimerAssumption DEF TimerAssumption
<1>2. Single(mTimers, x)' /\ (Listed(x)' =>
            Listed(x) \/ (PostAddsTimer /\ x = thread.timer) \/ (AddTimer /\ x = owner.timer))
  <2>1. AddTimer /\ x = owner.timer => ~ Listed(x)
    BY DEF AddTimer, Adding
  <2> QED BY <2>1, ListWritten
<1>3. SingleEvent(queue, x)'
      /\ (InQueue(queue, x)' => InQueue(queue, x) \/ (PostDispatches /\ x = thread.timer))
      /\ (callback' = x => callback = x \/ (Fire /\ InQueue(queue, x) /\ ~ InQueue(queue, x)'))
  <2>1. PostDispatches /\ x = thread.timer => ~ InQueue(queue, x)
    OBVIOUS
  <2>2. SingleEvent(queue, x)'
    BY <2>1, PostedWritten
  <2>3. InQueue(queue, x)' => InQueue(queue, x) \/ (PostDispatches /\ x = thread.timer)
    BY PostedWritten
  <2>4. callback' = x => callback = x \/ (Fire /\ InQueue(queue, x) /\ ~ InQueue(queue, x)')
    BY <1>1, PostedWritten
  <2> QED BY <2>2, <2>3, <2>4
<1>4. thread'.timer = x =>
        /\ thread.timer = x \/ (RunTakesTimer /\ Listed(x) /\ ~ Listed(x)')
        /\ thread'.pc \notin {"store", "add"}
        /\ ~ PostDispatches
  <2>1. RunTakesTimer /\ x = Head(mTimers) => Listed(x) /\ ~ Listed(x)'
    <3>. SUFFICES ASSUME RunTakesTimer, x = Head(mTimers) PROVE Listed(x) /\ ~ Listed(x)'
      OBVIOUS
    <3>1. mTimers \in Seq(Timers) /\ mTimers # << >> /\ mTimers' = Tail(mTimers)
      BY DEF TypeInv, ListTyped, RunTakesTimer, FirstDue
    <3> QED BY <3>1, TailContains DEF Listed
  <2>2. PostDispatches => thread.timer # NoTimer
    BY <1>0 DEF PostDispatches, Posting
  <2>3. CASE thread'.timer = NoTimer
    BY <1>1, <2>3
  <2>4. CASE RunTakesTimer /\ thread.timer = NoTimer
             /\ thread'.timer = Head(mTimers) /\ thread'.pc = "post"
    BY <2>1, <2>2, <2>4
  <2>5. CASE /\ thread'.timer = thread.timer
             /\ ~ PostDispatches
             /\ thread'.pc \in {"store", "add"} =>
                  \/ thread.pc \in {"store", "add"}
                  \/ thread.pc = "type" /\ timer[thread.timer].type = "REPEATING_PRECISE"
    <3>1. ~ Adding(x) /\ timer[x].type = "REPEATING_PRECISE" => Precise(x)
      BY DEF Adding, Precise, Kind
    <3> QED BY <2>5, <3>1
  <2> QED BY <2>3, <2>4, <2>5, HandWritten
<1>5. Adding(x)' => Adding(x) \/ (FireReturns /\ callback = x)
  BY AddingWritten
<1>6. /\ RunTakesTimer => UNCHANGED <<queue, callback, owner>>
      /\ PostDispatches => UNCHANGED <<mTimers, callback, owner>>
      /\ Fire => UNCHANGED <<mTimers, thread, owner>> /\ owner.op = "none"
      /\ FireReturns => UNCHANGED <<mTimers, thread, queue>> /\ callback' = NoTimer
      /\ AddTimer => UNCHANGED <<queue, callback>> /\ ~ Adding(x)'
  BY AddingWritten DEF RunTakesTimer, PostDispatches, Fire, FireReturns, AddTimer, Idle, ownerVars,
     sharedVars
<1>7. PostAddsTimer => thread.timer # x
  BY DEF PostAddsTimer
<1>8. AddTimer /\ x = owner.timer => Adding(x)
  BY DEF AddTimer, Adding
<1>9. Listed(x)' => thread'.timer # x /\ ~ InQueue(queue, x)' /\ callback' # x /\ ~ Adding(x)'
  <2>. SUFFICES ASSUME Listed(x)'
                PROVE  thread'.timer # x /\ ~ InQueue(queue, x)' /\ callback' # x /\ ~ Adding(x)'
    OBVIOUS
  <2>1. CASE Listed(x)
    BY <1>3, <1>4, <1>5, <2>1
  <2>2. CASE AddTimer /\ x = owner.timer
    <3>1. Adding(x) /\ ~ Adding(x)'
      BY <1>6, <1>8, <2>2
    <3>2. thread.timer # x /\ ~ InQueue(queue, x) /\ callback # x
      BY <3>1
    <3>3. ~ InQueue(queue, x)' /\ callback' # x
      BY <1>6, <2>2, <3>2
    <3>4. ~ RunTakesTimer
      BY <2>2, DoneFacts DEF AddTimer, RunTakesTimer, Done, ownerVars, TypeInv, OwnerTyped
    <3> QED BY <1>4, <3>1, <3>2, <3>3, <3>4
  <2> QED BY <1>2, <1>7, <2>1, <2>2
<1>10. thread'.timer = x =>
         thread'.pc \notin {"store", "add"} /\ ~ InQueue(queue, x)' /\ callback' # x
         /\ ~ Adding(x)'
  <2>. SUFFICES ASSUME thread'.timer = x
                PROVE  ~ InQueue(queue, x)' /\ callback' # x /\ ~ Adding(x)'
    BY <1>4
  <2>1. CASE thread.timer = x
    BY <1>3, <1>4, <1>5, <2>1
  <2>2. CASE RunTakesTimer /\ Listed(x)
    BY <1>6, <2>2 DEF Adding
  <2> QED BY <1>4, <2>1, <2>2
<1>11. InQueue(queue, x)' => callback' # x /\ ~ Adding(x)'
  <2>. SUFFICES ASSUME InQueue(queue, x)' PROVE callback' # x /\ ~ Adding(x)'
    OBVIOUS
  <2>1. CASE InQueue(queue, x)
    BY <1>3, <1>5, <2>1
  <2>2. CASE PostDispatches /\ x = thread.timer
    BY <1>6, <2>2 DEF Adding
  <2> QED BY <1>3, <2>1, <2>2
<1>12. callback' = x => ~ Adding(x)'
  <2>. SUFFICES ASSUME callback' = x PROVE ~ Adding(x)'
    OBVIOUS
  <2>1. CASE callback = x
    BY <1>1, <1>5, <1>6, <2>1
  <2>2. CASE Fire /\ InQueue(queue, x)
    BY <1>6, <2>2 DEF Adding
  <2> QED BY <1>3, <2>1, <2>2
<1> QED BY <1>2, <1>3, <1>9, <1>10, <1>11, <1>12

\* The timer that InitRenews makes Once was not made before.
LEMMA OnceAssigned ==
    ASSUME TypeInv, PlainInv, InitRenews, NEW t \in Timers, t = owner.timer, Once(t)'
    PROVE  ~ Made(t)
<1>1. CASE NoReinit'
  BY <1>1, InitedStep
<1>2. CASE Slack(t)' /\ "REPEATING_SLACK" \notin Reinit
  <2>1. owner.type = "REPEATING_SLACK" /\ owner.op = "generation"
    BY <1>2, RenewEffect DEF Slack
  <2> QED BY <1>2, <2>1 DEF PlainInv, MayInit, Made
<1> QED BY <1>1, <1>2 DEF Once

LEMMA OnceKept ==
    ASSUME TypeInv, PlainInv, PlainStep, NEW x \in Timers, Once(x)',
           ~ (InitRenews /\ x = owner.timer)
    PROVE  Once(x)
<1>1. CASE InitRenews
  <2>. PICK t \in Timers : t = owner.timer
    BY <1>1 DEF InitRenews, TypeInv, OwnerTyped
  <2>1. timer'[x] = timer[x] /\ Kind(x)' = Kind(x)
    BY <1>1, RenewEffect
  <2> QED BY <1>1, <2>1, InitedStep DEF Once, Made, Precise, Slack
<1>2. CASE ~ InitRenews
  BY <1>2, TypesWritten, OwnerWritten, KeepsMore DEF Once
<1> QED BY <1>1, <1>2

LEMMA JourneyNext ==
    ASSUME TypeInv, PlainInv, JourneyInv, PlainStep
    PROVE  JourneyInv'
<1> SUFFICES ASSUME NEW x \in Timers, Once(x)' PROVE Journey(x)'
  BY DEF JourneyInv
<1>1. CASE InitRenews
  <2>. PICK t \in Timers : t = owner.timer
    BY <1>1 DEF InitRenews, TypeInv, OwnerTyped
  <2>1. UNCHANGED <<mTimers, thread, queue, callback>>
    BY <1>1 DEF InitRenews, sharedVars
  <2>2. CASE x = t
    <3>1. ~ Made(t)
      BY <1>1, <2>2, OnceAssigned
    <3>2. Journey(t)
      BY <3>1, Nowhere DEF Journey
    <3> QED BY <2>1, <2>2, <3>1, <3>2, Nowhere DEF Journey, Listed
  <2>3. CASE x # t
    <3>1. Once(x) /\ Journey(x)
      BY <1>1, <2>3, OnceKept DEF JourneyInv
    <3>2. ~ Adding(x)'
      BY <1>1, <2>3, RenewEffect DEF Adding
    <3> QED BY <2>1, <3>1, <3>2 DEF Journey, Listed
  <2> QED BY <2>2, <2>3
<1>2. CASE ~ InitRenews
  <2>1. Once(x) /\ Journey(x)
    BY <1>2, OnceKept DEF JourneyInv
  <2> QED BY <1>2, <2>1, JourneyStep DEF Once
<1> QED BY <1>1, <1>2

\* mTimers has it once, and mArmed says whether it does.
ListOnce(t) ==
    /\ owner.op = "type" /\ owner.timer = t => timer[t].type = "ONE_SHOT"
    /\ Single(mTimers, t)
    /\ timer[t].armed <=> Listed(t)
    /\ Adding(t) \/ Assigning(t) => ~ Listed(t)
    /\ thread.timer = t /\ thread.pc \in {"store", "add"} => Precise(t)
    /\ thread.timer = t /\ thread.pc \in {"post", "type", "store", "add"} /\ Precise(t) =>
         ~ Listed(t) /\ ~ Adding(t)

ListInv == \A t \in Timers : ListOnce(t)

\* The timer thread, which reads the type that is stored, does not take a timer
\* for a precise one that is not.
LEMMA RawPrecise ==
    ASSUME NEW t \in Timers, ListOnce(t), timer[t].type = "REPEATING_PRECISE"
    PROVE  Precise(t)
BY DEF ListOnce, Precise, Kind

LEMMA ListOnceStep ==
    ASSUME TypeInv, PlainInv, JourneyInv, PlainStep, ~ InitRenews, Reinit \subseteq {"ONE_SHOT"},
           NEW x \in Timers, ListOnce(x)
    PROVE  ListOnce(x)'
<1>. USE DEF ListOnce
<1>1. x # NoTimer
  BY TimerAssumption DEF TimerAssumption
<1>2. Precise(x)' <=> Precise(x)
  BY TypesWritten, KeepsMore
<1>3. AddTimer /\ x = owner.timer => Adding(x) /\ ~ Listed(x)
  BY DEF AddTimer, Adding
<1>4. PostAddsTimer /\ x = thread.timer => Precise(x) /\ ~ Listed(x) /\ ~ Adding(x) /\ ~ Assigning(x)
  <2>. SUFFICES ASSUME PostAddsTimer, x = thread.timer
                PROVE  Precise(x) /\ ~ Listed(x) /\ ~ Adding(x) /\ ~ Assigning(x)
    OBVIOUS
  <2>1. thread.pc = "add" /\ Made(x)
    BY PostAddsEffect DEF PostAddsTimer
  <2>2. Precise(x) /\ ~ Listed(x) /\ ~ Adding(x)
    BY <2>1
  <2>3. Assigning(x) => ~ MayInit(x, owner.type)
    BY <2>1, <2>2 DEF MayInit, Made, Precise, Kind, Assigning
  <2> QED BY <2>2, <2>3 DEF Assigning, PlainInv
<1>5. Single(mTimers, x)'
  BY <1>3, <1>4, ListWritten
<1>6. timer'[x].armed <=> Listed(x)'
  BY <1>3, <1>4, ListWritten
<1>7. Listed(x)' => \/ Listed(x)
                    \/ PostAddsTimer /\ x = thread.timer
                    \/ AddTimer /\ x = owner.timer
  BY ListWritten
<1>8. InitRemoves /\ x = owner.timer => ~ Listed(x)'
  <2>. SUFFICES ASSUME InitRemoves, x = owner.timer PROVE ~ Listed(x)'
    OBVIOUS
  <2>1. RemoveTimer(x)
    BY DEF InitRemoves
  <2> QED BY <2>1, RemoveEffect DEF TypeInv, ListTyped, Listed
<1>9. FireReturns /\ callback = x /\ Slack(x) => ~ Listed(x)
  <2>. SUFFICES ASSUME FireReturns, callback = x, Slack(x) PROVE ~ Listed(x)
    OBVIOUS
  <2>1. Made(x)
    BY <1>1 DEF TypeInv, CallbackTyped
  <2>2. Once(x)
    BY <2>1 DEF Once, Slack, Precise
  <2> QED BY <2>2 DEF JourneyInv, Journey
<1>10. Adding(x)' \/ Assigning(x)' => ~ Listed(x)'
  <2>. SUFFICES ASSUME Listed(x)' PROVE ~ Adding(x)' /\ ~ Assigning(x)'
    OBVIOUS
  <2>1. CASE Listed(x)
    <3>1. ~ Adding(x)'
      BY <1>9, <2>1, AddingWritten
    <3>2. \A type \in Types, delay \in Delays : InitCommon(x, type, delay) => timer[x].armed
      BY <2>1
    <3>3. ~ Assigning(x)'
      BY <1>8, <2>1, <3>2, AddingWritten
    <3> QED BY <3>1, <3>3
  <2>2. CASE PostAddsTimer /\ x = thread.timer
    BY <1>4, <2>2 DEF PostAddsTimer, Adding, Assigning, ownerVars
  <2>3. CASE AddTimer
    BY <2>3, AddingWritten
  <2> QED BY <1>7, <2>1, <2>2, <2>3
<1>11. thread'.timer = x /\ thread'.pc \in {"store", "add"} => Precise(x)'
  <2>. SUFFICES ASSUME thread'.timer = x, thread'.pc \in {"store", "add"} PROVE Precise(x)
    BY <1>2
  <2>1. /\ thread.timer = x
        /\ thread.pc \in {"store", "add"} \/ timer[x].type = "REPEATING_PRECISE"
    BY <1>1, HandWritten
  <2> QED BY <2>1, RawPrecise
<1>13. owner'.op = "type" /\ owner'.timer = x => timer'[x].type = "ONE_SHOT"
  <2>. SUFFICES ASSUME owner'.op = "type", owner'.timer = x PROVE timer'[x].type = "ONE_SHOT"
    OBVIOUS
  <2>1. UNCHANGED owner /\ ~ InitRetypes
    BY TypeInHand
  <2> QED BY <2>1, FieldsWritten DEF KeepsFields
<1>12. thread'.timer = x /\ thread'.pc \in {"post", "type", "store", "add"} /\ Precise(x)' =>
         ~ Listed(x)' /\ ~ Adding(x)'
  <2>. SUFFICES ASSUME thread'.timer = x, thread'.pc \in {"post", "type", "store", "add"}, Precise(x)
                PROVE  ~ Listed(x)' /\ ~ Adding(x)'
    BY <1>2
  <2>1. CASE RunTakesTimer /\ x = Head(mTimers)
    <3>1. mTimers \in Seq(Timers) /\ mTimers # << >> /\ mTimers' = Tail(mTimers)
      BY <2>1 DEF TypeInv, ListTyped, RunTakesTimer, FirstDue
    <3>2. Listed(x) /\ ~ Listed(x)'
      BY <2>1, <3>1, TailContains DEF Listed
    <3> QED BY <2>1, <3>2 DEF RunTakesTimer, Adding, ownerVars
  <2>2. CASE /\ thread'.timer = thread.timer
             /\ thread'.pc \in {"post", "type", "store", "add"} =>
                  thread.pc \in {"post", "type", "store", "add"}
             /\ PostAddsTimer => thread.pc = "add" /\ thread'.pc = "dispatch"
    <3>1. ~ Listed(x) /\ ~ Adding(x) /\ ~ PostAddsTimer
      BY <2>2
    <3>2. ~ Listed(x)'
      BY <1>3, <1>7, <3>1
    <3>3. ~ Slack(x)
      BY DEF Slack, Precise
    <3> QED BY <3>1, <3>2, <3>3, AddingWritten
  <2> QED BY <1>1, <2>1, <2>2, HandWritten
<1> QED BY <1>5, <1>6, <1>10, <1>11, <1>12, <1>13

LEMMA ListNext ==
    ASSUME TypeInv, PlainInv, JourneyInv, ListInv, PlainStep, Reinit \subseteq {"ONE_SHOT"}
    PROVE  ListInv'
<1> SUFFICES ASSUME NEW x \in Timers PROVE ListOnce(x)'
  BY DEF ListInv
<1>1. ListOnce(x)
  BY DEF ListInv
<1>2. CASE InitRenews
  <2>. PICK t \in Timers : t = owner.timer
    BY <1>2 DEF InitRenews, TypeInv, OwnerTyped
  <2>1. UNCHANGED <<mTimers, thread, queue, callback>> /\ timer'[x].armed = timer[x].armed
    BY <1>2, RenewEffect DEF InitRenews, sharedVars
  <2>2. ~ Assigning(x)' /\ (Adding(x)' => x = t)
    BY <1>2, RenewEffect DEF Assigning, Adding
  <2>3. CASE x = t
    <3>1. Assigning(x) /\ MayInit(x, owner.type) /\ (Precise(x)' <=> owner.type = "REPEATING_PRECISE")
      BY <1>2, <2>3, RenewEffect DEF Assigning, PlainInv, Precise
    <3>2. thread.timer = x => ~ Precise(x) /\ ~ Precise(x)'
      <4>1. thread.timer = x => Made(x)
        BY Nowhere
      <4>2. Kind(x) = timer[x].type
        BY <1>2, <2>3, RenewEffect
      <4> QED BY <3>1, <4>1, <4>2 DEF MayInit, Made, Precise
    <3>3. ~ Listed(x)
      BY <1>1, <3>1 DEF ListOnce
    <3>4. timer'[x].type = "ONE_SHOT"
      <4>1. timer'[x].type = timer[x].type /\ Kind(x) = timer[x].type
        BY <1>2, <2>3, RenewEffect
      <4>2. ~ Made(x) => Kind(x) = "ONE_SHOT"
        BY DEF PlainInv
      <4> QED BY <3>1, <4>1, <4>2 DEF MayInit, Made
    <3> QED BY <1>1, <2>1, <2>2, <3>2, <3>3, <3>4 DEF ListOnce, Listed
  <2>4. CASE x # t
    <3>1. (Precise(x)' <=> Precise(x)) /\ owner'.timer # x
      BY <1>2, <2>4, RenewEffect DEF Precise
    <3> QED BY <1>1, <2>1, <2>2, <2>4, <3>1 DEF ListOnce, Listed
  <2> QED BY <2>3, <2>4
<1>3. CASE ~ InitRenews
  BY <1>1, <1>3, ListOnceStep
<1> QED BY <1>2, <1>3

\* The sequence form of the two conjuncts of ArmedIsListedOnce.
LEMMA ListInvArmed == ASSUME TypeInv, ListInv PROVE ArmedIsListedOnce
<1>1. mTimers \in Seq(Timers)
  BY DEF TypeInv, ListTyped
<1>2. \A i, j \in DOMAIN mTimers : mTimers[i] = mTimers[j] => i = j
  BY <1>1 DEF ListInv, ListOnce, Single
<1> QED BY <1>2 DEF ListInv, ListOnce, ArmedIsListedOnce

LEMMA PlacesInit == Init => JourneyInv /\ ListInv
<1> SUFFICES ASSUME Init PROVE JourneyInv /\ ListInv
  OBVIOUS
<1>1. \A t \in Timers : ~ Made(t) /\ ~ timer[t].armed /\ owner.op = "none"
  BY DEF Init, Made, NewTimer, IdleOwner
<1>2. JourneyInv
  BY <1>1 DEF JourneyInv, Once
<1>3. ASSUME NEW t \in Timers PROVE ListOnce(t)
  BY <1>1, TypeInit, Nowhere DEF ListOnce, Assigning
<1> QED BY <1>2, <1>3 DEF ListInv

LEMMA PlacesFrame ==
    ASSUME UNCHANGED vars
    PROVE  (JourneyInv => JourneyInv') /\ (ListInv => ListInv')
BY DEF vars, sharedVars, ownerVars, JourneyInv, Journey, ListInv, ListOnce, Once, NoReinit, Made,
       Precise, Slack, Kind, Listed, Adding, Assigning

\* Where timers are only initialized and canceled, and only one-shot timers a
\* second time: mTimers has a timer at most once and mArmed says whether it
\* does, whatever the owner and the timer thread do between two holds of mLock.
\* InitCommon, which tests mArmed without mLock, relies on it.
THEOREM TimerListInvariant ==
    ASSUME PlainUse, Reinit \subseteq {"ONE_SHOT"}
    PROVE  SafetySpec => []TimerInv
<1> DEFINE Inv == TypeInv /\ PlainInv /\ JourneyInv /\ ListInv
<1>1. Init => Inv
  BY TypeInit, PlainInit, PlacesInit
<1>2. Inv /\ [Next]_vars => Inv'
  <2> SUFFICES ASSUME Inv, [Next]_vars PROVE Inv'
    OBVIOUS
  <2>1. TypeInv'
    BY TypeNext
  <2>2. CASE Next
    BY <2>1, <2>2, PlainNext, PlainInvNext, JourneyNext, ListNext
  <2>3. CASE UNCHANGED vars
    BY <2>1, <2>3, PlainInvNext, PlacesFrame
  <2> QED BY <2>2, <2>3
<1>3. Inv => TimerInv
  BY TypeInvTypes, ListInvArmed DEF TimerInv
<1> HIDE DEF Inv
<1> QED BY <1>1, <1>2, <1>3, PTL DEF SafetySpec

-----------------------------------------------------------------------------
(* How often a timer fires.                                                *)

\* Where a timer comes from.
LEMMA Moves ==
    ASSUME TypeInv, PlainInv, PlainStep, ~ InitRenews, NEW x \in Timers
    PROVE  /\ Listed(x)' => \/ Listed(x)
                            \/ PostAddsTimer /\ x = thread.timer
                            \/ AddTimer /\ Adding(x)
           /\ thread'.timer = x => thread.timer = x \/ (RunTakesTimer /\ Listed(x))
           /\ InQueue(queue, x)' => InQueue(queue, x) \/ (PostDispatches /\ x = thread.timer)
           /\ callback' = x => callback = x \/ (Fire /\ InQueue(queue, x))
           /\ Adding(x)' => Adding(x) \/ (FireReturns /\ callback = x /\ Slack(x))
<1>1. x # NoTimer
  BY TimerAssumption DEF TimerAssumption
<1>2. Listed(x)' => Listed(x) \/ (PostAddsTimer /\ x = thread.timer) \/ (AddTimer /\ x = owner.timer)
  BY ListWritten
<1>3. AddTimer /\ x = owner.timer => Adding(x)
  BY DEF AddTimer, Adding
<1>4. thread'.timer = x => thread.timer = x \/ (RunTakesTimer /\ Listed(x))
  <2>1. RunTakesTimer /\ x = Head(mTimers) => Listed(x)
    BY TailContains DEF RunTakesTimer, FirstDue, Listed, TypeInv, ListTyped
  <2> QED BY <1>1, <2>1, HandWritten
<1>5. InQueue(queue, x)' => InQueue(queue, x) \/ (PostDispatches /\ x = thread.timer)
  BY PostedWritten
<1>6. callback' = x => callback = x \/ (Fire /\ InQueue(queue, x))
  BY <1>1, PostedWritten
<1>7. Adding(x)' => Adding(x) \/ (FireReturns /\ callback = x /\ Slack(x))
  BY AddingWritten
<1> QED BY <1>2, <1>3, <1>4, <1>5, <1>6, <1>7

\* What counts the callbacks.
LEMMA FiredWritten ==
    ASSUME TypeInv, PlainStep, fired \in [Timers -> Nat]
    PROVE  /\ fired' \in [Timers -> Nat]
           /\ \/ UNCHANGED fired
              \/ /\ Fire /\ callback' \in Timers
                 /\ fired'[callback'] = IF fired[callback'] < 2 THEN fired[callback'] + 1
                                        ELSE fired[callback']
                 /\ \A t \in Timers \ {callback'} : fired'[t] = fired[t]
              \/ /\ InitRenews /\ owner.timer \in Timers /\ fired'[owner.timer] = 0
                 /\ \A t \in Timers \ {owner.timer} : fired'[t] = fired[t]
<1>1. CASE Fire
  <2>1. callback' \in Timers
    <3>1. queue \in Seq(EventType) /\ queue # << >> /\ callback' = Head(queue).timer
      BY <1>1 DEF Fire, TypeInv, QueueTyped
    <3> QED BY <3>1, TailEvents DEF EventType
  <2>. PICK t \in Timers : t = callback'
    BY <2>1
  <2>. PICK n \in Nat : n = IF fired[t] < 2 THEN fired[t] + 1 ELSE fired[t]
    OBVIOUS
  <2>2. fired' = [fired EXCEPT ![t] = n]
    BY <1>1 DEF Fire
  <2> QED BY <1>1, <2>2
<1>2. CASE InitRenews
  <2>1. owner.timer \in Timers /\ fired' = [fired EXCEPT ![owner.timer] = 0]
    BY <1>2 DEF InitRenews, TypeInv, OwnerTyped
  <2> QED BY <1>2, <2>1
<1>3. CASE ~ Fire /\ ~ InitRenews
  <2>1. UNCHANGED fired
    <3>1. ThreadStep => UNCHANGED fired
      BY DEF ThreadStep, RunTakesTimer, RunWaits, RunPolls, RunWakes, RunEnds,
             PostReadsGeneration, PostReadsType, PostStoresTimeout, PostAddsTimer, PostDispatches
    <3>2. EventIgnored \/ FireReturns \/ ShutdownReturns \/ Tick \/ Shutdown => UNCHANGED fired
      BY DEF EventIgnored, FireReturns, ShutdownReturns, Tick, Shutdown
    <3>3. InitRemoves \/ InitClears \/ InitRetypes \/ SetDelayLoads \/ SetDelayStores
            \/ AddTimer \/ CancelRemoves => UNCHANGED fired
      BY DEF InitRemoves, InitClears, InitRetypes, SetDelayLoads, SetDelayStores, AddTimer,
             CancelRemoves
    <3>4. \A t \in Timers : Cancel(t) => UNCHANGED fired
      BY DEF Cancel
    <3>5. \A t \in Timers, type \in Types, delay \in Delays :
            InitCommon(t, type, delay) => UNCHANGED fired
      BY DEF InitCommon
    <3> QED BY <1>3, <3>1, <3>2, <3>3, <3>4, <3>5 DEF PlainStep, RunEvent
  <2> QED BY <2>1
<1> QED BY <1>1, <1>2, <1>3

OneShot(t) == Kind(t) = "ONE_SHOT"

\* Once its callback has begun, a one-shot timer is nowhere else.
Fresh(t) ==
    /\ fired[t] \in {0, 1}
    /\ fired[t] = 1 => ~ Listed(t) /\ thread.timer # t /\ ~ InQueue(queue, t) /\ ~ Adding(t)

FreshInv ==
    /\ fired \in [Timers -> Nat]
    /\ \A t \in Timers : ~ Made(t) => fired[t] = 0
    /\ owner.op = "type" => fired[owner.timer] = 0
    /\ NoReinit => \A t \in Timers : Made(t) /\ OneShot(t) => Fresh(t)

LEMMA FreshStep ==
    ASSUME TypeInv, PlainInv, PlainStep, ~ InitRenews, fired \in [Timers -> Nat],
           NEW x \in Timers, OneShot(x), Journey(x), Fresh(x)
    PROVE  Fresh(x)'
<1>. USE DEF Fresh
<1>1. ~ Slack(x)
  BY DEF OneShot, Slack
<1>2. CASE Fire /\ callback' = x
  <2>1. callback # x
    BY <1>2, TimerAssumption DEF Fire, Idle, TimerAssumption
  <2>2. InQueue(queue, x)
    BY <1>2, <2>1, Moves
  <2>3. fired[x] = 0 /\ fired'[x] = 1
    BY <1>2, <2>2, FiredWritten DEF InitRenews, Fire, Idle
  <2>4. ~ Listed(x) /\ thread.timer # x /\ ~ Adding(x)
    BY <2>2 DEF Journey
  <2>5. ~ InQueue(queue, x)'
    <3>1. queue \in Seq(EventType) /\ queue # << >> /\ queue' = Tail(queue)
          /\ x = Head(queue).timer
      BY <1>2 DEF Fire, TypeInv, QueueTyped
    <3> QED BY <3>1, TailEvents DEF Journey
  <2>6. UNCHANGED <<mTimers, thread, owner>>
    BY <1>2 DEF Fire
  <2> QED BY <2>3, <2>4, <2>5, <2>6 DEF Listed, Adding
<1>3. CASE ~ (Fire /\ callback' = x)
  <2>1. fired'[x] = fired[x]
    BY <1>3, FiredWritten
  <2>2. fired[x] = 1 => ~ Listed(x)' /\ thread'.timer # x /\ ~ InQueue(queue, x)' /\ ~ Adding(x)'
    BY <1>1, Moves
  <2> QED BY <2>1, <2>2
<1> QED BY <1>2, <1>3

LEMMA FreshNext ==
    ASSUME TypeInv, PlainInv, JourneyInv, FreshInv, PlainStep
    PROVE  FreshInv'
<1>1. fired' \in [Timers -> Nat]
  BY FiredWritten DEF FreshInv
<1>2. CASE InitRenews
  <2>. PICK t \in Timers : t = owner.timer
    BY <1>2 DEF InitRenews, TypeInv, OwnerTyped
  <2>1. UNCHANGED <<mTimers, thread, queue, callback>> /\ (NoReinit' => NoReinit)
        /\ owner'.timer = t
        /\ \A x \in Timers \ {t} : timer'[x] = timer[x] /\ Kind(x)' = Kind(x)
    BY <1>2, RenewEffect, InitedStep DEF InitRenews, sharedVars
  <2>2. fired'[t] = 0 /\ \A x \in Timers \ {t} : fired'[x] = fired[x]
    BY <1>2 DEF InitRenews, FreshInv
  <2>3. ASSUME NEW x \in Timers, ~ Made(x)' PROVE fired'[x] = 0
    BY <2>1, <2>2, <2>3 DEF FreshInv, Made
  <2>4. ASSUME NoReinit', NEW x \in Timers, Made(x)', OneShot(x)' PROVE Fresh(x)'
    <3>1. CASE x = t
      BY <2>2, <3>1 DEF Fresh
    <3>2. CASE x # t
      <4>1. Made(x) /\ OneShot(x) /\ Fresh(x)
        BY <2>1, <2>4, <3>2 DEF Made, OneShot, FreshInv
      <4>2. ~ Adding(x)'
        BY <1>2, <3>2, RenewEffect DEF Adding
      <4> QED BY <2>1, <2>2, <3>2, <4>1, <4>2 DEF Fresh, Listed
    <3> QED BY <3>1, <3>2
  <2>5. fired'[owner'.timer] = 0
    BY <2>1, <2>2
  <2> QED BY <1>1, <2>3, <2>4, <2>5 DEF FreshInv
<1>3. CASE ~ InitRenews
  <2>1. /\ NoReinit' => NoReinit
        /\ \A x : Made(x)' <=> Made(x)
        /\ \A x \in Timers : OneShot(x)' <=> OneShot(x)
    BY <1>3, TypesWritten, OwnerWritten, KeepsMore DEF OneShot, KeepsTypes
  <2>2. ASSUME NEW x \in Timers, ~ Made(x)' PROVE fired'[x] = 0
    <3>1. ~ Made(x) /\ fired[x] = 0
      BY <2>1, <2>2 DEF FreshInv
    <3>2. ~ (Fire /\ callback' = x)
      <4>1. ~ InQueue(queue, x) /\ callback # x
        BY <3>1, Nowhere
      <4> QED BY <1>3, <4>1, Moves
    <3> QED BY <1>3, <3>1, <3>2, FiredWritten DEF FreshInv
  <2>3. ASSUME NoReinit', NEW x \in Timers, Made(x)', OneShot(x)' PROVE Fresh(x)'
    <3>1. OneShot(x) /\ Fresh(x) /\ NoReinit /\ Made(x)
      BY <2>1, <2>3 DEF FreshInv
    <3>2. Journey(x)
      BY <3>1 DEF JourneyInv, Once, OneShot, Precise
    <3> QED BY <1>3, <3>1, <3>2, FreshStep DEF FreshInv
  <2>4. ASSUME owner'.op = "type" PROVE fired'[owner'.timer] = 0
    <3>1. UNCHANGED owner /\ owner.op = "type" /\ ~ Fire
      BY <1>3, <2>4, TypeInHand DEF Fire, Idle
    <3> QED BY <1>3, <3>1, FiredWritten DEF FreshInv
  <2> QED BY <1>1, <2>2, <2>3, <2>4 DEF FreshInv
<1> QED BY <1>2, <1>3

LEMMA FreshInit == Init => FreshInv
<1> SUFFICES ASSUME Init PROVE FreshInv
  OBVIOUS
<1>1. fired = [t \in Timers |-> 0] /\ (\A t \in Timers : ~ Made(t)) /\ owner.op = "none"
  BY DEF Init, Made, NewTimer, IdleOwner
<1> QED BY <1>1 DEF FreshInv

LEMMA FreshFrame == ASSUME FreshInv, UNCHANGED vars PROVE FreshInv'
BY DEF vars, sharedVars, ownerVars, FreshInv, Fresh, NoReinit, Made, OneShot, Kind, Listed,
       Adding

LEMMA FreshOneShot == ASSUME TypeInv, FreshInv PROVE OneShotUnlessReinit
<1> SUFFICES ASSUME NoReinit, NEW t \in Timers, timer[t].type = "ONE_SHOT" PROVE fired[t] <= 1
  BY DEF OneShotUnlessReinit, OneShotFiresOnce
<1>1. CASE OneShot(t)
  BY <1>1 DEF FreshInv, Fresh
<1>2. CASE ~ OneShot(t)
  BY <1>2 DEF FreshInv, OneShot, Kind
<1> QED BY <1>1, <1>2

\* The invariant of timers that are only initialized and canceled.
OnceInv == TypeInv /\ PlainInv /\ JourneyInv /\ FreshInv

LEMMA OnceInvHolds == ASSUME PlainUse PROVE SafetySpec => []OnceInv
<1>1. Init => OnceInv
  BY TypeInit, PlainInit, PlacesInit, FreshInit DEF OnceInv
<1>2. OnceInv /\ [Next]_vars => OnceInv'
  <2> SUFFICES ASSUME OnceInv, [Next]_vars PROVE OnceInv'
    OBVIOUS
  <2>. USE DEF OnceInv
  <2>1. TypeInv'
    BY TypeNext
  <2>2. CASE Next
    BY <2>1, <2>2, PlainNext, PlainInvNext, JourneyNext, FreshNext
  <2>3. CASE UNCHANGED vars
    BY <2>1, <2>3, PlainInvNext, PlacesFrame, FreshFrame
  <2> QED BY <2>2, <2>3
<1> QED BY <1>1, <1>2, PTL DEF SafetySpec

\* nsITimer.idl:91: a one-shot timer "fires once only", when it is initialized
\* and canceled at any moment and no timer is initialized a second time: the
\* event that PostTimerEvent posts and the list never hold it together.
THEOREM OneShotTimersFireOnce ==
    ASSUME PlainUse
    PROVE  SafetySpec => []OneShotUnlessReinit
<1>1. OnceInv => OneShotUnlessReinit
  BY FreshOneShot DEF OnceInv
<1> QED BY <1>1, OnceInvHolds, PTL

-----------------------------------------------------------------------------
(* No first callback before its time.                                      *)

\* A delay and the adjustment together stay in the half of the clock that
\* TIMER_LESS_THAN can tell from the past.
DelaysFit == \A d \in Delays, a \in Adjustments : Clamp(d) + a < DELAY_INTERVAL_LIMIT

LEMMA ModNear ==
    ASSUME NEW D \in Nat \ {0}, NEW a \in Int, - D <= a, a < 2 * D
    PROVE  a % D = IF a < 0 THEN a + D ELSE IF a < D THEN a ELSE a - D
<1>1. CASE a < 0
  BY <1>1
<1>2. CASE 0 <= a /\ a < D
  BY <1>2
<1>3. CASE D <= a
  BY <1>3
<1> QED BY <1>1, <1>2, <1>3

LEMMA ModDomain ==
    ASSUME NEW a \in Int, - Domain <= a, a < 2 * Domain
    PROVE  a % Domain = IF a < 0 THEN a + Domain ELSE IF a < Domain THEN a ELSE a - Domain
<1>. PICK D \in Nat \ {0} : D = Domain
  BY TimerAssumption DEF TimerAssumption
<1>1. a % D = IF a < 0 THEN a + D ELSE IF a < D THEN a ELSE a - D
  BY ModNear
<1> QED BY <1>1

\* Intervals between two readings of the clock.
LEMMA Difference ==
    ASSUME NEW u \in Times, NEW v \in Times
    PROVE  (u - v) % Domain = IF v <= u THEN u - v ELSE u - v + Domain
<1>1. Domain \in Nat \ {0} /\ u \in 0 .. Domain - 1 /\ v \in 0 .. Domain - 1
  BY TimerAssumption DEF TimerAssumption, Times
<1>. PICK e \in Int : e = u - v
  BY <1>1
<1>2. - Domain <= e /\ e < Domain
  BY <1>1
<1>3. e % Domain = IF e < 0 THEN e + Domain ELSE e
  BY <1>1, <1>2, ModDomain
<1> QED BY <1>1, <1>3

\* The deadline of a delay that begins now.
LEMMA Deadline ==
    ASSUME NEW n \in Times, NEW c \in 0 .. DELAY_INTERVAL_MAX
    PROVE  (n + c) % Domain \in Times /\ (((n + c) % Domain) - n) % Domain = c
<1>1. Domain \in Nat \ {0} /\ c \in Nat /\ c < Domain /\ n \in 0 .. Domain - 1
  BY HalfDomain, TimerAssumption DEF TimerAssumption, Times
<1>. PICK e \in Int : e = n + c
  BY <1>1
<1>. PICK s : s = e % Domain
  OBVIOUS
<1>2. - Domain <= e /\ e < 2 * Domain
  BY <1>1
<1>3. s = IF e < Domain THEN e ELSE e - Domain
  BY <1>1, <1>2, ModDomain
<1>4. s \in Times
  BY <1>1, <1>3 DEF Times
<1>5. (s - n) % Domain = IF n <= s THEN s - n ELSE s - n + Domain
  BY <1>4, Difference
<1>6. (s - n) % Domain = c
  BY <1>1, <1>3, <1>5
<1> QED BY <1>4, <1>6

\* The delay of Init is over, give or take the adjustment.
Early(t) == \E a \in Adjustments : ahead[t] + a <= 0

\* The deadline is no sooner than the end of the delay, and close enough.
Left(t, deadline) ==
    /\ ahead[t] <= (deadline - now) % Domain
    /\ \E d \in Delays : (deadline - now) % Domain <= Clamp(d)

First(t) == Made(t) /\ NoReinit /\ fired[t] = 0

\* Still listed, or about to be, with a deadline that is right.
Waiting(t) ==
    /\ thread.timer # t /\ ~ InQueue(queue, t) /\ callback # t
    /\ Listed(t) => ~ Adding(t) /\ Left(t, timer[t].timeout)
    /\ Adding(t) =>
         \/ /\ owner.op \in {"type", "load"} /\ owner.delay \in Delays
            /\ ahead[t] <= Clamp(owner.delay)
            /\ Precise(t) => timer[t].timeout = 0
         \/ owner.op = "store" /\ Left(t, (owner.base + Clamp(owner.delay)) % Domain)
         \/ owner.op = "add" /\ Left(t, timer[t].timeout)

EarlyInv ==
    /\ ahead \in [Timers -> Nat]
    /\ \A t \in Timers : ~ Made(t) => timer[t].timeout = 0
    /\ NoReinit /\ callback # NoTimer => fired[callback] # 0
    /\ \A t \in Timers : First(t) => Early(t) \/ Waiting(t)

\* The timer thread takes no timer before its deadline.
LEMMA DueEarly ==
    ASSUME TypeInv, ahead \in [Timers -> Nat], DelaysFit,
           NEW t \in Timers, Due(t), Left(t, timer[t].timeout)
    PROVE  Early(t)
<1>. PICK to \in Times : to = timer[t].timeout
  BY DEF TypeInv, TimersTyped, TimerType
<1>. PICK n \in Times : n = now
  BY DEF TypeInv, ClockTyped
<1>. PICK a \in Adjustments : a = mTimeoutAdjustment
  BY DEF TypeInv, ClockTyped
<1>. PICK left : left = (to - n) % Domain
  OBVIOUS
<1>1. left = IF n <= to THEN to - n ELSE to - n + Domain
  BY Difference
<1>2. a \in Int /\ Domain \in Nat \ {0} /\ n \in 0 .. Domain - 1 /\ to \in 0 .. Domain - 1
  BY TimerAssumption DEF TimerAssumption, Times
<1>. PICK d \in Delays : left <= Clamp(d)
  BY DEF Left
<1>3. Clamp(d) \in Nat /\ Clamp(d) + a < DELAY_INTERVAL_LIMIT
  BY ClampRange, HalfDomain, TimerAssumption DEF DelaysFit, TimerAssumption
<1>. PICK limit \in Nat : limit = DELAY_INTERVAL_LIMIT /\ limit # 0 /\ 2 * limit = Domain
  BY HalfDomain
<1>4. ~ ((n - ((to + a) % Domain)) % Domain > limit)
  BY DEF Due, TIMER_LESS_THAN
<1>5. left + a <= 0
  <2>1. SUFFICES ASSUME 0 < left + a PROVE FALSE
    BY <1>1, <1>2
  <2>2. left + a < limit
    BY <1>1, <1>2, <1>3
  <2>3. to + a = n + (left + a) \/ to + a = n + (left + a) - Domain
    BY <1>1, <1>2
  <2>4. to + a \in Int /\ - Domain <= to + a /\ to + a < 2 * Domain
    BY <1>1, <1>2, <2>1, <2>2, <2>3
  <2>. PICK e \in Int : e = to + a
    BY <2>4
  <2>. PICK w : w = e % Domain
    OBVIOUS
  <2>5. w = IF e < 0 THEN e + Domain ELSE IF e < Domain THEN e ELSE e - Domain
    BY <2>4, ModDomain
  <2>6. w \in Int /\ (n - w = - (left + a) \/ n - w = Domain - (left + a))
    BY <1>1, <1>2, <2>1, <2>2, <2>3, <2>4, <2>5
  <2>. PICK f \in Int : f = n - w
    BY <1>2, <2>6
  <2>7. - Domain <= f /\ f < 2 * Domain
    BY <1>1, <1>2, <2>1, <2>2, <2>6
  <2>8. f % Domain = IF f < 0 THEN f + Domain ELSE IF f < Domain THEN f ELSE f - Domain
    BY <2>7, ModDomain
  <2>9. f % Domain = Domain - (left + a)
    BY <1>1, <1>2, <2>1, <2>2, <2>6, <2>8
  <2>10. ~ (f % Domain > limit)
    BY <1>4
  <2> QED BY <1>1, <1>2, <2>2, <2>9, <2>10
<1>6. ahead[t] \in Nat /\ ahead[t] <= left
  BY DEF Left
<1>7. ahead[t] + a <= 0
  BY <1>1, <1>2, <1>5, <1>6
<1> QED BY <1>7 DEF Early

\* What the clock does to the delays, and who else writes them.
LEMMA AheadWritten ==
    ASSUME TypeInv, PlainStep, ~ InitRenews, ahead \in [Timers -> Nat]
    PROVE  /\ ahead' \in [Timers -> Nat]
           /\ \A t \in Timers : ahead'[t] <= ahead[t]
           /\ \/ UNCHANGED <<now, ahead>>
              \/ /\ Tick /\ UNCHANGED <<timer, mTimers, owner, callback>>
                 /\ now' = (now + 1) % Domain
                 /\ \A t \in Timers : ahead'[t] = IF ahead[t] > 0 THEN ahead[t] - 1 ELSE 0
<1>1. CASE Tick
  <2>1. now' = (now + 1) % Domain
        /\ ahead' = [t \in Timers |-> IF ahead[t] > 0 THEN ahead[t] - 1 ELSE 0]
        /\ UNCHANGED <<timer, mTimers, owner, callback>>
    BY <1>1 DEF Tick, sharedVars, ownerVars
  <2>2. \A t \in Timers : ahead'[t] = IF ahead[t] > 0 THEN ahead[t] - 1 ELSE 0
    BY <2>1
  <2>3. ASSUME NEW t \in Timers PROVE ahead'[t] \in Nat /\ ahead'[t] <= ahead[t]
    BY <2>2
  <2> QED BY <1>1, <2>1, <2>2, <2>3
<1>2. CASE UNCHANGED <<now, ahead>>
  BY <1>2
<1>3. ThreadStep \/ RunEvent \/ FireReturns \/ ShutdownReturns \/ Shutdown => UNCHANGED <<now, ahead>>
  BY DEF ThreadStep, RunTakesTimer, RunWaits, RunPolls, RunWakes, RunEnds, PostReadsGeneration,
         PostReadsType, PostStoresTimeout, PostAddsTimer, PostDispatches, RunEvent, EventIgnored,
         Fire, FireReturns, ShutdownReturns, Shutdown
<1>4. InitRemoves \/ InitClears \/ InitRetypes \/ SetDelayLoads \/ SetDelayStores \/ AddTimer
        \/ CancelRemoves => UNCHANGED <<now, ahead>>
  BY DEF InitRemoves, InitClears, InitRetypes, SetDelayLoads, SetDelayStores, AddTimer,
         CancelRemoves
<1>5. \A t \in Timers : Cancel(t) => UNCHANGED <<now, ahead>>
  BY DEF Cancel
<1>6. \A t \in Timers, type \in Types, delay \in Delays :
        InitCommon(t, type, delay) => UNCHANGED <<now, ahead>>
  BY DEF InitCommon
<1> QED BY <1>1, <1>2, <1>3, <1>4, <1>5, <1>6 DEF PlainStep

\* Who writes mDelay and mTimeout.
LEMMA TimeoutWritten ==
    ASSUME TypeInv, PlainStep, ~ InitRenews, NEW x \in Timers
    PROVE  \/ timer'[x].timeout = timer[x].timeout /\ timer'[x].delay = timer[x].delay
           \/ /\ PostStoresTimeout /\ x = thread.timer
              /\ timer'[x].timeout = (thread.base + Clamp(timer[x].delay)) % Domain
              /\ timer'[x].delay = Clamp(timer[x].delay)
           \/ /\ SetDelayStores /\ x = owner.timer
              /\ timer'[x].timeout = (owner.base + Clamp(owner.delay)) % Domain
              /\ timer'[x].delay = Clamp(owner.delay)
<1>1. timer \in [Timers -> TimerType] /\ timer[x] \in TimerType
  BY DEF TypeInv, TimersTyped
<1>2. CASE UNCHANGED timer
  BY <1>2
<1>3. CASE \E t, b : \/ timer' = [timer EXCEPT ![t].armed = b]
                     \/ timer' = [timer EXCEPT ![t].firing = b]
                     \/ timer' = [timer EXCEPT ![t].canceled = b]
                     \/ timer' = [timer EXCEPT ![t].type = b]
  <2>. PICK t, b : \/ timer' = [timer EXCEPT ![t].armed = b]
                   \/ timer' = [timer EXCEPT ![t].firing = b]
                   \/ timer' = [timer EXCEPT ![t].canceled = b]
                   \/ timer' = [timer EXCEPT ![t].type = b]
    BY <1>3
  <2> QED BY <1>1 DEF TimerType
<1>4. CASE PostStoresTimeout
  <2>. PICK t, base, delay : t = thread.timer /\ base = thread.base /\ delay = timer[t].delay
    OBVIOUS
  <2>1. t \in Timers
    BY <1>4 DEF PostStoresTimeout, TypeInv, ThreadTyped, Posting, Made
  <2>2. timer' = [timer EXCEPT ![t] = Delayed(timer[t], base, delay)]
    BY <1>1, <1>4, <2>1 DEF PostStoresTimeout
  <2>. PICK tm \in TimerType : tm = timer[t]
    BY <1>1, <2>1
  <2>. PICK c : c = Clamp(delay)
    OBVIOUS
  <2>. PICK sum : sum = (base + c) % Domain
    OBVIOUS
  <2>. PICK r : r = Delayed(tm, base, delay)
    OBVIOUS
  <2>3. r.timeout = sum /\ r.delay = c
    BY DEF Delayed, TimerType
  <2>4. timer' = [timer EXCEPT ![t] = r]
    BY <2>2
  <2> QED BY <1>1, <1>4, <2>1, <2>3, <2>4
<1>5. CASE SetDelayStores
  <2>. PICK t \in Timers : t = owner.timer
    BY <1>5 DEF SetDelayStores, TypeInv, OwnerTyped
  <2>. PICK r : r = Delayed(timer[t], owner.base, owner.delay)
    OBVIOUS
  <2>1. timer' = [timer EXCEPT ![t] = r]
    BY <1>1, <1>5 DEF SetDelayStores
  <2>2. r.timeout = (owner.base + Clamp(owner.delay)) % Domain /\ r.delay = Clamp(owner.delay)
    BY <1>1 DEF Delayed, TypeInv, TimersTyped, TimerType
  <2> QED BY <1>1, <1>5, <2>1, <2>2
<1>6. CASE Shutdown
  <2>. PICK tm \in TimerType : tm = timer[x]
    BY <1>1
  <2>. PICK b : b = (tm.armed /\ ~ Listed(x))
    OBVIOUS
  <2>1. timer'[x] = [tm EXCEPT !.armed = b]
    BY <1>6 DEF Shutdown
  <2> QED BY <2>1 DEF TimerType
<1>7. \/ UNCHANGED timer \/ PostStoresTimeout \/ SetDelayStores \/ Shutdown
      \/ \E t, b : \/ timer' = [timer EXCEPT ![t].armed = b]
                   \/ timer' = [timer EXCEPT ![t].firing = b]
                   \/ timer' = [timer EXCEPT ![t].canceled = b]
                   \/ timer' = [timer EXCEPT ![t].type = b]
  <2>1. RunTakesTimer \/ PostAddsTimer \/ AddTimer =>
          \E t, b : timer' = [timer EXCEPT ![t].armed = b]
    BY DEF RunTakesTimer, PostAddsTimer, AddTimer, AddTo, Arm
  <2>2. InitRemoves \/ CancelRemoves =>
          UNCHANGED timer \/ \E t, b : timer' = [timer EXCEPT ![t].armed = b]
    BY DEF InitRemoves, CancelRemoves, RemoveTimer, Arm
  <2>3. Fire \/ FireReturns => \E t, b : timer' = [timer EXCEPT ![t].firing = b]
    BY DEF Fire, FireReturns
  <2>4. \A t \in Timers : Cancel(t) => timer' = [timer EXCEPT ![t].canceled = TRUE]
    BY DEF Cancel
  <2>5. ThreadStep => RunTakesTimer \/ PostAddsTimer \/ PostStoresTimeout \/ UNCHANGED timer
    BY DEF ThreadStep, RunWaits, RunPolls, RunWakes, RunEnds, PostReadsGeneration, PostReadsType,
           PostDispatches
  <2>6. EventIgnored \/ ShutdownReturns \/ Tick \/ SetDelayLoads => UNCHANGED timer
    BY DEF EventIgnored, ShutdownReturns, Tick, SetDelayLoads
  <2>7. \A t \in Timers, type \in Types, delay \in Delays :
          InitCommon(t, type, delay) => UNCHANGED timer
    BY DEF InitCommon
  <2>8. /\ InitClears => \E t, b : timer' = [timer EXCEPT ![t].canceled = b]
        /\ InitRetypes => \E t, b : timer' = [timer EXCEPT ![t].type = b]
    BY DEF InitClears, InitRetypes
  <2> QED BY ZenonT(40), <2>1, <2>2, <2>3, <2>4, <2>5, <2>6, <2>7, <2>8 DEF PlainStep, RunEvent
<1> QED BY <1>2, <1>3, <1>4, <1>5, <1>6, <1>7

\* An interval passes.
LEMMA LeftTick ==
    ASSUME TypeInv, ahead \in [Timers -> Nat], NEW x \in Timers, NEW deadline \in Times,
           Left(x, deadline), ~ Early(x), now' = (now + 1) % Domain,
           ahead'[x] = IF ahead[x] > 0 THEN ahead[x] - 1 ELSE 0
    PROVE  Left(x, deadline)'
<1>. PICK n \in Times : n = now
  BY DEF TypeInv, ClockTyped
<1>. PICK e \in Int : e = n + 1
  BY DEF Times
<1>. PICK m : m = e % Domain
  OBVIOUS
<1>0. Domain \in Nat \ {0} /\ n \in 0 .. Domain - 1 /\ deadline \in 0 .. Domain - 1
  BY TimerAssumption DEF TimerAssumption, Times
<1>1. - Domain <= e /\ e < 2 * Domain
  BY <1>0
<1>2. m = IF e < Domain THEN e ELSE e - Domain
  BY <1>0, <1>1, ModDomain
<1>3. m \in Times
  BY <1>0, <1>2 DEF Times
<1>. PICK left : left = (deadline - n) % Domain
  OBVIOUS
<1>. PICK next : next = (deadline - m) % Domain
  OBVIOUS
<1>4. left = (IF n <= deadline THEN deadline - n ELSE deadline - n + Domain)
      /\ next = (IF m <= deadline THEN deadline - m ELSE deadline - m + Domain)
  BY <1>3, Difference
<1>5. ahead[x] \in Nat /\ ahead[x] <= left /\ ahead[x] # 0
  BY TimerAssumption DEF Left, Early, TimerAssumption
<1>6. next = left - 1
  BY <1>0, <1>2, <1>4, <1>5
<1>7. ahead'[x] <= next
  BY <1>0, <1>4, <1>5, <1>6
<1>8. PICK d \in Delays : left <= Clamp(d)
  BY DEF Left
<1>9. next <= Clamp(d)
  <2>1. Clamp(d) \in Nat
    BY ClampRange, HalfDomain, TimerAssumption DEF TimerAssumption
  <2> QED BY <1>0, <1>4, <1>6, <1>8, <2>1
<1>10. now' = m
  OBVIOUS
<1> QED BY <1>7, <1>8, <1>9, <1>10 DEF Left

\* A deadline that was right stays so.
LEMMA LeftKept ==
    ASSUME TypeInv, PlainStep, ~ InitRenews, ahead \in [Timers -> Nat], NEW x \in Timers,
           ~ Early(x), NEW deadline \in Times, Left(x, deadline)
    PROVE  Left(x, deadline)'
<1>1. CASE UNCHANGED <<now, ahead>>
  BY <1>1 DEF Left
<1>2. CASE /\ now' = (now + 1) % Domain
           /\ ahead'[x] = IF ahead[x] > 0 THEN ahead[x] - 1 ELSE 0
  BY <1>2, LeftTick
<1> QED BY <1>1, <1>2, AheadWritten

LEMMA WaitingStep ==
    ASSUME TypeInv, PlainInv, PlainStep, ~ InitRenews, DelaysFit, ahead \in [Timers -> Nat],
           NEW x \in Timers, Waiting(x), ~ Early(x)
    PROVE  Waiting(x)'
<1>0. thread.timer # x /\ ~ InQueue(queue, x) /\ callback # x
  BY DEF Waiting
<1>. PICK to \in Times : to = timer[x].timeout
  BY DEF TypeInv, TimersTyped, TimerType
<1>1. Left(x, to) => Left(x, to)'
  BY LeftKept
<1>2. ~ (RunTakesTimer /\ x = Head(mTimers))
  <2>. SUFFICES ASSUME RunTakesTimer, x = Head(mTimers) PROVE FALSE
    OBVIOUS
  <2>1. Due(x) /\ Listed(x)
    BY TailContains DEF RunTakesTimer, FirstDue, Listed, TypeInv, ListTyped
  <2> QED BY <2>1, DueEarly DEF Waiting
<1>3. thread'.timer # x /\ ~ InQueue(queue, x)' /\ callback' # x
  <2>1. thread'.timer # x
    BY <1>0, <1>2, HandWritten, TimerAssumption DEF TimerAssumption
  <2> QED BY <1>0, <2>1, Moves
<1>4. Adding(x)' => Adding(x)
  BY <1>0, Moves
<1>5. \/ timer'[x].timeout = to
      \/ /\ SetDelayStores /\ Adding(x) /\ x = owner.timer
         /\ timer'[x].timeout = (owner.base + Clamp(owner.delay)) % Domain
  <2>1. ~ (PostStoresTimeout /\ x = thread.timer)
    BY <1>0
  <2>2. SetDelayStores /\ x = owner.timer => Adding(x)
    BY DEF SetDelayStores, Adding
  <2> QED BY <2>1, <2>2, TimeoutWritten
<1>6. Listed(x)' => ~ Adding(x)' /\ Left(x, timer[x].timeout)'
  <2>. SUFFICES ASSUME Listed(x)' PROVE ~ Adding(x)' /\ Left(x, timer[x].timeout)'
    OBVIOUS
  <2>1. CASE Listed(x)
    <3>1. ~ Adding(x) /\ Left(x, to)
      BY <2>1 DEF Waiting
    <3>2. timer'[x].timeout = to
      BY <1>5, <3>1
    <3> QED BY <1>1, <1>4, <3>1, <3>2 DEF Left
  <2>2. CASE AddTimer /\ Adding(x)
    <3>1. owner.op = "add" /\ ~ Adding(x)'
      BY <2>2, AddingWritten DEF AddTimer
    <3>2. Left(x, to)
      BY <2>2, <3>1 DEF Waiting
    <3>3. timer'[x].timeout = to
      BY <1>5, <3>1 DEF SetDelayStores
    <3> QED BY <1>1, <3>1, <3>2, <3>3 DEF Left
  <2> QED BY <1>0, <2>1, <2>2, Moves
<1>7. Adding(x)' =>
         \/ /\ owner'.op \in {"type", "load"} /\ owner'.delay \in Delays
            /\ ahead'[x] <= Clamp(owner'.delay)
            /\ Precise(x)' => timer'[x].timeout = 0
         \/ owner'.op = "store" /\ Left(x, (owner.base + Clamp(owner.delay)) % Domain)'
         \/ owner'.op = "add" /\ Left(x, timer[x].timeout)'
  <2>. SUFFICES ASSUME Adding(x)'
                PROVE  \/ /\ owner'.op \in {"type", "load"} /\ owner'.delay \in Delays
                          /\ ahead'[x] <= Clamp(owner'.delay)
                          /\ Precise(x)' => timer'[x].timeout = 0
                       \/ owner'.op = "store" /\ Left(x, (owner.base + Clamp(owner.delay)) % Domain)'
                       \/ owner'.op = "add" /\ Left(x, timer[x].timeout)'
    OBVIOUS
  <2>0. Adding(x) /\ owner \in OwnerType /\ x = owner.timer
    BY <1>4 DEF TypeInv, OwnerTyped, Adding
  <2>. PICK base \in Times, delay \in Nat : base = owner.base /\ delay = owner.delay
    BY <2>0 DEF OwnerType
  <2>. PICK c \in 0 .. DELAY_INTERVAL_MAX : c = Clamp(delay)
    BY ClampRange
  <2>. PICK dl : dl = (base + c) % Domain
    OBVIOUS
  <2>1. dl \in Times
    BY Deadline
  <2>2. \/ /\ owner.op \in {"type", "load"} /\ delay \in Delays /\ ahead[x] <= c
           /\ Precise(x) => to = 0
        \/ owner.op = "store" /\ Left(x, dl)
        \/ owner.op = "add" /\ Left(x, to)
    BY <2>0 DEF Waiting
  <2>3. Precise(x)' <=> Precise(x)
    BY TypesWritten, KeepsMore
  <2>4. CASE UNCHANGED owner
    <3>1. timer'[x].timeout = to
      <4>1. ~ SetDelayStores
        <5>1. SetDelayStores => owner'.op # owner.op
          BY <2>0, DoneFacts DEF SetDelayStores, PlainInv, OwnerType
        <5> QED BY <2>4, <5>1
      <4> QED BY <1>5, <4>1
    <3>2. CASE owner.op \in {"type", "load"}
      <4>1. ahead'[x] \in Nat /\ ahead'[x] <= ahead[x] /\ ahead[x] \in Nat
        BY AheadWritten
      <4>2. ahead'[x] <= c
        BY <2>2, <3>2, <4>1, HalfDomain
      <4> QED BY <2>2, <2>3, <2>4, <3>1, <3>2, <4>2
    <3>3. CASE owner.op = "store"
      <4>1. Left(x, dl)'
        BY <2>1, <2>2, <3>3, LeftKept
      <4> QED BY <2>4, <3>3, <4>1 DEF Left
    <3>4. CASE owner.op = "add"
      BY <1>1, <2>2, <2>4, <3>1, <3>4 DEF Left
    <3> QED BY <2>2, <3>2, <3>3, <3>4
  <2>5. CASE /\ SetDelayLoads /\ owner.op = "load" /\ owner.timer \in Timers
             /\ owner' = [owner EXCEPT !.op = "store", !.base = DelayBase(owner.timer)]
    <3>1. ahead[x] <= c /\ (Precise(x) => to = 0) /\ delay \in Delays
      BY <2>2, <2>5
    <3>. PICK n \in Times : n = now
      BY DEF TypeInv, ClockTyped
    <3>2. DelayBase(x) = n
      BY <2>5, <3>1 DEF DelayBase, Precise, Kind
    <3>3. owner'.op = "store" /\ owner'.base = n /\ owner'.delay = delay
      BY <2>0, <2>5, <3>2 DEF OwnerType
    <3>4. UNCHANGED <<now, ahead>>
      BY <2>5 DEF SetDelayLoads
    <3>. PICK dn : dn = (n + c) % Domain
      OBVIOUS
    <3>5. dn \in Times /\ (dn - n) % Domain = c
      BY Deadline
    <3>6. Left(x, dn)
      <4>1. c <= Clamp(delay)
        BY HalfDomain
      <4> QED BY <3>1, <3>5, <4>1 DEF Left
    <3>7. Left(x, dn)'
      BY <3>4, <3>6 DEF Left
    <3>8. (owner'.base + Clamp(owner'.delay)) % Domain = dn
      BY <3>3
    <3> QED BY <3>3, <3>7, <3>8 DEF Left
  <2>6. CASE SetDelayStores /\ owner.op = "store"
             /\ owner' = [owner EXCEPT !.op = "add", !.base = 0, !.delay = 0]
    <3>1. Left(x, dl) /\ owner'.op = "add"
      BY <2>0, <2>2, <2>6 DEF OwnerType
    <3>2. Left(x, dl)'
      BY <2>1, <3>1, LeftKept
    <3>3. timer'[x].timeout = dl
      <4>1. ~ (PostStoresTimeout /\ x = thread.timer)
        BY <1>0
      <4>2. SetDelayStores => timer'[x].timeout = dl
        <5>. PICK r : r = Delayed(timer[x], base, delay)
          OBVIOUS
        <5>1. r.timeout = dl
          BY DEF Delayed, TypeInv, TimersTyped, TimerType
        <5>2. SetDelayStores => timer' = [timer EXCEPT ![x] = r]
          BY <2>0 DEF SetDelayStores, TypeInv, TimersTyped
        <5> QED BY <5>1, <5>2 DEF TypeInv, TimersTyped
      <4> QED BY <2>6, <4>2
    <3> QED BY <3>1, <3>2, <3>3 DEF Left
  <2>7. CASE owner' = [IdleOwner EXCEPT !.wake = owner.wake]
    BY <2>0, <2>7, DoneFacts DEF Adding
  <2>8. CASE owner.op \in {"none", "remove", "clear"}
    BY <2>0, <2>8 DEF Adding
  <2>9. CASE InitRetypes
    <3>1. owner.op = "type" /\ owner'.op = "load" /\ owner'.delay = delay
      BY <2>9, TypeInHand
    <3>2. timer'[x].timeout = to
      BY <1>5, <3>1 DEF SetDelayStores
    <3>3. ahead'[x] \in Nat /\ ahead'[x] <= ahead[x] /\ ahead[x] \in Nat
      BY AheadWritten
    <3>4. ahead'[x] <= c
      BY <2>2, <3>1, <3>3, HalfDomain
    <3> QED BY <2>2, <2>3, <3>1, <3>2, <3>4
  <2> QED BY <2>4, <2>5, <2>6, <2>7, <2>8, <2>9, OwnerWritten
<1> QED BY <1>3, <1>6, <1>7 DEF Waiting

LEMMA EarlyNext ==
    ASSUME TypeInv, PlainInv, FreshInv, EarlyInv, DelaysFit, PlainStep
    PROVE  EarlyInv'
<1>0. ahead \in [Timers -> Nat]
  BY DEF EarlyInv
<1>1. CASE InitRenews
  <2>. PICK t \in Timers : t = owner.timer
    BY <1>1 DEF InitRenews, TypeInv, OwnerTyped
  <2>. PICK delay \in Delays : delay = owner.delay
    BY <1>1 DEF InitRenews, PlainInv
  <2>0. Clamp(delay) \in Nat
    BY ClampRange, HalfDomain, TimerAssumption DEF TimerAssumption
  <2>1. UNCHANGED <<now, mTimers, thread, queue, callback>>
        /\ (NoReinit' => NoReinit /\ ~ Made(t))
        /\ \A x \in Timers \ {t} : timer'[x] = timer[x]
    BY <1>1, RenewEffect, InitedStep DEF InitRenews, sharedVars
  <2>2. ahead' = [ahead EXCEPT ![t] = Clamp(delay)] /\ fired' = [fired EXCEPT ![t] = 0]
    BY <1>1 DEF InitRenews
  <2>3. ahead' \in [Timers -> Nat] /\ ahead'[t] = Clamp(delay)
        /\ \A x \in Timers \ {t} : ahead'[x] = ahead[x] /\ fired'[x] = fired[x]
    BY <1>0, <2>0, <2>2 DEF FreshInv
  <2>4. \A x \in Timers : ~ Made(x)' => timer'[x].timeout = 0
    <3>1. Made(t)'
      BY <1>1, RenewEffect DEF TypeInv, OwnerTyped, Made
    <3> QED BY <2>1, <3>1 DEF EarlyInv, Made
  <2>5. NoReinit' /\ callback' # NoTimer => fired'[callback'] # 0
    <3>1. callback # NoTimer => Made(callback) /\ callback \in Timers
      BY DEF TypeInv, CallbackTyped
    <3> QED BY <2>1, <2>3, <3>1 DEF EarlyInv
  <2>6. ASSUME NEW x \in Timers, First(x)' PROVE Early(x)' \/ Waiting(x)'
    <3>1. CASE x = t
      <4>1. ~ Made(x) /\ timer[x].timeout = 0
        BY <2>1, <2>6, <3>1 DEF First, EarlyInv
      <4>2. ~ Listed(x) /\ ~ InQueue(queue, x) /\ thread.timer # x /\ callback # x
        BY <4>1, Nowhere
      <4>3. owner'.op = "type" /\ owner'.delay = delay /\ timer'[x].timeout = 0
        BY <1>1, <3>1, <4>1, RenewEffect
      <4>4. ahead'[x] <= Clamp(owner'.delay)
        BY <2>0, <2>3, <3>1, <4>3
      <4> QED BY <2>1, <4>2, <4>3, <4>4 DEF Waiting, Listed
    <3>2. CASE x # t
      <4>1. First(x)
        BY <2>1, <2>3, <2>6, <3>2 DEF First, Made
      <4>2. CASE Early(x)
        BY <2>3, <3>2, <4>2 DEF Early
      <4>3. CASE Waiting(x)
        <5>1. ~ Adding(x)'
          BY <1>1, <3>2, RenewEffect DEF Adding
        <5>2. Listed(x)' => Left(x, timer[x].timeout)'
          BY <2>1, <2>3, <3>2, <4>3 DEF Waiting, Listed, Left
        <5> QED BY <2>1, <4>3, <5>1, <5>2 DEF Waiting
      <4> QED BY <4>1, <4>2, <4>3 DEF EarlyInv
    <3> QED BY <3>1, <3>2
  <2> QED BY <2>3, <2>4, <2>5, <2>6 DEF EarlyInv
<1>2. CASE ~ InitRenews
  <2>1. /\ NoReinit' => NoReinit
        /\ \A x : Made(x)' <=> Made(x)
    BY <1>2, TypesWritten, OwnerWritten, KeepsMore
  <2>2. ahead' \in [Timers -> Nat] /\ \A t \in Timers : ahead'[t] <= ahead[t]
    BY <1>0, <1>2, AheadWritten
  <2>3. ASSUME NEW x \in Timers, ~ Made(x)' PROVE timer'[x].timeout = 0
    <3>1. ~ Made(x) /\ timer[x].timeout = 0
      BY <2>1, <2>3 DEF EarlyInv
    <3>2. thread.timer # x
      BY <3>1, Nowhere
    <3>3. ~ (SetDelayStores /\ x = owner.timer)
      BY <3>1 DEF SetDelayStores, TypeInv, OwnerTyped
    <3> QED BY <1>2, <3>1, <3>2, <3>3, TimeoutWritten
  <2>4. NoReinit' /\ callback' # NoTimer => fired'[callback'] # 0
    <3>. SUFFICES ASSUME NoReinit', callback' # NoTimer PROVE fired'[callback'] # 0
      OBVIOUS
    <3>1. CASE Fire
      <4>1. callback' \in Timers /\ fired[callback'] \in Nat
        <5>1. callback' \in Timers
          <6>1. queue \in Seq(EventType) /\ queue # << >> /\ callback' = Head(queue).timer
            BY <3>1 DEF Fire, TypeInv, QueueTyped
          <6> QED BY <6>1, TailEvents DEF EventType
        <5> QED BY <5>1 DEF FreshInv
      <4>2. fired'[callback'] = IF fired[callback'] < 2 THEN fired[callback'] + 1
                                ELSE fired[callback']
        <5>1. callback' # callback
          BY <3>1 DEF Fire, Idle
        <5>. PICK c \in Timers : c = callback'
          BY <4>1
        <5>. PICK n : n = IF fired[c] < 2 THEN fired[c] + 1 ELSE fired[c]
          OBVIOUS
        <5>2. fired' = [fired EXCEPT ![c] = n]
          BY <3>1 DEF Fire
        <5> QED BY <5>2 DEF FreshInv
      <4> QED BY <4>1, <4>2
    <3>2. CASE ~ Fire
      <4>1. callback' = callback
        BY <3>2, PostedWritten
      <4>2. UNCHANGED fired
        BY <1>2, <3>2, FiredWritten DEF FreshInv
      <4> QED BY <2>1, <4>1, <4>2 DEF EarlyInv
    <3> QED BY <3>1, <3>2
  <2>5. ASSUME NEW x \in Timers, First(x)' PROVE Early(x)' \/ Waiting(x)'
    <3>1. fired[x] = 0
      <4>1. fired[x] \in Nat
        BY DEF FreshInv
      <4>2. fired'[x] = fired[x] \/ fired'[x] = IF fired[x] < 2 THEN fired[x] + 1 ELSE fired[x]
        BY <1>2, FiredWritten DEF FreshInv
      <4> QED BY <2>5, <4>1, <4>2 DEF First
    <3>2. First(x)
      BY <2>1, <2>5, <3>1 DEF First
    <3>3. CASE Early(x)
      <4>1. PICK a \in Adjustments : ahead[x] + a <= 0
        BY <3>3 DEF Early
      <4>2. a \in Int /\ ahead[x] \in Nat /\ ahead'[x] \in Nat /\ ahead'[x] <= ahead[x]
        BY <1>0, <2>2, TimerAssumption DEF TimerAssumption
      <4>3. ahead'[x] + a <= 0
        BY <4>1, <4>2
      <4> QED BY <4>3 DEF Early
    <3>4. CASE ~ Early(x)
      BY <1>0, <1>2, <3>2, <3>4, WaitingStep DEF EarlyInv
    <3> QED BY <3>3, <3>4
  <2> QED BY <2>2, <2>3, <2>4, <2>5 DEF EarlyInv
<1> QED BY <1>1, <1>2

LEMMA EarlyInit == Init => EarlyInv
<1> SUFFICES ASSUME Init PROVE EarlyInv
  OBVIOUS
<1>1. ahead = [t \in Timers |-> 0] /\ callback = NoTimer
      /\ \A t \in Timers : ~ Made(t) /\ timer[t].timeout = 0
  BY DEF Init, Made, NewTimer
<1> QED BY <1>1 DEF EarlyInv, First

LEMMA EarlyFrame == ASSUME EarlyInv, UNCHANGED vars PROVE EarlyInv'
BY DEF vars, sharedVars, ownerVars, EarlyInv, First, Early, Waiting, Left, NoReinit, Made, Listed,
       Adding, Precise, Kind

\* nsITimer.idl:116: the first callback does not run before the delay given to
\* Init is over, give or take the adjustment, across any number of wraps of
\* PRIntervalTime: from SetDelayInternal's unlocked read of mTimeout to the
\* comparison in TimerThread::Run.
THEOREM TimersFireNotEarly ==
    ASSUME PlainUse, DelaysFit
    PROVE  SafetySpec => FiresNotEarly
<1> DEFINE Inv == OnceInv /\ EarlyInv
<1>1. Init => Inv
  BY TypeInit, PlainInit, PlacesInit, FreshInit, EarlyInit DEF OnceInv
<1>2. Inv /\ [Next]_vars => EarlyInv'
  <2>1. CASE Next
    BY <2>1, PlainNext, EarlyNext DEF OnceInv
  <2>2. CASE UNCHANGED vars
    BY <2>2, EarlyFrame
  <2> QED BY <2>1, <2>2
<1>3. Inv /\ [Next]_vars =>
        [\A t \in Timers : (NoReinit /\ callback' = t /\ callback # t /\ fired[t] = 0)
           => \E a \in Adjustments : ahead[t] + a <= 0]_vars
  <2> SUFFICES ASSUME Inv, Next, NEW t \in Timers,
                      NoReinit, callback' = t, callback # t, fired[t] = 0
               PROVE  \E a \in Adjustments : ahead[t] + a <= 0
    OBVIOUS
  <2>1. PlainStep
    BY PlainNext DEF OnceInv
  <2>2. Fire /\ InQueue(queue, t)
    <3>1. ~ InitRenews
      BY DEF InitRenews
    <3> QED BY <2>1, <3>1, Moves DEF OnceInv
  <2>3. First(t)
    BY <2>2 DEF First, OnceInv, TypeInv, QueueTyped
  <2>4. ~ Waiting(t)
    BY <2>2 DEF Waiting
  <2> QED BY <2>3, <2>4 DEF EarlyInv, Early
<1>4. SafetySpec => []OnceInv
  BY OnceInvHolds
<1> HIDE DEF Inv
<1>5. OnceInv /\ EarlyInv => Inv
  BY DEF Inv
<1>6. Inv => EarlyInv
  BY DEF Inv
<1>7. Init => EarlyInv
  BY <1>1, <1>6
<1> QED BY <1>2, <1>3, <1>4, <1>5, <1>7, PTL DEF SafetySpec, FiresNotEarly

-----------------------------------------------------------------------------
(* How far a reading of the clock is ahead of another, or behind it.        *)

Offset(n, x) ==
    LET d == (x - n) % Domain
    IN  IF d < DELAY_INTERVAL_LIMIT THEN d ELSE d - Domain

LEMMA ClockSize ==
    \E h \in Nat \ {0} : DELAY_INTERVAL_LIMIT = h /\ Domain = 2 * h /\ DELAY_INTERVAL_MAX = h - 1
BY HalfDomain

\* Ahead by less than half the clock, or behind by no more.
LEMMA OffsetIs ==
    ASSUME NEW n \in Times, NEW x \in Times
    PROVE  /\ Offset(n, x) \in Int
           /\ - DELAY_INTERVAL_LIMIT <= Offset(n, x) /\ Offset(n, x) < DELAY_INTERVAL_LIMIT
           /\ x = n + Offset(n, x) \/ x = n + Offset(n, x) - Domain \/ x = n + Offset(n, x) + Domain
<1>1. (x - n) % Domain = IF n <= x THEN x - n ELSE x - n + Domain
  BY Difference
<1>. PICK h \in Nat \ {0} : DELAY_INTERVAL_LIMIT = h /\ Domain = 2 * h
  BY ClockSize
<1>2. n \in 0 .. 2 * h - 1 /\ x \in 0 .. 2 * h - 1
  BY DEF Times
<1>. DEFINE e == IF n <= x THEN x - n ELSE x - n + 2 * h
<1>4. e \in Int
  BY <1>2
<1>. PICK d \in Int : d = e
  BY <1>4
<1>3. Offset(n, x) = IF d < h THEN d ELSE d - 2 * h
  BY <1>1 DEF Offset
<1> QED BY <1>2, <1>3

LEMMA OffsetOnly ==
    ASSUME NEW n \in Times, NEW x \in Times, NEW o \in Int,
           - DELAY_INTERVAL_LIMIT <= o, o < DELAY_INTERVAL_LIMIT,
           x = n + o \/ x = n + o - Domain \/ x = n + o + Domain
    PROVE  Offset(n, x) = o
<1>. PICK h \in Nat \ {0} : DELAY_INTERVAL_LIMIT = h /\ Domain = 2 * h
  BY ClockSize
<1>. PICK p \in Int : p = Offset(n, x)
  BY OffsetIs
<1>1. - h <= p /\ p < h /\ (x = n + p \/ x = n + p - 2 * h \/ x = n + p + 2 * h)
  BY OffsetIs
<1>2. n \in Int /\ x \in Int
  BY DEF Times
<1>3. p = o
  BY <1>1, <1>2
<1> QED BY <1>3

LEMMA OffsetNow == ASSUME NEW n \in Times PROVE Offset(n, n) = 0
<1>1. - DELAY_INTERVAL_LIMIT <= 0 /\ 0 < DELAY_INTERVAL_LIMIT /\ n = n + 0
  BY ClockSize DEF Times
<1> QED BY <1>1, OffsetOnly

\* A later, or an earlier, reading.
LEMMA OffsetAdd ==
    ASSUME NEW n \in Times, NEW x \in Times, NEW c \in Int,
           - DELAY_INTERVAL_LIMIT <= Offset(n, x) + c, Offset(n, x) + c < DELAY_INTERVAL_LIMIT
    PROVE  (x + c) % Domain \in Times /\ Offset(n, (x + c) % Domain) = Offset(n, x) + c
<1>. PICK h \in Nat \ {0} : DELAY_INTERVAL_LIMIT = h /\ Domain = 2 * h
  BY ClockSize
<1>. PICK o \in Int : o = Offset(n, x)
  BY OffsetIs
<1>1. - h <= o /\ o < h /\ (x = n + o \/ x = n + o - 2 * h \/ x = n + o + 2 * h)
  BY OffsetIs
<1>2. n \in 0 .. 2 * h - 1 /\ x \in 0 .. 2 * h - 1 /\ - h <= o + c /\ o + c < h
  BY DEF Times
<1>. PICK e \in Int : e = x + c
  BY <1>2
<1>3. - Domain <= e /\ e < 2 * Domain
  BY <1>1, <1>2
<1>. PICK y : y = e % Domain
  OBVIOUS
<1>4. y = IF e < 0 THEN e + 2 * h ELSE IF e < 2 * h THEN e ELSE e - 2 * h
  BY <1>3, ModDomain
<1>5. y \in Times
  BY <1>2, <1>3, <1>4 DEF Times
<1>. PICK p \in Int : p = o + c
  OBVIOUS
<1>6. e = n + p \/ e = n + p - 2 * h \/ e = n + p + 2 * h
  BY <1>1, <1>2
<1>7. y = e \/ y = e + 2 * h \/ y = e - 2 * h
  BY <1>4
<1>8. y \in 0 .. 2 * h - 1
  BY <1>5 DEF Times
<1>10. - h <= p /\ p < h
  BY <1>2
<1>9. y = n + p \/ y = n + p - 2 * h \/ y = n + p + 2 * h
  <2>1. CASE y = e
    BY <1>6, <2>1
  <2>2. CASE y = e + 2 * h
    <3>1. e # n + p + 2 * h
      BY <1>2, <1>8, <1>10, <2>2
    <3> QED BY <1>2, <1>6, <2>2, <3>1
  <2>3. CASE y = e - 2 * h
    <3>1. e # n + p - 2 * h
      BY <1>2, <1>8, <1>10, <2>3
    <3>2. e = n + p \/ e = n + p + 2 * h
      BY <1>6, <3>1
    <3>3. n \in Int
      BY <1>2
    <3>4. CASE e = n + p
      BY <2>3, <3>3, <3>4
    <3>5. CASE e = n + p + 2 * h
      <4>1. y = n + p
        BY <2>3, <3>3, <3>5
      <4> QED BY <4>1
    <3> QED BY <3>2, <3>4, <3>5
  <2> QED BY <1>7, <2>1, <2>2, <2>3
<1>11. y = n + p \/ y = n + p - Domain \/ y = n + p + Domain
  BY <1>9
<1>12. Offset(n, y) = p
  BY <1>5, <1>10, <1>11, OffsetOnly
<1> QED BY <1>5, <1>12

\* An interval passes.
LEMMA OffsetTick ==
    ASSUME NEW n \in Times, NEW x \in Times, Offset(n, x) > - DELAY_INTERVAL_LIMIT
    PROVE  (n + 1) % Domain \in Times /\ Offset((n + 1) % Domain, x) = Offset(n, x) - 1
<1>. PICK h \in Nat \ {0} : DELAY_INTERVAL_LIMIT = h /\ Domain = 2 * h
  BY ClockSize
<1>. PICK o \in Int : o = Offset(n, x)
  BY OffsetIs
<1>1. - h < o /\ o < h /\ (x = n + o \/ x = n + o - 2 * h \/ x = n + o + 2 * h)
  BY OffsetIs
<1>2. n \in 0 .. 2 * h - 1 /\ x \in 0 .. 2 * h - 1
  BY DEF Times
<1>. PICK e \in Int : e = n + 1
  BY <1>2
<1>. PICK m : m = e % Domain
  OBVIOUS
<1>7. - Domain <= e /\ e < 2 * Domain /\ 0 <= e
  BY <1>2
<1>3. m = IF e < 2 * h THEN e ELSE e - 2 * h
  BY <1>7, ModDomain
<1>4. m \in Times
  BY <1>2, <1>3 DEF Times
<1>. PICK p \in Int : p = o - 1
  OBVIOUS
<1>5. x = m + p \/ x = m + p - Domain \/ x = m + p + Domain
  BY <1>1, <1>2, <1>3
<1>6. Offset(m, x) = p
  BY <1>1, <1>4, <1>5, OffsetOnly
<1> QED BY <1>4, <1>6

\* TIMER_LESS_THAN compares offsets that are less than half the clock apart.
LEMMA OffsetLess ==
    ASSUME NEW n \in Times, NEW x \in Times, NEW y \in Times,
           Offset(n, y) - Offset(n, x) < DELAY_INTERVAL_LIMIT,
           Offset(n, x) - Offset(n, y) <= DELAY_INTERVAL_LIMIT
    PROVE  TIMER_LESS_THAN(x, y) <=> Offset(n, x) < Offset(n, y)
<1>. PICK h \in Nat \ {0} : DELAY_INTERVAL_LIMIT = h /\ Domain = 2 * h
  BY ClockSize
<1>. PICK o \in Int : o = Offset(n, x)
  BY OffsetIs
<1>. PICK p \in Int : p = Offset(n, y)
  BY OffsetIs
<1>1. /\ x = n + o \/ x = n + o - 2 * h \/ x = n + o + 2 * h
      /\ y = n + p \/ y = n + p - 2 * h \/ y = n + p + 2 * h
      /\ - h <= o /\ o < h /\ - h <= p /\ p < h
  BY OffsetIs
<1>2. n \in 0 .. 2 * h - 1 /\ x \in 0 .. 2 * h - 1 /\ y \in 0 .. 2 * h - 1
  BY DEF Times
<1>. PICK d : d = (x - y) % Domain
  OBVIOUS
<1>3. d = IF y <= x THEN x - y ELSE x - y + 2 * h
  BY Difference
<1>4. p - o < h /\ o - p <= h
  OBVIOUS
<1>5. d > h <=> o < p
  BY <1>1, <1>2, <1>3, <1>4
<1> QED BY <1>5 DEF TIMER_LESS_THAN

LEMMA OffsetFuture ==
    ASSUME NEW n \in Times, NEW x \in Times
    PROVE  TIMER_LESS_THAN(n, x) <=> Offset(n, x) > 0
<1>1. Offset(n, n) = 0
  BY OffsetNow
<1>. PICK h \in Nat \ {0} : DELAY_INTERVAL_LIMIT = h
  BY ClockSize
<1>. PICK o \in Int : o = Offset(n, x)
  BY OffsetIs
<1>2. - h <= o /\ o < h
  BY OffsetIs
<1>3. Offset(n, x) - Offset(n, n) < h /\ Offset(n, n) - Offset(n, x) <= h
  BY <1>1, <1>2
<1>4. TIMER_LESS_THAN(n, x) <=> Offset(n, n) < Offset(n, x)
  BY <1>3, OffsetLess
<1> QED BY <1>1, <1>4

\* The intervals until a reading that is ahead.
LEMMA OffsetAhead ==
    ASSUME NEW n \in Times, NEW x \in Times, Offset(n, x) >= 0
    PROVE  (x - n) % Domain = Offset(n, x)
<1>. PICK h \in Nat \ {0} : DELAY_INTERVAL_LIMIT = h /\ Domain = 2 * h
  BY ClockSize
<1>1. (x - n) % Domain = IF n <= x THEN x - n ELSE x - n + Domain
  BY Difference
<1>. PICK o \in Int : o = Offset(n, x)
  BY OffsetIs
<1>2. - h <= o /\ o < h /\ (x = n + o \/ x = n + o - 2 * h \/ x = n + o + 2 * h)
  BY OffsetIs
<1>3. n \in 0 .. 2 * h - 1 /\ x \in 0 .. 2 * h - 1 /\ o >= 0
  BY DEF Times
<1>4. (IF n <= x THEN x - n ELSE x - n + 2 * h) = o
  BY <1>2, <1>3
<1> QED BY <1>1, <1>4

\* It does not matter whether a sum was reduced before.
LEMMA ModTwice ==
    ASSUME NEW x \in Times, NEW n \in Times, NEW c \in Int, - Domain <= x + c, x + c < Domain
    PROVE  (x + c - n) % Domain = (((x + c) % Domain) - n) % Domain
<1>. PICK D \in Nat \ {0} : D = Domain
  BY TimerAssumption DEF TimerAssumption
<1>1. n \in 0 .. D - 1 /\ x \in 0 .. D - 1
  BY DEF Times
<1>. PICK e \in Int : e = x + c
  BY <1>1
<1>2. - D <= e /\ e < D
  OBVIOUS
<1>. PICK y : y = e % Domain
  OBVIOUS
<1>3. y = IF e < 0 THEN e + D ELSE e
  BY <1>2, ModDomain
<1>4. y \in Times
  BY <1>1, <1>2, <1>3 DEF Times
<1>5. (y - n) % Domain = IF n <= y THEN y - n ELSE y - n + D
  BY <1>4, Difference
<1>. PICK f \in Int : f = e - n
  BY <1>1
<1>9. x + c - n = f
  BY <1>1
<1>6. - 2 * D < f /\ f < D
  BY <1>1, <1>2
<1>7. CASE f < - D
  <2>1. f + 2 * D \in 0 .. D - 1
    BY <1>6, <1>7
  <2>2. f % D = f + 2 * D
    BY <1>6, <1>7, <2>1
  <2>3. (IF n <= y THEN y - n ELSE y - n + D) = f + 2 * D
    BY <1>1, <1>2, <1>3, <1>7
  <2> QED BY <1>5, <1>9, <2>2, <2>3
<1>8. CASE - D <= f
  <2>1. f % Domain = IF f < 0 THEN f + D ELSE f
    BY <1>6, <1>8, ModDomain
  <2>2. (IF n <= y THEN y - n ELSE y - n + D) = IF f < 0 THEN f + D ELSE f
    BY <1>1, <1>2, <1>3, <1>8
  <2> QED BY <1>5, <1>9, <2>1, <2>2
<1> QED BY <1>6, <1>7, <1>8

-----------------------------------------------------------------------------
(* mTimers is sorted, up to the timers that are overdue.                    *)

\* The adjustment makes the timer thread wake up early, not late, and the
\* longest delay, counted from a callback that came as early and a thread that
\* lags as much as they may, stays in the half of the clock that
\* TIMER_LESS_THAN can tell from the past.
DeadlinesFit ==
    \A a \in Adjustments :
        a <= 0 /\ \A d \in Delays \cup {0} : Clamp(d) - a + MaxLate < DELAY_INTERVAL_LIMIT

\* A deadline that is no further in the past than the threads lag, and close
\* enough in the future.
Near(n, l, x) == - l <= Offset(n, x) /\ Offset(n, x) + MaxLate < DELAY_INTERVAL_LIMIT

\* A deadline that has passed, but for the adjustment.
Reached(n, l, x) == - l <= Offset(n, x) /\ \E a \in Adjustments : Offset(n, x) + a <= 0

DelayFits(c) == \A a \in Adjustments : c - a + MaxLate < DELAY_INTERVAL_LIMIT

Offsets == [t \in Timers |-> Offset(now, timer[t].timeout)]

\* An element is behind one that is due sooner, or that is overdue.
Ordered(list, f) ==
    \A i, j \in DOMAIN list : i < j => f[list[i]] <= f[list[j]] \/ f[list[i]] <= 0

LEMMA OrderedTail ==
    ASSUME NEW list \in Seq(Timers), list # << >>, NEW f \in [Timers -> Int], Ordered(list, f)
    PROVE  Ordered(Tail(list), f)
<1>. PICK r : r = Tail(list)
  OBVIOUS
<1>1. r \in Seq(Timers) /\ Len(r) = Len(list) - 1 /\ \A j \in 1 .. Len(r) : r[j] = list[j + 1]
  OBVIOUS
<1>2. DOMAIN r = 1 .. Len(r) /\ DOMAIN list = 1 .. Len(list) /\ Len(list) \in Nat
  BY <1>1
<1>3. ASSUME NEW i \in 1 .. Len(r), NEW j \in 1 .. Len(r), i < j
      PROVE  f[r[i]] <= f[r[j]] \/ f[r[i]] <= 0
  <2>1. i + 1 \in DOMAIN list /\ j + 1 \in DOMAIN list /\ i + 1 < j + 1
    BY <1>1, <1>2, <1>3
  <2>2. r[i] = list[i + 1] /\ r[j] = list[j + 1]
    BY <1>1
  <2> QED BY <2>1, <2>2 DEF Ordered
<1> QED BY <1>2, <1>3 DEF Ordered

LEMMA OrderedRemove ==
    ASSUME NEW list \in Seq(Timers), NEW e, NEW f \in [Timers -> Int], Ordered(list, f)
    PROVE  Ordered(RemoveFirst(list, e), f)
<1>1. CASE Contains(list, e)
  <2>. PICK k \in 1 .. Len(list) : RemoveFirst(list, e) = RemoveAt(list, k)
    BY <1>1, RemoveFirstElems
  <2>. PICK r : r = RemoveAt(list, k)
    OBVIOUS
  <2>1. /\ r \in Seq(Timers) /\ Len(r) = Len(list) - 1
        /\ \A j \in 1 .. Len(list) - 1 : r[j] = IF j < k THEN list[j] ELSE list[j + 1]
    BY RemoveElems
  <2>2. DOMAIN r = 1 .. Len(list) - 1 /\ DOMAIN list = 1 .. Len(list) /\ Len(list) \in Nat
    BY <2>1
  <2>3. ASSUME NEW i \in 1 .. Len(list) - 1, NEW j \in 1 .. Len(list) - 1, i < j
        PROVE  f[r[i]] <= f[r[j]] \/ f[r[i]] <= 0
    <3>. PICK m \in DOMAIN list : m = (IF i < k THEN i ELSE i + 1)
      BY <2>2
    <3>. PICK n \in DOMAIN list : n = (IF j < k THEN j ELSE j + 1)
      BY <2>2
    <3>1. r[i] = list[m] /\ r[j] = list[n]
      BY <2>1
    <3>2. m < n
      BY <2>2, <2>3
    <3> QED BY <3>1, <3>2 DEF Ordered
  <2>4. Ordered(r, f)
    BY <2>2, <2>3 DEF Ordered
  <2> QED BY <2>4
<1>2. CASE ~ Contains(list, e)
  <2>1. \A i \in 1 .. Len(list) : list[i] # e
    BY <1>2 DEF Contains
  <2>2. RemoveFirst(list, e) = list
    BY <2>1 DEF RemoveFirst
  <2> QED BY <2>2
<1> QED BY <1>1, <1>2

Inserted(r, list, i, e) ==
    /\ r \in Seq(Timers) /\ Len(r) = Len(list) + 1 /\ r[i] = e
    /\ \A j \in 1 .. i - 1 : r[j] = list[j]
    /\ \A j \in i .. Len(list) : r[j + 1] = list[j]

LEMMA InsertTimer ==
    ASSUME NEW list \in Seq(Timers), NEW e \in Timers, NEW i \in 1 .. Len(list) + 1
    PROVE  Inserted(InsertAt(list, i, e), list, i, e)
BY InsertElems DEF Inserted

\* The place that AddTimerInternal looks for.
Fits(list, i, e, f) ==
    /\ \A j \in 1 .. i - 1 : f[list[j]] <= 0 \/ f[list[j]] <= f[e]
    /\ i <= Len(list) => f[list[i]] > 0 /\ f[e] < f[list[i]]

LEMMA OrderedInsert ==
    ASSUME NEW list \in Seq(Timers), NEW e \in Timers, NEW f \in [Timers -> Int],
           NEW i \in 1 .. Len(list) + 1, Fits(list, i, e, f), Ordered(list, f)
    PROVE  Ordered(InsertAt(list, i, e), f)
<1>. PICK r : r = InsertAt(list, i, e)
  OBVIOUS
<1>1. /\ r \in Seq(Timers) /\ Len(r) = Len(list) + 1 /\ r[i] = e
      /\ \A j \in 1 .. i - 1 : r[j] = list[j]
      /\ \A j \in i .. Len(list) : r[j + 1] = list[j]
  <2>1. Inserted(r, list, i, e)
    BY InsertTimer
  <2> QED BY <2>1 DEF Inserted
<1>2. DOMAIN r = 1 .. Len(list) + 1 /\ DOMAIN list = 1 .. Len(list) /\ Len(list) \in Nat
  BY <1>1
<1>3. ASSUME NEW j \in i .. Len(list) PROVE f[e] <= f[list[j]]
  <2>1. i \in DOMAIN list /\ j \in DOMAIN list /\ f[list[i]] > 0 /\ f[e] < f[list[i]]
    BY <1>2, <1>3 DEF Fits
  <2>4. i = j \/ i < j
    BY <1>2, <1>3
  <2>2. i = j \/ f[list[i]] <= f[list[j]] \/ f[list[i]] <= 0
    BY <2>1, <2>4 DEF Ordered
  <2>3. f[e] \in Int /\ f[list[i]] \in Int /\ f[list[j]] \in Int
    BY <2>1
  <2> QED BY <2>1, <2>2, <2>3
<1>4. \A j \in 1 .. Len(list) + 1 : j > i => j - 1 \in i .. Len(list) /\ r[j] = list[j - 1]
  <2> SUFFICES ASSUME NEW j \in 1 .. Len(list) + 1, j > i
               PROVE  j - 1 \in i .. Len(list) /\ r[j] = list[j - 1]
    OBVIOUS
  <2>1. j - 1 \in i .. Len(list) /\ (j - 1) + 1 = j
    BY <1>2
  <2> QED BY <1>1, <2>1
<1>5. ASSUME NEW m \in 1 .. Len(list) + 1, NEW n \in 1 .. Len(list) + 1, m < n
      PROVE  f[r[m]] <= f[r[n]] \/ f[r[m]] <= 0
  <2>1. CASE n < i
    <3>1. m \in DOMAIN list /\ n \in DOMAIN list /\ m \in 1 .. i - 1 /\ n \in 1 .. i - 1
      BY <1>2, <1>5, <2>1
    <3>2. r[m] = list[m] /\ r[n] = list[n]
      BY <1>1, <3>1
    <3> QED BY <1>5, <3>1, <3>2 DEF Ordered
  <2>2. CASE n = i
    <3>4. r[n] = e
      BY <1>1, <2>2
    <3>5. m \in Int /\ i \in Int /\ 1 <= m
      OBVIOUS
    <3>6. m < i
      BY <1>5, <2>2
    <3>1. m \in 1 .. i - 1
      BY <3>5, <3>6
    <3>3. r[m] = list[m]
      BY <1>1, <3>1
    <3>2. f[list[m]] <= 0 \/ f[list[m]] <= f[e]
      BY <3>1 DEF Fits
    <3> QED BY <3>1, <3>2, <3>3, <3>4
  <2>3. CASE n > i /\ m < i
    <3>1. n - 1 \in DOMAIN list /\ r[n] = list[n - 1] /\ m \in DOMAIN list /\ r[m] = list[m]
          /\ m < n - 1
      BY <1>1, <1>2, <1>4, <2>3
    <3> QED BY <3>1 DEF Ordered
  <2>4. CASE m = i
    <3>1. n - 1 \in i .. Len(list) /\ r[n] = list[n - 1]
      BY <1>4, <1>5, <2>4
    <3> QED BY <1>1, <1>3, <2>4, <3>1
  <2>5. CASE m > i
    <3>1. /\ m - 1 \in DOMAIN list /\ r[m] = list[m - 1]
          /\ n - 1 \in DOMAIN list /\ r[n] = list[n - 1] /\ m - 1 < n - 1
      BY <1>2, <1>4, <1>5, <2>5
    <3> QED BY <3>1 DEF Ordered
  <2> QED BY <1>2, <1>5, <2>1, <2>2, <2>3, <2>4, <2>5
<1>6. Ordered(r, f)
  BY <1>2, <1>5 DEF Ordered
<1> QED BY <1>6

LEMMA FitFacts ==
    ASSUME DeadlinesFit
    PROVE  /\ MaxLate \in Nat /\ MaxLate < DELAY_INTERVAL_LIMIT
           /\ \A a \in Adjustments : a \in Int /\ a <= 0 /\ MaxLate - a < DELAY_INTERVAL_LIMIT
           /\ 0 \in Adjustments
<1>1. 0 \in Adjustments /\ Adjustments \subseteq Int /\ MaxLate \in Nat
  BY TimerAssumption DEF TimerAssumption
<1>2. Clamp(0) = 0
  BY HalfDomain DEF Clamp
<1>3. \A a \in Adjustments : a <= 0 /\ Clamp(0) - a + MaxLate < DELAY_INTERVAL_LIMIT
  BY DEF DeadlinesFit
<1>. PICK h \in Nat : h = DELAY_INTERVAL_LIMIT
  BY HalfDomain
<1>4. ASSUME NEW a \in Adjustments
      PROVE  a \in Int /\ a <= 0 /\ MaxLate - a < h
  <2>1. a \in Int /\ 0 - a + MaxLate < h
    BY <1>1, <1>2, <1>3
  <2> QED BY <1>1, <1>3, <2>1
<1>5. MaxLate < h
  BY <1>1, <1>4
<1> QED BY <1>1, <1>4, <1>5

LEMMA NearRange ==
    ASSUME DeadlinesFit, NEW n \in Times, NEW x \in Times, NEW l \in 0 .. MaxLate,
           Near(n, l, x), NEW a \in Adjustments
    PROVE  /\ Offset(n, x) \in Int /\ a \in Int
           /\ - MaxLate <= Offset(n, x)
           /\ - DELAY_INTERVAL_LIMIT < Offset(n, x) + a
           /\ Offset(n, x) + a < DELAY_INTERVAL_LIMIT
<1>. PICK h \in Nat : h = DELAY_INTERVAL_LIMIT
  BY HalfDomain
<1>. PICK o \in Int : o = Offset(n, x)
  BY OffsetIs
<1>1. MaxLate \in Nat /\ a \in Int /\ a <= 0 /\ MaxLate - a < h
  BY FitFacts
<1>2. - l <= o /\ o + MaxLate < h
  BY DEF Near
<1>3. l \in Int /\ l <= MaxLate
  BY <1>1
<1>4. - MaxLate <= o /\ - h < o + a /\ o + a < h
  BY <1>1, <1>2, <1>3
<1> QED BY <1>1, <1>4

\* When the timer thread takes a timer, and how long it waits for it.
LEMMA DueOffset ==
    ASSUME TypeInv, DeadlinesFit, NEW t \in Timers, Near(now, late, timer[t].timeout)
    PROVE  /\ Due(t) <=> Offset(now, timer[t].timeout) + mTimeoutAdjustment <= 0
           /\ Offset(now, timer[t].timeout) + mTimeoutAdjustment >= 0 =>
                (timer[t].timeout + mTimeoutAdjustment - now) % Domain
                  = Offset(now, timer[t].timeout) + mTimeoutAdjustment
<1>. PICK x \in Times : x = timer[t].timeout
  BY DEF TypeInv, TimersTyped, TimerType
<1>. PICK n \in Times : n = now
  BY DEF TypeInv, ClockTyped
<1>. PICK l \in 0 .. MaxLate : l = late
  BY DEF TypeInv, ClockTyped
<1>. PICK a \in Adjustments : a = mTimeoutAdjustment
  BY DEF TypeInv, ClockTyped
<1>1. /\ Offset(n, x) \in Int /\ a \in Int /\ - DELAY_INTERVAL_LIMIT < Offset(n, x) + a
      /\ Offset(n, x) + a < DELAY_INTERVAL_LIMIT
  BY NearRange
<1>. PICK o \in Int : o = Offset(n, x)
  BY <1>1
<1>. PICK h \in Nat \ {0} : DELAY_INTERVAL_LIMIT = h /\ Domain = 2 * h
  BY ClockSize
<1>. PICK y : y = (x + a) % Domain
  OBVIOUS
<1>2. y \in Times /\ Offset(n, y) = o + a
  BY <1>1, OffsetAdd
<1>3. TIMER_LESS_THAN(n, y) <=> o + a > 0
  BY <1>2, OffsetFuture
<1>4. Due(t) <=> o + a <= 0
  BY <1>1, <1>3 DEF Due
<1>5. ASSUME o + a >= 0 PROVE (x + a - n) % Domain = o + a
  <2>1. (y - n) % Domain = o + a
    BY <1>2, <1>5, OffsetAhead
  <2>2. - Domain <= x + a /\ x + a < Domain
    <3>1. x \in 0 .. 2 * h - 1
      BY DEF Times
    <3>2. a \in Int /\ a <= 0 /\ MaxLate - a < h /\ MaxLate \in Nat
      BY FitFacts
    <3> QED BY <3>1, <3>2
  <2>3. (x + a - n) % Domain = (y - n) % Domain
    BY <1>1, <2>2, ModTwice
  <2> QED BY <2>1, <2>3
<1> QED BY <1>4, <1>5

LEMMA RemainingIs ==
    ASSUME TypeInv, NEW t \in Timers
    PROVE  /\ Offset(now, timer[t].timeout) \in Int
           /\ Remaining(t) = IF Offset(now, timer[t].timeout) > 0
                             THEN Offset(now, timer[t].timeout) ELSE 0
<1>. PICK x \in Times : x = timer[t].timeout
  BY DEF TypeInv, TimersTyped, TimerType
<1>. PICK n \in Times : n = now
  BY DEF TypeInv, ClockTyped
<1>1. Offset(n, x) \in Int
  BY OffsetIs
<1>2. TIMER_LESS_THAN(n, x) <=> Offset(n, x) > 0
  BY OffsetFuture
<1>3. Offset(n, x) >= 0 => (x - n) % Domain = Offset(n, x)
  BY OffsetAhead
<1>4. Remaining(t) = IF TIMER_LESS_THAN(n, x) THEN (x - n) % Domain ELSE 0
  BY DEF Remaining
<1> QED BY <1>1, <1>2, <1>3, <1>4

LEMMA OffsetsTyped ==
    ASSUME TypeInv
    PROVE  /\ Offsets \in [Timers -> Int]
           /\ \A t \in Timers : Offsets[t] = Offset(now, timer[t].timeout)
<1>1. \A t \in Timers : Offset(now, timer[t].timeout) \in Int
  BY RemainingIs
<1> QED BY <1>1 DEF Offsets

\* Two deadlines that are near are compared as their offsets are.
LEMMA NearLess ==
    ASSUME DeadlinesFit, NEW n \in Times, NEW l \in 0 .. MaxLate, NEW x \in Times, NEW y \in Times,
           Near(n, l, x), Near(n, l, y), Offset(n, y) > 0
    PROVE  TIMER_LESS_THAN(x, y) <=> Offset(n, x) < Offset(n, y)
<1>. PICK h \in Nat \ {0} : DELAY_INTERVAL_LIMIT = h
  BY ClockSize
<1>. PICK o \in Int : o = Offset(n, x)
  BY OffsetIs
<1>. PICK p \in Int : p = Offset(n, y)
  BY OffsetIs
<1>1. MaxLate \in Nat /\ 0 \in Adjustments
  BY FitFacts
<1>2. - MaxLate <= o /\ - h < o + 0 /\ o + 0 < h
  BY <1>1, NearRange
<1>3. p + MaxLate < h
  BY DEF Near
<1>4. p - o < h /\ o - p <= h
  BY <1>1, <1>2, <1>3
<1> QED BY <1>4, OffsetLess

LEMMA PointFits ==
    ASSUME TypeInv, DeadlinesFit, NEW t \in Timers, Near(now, late, timer[t].timeout),
           \A x \in Timers : Listed(x) => Near(now, late, timer[x].timeout)
    PROVE  Fits(mTimers, InsertionPoint(mTimers, t), t, Offsets)
<1>. PICK list \in Seq(Timers) : list = mTimers
  BY DEF TypeInv, ListTyped
<1>. PICK f \in [Timers -> Int] : f = Offsets
  BY OffsetsTyped
<1>0. \A x \in Timers : f[x] = Offset(now, timer[x].timeout)
  BY OffsetsTyped
<1> DEFINE before == {i \in DOMAIN list :
                        /\ TIMER_LESS_THAN(now, timer[list[i]].timeout)
                        /\ TIMER_LESS_THAN(timer[t].timeout, timer[list[i]].timeout)}
           p == InsertionPoint(list, t)
<1>1. DOMAIN list = 1 .. Len(list) /\ Len(list) \in Nat
  OBVIOUS
<1>2. p = IF before = {} THEN Len(list) + 1
          ELSE CHOOSE i \in before : \A j \in before : i <= j
  BY DEF InsertionPoint
<1>3. ASSUME NEW i \in 1 .. Len(list)
      PROVE  /\ list[i] \in Timers /\ f[list[i]] \in Int
             /\ i \in before <=> f[list[i]] > 0 /\ f[t] < f[list[i]]
  <2>1. list[i] \in Timers /\ i \in DOMAIN list
    BY <1>1
  <2>. PICK x \in Timers : x = list[i]
    BY <2>1
  <2>2. Listed(x)
    BY <1>1, <2>1 DEF Listed, Contains
  <2>3. /\ now \in Times /\ late \in 0 .. MaxLate
        /\ timer[t].timeout \in Times /\ timer[x].timeout \in Times
    BY DEF TypeInv, ClockTyped, TimersTyped, TimerType
  <2>4. TIMER_LESS_THAN(now, timer[x].timeout) <=> f[x] > 0
    BY <1>0, <2>3, OffsetFuture
  <2>5. f[x] > 0 => (TIMER_LESS_THAN(timer[t].timeout, timer[x].timeout) <=> f[t] < f[x])
    BY <1>0, <2>2, <2>3, NearLess
  <2>6. i \in before <=> /\ TIMER_LESS_THAN(now, timer[x].timeout)
                         /\ TIMER_LESS_THAN(timer[t].timeout, timer[x].timeout)
    BY <2>1
  <2> HIDE DEF before
  <2> QED BY <2>4, <2>5, <2>6
<1>4. before \in SUBSET Nat /\ before \subseteq 1 .. Len(list)
  BY <1>1
<1> HIDE DEF before, p
<1>5. CASE before = {}
  <2>1. p = Len(list) + 1
    BY <1>2, <1>5
  <2>2. ASSUME NEW j \in 1 .. p - 1 PROVE f[list[j]] <= 0 \/ f[list[j]] <= f[t]
    <3>1. j \in 1 .. Len(list)
      BY <1>1, <2>1
    <3>2. j \notin before
      BY <1>5
    <3>3. f[t] \in Int
      OBVIOUS
    <3> QED BY <1>3, <3>1, <3>2, <3>3
  <2>3. Fits(list, p, t, f)
    BY <1>1, <2>1, <2>2 DEF Fits
  <2> QED BY <2>3 DEF p
<1>6. CASE before # {}
  <2>1. \E i \in before : \A j \in before : i <= j
    BY <1>4, <1>6, LeastNatural
  <2>2. p \in before /\ \A j \in before : p <= j
    BY <1>2, <1>6, <2>1
  <2>3. p \in 1 .. Len(list)
    BY <1>4, <2>2
  <2>4. ASSUME NEW j \in 1 .. p - 1 PROVE f[list[j]] <= 0 \/ f[list[j]] <= f[t]
    <3>1. j \in 1 .. Len(list) /\ ~ (p <= j)
      BY <1>1, <2>3
    <3>2. j \notin before
      BY <2>2, <3>1
    <3>3. f[t] \in Int
      OBVIOUS
    <3> QED BY <1>3, <3>1, <3>2, <3>3
  <2>5. f[list[p]] > 0 /\ f[t] < f[list[p]]
    BY <1>3, <2>2, <2>3
  <2>6. Fits(list, p, t, f)
    BY <2>4, <2>5 DEF Fits
  <2> QED BY <2>6 DEF p
<1> QED BY <1>5, <1>6

\* A new deadline, from the time or from the deadline that was reached.
LEMMA DeadlineSum ==
    ASSUME DeadlinesFit, NEW n \in Times, NEW x \in Times, NEW l \in 0 .. MaxLate,
           Reached(n, l, x), NEW c \in Nat, DelayFits(c)
    PROVE  Near(n, l, (x + c) % Domain)
<1>. PICK h \in Nat \ {0} : DELAY_INTERVAL_LIMIT = h
  BY ClockSize
<1>. PICK o \in Int : o = Offset(n, x)
  BY OffsetIs
<1>. PICK a \in Adjustments : o + a <= 0
  BY DEF Reached
<1>1. MaxLate \in Nat /\ MaxLate < h /\ a \in Int
  BY FitFacts
<1>2. - l <= o /\ c - a + MaxLate < h
  BY DEF Reached, DelayFits
<1>3. - h <= o + c /\ o + c < h /\ - l <= o + c /\ o + c + MaxLate < h
  BY <1>1, <1>2
<1>4. Offset(n, (x + c) % Domain) = o + c
  BY <1>3, OffsetAdd
<1> QED BY <1>3, <1>4 DEF Near

\* The time itself is a deadline that was reached.
LEMMA ReachedNow ==
    ASSUME DeadlinesFit, NEW n \in Times, NEW l \in 0 .. MaxLate
    PROVE  Reached(n, l, n)
<1>1. Offset(n, n) = 0 /\ 0 \in Adjustments /\ MaxLate \in Nat
  BY OffsetNow, FitFacts
<1>2. - l <= 0
  BY <1>1
<1> QED BY <1>1, <1>2 DEF Reached

\* An interval passes and is counted.
LEMMA LagTick ==
    ASSUME DeadlinesFit, NEW n \in Times, NEW x \in Times, NEW l \in 0 .. MaxLate, l < MaxLate
    PROVE  /\ Near(n, l, x) => Near((n + 1) % Domain, l + 1, x)
           /\ Reached(n, l, x) => Reached((n + 1) % Domain, l + 1, x)
<1>. PICK h \in Nat \ {0} : DELAY_INTERVAL_LIMIT = h
  BY ClockSize
<1>. PICK o \in Int : o = Offset(n, x)
  BY OffsetIs
<1>. PICK m : m = (n + 1) % Domain
  OBVIOUS
<1>1. MaxLate \in Nat /\ MaxLate < h /\ \A a \in Adjustments : a \in Int
  BY FitFacts
<1>2. - l <= o => o > - h
  BY <1>1
<1>3. - l <= o => Offset(m, x) = o - 1
  BY <1>2, OffsetTick
<1>4. - l <= o => - (l + 1) <= o - 1
  BY <1>1
<1>5. Near(n, l, x) => Near(m, l + 1, x)
  <2> SUFFICES ASSUME Near(n, l, x) PROVE Near(m, l + 1, x)
    OBVIOUS
  <2>1. - l <= o /\ o + MaxLate < h
    BY DEF Near
  <2>2. o - 1 + MaxLate < h
    BY <1>1, <2>1
  <2> QED BY <1>3, <1>4, <2>1, <2>2 DEF Near
<1>6. Reached(n, l, x) => Reached(m, l + 1, x)
  <2> SUFFICES ASSUME Reached(n, l, x) PROVE Reached(m, l + 1, x)
    OBVIOUS
  <2>. PICK a \in Adjustments : o + a <= 0
    BY DEF Reached
  <2>1. - l <= o
    BY DEF Reached
  <2>2. o - 1 + a <= 0
    BY <1>1
  <2> QED BY <1>3, <1>4, <2>1, <2>2 DEF Reached
<1> QED BY <1>5, <1>6

-----------------------------------------------------------------------------
(* How long the timer thread sleeps.                                       *)

\* Delays are those of the owner's calls, and a precise timer gets its first
\* deadline from the time.
DelaysOK ==
    /\ \A t \in Timers : DelayFits(timer[t].delay) /\ (~ Made(t) => timer[t].timeout = 0)
    /\ owner.op \in {"type", "load", "store"} => DelayFits(Clamp(owner.delay))
    /\ owner.op \in {"type", "load"} /\ Precise(owner.timer) => timer[owner.timer].timeout = 0

Awake ==
    /\ mSleeping = FALSE /\ thread.polling = FALSE
    /\ thread.pc = "done" => mShutdown
    /\ mShutdown => thread.pc # "waiting"

NearList == \A t \in Timers : Listed(t) => Near(now, late, timer[t].timeout)

InTime == thread.pc = "waiting" => \A t \in Timers : Listed(t) => thread.left <= Remaining(t)

\* What each thread holds between two accesses.
ThreadDeadline ==
    /\ thread.pc \in {"post", "type"} /\ Precise(thread.timer) =>
         Reached(now, late, timer[thread.timer].timeout)
    /\ thread.pc = "store" => Reached(now, late, thread.base)
    /\ thread.pc = "add" => Near(now, late, timer[thread.timer].timeout)
OwnerDeadline ==
    /\ owner.op = "store" => Reached(now, late, owner.base)
    /\ owner.op = "add" => Near(now, late, timer[owner.timer].timeout)

Deadlines ==
    NearList /\ Ordered(mTimers, Offsets) /\ InTime /\ ThreadDeadline /\ OwnerDeadline

SleepInv == DelaysOK /\ Awake /\ (~ mShutdown => Deadlines)

\* What the timer thread goes on to do.
LEMMA ThreadMoves ==
    ASSUME TypeInv, PlainStep, mSleeping = FALSE
    PROVE  \/ UNCHANGED thread
           \/ thread' \in {ThreadAt("ready"), ThreadAt("posted")}
           \/ thread' = ThreadAt("done") /\ mShutdown
           \/ thread'.pc = "dispatch" /\ thread'.polling = thread.polling
           \/ RunWaits /\ thread'.pc = "waiting" /\ thread'.polling = FALSE
           \/ /\ RunTakesTimer /\ thread'.pc = "post" /\ thread'.timer = Head(mTimers)
              /\ thread'.polling = FALSE
           \/ /\ PostReadsGeneration /\ thread.pc = "post" /\ thread'.pc = "type"
              /\ thread'.timer = thread.timer /\ thread'.polling = thread.polling
           \/ /\ PostReadsType /\ thread.pc = "type" /\ timer[thread.timer].type = "REPEATING_PRECISE"
              /\ thread'.pc = "store" /\ thread'.base = DelayBase(thread.timer)
              /\ thread'.timer = thread.timer /\ thread'.polling = thread.polling
           \/ /\ PostStoresTimeout /\ thread.pc = "store" /\ thread'.pc = "add"
              /\ thread'.timer = thread.timer /\ thread'.polling = thread.polling
           \/ /\ Tick /\ thread.pc = "waiting" /\ thread.left \in 1 .. Domain - 1
              /\ thread'.pc = "waiting" /\ thread'.left = thread.left - 1
              /\ thread'.polling = thread.polling
<1>0. thread \in ThreadType
  BY DEF TypeInv, ThreadTyped
<1>1. RunTakesTimer => thread'.pc = "post" /\ thread'.timer = Head(mTimers)
                       /\ thread'.polling = FALSE
  <2>. PICK r \in ThreadType : r = ThreadAt("post") /\ r.pc = "post" /\ r.polling = FALSE
    BY ThreadAtFacts
  <2>. PICK h : h = Head(mTimers)
    OBVIOUS
  <2>1. RunTakesTimer => thread' = [r EXCEPT !.timer = h]
    BY DEF RunTakesTimer
  <2> QED BY <2>1 DEF ThreadType
<1>2. RunWaits => thread'.pc = "waiting" /\ thread'.polling = FALSE
  <2>. PICK r \in ThreadType : r = ThreadAt("waiting") /\ r.pc = "waiting" /\ r.polling = FALSE
    BY ThreadAtFacts
  <2>. PICK left : left = IF mTimers = << >> THEN Forever
            ELSE (timer[Head(mTimers)].timeout + mTimeoutAdjustment - now) % Domain
    OBVIOUS
  <2>1. RunWaits => thread' = [r EXCEPT !.left = left]
    BY DEF RunWaits
  <2> QED BY <2>1 DEF ThreadType
<1>3. ~ RunPolls
  BY DEF RunPolls
<1>4. RunWakes \/ PostDispatches => thread' \in {ThreadAt("ready"), ThreadAt("posted")}
  BY DEF RunWakes, PostDispatches
<1>5. RunEnds => thread' = ThreadAt("done") /\ mShutdown
  BY DEF RunEnds
<1>6. PostReadsGeneration => thread.pc = "post" /\ thread'.pc = "type"
                             /\ thread'.timer = thread.timer /\ thread'.polling = thread.polling
  <2>. PICK g : g = timer[thread.timer].generation
    OBVIOUS
  <2>1. PostReadsGeneration => thread.pc = "post"
                               /\ thread' = [thread EXCEPT !.pc = "type", !.generation = g]
    BY DEF PostReadsGeneration
  <2> QED BY <1>0, <2>1 DEF ThreadType
<1>7. PostReadsType =>
        \/ thread'.pc = "dispatch" /\ thread'.polling = thread.polling
        \/ /\ thread.pc = "type" /\ timer[thread.timer].type = "REPEATING_PRECISE"
           /\ thread'.pc = "store" /\ thread'.base = DelayBase(thread.timer)
           /\ thread'.timer = thread.timer /\ thread'.polling = thread.polling
  <2>. PICK base : base = DelayBase(thread.timer)
    OBVIOUS
  <2>1. PostReadsType => /\ thread.pc = "type"
                         /\ thread' = IF timer[thread.timer].type = "REPEATING_PRECISE"
                                      THEN [thread EXCEPT !.pc = "store", !.base = base]
                                      ELSE [thread EXCEPT !.pc = "dispatch"]
    BY DEF PostReadsType
  <2> QED BY <1>0, <2>1 DEF ThreadType
<1>8. PostStoresTimeout => thread.pc = "store" /\ thread'.pc = "add"
                           /\ thread'.timer = thread.timer /\ thread'.polling = thread.polling
  BY <1>0 DEF PostStoresTimeout, ThreadType
<1>9. PostAddsTimer => thread'.pc = "dispatch" /\ thread'.polling = thread.polling
  BY <1>0 DEF PostAddsTimer, ThreadType
<1>10. Tick => \/ UNCHANGED thread
               \/ /\ thread.pc = "waiting" /\ thread.left \in 1 .. Domain - 1
                  /\ thread'.pc = "waiting" /\ thread'.left = thread.left - 1
                  /\ thread'.polling = thread.polling
  BY <1>0 DEF Tick, ThreadType
<1>11. RunEvent \/ FireReturns \/ ShutdownReturns \/ InitClears \/ InitRenews \/ InitRetypes
         \/ SetDelayLoads \/ SetDelayStores => UNCHANGED thread
  BY DEF RunEvent, EventIgnored, Fire, FireReturns, ShutdownReturns, InitClears, InitRenews,
         InitRetypes, SetDelayLoads, SetDelayStores
<1>12. \A t \in Timers : Cancel(t) => UNCHANGED thread
  BY DEF Cancel
<1>13. \A t \in Timers, type \in Types, delay \in Delays :
         InitCommon(t, type, delay) => UNCHANGED thread
  BY DEF InitCommon
<1>14. InitRemoves \/ CancelRemoves \/ AddTimer \/ Shutdown =>
         UNCHANGED thread \/ thread' = ThreadAt("ready")
  BY DEF InitRemoves, CancelRemoves, AddTimer, Shutdown, RemoveTimer, AddTo, Notified
<1>15. ThreadStep => \/ RunTakesTimer \/ RunWaits \/ RunWakes \/ RunEnds \/ PostReadsGeneration
                     \/ PostReadsType \/ PostStoresTimeout \/ PostAddsTimer \/ PostDispatches
  BY <1>3 DEF ThreadStep
<1> QED BY <1>1, <1>2, <1>4, <1>5, <1>6, <1>7, <1>8, <1>9, <1>10, <1>11, <1>12, <1>13, <1>14, <1>15
        DEF PlainStep

\* The clock and the flags.
LEMMA ClockWritten ==
    ASSUME TypeInv, PlainStep
    PROVE  /\ UNCHANGED mSleeping
           /\ ~ Shutdown => UNCHANGED mShutdown
           /\ ~ Tick => UNCHANGED <<now, late>>
<1>1. ThreadStep \/ RunEvent \/ FireReturns \/ ShutdownReturns =>
        UNCHANGED <<mSleeping, mShutdown, now, late>>
  BY DEF ThreadStep, RunTakesTimer, RunWaits, RunPolls, RunWakes, RunEnds, PostReadsGeneration,
         PostReadsType, PostStoresTimeout, PostAddsTimer, PostDispatches, RunEvent, EventIgnored,
         Fire, FireReturns, ShutdownReturns, sharedVars
<1>2. Tick => UNCHANGED <<mSleeping, mShutdown>>
  BY DEF Tick, sharedVars
<1>3. InitRemoves \/ InitClears \/ InitRenews \/ InitRetypes \/ SetDelayLoads \/ SetDelayStores
        \/ AddTimer \/ CancelRemoves => UNCHANGED <<mSleeping, mShutdown, now, late>>
  BY DEF InitRemoves, InitClears, InitRenews, InitRetypes, SetDelayLoads, SetDelayStores, AddTimer,
         CancelRemoves, sharedVars
<1>4. \A t \in Timers : Cancel(t) => UNCHANGED <<mSleeping, mShutdown, now, late>>
  BY DEF Cancel, sharedVars
<1>5. \A t \in Timers, type \in Types, delay \in Delays :
        InitCommon(t, type, delay) => UNCHANGED <<mSleeping, mShutdown, now, late>>
  BY DEF InitCommon, sharedVars
<1>6. Shutdown => UNCHANGED <<mSleeping, now, late>>
  BY DEF Shutdown
<1> QED BY <1>1, <1>2, <1>3, <1>4, <1>5, <1>6 DEF PlainStep

LEMMA AwakeNext ==
    ASSUME TypeInv, PlainStep, Awake
    PROVE  Awake'
<1>1. mSleeping' = FALSE /\ (mShutdown => mShutdown')
  BY ClockWritten DEF Awake, Shutdown
<1>2. CASE Shutdown
  <2>1. thread' \in {thread, ThreadAt("ready")} /\ thread'.pc # "waiting" /\ mShutdown' = TRUE
    BY <1>2, NotifiedWorks DEF Shutdown, Notified
  <2>2. thread'.polling = FALSE
    BY <2>1, ThreadAtFacts DEF Awake
  <2> QED BY <1>1, <2>1, <2>2 DEF Awake
<1>3. CASE ~ Shutdown
  <2>1. mShutdown' = mShutdown
    BY <1>3, ClockWritten
  <2>2. CASE UNCHANGED thread
    BY <1>1, <2>1, <2>2 DEF Awake
  <2>3. CASE thread' \in {ThreadAt("ready"), ThreadAt("posted")}
    <3>1. thread'.pc \in {"ready", "posted"}
      BY <2>3, ThreadAtFacts
    <3>2. thread'.polling = FALSE
      BY <2>3, ThreadAtFacts
    <3> QED BY <1>1, <2>1, <3>1, <3>2 DEF Awake
  <2>9. CASE thread' = ThreadAt("done") /\ mShutdown
    BY <1>1, <2>1, <2>9, ThreadAtFacts DEF Awake
  <2>4. CASE RunWaits /\ thread'.pc = "waiting" /\ thread'.polling = FALSE
    BY <1>1, <2>1, <2>4 DEF Awake, RunWaits
  <2>5. CASE thread.pc = "waiting" /\ thread'.pc = "waiting" /\ thread'.polling = thread.polling
    BY <1>1, <2>1, <2>5 DEF Awake
  <2>6. CASE thread'.pc \in {"dispatch", "post", "type", "store", "add"}
             /\ thread'.polling \in {thread.polling, FALSE}
    BY <1>1, <2>1, <2>6 DEF Awake
  <2>7. mSleeping = FALSE
    BY DEF Awake
  <2>8. \/ UNCHANGED thread
        \/ thread' \in {ThreadAt("ready"), ThreadAt("posted")}
        \/ thread' = ThreadAt("done") /\ mShutdown
        \/ RunWaits /\ thread'.pc = "waiting" /\ thread'.polling = FALSE
        \/ thread.pc = "waiting" /\ thread'.pc = "waiting" /\ thread'.polling = thread.polling
        \/ thread'.pc \in {"dispatch", "post", "type", "store", "add"}
             /\ thread'.polling \in {thread.polling, FALSE}
    BY <2>7, ThreadMoves
  <2> QED BY <2>2, <2>3, <2>4, <2>5, <2>6, <2>8, <2>9
<1> QED BY <1>2, <1>3

\* Where a deadline is written, no list has the timer and the other thread is
\* not about to use it.
LEMMA WrittenApart ==
    ASSUME TypeInv, PlainInv, ListInv, NEW x \in Timers
    PROVE  /\ PostStoresTimeout /\ x = thread.timer => ~ Listed(x) /\ ~ Adding(x) /\ Made(x)
           /\ SetDelayStores /\ x = owner.timer =>
                /\ ~ Listed(x) /\ Made(x)
                /\ ~ (thread.timer = x /\ thread.pc \in {"post", "type"} /\ Precise(x))
                /\ ~ (thread.timer = x /\ thread.pc \in {"store", "add"})
<1>1. ListOnce(x)
  BY DEF ListInv
<1>2. PostStoresTimeout /\ x = thread.timer => ~ Listed(x) /\ ~ Adding(x) /\ Made(x)
  BY <1>1 DEF PostStoresTimeout, ListOnce, TypeInv, ThreadTyped, Posting
<1>3. SetDelayStores /\ x = owner.timer => Adding(x) /\ Made(x)
  BY DEF SetDelayStores, Adding, TypeInv, OwnerTyped
<1>4. SetDelayStores /\ x = owner.timer => ~ Listed(x)
  BY <1>1, <1>3 DEF ListOnce
<1>5. SetDelayStores /\ x = owner.timer =>
        /\ ~ (thread.timer = x /\ thread.pc \in {"post", "type"} /\ Precise(x))
        /\ ~ (thread.timer = x /\ thread.pc \in {"store", "add"})
  BY <1>1, <1>3 DEF ListOnce
<1> QED BY <1>2, <1>3, <1>4, <1>5

\* The owner's call goes on.
LEMMA OwnerGoesOn ==
    ASSUME TypeInv, PlainInv, PlainStep, ~ InitRenews
    PROVE  \/ UNCHANGED owner
           \/ owner' = [IdleOwner EXCEPT !.wake = owner.wake]
           \/ /\ FireReturns
              /\ owner.op = "none" /\ callback \in Timers /\ Slack(callback)
              /\ owner' = [owner EXCEPT !.op = "load", !.timer = callback,
                                        !.delay = timer[callback].delay, !.then = "add"]
           \/ owner'.op \in {"remove", "clear", "generation", "cancel"}
           \/ /\ InitRetypes /\ owner.op = "type" /\ owner'.op = "load"
              /\ owner'.timer = owner.timer /\ owner'.delay = owner.delay
           \/ /\ SetDelayLoads /\ owner.op = "load" /\ owner.timer \in Timers
              /\ owner' = [owner EXCEPT !.op = "store", !.base = DelayBase(owner.timer)]
           \/ /\ SetDelayStores /\ owner.op = "store"
              /\ owner'.op = "add" /\ owner'.timer = owner.timer
<1>0. owner \in OwnerType
  BY DEF TypeInv, OwnerTyped
<1>1. CASE \E t \in Timers, type \in Types, delay \in Delays :
              /\ InitCommon(t, type, delay)
              /\ owner.op = "none"
              /\ owner' = [owner EXCEPT !.op = IF timer[t].armed THEN "remove" ELSE "clear",
                                        !.timer = t, !.type = type, !.delay = delay]
  <2>. PICK t \in Timers, type \in Types, delay \in Delays :
              owner' = [owner EXCEPT !.op = IF timer[t].armed THEN "remove" ELSE "clear",
                                     !.timer = t, !.type = type, !.delay = delay]
    BY <1>1
  <2>. PICK op : op = IF timer[t].armed THEN "remove" ELSE "clear"
    OBVIOUS
  <2>1. owner' = [owner EXCEPT !.op = op, !.timer = t, !.type = type, !.delay = delay]
    OBVIOUS
  <2>2. owner'.op = op
    BY <1>0, <2>1 DEF OwnerType
  <2> QED BY <2>2
<1>2. CASE InitRemoves /\ owner.op = "remove" /\ owner' = [owner EXCEPT !.op = "clear"]
  BY <1>0, <1>2 DEF OwnerType
<1>3. CASE /\ SetDelayStores /\ owner.op = "store"
           /\ owner' = [owner EXCEPT !.op = "add", !.base = 0, !.delay = 0]
  BY <1>0, <1>3 DEF OwnerType
<1>4. CASE \E t \in Timers :
              owner.op = "none" /\ owner' = [owner EXCEPT !.op = "cancel", !.timer = t]
  BY <1>0, <1>4 DEF OwnerType
<1>5. CASE InitClears /\ owner.op = "clear" /\ owner' = [owner EXCEPT !.op = "generation"]
  BY <1>0, <1>5 DEF OwnerType
<1>6. CASE InitRetypes
  BY <1>6, TypeInHand
<1> QED BY <1>1, <1>2, <1>3, <1>4, <1>5, <1>6, OwnerWritten

LEMMA DelaysNext ==
    ASSUME TypeInv, PlainInv, ListInv, PlainStep, DeadlinesFit, Reinit \subseteq {"ONE_SHOT"},
           DelaysOK
    PROVE  DelaysOK'
<1>0. owner \in OwnerType
  BY DEF TypeInv, OwnerTyped
<1>1. CASE InitRenews
  <2>. PICK t \in Timers : t = owner.timer
    BY <1>1 DEF InitRenews, TypeInv, OwnerTyped
  <2>1. /\ owner.op = "generation" /\ owner'.op = "type" /\ owner'.timer = t
        /\ owner'.delay = owner.delay /\ timer'[t].timeout = timer[t].timeout
        /\ Kind(t)' = owner.type /\ timer'[t].generation = gGenerator + 1
        /\ timer'[t].delay = timer[t].delay
        /\ \A x \in Timers \ {t} : timer'[x] = timer[x]
    BY <1>1, RenewEffect
  <2>3. MayInit(t, owner.type) /\ owner.delay \in Delays
    BY <2>1 DEF PlainInv
  <2>4. DelayFits(Clamp(owner.delay))
    BY <2>3 DEF DeadlinesFit, DelayFits
  <2>5. gGenerator + 1 # 0
    BY DEF TypeInv, OwnerTyped
  <2>6. ASSUME NEW x \in Timers
        PROVE  DelayFits(timer'[x].delay) /\ (~ Made(x)' => timer'[x].timeout = 0)
    <3>1. CASE x = t
      BY <2>1, <2>5, <3>1 DEF DelaysOK, Made
    <3>2. CASE x # t
      BY <2>1, <3>2 DEF DelaysOK, Made
    <3> QED BY <3>1, <3>2
  <2>7. owner.type = "REPEATING_PRECISE" => timer[t].timeout = 0
    BY <2>3 DEF MayInit, DelaysOK, Made
  <2>8. Precise(t)' => timer'[t].timeout = 0
    BY <2>1, <2>7 DEF Precise
  <2>9. DelayFits(Clamp(owner'.delay))
    BY <2>1, <2>4
  <2>10. Precise(owner.timer)' => timer'[owner'.timer].timeout = 0
    BY <2>1, <2>8 DEF Precise, Kind
  <2> QED BY <2>6, <2>9, <2>10 DEF DelaysOK
<1>2. CASE ~ InitRenews
  <2>1. KeepsTypes
    BY <1>2, TypesWritten
  <2>2. /\ \A x \in Timers : Made(x)' <=> Made(x)
        /\ \A x \in Timers : Precise(x)' <=> Precise(x)
    BY <2>1, KeepsMore
  <2>3. \A x \in Timers : timer[x].delay \in Nat /\ Clamp(timer[x].delay) = timer[x].delay
    BY HalfDomain DEF TypeInv, TimersTyped, TimerType, Clamp
  <2>4. ASSUME NEW x \in Timers
        PROVE  DelayFits(timer'[x].delay) /\ (~ Made(x)' => timer'[x].timeout = 0)
    <3>1. CASE timer'[x].timeout = timer[x].timeout /\ timer'[x].delay = timer[x].delay
      BY <2>2, <3>1 DEF DelaysOK
    <3>2. CASE PostStoresTimeout /\ x = thread.timer /\ timer'[x].delay = Clamp(timer[x].delay)
      BY <2>2, <2>3, <3>2, WrittenApart DEF DelaysOK
    <3>3. CASE SetDelayStores /\ x = owner.timer /\ timer'[x].delay = Clamp(owner.delay)
      BY <2>2, <3>3, WrittenApart DEF DelaysOK, SetDelayStores
    <3> QED BY <1>2, <3>1, <3>2, <3>3, TimeoutWritten
  <2>6. ASSUME NEW x \in Timers, x = owner.timer, owner.op \in {"type", "load"}, Precise(x)'
        PROVE  timer'[x].timeout = 0
    <3>1. timer[x].timeout = 0 /\ Adding(x)
      BY <2>2, <2>6 DEF DelaysOK, Adding
    <3>2. ~ SetDelayStores /\ ~ (PostStoresTimeout /\ x = thread.timer)
      BY <2>6, <3>1, WrittenApart DEF SetDelayStores
    <3> QED BY <1>2, <3>1, <3>2, TimeoutWritten
  <2>5. ASSUME NEW x, x = owner'.timer
        PROVE  /\ owner'.op \in {"type", "load", "store"} => DelayFits(Clamp(owner'.delay))
               /\ owner'.op \in {"type", "load"} /\ Precise(x)' => timer'[x].timeout = 0
    <3>1. CASE UNCHANGED owner
      <4>1. owner.op \in {"type", "load"} => x \in Timers
        BY <2>5, <3>1 DEF TypeInv, OwnerTyped
      <4> QED BY <2>5, <2>6, <3>1, <4>1 DEF DelaysOK
    <3>2. CASE owner' = [IdleOwner EXCEPT !.wake = owner.wake]
      BY <1>0, <3>2, DoneFacts
    <3>3. CASE /\ FireReturns
               /\ owner.op = "none" /\ callback \in Timers /\ Slack(callback)
               /\ owner' = [owner EXCEPT !.op = "load", !.timer = callback,
                                         !.delay = timer[callback].delay, !.then = "add"]
      <4>. PICK d : d = timer[callback].delay
        OBVIOUS
      <4>1. owner' = [owner EXCEPT !.op = "load", !.timer = callback, !.delay = d, !.then = "add"]
        BY <3>3
      <4>2. owner'.timer = callback /\ owner'.delay = d
        BY <1>0, <4>1 DEF OwnerType
      <4>3. DelayFits(Clamp(d))
        BY <2>3, <3>3 DEF DelaysOK
      <4>4. ~ Precise(x)'
        <5>. PICK c \in Timers : c = callback
          BY <3>3
        <5>1. Slack(c) /\ x = c
          BY <2>5, <3>3, <4>2
        <5> QED BY <2>2, <5>1 DEF Slack, Precise
      <4> QED BY <4>3, <4>2, <4>4
    <3>5. CASE /\ SetDelayLoads /\ owner.op = "load" /\ owner.timer \in Timers
               /\ owner' = [owner EXCEPT !.op = "store", !.base = DelayBase(owner.timer)]
      <4>. PICK b : b = DelayBase(owner.timer)
        OBVIOUS
      <4>1. owner'.op = "store" /\ owner'.delay = owner.delay
        BY <1>0, <3>5 DEF OwnerType
      <4> QED BY <3>5, <4>1 DEF DelaysOK
    <3>6. CASE owner'.op \in {"remove", "clear", "generation", "cancel", "add"}
      BY <3>6
    <3>7. CASE /\ owner.op = "type" /\ owner'.op = "load"
               /\ owner'.timer = owner.timer /\ owner'.delay = owner.delay
      <4>1. x \in Timers /\ x = owner.timer
        BY <2>5, <3>7 DEF TypeInv, OwnerTyped
      <4> QED BY <2>6, <3>7, <4>1 DEF DelaysOK
    <3> QED BY <1>2, <3>1, <3>2, <3>3, <3>5, <3>6, <3>7, OwnerGoesOn
  <2>7. Precise(owner.timer)' => \E x : x = owner'.timer /\ Precise(x)'
    BY DEF Precise, Kind
  <2> QED BY <2>4, <2>5, <2>7 DEF DelaysOK
<1> QED BY <1>1, <1>2

\* All that a step starts from, while the timer thread is not shut down.
Sleeping == TypeInv /\ PlainInv /\ ListInv /\ DelaysOK /\ Awake /\ Deadlines

\* A deadline that is listed, or about to be, is not written.
LEMMA DeadlineKept ==
    ASSUME TypeInv, PlainInv, ListInv, PlainStep, NEW x \in Timers,
           \/ Listed(x)
           \/ owner.op = "add" /\ owner.timer = x
           \/ thread.timer = x /\ thread.pc \in {"post", "type"} /\ Precise(x)
           \/ thread.timer = x /\ thread.pc = "add"
    PROVE  timer'[x].timeout = timer[x].timeout
<1>1. CASE InitRenews
  <2>. PICK t \in Timers : t = owner.timer
    BY <1>1 DEF InitRenews, TypeInv, OwnerTyped
  <2> QED BY <1>1, RenewEffect
<1>2. CASE ~ InitRenews
  <2>1. ~ (PostStoresTimeout /\ x = thread.timer)
    <3> SUFFICES ASSUME PostStoresTimeout, x = thread.timer PROVE FALSE
      OBVIOUS
    <3>1. ~ Listed(x) /\ ~ Adding(x) /\ thread.pc = "store"
      BY WrittenApart DEF PostStoresTimeout
    <3> QED BY <3>1 DEF Adding
  <2>2. ~ (SetDelayStores /\ x = owner.timer)
    <3> SUFFICES ASSUME SetDelayStores, x = owner.timer PROVE FALSE
      OBVIOUS
    <3>1. owner.op = "store"
      BY DEF SetDelayStores
    <3> QED BY <3>1, WrittenApart
  <2> QED BY <1>2, <2>1, <2>2, TimeoutWritten
<1> QED BY <1>1, <1>2

LEMMA ListedBefore ==
    ASSUME TypeInv, PlainInv, PlainStep, NEW x \in Timers, Listed(x)'
    PROVE  \/ Listed(x)
           \/ PostAddsTimer /\ x = thread.timer /\ thread.pc = "add"
           \/ AddTimer /\ x = owner.timer /\ owner.op = "add"
<1>1. PostAddsTimer => thread.pc = "add"
  BY DEF PostAddsTimer
<1>2. AddTimer => owner.op = "add"
  BY DEF AddTimer
<1> QED BY <1>1, <1>2, ListWritten

LEMMA NearListNext ==
    ASSUME Sleeping, PlainStep, ~ Tick
    PROVE  NearList'
<1>. USE DEF Sleeping
<1> SUFFICES ASSUME NEW x \in Timers, Listed(x)' PROVE Near(now', late', timer'[x].timeout)
  BY DEF NearList
<1>1. now' = now /\ late' = late
  BY ClockWritten
<1>2. CASE Listed(x)
  BY <1>1, <1>2, DeadlineKept DEF Deadlines, NearList
<1>3. CASE PostAddsTimer /\ x = thread.timer /\ thread.pc = "add"
  BY <1>1, <1>3, DeadlineKept DEF Deadlines, ThreadDeadline
<1>4. CASE AddTimer /\ x = owner.timer /\ owner.op = "add"
  BY <1>1, <1>4, DeadlineKept DEF Deadlines, OwnerDeadline
<1> QED BY <1>2, <1>3, <1>4, ListedBefore

\* What is done to mTimers.
LEMMA ListMoves ==
    ASSUME TypeInv, PlainStep
    PROVE  \/ UNCHANGED mTimers
           \/ mTimers # << >> /\ mTimers' = Tail(mTimers)
           \/ \E t \in Timers : mTimers' = RemoveFirst(mTimers, t)
           \/ /\ thread.timer \in Timers /\ thread.pc = "add"
              /\ mTimers' = InsertAt(mTimers, InsertionPoint(mTimers, thread.timer), thread.timer)
           \/ /\ owner.timer \in Timers /\ owner.op = "add"
              /\ mTimers' = InsertAt(mTimers, InsertionPoint(mTimers, owner.timer), owner.timer)
           \/ mTimers' = << >>
<1>1. RunTakesTimer => mTimers # << >> /\ mTimers' = Tail(mTimers)
  BY DEF RunTakesTimer, FirstDue
<1>2. PostAddsTimer => /\ thread.timer \in Timers /\ thread.pc = "add"
        /\ mTimers' = InsertAt(mTimers, InsertionPoint(mTimers, thread.timer), thread.timer)
  BY DEF PostAddsTimer, TypeInv, ThreadTyped, Posting, Made
<1>3. AddTimer => /\ owner.timer \in Timers /\ owner.op = "add"
        /\ mTimers' = InsertAt(mTimers, InsertionPoint(mTimers, owner.timer), owner.timer)
  BY DEF AddTimer, AddTo, TypeInv, OwnerTyped
<1>4. InitRemoves \/ CancelRemoves =>
        owner.timer \in Timers /\ mTimers' = RemoveFirst(mTimers, owner.timer)
  BY DEF InitRemoves, CancelRemoves, RemoveTimer, TypeInv, OwnerTyped
<1>5. Shutdown => mTimers' = << >>
  BY DEF Shutdown
<1>6. ThreadStep => RunTakesTimer \/ PostAddsTimer \/ UNCHANGED mTimers
  BY DEF ThreadStep, RunWaits, RunPolls, RunWakes, RunEnds, PostReadsGeneration, PostReadsType,
         PostStoresTimeout, PostDispatches, sharedVars
<1>7. RunEvent \/ FireReturns \/ ShutdownReturns \/ Tick \/ InitClears \/ InitRenews
        \/ InitRetypes \/ SetDelayLoads \/ SetDelayStores => UNCHANGED mTimers
  BY DEF RunEvent, EventIgnored, Fire, FireReturns, ShutdownReturns, Tick, InitClears, InitRenews,
         InitRetypes, SetDelayLoads, SetDelayStores, sharedVars
<1>8. \A t \in Timers : Cancel(t) => UNCHANGED mTimers
  BY DEF Cancel, sharedVars
<1>9. \A t \in Timers, type \in Types, delay \in Delays :
        InitCommon(t, type, delay) => UNCHANGED mTimers
  BY DEF InitCommon, sharedVars
<1> QED BY <1>1, <1>2, <1>3, <1>4, <1>5, <1>6, <1>7, <1>8, <1>9 DEF PlainStep

LEMMA OrderedSame ==
    ASSUME NEW list \in Seq(Timers), NEW f, NEW g,
           \A x \in Timers : Contains(list, x) => g[x] = f[x]
    PROVE  Ordered(list, f) => Ordered(list, g)
<1>1. ASSUME NEW i \in DOMAIN list PROVE g[list[i]] = f[list[i]]
  <2>1. i \in 1 .. Len(list) /\ list[i] \in Timers
    OBVIOUS
  <2>2. Contains(list, list[i])
    BY <2>1 DEF Contains
  <2> QED BY <2>1, <2>2
<1> QED BY <1>1 DEF Ordered

LEMMA OrderedNext ==
    ASSUME Sleeping, TypeInv', PlainStep, ~ Tick, DeadlinesFit
    PROVE  Ordered(mTimers, Offsets)'
<1>. PICK list \in Seq(Timers) : list = mTimers
  BY DEF Sleeping, TypeInv, ListTyped
<1>. PICK f \in [Timers -> Int] : f = Offsets
  BY OffsetsTyped DEF Sleeping
<1>0. Ordered(list, f)
  BY DEF Sleeping, Deadlines
<1>1. ASSUME NEW t \in Timers, Near(now, late, timer[t].timeout),
             mTimers' = InsertAt(mTimers, InsertionPoint(mTimers, t), t)
      PROVE  Ordered(mTimers', f)
  <2>1. Fits(list, InsertionPoint(list, t), t, f)
    BY <1>1, PointFits DEF Sleeping, Deadlines, NearList
  <2>2. InsertionPoint(list, t) \in 1 .. Len(list) + 1
    BY PointRange
  <2>. PICK i : i = InsertionPoint(list, t)
    OBVIOUS
  <2>3. Ordered(InsertAt(list, i, t), f)
    BY <1>0, <2>1, <2>2, OrderedInsert
  <2> QED BY <1>1, <2>3
<1>2. Ordered(mTimers', f)
  <2>1. CASE UNCHANGED mTimers
    BY <1>0, <2>1
  <2>2. CASE mTimers # << >> /\ mTimers' = Tail(mTimers)
    BY <1>0, <2>2, OrderedTail
  <2>3. CASE \E t \in Timers : mTimers' = RemoveFirst(mTimers, t)
    BY <1>0, <2>3, OrderedRemove
  <2>4. CASE /\ thread.timer \in Timers /\ thread.pc = "add"
             /\ mTimers' = InsertAt(mTimers, InsertionPoint(mTimers, thread.timer), thread.timer)
    BY <1>1, <2>4 DEF Sleeping, Deadlines, ThreadDeadline
  <2>5. CASE /\ owner.timer \in Timers /\ owner.op = "add"
             /\ mTimers' = InsertAt(mTimers, InsertionPoint(mTimers, owner.timer), owner.timer)
    BY <1>1, <2>5 DEF Sleeping, Deadlines, OwnerDeadline
  <2>6. CASE mTimers' = << >>
    BY <2>6 DEF Ordered
  <2>7. TypeInv
    BY DEF Sleeping
  <2> QED BY <2>1, <2>2, <2>3, <2>4, <2>5, <2>6, <2>7, ListMoves
<1>3. ASSUME NEW x \in Timers, Contains(mTimers', x) PROVE Offsets'[x] = f[x]
  <2>1. Listed(x)' /\ TypeInv /\ PlainInv /\ ListInv
    BY <1>3 DEF Listed, Sleeping
  <2>2. timer'[x].timeout = timer[x].timeout
    BY <2>1, ListedBefore, DeadlineKept
  <2>3. now' = now
    BY <2>1, ClockWritten
  <2>4. f[x] = Offset(now, timer[x].timeout)
    BY <2>1, OffsetsTyped
  <2>5. Offsets'[x] = Offset(now', timer'[x].timeout)
    BY DEF Offsets
  <2> QED BY <2>2, <2>3, <2>4, <2>5
<1>. PICK later \in Seq(Timers) : later = mTimers'
  BY DEF TypeInv, ListTyped
<1>. PICK g : g = Offsets'
  OBVIOUS
<1>4. \A x \in Timers : Contains(later, x) => g[x] = f[x]
  BY <1>3
<1>6. Ordered(later, f)
  BY <1>2
<1>5. Ordered(later, f) => Ordered(later, g)
  BY <1>4, OrderedSame
<1> QED BY <1>5, <1>6

\* The head of the list is the first to be due, or is overdue.
LEMMA HeadFirst ==
    ASSUME NEW list \in Seq(Timers), NEW f \in [Timers -> Int], Ordered(list, f), list # << >>,
           NEW x, Contains(list, x)
    PROVE  /\ Head(list) \in Timers /\ Contains(list, Head(list))
           /\ f[Head(list)] <= f[x] \/ f[Head(list)] <= 0
<1>1. DOMAIN list = 1 .. Len(list) /\ Len(list) \in Nat /\ Len(list) >= 1 /\ Head(list) = list[1]
  OBVIOUS
<1>2. 1 \in DOMAIN list /\ list[1] \in Timers /\ f[list[1]] \in Int
  BY <1>1
<1>. PICK j \in DOMAIN list : list[j] = x
  BY <1>1 DEF Contains
<1>3. j = 1 \/ 1 < j
  BY <1>1
<1>4. f[list[1]] <= f[x] \/ f[list[1]] <= 0
  BY <1>2, <1>3 DEF Ordered
<1> QED BY <1>1, <1>2, <1>4, TailContains

LEMMA InTimeNext ==
    ASSUME Sleeping, TypeInv', PlainStep, ~ Tick, DeadlinesFit
    PROVE  InTime'
<1>. USE DEF Sleeping
<1> SUFFICES ASSUME thread'.pc = "waiting", NEW x \in Timers, Listed(x)'
             PROVE  thread'.left <= Remaining(x)'
  BY DEF InTime
<1>. PICK list \in Seq(Timers) : list = mTimers
  BY DEF TypeInv, ListTyped
<1>. PICK f \in [Timers -> Int] : f = Offsets
  BY OffsetsTyped
<1>1. now' = now /\ timer'[x].timeout = timer[x].timeout
  BY ClockWritten, ListedBefore, DeadlineKept
<1>2. Remaining(x)' = Remaining(x)
  BY <1>1 DEF Remaining
<1>3. \A y \in Timers : Remaining(y) = IF f[y] > 0 THEN f[y] ELSE 0
  BY RemainingIs, OffsetsTyped
<1>4. Ordered(list, f)
  BY DEF Deadlines
<1>5. CASE UNCHANGED thread
  <2>1. thread.pc = "waiting" /\ thread' = thread
    BY <1>5
  <2>2. CASE Listed(x)
    BY <1>2, <2>1, <2>2 DEF Deadlines, InTime
  <2>3. CASE AddTimer /\ x = owner.timer /\ owner.op = "add"
    <3>. PICK i : i = InsertionPoint(list, x)
      OBVIOUS
    <3>1. Near(now, late, timer[x].timeout)
      BY <2>3 DEF Deadlines, OwnerDeadline
    <3>2. Fits(list, i, x, f)
      BY <3>1, PointFits DEF Deadlines, NearList
    <3>3. i \in 1 .. Len(list) + 1 /\ (list = << >> => i = 1)
      BY PointRange
    <3>4. i # 1
      <4>1. i = 1 => thread' = ThreadAt("ready")
        BY <2>1, <2>3 DEF AddTimer, AddTo, Notified
      <4> QED BY <2>1, <4>1, ThreadAtFacts
    <3>5. 1 \in 1 .. i - 1 /\ list # << >> /\ Head(list) = list[1]
      BY <3>3, <3>4
    <3>. PICK h \in Timers : h = Head(list) /\ Contains(list, h)
      BY <3>5, TailContains
    <3>6. f[h] <= 0 \/ f[h] <= f[x]
      BY <3>2, <3>5 DEF Fits
    <3>7. thread.left <= Remaining(h)
      BY <2>1 DEF Deadlines, InTime, Listed
    <3>8. thread.left \in Int
      BY DEF TypeInv, ThreadTyped, ThreadType, Forever
    <3>9. thread.left <= Remaining(x)
      BY <1>3, <3>6, <3>7, <3>8
    <3> QED BY <1>2, <2>1, <3>9
  <2> QED BY <2>1, <2>2, <2>3, ListedBefore
<1>6. CASE RunWaits /\ thread'.pc = "waiting" /\ thread'.polling = FALSE
  <2>1. Listed(x) /\ Contains(list, x)
    BY <1>6 DEF RunWaits, sharedVars, Listed
  <2>2. list # << >>
    BY <2>1 DEF Contains
  <2>. PICK h \in Timers : h = Head(list) /\ Contains(list, h) /\ (f[h] <= f[x] \/ f[h] <= 0)
    BY <1>4, <2>1, <2>2, HeadFirst
  <2>3. Near(now, late, timer[h].timeout)
    BY DEF Deadlines, NearList, Listed
  <2>4. f[h] = Offset(now, timer[h].timeout)
    BY OffsetsTyped
  <2>. PICK a \in Adjustments : a = mTimeoutAdjustment
    BY DEF TypeInv, ClockTyped
  <2>5. a \in Int /\ a <= 0
    BY FitFacts
  <2>6. ~ Due(h)
    BY <1>6, <2>2 DEF RunWaits, FirstDue
  <2>7. f[h] + a > 0
    BY <2>3, <2>4, <2>5, <2>6, DueOffset
  <2>8. (timer[h].timeout + a - now) % Domain = f[h] + a
    BY <2>3, <2>4, <2>5, <2>7, DueOffset
  <2>9. thread'.left = f[h] + a
    <3>. PICK r \in ThreadType : r = ThreadAt("waiting")
      BY ThreadAtFacts
    <3>. PICK left : left = (timer[h].timeout + a - now) % Domain
      OBVIOUS
    <3>1. thread' = [r EXCEPT !.left = left]
      BY <1>6, <2>2 DEF RunWaits
    <3>2. thread'.left = left
      BY <3>1 DEF ThreadType
    <3> QED BY <2>8, <3>2
  <2>10. f[h] + a <= f[x] /\ f[x] > 0
    BY <2>5, <2>7
  <2> QED BY <1>2, <1>3, <2>9, <2>10
<1>7. \/ thread'.pc # "waiting" \/ UNCHANGED thread
      \/ RunWaits /\ thread'.pc = "waiting" /\ thread'.polling = FALSE
  <2>1. mSleeping = FALSE
    BY DEF Awake
  <2>2. \/ thread'.pc # "waiting" \/ UNCHANGED thread
        \/ RunWaits /\ thread'.pc = "waiting" /\ thread'.polling = FALSE
        \/ thread' \in {ThreadAt("ready"), ThreadAt("posted"), ThreadAt("done")}
    BY <2>1, ThreadMoves
  <2>3. \A r \in {ThreadAt("ready"), ThreadAt("posted"), ThreadAt("done")} : r.pc # "waiting"
    BY ThreadAtFacts
  <2> QED BY <2>2, <2>3
<1> QED BY <1>5, <1>6, <1>7

LEMMA ThreadDeadlineNext ==
    ASSUME Sleeping, PlainStep, ~ Tick, DeadlinesFit, Reinit \subseteq {"ONE_SHOT"}
    PROVE  ThreadDeadline'
<1>. USE DEF Sleeping
<1>1. now' = now /\ late' = late /\ mSleeping = FALSE
  BY ClockWritten DEF Awake
<1>2. now \in Times /\ late \in 0 .. MaxLate
  BY DEF TypeInv, ClockTyped
<1>3. thread.pc \in {"post", "type", "store", "add"} => thread.timer \in Timers /\ Made(thread.timer)
  BY DEF TypeInv, ThreadTyped, Posting, Made
\* A timer that was initialized does not become a precise one.
<1>4. ASSUME NEW x \in Timers, Made(x), Precise(x)' PROVE Precise(x)
  <2>1. CASE InitRenews
    <3>. PICK t \in Timers : t = owner.timer
      BY <2>1 DEF InitRenews, TypeInv, OwnerTyped
    <3>1. /\ owner.op = "generation" /\ Kind(t)' = owner.type /\ Kind(t) = timer[t].type
          /\ \A y \in Timers \ {t} : Kind(y)' = Kind(y)
      BY <2>1, RenewEffect
    <3>2. MayInit(t, owner.type)
      BY <3>1 DEF PlainInv
    <3> QED BY <1>4, <3>1, <3>2 DEF MayInit, Made, Precise
  <2>2. CASE ~ InitRenews
    BY <1>4, <2>2, TypesWritten, KeepsMore
  <2> QED BY <2>1, <2>2
<1>5. CASE \/ UNCHANGED thread
           \/ /\ PostReadsGeneration /\ thread.pc = "post" /\ thread'.pc = "type"
              /\ thread'.timer = thread.timer
  <2>. PICK x : x = thread.timer /\ thread'.timer = x
    BY <1>5
  <2>1. /\ thread'.pc \in {"post", "type"} => thread.pc \in {"post", "type"}
        /\ thread'.pc = "store" => thread.pc = "store" /\ thread'.base = thread.base
        /\ thread'.pc = "add" => thread.pc = "add"
    BY <1>5
  <2>2. ASSUME thread'.pc \in {"post", "type"}, Precise(x)'
        PROVE  Reached(now', late', timer'[x].timeout)
    <3>1. x \in Timers /\ Precise(x) /\ thread.pc \in {"post", "type"}
      BY <1>3, <1>4, <2>1, <2>2
    <3>2. timer'[x].timeout = timer[x].timeout
      BY <3>1, DeadlineKept
    <3> QED BY <1>1, <3>1, <3>2 DEF Deadlines, ThreadDeadline
  <2>3. ASSUME thread'.pc = "add" PROVE Near(now', late', timer'[x].timeout)
    <3>1. x \in Timers /\ thread.pc = "add"
      BY <1>3, <2>1, <2>3
    <3>2. timer'[x].timeout = timer[x].timeout
      BY <3>1, DeadlineKept
    <3> QED BY <1>1, <3>1, <3>2 DEF Deadlines, ThreadDeadline
  <2>4. ASSUME thread'.pc = "store" PROVE Reached(now', late', thread'.base)
    BY <1>1, <2>1, <2>4 DEF Deadlines, ThreadDeadline
  <2>5. Precise(thread.timer)' => Precise(x)'
    BY DEF Precise, Kind
  <2> QED BY <2>2, <2>3, <2>4, <2>5 DEF ThreadDeadline
<1>6. CASE RunTakesTimer /\ thread'.pc = "post" /\ thread'.timer = Head(mTimers)
  <2>. PICK list \in Seq(Timers) : list = mTimers
    BY DEF TypeInv, ListTyped
  <2>1. list # << >> /\ Due(Head(list))
    BY <1>6 DEF RunTakesTimer, FirstDue
  <2>. PICK h \in Timers : h = Head(list) /\ Contains(list, h)
    BY <2>1, TailContains
  <2>2. Near(now, late, timer[h].timeout) /\ Listed(h)
    BY DEF Deadlines, NearList, Listed
  <2>3. Offset(now, timer[h].timeout) + mTimeoutAdjustment <= 0
    BY <2>1, <2>2, DueOffset
  <2>4. Reached(now, late, timer[h].timeout)
    BY <2>2, <2>3 DEF Reached, Near, TypeInv, ClockTyped
  <2>5. timer'[h].timeout = timer[h].timeout
    BY <2>2, DeadlineKept
  <2> QED BY <1>1, <1>6, <2>4, <2>5 DEF ThreadDeadline
<1>7. CASE /\ PostReadsType /\ thread.pc = "type" /\ timer[thread.timer].type = "REPEATING_PRECISE"
           /\ thread'.pc = "store" /\ thread'.base = DelayBase(thread.timer)
  <2>1. Reached(now, late, now)
    BY <1>2, ReachedNow
  <2>2. Reached(now, late, timer[thread.timer].timeout)
    <3>1. Precise(thread.timer)
      BY <1>3, <1>7, RawPrecise DEF ListInv
    <3> QED BY <1>7, <3>1 DEF Deadlines, ThreadDeadline
  <2>3. DelayBase(thread.timer) \in {now, timer[thread.timer].timeout}
    BY DEF DelayBase
  <2>4. Reached(now', late', thread'.base)
    BY <1>1, <1>7, <2>1, <2>2, <2>3
  <2> QED BY <1>7, <2>4 DEF ThreadDeadline
<1>8. CASE PostStoresTimeout /\ thread.pc = "store" /\ thread'.pc = "add"
             /\ thread'.timer = thread.timer
  <2>. PICK x \in Timers : x = thread.timer
    BY <1>3, <1>8
  <2>. PICK b \in Times : b = thread.base
    BY DEF TypeInv, ThreadTyped, ThreadType
  <2>. PICK c \in Nat : c = timer[x].delay /\ Clamp(timer[x].delay) = c
    BY HalfDomain DEF TypeInv, TimersTyped, TimerType, Clamp
  <2>1. DelayFits(c)
    BY DEF DelaysOK
  <2>2. Reached(now, late, b)
    BY <1>8 DEF Deadlines, ThreadDeadline
  <2>3. Near(now, late, (b + c) % Domain)
    BY <1>2, <2>1, <2>2, DeadlineSum
  <2>4. timer'[x].timeout = (b + c) % Domain
    <3>1. timer' = [timer EXCEPT ![x] = Delayed(timer[x], b, c)]
      BY <1>8 DEF PostStoresTimeout, TypeInv, TimersTyped
    <3>. PICK tm \in TimerType : tm = timer[x]
      BY DEF TypeInv, TimersTyped
    <3>. PICK sum : sum = (b + c) % Domain
      OBVIOUS
    <3>. PICK r : r = [tm EXCEPT !.delay = c, !.timeout = sum]
      OBVIOUS
    <3>2. r.timeout = sum
      BY DEF TimerType
    <3>3. timer' = [timer EXCEPT ![x] = r]
      BY <3>1 DEF Delayed
    <3> QED BY <3>2, <3>3 DEF TypeInv, TimersTyped
  <2>5. Near(now', late', timer'[thread'.timer].timeout)
    BY <1>1, <1>8, <2>3, <2>4
  <2> QED BY <1>8, <2>5 DEF ThreadDeadline
<1>9. CASE thread'.pc \notin {"post", "type", "store", "add"}
  BY <1>9 DEF ThreadDeadline
<1>10. \A r \in {ThreadAt("ready"), ThreadAt("posted"), ThreadAt("done")} :
         r.pc \notin {"post", "type", "store", "add"}
  BY ThreadAtFacts
<1>11. \/ UNCHANGED thread
       \/ thread' \in {ThreadAt("ready"), ThreadAt("posted"), ThreadAt("done")}
       \/ thread'.pc \in {"dispatch", "waiting"}
       \/ RunTakesTimer /\ thread'.pc = "post" /\ thread'.timer = Head(mTimers)
       \/ /\ PostReadsGeneration /\ thread.pc = "post" /\ thread'.pc = "type"
          /\ thread'.timer = thread.timer
       \/ /\ PostReadsType /\ thread.pc = "type" /\ timer[thread.timer].type = "REPEATING_PRECISE"
          /\ thread'.pc = "store" /\ thread'.base = DelayBase(thread.timer)
       \/ PostStoresTimeout /\ thread.pc = "store" /\ thread'.pc = "add"
            /\ thread'.timer = thread.timer
  BY <1>1, ThreadMoves
<1> QED BY <1>5, <1>6, <1>7, <1>8, <1>9, <1>10, <1>11

LEMMA OwnerDeadlineNext ==
    ASSUME Sleeping, PlainStep, ~ Tick, DeadlinesFit
    PROVE  OwnerDeadline'
<1>. USE DEF Sleeping
<1>0. owner \in OwnerType
  BY DEF TypeInv, OwnerTyped
<1>1. now' = now /\ late' = late
  BY ClockWritten
<1>2. now \in Times /\ late \in 0 .. MaxLate
  BY DEF TypeInv, ClockTyped
<1>3. CASE InitRenews
  <2>. PICK t \in Timers : t = owner.timer
    BY <1>3 DEF InitRenews, TypeInv, OwnerTyped
  <2>1. owner'.op = "type"
    BY <1>3, RenewEffect
  <2> QED BY <2>1 DEF OwnerDeadline
<1>4. CASE UNCHANGED owner
  <2>1. ASSUME owner.op = "add" PROVE timer'[owner.timer].timeout = timer[owner.timer].timeout
    <3>. PICK x \in Timers : x = owner.timer
      BY <2>1 DEF TypeInv, OwnerTyped
    <3> QED BY <2>1, DeadlineKept
  <2> QED BY <1>1, <1>4, <2>1 DEF Deadlines, OwnerDeadline
<1>5. CASE owner' = [IdleOwner EXCEPT !.wake = owner.wake]
  BY <1>0, <1>5, DoneFacts DEF OwnerDeadline
<1>6. CASE owner'.op \in {"load", "remove", "clear", "generation", "cancel"}
  BY <1>6 DEF OwnerDeadline
<1>7. CASE /\ SetDelayLoads /\ owner.op = "load" /\ owner.timer \in Timers
           /\ owner' = [owner EXCEPT !.op = "store", !.base = DelayBase(owner.timer)]
  <2>1. DelayBase(owner.timer) = now
    BY <1>7 DEF DelayBase, DelaysOK, Precise, Kind
  <2>2. owner' = [owner EXCEPT !.op = "store", !.base = now]
    BY <1>7, <2>1
  <2>3. owner'.op = "store" /\ owner'.base = now
    BY <1>0, <2>2 DEF OwnerType
  <2> QED BY <1>1, <1>2, <2>3, ReachedNow DEF OwnerDeadline
<1>8. CASE SetDelayStores /\ owner.op = "store" /\ owner'.op = "add" /\ owner'.timer = owner.timer
  <2>. PICK x \in Timers : x = owner.timer
    BY <1>8 DEF TypeInv, OwnerTyped
  <2>. PICK b \in Times : b = owner.base
    BY <1>0 DEF OwnerType
  <2>. PICK c \in Nat : c = Clamp(owner.delay)
    BY <1>0, ClampRange DEF OwnerType
  <2>1. DelayFits(c)
    BY <1>8 DEF DelaysOK
  <2>2. Reached(now, late, b)
    BY <1>8 DEF Deadlines, OwnerDeadline
  <2>3. Near(now, late, (b + c) % Domain)
    BY <1>2, <2>1, <2>2, DeadlineSum
  <2>4. timer'[x].timeout = (b + c) % Domain
    <3>. PICK tm \in TimerType : tm = timer[x]
      BY DEF TypeInv, TimersTyped
    <3>. PICK sum : sum = (b + c) % Domain
      OBVIOUS
    <3>. PICK r : r = [tm EXCEPT !.delay = c, !.timeout = sum]
      OBVIOUS
    <3>1. timer' = [timer EXCEPT ![x] = r]
      BY <1>8 DEF SetDelayStores, Delayed, TypeInv, TimersTyped
    <3>2. r.timeout = sum
      BY DEF TimerType
    <3> QED BY <3>1, <3>2 DEF TypeInv, TimersTyped
  <2>5. Near(now', late', timer'[owner'.timer].timeout)
    BY <1>1, <1>8, <2>3, <2>4
  <2> QED BY <1>8, <2>5 DEF OwnerDeadline
<1>9. CASE ~ InitRenews
  <2>1. CASE /\ FireReturns
             /\ owner.op = "none" /\ callback \in Timers /\ Slack(callback)
             /\ owner' = [owner EXCEPT !.op = "load", !.timer = callback,
                                       !.delay = timer[callback].delay, !.then = "add"]
    <3>. PICK d : d = timer[callback].delay
      OBVIOUS
    <3>1. owner' = [owner EXCEPT !.op = "load", !.timer = callback, !.delay = d, !.then = "add"]
      BY <2>1
    <3>2. owner'.op = "load"
      BY <1>0, <3>1 DEF OwnerType
    <3> QED BY <1>6, <3>2
  <2> QED BY <1>4, <1>5, <1>6, <1>7, <1>8, <1>9, <2>1, OwnerGoesOn
<1> QED BY <1>3, <1>9

\* An interval passes: every deadline comes nearer by one.
LEMMA OffsetsTick ==
    ASSUME TypeInv, DeadlinesFit, Tick, NEW x \in Timers, Near(now, late, timer[x].timeout)
    PROVE  /\ timer'[x] = timer[x]
           /\ Offset(now', timer'[x].timeout) = Offset(now, timer[x].timeout) - 1
<1>1. now' = (now + 1) % Domain /\ timer' = timer
  BY DEF Tick
<1>2. now \in Times /\ timer[x].timeout \in Times /\ late \in 0 .. MaxLate
  BY DEF TypeInv, ClockTyped, TimersTyped, TimerType
<1>. PICK h \in Nat : h = DELAY_INTERVAL_LIMIT
  BY HalfDomain
<1>. PICK o \in Int : o = Offset(now, timer[x].timeout)
  BY <1>2, OffsetIs
<1>3. - late <= o /\ MaxLate \in Nat /\ MaxLate < h
  BY FitFacts DEF Near
<1>4. o > - h
  BY <1>2, <1>3
<1> QED BY <1>1, <1>2, <1>4, OffsetTick

LEMMA OrderedShift ==
    ASSUME NEW list \in Seq(Timers), NEW f \in [Timers -> Int], NEW g,
           \A x \in Timers : Contains(list, x) => g[x] = f[x] - 1
    PROVE  Ordered(list, f) => Ordered(list, g)
<1>1. ASSUME NEW i \in DOMAIN list PROVE g[list[i]] = f[list[i]] - 1 /\ f[list[i]] \in Int
  <2>1. i \in 1 .. Len(list) /\ list[i] \in Timers
    OBVIOUS
  <2>2. Contains(list, list[i])
    BY <2>1 DEF Contains
  <2> QED BY <2>1, <2>2
<1>2. ASSUME Ordered(list, f), NEW i \in DOMAIN list, NEW j \in DOMAIN list, i < j
      PROVE  g[list[i]] <= g[list[j]] \/ g[list[i]] <= 0
  <2>1. f[list[i]] <= f[list[j]] \/ f[list[i]] <= 0
    BY <1>2 DEF Ordered
  <2> QED BY <1>1, <2>1
<1> QED BY <1>2 DEF Ordered

LEMMA TickNext ==
    ASSUME Sleeping, TypeInv', Tick, DeadlinesFit, ~ mShutdown
    PROVE  Deadlines'
<1>. USE DEF Sleeping
<1>1. now' = (now + 1) % Domain /\ UNCHANGED <<timer, mTimers, owner>>
  BY DEF Tick, sharedVars, ownerVars
<1>2. now \in Times /\ late \in 0 .. MaxLate /\ MaxLate \in Nat
  BY FitFacts DEF TypeInv, ClockTyped
<1>3. ASSUME NEW x \in Timers, Listed(x)
      PROVE  /\ Near(now, late, timer[x].timeout)
             /\ Offset(now, timer[x].timeout) \in Int
             /\ Offset(now', timer'[x].timeout) = Offset(now, timer[x].timeout) - 1
             /\ Remaining(x) = IF Offset(now, timer[x].timeout) > 0
                               THEN Offset(now, timer[x].timeout) ELSE 0
             /\ Remaining(x)' = IF Offset(now, timer[x].timeout) - 1 > 0
                                THEN Offset(now, timer[x].timeout) - 1 ELSE 0
  <2>1. Near(now, late, timer[x].timeout)
    BY <1>3 DEF Deadlines, NearList
  <2>2. Offset(now', timer'[x].timeout) = Offset(now, timer[x].timeout) - 1
    BY <2>1, OffsetsTick
  <2>3. /\ Offset(now, timer[x].timeout) \in Int
        /\ Remaining(x) = IF Offset(now, timer[x].timeout) > 0
                          THEN Offset(now, timer[x].timeout) ELSE 0
    BY RemainingIs
  <2>. PICK y \in Times : y = timer'[x].timeout
    BY DEF TypeInv, TimersTyped, TimerType
  <2>. PICK m \in Times : m = now'
    BY DEF TypeInv, ClockTyped
  <2>4. TIMER_LESS_THAN(m, y) <=> Offset(m, y) > 0
    BY OffsetFuture
  <2>5. Offset(m, y) >= 0 => (y - m) % Domain = Offset(m, y)
    BY OffsetAhead
  <2>6. Remaining(x)' = IF TIMER_LESS_THAN(m, y) THEN (y - m) % Domain ELSE 0
    BY DEF Remaining
  <2>7. Offset(m, y) = Offset(now, timer[x].timeout) - 1
    BY <2>2
  <2>. PICK o \in Int : o = Offset(m, y)
    BY OffsetIs
  <2>8. Remaining(x)' = IF o > 0 THEN o ELSE 0
    BY <2>4, <2>5, <2>6
  <2> QED BY <2>1, <2>2, <2>3, <2>7, <2>8
<1>4. \A x \in Timers : Listed(x)' <=> Listed(x)
  BY <1>1 DEF Listed
<1>5. Ordered(mTimers, Offsets)'
  <2>. PICK list \in Seq(Timers) : list = mTimers
    BY DEF TypeInv, ListTyped
  <2>. PICK f \in [Timers -> Int] : f = Offsets
    BY OffsetsTyped
  <2>. PICK g : g = Offsets'
    OBVIOUS
  <2>1. \A x \in Timers : f[x] = Offset(now, timer[x].timeout)
                          /\ g[x] = Offset(now', timer'[x].timeout)
    BY OffsetsTyped DEF Offsets
  <2>2. \A x \in Timers : Contains(list, x) => g[x] = f[x] - 1
    BY <1>3, <2>1 DEF Listed
  <2>3. Ordered(list, f) => Ordered(list, g)
    BY <2>2, OrderedShift
  <2>4. Ordered(list, f)
    BY DEF Deadlines
  <2>5. mTimers' = list
    BY <1>1
  <2> QED BY <2>3, <2>4, <2>5
<1>6. thread \in ThreadType /\ thread.left \in 0 .. Domain
  BY DEF TypeInv, ThreadTyped, ThreadType, Forever
<1>7. thread' = IF thread.pc = "waiting" /\ thread.left \in 1 .. Domain - 1
                THEN [thread EXCEPT !.left = @ - 1] ELSE thread
  BY DEF Tick
<1>8. /\ thread'.pc = thread.pc /\ thread'.timer = thread.timer /\ thread'.base = thread.base
      /\ thread'.left = IF thread.pc = "waiting" /\ thread.left \in 1 .. Domain - 1
                        THEN thread.left - 1 ELSE thread.left
  BY <1>6, <1>7 DEF ThreadType
<1>9. InTime'
  <2> SUFFICES ASSUME thread'.pc = "waiting", NEW x \in Timers, Listed(x)'
               PROVE  thread'.left <= Remaining(x)'
    BY DEF InTime
  <2>1. thread.pc = "waiting" /\ Listed(x) /\ thread.left <= Remaining(x)
    BY <1>4, <1>8 DEF Deadlines, InTime
  <2>. PICK o \in Int : o = Offset(now, timer[x].timeout)
    BY <1>3, <2>1
  <2>. PICK h \in Nat \ {0} : DELAY_INTERVAL_LIMIT = h /\ Domain = 2 * h
    BY ClockSize
  <2>2. o < h
    BY OffsetIs DEF TypeInv, ClockTyped, TimersTyped, TimerType
  <2>3. /\ thread.left <= IF o > 0 THEN o ELSE 0
        /\ Remaining(x)' = IF o - 1 > 0 THEN o - 1 ELSE 0
    BY <1>3, <2>1
  <2>. PICK w \in Int : w = thread.left /\ 0 <= w
    BY <1>6
  <2>4. thread'.left = IF w \in 1 .. 2 * h - 1 THEN w - 1 ELSE w
    BY <1>8, <2>1
  <2> QED BY <2>2, <2>3, <2>4
<1>10. CASE Working
  <2>1. late < MaxLate /\ late' = late + 1
    BY <1>10 DEF Tick
  <2>2. NearList'
    <3> SUFFICES ASSUME NEW x \in Timers, Listed(x)' PROVE Near(now', late', timer'[x].timeout)
      BY DEF NearList
    <3>1. Near(now, late, timer[x].timeout) /\ timer[x].timeout \in Times
      BY <1>3, <1>4 DEF TypeInv, TimersTyped, TimerType
    <3> QED BY <1>1, <1>2, <2>1, <3>1, LagTick
  <2>3. ThreadDeadline'
    <3>1. thread.base \in Times
      BY <1>6 DEF ThreadType
    <3>2. thread.pc \in {"post", "type", "store", "add"} =>
            thread.timer \in Timers /\ timer[thread.timer].timeout \in Times
      BY DEF TypeInv, ThreadTyped, Posting, Made, TimersTyped, TimerType
    <3>3. ThreadDeadline
      BY DEF Deadlines
    <3>4. thread'.pc \in {"post", "type"} /\ Precise(thread.timer) =>
            Reached(now', late', timer[thread.timer].timeout)
      BY <1>1, <1>2, <1>8, <2>1, <3>2, <3>3, LagTick DEF ThreadDeadline
    <3>5. thread'.pc = "store" => Reached(now', late', thread.base)
      BY <1>1, <1>2, <1>8, <2>1, <3>1, <3>3, LagTick DEF ThreadDeadline
    <3>6. thread'.pc = "add" => Near(now', late', timer[thread.timer].timeout)
      BY <1>1, <1>2, <1>8, <2>1, <3>2, <3>3, LagTick DEF ThreadDeadline
    <3> QED BY <1>1, <1>8, <3>4, <3>5, <3>6 DEF ThreadDeadline, Precise, Kind
  <2>4. OwnerDeadline'
    <3>1. owner.base \in Times
      BY DEF TypeInv, OwnerTyped, OwnerType
    <3>2. owner.op = "add" => timer[owner.timer].timeout \in Times
      BY DEF TypeInv, OwnerTyped, TimersTyped, TimerType
    <3>3. OwnerDeadline
      BY DEF Deadlines
    <3>4. owner.op = "store" => Reached(now', late', owner.base)
      BY <1>1, <1>2, <2>1, <3>1, <3>3, LagTick DEF OwnerDeadline
    <3>5. owner.op = "add" => Near(now', late', timer[owner.timer].timeout)
      BY <1>1, <1>2, <2>1, <3>2, <3>3, LagTick DEF OwnerDeadline
    <3> QED BY <1>1, <3>4, <3>5 DEF OwnerDeadline
  <2> QED BY <1>5, <1>9, <2>2, <2>3, <2>4 DEF Deadlines
<1>11. CASE ~ Working
  <2>1. late' = 0
    BY <1>11 DEF Tick
  <2>2. thread.pc = "waiting" /\ thread.left # 0 /\ owner.op = "none"
    BY <1>11 DEF Working, Awake
  <2>3. NearList'
    <3> SUFFICES ASSUME NEW x \in Timers, Listed(x)' PROVE Near(now', 0, timer'[x].timeout)
      BY <2>1 DEF NearList
    <3>1. Listed(x) /\ thread.left <= Remaining(x)
      BY <1>4, <2>2 DEF Deadlines, InTime
    <3>. PICK o \in Int : o = Offset(now, timer[x].timeout)
      BY <1>3, <3>1
    <3>2. /\ Offset(now', timer'[x].timeout) = o - 1
          /\ thread.left <= IF o > 0 THEN o ELSE 0
          /\ o + MaxLate < DELAY_INTERVAL_LIMIT
      BY <1>3, <3>1 DEF Near
    <3>. PICK h \in Nat : h = DELAY_INTERVAL_LIMIT
      BY HalfDomain
    <3>. PICK w \in Int : w = thread.left /\ 0 <= w
      BY <1>6
    <3>3. 0 <= o - 1 /\ o - 1 + MaxLate < h
      BY <1>2, <2>2, <3>2
    <3>4. - 0 <= o - 1
      BY <3>3
    <3> QED BY <3>2, <3>3, <3>4 DEF Near
  <2>4. ThreadDeadline'
    BY <1>8, <2>2 DEF ThreadDeadline
  <2>5. OwnerDeadline'
    BY <1>1, <2>2 DEF OwnerDeadline
  <2> QED BY <1>5, <1>9, <2>3, <2>4, <2>5 DEF Deadlines
<1> QED BY <1>10, <1>11

LEMMA SleepNext ==
    ASSUME TypeInv, TypeInv', PlainInv, ListInv, SleepInv, PlainStep, DeadlinesFit,
           Reinit \subseteq {"ONE_SHOT"}
    PROVE  SleepInv'
<1>1. DelaysOK' /\ Awake'
  BY DelaysNext, AwakeNext DEF SleepInv
<1>2. ASSUME ~ mShutdown' PROVE Deadlines'
  <2>1. ~ mShutdown
    <3>1. Shutdown => mShutdown'
      BY DEF Shutdown
    <3> QED BY <1>2, <3>1, ClockWritten
  <2>2. Sleeping
    BY <2>1 DEF Sleeping, SleepInv
  <2>3. CASE Tick
    BY <2>1, <2>2, <2>3, TickNext
  <2>4. CASE ~ Tick
    BY <2>2, <2>4, NearListNext, OrderedNext, InTimeNext, ThreadDeadlineNext, OwnerDeadlineNext
       DEF Deadlines
  <2> QED BY <2>3, <2>4
<1> QED BY <1>1, <1>2 DEF SleepInv

LEMMA SleepInit == ASSUME DeadlinesFit PROVE Init => SleepInv
<1> SUFFICES ASSUME Init PROVE SleepInv
  OBVIOUS
<1>1. /\ \A t \in Timers : timer[t].delay = 0 /\ timer[t].timeout = 0
      /\ owner.op = "none" /\ mTimers = << >> /\ mSleeping = FALSE /\ mShutdown = FALSE
  BY DEF Init, NewTimer, IdleOwner
<1>2. thread.pc = "ready" /\ thread.polling = FALSE
  BY ThreadAtFacts DEF Init
<1>3. DelayFits(0)
  <2>1. Clamp(0) = 0
    BY HalfDomain DEF Clamp
  <2> QED BY <2>1 DEF DelayFits, DeadlinesFit
<1>4. DelaysOK /\ Awake
  BY <1>1, <1>2, <1>3 DEF DelaysOK, Awake
<1>5. \A t \in Timers : ~ Listed(t)
  BY <1>1 DEF Listed, Contains
<1>6. Ordered(mTimers, Offsets)
  BY <1>1 DEF Ordered
<1>7. NearList /\ InTime /\ ThreadDeadline /\ OwnerDeadline
  BY <1>1, <1>2, <1>5 DEF NearList, InTime, ThreadDeadline, OwnerDeadline
<1> QED BY <1>4, <1>6, <1>7 DEF SleepInv, Deadlines

LEMMA SleepFrame == ASSUME SleepInv, UNCHANGED vars PROVE SleepInv'
<1>1. UNCHANGED <<now, late, timer, mTimers, mSleeping, mShutdown, thread, owner>>
  BY DEF vars, sharedVars, ownerVars
<1>2. DelaysOK' /\ Awake'
  BY <1>1 DEF SleepInv, DelaysOK, Awake, Made, Precise, Kind
<1>3. NearList' = NearList /\ InTime' = InTime
  BY <1>1 DEF NearList, InTime, Listed, Remaining
<1>4. ThreadDeadline' = ThreadDeadline /\ OwnerDeadline' = OwnerDeadline
  BY <1>1 DEF ThreadDeadline, OwnerDeadline, Precise, Kind
<1>5. Offsets' = Offsets /\ mTimers' = mTimers
  BY <1>1 DEF Offsets
<1> QED BY <1>1, <1>2, <1>3, <1>4, <1>5 DEF SleepInv, Deadlines

\* Where timers are only initialized and canceled, and delays leave room on
\* the clock for the threads to lag: the timer thread never sleeps past the
\* deadline of a listed timer, although it looks at the first one only and is
\* told of a new first one only.  AddTimerInternal stops looking at the first
\* timer that is due later and passes every overdue one, so mTimers is sorted
\* except for timers that are overdue, and Run takes those before it waits.
THEOREM TimerNeverOversleeps ==
    ASSUME PlainUse, Reinit \subseteq {"ONE_SHOT"}, DeadlinesFit
    PROVE  SafetySpec => []NeverOversleeps
<1> DEFINE Inv == TypeInv /\ PlainInv /\ JourneyInv /\ ListInv /\ SleepInv
<1>1. Init => Inv
  BY TypeInit, PlainInit, PlacesInit, SleepInit
<1>2. Inv /\ [Next]_vars => Inv'
  <2> SUFFICES ASSUME Inv, [Next]_vars PROVE Inv'
    OBVIOUS
  <2>1. TypeInv'
    BY TypeNext
  <2>2. CASE Next
    <3>1. PlainStep
      BY <2>2, PlainNext
    <3>2. PlainInv' /\ JourneyInv' /\ ListInv'
      BY <2>1, <2>2, <3>1, PlainInvNext, JourneyNext, ListNext
    <3>3. SleepInv'
      BY <2>1, <3>1, SleepNext
    <3> QED BY <2>1, <3>2, <3>3
  <2>3. CASE UNCHANGED vars
    BY <2>1, <2>3, PlainInvNext, PlacesFrame, SleepFrame
  <2> QED BY <2>2, <2>3
<1>3. Inv => NeverOversleeps
  BY DEF SleepInv, Awake, Deadlines, InTime, NeverOversleeps
<1> HIDE DEF Inv
<1> QED BY <1>1, <1>2, <1>3, PTL DEF SafetySpec
=============================================================================
