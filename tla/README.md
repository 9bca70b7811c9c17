# A verification of the XPCOM threading core and of necko's connection layer

This directory holds TLA+ models, TLC configurations and TLAPS proofs for the
concurrent core of this repository, a Gecko 1.9 tree: the event queues, threads,
thread pools and timers of `src/xpcom/threads`, the pipe of `src/xpcom/io` that
carries data from one thread to another, and the two parts of `src/netwerk` that
share state between threads, the host resolver and the HTTP connection manager.
Everything concurrent in the program (necko, the image library, storage, the DOM's
timeouts) runs on these, they are small enough to model whole, and their errors
are the kind unit tests do not reach.

`PROJECT.json` lists the components, the runs with their properties, for every
definition the source lines it models, the hazards, the findings, and for every
property a mutation of the code that breaks it.

1. [The system](#1-the-system)
2. [The models](#2-the-models)
3. [The runs](#3-the-runs)
4. [Fairness](#4-fairness)
5. [The proofs](#5-the-proofs)
6. [Where code and comments disagree](#6-where-code-and-comments-disagree)
7. [What is not modelled](#7-what-is-not-modelled)
8. [Plan](#8-plan)

## 1. The system

| component | source | state it keeps | operations |
|---|---|---|---|
| event queue | `nsEventQueue` | chain of fixed-size pages, read and write offsets, one monitor | `PutEvent`, `GetEvent` with and without waiting |
| chained queues | `nsThread::nsChainedEventQueue` | one queue and one filter per `PushEventQueue`, youngest first | `PutEvent` through the filters, `PushEventQueue`, `PopEventQueue` |
| thread | `nsThread` | its queues, the shutdown context, `mShutdownRequired` | `Dispatch` (both kinds), `ProcessNextEvent`, `Shutdown`, `ThreadFunc` |
| thread manager | `nsThreadManager` | table of threads, `mInitialized` | `NewThread`, registration, `Shutdown` |
| thread pool | `nsThreadPool` | shared queue, `mThreads`, `mIdleCount`, three limits, `mShutdown` | `Dispatch`, `PutEvent`, `Run`, `ShutdownThread`, `Shutdown`, three setters |
| pipe | `nsPipe`, its two streams, `nsSegmentedBuffer` | segments, two cursors and limits, status, `mAvailable`, `mWritable`; per end: a blocked thread or a callback | `ReadSegments`, `WriteSegments`, `Wait`; from any thread, `AsyncWait` and `CloseWithStatus` |
| host resolver | `nsHostResolver` | the table of records with their reference counts and callbacks, pending and eviction queues, thread count, idle thread | `ResolveHost`, `DetachCallback`, lookup threads, `OnLookupComplete`, `Shutdown` |
| http connection manager | `nsHttpConnectionMgr`, with parts of `nsHttpConnection`, `nsHttpTransaction` and `nsHttpChannel` | per host: pending transactions, active and idle connections; two counts; the limits; messages under way | the handlers of its eight messages, close and restart of a transaction, what sockets report |
| timers | `nsTimerImpl`, `TimerThread` | per timer: type, delay, timeout, armed, canceled, generation, firing; the sorted list; the adjustment; the wait of the timer thread | `Init*`, `Cancel`, `SetDelay`, `SetType`, `Run`, `PostTimerEvent`, `Fire`, machine sleep, `Shutdown` |

How they interact:

- Every thread owns an event queue, and a thread is its queue's only consumer; a
  pool shares one queue among its threads, so there the queue has several.
- A blocked call is not idle. A synchronous `Dispatch`, `nsIThread::Shutdown` and
  `nsThreadManager::Shutdown` wait by running the caller's own event loop, so any
  event can run inside any wait and calls nest to any depth.
- A pool thread is an `nsThread` whose one event is `nsThreadPool::Run`. A pool
  thread that leaves cannot join itself: it asks the main thread to, through an
  asynchronous proxy.
- A pipe has two owners: an HTTP transaction writes on the socket thread what a
  channel reads on the main thread. Each end may block, poll or ask to be called back.
- The main thread asks the connection manager by messages; the socket thread handles
  them one at a time, and sockets report to it in between.
- The resolver has threads of its own, at most `MAX_THREADS`, of which one may idle.
- The timer thread posts events to the thread that made the timer; that thread
  calls back into the timer list from inside the callback.

What is hard, and what correctness means for each part:

- *Event queue.* Page boundaries, a failed allocation, a freed page that `mTail`
  still points to, several sleeping consumers. It must be a FIFO queue, leak no page
  and lose no wakeup.
- *Chained queues.* Events must survive pushes and pops, and what was queued before
  a push must stay suppressed until the pop, although a put may find no memory.
- *Threads.* A shutdown context on a stack frame below nested event loops; events
  dispatched while a thread ends; threads that wait for each other; puts whose failure nobody
  looks at. Nobody may use a dead frame, what a thread took before it last looked at its
  queue must be run, and every wait must end that such a failure does not hang.
- *Pool.* The thread is created between two holds of the monitor, and is started
  after the second; a thread that is about to leave is counted on by a caller;
  `mShutdown` is read without the monitor. The counts must be exact, the limit kept,
  every event run.
- *Timers.* Most fields are shared without a lock, time wraps, the thread sleeps on
  the first deadline only. A timer must fire, not early, not twice, and be in the
  list exactly when its flag says so.

- *Pipe.* Bytes are copied outside the monitor, through pointers into segments that the
  other end may append, delete or roll back; one condition serves both ends; any thread may
  close either end or register a callback on it, also while another reads or writes there.
  Every byte must arrive, once and in order, and nobody may wait in vain.
- *Host resolver.* A record is owned by up to five kinds of places and moves between
  them; a callback is taken by whichever of completion, detaching and shutdown comes
  first. No record may be freed in use or leaked, each callback is called once.
- *HTTP connection manager.* Requests are messages about transactions whose state has
  moved on by the time they arrive; limits are tested against counts kept by hand.
  Counts must agree with lists, limits hold, and no transaction be lost or stranded.

Above and beside these are the parts `PROJECT.json` lists as not modelled: the stream
pumps, the socket transport, cache, layout, script and the applications.

## 2. The models

One action is one hold of a lock or monitor, or one step outside it; where fields are
shared without a lock, one access is one action.

**`EventFIFO`** is the abstract specification: one sequence of events, of which a
prefix has been handed out, and a set of waiting consumers.

**`EventQueue`** models `nsEventQueue` with its pages: `Pages` is the heap `calloc`
returns addresses from (or fails), a freed page can be handed out again, and a slot
is `mEvents[p][i]`. `PutEvent` has its three cases (first page, next page, room in
the tail page); `GetPendingEvent` and `WaitPendingEvent` are the two ways `GetEvent`
is called. The histories `stored`, `taken` and `first` are for the properties and
guard nothing but the bound `MaxStored`. `ImplementsFIFO` is the refinement of `EventFIFO`
with the waiting consumers as the only mapping.

**`ChainedQueue`** models the chain as a sequence of queues, `mEventsRoot` first.
Names it would share with `EventQueue` have a prefix; the events in it are `Runnables`.
Filters are sets of events. `PopEventQueue` moves what is left one event at a time
through the elder's filter: `PutAll` is its loop, as a recursive function. With `MayFail` any put may
find no page: a dispatch then leaves the chain as it was (its caller keeps the event), and an event
that `PopEventQueue` had taken from the popped queue is gone. The history `lost` says which.

**`Thread`** models any number of threads with a queue (the sequence that `EventQueue`
implements) and a stack of open calls. A task in user code may dispatch, dispatch
synchronously, shut a thread down or create one; every wait is a call on top of the
stack that either takes an event or, its condition met, returns. `asleep` tells a
thread that blocks in `GetEvent`, and so does not look at its condition, from one that
is about to. `nsThreadManager::Shutdown` is the sequence flush, gather, join each, done.
A task may be given to a thread at any time, also to one that is shutting down or has ended. With
`MayFail` every put of the code may find no page, and what the code does then is in the model: a
plain `Dispatch` returns the error, a synchronous one waits without its wrapper being queued
(`nsThread.cpp:372`), and the results at 262, 309, 434 and 612 are dropped. Histories for
the properties: `acceptedBy` (which thread's queue took an event), `late` (it did after
its thread's last look), `failed` (an unchecked put failed).

**`ThreadPool`** models every caller of `Dispatch` with its progress through `PutEvent`,
every pool thread with the locals of `Run`, the `nsThread` under it with its own queue
of two kinds of event, the main thread's list of threads to join, and the owner. The
idle timeout is a free choice of `expired`. `Free` lets an `nsThread` be allocated again
once nobody refers to it.

**`TimerThread`** models timers made on one thread, the owner. `now` is an unsigned
counter modulo `Domain`, and `TIMER_LESS_THAN`, `Clamp` and the sums are computed in it.
`late` lets threads that have work to do lag behind the clock. Calls of the owner are
split where the code touches a shared field or takes `mLock`: `InitCommon` tests
`mArmed`, then removes, then stores `mCanceled`, `mGeneration` and `mType`, one after the other,
then reads `mTimeout`, then stores it, then adds.
What `UpdateFilter` computes is a free choice from `Adjustments`.

**`BytePipe`** is the abstract specification of a pipe: a bounded FIFO of bytes that ends
with a status, which a reader of a normally closed pipe learns after the last byte.

**`Pipe`** models `nsPipe3.cpp` with its cursors: the read cursor is an offset in segment 0,
the write cursor one in segment `mWriteSegment`, and the n-th byte written is the number
n. `ReadGet` and `WriteGet` are the holds in which a pointer (`ptr`, `len`) is taken,
`ReadAdvance` and `WriteAdvance` the holds after the copy; the callback may take any part of
what it is offered. A woken thread leaves `asleep` with the notification and returns from
`mon.Wait` in a later step. Each end is blocking or not from the start. `WaitAnyTime` is
`AsyncWait` from any thread, on a blocking end too and with either flag, `WaitReady` the call of an
owner that was told `WOULD_BLOCK`; `CloseInput` and `CloseOutput` may come from any thread, between any two holds.
`Signal` follows the code: an end with a callback has it called, and only an end without one has its
blocked thread notified. The history `missed` becomes true when a callback is called at an end whose thread
sleeps, `late` when a `Write` that was copying puts its bytes after the end. `PeekCursor` and
`PeekLimit` are `PeekSegment`: they say where the unread bytes of a segment lie, `UnreadBefore`
how many lie in the segments before it, and `UnreadCount` how many there are. `RefinesBytePipe` maps
the status and the capacity and nothing else: the histories are the abstract state.

**`HostResolver`** models records by number; `refc` is the reference count, and a record
whose count reaches zero can be allocated again. `MatchEntry`'s comparison of the flags
is in `Found`, bypassing callers included. One action is one hold of `mLock`; a callback
that `ResolveHost` or `DetachCallback` makes outside it is `CallFromHand`, one made by a thread
`CallNext`. Expiry is a free choice: a record with a
result may be looked up again at any time. Any thread creation may fail.

**`HttpConnectionMgr`** keeps the manager's own state in one record `mgr`, which only the
socket thread touches, so a handler is one action and its helpers are functions of
`mgr`. `msgs` is the socket thread's queue of `nsConnEvent`s. A transaction is
unused, accepted, or done ("ok" or "error"), with the connection its handle points to;
`carried` is the converse on the connection. What makes a connection reusable is one flag,
membership in `keepAlive`, which servers and time clear. `Restart`, `DoAuthRetry` (a sticky
connection handed to the next transaction) and failures of `Activate` are in.

The `MC*` modules add symmetry sets and sets a `.cfg` cannot write down.

Definitions marked *Mutation* are never used by a specification: each is a plausible
bug, and `PROJECT.json` names the definition it would replace and the property that
then fails.

## 3. The runs

| run | checks | instance | states |
|---|---|---|---|
| `eventqueue` | `QueueInv` `NoPageLeak` `ImplementsFIFOSafety` `ImplementsFIFO` | 2 events, 2 consumers, 3 pages of 2 slots, 6 puts | 94 thousand |
| `threadpool` | `PoolInv` `SleepersAreIdle` `NeverGrowsPastLimit` | 2 threads, 2 callers, 3 events, limits 1 and 2, idle limits 0 and 1, failures, `Shutdown` at any moment | 650 thousand |
| `threadpool_live` | `EventHasServer` `EventuallyRun` `ShutdownReturns` | 3 threads, 2 callers, 2 events, the same limits, no failures, `Shutdown` when no caller is inside `Dispatch` | 154 thousand |
| `thread` | `ThreadInv` `AcceptedAreRun` `NoBackgroundThreads` `SyncReturns` `JoinsReturn` | 3 threads, 2 tasks; the main thread creates, it and a background thread join; dispatch to threads in any state; unchecked puts may fail | 175 thousand |
| `chainedqueue` | `ChainInv` `SuppressedUntilPop` `EventuallyProcessed` | 3 events, 4 filters, 2 pushes, any put failing | 13 thousand |
| `timer` | `TimerInv` `NeverOversleeps` `OneShotUnlessReinit` `FiresNotEarly` | 2 timers, one-shot or precise, one-shot ones initialized again at any moment, clock of 8, lag of 1 | 4.6 million |
| `timer_all` | `NeverStranded` `EventuallyFires` `ShutdownEnds` | 1 timer, every call, machine sleep and shutdown | 358 thousand |
| `pipe` | `PipeInv` `NobodyWaitsInVain` `RefinesBytePipe` `EventuallyRead` `EndReleases` | 2 segments of 2 bytes, 5 bytes, calls for 3, ends blocking or not, any allocation failing, callbacks registered and either end closed at any moment | 306 thousand |
| `hostresolver` | `ResolverInv` `CalledOnce` `LookupHasThread` `EventuallyCalled` `ThreadsExit` | 3 callers, 1 name, 1 literal, 2 threads, cache of 1, 3 records, bypass, failing thread creation | 193 thousand |
| `http` | `ManagerInv` `TransactionInOnePlace` `NothingStranded` `NeverGrowsPastMax` `EventuallyClosed` | 2 hosts, 3 transactions, 3 connections, limit 1 raised to 2, any 2 unplanned events (a restart, a failure, a cancel and others) | 243 thousand |
| `threadpool_shutdown_loses` | `EventuallyRun` is violated | 2 threads, 1 caller, `Shutdown` at any moment | counterexample |
| `timer_reinit_race` | `OneShotFiresOnce` is violated | 1 timer initialized twice | counterexample |

The invariants named `...Inv` are conjunctions of the type invariant and named parts, each
with its own comment in the module; `PROJECT.json` has a mutation for every part.

- `ThreadInv`: a shutdown context outlives every pointer to it (`ContextAlive`), and a
  synchronous caller is there when its event is done (`SyncCallerWaits`).
- `AcceptedAreRun`: what a thread's queue took before the last look of `ThreadFunc` has been run when the
  thread's loop has ended.
- `SyncReturns` and `JoinsReturn` are about calls: a synchronous `Dispatch`, an `nsIThread::Shutdown` or the
  manager's `Shutdown` that is open ends. They promise nothing once somebody may have to wait for ever
  (`Hopeless`): an unchecked put failed, or a synchronous event came after its target's last look.
- `ChainInv`: every dispatched event was processed once, was lost by a `PopEventQueue` that found no page
  for it, or waits once (`EveryEventOnce`), in a queue that was there when it was dispatched, with
  all its elders (`NoneAhead`).
- `TimerInv`: `mArmed` and the list agree, without duplicates (`ArmedIsListedOnce`).
- `PipeInv`: the cursors delimit exactly the unread bytes (`BufferHoldsTheRest`), `mAvailable` is
  their number until the input closes (`AvailableExact`), and the writer never fills
  what the reader copies (`RegionsDisjoint`); with what these rest on: `CursorsOK`, `RegionsOwned`
  (a call outside the monitor finds its cursor where it left it), `EndsOK`.
- `NobodyWaitsInVain`, `EventuallyRead`, `EndReleases`: a thread sleeps only with a reason, a callback
  stays registered only with one, what is written is read, and an ended pipe releases both ends;
  in so far as it is about sleeping threads, until a callback took the place of a notify (`missed`, section 6).
  `EventuallyRead` also excludes bytes that a `Write` put into a pipe closed under it (`late`) after
  the reader was told of the end.
- `ResolverInv`: reference counts are the number of owners (`RefsExact`), `resolving` says that a
  lookup is queued or under way (`ResolvingExact`), sizes are right (`CountsExact`).
- `ManagerInv`: counts agree with lists (`CountsExact`), an active connection has a transaction
  or is about to be reclaimed (`ActiveAccounted`), queues are sorted (`PendingSorted`).

Why the bounds are enough to be interesting:

- Pages of two slots have a first slot, a last slot and a boundary; six puts
  cross a boundary twice and make a freed page be used again. The proof covers every
  page size, the code's 250 included.
- With limits 1 and 2 and two callers, a caller finds the limit reached, raised or
  lowered in between its two holds. Three events for two threads leave one queued while
  a thread is leaving and the other runs, and once both threads were made a
  further creation can only fail. The safety results are proved for every size.
- Two background threads and the main thread are the fewest for one to join a
  thread that waits for a third.
- Two timers give the list an order. A clock of 8 wraps in every long behaviour
  (it starts anywhere). The delay of `timer` is 2 intervals because a precise timer
  whose delay is no longer than the early adjustment fires without time passing.
- Two segments are the fewest for a reader and a writer to be in different ones and for
  a full pipe to be neither end's segment alone; five bytes fill it and come
  around; calls for three bytes cross a segment boundary and are cut short by it.
- A cache of one entry evicts on the second result; three callers are the fewest for one
  to join a lookup, one to bypass it and one to come after its eviction.
- A limit of one connection for two hosts makes each the other's obstacle, and raising
  it to two leaves room to fill. Calls of the main thread, restarts, failures and other
  unplanned events share the bound `MaxEvents`: any two of them meet each other and `Shutdown` in every
  order, three do not.
- Failures are not counted in `thread` (any put that is not checked), `pipe` and `chainedqueue` (any allocation) and
  `hostresolver` (any creation of a thread); in `http` one `Activate` fails at most.
- `http` raises its limit and does not lower it: `NeverGrowsPastMax` under lowered limits rests on the proof
  `LimitKept`. The limits of the pool go both ways.

`CHECK_DEADLOCK FALSE` is set in every run: each system may rightly come to rest (all
events run, every thread waiting for work or ended). That it comes to rest only when its work is done is
what the liveness properties say.

What the constants that restrict a run mean: `NestedShutdown`, `Creators`, `Joiners` (what the application does with its threads), `ShutdownWhen`,
`MayFail`, `Reinit` (the types of timer that are initialized again), `UseSetDelay`,
`UseSetType`, `UseSleep`, `UseShutdown`. Where a
property holds only with one of them restricted, section 6 says what happens otherwise.
`PoolAssumption` leaves out a thread limit of 0, which `SetThreadLimit` accepts (`nsThreadPool.cpp:286`):
`PutEvent` then creates no thread, and in a pool without members an event waits for the first `Dispatch`
after the limit was raised. `EventHasServer` and `EventuallyRun` are about limits of 1 and more.

## 4. Fairness

- *Event queue*: each consumer keeps calling `GetEvent` (weak fairness of
  `WaitPendingEvent`): it is the loop of `ThreadFunc` or `nsThreadPool::Run`.
- *Chained queues*: the thread keeps processing, and each `PushEventQueue` has its
  `PopEventQueue`, which `nsIThreadInternal.idl` asks of the caller.
- *Threads*: each thread is scheduled; a task's `Run` returns once its calls do. That
  user code dispatches, creates or shuts down anything is not assumed.
- *Pool*: callers inside `Dispatch`, pool threads, the main thread's event loop and an
  owner inside `Shutdown` are each scheduled (weak fairness of each one's steps).
  Idle timeouts and calls are not assumed to happen.
- *Pipe*: the reader's and the writer's steps inside a call (weak fairness of each), a callback
  that was dispatched runs, whatever else its target thread does (weak fairness of each `OnReady`), and the
  reader keeps reading. Its and the writer's callback may refuse any number of times, but not for
  ever (strong fairness of `Takes` and `Fills`, which other steps disable in between).
  That the writer writes, or that anybody closes or registers a callback unasked, is not assumed.
- *Host resolver*: name service calls return and, while some lookup thread can run, one
  does; callers about to call back do, and so does `Shutdown` once called. That
  anyone calls `Shutdown`, or that an idle thread times out (`WakeIdle(t, TRUE)`), is not assumed: a
  `Shutdown` that forgot to notify the idle thread violates `ThreadsExit`.
- *HTTP connection manager*: the socket thread handles its messages; the channel of a finished
  transaction lets go of it. That every server answers or its connection fails (weak fairness of
  `SocketDone`) is an assumption about the network, not something the code brings about: a socket has
  no timeout unless somebody sets one (`nsSocketTransport2.cpp:690`). `EventuallyClosed` says what the
  manager does with a network of this kind.
- *Timers*: weak fairness of the timer thread and of calls in progress. Time passes
  (strong fairness of `Tick`, which is disabled while the lag bound or the queue bound is
  reached, so weak fairness would say nothing of it). Strong fairness of taking a timer event,
  of a callback's return and of `Shutdown`'s return: other calls of the owner keep
  interrupting them in the model, as other events do in the event loop, which serves
  its queue in order and gets to each.

## 5. The proofs

The `*Proofs` modules are checked by TLAPS, for every value of the constants that
satisfies the assumption of the module they are about: `QueueAssumption`, `ChainAssumption`,
`PoolAssumption`, `ThreadAssumption`, `TimerAssumption`, `ResolverAssumption`, `HttpAssumption`, and
for the pipe `SegAssumption`, `WordAssumption` and `CountsAssumption`. They ask little: sets of threads
and of connections are finite, sizes and limits are
positive, the bytes of a full pipe are counted by a `PRUint32`, as `nsPipe::Init` makes sure by cutting the
segment count of an unbounded pipe (`nsPipe3.cpp:350`), the clock has an even number of values, the
resolver may have at least one thread. What they need of lists that hold an element once (`RemoveFirst`,
`InsertAt`, `Tail`, `Append` as sets), and that a set of numbers has a least one, is in `ListFacts`.

**The event queue is a FIFO.** `QueueInvariant` proves `QueueInv` and
`QueueIsFIFO` the safety half of the refinement (`NoLostWakeup` its part about sleepers), for every page size, heap and number of
threads. The FIFO property is not inductive by itself: nothing in it says that the slot
`GetEvent` reads holds the oldest event. `QueueInv` says where each position of the
history lives: `ChainOK` (each allocated page has the positions `first[p]` to
`first[p] + EVENTS_PER_PAGE`, pages are disjoint, a link leads to the following
positions, head and tail are the least and the greatest) and `ContentsOK` (the offsets
are the lengths of the histories and each pending slot holds its event). Two lemmas
carry the rest: `IsEmpty` is right exactly when all was taken, and the head slot holds
the oldest event. The page switch in `GetEvent` is the hard case: `mTail` dangles
after the last page is freed, which `ChainOK` allows only with `mHead` null.
`PagesNeverLeak` (`NoPageLeak`) says that the allocated pages are those the links lead to from `mHead`,
the least set that has it and is closed under links. Suppose a closed set misses an allocated page:
of its pages that come before, the nearest is not the tail, so its link leads to a page of the set that is
nearer still (`AllocatedReached`).

**Chained queues keep their events.** `ChainInvariant` and `ChainSuppresses` are in `EventQueueProofs`
too. `SuppressedUntilPop` is about the step in which an event is taken; what makes it
true is that no event is ever *put* into a queue younger than itself, `NoneAhead`. `Sound` states
that and `EveryEventOnce` of a chain and of the events that are on their way from a popped queue, of
which any may be lost for want of a page, and holds at every turn of `PopEventQueue`'s loop: `PutOne` is one turn, and `PutAllSound` the whole loop.
The loop is a recursion over the events left. That the recursive function exists (`PutAllTurns`) and that
`Sound` holds at each of its values is shown by looking at the least turn where it would not.

**The pool keeps its books.** `PoolInvariant` proves
`PoolInv == TypeOK /\ RunByMembersOnce /\ IdleCountExact` with any number of threads,
callers and events, failing allocations and `Shutdown` at any moment. `IdleCountExact`
alone is not inductive: when a thread leaves, `RemoveObject(current)` must find it, or an idle thread
is no member. `RunByMembersOnce` gives that, and needs in turn that
`Run` was dispatched once to each member (`DispatchedOnce`), and that a thread a caller
is about to add, start or end belongs to nobody else (`HoldersApart`). From it follow

- `RunAlwaysByMembersOnce`, `IdleCountAlwaysExact`: the two parts by themselves;
- `PoolNeverGrowsPastLimit`: the one step that adds a member is the second hold of
  `PutEvent`, which tests the limit again;
- `SleepersAlwaysIdle`: `PutEvent` wakes every sleeper in the hold in which it
  appends, and a thread goes to sleep only in a hold in which it found nothing;
- `EventAlwaysHasServer`, from `~ MayFail`: if `PutEvent` creates no thread then, the
  idle count being exact, an idle member exists or the array is full. Without
  `~ MayFail` it is false: `NewThread`'s failure leaves the event with nobody.

The cardinalities use the library's facts on finite sets; `IdleFacts` collects what one
thread more or less does to the count.

**The pipe is a FIFO of bytes.** `PipeInv` and `NobodyWaitsInVain` are proved together,
neither being inductive alone: a region handed out stays owned only because nobody sleeps where
the other end notifies. Two arguments carry it.

- *Position.* A byte at offset `o` of segment `i` is the
  `Len(delivered) + UnreadBefore(i) + (o - PeekCursor(i)) + 1`-th. `Layout` derives from `CursorsOK`
  that the segments between the cursors are whole, so `UnreadCount` is
  `mWriteSegment * SegSize + mWriteCursor - mReadCursor`. An advance of either cursor shifts both sides
  alike, also when the first segment goes (`DeleteFirstSegment`) or both cursors return to its head
  (`CanRollBack`, only with nothing unread). `UnreadFits` bounds the count by a full pipe, so
  `mAvailable` does not wrap before the input is closed.
- *Waiting.* One condition serves both ends. An open pipe that is not writable is full (`WaitersOK`), and while no
  callback took the place of a notify (`~missed`), the number `Signal` wakes is the number of sleeping ends
  it is meant for (`SignalWakes`). Afterwards `NobodyWaitsInVain` still promises what it says of
  callbacks, and nothing of sleeping threads: `NoLostWakeup` is conditional, and false without the condition.

In the refinement (`PipeRefinesBytePipe`), for pipes of every size and with either end closed by any thread
at any time, `WriteAdvance` is `Put`, `ReadAdvance` is `Take`, the
two closings are `Close`; `ReadEmpty` and a `Wait` that returns an error are `End`; every other step
stutters.

**Nobody uses a dead stack frame.** `ThreadInvariant` proves `ThreadInv` whoever creates,
joins and dispatches to whom, nested shutdowns included. `ContextAlive` says nothing of the order
in which a shutdown passes from hand to hand; `ShutdownProgress` does: it is required, then
asked for by one event, then the thread has the context, then it ends, then the
ACK is queued, then it is handled. Each step needs the one before to be unique
(`QueuedOnce`). A synchronous `Dispatch` has a wrapper that is queued once or runs once (`OpenOnce`,
`QueuedOrOpen`), and has not cleared `mSyncTask` until it is done (`SyncPending`). `StackShape` says
that no wait ever pops a thread's own loop.

`AcceptedEventsRun` (`AcceptedAreRun`) has no hypothesis: dispatches to a thread at any stage of its shutdown and
failing puts are in. `Accounted` says that a task which a queue took in time has been run, or waits on
that queue or runs on that stack, and that its thread is then still in its loop. The last look of `ThreadFunc` is
the step that needs `StackShape`: it finds the queue empty, and no call is open below. What comes later
is `late`; section 6 says what becomes of it.

`ManagerLeavesNone` is about `nsThreadManager.cpp:150`. It follows each
live thread: while it is registered, the manager will gather it; once it was asked to shut down,
some thread has a `Shutdown` call open for it (`AskedIsJoined`). That the manager's loop ends
after all of those needs that no chain of joins leads around it. (A join that an unchecked put has left hanging
keeps the manager waiting, which is no violation.) So the theorem has two hypotheses:
threads are created on the main thread, as the comment at line 116 assumes, and at most one other
thread joins. Without the first section 6 has the counterexample; without the
second, two threads that join each other are skipped by the manager.

**Timers.** `TimersNeverStranded` has no hypothesis: whatever the owner calls, `Run` computes its wait
in the hold of `mLock` in which it waits, and whoever puts a timer first notifies. The
other four are about an owner that uses `Init` and `Cancel` (`PlainUse`: no `SetDelay`, no `SetType`,
no machine sleep), which is how nearly all callers use timers; section 6 lists how
the other calls break them.

- `TimerListInvariant` (`TimerInv`, with only one-shot timers initialized again). That `mArmed`
  agrees with the list is not inductive: several steps put a timer into the list. `JourneyInv` says
  that a timer which goes back only after its callback is in one place: the list, the hands of the timer
  thread, a posted event, the callback, or the owner's call to `AddTimer`. Precise timers are put back
  before, and `ListOnce` says that the thread then has them off the list. `InitCommon` stores `mGeneration`
  and `mType` in two steps, and the timer thread may read between them; `Kind` is the type a timer is about to have,
  in the owner's hand until it is stored, and the parts about types speak of it.
- `OneShotTimersFireOnce` (no timer initialized twice): `FreshInv` says that once its
  callback has begun, a one-shot timer is nowhere.
- `TimersFireNotEarly` (and no delay plus adjustment reaching half the clock, `DelaysFit`: beyond,
  `TIMER_LESS_THAN` is wrong). The delay is followed from `InitCommon` through the unlocked
  read of the clock and the unlocked store to the list: in each place what is left until the deadline,
  modulo the clock, is at least what is left of the delay (`Left`), or the delay is over but for the
  adjustment (`Early`). The comparison in `Due` then tells past from future, however often the
  clock has wrapped.
- `TimerNeverOversleeps` (only one-shot timers initialized again, and `DeadlinesFit`). The thread looks at
  the first element of the list only, so the list must be sorted. By `TIMER_LESS_THAN` it cannot be: an
  overdue timer compares with the others as the clock happens to stand. `Deadlines` says what
  holds instead. Each listed deadline, as a signed distance from now, is no further back than the
  threads lag and no further ahead than half the clock (`NearList`); in these distances the list is
  `Ordered`, up to timers that are overdue, which no sleep lasts past; and a base or a timeout that
  a thread has read and not yet stored is as near (`ThreadDeadline`, `OwnerDeadline`). `InTime` follows in the
  hold in which the thread computes its wait, and stays: a timer added later is either not the first or
  wakes it. `DeadlinesFit` is what the code relies on: the longest delay, with the early adjustment and the lag,
  is below half the clock, and the adjustment is not positive. With a positive one, which
  `UpdateFilter` computes when callbacks come early, the thread is meant to sleep past the
  deadline. On the code's clock of 2^32 ms `Clamp` admits delays up to half of it, so the delays excluded are those
  within the lag and the adjustment of 24 days; the comment at `TimerThread.cpp:400` is about them. (The
  run `timer` is just beyond: delay, adjustment and lag are 4, half of its clock of 8. Of a clock of 10, inside
  the hypothesis, TLC finds 6.7 million states and the same result.)

**The resolver's references.** `ResolverInvariant`, `CallbacksCalledOnce` and `LookupsHaveThreads` are
proved from one invariant, for any number of names, callers, threads, records and cache entries.
`RefsExact` counts owners, and counts a queue once: it says nothing when a record is queued twice. What
excludes that is spread over the code, and the invariant has a part for each piece:

- `LookupsOK`: a record is in one lookup at most, queued or with a thread, `resolving` says whether it
  is, and then it is not on the eviction queue. So `OnLookupComplete` appends a record that is not
  there, and `IssueLookup`, which the flag guards, one that is not on `mPendingQ`. Callbacks wait on
  resolving records only, which is why a record that loses its last owner has none.
- `QueuesOK`: no queue holds a record twice, and `Shutdown`'s lists are in use only after `mShutdown`.
- `ThreadsOK`, `PoolOK`: a thread has a record exactly while it looks it up or calls back, and a list of
  callbacks only while it calls; one thread at most is idle, `mHaveIdleThread` says whether, and
  the thread count is the number of threads that were created and have not ended. A new record
  finds an idle thread to notify, or a thread to create, or all threads at work, which come back to the
  queue: that is `LookupHasThread`.
- `CallbacksOK`: a callback is owed its call exactly when it waits on one record, is on one thread's list
  or is in its caller's hand; before it is given to `ResolveHost` it is in none.

With these each step moves a reference from one owner to another or takes as many as it gives.
`CompleteRefs` does the sum for `OnLookupComplete`, which may put a record on the eviction queue, give up
the head of the queue and drop the table's entry found under its key, all in one hold and possibly all of
one record.

**The connection manager's books.** `BooksBalance` (`ManagerInv`), `OnePlaceEach`
(`TransactionInOnePlace`), `SomeoneServes` (`NothingStranded`) and `LimitKept` (`NeverGrowsPastMax`) are proved for any
number of hosts, transactions and connections, any limits, restarts, sticky retries, failing
connections and a `Shutdown` at any moment. None is inductive: a handler that reclaims a connection
decrements a count because it believes that the connection is active, on the word of a message posted
earlier. `HttpInv` says what such words are worth:

- `Mail`, `Known`: a transaction is announced by one message at most, a connection is reclaimed by one at most,
  shutdown is the last message, and cancels and reschedules are about transactions that were created.
- `Announced`: a connection that is to be reclaimed is active and nobody has a handle to it; a
  transaction that is announced is in no queue and on no connection.
- `Handles`: a transaction's handle is to an active connection of its host, no two have the same, and what
  a connection carries has the handle to it. So dropping a handle is what posts the
  reclaim, once.
- `Placed`: an accepted transaction is announced, in the queue of its own host, or carried.
- `Accounted`: until `Shutdown`, an active connection carries a transaction, is to be reclaimed, or belongs to a
  transaction that is done or about to be tried again on it. This is why a count never stays up for nothing.
- `TypedBooks`: the two counts are the cardinalities of the active and idle connections of all
  hosts, and the lists hold each connection once. The proof goes by cardinalities of sets, so
  that no sum over hosts is needed: moving, dropping or adding one connection changes one cardinality by one.
- `Sorted`: a queue is sorted by the priorities the transactions have now, also while one is
  rescheduled.

The helpers of the code (`AtActiveConnectionLimit`, purging an idle connection, `DispatchTransaction`,
`ProcessPendingQForEntry`, closing, restarting) each have a lemma that says what they do to
these books; a handler is then their composition. `LimitKept` needs in addition that a handler opens a connection only
behind the test of the limit, after what it purged.

Every safety invariant and action property that the passing runs check is a theorem, some of them
under the hypotheses named above. Only model-checked: all liveness (`ImplementsFIFO` as a whole, `EventuallyRun`,
`SyncReturns`, `EventuallyFires`, `EventuallyCalled`, `EventuallyClosed` and the like), which is beyond
the prover.

## 6. Where code and comments disagree

Two disagreements are runs of their own:

1. `threadpool_shutdown_loses`. `nsIThreadPool.idl:43`: an event dispatched to the pool
   "will be run on the next available worker thread". `Dispatch` tests `mShutdown` without the
   monitor (`nsThreadPool.cpp:225`), and `PutEvent` does not test it again. In the run a caller past the test
   puts its event, creates a thread and adds it to `mThreads` (line 117). Before the caller comes to
   `thread->Dispatch(this)` (line 126), `Shutdown` copies `mThreads`, with the new thread in it, and joins
   it; the thread has nothing to run and ends. The caller then gives the pool to a thread that has ended.
   The event stays in the pool's queue and is never run, and a synchronous caller waits for ever.
2. `timer_reinit_race`. `nsTimerImpl.h:148`: the generation lets one-shot timers be
   "canceled and re-initialized by the arming thread without any bad race conditions".
   `PostTimerEvent` reads it without the lock, after the timer left the list: an `Init` in
   between gives the old event the new generation, so it fires at once, and again later.

Others were seen while modelling. The models have the behaviour; no run asserts it:

- `nsThreadManager.cpp:150`: "There are no more background threads at this point." A thread
  inside `NewThread` when `mInitialized` is cleared registers its thread after the table was
  gathered; nobody joins it (with a background thread in `Creators`, `NoBackgroundThreads`
  fails). The comment at line 116 relies on `NewThread` being called on the main thread only,
  but `nsThreadPool.cpp:110` calls it on any thread that dispatches.
- `nsThreadPool.cpp:98-99`: `mIdleCount` still counts a thread that an earlier event
  woke and that has not run yet, so a second event gets no thread of its own
  although the limit allows one. It is run, later.
- `nsThreadPool.cpp:183`: the test is `mIdleCount == mIdleThreadLimit`. Once
  `SetIdleThreadLimit` lowered the limit below the count, a busy thread becomes idle on
  top of it. The surplus leaves when next woken.
- `nsIThreadPool.idl:52` says `Shutdown` leaves no pool thread running; a thread that
  took itself off `mThreads` a moment earlier is joined by the main thread and may outlive it.
- `nsIThread.idl:62`: `Shutdown` "prevents further dispatch of events to the thread", and no code does: an
  event that is dispatched after the thread's last look at its queue (`nsThread.cpp:253`) gets `NS_OK` and is
  never run (`late`), and a synchronous caller waits for ever. What came before is run: `AcceptedAreRun`.
- `nsThread.cpp:372`, 262, 309, 434, 612: the result of a put is ignored, or looked at after the wait, and for want of a
  page a synchronous `Dispatch`, `Init` of a new thread or `Shutdown` waits for ever (`failed`).
- `nsThread.cpp:587`: likewise in `PopEventQueue`, where the event taken from the popped queue is lost
  (`lost`); `nsIThreadInternal.idl:74` says remaining events "are appended to the elder queue".
- `nsThread.cpp:441`: `Shutdown` called from inside an event that the target dispatched
  synchronously deadlocks; the code does not detect it (`NestedShutdown`).
- `nsThread.cpp:596`: with nested queues the youngest filter is asked first, and an event it
  accepts is processed although the filter of an outer `PushEventQueue` would reject it;
  `nsIThreadInternal.idl:60` says new events "will only be processed if they are accepted
  by the given filter".
- `nsTimerImpl.cpp:423`: `Fire` puts a slack timer back without asking whether its
  callback initialized it again: it is then in the list twice, with one `mArmed`.
- `nsTimerImpl.cpp:530`: a precise timer that is initialized again counts from the
  `mTimeout` of its earlier life, and may fire early.
- `TimerThread.cpp:350`: `TimerDelayChanged` adds the timer whether or not it was listed, so
  `SetDelay` arms a one-shot timer that has fired.
- `nsTimerImpl.cpp:302`: `SetDelay` changes the deadline of a listed timer before the
  lock is taken; the timer thread may take its wait from the unsorted list, and another
  timer is late by the difference.
- `nsTimerImpl.cpp:512`: a precise timer canceled while it is off the list is armed
  again for ever; its callback does not run.
- `TimerThread.cpp:435-437`: the loop goes by index while `SetDelay` moves the element it is
  at, so timers are skipped that the comment says are recomputed.
- `TimerThread.cpp:400-402`: the code's own XXX. An overdue timer and one with the
  longest delay are further apart than the comparison can tell.
- `nsPipe3.cpp:627-633`, 651-657, 982-988, 1001-1007: an end that has a callback has the callback called *instead of* its blocked
  thread notified. `AsyncWait` is open to ends that block, and `nsStreamUtils.cpp:306-322` registers a
  `WAIT_CLOSURE_ONLY` callback on whatever stream it was given. If a thread sleeps in `Read` or `Write` on that end
  when the other one is closed, the callback is called and the thread is not woken, although
  `nsIPipe.idl:56` says a blocking read returns when the pipe is closed; and a notify meant for the other end may from
  then on wake the wrong thread. With `~missed` dropped, `NoLostWakeup`, `EventuallyRead` and `EndReleases` fail.
- `nsPipe3.cpp:1033`: closed by another thread while a `Write` copies, the pipe still takes those bytes
  and `Write` reports them written, although the reader may have been told of the end already (`late`).
- `nsPipe3.cpp:617`: a blocked reader that a write has woken, and that runs only after the
  output was closed with an error, returns the error; by the comment at line 561 unread
  bytes spare the input end. A next call reads them.
- `nsPipe3.cpp:405`: `GetReadSegment` looks at the data before the status, so a reader of an
  input it has closed itself still gets what was written; `mAvailable`, zeroed by the
  closing, then wraps below zero.
- `nsPipe3.cpp:482`: with a failed allocation `mWritable` stays set, so a blocking writer
  does not sleep but tries again at once.
- `nsHostResolver.cpp:224`: the flags of a key are compared unfiltered with the filtered ones of
  a record, so a key with `RES_BYPASS_CACHE` matches nothing: each such call makes a
  record of its own, `DetachCallback` does not find it, and its eviction removes the
  entry of another record from the table.
- `nsHostResolver.cpp:557`: if the thread cannot be created the caller is refused, but the
  record stays on `mPendingQ`, marked as resolving; later callers join it and wait until
  some other lookup brings a thread.
- `nsHostResolver.cpp:628`: only successful lookups are put on the eviction queue; records of
  failed ones and of literals stay in the table until `Shutdown`.
- `nsHttpConnectionMgr.cpp:449`: a transaction whose dispatch from the queue fails is put back and
  nothing is posted; if no connection is active it waits until some other request comes.
- `nsHttpConnectionMgr.cpp:889`: raising a limit does not look at the queues; the next
  reclaimed connection does, and starts one transaction.
- `nsHttpTransaction.cpp:656`: a restart posts the priority the transaction had then; a
  `RescheduleTransaction` posted before is handled first and overwritten.
- `nsHttpConnectionMgr.cpp:716`: a new transaction is started if the limits allow, whatever waits
  in the queue of its host with a higher priority.

## 7. What is not modelled

Within the modelled components:

- timers: reference counts and `Release` (planned); idle timers and `gFireOnIdle`;
  the arithmetic of `UpdateFilter`; failed allocations; a callback that runs an event loop;
  calls after the timer thread is gone;
- threads: priorities, observers, `nsThread` objects made for foreign threads, getters, failed
  allocations other than of a queue's page;
- pipe: `Search`, `Tell`, `Available`, and `AsyncWait` without a callback; how a target
  thread orders the callback among its other events; callbacks registered unasked on a pipe
  that has ended, or while another callback is registered or under way (the bound of `WaitAnyTime`);
- host resolver: address families and the contents of results; failed allocations;
- HTTP connection manager: pipelines; the limits for connections through proxies, which are the
  same tests with other numbers; removal of empty entries from `mCT` (a missing entry and an
  empty one do the same); `Init` after `Shutdown`, where a handle from before makes
  line 866 wrap the count; failed allocations;
- pool: a thread limit of 0; getters; events that user code dispatches to a pool thread itself.

NSPR (monitors, condition variables, threads, the clock) is modelled by how this code
uses it: a monitor makes its holds atomic, a wait ends with a notification or its
timeout.

Other components, with reasons, are in `PROJECT.json`. In short: the stream pumps and the
socket transport are planned; layout, content and script, by far the largest part of the
repository, are single threaded and their difficulty is in their data; NSPR, NSS and the
image and compression libraries are third party. Of the repository's four and a half million
lines the models therefore cover a small share: they go where threads meet.

## 8. Plan

Done: `EventFIFO`, `EventQueue`, `ChainedQueue`, `ThreadPool`, `Thread`, `TimerThread`, `BytePipe`, `Pipe`,
`HostResolver` and `HttpConnectionMgr`, each with proofs of its safety properties.

Models to come:

1. `TimerRefs`: `Release` and the references the list and the events hold, as a
   refinement of `TimerThread`: no timer is freed while it is listed.
2. `SocketTransportService`: poll list, active and idle lists, pending queue; under
   `HttpConnectionMgr`.
3. `InputStreamPump` and the stream copier, over `BytePipe`.
