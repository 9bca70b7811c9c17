----------------------------- MODULE ThreadProofs -----------------------------
(***************************************************************************)
(* For every number of threads and tasks, whoever creates, joins and       *)
(* dispatches to whom, whichever allocations fail and however deep the     *)
(* event loops nest: ThreadInv is an invariant of Thread, and what a       *)
(* thread took in time it has run before it ends.  Under a condition on    *)
(* the callers the thread manager's Shutdown leaves no thread behind.      *)
(***************************************************************************)
EXTENDS Thread, Integers, TLAPS

\* The bottom of a stack is its thread's own loop, and the thread manager's
\* Shutdown runs directly on the main thread's.
StackShape ==
    \A t \in Threads : \A i \in DOMAIN stack[t] :
        /\ stack[t][i].op = "loop" <=> i = 1
        /\ stack[t][i].op = "manager" => t = Main /\ i = 2

\* What the argument of a call or of an event is.
CallOK(c) ==
    /\ c.op \in {"join", "init", "stuck"} => c.arg \in Background
    /\ c.op \in {"task", "sync", "syncwait"} => c.arg \in Tasks
EventOK(c) ==
    /\ c.op = "ack" => c.arg \in Background
    /\ c.op = "shutdown" => c.arg \in Threads
    /\ c.op \in {"task", "sync", "wake"} => c.arg \in Tasks
ArgsOK ==
    \A t \in Threads : /\ \A c \in OpenCalls(t) : CallOK(c)
                       /\ \A c \in Queued(t) : EventOK(c)

HasShutdown(u) == \E c \in Queued(u) : c.op = "shutdown"

\* The shutdown of a thread goes forward: asked for once, taken off the queue
\* once, acknowledged once, joined once.
ProgressOf(u) ==
    /\ life[u] # "running" => OpenCalls(u) = {}
    /\ mShutdownRequired[u] =>
         life[u] = "running" /\ mShutdownContext[u] = None /\ ~ HasShutdown(u)
    /\ HasShutdown(u) => life[u] = "running" /\ mShutdownContext[u] = None
    /\ mShutdownContext[u] # None => life[u] # "none"
    /\ life[u] \in {"ending", "exited", "joined"} => mShutdownContext[u] # None
    /\ shutdownAck[u] => life[u] \in {"exited", "joined"}
    /\ \A t \in Threads : Call("ack", u) \in Queued(t) =>
         life[u] = "exited" /\ ~ shutdownAck[u]
ShutdownProgress ==
    /\ life[Main] = "running" /\ ~ mShutdownRequired[Main]
    /\ mShutdownContext[Main] = None /\ ~ HasShutdown(Main)
    /\ \A u \in Background : ProgressOf(u)

\* A thread that sleeps does so in the loop of an open call.
SleepsInCall == \A t \in Threads : asleep[t] => OpenCalls(t) # {}

\* No thread is told to shut down twice, and no acknowledgement or wrapper of
\* a synchronous event is queued twice.
QueuedOnce ==
    /\ \A u \in Threads : \A i, j \in DOMAIN queue[u] :
         queue[u][i].op = "shutdown" /\ queue[u][j].op = "shutdown" => i = j
    /\ \A t1, t2 \in Threads : \A i \in DOMAIN queue[t1], j \in DOMAIN queue[t2] :
         queue[t1][i].op \in {"ack", "sync"} /\ queue[t1][i] = queue[t2][j]
           => t1 = t2 /\ i = j

\* A wrapper runs once, and not while it is queued.
OpenOnce ==
    \A t1, t2 \in Threads : \A i \in DOMAIN stack[t1], j \in DOMAIN stack[t2] :
        stack[t1][i].op = "sync" /\ stack[t1][i] = stack[t2][j] => t1 = t2 /\ i = j
QueuedOrOpen ==
    \A t1, t2 \in Threads : \A c \in Queued(t1) : c.op = "sync" => c \notin OpenCalls(t2)

\* A wrapper that is queued or runs has not yet cleared mSyncTask.
SyncPending ==
    /\ syncTask \subseteq dispatched
    /\ \A e \in syncTask : origin[e] \in Threads
    /\ \A t \in Threads, e \in Tasks :
         Call("sync", e) \in Queued(t) \cup OpenCalls(t) => e \in syncTask

\* A task that a thread's queue took in time has been run, or that thread runs
\* and has it on its queue or on its stack.
Pending(e, t) ==
    \/ Call("task", e) \in Queued(t) \cup OpenCalls(t)
    \/ Call("sync", e) \in Queued(t) \cup OpenCalls(t)
Accounted ==
    /\ \A e \in Tasks : acceptedBy[e] # None => e \in dispatched
    /\ \A e \in Tasks \ late : acceptedBy[e] # None /\ e \notin ran =>
         life[acceptedBy[e]] = "running" /\ Pending(e, acceptedBy[e])

Inv ==
    /\ TypeOK /\ StackShape /\ ArgsOK /\ SleepsInCall /\ ShutdownProgress
    /\ QueuedOnce /\ OpenOnce /\ QueuedOrOpen /\ SyncPending
    /\ ContextAlive /\ SyncCallerWaits /\ Accounted

-----------------------------------------------------------------------------
\* What is in a sequence after each of the operations of the model.
Elems(s) == {s[i] : i \in DOMAIN s}

LEMMA AppendElems ==
    ASSUME NEW S, NEW s \in Seq(S), NEW c \in S
    PROVE  /\ Append(s, c) \in Seq(S) /\ Len(Append(s, c)) = Len(s) + 1
           /\ Elems(Append(s, c)) = Elems(s) \cup {c}
           /\ \A i \in 1 .. Len(s) : Append(s, c)[i] = s[i]
           /\ Append(s, c)[Len(s) + 1] = c
<1>1. /\ Append(s, c) \in Seq(S) /\ Len(Append(s, c)) = Len(s) + 1
      /\ \A i \in 1 .. Len(s) : Append(s, c)[i] = s[i]
      /\ Append(s, c)[Len(s) + 1] = c
      /\ DOMAIN s = 1 .. Len(s) /\ DOMAIN Append(s, c) = 1 .. Len(s) + 1 /\ Len(s) \in Nat
  OBVIOUS
<1> DEFINE a == Append(s, c)
<1>2. /\ DOMAIN a = 1 .. Len(s) + 1 /\ \A i \in 1 .. Len(s) : a[i] = s[i]
      /\ a[Len(s) + 1] = c
  BY <1>1
<1> HIDE DEF a
<1>3. Elems(a) = Elems(s) \cup {c}
  <2>1. ASSUME NEW x \in Elems(a) PROVE x \in Elems(s) \cup {c}
    BY <1>1, <1>2, <2>1 DEF Elems
  <2>2. ASSUME NEW x \in Elems(s) PROVE x \in Elems(a)
    BY <1>1, <1>2, <2>2 DEF Elems
  <2>3. c \in Elems(a)
    BY <1>1, <1>2 DEF Elems
  <2> QED BY <2>1, <2>2, <2>3
<1> QED BY <1>1, <1>3 DEF a

LEMMA TailElems ==
    ASSUME NEW S, NEW s \in Seq(S), s # << >>
    PROVE  /\ Tail(s) \in Seq(S) /\ Len(Tail(s)) = Len(s) - 1 /\ Len(s) \in Nat \ {0}
           /\ Head(s) = s[1] /\ Head(s) \in S
           /\ Elems(s) = Elems(Tail(s)) \cup {Head(s)}
           /\ \A i \in 1 .. Len(s) - 1 : Tail(s)[i] = s[i + 1]
<1>1. /\ Tail(s) \in Seq(S) /\ Len(Tail(s)) = Len(s) - 1 /\ Len(s) \in Nat \ {0}
      /\ Head(s) = s[1] /\ Head(s) \in S
      /\ \A i \in 1 .. Len(s) - 1 : Tail(s)[i] = s[i + 1]
      /\ DOMAIN s = 1 .. Len(s) /\ DOMAIN Tail(s) = 1 .. Len(s) - 1
  OBVIOUS
<1> DEFINE a == Tail(s)
<1>2. DOMAIN a = 1 .. Len(s) - 1 /\ \A i \in 1 .. Len(s) - 1 : a[i] = s[i + 1]
  BY <1>1
<1> HIDE DEF a
<1>3. Elems(s) = Elems(a) \cup {s[1]}
  <2>1. ASSUME NEW x \in Elems(a) PROVE x \in Elems(s)
    <3>1. PICK i \in 1 .. Len(s) - 1 : x = s[i + 1]
      BY <1>2 DEF Elems
    <3>2. i + 1 \in DOMAIN s
      BY <1>1
    <3> QED BY <3>1, <3>2 DEF Elems
  <2>2. ASSUME NEW x \in Elems(s) PROVE x \in Elems(a) \cup {s[1]}
    <3>1. PICK i \in 1 .. Len(s) : x = s[i]
      BY <1>1 DEF Elems
    <3>2. CASE i # 1
      <4>1. i - 1 \in DOMAIN a /\ (i - 1) + 1 = i
        BY <1>1, <1>2, <3>2
      <4>2. a[i - 1] = x
        BY <1>2, <3>1, <4>1
      <4> QED BY <4>1, <4>2 DEF Elems
    <3> QED BY <3>1, <3>2
  <2>3. s[1] \in Elems(s)
    BY <1>1 DEF Elems
  <2> QED BY <2>1, <2>2, <2>3
<1> QED BY <1>1, <1>3 DEF a

LEMMA PopElems ==
    ASSUME NEW S, NEW s \in Seq(S), s # << >>
    PROVE  /\ Pop(s) \in Seq(S) /\ Len(Pop(s)) = Len(s) - 1 /\ Len(s) \in Nat \ {0}
           /\ s[Len(s)] \in S /\ Elems(s) = Elems(Pop(s)) \cup {s[Len(s)]}
           /\ \A i \in 1 .. Len(s) - 1 : Pop(s)[i] = s[i]
<1>1. /\ SubSeq(s, 1, Len(s) - 1) \in Seq(S) /\ Len(SubSeq(s, 1, Len(s) - 1)) = Len(s) - 1
      /\ Len(s) \in Nat \ {0} /\ s[Len(s)] \in S
      /\ \A i \in 1 .. Len(s) - 1 : SubSeq(s, 1, Len(s) - 1)[i] = s[i]
      /\ DOMAIN s = 1 .. Len(s) /\ DOMAIN SubSeq(s, 1, Len(s) - 1) = 1 .. Len(s) - 1
  <2>1. Len(s) \in Nat \ {0} /\ DOMAIN s = 1 .. Len(s) /\ s[Len(s)] \in S
    OBVIOUS
  <2> DEFINE n == Len(s) - 1
  <2>2. n \in Nat /\ n <= Len(s) /\ \A i \in 1 .. n : s[i] \in S
    BY <2>1
  <2> HIDE DEF n
  <2>3. /\ SubSeq(s, 1, n) \in Seq(S) /\ Len(SubSeq(s, 1, n)) = n
        /\ \A i \in 1 .. n : SubSeq(s, 1, n)[i] = s[i]
    BY <2>1, <2>2
  <2>4. DOMAIN SubSeq(s, 1, n) = 1 .. n
    BY <2>3
  <2> QED BY <2>1, <2>3, <2>4 DEF n
<1> DEFINE a == SubSeq(s, 1, Len(s) - 1)
<1>2. DOMAIN a = 1 .. Len(s) - 1 /\ \A i \in 1 .. Len(s) - 1 : a[i] = s[i]
  BY <1>1
<1> HIDE DEF a
<1>3. Elems(s) = Elems(a) \cup {s[Len(s)]}
  <2>1. ASSUME NEW x \in Elems(a) PROVE x \in Elems(s)
    BY <1>1, <1>2, <2>1 DEF Elems
  <2>2. ASSUME NEW x \in Elems(s) PROVE x \in Elems(a) \cup {s[Len(s)]}
    BY <1>1, <1>2, <2>2 DEF Elems
  <2>3. s[Len(s)] \in Elems(s)
    BY <1>1 DEF Elems
  <2> QED BY <2>1, <2>2, <2>3
<1> QED BY <1>1, <1>3 DEF a, Pop

LEMMA ElemsQueued ==
    \A t : /\ Queued(t) = Elems(queue[t]) /\ Queued(t)' = Elems(queue'[t])
           /\ OpenCalls(t) = Elems(stack[t]) /\ OpenCalls(t)' = Elems(stack'[t])
BY DEF Queued, OpenCalls, Elems

CallType == [op : CallOps, arg : Threads \cup Tasks]
EventType == [op : EventOps, arg : Threads \cup Tasks]

LEMMA EventIs == ASSUME NEW c \in EventType \cup CallType PROVE c = Call(c.op, c.arg)
BY DEF EventType, CallType, Call

\* The stacks and queues have their types.
LEMMA Types ==
    ASSUME TypeOK
    PROVE  /\ stack \in [Threads -> Seq(CallType)] /\ queue \in [Threads -> Seq(EventType)]
           /\ \A t \in Threads : /\ OpenCalls(t) = Elems(stack[t]) /\ Queued(t) = Elems(queue[t])
                                 /\ OpenCalls(t) \subseteq CallType /\ Queued(t) \subseteq EventType
<1>1. stack \in [Threads -> Seq(CallType)] /\ queue \in [Threads -> Seq(EventType)]
  BY DEF TypeOK, CallType, EventType
<1>2. ASSUME NEW t \in Threads
      PROVE  /\ OpenCalls(t) = Elems(stack[t]) /\ Queued(t) = Elems(queue[t])
             /\ OpenCalls(t) \subseteq CallType /\ Queued(t) \subseteq EventType
  <2>1. stack[t] \in Seq(CallType) /\ queue[t] \in Seq(EventType)
    BY <1>1
  <2>2. /\ DOMAIN stack[t] = 1 .. Len(stack[t]) /\ DOMAIN queue[t] = 1 .. Len(queue[t])
        /\ \A i \in 1 .. Len(stack[t]) : stack[t][i] \in CallType
        /\ \A i \in 1 .. Len(queue[t]) : queue[t][i] \in EventType
    BY <2>1
  <2> QED BY <2>2 DEF OpenCalls, Queued, Elems
<1> QED BY <1>1, <1>2

\* An event is queued at the end.
LEMMA PutStep ==
    ASSUME TypeOK, NEW u \in Threads, NEW c \in EventType, Put(u, c)
    PROVE  /\ queue' \in [Threads -> Seq(EventType)]
           /\ Queued(u)' = Queued(u) \cup {c}
           /\ \A t \in Threads \ {u} : Queued(t)' = Queued(t) /\ queue'[t] = queue[t]
           /\ (QueuedOnce /\ (c.op = "shutdown" => ~ HasShutdown(u))
                /\ (c.op \in {"ack", "sync"} => \A t \in Threads : c \notin Queued(t)))
                => QueuedOnce'
<1> DEFINE s == queue[u]
<1>1. queue \in [Threads -> Seq(EventType)] /\ s \in Seq(EventType)
  BY Types
<1>2. queue' = [queue EXCEPT ![u] = Append(s, c)]
  BY DEF Put
<1>3. /\ Append(s, c) \in Seq(EventType) /\ Len(Append(s, c)) = Len(s) + 1
      /\ Elems(Append(s, c)) = Elems(s) \cup {c}
      /\ \A i \in 1 .. Len(s) : Append(s, c)[i] = s[i]
      /\ Append(s, c)[Len(s) + 1] = c
  BY <1>1, AppendElems
<1> DEFINE a == Append(s, c)
<1> HIDE DEF a
<1>4. /\ queue' \in [Threads -> Seq(EventType)] /\ queue'[u] = a
      /\ \A t \in Threads \ {u} : queue'[t] = queue[t]
  BY <1>1, <1>2, <1>3 DEF a
<1>5. Queued(u)' = Queued(u) \cup {c} /\ \A t \in Threads \ {u} : Queued(t)' = Queued(t)
  <2>1. Queued(u)' = Elems(a) /\ Queued(u) = Elems(s)
    BY <1>4, ElemsQueued
  <2> QED BY <1>3, <1>4, <2>1, ElemsQueued DEF a
<1>6. ASSUME QueuedOnce, c.op = "shutdown" => ~ HasShutdown(u),
             c.op \in {"ack", "sync"} => \A t \in Threads : c \notin Queued(t)
      PROVE  QueuedOnce'
  <2>1. /\ DOMAIN a = 1 .. Len(s) + 1 /\ DOMAIN s = 1 .. Len(s) /\ Len(s) \in Nat
        /\ a[Len(s) + 1] = c /\ \A i \in 1 .. Len(s) : a[i] = s[i]
    BY <1>1, <1>3 DEF a
  <2>2. ASSUME NEW t \in Threads, NEW i \in DOMAIN queue'[t]
        PROVE  \/ i \in DOMAIN queue[t] /\ queue'[t][i] = queue[t][i]
               \/ t = u /\ i = Len(s) + 1 /\ queue'[t][i] = c
    <3>1. CASE t = u
      BY <1>4, <2>1, <3>1
    <3>2. CASE t # u
      BY <1>4, <3>2
    <3> QED BY <3>1, <3>2
  <2>3. ASSUME NEW t \in Threads, NEW i \in DOMAIN queue[t] PROVE queue[t][i] \in Queued(t)
    BY DEF Queued
  <2>4. ASSUME NEW t \in Threads, NEW i \in DOMAIN queue'[t], NEW j \in DOMAIN queue'[t],
               queue'[t][i].op = "shutdown", queue'[t][j].op = "shutdown"
        PROVE  i = j
    <3>1. CASE i \in DOMAIN queue[t] /\ j \in DOMAIN queue[t]
               /\ queue'[t][i] = queue[t][i] /\ queue'[t][j] = queue[t][j]
      BY <1>6, <2>4, <3>1 DEF QueuedOnce
    <3>2. CASE t = u /\ i = Len(s) + 1 /\ queue'[t][i] = c
      BY <1>6, <2>2, <2>3, <2>4, <3>2 DEF HasShutdown
    <3>3. CASE t = u /\ j = Len(s) + 1 /\ queue'[t][j] = c
      BY <1>6, <2>2, <2>3, <2>4, <3>3 DEF HasShutdown
    <3> QED BY <2>2, <2>4, <3>1, <3>2, <3>3
  <2>5. ASSUME NEW t1 \in Threads, NEW t2 \in Threads,
               NEW i \in DOMAIN queue'[t1], NEW j \in DOMAIN queue'[t2],
               queue'[t1][i].op \in {"ack", "sync"}, queue'[t1][i] = queue'[t2][j]
        PROVE  t1 = t2 /\ i = j
    <3>1. CASE i \in DOMAIN queue[t1] /\ j \in DOMAIN queue[t2]
               /\ queue'[t1][i] = queue[t1][i] /\ queue'[t2][j] = queue[t2][j]
      <4>1. queue[t1][i].op \in {"ack", "sync"} /\ queue[t1][i] = queue[t2][j]
        BY <2>5, <3>1
      <4>2. \A t3, t4 \in Threads : \A k \in DOMAIN queue[t3], l \in DOMAIN queue[t4] :
              queue[t3][k].op \in {"ack", "sync"} /\ queue[t3][k] = queue[t4][l]
                => t3 = t4 /\ k = l
        BY <1>6 DEF QueuedOnce
      <4> QED BY <3>1, <4>1, <4>2
    <3>2. CASE t1 = u /\ i = Len(s) + 1 /\ queue'[t1][i] = c
      <4>1. \A t \in Threads : c \notin Queued(t)
        BY <1>6, <2>5, <3>2
      <4> QED BY <2>2, <2>3, <2>5, <3>2, <4>1
    <3>3. CASE t2 = u /\ j = Len(s) + 1 /\ queue'[t2][j] = c
      <4>1. c.op \in {"ack", "sync"} /\ \A t \in Threads : c \notin Queued(t)
        BY <1>6, <2>5, <3>3
      <4> QED BY <2>2, <2>3, <2>5, <3>3, <4>1
    <3>4. /\ \/ i \in DOMAIN queue[t1] /\ queue'[t1][i] = queue[t1][i]
             \/ t1 = u /\ i = Len(s) + 1 /\ queue'[t1][i] = c
          /\ \/ j \in DOMAIN queue[t2] /\ queue'[t2][j] = queue[t2][j]
             \/ t2 = u /\ j = Len(s) + 1 /\ queue'[t2][j] = c
      BY <2>2
    <3> QED BY <3>1, <3>2, <3>3, <3>4
  <2> QED BY <2>4, <2>5 DEF QueuedOnce
<1> QED BY <1>4, <1>5, <1>6

\* The first event is taken off.
LEMMA TakeStep ==
    ASSUME TypeOK, QueuedOnce, NEW u \in Threads, queue[u] # << >>,
           queue' = [queue EXCEPT ![u] = Tail(@)]
    PROVE  /\ queue' \in [Threads -> Seq(EventType)] /\ QueuedOnce'
           /\ Head(queue[u]) \in EventType
           /\ Queued(u) = Queued(u)' \cup {Head(queue[u])}
           /\ \A t \in Threads \ {u} : Queued(t)' = Queued(t)
           /\ Head(queue[u]).op = "shutdown" => ~ HasShutdown(u)'
           /\ Head(queue[u]).op \in {"ack", "sync"} =>
                \A t \in Threads : Head(queue[u]) \notin Queued(t)'
<1> DEFINE s == queue[u]
           h == Head(s)
<1>1. queue \in [Threads -> Seq(EventType)] /\ s \in Seq(EventType) /\ s # << >>
  BY Types
<1>2. /\ Tail(s) \in Seq(EventType) /\ Len(Tail(s)) = Len(s) - 1 /\ Len(s) \in Nat \ {0}
      /\ Head(s) = s[1] /\ Head(s) \in EventType
      /\ Elems(s) = Elems(Tail(s)) \cup {Head(s)}
      /\ \A i \in 1 .. Len(s) - 1 : Tail(s)[i] = s[i + 1]
  BY <1>1, TailElems
<1> DEFINE a == Tail(s)
<1>3. /\ a \in Seq(EventType) /\ DOMAIN a = 1 .. Len(s) - 1 /\ DOMAIN s = 1 .. Len(s)
      /\ \A i \in 1 .. Len(s) - 1 : a[i] = s[i + 1]
  BY <1>1, <1>2
<1>4. h = s[1] /\ h \in EventType /\ Elems(s) = Elems(a) \cup {h}
  BY <1>2
<1> HIDE DEF a, h
<1>5. /\ queue' \in [Threads -> Seq(EventType)] /\ queue'[u] = a
      /\ \A t \in Threads \ {u} : queue'[t] = queue[t]
  BY <1>1, <1>3 DEF a
<1>6. Queued(u) = Queued(u)' \cup {h} /\ \A t \in Threads \ {u} : Queued(t)' = Queued(t)
  <2>1. Queued(u)' = Elems(a) /\ Queued(u) = Elems(s)
    BY <1>5, ElemsQueued
  <2> QED BY <1>4, <1>5, <2>1, ElemsQueued
<1>7. ASSUME NEW t \in Threads, NEW i \in DOMAIN queue'[t]
      PROVE  \E k \in DOMAIN queue[t] :
               /\ queue'[t][i] = queue[t][k]
               /\ t = u => k = i + 1 /\ k # 1 /\ i \in Int
               /\ t # u => k = i
  <2>1. CASE t # u
    BY <1>5, <1>7, <2>1
  <2>2. CASE t = u
    <3>1. i \in 1 .. Len(s) - 1 /\ queue'[t][i] = s[i + 1]
      BY <1>3, <1>5, <1>7, <2>2
    <3>2. i + 1 \in DOMAIN s /\ i + 1 # 1 /\ i \in Int
      BY <1>2, <1>3, <3>1
    <3> QED BY <2>2, <3>1, <3>2
  <2> QED BY <2>1, <2>2
<1>8. QueuedOnce'
  <2>1. ASSUME NEW t \in Threads, NEW i \in DOMAIN queue'[t], NEW j \in DOMAIN queue'[t],
               queue'[t][i].op = "shutdown", queue'[t][j].op = "shutdown"
        PROVE  i = j
    <3>1. PICK k \in DOMAIN queue[t] : queue'[t][i] = queue[t][k]
             /\ (t = u => k = i + 1 /\ i \in Int) /\ (t # u => k = i)
      BY <1>7
    <3>2. PICK l \in DOMAIN queue[t] : queue'[t][j] = queue[t][l]
             /\ (t = u => l = j + 1 /\ j \in Int) /\ (t # u => l = j)
      BY <1>7
    <3>3. k = l
      BY <2>1, <3>1, <3>2 DEF QueuedOnce
    <3> QED BY <3>1, <3>2, <3>3
  <2>2. ASSUME NEW t1 \in Threads, NEW t2 \in Threads,
               NEW i \in DOMAIN queue'[t1], NEW j \in DOMAIN queue'[t2],
               queue'[t1][i].op \in {"ack", "sync"}, queue'[t1][i] = queue'[t2][j]
        PROVE  t1 = t2 /\ i = j
    <3>1. PICK k \in DOMAIN queue[t1] : queue'[t1][i] = queue[t1][k]
             /\ (t1 = u => k = i + 1 /\ i \in Int) /\ (t1 # u => k = i)
      BY <1>7
    <3>2. PICK l \in DOMAIN queue[t2] : queue'[t2][j] = queue[t2][l]
             /\ (t2 = u => l = j + 1 /\ j \in Int) /\ (t2 # u => l = j)
      BY <1>7
    <3>3. t1 = t2 /\ k = l
      BY <2>2, <3>1, <3>2 DEF QueuedOnce
    <3> QED BY <3>1, <3>2, <3>3
  <2> QED BY <2>1, <2>2 DEF QueuedOnce
<1>9. ASSUME h.op = "shutdown" PROVE ~ HasShutdown(u)'
  <2> SUFFICES ASSUME NEW i \in DOMAIN queue'[u], queue'[u][i].op = "shutdown" PROVE FALSE
    BY DEF HasShutdown, Queued
  <2>1. PICK k \in DOMAIN queue[u] : queue'[u][i] = queue[u][k] /\ k # 1
    BY <1>7
  <2>2. 1 \in DOMAIN queue[u] /\ queue[u][1] = h
    BY <1>2, <1>3, <1>4
  <2> QED BY <1>9, <2>1, <2>2 DEF QueuedOnce
<1>10. ASSUME h.op \in {"ack", "sync"}, NEW t \in Threads PROVE h \notin Queued(t)'
  <2> SUFFICES ASSUME NEW i \in DOMAIN queue'[t], queue'[t][i] = h PROVE FALSE
    BY DEF Queued
  <2>1. PICK k \in DOMAIN queue[t] : queue'[t][i] = queue[t][k] /\ (t = u => k # 1)
    BY <1>7
  <2>2. 1 \in DOMAIN queue[u] /\ queue[u][1] = h
    BY <1>2, <1>3, <1>4
  <2> QED BY <1>10, <2>1, <2>2 DEF QueuedOnce
<1> QED BY <1>4, <1>5, <1>6, <1>8, <1>9, <1>10 DEF h

\* A call is opened in the innermost one.
LEMMA PushStep ==
    ASSUME TypeOK, StackShape, NEW t \in Threads, NEW c \in CallType, Push(t, c),
           stack[t] # << >>, c.op # "loop",
           c.op = "manager" => t = Main /\ Len(stack[t]) = 1
    PROVE  /\ stack' \in [Threads -> Seq(CallType)] /\ StackShape'
           /\ OpenCalls(t)' = OpenCalls(t) \cup {c}
           /\ \A v \in Threads \ {t} : OpenCalls(v)' = OpenCalls(v) /\ stack'[v] = stack[v]
           /\ (OpenOnce /\ (c.op = "sync" => \A v \in Threads : c \notin OpenCalls(v)))
                => OpenOnce'
<1> DEFINE s == stack[t]
<1>1. stack \in [Threads -> Seq(CallType)] /\ s \in Seq(CallType) /\ s # << >>
  BY Types
<1>2. stack' = [stack EXCEPT ![t] = Append(s, c)]
  BY DEF Push
<1>3. /\ Append(s, c) \in Seq(CallType) /\ Len(Append(s, c)) = Len(s) + 1
      /\ Elems(Append(s, c)) = Elems(s) \cup {c}
      /\ \A i \in 1 .. Len(s) : Append(s, c)[i] = s[i]
      /\ Append(s, c)[Len(s) + 1] = c
  BY <1>1, AppendElems
<1>4. DOMAIN s = 1 .. Len(s) /\ Len(s) \in Nat \ {0}
  BY <1>1
<1> DEFINE a == Append(s, c)
<1> HIDE DEF a
<1>5. /\ stack' \in [Threads -> Seq(CallType)] /\ stack'[t] = a
      /\ \A v \in Threads \ {t} : stack'[v] = stack[v]
  BY <1>1, <1>2, <1>3 DEF a
<1>6. /\ DOMAIN a = 1 .. Len(s) + 1
      /\ a[Len(s) + 1] = c /\ \A i \in 1 .. Len(s) : a[i] = s[i]
  BY <1>3 DEF a
<1>7. OpenCalls(t)' = OpenCalls(t) \cup {c} /\ \A v \in Threads \ {t} : OpenCalls(v)' = OpenCalls(v)
  <2>1. OpenCalls(t)' = Elems(a) /\ OpenCalls(t) = Elems(s)
    BY <1>5, ElemsQueued
  <2> QED BY <1>3, <1>5, <2>1, ElemsQueued DEF a
<1>8. ASSUME NEW v \in Threads, NEW i \in DOMAIN stack'[v]
      PROVE  \/ i \in DOMAIN stack[v] /\ stack'[v][i] = stack[v][i]
             \/ v = t /\ i = Len(s) + 1 /\ stack'[v][i] = c
  <2>1. CASE v = t
    BY <1>4, <1>5, <1>6, <2>1
  <2>2. CASE v # t
    BY <1>5, <2>2
  <2> QED BY <2>1, <2>2
<1>9. StackShape'
  <2> SUFFICES ASSUME NEW v \in Threads, NEW i \in DOMAIN stack'[v]
               PROVE  /\ stack'[v][i].op = "loop" <=> i = 1
                      /\ stack'[v][i].op = "manager" => v = Main /\ i = 2
    BY DEF StackShape
  <2>1. CASE i \in DOMAIN stack[v] /\ stack'[v][i] = stack[v][i]
    BY <2>1 DEF StackShape
  <2>2. CASE v = t /\ i = Len(s) + 1 /\ stack'[v][i] = c
    <3>1. i # 1 /\ stack'[v][i].op # "loop"
      BY <1>4, <2>2
    <3>2. ASSUME c.op = "manager" PROVE v = Main /\ i = 2
      <4>1. t = Main /\ Len(s) = 1
        BY <3>2
      <4>2. Len(s) + 1 = 2
        BY <4>1
      <4> QED BY <2>2, <4>1, <4>2
    <3> QED BY <2>2, <3>1, <3>2
  <2> QED BY <1>8, <2>1, <2>2
<1>10. ASSUME OpenOnce, c.op = "sync" => \A v \in Threads : c \notin OpenCalls(v)
       PROVE  OpenOnce'
  <2>1. ASSUME NEW v \in Threads, NEW i \in DOMAIN stack[v] PROVE stack[v][i] \in OpenCalls(v)
    BY DEF OpenCalls
  <2> SUFFICES ASSUME NEW t1 \in Threads, NEW t2 \in Threads,
                      NEW i \in DOMAIN stack'[t1], NEW j \in DOMAIN stack'[t2],
                      stack'[t1][i].op = "sync", stack'[t1][i] = stack'[t2][j]
               PROVE  t1 = t2 /\ i = j
    BY DEF OpenOnce
  <2>2. CASE i \in DOMAIN stack[t1] /\ j \in DOMAIN stack[t2]
             /\ stack'[t1][i] = stack[t1][i] /\ stack'[t2][j] = stack[t2][j]
    <3>1. stack[t1][i].op = "sync" /\ stack[t1][i] = stack[t2][j]
      BY <2>2
    <3> QED BY <1>10, <2>2, <3>1 DEF OpenOnce
  <2>3. CASE t1 = t /\ i = Len(s) + 1 /\ stack'[t1][i] = c
    <3>1. \A v \in Threads : c \notin OpenCalls(v)
      BY <1>10, <2>3
    <3> QED BY <1>8, <2>1, <2>3, <3>1
  <2>4. CASE t2 = t /\ j = Len(s) + 1 /\ stack'[t2][j] = c
    <3>1. c.op = "sync" /\ \A v \in Threads : c \notin OpenCalls(v)
      BY <1>10, <2>4
    <3> QED BY <1>8, <2>1, <2>4, <3>1
  <2>5. /\ \/ i \in DOMAIN stack[t1] /\ stack'[t1][i] = stack[t1][i]
           \/ t1 = t /\ i = Len(s) + 1 /\ stack'[t1][i] = c
        /\ \/ j \in DOMAIN stack[t2] /\ stack'[t2][j] = stack[t2][j]
           \/ t2 = t /\ j = Len(s) + 1 /\ stack'[t2][j] = c
    BY <1>8
  <2> QED BY <2>2, <2>3, <2>4, <2>5
<1> QED BY <1>5, <1>7, <1>9, <1>10

\* The innermost call returns.
LEMMA ReturnStep ==
    ASSUME TypeOK, StackShape, NEW t \in Threads, Return(t), stack[t] # << >>
    PROVE  /\ stack' \in [Threads -> Seq(CallType)] /\ StackShape'
           /\ Top(t) \in CallType /\ Top(t) \in OpenCalls(t)
           /\ OpenCalls(t) = OpenCalls(t)' \cup {Top(t)}
           /\ \A v \in Threads \ {t} : OpenCalls(v)' = OpenCalls(v) /\ stack'[v] = stack[v]
           /\ OpenOnce => /\ OpenOnce'
                          /\ Top(t).op = "sync" =>
                               \A v \in Threads : Top(t) \notin OpenCalls(v)'
<1> DEFINE s == stack[t]
           n == Len(s)
           a == Pop(s)
<1>1. stack \in [Threads -> Seq(CallType)] /\ s \in Seq(CallType) /\ s # << >>
  BY Types
<1>2. stack' = [stack EXCEPT ![t] = a]
  BY DEF Return
<1>3. /\ a \in Seq(CallType) /\ Len(a) = n - 1 /\ n \in Nat \ {0}
      /\ s[n] \in CallType /\ Elems(s) = Elems(a) \cup {s[n]}
      /\ \A i \in 1 .. n - 1 : a[i] = s[i]
  BY <1>1, PopElems
<1>4. DOMAIN s = 1 .. n /\ DOMAIN a = 1 .. n - 1
  BY <1>1, <1>3
<1>5. Top(t) = s[n]
  BY DEF Top
<1> HIDE DEF a, n
<1>6. /\ stack' \in [Threads -> Seq(CallType)] /\ stack'[t] = a
      /\ \A v \in Threads \ {t} : stack'[v] = stack[v]
  BY <1>1, <1>2, <1>3
<1>7. /\ OpenCalls(t) = OpenCalls(t)' \cup {Top(t)}
      /\ \A v \in Threads \ {t} : OpenCalls(v)' = OpenCalls(v)
  <2>1. OpenCalls(t)' = Elems(a) /\ OpenCalls(t) = Elems(s)
    BY <1>6, ElemsQueued
  <2> QED BY <1>3, <1>5, <1>6, <2>1, ElemsQueued
<1>8. ASSUME NEW v \in Threads, NEW i \in DOMAIN stack'[v]
      PROVE  i \in DOMAIN stack[v] /\ stack'[v][i] = stack[v][i] /\ (v = t => i # n)
  <2>1. CASE v = t
    BY <1>3, <1>4, <1>6, <2>1
  <2>2. CASE v # t
    BY <1>6, <2>2
  <2> QED BY <2>1, <2>2
<1>9. StackShape'
  <2> SUFFICES ASSUME NEW v \in Threads, NEW i \in DOMAIN stack'[v]
               PROVE  /\ stack'[v][i].op = "loop" <=> i = 1
                      /\ stack'[v][i].op = "manager" => v = Main /\ i = 2
    BY DEF StackShape
  <2> QED BY <1>8 DEF StackShape
<1>10. ASSUME OpenOnce PROVE OpenOnce'
  <2> SUFFICES ASSUME NEW t1 \in Threads, NEW t2 \in Threads,
                      NEW i \in DOMAIN stack'[t1], NEW j \in DOMAIN stack'[t2],
                      stack'[t1][i].op = "sync", stack'[t1][i] = stack'[t2][j]
               PROVE  t1 = t2 /\ i = j
    BY DEF OpenOnce
  <2>1. /\ i \in DOMAIN stack[t1] /\ j \in DOMAIN stack[t2]
        /\ stack[t1][i].op = "sync" /\ stack[t1][i] = stack[t2][j]
    BY <1>8
  <2> QED BY <1>10, <2>1 DEF OpenOnce
<1>11. ASSUME OpenOnce, Top(t).op = "sync", NEW v \in Threads PROVE Top(t) \notin OpenCalls(v)'
  <2> SUFFICES ASSUME NEW i \in DOMAIN stack'[v], stack'[v][i] = Top(t) PROVE FALSE
    BY DEF OpenCalls
  <2>1. i \in DOMAIN stack[v] /\ stack[v][i] = Top(t) /\ (v = t => i # n)
    BY <1>8
  <2>2. n \in DOMAIN stack[t] /\ stack[t][n] = Top(t)
    BY <1>3, <1>4, <1>5
  <2> QED BY <1>11, <2>1, <2>2 DEF OpenOnce
<1> QED BY <1>3, <1>5, <1>6, <1>7, <1>9, <1>10, <1>11

\* The stack of a thread that starts or whose loop ends is set as a whole.
LEMMA SetStackStep ==
    ASSUME TypeOK, StackShape, OpenOnce, NEW t \in Threads, NEW s \in {<< >>, <<Call("loop", t)>>},
           stack' = [stack EXCEPT ![t] = s]
    PROVE  /\ stack' \in [Threads -> Seq(CallType)] /\ StackShape' /\ OpenOnce'
           /\ OpenCalls(t)' = IF s = << >> THEN {} ELSE {Call("loop", t)}
           /\ \A v \in Threads \ {t} : OpenCalls(v)' = OpenCalls(v) /\ stack'[v] = stack[v]
<1>1. stack \in [Threads -> Seq(CallType)]
  BY Types
<1>2. /\ Call("loop", t) \in CallType /\ Call("loop", t).op = "loop"
      /\ s \in Seq(CallType) /\ DOMAIN s \in {{}, {1}} /\ \A i \in DOMAIN s : s[i].op = "loop"
      /\ Elems(s) = IF s = << >> THEN {} ELSE {Call("loop", t)}
  <2>1. Call("loop", t) \in CallType /\ Call("loop", t).op = "loop"
    BY DEF Call, CallType, CallOps
  <2>2. CASE s = << >>
    BY <2>1, <2>2 DEF Elems
  <2>3. CASE s = <<Call("loop", t)>>
    <3> DEFINE c == Call("loop", t)
    <3>1. c \in CallType /\ c.op = "loop"
      BY <2>1
    <3> HIDE DEF c
    <3>2. <<c>> \in Seq(CallType) /\ DOMAIN <<c>> = {1} /\ <<c>>[1] = c /\ <<c>> # << >>
      BY <3>1
    <3>3. Elems(<<c>>) = {c}
      BY <3>2 DEF Elems
    <3> QED BY <2>3, <3>1, <3>2, <3>3 DEF c
  <2> QED BY <2>1, <2>2, <2>3
<1>3. /\ stack' \in [Threads -> Seq(CallType)] /\ stack'[t] = s
      /\ \A v \in Threads \ {t} : stack'[v] = stack[v]
  BY <1>1, <1>2
<1>4. /\ OpenCalls(t)' = IF s = << >> THEN {} ELSE {Call("loop", t)}
      /\ \A v \in Threads \ {t} : OpenCalls(v)' = OpenCalls(v)
  BY <1>2, <1>3, ElemsQueued
<1>5. StackShape'
  <2> SUFFICES ASSUME NEW v \in Threads, NEW i \in DOMAIN stack'[v]
               PROVE  /\ stack'[v][i].op = "loop" <=> i = 1
                      /\ stack'[v][i].op = "manager" => v = Main /\ i = 2
    BY DEF StackShape
  <2>1. CASE v = t
    <3>1. i \in DOMAIN s /\ stack'[v][i] = s[i]
      BY <1>3, <2>1
    <3>2. i = 1 /\ s[i].op = "loop"
      BY <1>2, <3>1
    <3> QED BY <3>1, <3>2
  <2>2. CASE v # t
    BY <1>3, <2>2 DEF StackShape
  <2> QED BY <2>1, <2>2
<1>6. OpenOnce'
  <2> SUFFICES ASSUME NEW t1 \in Threads, NEW t2 \in Threads,
                      NEW i \in DOMAIN stack'[t1], NEW j \in DOMAIN stack'[t2],
                      stack'[t1][i].op = "sync", stack'[t1][i] = stack'[t2][j]
               PROVE  t1 = t2 /\ i = j
    BY DEF OpenOnce
  <2>1. t1 # t /\ t2 # t
    BY <1>2, <1>3
  <2>2. /\ i \in DOMAIN stack[t1] /\ j \in DOMAIN stack[t2]
        /\ stack[t1][i].op = "sync" /\ stack[t1][i] = stack[t2][j]
    BY <1>3, <2>1
  <2> QED BY <2>2 DEF OpenOnce
<1> QED BY <1>3, <1>4, <1>5, <1>6

\* The innermost call is one of the open ones.  The loop is innermost only
\* where nothing else is open, the thread manager's Shutdown only on the loop.
LEMMA InnermostIs ==
    ASSUME TypeOK, StackShape, NEW t \in Threads, NEW op, Innermost(t, op)
    PROVE  /\ stack[t] # << >> /\ Top(t) \in OpenCalls(t) /\ Top(t) \in CallType
           /\ Top(t).op = op
           /\ op = "loop" => Len(stack[t]) = 1 /\ \A c \in OpenCalls(t) : c.op = "loop"
           /\ op = "manager" => /\ t = Main
                                /\ \A c \in OpenCalls(t) : c.op \in {"loop", "manager"}
<1> DEFINE s == stack[t]
           n == Len(s)
<1>1. s \in Seq(CallType) /\ s # << >> /\ s[n].op = op /\ Top(t) = s[n]
  BY Types DEF Innermost, Top
<1>2. DOMAIN s = 1 .. n /\ n \in Nat \ {0} /\ s[n] \in CallType
  BY <1>1
<1> HIDE DEF n
<1>3. \A c \in OpenCalls(t) : \E i \in 1 .. n : c = s[i]
  BY <1>2 DEF OpenCalls
<1>4. s[n] \in OpenCalls(t)
  BY <1>2 DEF OpenCalls
<1>5. op = "loop" => n = 1 /\ \A c \in OpenCalls(t) : c.op = "loop"
  BY <1>1, <1>2, <1>3 DEF StackShape
<1>6. op = "manager" => t = Main /\ \A c \in OpenCalls(t) : c.op \in {"loop", "manager"}
  <2> SUFFICES ASSUME op = "manager"
               PROVE  t = Main /\ \A c \in OpenCalls(t) : c.op \in {"loop", "manager"}
    OBVIOUS
  <2>1. t = Main /\ n = 2
    BY <1>1, <1>2 DEF StackShape
  <2>2. s[1].op = "loop"
    BY <1>2, <2>1 DEF StackShape
  <2>3. \A i \in 1 .. n : i = 1 \/ i = n
    BY <2>1
  <2> QED BY <1>1, <1>3, <2>1, <2>2, <2>3
<1> QED BY <1>1, <1>2, <1>4, <1>5, <1>6 DEF n

\* Steps that leave a variable alone leave what is read from it alone.
LEMMA SameStack ==
    ASSUME UNCHANGED stack
    PROVE  /\ \A t : OpenCalls(t)' = OpenCalls(t)
           /\ StackShape => StackShape'
           /\ OpenOnce => OpenOnce'
BY DEF OpenCalls, StackShape, OpenOnce

LEMMA SameQueue ==
    ASSUME UNCHANGED queue
    PROVE  (\A t : Queued(t)' = Queued(t)) /\ (QueuedOnce => QueuedOnce')
BY DEF Queued, QueuedOnce

\* An event is queued at the end, or lost.
LEMMA PutUncheckedStep ==
    ASSUME TypeOK, QueuedOnce, NEW u \in Threads, NEW c \in EventType, PutUnchecked(u, c),
           c.op = "shutdown" => ~ HasShutdown(u),
           c.op \in {"ack", "sync"} => \A t \in Threads : c \notin Queued(t)
    PROVE  /\ queue' \in [Threads -> Seq(EventType)] /\ QueuedOnce' /\ failed' \in BOOLEAN
           /\ Queued(u) \subseteq Queued(u)' /\ Queued(u)' \subseteq Queued(u) \cup {c}
           /\ \A t \in Threads \ {u} : Queued(t)' = Queued(t)
<1>1. CASE Put(u, c) /\ UNCHANGED failed
  BY <1>1, PutStep DEF TypeOK
<1>2. CASE failed' = TRUE /\ UNCHANGED queue
  BY <1>2, Types, SameQueue
<1> QED BY <1>1, <1>2 DEF PutUnchecked

LEMMA CallFacts ==
    /\ \A o, a : Call(o, a).op = o /\ Call(o, a).arg = a
    /\ \A o \in CallOps, a \in Threads \cup Tasks : Call(o, a) \in CallType
    /\ \A o \in EventOps, a \in Threads \cup Tasks : Call(o, a) \in EventType
BY DEF Call, CallType, EventType

-----------------------------------------------------------------------------
\* Steps that leave every wrapper with its thread and close no wait for one.
LEMMA WrapperStays ==
    ASSUME TypeOK, SyncPending, SyncCallerWaits,
           UNCHANGED <<syncTask, origin>>, dispatched \subseteq dispatched',
           \A e \in syncTask : acceptedBy'[e] = acceptedBy[e],
           \A t \in Threads, e \in Tasks :
               Call("sync", e) \in (Queued(t) \cup OpenCalls(t))'
                 <=> Call("sync", e) \in Queued(t) \cup OpenCalls(t),
           \A t \in Threads, e \in syncTask :
               Call("syncwait", e) \in OpenCalls(t) => Call("syncwait", e) \in OpenCalls(t)'
    PROVE  SyncPending' /\ SyncCallerWaits'
<1>1. SyncPending'
  BY DEF SyncPending
<1>2. SyncCallerWaits'
  <2> SUFFICES ASSUME NEW e \in syncTask
               PROVE  /\ Call("syncwait", e) \in OpenCalls(origin[e])'
                      /\ {t \in Threads : Call("sync", e) \in (Queued(t) \cup OpenCalls(t))'}
                           = {acceptedBy[e]} \ {None}
    BY DEF SyncCallerWaits
  <2>1. origin[e] \in Threads /\ Call("syncwait", e) \in OpenCalls(origin[e])
    BY DEF SyncPending, SyncCallerWaits
  <2>0. e \in Tasks
    BY DEF TypeOK
  <2>2. {t \in Threads : Call("sync", e) \in (Queued(t) \cup OpenCalls(t))'}
          = {t \in Threads : Call("sync", e) \in Queued(t) \cup OpenCalls(t)}
    BY <2>0
  <2>3. {t \in Threads : Call("sync", e) \in Queued(t) \cup OpenCalls(t)}
          = {acceptedBy[e]} \ {None}
    BY DEF SyncCallerWaits
  <2>4. Call("syncwait", e) \in OpenCalls(origin[e])'
    BY <2>1
  <2> QED BY <2>2, <2>3, <2>4
<1> QED BY <1>1, <1>2

\* Steps that open and queue no wrapper and close no wait for one.
LEMMA SyncFrame ==
    ASSUME TypeOK, SyncPending, SyncCallerWaits, QueuedOrOpen,
           UNCHANGED <<syncTask, origin>>, dispatched \subseteq dispatched',
           \A e \in syncTask : acceptedBy'[e] = acceptedBy[e],
           \A t \in Threads : \A c : c.op = "sync" =>
               /\ c \in Queued(t)' <=> c \in Queued(t)
               /\ c \in OpenCalls(t)' <=> c \in OpenCalls(t),
           \A t \in Threads, e \in syncTask :
               Call("syncwait", e) \in OpenCalls(t) => Call("syncwait", e) \in OpenCalls(t)'
    PROVE  SyncPending' /\ SyncCallerWaits' /\ QueuedOrOpen'
<1>1. \A t \in Threads, e \in Tasks :
        Call("sync", e) \in (Queued(t) \cup OpenCalls(t))'
          <=> Call("sync", e) \in Queued(t) \cup OpenCalls(t)
  BY CallFacts
<1>2. SyncPending' /\ SyncCallerWaits'
  BY <1>1, WrapperStays
<1>3. QueuedOrOpen'
  BY DEF QueuedOrOpen
<1> QED BY <1>2, <1>3

\* Steps that accept no task and take none away but to run it.
LEMMA AccountedFrame ==
    ASSUME TypeOK, Accounted, UNCHANGED <<acceptedBy, late>>, ran \subseteq ran',
           dispatched \subseteq dispatched',
           \A t \in Threads : life[t] = "running" => life'[t] = "running",
           \A t \in Threads : \A c :
               c.op \in {"task", "sync"} /\ c \in Queued(t) \cup OpenCalls(t)
                   => c \in (Queued(t) \cup OpenCalls(t))' \/ c.arg \in ran'
    PROVE  Accounted'
<1>1. ASSUME NEW e \in Tasks, NEW t \in Threads, Pending(e, t), e \notin ran'
      PROVE  Pending(e, t)'
  <2>1. /\ Call("task", e).op = "task" /\ Call("task", e).arg = e
        /\ Call("sync", e).op = "sync" /\ Call("sync", e).arg = e
    BY CallFacts
  <2>2. ASSUME NEW op \in {"task", "sync"}, Call(op, e) \in Queued(t) \cup OpenCalls(t)
        PROVE  Call(op, e) \in (Queued(t) \cup OpenCalls(t))'
    BY <1>1, <2>1, <2>2
  <2> QED BY <1>1, <2>2 DEF Pending
<1>2. \A e \in Tasks : acceptedBy[e] # None => acceptedBy[e] \in Threads
  BY DEF TypeOK
<1> QED BY <1>1, <1>2 DEF Accounted

\* A step that accepts a task.
LEMMA AcceptAccounts ==
    ASSUME TypeOK, Accounted, NEW u \in Threads, NEW e \in Tasks, Accept(u, e),
           UNCHANGED <<life, ran>>, dispatched' = dispatched \cup {e},
           \A f \in Tasks, v \in Threads : Pending(f, v) => Pending(f, v)',
           Pending(e, u)'
    PROVE  Accounted'
<1>1. acceptedBy'[e] = u /\ \A f \in Tasks \ {e} : acceptedBy'[f] = acceptedBy[f]
  BY DEF Accept, TypeOK
<1>2. late \subseteq late' /\ (e \notin late' => life[u] = "running")
  BY DEF Accept
<1>3. \A f \in Tasks : acceptedBy[f] # None => acceptedBy[f] \in Threads
  BY DEF TypeOK
<1> QED BY <1>1, <1>2, <1>3 DEF Accounted

\* Steps that are no part of a shutdown.
LEMMA ShutdownFrame ==
    ASSUME ShutdownProgress, ContextAlive,
           UNCHANGED <<life, mShutdownContext, mShutdownRequired, shutdownAck>>,
           \A t \in Threads : \A c : c.op \in {"shutdown", "ack"} =>
               (c \in Queued(t)' => c \in Queued(t)),
           \A t \in Threads : \A c : c.op = "join" /\ c \in OpenCalls(t) => c \in OpenCalls(t)',
           \A u \in Background : OpenCalls(u) = {} => OpenCalls(u)' = {}
    PROVE  ShutdownProgress' /\ ContextAlive'
<1>1. \A u \in Threads : HasShutdown(u)' => HasShutdown(u)
  BY DEF HasShutdown
<1>2. \A u \in Background, t \in Threads :
        /\ Call("ack", u) \in Queued(t)' => Call("ack", u) \in Queued(t)
        /\ Call("shutdown", t) \in Queued(u)' => Call("shutdown", t) \in Queued(u)
        /\ Call("join", u) \in OpenCalls(t) => Call("join", u) \in OpenCalls(t)'
  BY CallFacts DEF Threads
<1>3. ASSUME NEW u \in Background PROVE ProgressOf(u)'
  BY <1>1, <1>2 DEF ShutdownProgress, ProgressOf, Threads
<1>4. ShutdownProgress'
  BY <1>1, <1>3 DEF ShutdownProgress, Threads
<1>5. ContextAlive'
  BY <1>2 DEF ContextAlive
<1> QED BY <1>4, <1>5

LEMMA ArgsFrame ==
    ASSUME ArgsOK,
           \A t \in Threads : \A c \in OpenCalls(t)' : c \in OpenCalls(t) \/ CallOK(c),
           \A t \in Threads : \A c \in Queued(t)' : c \in Queued(t) \/ EventOK(c)
    PROVE  ArgsOK'
BY DEF ArgsOK

\* Who runs user code has an open call, and is the main thread or running.
LEMMA UserCode ==
    ASSUME Inv, NEW t \in Threads, InUserCode(t)
    PROVE  /\ stack[t] # << >> /\ OpenCalls(t) # {} /\ (t \in Background => life[t] = "running")
<1>1. stack[t] # << >> /\ OpenCalls(t) # {}
  BY InnermostIs DEF InUserCode, TopIs, Inv
<1>2. t \in Background => life[t] = "running"
  BY <1>1 DEF Inv, ShutdownProgress, ProgressOf
<1> QED BY <1>1, <1>2

LEMMA DispatchPreserves ==
    ASSUME Inv, NEW t \in Threads, NEW u \in Threads, NEW e \in Tasks \ dispatched,
           Dispatch(t, u, e)
    PROVE  Inv'
<1> DEFINE c == Call("task", e)
<1>0. TypeOK /\ StackShape /\ ArgsOK /\ SleepsInCall /\ ShutdownProgress
      /\ QueuedOnce /\ OpenOnce /\ QueuedOrOpen /\ SyncPending /\ ContextAlive /\ SyncCallerWaits /\ Accounted
  BY DEF Inv
<1>1. c \in EventType /\ c.op = "task" /\ EventOK(c)
  BY CallFacts DEF EventOK, EventOps
<1>2. Put(u, c)
  BY DEF Dispatch
<1>this. Call("task", e) = c
  OBVIOUS
<1> HIDE DEF c
<1>3. /\ queue' \in [Threads -> Seq(EventType)] /\ QueuedOnce'
      /\ Queued(u)' = Queued(u) \cup {c}
      /\ \A v \in Threads \ {u} : Queued(v)' = Queued(v) /\ queue'[v] = queue[v]
  BY <1>0, <1>1, <1>2, PutStep
<1>4. StackShape' /\ OpenOnce' /\ \A v : OpenCalls(v)' = OpenCalls(v)
  BY <1>0, SameStack DEF Dispatch
<1>5. TypeOK'
  <2>1. acceptedBy' \in [Tasks -> Threads \cup {None}] /\ late' \in SUBSET Tasks
    BY <1>0 DEF TypeOK, Dispatch, Accept
  <2>2. dispatched' \in SUBSET Tasks
    BY <1>0 DEF TypeOK, Dispatch
  <2> QED BY <1>0, <1>3, <2>1, <2>2 DEF TypeOK, Dispatch, EventType
<1>6. ArgsOK'
  BY <1>0, <1>1, <1>3, <1>4, ArgsFrame
<1>7. ShutdownProgress' /\ ContextAlive'
  <2>1. UNCHANGED <<life, mShutdownContext, mShutdownRequired, shutdownAck>>
    BY DEF Dispatch
  <2>2. \A v \in Threads : \A d : d.op \in {"shutdown", "ack"} =>
          (d \in Queued(v)' => d \in Queued(v))
    BY <1>1, <1>3
  <2> QED BY <1>0, <1>4, <2>1, <2>2, ShutdownFrame
<1>8. SyncPending' /\ SyncCallerWaits' /\ QueuedOrOpen'
  <2>1. UNCHANGED <<syncTask, origin>> /\ dispatched \subseteq dispatched'
    BY DEF Dispatch
  <2>3. \A f \in syncTask : acceptedBy'[f] = acceptedBy[f]
    BY <1>0 DEF Dispatch, Accept, SyncPending, TypeOK
  <2>2. \A v \in Threads : \A d : d.op = "sync" => (d \in Queued(v)' <=> d \in Queued(v))
    BY <1>1, <1>3
  <2> QED BY <1>0, <1>4, <2>1, <2>2, <2>3, SyncFrame
<1>9. Accounted'
  <2>1. /\ life' = life /\ ran' = ran /\ dispatched' = dispatched \cup {e}
        /\ Accept(u, e)
    BY DEF Dispatch
  <2>2. ASSUME NEW f \in Tasks, NEW v \in Threads, Pending(f, v) PROVE Pending(f, v)'
    BY <1>3, <1>4, <2>2 DEF Pending
  <2>3. Pending(e, u)'
    BY <1>3, <1>this DEF Pending
  <2> QED BY <1>0, <2>1, <2>2, <2>3, AcceptAccounts
<1>10. SleepsInCall'
  BY <1>0, <1>4 DEF SleepsInCall, Dispatch
<1> QED BY <1>3, <1>4, <1>5, <1>6, <1>7, <1>8, <1>9, <1>10 DEF Inv

LEMMA DispatchSyncPreserves ==
    ASSUME Inv, NEW t \in Threads, NEW u \in Threads, NEW e \in Tasks \ dispatched,
           DispatchSync(t, u, e)
    PROVE  Inv'
<1> DEFINE c == Call("sync", e)
           d == Call("syncwait", e)
<1>0. TypeOK /\ StackShape /\ ArgsOK /\ SleepsInCall /\ ShutdownProgress
      /\ QueuedOnce /\ OpenOnce /\ QueuedOrOpen /\ SyncPending /\ ContextAlive /\ SyncCallerWaits /\ Accounted
  BY DEF Inv
<1>1. /\ c \in EventType /\ c.op = "sync" /\ EventOK(c) /\ c.arg = e
      /\ d \in CallType /\ d.op = "syncwait" /\ CallOK(d) /\ d.arg = e
  BY CallFacts DEF EventOK, EventOps, CallOK, CallOps
<1>2. Push(t, d) /\ stack[t] # << >> /\ OpenCalls(t) # {}
  BY UserCode DEF DispatchSync
<1>p. \/ Put(u, c) /\ Accept(u, e) /\ UNCHANGED failed
      \/ failed' = TRUE /\ UNCHANGED <<queue, acceptedBy, late>>
  BY DEF DispatchSync
<1>fresh. e \notin syncTask /\ acceptedBy[e] = None
          /\ \A v \in Threads : c \notin Queued(v) /\ c \notin OpenCalls(v)
  BY <1>0 DEF SyncPending, Accounted
<1>other. \A f \in Tasks \ {e} : Call("sync", f) # c /\ Call("syncwait", f) # d
  BY <1>1, CallFacts
<1>this. Call("sync", e) = c /\ Call("syncwait", e) = d
  OBVIOUS
<1> HIDE DEF c, d
<1>3. /\ queue' \in [Threads -> Seq(EventType)] /\ QueuedOnce'
      /\ \A v \in Threads : Queued(v)' = Queued(v) \cup (IF v = acceptedBy'[e] THEN {c} ELSE {})
      /\ acceptedBy'[e] \in {u, None} /\ None \notin Threads
      /\ \A f \in Tasks \ {e} : acceptedBy'[f] = acceptedBy[f]
      /\ acceptedBy' \in [Tasks -> Threads \cup {None}]
      /\ late' \in SUBSET Tasks /\ failed' \in BOOLEAN
  <2>0. None \notin Threads
    BY ThreadAssumption DEF ThreadAssumption
  <2>1. CASE Put(u, c) /\ Accept(u, e) /\ UNCHANGED failed
    <3>1. /\ acceptedBy'[e] = u /\ \A f \in Tasks \ {e} : acceptedBy'[f] = acceptedBy[f]
          /\ acceptedBy' \in [Tasks -> Threads \cup {None}] /\ late' \in SUBSET Tasks
      BY <1>0, <2>1 DEF Accept, TypeOK
    <3>2. /\ queue' \in [Threads -> Seq(EventType)] /\ QueuedOnce'
          /\ Queued(u)' = Queued(u) \cup {c}
          /\ \A v \in Threads \ {u} : Queued(v)' = Queued(v)
      BY <1>0, <1>1, <1>fresh, <2>1, PutStep
    <3> QED BY <1>0, <2>0, <2>1, <3>1, <3>2 DEF TypeOK
  <2>2. CASE failed' = TRUE /\ UNCHANGED <<queue, acceptedBy, late>>
    <3>1. QueuedOnce' /\ \A v : Queued(v)' = Queued(v)
      BY <1>0, <2>2, SameQueue
    <3> QED BY <1>0, <1>fresh, <2>0, <2>2, <3>1, Types DEF TypeOK
  <2> QED BY <1>p, <2>1, <2>2
<1>4. /\ stack' \in [Threads -> Seq(CallType)] /\ StackShape' /\ OpenOnce'
      /\ OpenCalls(t)' = OpenCalls(t) \cup {d}
      /\ \A v \in Threads \ {t} : OpenCalls(v)' = OpenCalls(v)
  BY <1>0, <1>1, <1>2, PushStep
<1>5. TypeOK'
  <2>1. /\ syncTask' = syncTask \cup {e} /\ dispatched' = dispatched \cup {e}
        /\ origin' = [origin EXCEPT ![e] = t]
    BY DEF DispatchSync
  <2>2. /\ syncTask' \in SUBSET Tasks /\ dispatched' \in SUBSET Tasks
        /\ origin' \in [Tasks -> Threads \cup {None}]
    BY <1>0, <2>1 DEF TypeOK
  <2> QED BY <1>0, <1>3, <1>4, <2>2 DEF TypeOK, DispatchSync, EventType, CallType
<1>6. ArgsOK'
  BY <1>0, <1>1, <1>3, <1>4, ArgsFrame
<1>7. ShutdownProgress' /\ ContextAlive'
  <2>1. UNCHANGED <<life, mShutdownContext, mShutdownRequired, shutdownAck>>
    BY DEF DispatchSync
  <2>2. \A v \in Threads : \A x : x.op \in {"shutdown", "ack"} =>
          (x \in Queued(v)' => x \in Queued(v))
    BY <1>1, <1>3
  <2>3. \A v \in Threads : \A x : x.op = "join" /\ x \in OpenCalls(v) => x \in OpenCalls(v)'
    BY <1>4
  <2>4. \A v \in Background : OpenCalls(v) = {} => OpenCalls(v)' = {}
    BY <1>2, <1>4 DEF Threads
  <2> QED BY <1>0, <2>1, <2>2, <2>3, <2>4, ShutdownFrame
<1>8. SyncPending' /\ SyncCallerWaits' /\ QueuedOrOpen'
  <2>1. /\ syncTask' = syncTask \cup {e} /\ dispatched' = dispatched \cup {e}
        /\ origin'[e] = t /\ \A f \in Tasks \ {e} : origin'[f] = origin[f]
        /\ syncTask \subseteq Tasks /\ e \in Tasks
    BY <1>0 DEF DispatchSync, TypeOK
  <2>2. ASSUME NEW f \in Tasks \ {e}, NEW v \in Threads
        PROVE  Call("sync", f) \in (Queued(v) \cup OpenCalls(v))'
                 <=> Call("sync", f) \in Queued(v) \cup OpenCalls(v)
    <3>1. Call("sync", f) # c /\ Call("sync", f).op = "sync"
      BY <1>other, CallFacts
    <3> QED BY <1>1, <1>3, <1>4, <3>1, ZenonT(40)
  <2>3. SyncPending'
    <3>1. syncTask' \subseteq dispatched'
      BY <1>0, <2>1 DEF SyncPending
    <3>2. \A f \in syncTask' : origin'[f] \in Threads
      BY <1>0, <2>1 DEF SyncPending
    <3>3. ASSUME NEW v \in Threads, NEW f \in Tasks,
                 Call("sync", f) \in (Queued(v) \cup OpenCalls(v))'
          PROVE  f \in syncTask'
      BY <1>0, <2>1, <2>2, <3>3 DEF SyncPending
    <3> QED BY <3>1, <3>2, <3>3 DEF SyncPending
  <2>4. ASSUME NEW f \in Tasks \ {e}, f \in syncTask'
        PROVE  /\ Call("syncwait", f) \in OpenCalls(origin[f])'
               /\ {v \in Threads : Call("sync", f) \in (Queued(v) \cup OpenCalls(v))'}
                    = {acceptedBy'[f]} \ {None}
    <3>1. f \in syncTask /\ origin'[f] = origin[f] /\ origin[f] \in Threads
      BY <1>0, <2>1, <2>4 DEF SyncPending
    <3>2. /\ Call("syncwait", f) \in OpenCalls(origin[f])
          /\ {v \in Threads : Call("sync", f) \in Queued(v) \cup OpenCalls(v)}
               = {acceptedBy[f]} \ {None}
      BY <1>0, <3>1 DEF SyncCallerWaits
    <3>3. {v \in Threads : Call("sync", f) \in (Queued(v) \cup OpenCalls(v))'}
            = {v \in Threads : Call("sync", f) \in Queued(v) \cup OpenCalls(v)}
      BY <2>2
    <3>4. Call("syncwait", f) \in OpenCalls(origin[f])'
      BY <1>4, <3>1, <3>2
    <3> QED BY <1>3, <3>1, <3>2, <3>3, <3>4
  <2>5. /\ Call("syncwait", e) \in OpenCalls(origin[e])'
        /\ {v \in Threads : Call("sync", e) \in (Queued(v) \cup OpenCalls(v))'}
             = {acceptedBy'[e]} \ {None}
    <3>1. d \in OpenCalls(t)' /\ origin'[e] = t
      BY <1>4, <2>1
    <3>2. {v \in Threads : c \in (Queued(v) \cup OpenCalls(v))'} = {acceptedBy'[e]} \ {None}
      <4>1. c # d
        BY <1>1
      <4>2. \A v \in Threads : c \notin OpenCalls(v)'
        BY <1>4, <1>fresh, <4>1
      <4>3. \A v \in Threads : c \in Queued(v)' <=> v = acceptedBy'[e]
        BY <1>3, <1>fresh
      <4>4. \A v \in Threads : c \in (Queued(v) \cup OpenCalls(v))' <=> v = acceptedBy'[e]
        BY <4>2, <4>3
      <4> QED BY <1>3, <4>4
    <3> QED BY <1>this, <3>1, <3>2
  <2>6. SyncCallerWaits'
    BY <1>0, <2>1, <2>4, <2>5 DEF SyncCallerWaits
  <2>7. QueuedOrOpen'
    <3> SUFFICES ASSUME NEW v1 \in Threads, NEW v2 \in Threads, NEW x \in Queued(v1)',
                        x.op = "sync", x \in OpenCalls(v2)'
                 PROVE  FALSE
      BY DEF QueuedOrOpen
    <3>1. x \in OpenCalls(v2)
      BY <1>1, <1>4
    <3>2. x \in Queued(v1) \/ x = c
      BY <1>3
    <3> QED BY <1>0, <1>fresh, <3>1, <3>2 DEF QueuedOrOpen
  <2> QED BY <2>3, <2>6, <2>7
<1>9. Accounted'
  <2>1. life' = life /\ ran' = ran /\ dispatched' = dispatched \cup {e}
    BY DEF DispatchSync
  <2>2. \A v \in Threads : Queued(v) \subseteq Queued(v)' /\ OpenCalls(v) \subseteq OpenCalls(v)'
    BY <1>3, <1>4
  <2>3. CASE Put(u, c) /\ Accept(u, e)
    <3>1. \A f \in Tasks, v \in Threads : Pending(f, v) => Pending(f, v)'
      BY <2>2 DEF Pending
    <3>2. acceptedBy'[e] = u
      BY <1>0, <2>3 DEF Accept, TypeOK
    <3>3. Pending(e, u)'
      BY <1>3, <1>this, <3>2 DEF Pending
    <3> QED BY <1>0, <2>1, <2>3, <3>1, <3>3, AcceptAccounts
  <2>4. CASE UNCHANGED <<queue, acceptedBy, late>>
    BY <1>0, <2>1, <2>2, <2>4, AccountedFrame
  <2> QED BY <1>p, <2>3, <2>4
<1>10. SleepsInCall'
  BY <1>0, <1>4 DEF SleepsInCall, DispatchSync
<1> QED BY <1>3, <1>4, <1>5, <1>6, <1>7, <1>8, <1>9, <1>10 DEF Inv

LEMMA DispatchSyncReturnPreserves ==
    ASSUME Inv, NEW t \in Threads, DispatchSyncReturn(t)
    PROVE  Inv'
<1>0. TypeOK /\ StackShape /\ ArgsOK /\ SleepsInCall /\ ShutdownProgress
      /\ QueuedOnce /\ OpenOnce /\ QueuedOrOpen /\ SyncPending /\ ContextAlive /\ SyncCallerWaits /\ Accounted
  BY DEF Inv
<1>1. Innermost(t, "syncwait") /\ Return(t) /\ Top(t).arg \notin syncTask
  BY DEF DispatchSyncReturn, TopIs
<1>2. stack[t] # << >> /\ Top(t).op = "syncwait"
  BY <1>0, <1>1, InnermostIs
<1> DEFINE c == Top(t)
<1> HIDE DEF c
<1>3. /\ stack' \in [Threads -> Seq(CallType)] /\ StackShape' /\ OpenOnce'
      /\ OpenCalls(t) = OpenCalls(t)' \cup {c} /\ c \in OpenCalls(t)
      /\ c.op = "syncwait" /\ c.arg \notin syncTask
      /\ \A v \in Threads \ {t} : OpenCalls(v)' = OpenCalls(v)
  BY <1>0, <1>1, <1>2, ReturnStep DEF c
<1>4. QueuedOnce' /\ \A v : Queued(v)' = Queued(v)
  BY <1>0, SameQueue DEF DispatchSyncReturn
<1>5. TypeOK'
  BY <1>0, <1>3 DEF TypeOK, DispatchSyncReturn, CallType
<1>6. ArgsOK'
  BY <1>0, <1>3, <1>4, ArgsFrame
<1>7. ShutdownProgress' /\ ContextAlive'
  <2>1. UNCHANGED <<life, mShutdownContext, mShutdownRequired, shutdownAck>>
    BY DEF DispatchSyncReturn
  <2>2. \A v \in Threads : \A x : x.op = "join" /\ x \in OpenCalls(v) => x \in OpenCalls(v)'
    BY <1>3
  <2>3. \A v \in Background : OpenCalls(v) = {} => OpenCalls(v)' = {}
    BY <1>3 DEF Threads
  <2> QED BY <1>0, <1>4, <2>1, <2>2, <2>3, ShutdownFrame
<1>8. SyncPending' /\ SyncCallerWaits' /\ QueuedOrOpen'
  <2>1. UNCHANGED <<syncTask, origin, acceptedBy>> /\ dispatched \subseteq dispatched'
    BY DEF DispatchSyncReturn
  <2>2. \A v \in Threads : \A x : x.op = "sync" => (x \in OpenCalls(v)' <=> x \in OpenCalls(v))
    BY <1>3
  <2>3. \A v \in Threads, e \in syncTask :
          Call("syncwait", e) \in OpenCalls(v) => Call("syncwait", e) \in OpenCalls(v)'
    BY <1>3, CallFacts
  <2> QED BY <1>0, <1>4, <2>1, <2>2, <2>3, SyncFrame
<1>9. Accounted'
  BY <1>0, <1>3, <1>4, AccountedFrame DEF DispatchSyncReturn
<1>10. SleepsInCall'
  BY <1>0, <1>3 DEF SleepsInCall, DispatchSyncReturn, TopIs
<1> QED BY <1>3, <1>4, <1>5, <1>6, <1>7, <1>8, <1>9, <1>10 DEF Inv

LEMMA SleepPreserves ==
    ASSUME Inv, NEW t \in Threads, Sleep(t)
    PROVE  Inv'
<1>0. TypeOK /\ StackShape /\ ArgsOK /\ SleepsInCall /\ ShutdownProgress
      /\ QueuedOnce /\ OpenOnce /\ QueuedOrOpen /\ SyncPending /\ ContextAlive /\ SyncCallerWaits /\ Accounted
  BY DEF Inv
<1>1. /\ StackShape' /\ OpenOnce' /\ QueuedOnce'
      /\ \A v : OpenCalls(v)' = OpenCalls(v) /\ Queued(v)' = Queued(v)
  BY <1>0, SameStack, SameQueue DEF Sleep
<1>2. TypeOK'
  BY <1>0 DEF TypeOK, Sleep
<1>3. ArgsOK' /\ ShutdownProgress' /\ ContextAlive'
  <2>1. UNCHANGED <<life, mShutdownContext, mShutdownRequired, shutdownAck>>
    BY DEF Sleep
  <2> QED BY <1>0, <1>1, <2>1, ArgsFrame, ShutdownFrame
<1>4. SyncPending' /\ SyncCallerWaits' /\ QueuedOrOpen'
  <2>1. UNCHANGED <<syncTask, origin, acceptedBy>> /\ dispatched \subseteq dispatched'
    BY DEF Sleep
  <2> QED BY <1>0, <1>1, <2>1, SyncFrame
<1>5. Accounted'
  BY <1>0, <1>1, AccountedFrame DEF Sleep
<1>6. SleepsInCall'
  <2>1. OpenCalls(t) # {}
    BY <1>0, InnermostIs DEF Sleep, WantsEvent, TopIs
  <2>2. \A v \in Threads \ {t} : asleep'[v] = asleep[v]
    BY <1>0 DEF Sleep, TypeOK
  <2> QED BY <1>0, <1>1, <2>1, <2>2 DEF SleepsInCall
<1> QED BY <1>1, <1>2, <1>3, <1>4, <1>5, <1>6 DEF Inv

LEMMA InitReturnPreserves ==
    ASSUME Inv, NEW t \in Threads, InitReturn(t)
    PROVE  Inv'
<1>0. TypeOK /\ StackShape /\ ArgsOK /\ SleepsInCall /\ ShutdownProgress
      /\ QueuedOnce /\ OpenOnce /\ QueuedOrOpen /\ SyncPending /\ ContextAlive /\ SyncCallerWaits /\ Accounted
  BY DEF Inv
<1>1. Innermost(t, "init") /\ Return(t)
  BY DEF InitReturn, TopIs
<1>2. stack[t] # << >> /\ Top(t).op = "init"
  BY <1>0, <1>1, InnermostIs
<1> DEFINE c == Top(t)
<1> HIDE DEF c
<1>3. /\ stack' \in [Threads -> Seq(CallType)] /\ StackShape' /\ OpenOnce'
      /\ OpenCalls(t) = OpenCalls(t)' \cup {c} /\ c.op = "init"
      /\ \A v \in Threads \ {t} : OpenCalls(v)' = OpenCalls(v)
  BY <1>0, <1>1, <1>2, ReturnStep DEF c
<1>4. QueuedOnce' /\ \A v : Queued(v)' = Queued(v)
  BY <1>0, SameQueue DEF InitReturn
<1>5. TypeOK'
  BY <1>0, <1>3 DEF TypeOK, InitReturn, CallType
<1>6. ArgsOK'
  BY <1>0, <1>3, <1>4, ArgsFrame
<1>7. ShutdownProgress' /\ ContextAlive'
  <2>1. UNCHANGED <<life, mShutdownContext, mShutdownRequired, shutdownAck>>
    BY DEF InitReturn
  <2>2. \A v \in Threads : \A x : x.op = "join" /\ x \in OpenCalls(v) => x \in OpenCalls(v)'
    BY <1>3
  <2>3. \A v \in Background : OpenCalls(v) = {} => OpenCalls(v)' = {}
    BY <1>3 DEF Threads
  <2> QED BY <1>0, <1>4, <2>1, <2>2, <2>3, ShutdownFrame
<1>8. SyncPending' /\ SyncCallerWaits' /\ QueuedOrOpen'
  <2>1. UNCHANGED <<syncTask, origin, acceptedBy>> /\ dispatched \subseteq dispatched'
    BY DEF InitReturn
  <2>2. \A v \in Threads : \A x : x.op = "sync" => (x \in OpenCalls(v)' <=> x \in OpenCalls(v))
    BY <1>3
  <2>3. \A v \in Threads, e \in syncTask :
          Call("syncwait", e) \in OpenCalls(v) => Call("syncwait", e) \in OpenCalls(v)'
    BY <1>3, CallFacts
  <2> QED BY <1>0, <1>4, <2>1, <2>2, <2>3, SyncFrame
<1>9. Accounted'
  BY <1>0, <1>3, <1>4, AccountedFrame DEF InitReturn
<1>10. SleepsInCall'
  BY <1>0, <1>3 DEF SleepsInCall, InitReturn, TopIs
<1> QED BY <1>3, <1>4, <1>5, <1>6, <1>7, <1>8, <1>9, <1>10 DEF Inv
\* A task returns: nobody waits for it.
LEMMA TaskReturnPreserves ==
    ASSUME Inv, NEW t \in Threads, RunReturn(t), Top(t).op # "sync"
    PROVE  Inv'
<1>0. TypeOK /\ StackShape /\ ArgsOK /\ SleepsInCall /\ ShutdownProgress
      /\ QueuedOnce /\ OpenOnce /\ QueuedOrOpen /\ SyncPending /\ ContextAlive /\ SyncCallerWaits /\ Accounted
  BY DEF Inv
<1>1. (Innermost(t, "task") \/ Innermost(t, "sync")) /\ Return(t)
      /\ UNCHANGED <<queue, syncTask, failed>>
  BY DEF RunReturn, TopIs
<1>2. stack[t] # << >> /\ Top(t).op = "task"
  BY <1>0, <1>1, InnermostIs
<1> DEFINE c == Top(t)
<1> HIDE DEF c
<1>3. /\ stack' \in [Threads -> Seq(CallType)] /\ StackShape' /\ OpenOnce'
      /\ OpenCalls(t) = OpenCalls(t)' \cup {c} /\ c.op = "task" /\ c \in OpenCalls(t)
      /\ \A v \in Threads \ {t} : OpenCalls(v)' = OpenCalls(v)
  BY <1>0, <1>1, <1>2, ReturnStep DEF c
<1>4. QueuedOnce' /\ \A v : Queued(v)' = Queued(v)
  BY <1>0, <1>1, SameQueue
<1>5. TypeOK'
  <2>1. c.arg \in Tasks
    BY <1>0, <1>3 DEF ArgsOK, CallOK
  <2>2. ran' \in SUBSET Tasks
    BY <1>0, <2>1 DEF RunReturn, TypeOK, c
  <2> QED BY <1>0, <1>1, <1>3, <2>2 DEF TypeOK, RunReturn, CallType
<1>6. ArgsOK'
  BY <1>0, <1>3, <1>4, ArgsFrame
<1>7. ShutdownProgress' /\ ContextAlive'
  <2>1. UNCHANGED <<life, mShutdownContext, mShutdownRequired, shutdownAck>>
    BY DEF RunReturn
  <2>2. \A v \in Threads : \A x : x.op = "join" /\ x \in OpenCalls(v) => x \in OpenCalls(v)'
    BY <1>3
  <2>3. \A v \in Background : OpenCalls(v) = {} => OpenCalls(v)' = {}
    BY <1>3 DEF Threads
  <2> QED BY <1>0, <1>4, <2>1, <2>2, <2>3, ShutdownFrame
<1>8. SyncPending' /\ SyncCallerWaits' /\ QueuedOrOpen'
  <2>1. UNCHANGED <<syncTask, origin, acceptedBy>> /\ dispatched \subseteq dispatched'
    BY <1>1 DEF RunReturn
  <2>2. \A v \in Threads : \A x : x.op = "sync" => (x \in OpenCalls(v)' <=> x \in OpenCalls(v))
    BY <1>3
  <2>3. \A v \in Threads, e \in syncTask :
          Call("syncwait", e) \in OpenCalls(v) => Call("syncwait", e) \in OpenCalls(v)'
    BY <1>3, CallFacts
  <2> QED BY <1>0, <1>4, <2>1, <2>2, <2>3, SyncFrame
<1>9. Accounted'
  <2>1. UNCHANGED <<acceptedBy, late, dispatched, life>> /\ ran' = ran \cup {c.arg}
    BY DEF RunReturn, c
  <2> QED BY <1>0, <1>3, <1>4, <2>1, AccountedFrame
<1>10. SleepsInCall'
  BY <1>0, <1>3 DEF SleepsInCall, RunReturn, TopIs
<1> QED BY <1>3, <1>4, <1>5, <1>6, <1>7, <1>8, <1>9, <1>10 DEF Inv

\* A wrapper returns: it clears mSyncTask and wakes the thread that waits.
LEMMA WrapperReturnPreserves ==
    ASSUME Inv, NEW t \in Threads, RunReturn(t), Top(t).op = "sync"
    PROVE  Inv'
<1>0. TypeOK /\ StackShape /\ ArgsOK /\ SleepsInCall /\ ShutdownProgress
      /\ QueuedOnce /\ OpenOnce /\ QueuedOrOpen /\ SyncPending /\ ContextAlive /\ SyncCallerWaits /\ Accounted
  BY DEF Inv
<1>1. (Innermost(t, "task") \/ Innermost(t, "sync")) /\ Return(t)
  BY DEF RunReturn, TopIs
<1>2. stack[t] # << >> /\ Top(t) \in OpenCalls(t) /\ Top(t) \in CallType
  BY <1>0, <1>1, InnermostIs
<1>e. PICK e \in Tasks : e = Top(t).arg
  BY <1>0, <1>2 DEF ArgsOK, CallOK
<1> DEFINE c == Call("sync", e)
           w == Call("wake", e)
<1>c. Top(t) = c
  BY <1>2, <1>e, EventIs
<1>s. e \in syncTask
  BY <1>0, <1>2, <1>c DEF SyncPending
<1>o. PICK o \in Threads : o = origin[e]
  BY <1>0, <1>s DEF SyncPending
<1>w. w \in EventType /\ w.op = "wake" /\ EventOK(w)
  BY <1>e, CallFacts DEF EventOK, EventOps
<1>p. PutUnchecked(o, w) /\ syncTask' = syncTask \ {e} /\ ran' = ran \cup {e}
  BY <1>e, <1>o DEF RunReturn
<1>i. OpenCalls(o) # {}
  BY <1>0, <1>s, <1>o DEF SyncCallerWaits
<1>this. c = Call("sync", e)
  OBVIOUS
<1> HIDE DEF c, w
<1>3. /\ stack' \in [Threads -> Seq(CallType)] /\ StackShape' /\ OpenOnce'
      /\ OpenCalls(t) = OpenCalls(t)' \cup {c} /\ c.op = "sync" /\ c \in OpenCalls(t)
      /\ \A v \in Threads \ {t} : OpenCalls(v)' = OpenCalls(v)
      /\ \A v \in Threads : c \notin OpenCalls(v)'
  BY <1>0, <1>1, <1>2, <1>c, ReturnStep
<1>4. /\ queue' \in [Threads -> Seq(EventType)] /\ QueuedOnce'
      /\ Queued(o) \subseteq Queued(o)' /\ Queued(o)' \subseteq Queued(o) \cup {w}
      /\ failed' \in BOOLEAN
      /\ \A v \in Threads \ {o} : Queued(v)' = Queued(v)
  BY <1>0, <1>o, <1>w, <1>p, PutUncheckedStep
<1>5. TypeOK'
  <2>1. ran' \in SUBSET Tasks /\ syncTask' \in SUBSET Tasks
    BY <1>0, <1>e, <1>p DEF TypeOK
  <2> QED BY <1>0, <1>3, <1>4, <2>1 DEF TypeOK, RunReturn, CallType, EventType
<1>6. ArgsOK'
  <2>1. \A v \in Threads : \A x \in OpenCalls(v)' : x \in OpenCalls(v) \/ CallOK(x)
    BY <1>3
  <2>2. \A v \in Threads : \A x \in Queued(v)' : x \in Queued(v) \/ EventOK(x)
    BY <1>4, <1>w
  <2> QED BY <1>0, <2>1, <2>2, ArgsFrame
<1>7. ShutdownProgress' /\ ContextAlive'
  <2>1. UNCHANGED <<life, mShutdownContext, mShutdownRequired, shutdownAck>>
    BY DEF RunReturn
  <2>2. \A v \in Threads : \A x : x.op = "join" /\ x \in OpenCalls(v) => x \in OpenCalls(v)'
    BY <1>3
  <2>3. \A v \in Background : OpenCalls(v) = {} => OpenCalls(v)' = {}
    BY <1>3 DEF Threads
  <2>4. \A v \in Threads : \A x : x.op \in {"shutdown", "ack"} =>
          (x \in Queued(v)' => x \in Queued(v))
    BY <1>4, <1>w
  <2> QED BY <1>0, <2>1, <2>2, <2>3, <2>4, ShutdownFrame
<1>gone. \A v \in Threads : c \notin (Queued(v) \cup OpenCalls(v))'
  <2>1. \A v \in Threads : c \notin Queued(v)
    BY <1>0, <1>3 DEF QueuedOrOpen
  <2>2. c # w
    BY <1>3, <1>w
  <2> QED BY <1>3, <1>4, <2>1, <2>2
<1>kept. ASSUME NEW f \in Tasks \ {e}, NEW v \in Threads
         PROVE  Call("sync", f) \in (Queued(v) \cup OpenCalls(v))'
                  <=> Call("sync", f) \in Queued(v) \cup OpenCalls(v)
  <2>1. Call("sync", f) # c /\ Call("sync", f) # w
    BY <1>this, <1>w, CallFacts
  <2> QED BY <1>3, <1>4, <2>1, ZenonT(40)
<1>8. SyncPending'
  <2>1. \A f \in syncTask' : f \in syncTask /\ origin' = origin /\ dispatched' = dispatched
    BY <1>p DEF RunReturn
  <2>2. ASSUME NEW v \in Threads, NEW f \in Tasks,
               Call("sync", f) \in (Queued(v) \cup OpenCalls(v))'
        PROVE  f \in syncTask'
    <3>1. f # e
      BY <1>this, <1>gone, <2>2
    <3> QED BY <1>0, <1>p, <1>kept, <2>2, <3>1 DEF SyncPending
  <2>3. \A f \in syncTask' : origin'[f] \in Threads /\ f \in dispatched'
    BY <1>0, <2>1 DEF SyncPending
  <2> QED BY <2>2, <2>3 DEF SyncPending
<1>9. SyncCallerWaits'
  <2> SUFFICES ASSUME NEW f \in syncTask'
               PROVE  /\ Call("syncwait", f) \in OpenCalls(origin[f])'
                      /\ {v \in Threads : Call("sync", f) \in (Queued(v) \cup OpenCalls(v))'}
                           = {acceptedBy'[f]} \ {None}
    BY DEF SyncCallerWaits
  <2>1. /\ f \in Tasks \ {e} /\ f \in syncTask /\ origin[f] \in Threads
        /\ origin' = origin /\ acceptedBy' = acceptedBy
    BY <1>0, <1>p DEF SyncPending, RunReturn, TypeOK
  <2>2. /\ Call("syncwait", f) \in OpenCalls(origin[f])
        /\ {v \in Threads : Call("sync", f) \in Queued(v) \cup OpenCalls(v)}
             = {acceptedBy[f]} \ {None}
    BY <1>0, <2>1 DEF SyncCallerWaits
  <2>3. {v \in Threads : Call("sync", f) \in (Queued(v) \cup OpenCalls(v))'}
          = {v \in Threads : Call("sync", f) \in Queued(v) \cup OpenCalls(v)}
    BY <1>kept, <2>1
  <2>4. Call("syncwait", f) # c
    BY <1>3, CallFacts
  <2>5. \A v \in Threads : Call("syncwait", f) \in OpenCalls(v) => Call("syncwait", f) \in OpenCalls(v)'
    BY <1>3, <2>4
  <2> QED BY <2>1, <2>2, <2>3, <2>5
<1>10. QueuedOrOpen'
  <2> SUFFICES ASSUME NEW v1 \in Threads, NEW v2 \in Threads, NEW x \in Queued(v1)',
                      x.op = "sync", x \in OpenCalls(v2)'
               PROVE  FALSE
    BY DEF QueuedOrOpen
  <2>1. x \in OpenCalls(v2)
    BY <1>3
  <2>2. x \in Queued(v1)
    BY <1>4, <1>w
  <2> QED BY <1>0, <2>1, <2>2 DEF QueuedOrOpen
<1>11. Accounted'
  <2>1. UNCHANGED <<acceptedBy, late, dispatched, life>> /\ ran' = ran \cup {c.arg}
    BY <1>p, <1>this, CallFacts DEF RunReturn
  <2>2. \A v \in Threads : Queued(v) \subseteq Queued(v)'
    BY <1>4
  <2>3. \A v \in Threads : OpenCalls(v) \subseteq OpenCalls(v)' \cup {c}
    BY <1>3
  <2> QED BY <1>0, <2>1, <2>2, <2>3, AccountedFrame
<1>12. SleepsInCall'
  BY <1>0, <1>3 DEF SleepsInCall, RunReturn, TopIs
<1> QED BY <1>3, <1>4, <1>5, <1>6, <1>7, <1>8, <1>9, <1>10, <1>11, <1>12 DEF Inv
\* An event is taken off and run: a user event opens a call, one of a
\* shutdown sets what the shutdown waits for.
LEMMA ProcessNextEventPreserves ==
    ASSUME Inv, NEW t \in Threads, ProcessNextEvent(t)
    PROVE  Inv'
<1>0. TypeOK /\ StackShape /\ ArgsOK /\ SleepsInCall /\ ShutdownProgress
      /\ QueuedOnce /\ OpenOnce /\ QueuedOrOpen /\ SyncPending /\ ContextAlive /\ SyncCallerWaits /\ Accounted
  BY DEF Inv
<1>1. queue[t] # << >> /\ queue' = [queue EXCEPT ![t] = Tail(@)]
  BY DEF ProcessNextEvent
<1>h. PICK h : h = Head(queue[t])
  OBVIOUS
<1>2. /\ queue' \in [Threads -> Seq(EventType)] /\ QueuedOnce' /\ h \in EventType
      /\ Queued(t) = Queued(t)' \cup {h} /\ h \in Queued(t)
      /\ \A v \in Threads \ {t} : Queued(v)' = Queued(v)
      /\ h.op = "shutdown" => ~ HasShutdown(t)'
      /\ h.op \in {"ack", "sync"} => \A v \in Threads : h \notin Queued(v)'
  BY <1>0, <1>1, <1>h, TakeStep
<1>3. \A v \in Threads : Queued(v)' \subseteq Queued(v)
  BY <1>2
<1>a. EventOK(h) /\ h.arg \in Threads \cup Tasks /\ h.op \in EventOps /\ h = Call(h.op, h.arg)
  BY <1>0, <1>2, EventIs DEF ArgsOK, EventType
<1>4. stack[t] # << >> /\ OpenCalls(t) # {}
  <2>1. CASE asleep[t]
    <3>1. OpenCalls(t) # {}
      BY <1>0, <2>1 DEF SleepsInCall
    <3>2. DOMAIN stack[t] # {}
      BY <3>1 DEF OpenCalls
    <3>3. stack[t] # << >>
      BY <3>2
    <3> QED BY <3>1, <3>3
  <2>2. CASE WantsEvent(t)
    BY <1>0, <2>2, InnermostIs DEF WantsEvent, TopIs
  <2> QED BY <2>1, <2>2 DEF ProcessNextEvent
<1>5. /\ stack' \in [Threads -> Seq(CallType)] /\ StackShape' /\ OpenOnce'
      /\ OpenCalls(t)' = OpenCalls(t) \cup (IF h.op \in {"task", "sync"} THEN {h} ELSE {})
      /\ \A v \in Threads \ {t} : OpenCalls(v)' = OpenCalls(v)
  <2>1. CASE h.op \in {"task", "sync"}
    <3>1. Push(t, h) /\ h \in CallType /\ h.op # "loop" /\ h.op # "manager"
      BY <1>h, <1>a, <2>1, CallFacts DEF ProcessNextEvent, CallOps
    <3>2. h.op = "sync" => \A v \in Threads : h \notin OpenCalls(v)
      BY <1>0, <1>2 DEF QueuedOrOpen
    <3>3. OpenCalls(t)' = OpenCalls(t) \cup {h}
      BY <1>0, <1>4, <3>1, PushStep
    <3> QED BY <1>0, <1>4, <2>1, <3>1, <3>2, <3>3, PushStep
  <2>2. CASE h.op \notin {"task", "sync"}
    <3>1. UNCHANGED stack
      BY <1>h, <2>2 DEF ProcessNextEvent
    <3>2. StackShape' /\ OpenOnce' /\ \A v : OpenCalls(v)' = OpenCalls(v)
      BY <1>0, <3>1, SameStack
    <3> QED BY <1>0, <2>2, <3>1, <3>2, Types
  <2> QED BY <2>1, <2>2
<1>6. TypeOK'
  <2>1. h.op = "ack" => h.arg \in Background
    BY <1>a DEF EventOK
  <2>2. h.op = "shutdown" => h.arg \in Threads
    BY <1>a DEF EventOK
  <2>3. shutdownAck' \in [Threads -> BOOLEAN]
    BY <1>0, <1>h, <2>1 DEF ProcessNextEvent, TypeOK
  <2>4. mShutdownContext' \in [Threads -> Threads \cup {None}]
    BY <1>0, <1>h, <2>2 DEF ProcessNextEvent, TypeOK
  <2>5. asleep' \in [Threads -> BOOLEAN]
    BY <1>0 DEF ProcessNextEvent, TypeOK
  <2> QED BY <1>0, <1>2, <1>5, <2>3, <2>4, <2>5
          DEF TypeOK, ProcessNextEvent, CallType, EventType
<1>7. ArgsOK'
  <2>1. h.op \in {"task", "sync"} => CallOK(h)
    BY <1>a DEF EventOK, CallOK
  <2>2. \A v \in Threads : \A x \in OpenCalls(v)' : x \in OpenCalls(v) \/ CallOK(x)
    BY <1>5, <2>1
  <2>3. \A v \in Threads : \A x \in Queued(v)' : x \in Queued(v) \/ EventOK(x)
    BY <1>3
  <2> QED BY <1>0, <2>2, <2>3, ArgsFrame
<1>8. SleepsInCall'
  <2>1. \A v \in Threads \ {t} : asleep'[v] = asleep[v]
    BY <1>0 DEF ProcessNextEvent, TypeOK
  <2> QED BY <1>0, <1>4, <1>5, <2>1 DEF SleepsInCall
<1>s. \A v \in Threads : HasShutdown(v)' => HasShutdown(v)
  BY <1>3 DEF HasShutdown
<1>j. \A v \in Threads, u \in Background :
        /\ Call("join", u) \in OpenCalls(v) => Call("join", u) \in OpenCalls(v)'
        /\ Call("ack", u) \in Queued(v)' => Call("ack", u) \in Queued(v)
        /\ Call("shutdown", v) \in Queued(u)' => Call("shutdown", v) \in Queued(u)
  BY <1>3, <1>5 DEF Threads
<1>o. \A v \in Background : OpenCalls(v) = {} => OpenCalls(v)' = {}
  BY <1>4, <1>5 DEF Threads
<1>u. UNCHANGED <<life, mShutdownRequired, syncTask, origin, dispatched, ran,
                  acceptedBy, late>>
  BY DEF ProcessNextEvent
<1>9. ShutdownProgress' /\ ContextAlive'
  <2>1. CASE h.op \notin {"shutdown", "ack"}
    <3>1. UNCHANGED <<life, mShutdownContext, mShutdownRequired, shutdownAck>>
      BY <1>h, <2>1 DEF ProcessNextEvent
    <3>2. \A v \in Threads : \A x : x.op = "join" /\ x \in OpenCalls(v) => x \in OpenCalls(v)'
      BY <1>5
    <3> QED BY <1>0, <1>3, <1>o, <3>1, <3>2, ShutdownFrame
  <2>2. CASE h.op = "shutdown"
    <3>1. /\ mShutdownContext' = [mShutdownContext EXCEPT ![t] = h.arg]
          /\ UNCHANGED shutdownAck
      BY <1>h, <2>2 DEF ProcessNextEvent
    <3>2. HasShutdown(t) /\ t \in Background
      BY <1>0, <1>2, <2>2 DEF HasShutdown, ShutdownProgress, Threads
    <3>3. h.arg \in Threads /\ h.arg # None
      BY <1>a, <2>2, ThreadAssumption DEF EventOK, ThreadAssumption
    <3>4. mShutdownContext'[t] = h.arg /\ \A v \in Threads \ {t} : mShutdownContext'[v] = mShutdownContext[v]
      BY <1>0, <3>1 DEF TypeOK
    <3>5. life[t] = "running" /\ ~ mShutdownRequired[t] /\ ~ HasShutdown(t)'
      BY <1>0, <1>2, <2>2, <3>2 DEF ShutdownProgress, ProgressOf
    <3>6. \A u \in Background : ProgressOf(u)'
      <4>1. ASSUME NEW u \in Background \ {t} PROVE ProgressOf(u)'
        <5>1. ProgressOf(u) /\ u \in Threads /\ mShutdownContext'[u] = mShutdownContext[u]
          BY <1>0, <3>4 DEF ShutdownProgress, Threads
        <5> QED BY <1>s, <1>j, <1>o, <1>u, <3>1, <5>1 DEF ProgressOf
      <4>2. ProgressOf(t)'
        <5>1. ProgressOf(t)
          BY <1>0, <3>2 DEF ShutdownProgress
        <5> QED BY <1>j, <1>u, <3>1, <3>2, <3>5, <5>1 DEF ProgressOf
      <4> QED BY <4>1, <4>2
    <3>7. ShutdownProgress'
      <4>1. Main \in Threads \ {t}
        BY <3>2, ThreadAssumption DEF ThreadAssumption, Threads
      <4> QED BY <1>0, <1>s, <1>u, <3>4, <3>6, <4>1 DEF ShutdownProgress
    <3>8. ContextAlive'
      <4> SUFFICES ASSUME NEW v \in Threads, NEW u \in Background,
                          \/ Call("shutdown", v) \in Queued(u)'
                          \/ mShutdownContext'[u] = v /\ life'[u] \in {"running", "ending"}
                          \/ Call("ack", u) \in Queued(v)'
                   PROVE  Call("join", u) \in OpenCalls(v)'
        BY DEF ContextAlive
      <4>1. CASE mShutdownContext'[u] = v /\ u = t
        <5>1. h = Call("shutdown", v)
          BY <1>a, <2>2, <3>4, <4>1
        <5> QED BY <1>0, <1>2, <1>j, <3>2, <4>1, <5>1 DEF ContextAlive
      <4>2. CASE ~ (mShutdownContext'[u] = v /\ u = t)
        BY <1>0, <1>j, <1>u, <3>4, <4>2 DEF ContextAlive, Threads
      <4> QED BY <4>1, <4>2
    <3> QED BY <3>7, <3>8
  <2>3. CASE h.op = "ack"
    <3>1. PICK a \in Background : a = h.arg
      BY <1>a, <2>3 DEF EventOK
    <3>2. shutdownAck' = [shutdownAck EXCEPT ![a] = TRUE] /\ UNCHANGED mShutdownContext
      BY <1>h, <2>3, <3>1 DEF ProcessNextEvent
    <3>3. \A v \in Threads : Call("ack", a) \notin Queued(v)'
      BY <1>2, <1>a, <2>3, <3>1
    <3>4. ProgressOf(a) /\ life[a] = "exited"
      <4>1. Call("ack", a) \in Queued(t)
        BY <1>2, <1>a, <2>3, <3>1
      <4> QED BY <1>0, <4>1 DEF ShutdownProgress, ProgressOf
    <3>5. \A v \in Threads \ {a} : shutdownAck'[v] = shutdownAck[v]
      BY <1>0, <3>2 DEF TypeOK
    <3>6. \A u \in Background : ProgressOf(u)'
      <4>1. ASSUME NEW u \in Background \ {a} PROVE ProgressOf(u)'
        <5>1. ProgressOf(u) /\ u \in Threads /\ shutdownAck'[u] = shutdownAck[u]
          BY <1>0, <3>5 DEF ShutdownProgress, Threads
        <5> QED BY <1>s, <1>j, <1>o, <1>u, <3>2, <5>1 DEF ProgressOf
      <4>2. ProgressOf(a)'
        <5>1. a \in Threads
          BY DEF Threads
        <5> QED BY <1>s, <1>o, <1>u, <3>2, <3>3, <3>4, <5>1 DEF ProgressOf
      <4> QED BY <4>1, <4>2
    <3>7. ShutdownProgress'
      BY <1>0, <1>s, <1>u, <3>2, <3>6 DEF ShutdownProgress, Threads
    <3>8. ContextAlive'
      BY <1>0, <1>j, <1>u, <3>2 DEF ContextAlive
    <3> QED BY <3>7, <3>8
  <2> QED BY <2>1, <2>2, <2>3
<1>10. SyncPending' /\ SyncCallerWaits'
  <2>1. ASSUME NEW v \in Threads, NEW e \in Tasks
        PROVE  Call("sync", e) \in (Queued(v) \cup OpenCalls(v))'
                 <=> Call("sync", e) \in Queued(v) \cup OpenCalls(v)
    <3> DEFINE c == Call("sync", e)
    <3>1. c.op = "sync"
      BY CallFacts
    <3> HIDE DEF c
    <3>2. CASE v = t
      BY <1>2, <1>5, <3>1, <3>2
    <3>3. CASE v # t
      BY <1>2, <1>5, <3>3
    <3> QED BY <3>2, <3>3 DEF c
  <2>2. \A v \in Threads : OpenCalls(v) \subseteq OpenCalls(v)'
    BY <1>5
  <2> QED BY <1>0, <1>u, <2>1, <2>2, WrapperStays
<1>11. QueuedOrOpen'
  <2> SUFFICES ASSUME NEW v1 \in Threads, NEW v2 \in Threads, NEW x \in Queued(v1)',
                      x.op = "sync", x \in OpenCalls(v2)'
               PROVE  FALSE
    BY DEF QueuedOrOpen
  <2>1. x \in OpenCalls(v2) \/ x = h
    BY <1>5
  <2>2. x \in Queued(v1)
    BY <1>3
  <2> QED BY <1>0, <1>2, <2>1, <2>2 DEF QueuedOrOpen
<1>12. Accounted'
  <2>1. \A v \in Threads : \A c : c.op \in {"task", "sync"} /\ c \in Queued(v) \cup OpenCalls(v)
          => c \in (Queued(v) \cup OpenCalls(v))'
    BY <1>2, <1>5
  <2> QED BY <1>0, <1>u, <2>1, AccountedFrame
<1> QED BY <1>2, <1>5, <1>6, <1>7, <1>8, <1>9, <1>10, <1>11, <1>12 DEF Inv
\* The call of Shutdown past its early returns, by a thread or by the thread
\* manager.
LEMMA BeginShutdownPreserves ==
    ASSUME Inv, NEW t \in Threads, NEW u \in Threads, stack[t] # << >>, BeginShutdown(t, u),
           UNCHANGED <<asleep, life, mShutdownContext, shutdownAck, syncTask, origin,
                       dispatched, ran, acceptedBy, late>>,
           mInitialized' \in BOOLEAN, registered' \in SUBSET Threads,
           manager' \in [pc : {"idle", "flush", "join", "done"}, threads : SUBSET Threads]
    PROVE  Inv'
<1> DEFINE c == Call("shutdown", t)
           d == Call("join", u)
<1>0. TypeOK /\ StackShape /\ ArgsOK /\ SleepsInCall /\ ShutdownProgress
      /\ QueuedOnce /\ OpenOnce /\ QueuedOrOpen /\ SyncPending /\ ContextAlive /\ SyncCallerWaits /\ Accounted
  BY DEF Inv
<1>u. u \in Background /\ mShutdownRequired[u]
  BY <1>0 DEF BeginShutdown, ShutdownProgress, Threads
<1>1. /\ c \in EventType /\ c.op = "shutdown" /\ EventOK(c) /\ c.arg = t
      /\ d \in CallType /\ d.op = "join" /\ CallOK(d) /\ d.arg = u
  BY <1>u, CallFacts DEF EventOK, EventOps, CallOK, CallOps
<1>2. PutUnchecked(u, c) /\ Push(t, d)
  BY DEF BeginShutdown
<1>p. life[u] = "running" /\ mShutdownContext[u] = None /\ ~ HasShutdown(u) /\ ProgressOf(u)
  BY <1>0, <1>u DEF ShutdownProgress, ProgressOf
<1>this. Call("shutdown", t) = c /\ Call("join", u) = d
  OBVIOUS
<1> HIDE DEF c, d
<1>3. /\ queue' \in [Threads -> Seq(EventType)] /\ QueuedOnce'
      /\ Queued(u) \subseteq Queued(u)' /\ Queued(u)' \subseteq Queued(u) \cup {c}
      /\ failed' \in BOOLEAN
      /\ \A v \in Threads \ {u} : Queued(v)' = Queued(v)
  BY <1>0, <1>1, <1>2, <1>p, PutUncheckedStep
<1>4. /\ stack' \in [Threads -> Seq(CallType)] /\ StackShape' /\ OpenOnce'
      /\ OpenCalls(t)' = OpenCalls(t) \cup {d}
      /\ \A v \in Threads \ {t} : OpenCalls(v)' = OpenCalls(v)
  BY <1>0, <1>1, <1>2, PushStep
<1>o. OpenCalls(t) # {}
  <2>1. stack[t] \in Seq(CallType)
    BY <1>0, Types
  <2>2. 1 \in DOMAIN stack[t]
    BY <2>1
  <2>3. stack[t][1] \in OpenCalls(t)
    BY <2>2 DEF OpenCalls
  <2> QED BY <2>3
<1>r. /\ mShutdownRequired' = [mShutdownRequired EXCEPT ![u] = FALSE]
      /\ mShutdownRequired' \in [Threads -> BOOLEAN] /\ ~ mShutdownRequired'[u]
      /\ \A v \in Threads \ {u} : mShutdownRequired'[v] = mShutdownRequired[v]
  BY <1>0 DEF BeginShutdown, TypeOK
<1>5. TypeOK'
  BY <1>0, <1>3, <1>4, <1>r DEF TypeOK, EventType, CallType
<1>6. ArgsOK'
  <2>1. \A v \in Threads : \A x \in OpenCalls(v)' : x \in OpenCalls(v) \/ CallOK(x)
    BY <1>1, <1>4
  <2>2. \A v \in Threads : \A x \in Queued(v)' : x \in Queued(v) \/ EventOK(x)
    BY <1>1, <1>3
  <2> QED BY <1>0, <2>1, <2>2, ArgsFrame
<1>7. \A v \in Threads \ {u} : HasShutdown(v)' <=> HasShutdown(v)
  BY <1>3 DEF HasShutdown
<1>8. \A v \in Threads, w \in Background :
        /\ Call("join", w) \in OpenCalls(v) => Call("join", w) \in OpenCalls(v)'
        /\ Call("ack", w) \in Queued(v)' => Call("ack", w) \in Queued(v)
        /\ Call("shutdown", v) \in Queued(w)' =>
             Call("shutdown", v) \in Queued(w) \/ (w = u /\ v = t)
  <2>1. \A v \in Threads : \A x \in Queued(v)' : x \in Queued(v) \/ (v = u /\ x = c)
    BY <1>3
  <2>2. \A v \in Threads : OpenCalls(v) \subseteq OpenCalls(v)'
    BY <1>4
  <2>3. \A w : Call("ack", w) # c /\ (Call("shutdown", w) = c => w = t)
    BY <1>1, CallFacts
  <2> QED BY <2>1, <2>2, <2>3 DEF Threads
<1>9. ShutdownProgress'
  <2>1. ASSUME NEW w \in Background \ {u} PROVE ProgressOf(w)'
    <3>1. /\ ProgressOf(w) /\ w \in Threads /\ mShutdownRequired'[w] = mShutdownRequired[w]
          /\ HasShutdown(w)' <=> HasShutdown(w)
      BY <1>0, <1>r, <1>7 DEF ShutdownProgress, Threads
    <3>2. OpenCalls(w) = {} => OpenCalls(w)' = {}
      BY <1>4, <1>o, <3>1
    <3> QED BY <1>8, <3>1, <3>2 DEF ProgressOf
  <2>2. ProgressOf(u)'
    BY <1>r, <1>8, <1>p, <1>u DEF ProgressOf
  <2>3. Main \in Threads \ {u}
    BY <1>u, ThreadAssumption DEF ThreadAssumption, Threads
  <2> QED BY <1>0, <1>r, <1>7, <2>1, <2>2, <2>3 DEF ShutdownProgress
<1>10. ContextAlive'
  <2> SUFFICES ASSUME NEW v \in Threads, NEW w \in Background,
                      \/ Call("shutdown", v) \in Queued(w)'
                      \/ mShutdownContext'[w] = v /\ life'[w] \in {"running", "ending"}
                      \/ Call("ack", w) \in Queued(v)'
               PROVE  Call("join", w) \in OpenCalls(v)'
    BY DEF ContextAlive
  <2>1. CASE w = u /\ v = t
    BY <1>4, <1>this, <2>1
  <2>2. CASE ~ (w = u /\ v = t)
    <3>1. \/ Call("shutdown", v) \in Queued(w)
          \/ mShutdownContext[w] = v /\ life[w] \in {"running", "ending"}
          \/ Call("ack", w) \in Queued(v)
      BY <1>8, <2>2
    <3>2. Call("join", w) \in OpenCalls(v)
      BY <1>0, <3>1 DEF ContextAlive
    <3> QED BY <1>8, <3>2
  <2> QED BY <2>1, <2>2
<1>11. SyncPending' /\ SyncCallerWaits' /\ QueuedOrOpen'
  <2>1. UNCHANGED <<syncTask, origin, acceptedBy>> /\ dispatched \subseteq dispatched'
    OBVIOUS
  <2>2. \A v \in Threads : \A x : x.op = "sync" =>
          /\ x \in Queued(v)' <=> x \in Queued(v)
          /\ x \in OpenCalls(v)' <=> x \in OpenCalls(v)
    BY <1>1, <1>3, <1>4
  <2>3. \A v \in Threads : OpenCalls(v) \subseteq OpenCalls(v)'
    BY <1>4
  <2> QED BY <1>0, <2>1, <2>2, <2>3, SyncFrame
<1>12. Accounted'
  <2>1. \A v \in Threads : Queued(v) \subseteq Queued(v)' /\ OpenCalls(v) \subseteq OpenCalls(v)'
    BY <1>3, <1>4
  <2> QED BY <1>0, <2>1, AccountedFrame
<1>13. SleepsInCall'
  BY <1>0, <1>4 DEF SleepsInCall
<1> QED BY <1>3, <1>4, <1>5, <1>6, <1>9, <1>10, <1>11, <1>12, <1>13 DEF Inv

LEMMA ShutdownPreserves ==
    ASSUME Inv, NEW t \in Threads, NEW u \in Background, Shutdown(t, u)
    PROVE  Inv'
<1>1. stack[t] # << >> /\ BeginShutdown(t, u) /\ u \in Threads
  BY UserCode DEF Shutdown, Threads
<1>2. UNCHANGED <<asleep, life, mShutdownContext, shutdownAck, syncTask, origin,
                  dispatched, ran, acceptedBy, late>>
  BY DEF Shutdown
<1>3. /\ mInitialized' \in BOOLEAN /\ registered' \in SUBSET Threads
      /\ manager' \in [pc : {"idle", "flush", "join", "done"}, threads : SUBSET Threads]
  BY DEF Shutdown, Inv, TypeOK
<1> QED BY <1>1, <1>2, <1>3, BeginShutdownPreserves

LEMMA ManagerJoinPreserves ==
    ASSUME Inv, NEW u \in Threads, ManagerJoin(u)
    PROVE  Inv'
<1>0. TypeOK /\ StackShape /\ ArgsOK /\ SleepsInCall /\ ShutdownProgress
      /\ QueuedOnce /\ OpenOnce /\ QueuedOrOpen /\ SyncPending /\ ContextAlive /\ SyncCallerWaits /\ Accounted
  BY DEF Inv
<1>1. stack[Main] # << >> /\ Main \in Threads
  <2>1. Main \in Threads
    BY DEF Threads
  <2> QED BY <1>0, <2>1, InnermostIs DEF ManagerJoin, TopIs
<1>2. UNCHANGED <<asleep, life, mShutdownContext, shutdownAck, syncTask, origin,
                  mInitialized, registered, dispatched, ran, acceptedBy, late>>
  BY DEF ManagerJoin
<1>3. /\ mInitialized' \in BOOLEAN /\ registered' \in SUBSET Threads
      /\ manager' \in [pc : {"idle", "flush", "join", "done"}, threads : SUBSET Threads]
  BY <1>0 DEF ManagerJoin, TypeOK
<1>4. CASE BeginShutdown(Main, u)
  BY <1>1, <1>2, <1>3, <1>4, BeginShutdownPreserves
<1>5. CASE UNCHANGED <<mShutdownRequired, queue, stack, failed>>
  <2>1. /\ StackShape' /\ OpenOnce' /\ QueuedOnce'
        /\ \A v : OpenCalls(v)' = OpenCalls(v) /\ Queued(v)' = Queued(v)
    BY <1>0, <1>5, SameStack, SameQueue
  <2>2. TypeOK'
    BY <1>0, <1>2, <1>3, <1>5 DEF TypeOK
  <2>3. ArgsOK' /\ ShutdownProgress' /\ ContextAlive'
    BY <1>0, <1>2, <1>5, <2>1, ArgsFrame, ShutdownFrame
  <2>4. SyncPending' /\ SyncCallerWaits' /\ QueuedOrOpen'
    BY <1>0, <1>2, <2>1, SyncFrame
  <2>5. Accounted' /\ SleepsInCall'
    BY <1>0, <1>2, <2>1, AccountedFrame DEF SleepsInCall
  <2> QED BY <2>1, <2>2, <2>3, <2>4, <2>5 DEF Inv
<1> QED BY <1>4, <1>5 DEF ManagerJoin

LEMMA ManagerGatherPreserves == ASSUME Inv, ManagerGather PROVE Inv'
<1>0. TypeOK /\ StackShape /\ ArgsOK /\ SleepsInCall /\ ShutdownProgress
      /\ QueuedOnce /\ OpenOnce /\ QueuedOrOpen /\ SyncPending /\ ContextAlive /\ SyncCallerWaits /\ Accounted
  BY DEF Inv
<1>1. /\ StackShape' /\ OpenOnce' /\ QueuedOnce'
      /\ \A v : OpenCalls(v)' = OpenCalls(v) /\ Queued(v)' = Queued(v)
  BY <1>0, SameStack, SameQueue DEF ManagerGather
<1>2. TypeOK'
  <2>1. manager' \in [pc : {"idle", "flush", "join", "done"}, threads : SUBSET Threads]
    BY <1>0 DEF ManagerGather, TypeOK
  <2> QED BY <1>0, <2>1 DEF TypeOK, ManagerGather
<1>3. ArgsOK' /\ ShutdownProgress' /\ ContextAlive'
  <2>1. UNCHANGED <<life, mShutdownContext, mShutdownRequired, shutdownAck>>
    BY DEF ManagerGather
  <2> QED BY <1>0, <1>1, <2>1, ArgsFrame, ShutdownFrame
<1>4. SyncPending' /\ SyncCallerWaits' /\ QueuedOrOpen'
  <2>1. UNCHANGED <<syncTask, origin, acceptedBy>> /\ dispatched \subseteq dispatched'
    BY DEF ManagerGather
  <2> QED BY <1>0, <1>1, <2>1, SyncFrame
<1>5. Accounted' /\ SleepsInCall'
  BY <1>0, <1>1, AccountedFrame DEF SleepsInCall, ManagerGather
<1> QED BY <1>1, <1>2, <1>3, <1>4, <1>5 DEF Inv
\* Shutdown returns: the thread is joined.
LEMMA ShutdownReturnPreserves ==
    ASSUME Inv, NEW t \in Threads, ShutdownReturn(t)
    PROVE  Inv'
<1>0. TypeOK /\ StackShape /\ ArgsOK /\ SleepsInCall /\ ShutdownProgress
      /\ QueuedOnce /\ OpenOnce /\ QueuedOrOpen /\ SyncPending /\ ContextAlive /\ SyncCallerWaits /\ Accounted
  BY DEF Inv
<1>1. Innermost(t, "join") /\ Return(t) /\ shutdownAck[Top(t).arg]
  BY DEF ShutdownReturn, TopIs
<1>2. stack[t] # << >> /\ Top(t).op = "join" /\ Top(t) \in OpenCalls(t) /\ Top(t) \in CallType
  BY <1>0, <1>1, InnermostIs
<1>u. PICK u \in Background : u = Top(t).arg
  BY <1>0, <1>2 DEF ArgsOK, CallOK
<1>c. PICK c \in CallType : c = Top(t) /\ c = Call("join", u)
  BY <1>2, <1>u, EventIs
<1>p. /\ u \in Threads /\ ProgressOf(u) /\ shutdownAck[u]
      /\ life[u] \in {"exited", "joined"} /\ OpenCalls(u) = {}
  BY <1>0, <1>1, <1>u DEF ShutdownProgress, ProgressOf, Threads
<1>3. /\ stack' \in [Threads -> Seq(CallType)] /\ StackShape' /\ OpenOnce'
      /\ OpenCalls(t) = OpenCalls(t)' \cup {c} /\ c.op = "join" /\ c \in OpenCalls(t)
      /\ \A v \in Threads \ {t} : OpenCalls(v)' = OpenCalls(v)
  BY <1>0, <1>1, <1>2, <1>c, ReturnStep
<1>4. QueuedOnce' /\ \A v : Queued(v)' = Queued(v)
  BY <1>0, SameQueue DEF ShutdownReturn
<1>l. /\ life' = [life EXCEPT ![u] = "joined"] /\ life'[u] = "joined"
      /\ \A v \in Threads \ {u} : life'[v] = life[v]
      /\ life' \in [Threads -> {"none", "running", "ending", "exited", "joined"}]
  BY <1>0, <1>u, <1>p DEF ShutdownReturn, TypeOK
<1>n. UNCHANGED <<asleep, queue, mShutdownContext, mShutdownRequired, shutdownAck,
                  syncTask, origin, dispatched, ran, acceptedBy, late>>
  BY DEF ShutdownReturn
<1>5. TypeOK'
  BY <1>0, <1>3, <1>l DEF TypeOK, ShutdownReturn, CallType
<1>6. ArgsOK'
  <2>1. \A v \in Threads : \A x \in OpenCalls(v)' : x \in OpenCalls(v) \/ CallOK(x)
    BY <1>3
  <2> QED BY <1>0, <1>4, <2>1, ArgsFrame
<1>h. \A v : HasShutdown(v)' <=> HasShutdown(v)
  BY <1>4 DEF HasShutdown
<1>o. \A v \in Background : OpenCalls(v) = {} => OpenCalls(v)' = {}
  BY <1>3 DEF Threads
<1>7. ShutdownProgress'
  <2>1. ASSUME NEW w \in Background \ {u} PROVE ProgressOf(w)'
    <3>1. ProgressOf(w) /\ w \in Threads /\ life'[w] = life[w]
      BY <1>0, <1>l DEF ShutdownProgress, Threads
    <3> QED BY <1>4, <1>h, <1>o, <1>n, <3>1 DEF ProgressOf
  <2>2. ProgressOf(u)'
    BY <1>4, <1>h, <1>o, <1>n, <1>p, <1>l DEF ProgressOf
  <2>3. Main \in Threads \ {u}
    BY ThreadAssumption DEF ThreadAssumption, Threads
  <2> QED BY <1>0, <1>l, <1>h, <1>n, <2>1, <2>2, <2>3 DEF ShutdownProgress
<1>8. ContextAlive'
  <2> SUFFICES ASSUME NEW v \in Threads, NEW w \in Background,
                      \/ Call("shutdown", v) \in Queued(w)'
                      \/ mShutdownContext'[w] = v /\ life'[w] \in {"running", "ending"}
                      \/ Call("ack", w) \in Queued(v)'
               PROVE  Call("join", w) \in OpenCalls(v)'
    BY DEF ContextAlive
  <2>1. CASE w = u
    <3>1. Call("shutdown", v) \notin Queued(u)
      BY <1>p, CallFacts DEF ProgressOf, HasShutdown
    <3>2. Call("ack", u) \notin Queued(v)
      BY <1>p DEF ProgressOf
    <3> QED BY <1>4, <1>l, <2>1, <3>1, <3>2
  <2>2. CASE w # u
    <3>1. w \in Threads \ {u}
      BY <2>2 DEF Threads
    <3>2. Call("join", w) \in OpenCalls(v)
      BY <1>0, <1>4, <1>l, <1>n, <3>1 DEF ContextAlive
    <3>3. Call("join", w) # c
      BY <1>c, <2>2, CallFacts
    <3> QED BY <1>3, <3>2, <3>3
  <2> QED BY <2>1, <2>2
<1>9. SyncPending' /\ SyncCallerWaits' /\ QueuedOrOpen'
  <2>2. \A v \in Threads : \A x : x.op = "sync" => (x \in OpenCalls(v)' <=> x \in OpenCalls(v))
    BY <1>3
  <2>3. \A v \in Threads, e \in syncTask :
          Call("syncwait", e) \in OpenCalls(v) => Call("syncwait", e) \in OpenCalls(v)'
    BY <1>3, CallFacts
  <2> QED BY <1>0, <1>4, <1>n, <2>2, <2>3, SyncFrame
<1>10. Accounted'
  <2>1. \A v \in Threads : life[v] = "running" => life'[v] = "running"
    BY <1>p, <1>l
  <2> QED BY <1>0, <1>3, <1>4, <1>n, <2>1, AccountedFrame
<1>11. SleepsInCall'
  BY <1>0, <1>3 DEF SleepsInCall, ShutdownReturn, TopIs
<1> QED BY <1>3, <1>4, <1>5, <1>6, <1>7, <1>8, <1>9, <1>10, <1>11 DEF Inv

LEMMA NewThreadPreserves ==
    ASSUME Inv, NEW t \in Threads, NEW u \in Background, NewThread(t, u)
    PROVE  Inv'
<1>0. TypeOK /\ StackShape /\ ArgsOK /\ SleepsInCall /\ ShutdownProgress
      /\ QueuedOnce /\ OpenOnce /\ QueuedOrOpen /\ SyncPending /\ ContextAlive /\ SyncCallerWaits /\ Accounted
  BY DEF Inv
<1>d. PICK d \in {Call("init", u), Call("stuck", u)} : Push(t, d)
  BY DEF NewThread
<1>1. d \in CallType /\ d.op \in {"init", "stuck"} /\ CallOK(d)
  BY CallFacts DEF CallOK, CallOps, Threads
<1>2. stack[t] # << >> /\ OpenCalls(t) # {} /\ failed' \in BOOLEAN
  BY <1>0, UserCode DEF NewThread, TypeOK
<1>3. /\ stack' \in [Threads -> Seq(CallType)] /\ StackShape' /\ OpenOnce'
      /\ OpenCalls(t)' = OpenCalls(t) \cup {d}
      /\ \A v \in Threads \ {t} : OpenCalls(v)' = OpenCalls(v)
  BY <1>0, <1>d, <1>1, <1>2, PushStep
<1>4. QueuedOnce' /\ \A v : Queued(v)' = Queued(v)
  BY <1>0, SameQueue DEF NewThread
<1>5. TypeOK'
  BY <1>0, <1>2, <1>3 DEF TypeOK, NewThread, CallType
<1>6. ArgsOK'
  <2>1. \A v \in Threads : \A x \in OpenCalls(v)' : x \in OpenCalls(v) \/ CallOK(x)
    BY <1>1, <1>3
  <2> QED BY <1>0, <1>4, <2>1, ArgsFrame
<1>7. ShutdownProgress' /\ ContextAlive'
  <2>1. UNCHANGED <<life, mShutdownContext, mShutdownRequired, shutdownAck>>
    BY DEF NewThread
  <2>2. \A v \in Threads : \A x : x.op = "join" /\ x \in OpenCalls(v) => x \in OpenCalls(v)'
    BY <1>3
  <2>3. \A v \in Background : OpenCalls(v) = {} => OpenCalls(v)' = {}
    BY <1>2, <1>3 DEF Threads
  <2> QED BY <1>0, <1>4, <2>1, <2>2, <2>3, ShutdownFrame
<1>8. SyncPending' /\ SyncCallerWaits' /\ QueuedOrOpen'
  <2>1. UNCHANGED <<syncTask, origin, acceptedBy>> /\ dispatched \subseteq dispatched'
    BY DEF NewThread
  <2>2. \A v \in Threads : \A x : x.op = "sync" => (x \in OpenCalls(v)' <=> x \in OpenCalls(v))
    BY <1>1, <1>3
  <2>3. \A v \in Threads : OpenCalls(v) \subseteq OpenCalls(v)'
    BY <1>3
  <2> QED BY <1>0, <1>4, <2>1, <2>2, <2>3, SyncFrame
<1>9. Accounted'
  BY <1>0, <1>3, <1>4, AccountedFrame DEF NewThread
<1>10. SleepsInCall'
  BY <1>0, <1>3 DEF SleepsInCall, NewThread
<1> QED BY <1>3, <1>4, <1>5, <1>6, <1>7, <1>8, <1>9, <1>10 DEF Inv

LEMMA ThreadStartPreserves ==
    ASSUME Inv, NEW u \in Background, ThreadStart(u)
    PROVE  Inv'
<1> DEFINE c == Call("loop", u)
<1>0. TypeOK /\ StackShape /\ ArgsOK /\ SleepsInCall /\ ShutdownProgress
      /\ QueuedOnce /\ OpenOnce /\ QueuedOrOpen /\ SyncPending /\ ContextAlive /\ SyncCallerWaits /\ Accounted
  BY DEF Inv
<1>c. c.op = "loop" /\ CallOK(c)
  BY CallFacts DEF CallOK
<1>u. u \in Threads /\ life[u] = "none" /\ ProgressOf(u)
  BY <1>0 DEF ShutdownProgress, ThreadStart, Threads
<1>p. /\ OpenCalls(u) = {} /\ mShutdownContext[u] = None /\ ~ HasShutdown(u) /\ ~ shutdownAck[u]
      /\ \A v \in Threads : Call("ack", u) \notin Queued(v)
  BY <1>u DEF ProgressOf
<1>3. /\ stack' \in [Threads -> Seq(CallType)] /\ StackShape' /\ OpenOnce'
      /\ OpenCalls(u)' = {c} /\ \A v \in Threads \ {u} : OpenCalls(v)' = OpenCalls(v)
  <2>1. stack' = [stack EXCEPT ![u] = <<c>>] /\ <<c>> # << >>
    BY DEF ThreadStart
  <2> QED BY <1>0, <1>u, <2>1, SetStackStep
<1> HIDE DEF c
<1>4. QueuedOnce' /\ \A v : Queued(v)' = Queued(v)
  BY <1>0, SameQueue DEF ThreadStart
<1>l. /\ life' \in [Threads -> {"none", "running", "ending", "exited", "joined"}]
      /\ life'[u] = "running" /\ \A v \in Threads \ {u} : life'[v] = life[v]
  BY <1>0, <1>u DEF ThreadStart, TypeOK
<1>r. /\ mShutdownRequired' \in [Threads -> BOOLEAN]
      /\ \A v \in Threads \ {u} : mShutdownRequired'[v] = mShutdownRequired[v]
  BY <1>0, <1>u DEF ThreadStart, TypeOK
<1>n. UNCHANGED <<asleep, queue, mShutdownContext, shutdownAck, syncTask, origin, dispatched,
                  ran, acceptedBy, late>>
  BY DEF ThreadStart
<1>5. TypeOK'
  BY <1>0, <1>u, <1>3, <1>l, <1>r DEF TypeOK, ThreadStart, CallType
<1>6. ArgsOK'
  <2>1. \A v \in Threads : \A x \in OpenCalls(v)' : x \in OpenCalls(v) \/ CallOK(x)
    BY <1>c, <1>3
  <2> QED BY <1>0, <1>4, <2>1, ArgsFrame
<1>h. \A v : HasShutdown(v)' <=> HasShutdown(v)
  BY <1>4 DEF HasShutdown
<1>7. ShutdownProgress'
  <2>1. ASSUME NEW w \in Background \ {u} PROVE ProgressOf(w)'
    <3>1. /\ ProgressOf(w) /\ w \in Threads /\ life'[w] = life[w]
          /\ mShutdownRequired'[w] = mShutdownRequired[w] /\ OpenCalls(w)' = OpenCalls(w)
      BY <1>0, <1>l, <1>r, <1>3 DEF ShutdownProgress, Threads
    <3> QED BY <1>4, <1>h, <1>n, <3>1 DEF ProgressOf
  <2>2. ProgressOf(u)'
    BY <1>4, <1>h, <1>n, <1>p, <1>l DEF ProgressOf
  <2>3. Main \in Threads \ {u}
    BY ThreadAssumption DEF ThreadAssumption, Threads
  <2> QED BY <1>0, <1>l, <1>r, <1>h, <1>n, <2>1, <2>2, <2>3 DEF ShutdownProgress
<1>8. ContextAlive'
  <2> SUFFICES ASSUME NEW v \in Threads, NEW w \in Background,
                      \/ Call("shutdown", v) \in Queued(w)'
                      \/ mShutdownContext'[w] = v /\ life'[w] \in {"running", "ending"}
                      \/ Call("ack", w) \in Queued(v)'
               PROVE  Call("join", w) \in OpenCalls(v)'
    BY DEF ContextAlive
  <2>1. w # u
    <3>1. mShutdownContext'[u] # v
      BY <1>p, <1>n, ThreadAssumption DEF ThreadAssumption
    <3>2. Call("shutdown", v) \notin Queued(u)
      BY <1>p, CallFacts DEF HasShutdown
    <3> QED BY <1>4, <1>p, <3>1, <3>2
  <2>2. Call("join", w) \in OpenCalls(v)
    BY <1>0, <1>4, <1>l, <1>n, <2>1 DEF ContextAlive, Threads
  <2> QED BY <1>p, <1>3, <2>2
<1>9. SyncPending' /\ SyncCallerWaits' /\ QueuedOrOpen'
  <2>1. dispatched \subseteq dispatched'
    BY <1>n
  <2>2. \A v \in Threads : \A x : x.op = "sync" => (x \in OpenCalls(v)' <=> x \in OpenCalls(v))
    BY <1>c, <1>p, <1>3
  <2>3. \A v \in Threads : OpenCalls(v) \subseteq OpenCalls(v)'
    BY <1>p, <1>3
  <2> QED BY <1>0, <1>4, <1>n, <2>1, <2>2, <2>3, SyncFrame
<1>10. Accounted'
  <2>1. \A v \in Threads : OpenCalls(v) \subseteq OpenCalls(v)'
    BY <1>p, <1>3
  <2>2. \A v \in Threads : life[v] = "running" => life'[v] = "running"
    BY <1>l
  <2> QED BY <1>0, <1>4, <1>n, <2>1, <2>2, AccountedFrame
<1>11. SleepsInCall'
  BY <1>0, <1>3, <1>n DEF SleepsInCall
<1> QED BY <1>3, <1>4, <1>5, <1>6, <1>7, <1>8, <1>9, <1>10, <1>11 DEF Inv

LEMMA LoopEndPreserves ==
    ASSUME Inv, NEW u \in Background, LoopEnd(u)
    PROVE  Inv'
<1>0. TypeOK /\ StackShape /\ ArgsOK /\ SleepsInCall /\ ShutdownProgress
      /\ QueuedOnce /\ OpenOnce /\ QueuedOrOpen /\ SyncPending /\ ContextAlive /\ SyncCallerWaits /\ Accounted
  BY DEF Inv
<1>u. u \in Threads /\ life[u] = "running" /\ ProgressOf(u) /\ queue[u] = << >> /\ ~ asleep[u]
  BY <1>0 DEF ShutdownProgress, LoopEnd, TopIs, Threads
<1>o. \A x \in OpenCalls(u) : x.op = "loop"
  BY <1>0, <1>u, InnermostIs DEF LoopEnd, TopIs
<1>q. Queued(u) = {}
  BY <1>u DEF Queued
<1>p. /\ mShutdownContext[u] # None /\ ~ mShutdownRequired[u] /\ ~ HasShutdown(u)
      /\ ~ shutdownAck[u] /\ \A v \in Threads : Call("ack", u) \notin Queued(v)
  BY <1>u, <1>q DEF ProgressOf, HasShutdown, LoopEnd, ShuttingDown
<1>3. /\ stack' \in [Threads -> Seq(CallType)] /\ StackShape' /\ OpenOnce'
      /\ OpenCalls(u)' = {} /\ \A v \in Threads \ {u} : OpenCalls(v)' = OpenCalls(v)
  <2>1. stack' = [stack EXCEPT ![u] = << >>]
    BY DEF LoopEnd
  <2> QED BY <1>0, <1>u, <2>1, SetStackStep
<1>4. QueuedOnce' /\ \A v : Queued(v)' = Queued(v)
  BY <1>0, SameQueue DEF LoopEnd
<1>l. /\ life' \in [Threads -> {"none", "running", "ending", "exited", "joined"}]
      /\ life'[u] = "ending" /\ \A v \in Threads \ {u} : life'[v] = life[v]
  BY <1>0, <1>u DEF LoopEnd, TypeOK
<1>n. UNCHANGED <<asleep, queue, mShutdownContext, mShutdownRequired, shutdownAck, syncTask,
                  origin, dispatched, ran, acceptedBy, late>>
  BY DEF LoopEnd
<1>5. TypeOK'
  BY <1>0, <1>3, <1>l DEF TypeOK, LoopEnd, CallType
<1>6. ArgsOK'
  <2>1. \A v \in Threads : \A x \in OpenCalls(v)' : x \in OpenCalls(v) \/ CallOK(x)
    BY <1>3
  <2> QED BY <1>0, <1>4, <2>1, ArgsFrame
<1>h. \A v : HasShutdown(v)' <=> HasShutdown(v)
  BY <1>4 DEF HasShutdown
<1>7. ShutdownProgress'
  <2>1. ASSUME NEW w \in Background \ {u} PROVE ProgressOf(w)'
    <3>1. /\ ProgressOf(w) /\ w \in Threads /\ life'[w] = life[w]
          /\ OpenCalls(w)' = OpenCalls(w)
      BY <1>0, <1>l, <1>3 DEF ShutdownProgress, Threads
    <3> QED BY <1>4, <1>h, <1>n, <3>1 DEF ProgressOf
  <2>2. ProgressOf(u)'
    BY <1>4, <1>h, <1>n, <1>p, <1>l, <1>3 DEF ProgressOf
  <2>3. Main \in Threads \ {u}
    BY ThreadAssumption DEF ThreadAssumption, Threads
  <2> QED BY <1>0, <1>l, <1>h, <1>n, <2>1, <2>2, <2>3 DEF ShutdownProgress
<1>8. ContextAlive'
  <2> SUFFICES ASSUME NEW v \in Threads, NEW w \in Background,
                      \/ Call("shutdown", v) \in Queued(w)'
                      \/ mShutdownContext'[w] = v /\ life'[w] \in {"running", "ending"}
                      \/ Call("ack", w) \in Queued(v)'
               PROVE  Call("join", w) \in OpenCalls(v)'
    BY DEF ContextAlive
  <2>1. Call("join", w) \in OpenCalls(v)
    BY <1>0, <1>4, <1>u, <1>l, <1>n DEF ContextAlive, Threads
  <2>2. v # u
    BY <1>o, <2>1, CallFacts
  <2> QED BY <1>3, <2>1, <2>2
<1>9. SyncPending' /\ SyncCallerWaits' /\ QueuedOrOpen'
  <2>1. dispatched \subseteq dispatched'
    BY <1>n
  <2>2. \A v \in Threads : \A x : x.op = "sync" => (x \in OpenCalls(v)' <=> x \in OpenCalls(v))
    BY <1>o, <1>3
  <2>3. \A v \in Threads, e \in syncTask :
          Call("syncwait", e) \in OpenCalls(v) => Call("syncwait", e) \in OpenCalls(v)'
    BY <1>o, <1>3, CallFacts
  <2> QED BY <1>0, <1>4, <1>n, <2>1, <2>2, <2>3, SyncFrame
<1>10. Accounted'
  <2>1. \A e \in Tasks : ~ Pending(e, u)
    BY <1>o, <1>q, CallFacts DEF Pending
  <2>2. \A e \in Tasks : \A v \in Threads \ {u} : Pending(e, v) => Pending(e, v)'
    BY <1>3, <1>4 DEF Pending
  <2>3. \A e \in Tasks : acceptedBy[e] # None => acceptedBy[e] \in Threads
    BY <1>0 DEF TypeOK
  <2> QED BY <1>0, <1>l, <1>n, <2>1, <2>2, <2>3 DEF Accounted
<1>11. SleepsInCall'
  BY <1>0, <1>3, <1>n, <1>u DEF SleepsInCall
<1> QED BY <1>3, <1>4, <1>5, <1>6, <1>7, <1>8, <1>9, <1>10, <1>11 DEF Inv
\* The thread ends and acknowledges.
LEMMA ThreadExitPreserves ==
    ASSUME Inv, NEW u \in Background, ThreadExit(u)
    PROVE  Inv'
<1> DEFINE c == Call("ack", u)
<1>0. TypeOK /\ StackShape /\ ArgsOK /\ SleepsInCall /\ ShutdownProgress
      /\ QueuedOnce /\ OpenOnce /\ QueuedOrOpen /\ SyncPending /\ ContextAlive /\ SyncCallerWaits /\ Accounted
  BY DEF Inv
<1>u. u \in Threads /\ life[u] = "ending" /\ ProgressOf(u)
  BY <1>0 DEF ShutdownProgress, ThreadExit, Threads
<1>p. /\ mShutdownContext[u] # None /\ ~ mShutdownRequired[u] /\ ~ HasShutdown(u)
      /\ ~ shutdownAck[u] /\ OpenCalls(u) = {}
      /\ \A v \in Threads : c \notin Queued(v)
  BY <1>u DEF ProgressOf
<1>o. PICK o \in Threads : o = mShutdownContext[u]
  BY <1>0, <1>u, <1>p DEF TypeOK
<1>c. c \in EventType /\ c.op = "ack" /\ EventOK(c) /\ c.arg = u
  BY <1>u, CallFacts DEF EventOK, EventOps
<1>1. PutUnchecked(o, c)
  BY <1>o DEF ThreadExit
<1>j. Call("join", u) \in OpenCalls(o)
  BY <1>0, <1>u, <1>o DEF ContextAlive
<1>this. Call("ack", u) = c
  OBVIOUS
<1> HIDE DEF c
<1>3. /\ queue' \in [Threads -> Seq(EventType)] /\ QueuedOnce'
      /\ Queued(o) \subseteq Queued(o)' /\ Queued(o)' \subseteq Queued(o) \cup {c}
      /\ failed' \in BOOLEAN
      /\ \A v \in Threads \ {o} : Queued(v)' = Queued(v)
  BY <1>0, <1>1, <1>c, <1>p, PutUncheckedStep
<1>4. StackShape' /\ OpenOnce' /\ \A v : OpenCalls(v)' = OpenCalls(v)
  BY <1>0, SameStack DEF ThreadExit
<1>l. /\ life' \in [Threads -> {"none", "running", "ending", "exited", "joined"}]
      /\ life'[u] = "exited" /\ \A v \in Threads \ {u} : life'[v] = life[v]
  BY <1>0, <1>u DEF ThreadExit, TypeOK
<1>n. UNCHANGED <<asleep, mShutdownContext, mShutdownRequired, shutdownAck, syncTask,
                  origin, dispatched, ran, acceptedBy, late>>
  BY DEF ThreadExit
<1>5. TypeOK'
  BY <1>0, <1>3, <1>l DEF TypeOK, ThreadExit, EventType
<1>6. ArgsOK'
  <2>1. \A v \in Threads : \A x \in Queued(v)' : x \in Queued(v) \/ EventOK(x)
    BY <1>c, <1>3
  <2> QED BY <1>0, <1>4, <2>1, ArgsFrame
<1>h. \A v \in Threads : HasShutdown(v)' <=> HasShutdown(v)
  BY <1>c, <1>3 DEF HasShutdown
<1>8. \A v \in Threads, w \in Background :
        /\ Call("ack", w) \in Queued(v)' => Call("ack", w) \in Queued(v) \/ (w = u /\ v = o)
        /\ Call("shutdown", v) \in Queued(w)' => Call("shutdown", v) \in Queued(w)
  <2>1. \A v \in Threads : \A x \in Queued(v)' : x \in Queued(v) \/ (v = o /\ x = c)
    BY <1>3
  <2>2. \A w : Call("shutdown", w) # c /\ (Call("ack", w) = c => w = u)
    BY <1>c, CallFacts
  <2> QED BY <2>1, <2>2 DEF Threads
<1>7. ShutdownProgress'
  <2>1. ASSUME NEW w \in Background \ {u} PROVE ProgressOf(w)'
    <3>1. ProgressOf(w) /\ w \in Threads /\ life'[w] = life[w]
      BY <1>0, <1>l DEF ShutdownProgress, Threads
    <3> QED BY <1>4, <1>h, <1>n, <1>8, <3>1 DEF ProgressOf
  <2>2. ProgressOf(u)'
    BY <1>4, <1>h, <1>n, <1>p, <1>l, <1>u DEF ProgressOf
  <2>3. Main \in Threads \ {u}
    BY ThreadAssumption DEF ThreadAssumption, Threads
  <2> QED BY <1>0, <1>l, <1>h, <1>n, <2>1, <2>2, <2>3 DEF ShutdownProgress
<1>9. ContextAlive'
  <2> SUFFICES ASSUME NEW v \in Threads, NEW w \in Background,
                      \/ Call("shutdown", v) \in Queued(w)'
                      \/ mShutdownContext'[w] = v /\ life'[w] \in {"running", "ending"}
                      \/ Call("ack", w) \in Queued(v)'
               PROVE  Call("join", w) \in OpenCalls(v)'
    BY DEF ContextAlive
  <2>1. CASE w = u /\ v = o
    BY <1>4, <1>j, <2>1
  <2>2. CASE ~ (w = u /\ v = o)
    BY <1>0, <1>4, <1>8, <1>u, <1>l, <1>n, <2>2 DEF ContextAlive, Threads
  <2> QED BY <2>1, <2>2
<1>10. SyncPending' /\ SyncCallerWaits' /\ QueuedOrOpen'
  <2>1. dispatched \subseteq dispatched'
    BY <1>n
  <2>2. \A v \in Threads : \A x : x.op = "sync" => (x \in Queued(v)' <=> x \in Queued(v))
    BY <1>c, <1>3
  <2> QED BY <1>0, <1>4, <1>n, <2>1, <2>2, SyncFrame
<1>11. Accounted'
  <2>1. \A v \in Threads : Queued(v) \subseteq Queued(v)'
    BY <1>3
  <2>2. \A v \in Threads : life[v] = "running" => life'[v] = "running"
    BY <1>u, <1>l
  <2> QED BY <1>0, <1>4, <1>n, <2>1, <2>2, AccountedFrame
<1>12. SleepsInCall'
  BY <1>0, <1>4, <1>n DEF SleepsInCall
<1> QED BY <1>3, <1>4, <1>5, <1>6, <1>7, <1>9, <1>10, <1>11, <1>12 DEF Inv

LEMMA ManagerShutdownPreserves == ASSUME Inv, ManagerShutdown PROVE Inv'
<1> DEFINE d == Call("manager", Main)
<1>0. TypeOK /\ StackShape /\ ArgsOK /\ SleepsInCall /\ ShutdownProgress
      /\ QueuedOnce /\ OpenOnce /\ QueuedOrOpen /\ SyncPending /\ ContextAlive /\ SyncCallerWaits /\ Accounted
  BY DEF Inv
<1>1. /\ Main \in Threads /\ stack[Main] # << >> /\ Len(stack[Main]) = 1
  <2>1. Main \in Threads
    BY DEF Threads
  <2> QED BY <1>0, <2>1, InnermostIs DEF ManagerShutdown, TopIs
<1>2. d \in CallType /\ d.op = "manager" /\ CallOK(d) /\ Push(Main, d)
  BY <1>1, CallFacts DEF CallOK, CallOps, ManagerShutdown
<1> HIDE DEF d
<1>3. /\ stack' \in [Threads -> Seq(CallType)] /\ StackShape' /\ OpenOnce'
      /\ OpenCalls(Main)' = OpenCalls(Main) \cup {d}
      /\ \A v \in Threads \ {Main} : OpenCalls(v)' = OpenCalls(v)
  BY <1>0, <1>1, <1>2, PushStep
<1>4. QueuedOnce' /\ \A v : Queued(v)' = Queued(v)
  BY <1>0, SameQueue DEF ManagerShutdown
<1>5. TypeOK'
  <2>1. manager' \in [pc : {"idle", "flush", "join", "done"}, threads : SUBSET Threads]
    BY <1>0 DEF ManagerShutdown, TypeOK
  <2> QED BY <1>0, <1>3, <2>1 DEF TypeOK, ManagerShutdown, CallType
<1>6. ArgsOK'
  <2>1. \A v \in Threads : \A x \in OpenCalls(v)' : x \in OpenCalls(v) \/ CallOK(x)
    BY <1>2, <1>3
  <2> QED BY <1>0, <1>4, <2>1, ArgsFrame
<1>7. ShutdownProgress' /\ ContextAlive'
  <2>1. UNCHANGED <<life, mShutdownContext, mShutdownRequired, shutdownAck>>
    BY DEF ManagerShutdown
  <2>2. \A v \in Threads : \A x : x.op = "join" /\ x \in OpenCalls(v) => x \in OpenCalls(v)'
    BY <1>3
  <2>3. \A v \in Background : OpenCalls(v) = {} => OpenCalls(v)' = {}
    BY <1>3, ThreadAssumption DEF ThreadAssumption, Threads
  <2> QED BY <1>0, <1>4, <2>1, <2>2, <2>3, ShutdownFrame
<1>8. SyncPending' /\ SyncCallerWaits' /\ QueuedOrOpen'
  <2>1. UNCHANGED <<syncTask, origin, acceptedBy>> /\ dispatched \subseteq dispatched'
    BY DEF ManagerShutdown
  <2>2. \A v \in Threads : \A x : x.op = "sync" => (x \in OpenCalls(v)' <=> x \in OpenCalls(v))
    BY <1>2, <1>3
  <2>3. \A v \in Threads : OpenCalls(v) \subseteq OpenCalls(v)'
    BY <1>3
  <2> QED BY <1>0, <1>4, <2>1, <2>2, <2>3, SyncFrame
<1>9. Accounted'
  BY <1>0, <1>3, <1>4, AccountedFrame DEF ManagerShutdown
<1>10. SleepsInCall'
  BY <1>0, <1>3 DEF SleepsInCall, ManagerShutdown
<1> QED BY <1>3, <1>4, <1>5, <1>6, <1>7, <1>8, <1>9, <1>10 DEF Inv

LEMMA ManagerDonePreserves == ASSUME Inv, ManagerDone PROVE Inv'
<1>0. TypeOK /\ StackShape /\ ArgsOK /\ SleepsInCall /\ ShutdownProgress
      /\ QueuedOnce /\ OpenOnce /\ QueuedOrOpen /\ SyncPending /\ ContextAlive /\ SyncCallerWaits /\ Accounted
  BY DEF Inv
<1>1. Main \in Threads
  BY DEF Threads
<1>2. ~ asleep[Main] /\ \A x \in OpenCalls(Main) : x.op \in {"loop", "manager"}
  BY <1>0, <1>1, InnermostIs DEF ManagerDone, TopIs
<1>3. /\ stack' \in [Threads -> Seq(CallType)] /\ StackShape' /\ OpenOnce'
      /\ OpenCalls(Main)' = {} /\ \A v \in Threads \ {Main} : OpenCalls(v)' = OpenCalls(v)
  <2>1. stack' = [stack EXCEPT ![Main] = << >>]
    BY DEF ManagerDone
  <2> QED BY <1>0, <1>1, <2>1, SetStackStep
<1>4. QueuedOnce' /\ \A v : Queued(v)' = Queued(v)
  BY <1>0, SameQueue DEF ManagerDone
<1>5. TypeOK'
  <2>1. manager' \in [pc : {"idle", "flush", "join", "done"}, threads : SUBSET Threads]
    BY <1>0 DEF ManagerDone, TypeOK
  <2> QED BY <1>0, <1>3, <2>1 DEF TypeOK, ManagerDone, CallType
<1>6. ArgsOK'
  <2>1. \A v \in Threads : \A x \in OpenCalls(v)' : x \in OpenCalls(v) \/ CallOK(x)
    BY <1>3
  <2> QED BY <1>0, <1>4, <2>1, ArgsFrame
<1>7. ShutdownProgress' /\ ContextAlive'
  <2>1. UNCHANGED <<life, mShutdownContext, mShutdownRequired, shutdownAck>>
    BY DEF ManagerDone
  <2>2. \A v \in Threads : \A x : x.op = "join" /\ x \in OpenCalls(v) => x \in OpenCalls(v)'
    BY <1>2, <1>3
  <2>3. \A v \in Background : OpenCalls(v) = {} => OpenCalls(v)' = {}
    BY <1>3 DEF Threads
  <2> QED BY <1>0, <1>4, <2>1, <2>2, <2>3, ShutdownFrame
<1>8. SyncPending' /\ SyncCallerWaits' /\ QueuedOrOpen'
  <2>1. UNCHANGED <<syncTask, origin, acceptedBy>> /\ dispatched \subseteq dispatched'
    BY DEF ManagerDone
  <2>2. \A v \in Threads : \A x : x.op = "sync" => (x \in OpenCalls(v)' <=> x \in OpenCalls(v))
    BY <1>2, <1>3
  <2>3. \A v \in Threads, e \in syncTask :
          Call("syncwait", e) \in OpenCalls(v) => Call("syncwait", e) \in OpenCalls(v)'
    BY <1>2, <1>3, CallFacts
  <2> QED BY <1>0, <1>4, <2>1, <2>2, <2>3, SyncFrame
<1>9. Accounted'
  BY <1>0, <1>2, <1>3, <1>4, AccountedFrame DEF ManagerDone
<1>10. SleepsInCall'
  BY <1>0, <1>2, <1>3 DEF SleepsInCall, ManagerDone
<1> QED BY <1>3, <1>4, <1>5, <1>6, <1>7, <1>8, <1>9, <1>10 DEF Inv

-----------------------------------------------------------------------------
LEMMA InitThreads == Init => Inv
<1> SUFFICES ASSUME Init PROVE Inv
  OBVIOUS
<1> USE DEF Init
<1> DEFINE c == Call("loop", Main)
<1>1. c \in CallType /\ c.op = "loop" /\ CallOK(c)
  BY CallFacts DEF CallOK, CallOps, Threads
<1> HIDE DEF c
<1>2. <<c>> \in Seq(CallType) /\ DOMAIN <<c>> = {1} /\ <<c>>[1] = c
  BY <1>1
<1>3. << >> \in Seq(CallType) /\ << >> \in Seq(EventType) /\ DOMAIN << >> = {}
  OBVIOUS
<1>4. \A t \in Threads : stack[t] = IF t = Main THEN <<c>> ELSE << >>
  BY DEF c
<1>5. stack \in [Threads -> Seq(CallType)] /\ queue \in [Threads -> Seq(EventType)]
  BY <1>2, <1>3 DEF c
<1>6. /\ Main \in Threads /\ OpenCalls(Main) = {c}
      /\ \A t \in Threads \ {Main} : OpenCalls(t) = {}
      /\ \A t \in Threads : Queued(t) = {}
  BY <1>2, <1>3, <1>4 DEF OpenCalls, Queued, Threads
<1>7. TypeOK
  BY <1>5, <1>6 DEF TypeOK, CallType, EventType
<1>8. StackShape /\ OpenOnce
  <2>1. \A t \in Threads : \A i \in DOMAIN stack[t] : i = 1 /\ stack[t][i].op = "loop" /\ t = Main
    BY <1>1, <1>2, <1>3, <1>4
  <2> QED BY <2>1 DEF StackShape, OpenOnce
<1>9. ArgsOK /\ SleepsInCall
  BY <1>1, <1>6 DEF ArgsOK, SleepsInCall
<1>10. ShutdownProgress
  <2>1. \A t \in Threads : ~ HasShutdown(t)
    BY <1>6 DEF HasShutdown
  <2>2. ASSUME NEW u \in Background PROVE ProgressOf(u)
    <3>1. u \in Threads \ {Main}
      BY ThreadAssumption DEF ThreadAssumption, Threads
    <3> QED BY <1>6, <2>1, <3>1 DEF ProgressOf
  <2> QED BY <1>6, <2>1, <2>2 DEF ShutdownProgress
<1>11. QueuedOnce /\ QueuedOrOpen /\ Accounted
  BY <1>3, <1>6 DEF QueuedOnce, QueuedOrOpen, Accounted
<1>12. SyncPending /\ SyncCallerWaits
  <2>1. \A e : Call("sync", e) # c
    BY <1>1, CallFacts
  <2> QED BY <1>6, <2>1 DEF SyncPending, SyncCallerWaits
<1>13. ContextAlive
  BY <1>6, ThreadAssumption DEF ContextAlive, ThreadAssumption, Threads
<1> QED BY <1>7, <1>8, <1>9, <1>10, <1>11, <1>12, <1>13 DEF Inv

LEMMA NextPreserves == Inv /\ [Next]_vars => Inv'
<1> SUFFICES ASSUME Inv, [Next]_vars PROVE Inv'
  OBVIOUS
<1>1. ASSUME NEW t \in Threads, Step(t) PROVE Inv'
  <2>1. CASE RunReturn(t)
    BY <2>1, TaskReturnPreserves, WrapperReturnPreserves
  <2> QED BY <1>1, <2>1, SleepPreserves, ProcessNextEventPreserves, DispatchSyncReturnPreserves,
             ShutdownReturnPreserves, InitReturnPreserves DEF Step
<1>2. ASSUME NEW u \in Background, BackgroundStep(u) PROVE Inv'
  BY <1>2, ThreadStartPreserves, LoopEndPreserves, ThreadExitPreserves DEF BackgroundStep
<1>3. CASE ManagerStep
  BY <1>3, ManagerGatherPreserves, ManagerJoinPreserves, ManagerDonePreserves DEF ManagerStep
<1>4. CASE UNCHANGED vars
  <2>1. /\ StackShape' /\ OpenOnce' /\ QueuedOnce'
        /\ \A v : OpenCalls(v)' = OpenCalls(v) /\ Queued(v)' = Queued(v)
    BY <1>4, SameStack, SameQueue DEF vars, Inv
  <2>2. TypeOK'
    BY <1>4 DEF TypeOK, vars, Inv
  <2>3. ArgsOK' /\ ShutdownProgress' /\ ContextAlive'
    BY <1>4, <2>1, ArgsFrame, ShutdownFrame DEF vars, Inv
  <2>4. SyncPending' /\ SyncCallerWaits' /\ QueuedOrOpen'
    BY <1>4, <2>1, SyncFrame DEF vars, Inv
  <2>5. Accounted' /\ SleepsInCall'
    BY <1>4, <2>1, AccountedFrame DEF SleepsInCall, vars, Inv
  <2> QED BY <2>1, <2>2, <2>3, <2>4, <2>5 DEF Inv
<1> QED BY <1>1, <1>2, <1>3, <1>4, DispatchPreserves, DispatchSyncPreserves, ShutdownPreserves,
           NewThreadPreserves, ManagerShutdownPreserves DEF Next

\* Whatever threads exist, whoever creates, joins and dispatches to whom and
\* however their loops nest: the state of every Shutdown and of every
\* synchronous Dispatch outlives whoever still refers to it.
THEOREM ThreadInvariant == SafetySpec => []ThreadInv
<1>1. Inv => ThreadInv
  BY DEF Inv, ThreadInv
<1> QED BY <1>1, InitThreads, NextPreserves, PTL DEF SafetySpec

\* nsIThread.idl:62-64: whatever a thread's queue took before the thread's
\* last look at it has been run once the thread ends, whoever dispatched it,
\* from under how many nested loops, and whatever else was lost on the way.
THEOREM AcceptedEventsRun == SafetySpec => []AcceptedAreRun
<1>1. Inv => AcceptedAreRun
  <2> SUFFICES ASSUME Inv, NEW e \in Tasks \ late, acceptedBy[e] \in Background,
                      life[acceptedBy[e]] # "running"
               PROVE  e \in ran
    BY DEF AcceptedAreRun
  <2>1. acceptedBy[e] # None
    BY ThreadAssumption DEF ThreadAssumption, Threads
  <2> QED BY <2>1 DEF Inv, Accounted
<1> QED BY <1>1, InitThreads, NextPreserves, PTL DEF SafetySpec
-----------------------------------------------------------------------------
(* The thread manager's Shutdown.                                          *)

\* A background thread that is still to end, and was asked to, is waited for;
\* who waits is another thread, and threads are created by those that do.
Alive(u) == life[u] \in {"running", "ending"}

\* Thread t is inside NewThread of u.
Inits(t, u) == \E c \in OpenCalls(t) : Initializes(c, u)

LEMMA InitializesIs ==
    ASSUME NEW c, NEW u, Initializes(c, u)
    PROVE  c.op \in {"init", "stuck"} /\ c.arg = u
BY DEF Initializes, Call

AskedIsJoined ==
    \A u \in Background :
        Alive(u) /\ ~ mShutdownRequired[u] => \E t \in Threads : Call("join", u) \in OpenCalls(t)

CallersOK ==
    \A t \in Threads, u \in Background :
        /\ Call("join", u) \in OpenCalls(t) => t \in Joiners \cup {Main} /\ t # u
        /\ Inits(t, u) => t \in Creators

\* What the thread manager's Shutdown relies on at each of its stages.
ManagerStages ==
    /\ mInitialized => manager.pc = "idle"
    /\ manager.pc # "idle" =>
         \A t \in Threads, u \in Background : ~ Inits(t, u)
    /\ manager.pc \in {"idle", "flush"} => \A u \in Background : Alive(u) => u \in registered
    /\ manager.pc = "join" =>
         \A u \in Background : Alive(u) /\ mShutdownRequired[u] => u \in manager.threads

\* No background thread is left, or on its way.
NoneLeft ==
    manager.pc = "done" =>
        \A u \in Background : life[u] \in {"none", "exited", "joined"}
                              /\ \A t \in Threads : ~ Inits(t, u)

JoinInv == AskedIsJoined /\ CallersOK /\ ManagerStages /\ NoneLeft

LEMMA InitJoins == Init /\ Inv => JoinInv
<1> SUFFICES ASSUME Init, Inv PROVE JoinInv
  OBVIOUS
<1>1. ASSUME NEW u \in Background
      PROVE  /\ u \in Threads /\ life[u] = "none"
             /\ \A t \in Threads : Call("join", u) \notin OpenCalls(t) /\ ~ Inits(t, u)
  <2>1. u \in Threads /\ life[u] = "none"
    BY ThreadAssumption DEF ThreadAssumption, Threads, Init
  <2>2. \A t \in Threads : \A i \in DOMAIN stack[t] : stack[t][i] = Call("loop", Main)
    BY DEF Init
  <2>3. Call("join", u) # Call("loop", Main) /\ ~ Initializes(Call("loop", Main), u)
    BY DEF Call, Initializes
  <2> QED BY <2>1, <2>2, <2>3 DEF OpenCalls, Inits
<1>2. manager.pc = "idle"
  BY DEF Init
<1> QED BY <1>1, <1>2 DEF JoinInv, AskedIsJoined, CallersOK, ManagerStages, Alive, NoneLeft

\* Steps that are no part of a shutdown and create no thread.
LEMMA JoinFrame ==
    ASSUME JoinInv,
           UNCHANGED <<life, mShutdownRequired, mInitialized, registered, manager>>,
           \A t \in Threads : \A c : c.op = "join" => (c \in OpenCalls(t)' <=> c \in OpenCalls(t)),
           \A t \in Threads : \A c : c.op \in {"init", "stuck"} => (c \in OpenCalls(t)' => c \in OpenCalls(t))
    PROVE  JoinInv'
<1>1. \A t \in Threads : \A u :
        /\ Call("join", u) \in OpenCalls(t)' <=> Call("join", u) \in OpenCalls(t)
        /\ Inits(t, u)' => Inits(t, u)
  BY CallFacts, InitializesIs DEF Inits
<1>2. \A u : Alive(u)' <=> Alive(u)
  BY DEF Alive
<1>3. AskedIsJoined'
  BY <1>1, <1>2 DEF JoinInv, AskedIsJoined
<1>4. CallersOK'
  BY <1>1 DEF JoinInv, CallersOK
<1>5. ManagerStages'
  BY <1>1, <1>2 DEF JoinInv, ManagerStages
<1>6. NoneLeft'
  BY <1>1 DEF JoinInv, NoneLeft
<1> QED BY <1>3, <1>4, <1>5, <1>6 DEF JoinInv

\* The open calls of a thread that pushes or pops one.
LEMMA PushedCalls ==
    ASSUME Inv, NEW t \in Threads, NEW c \in CallType, Push(t, c), stack[t] # << >>,
           c.op \notin {"loop", "manager"}
    PROVE  /\ OpenCalls(t)' = OpenCalls(t) \cup {c}
           /\ \A v \in Threads \ {t} : OpenCalls(v)' = OpenCalls(v)
BY PushStep DEF Inv

LEMMA ReturnedCalls ==
    ASSUME Inv, NEW t \in Threads, NEW op, Innermost(t, op), Return(t)
    PROVE  \E c \in OpenCalls(t) :
             /\ c = Top(t) /\ c.op = op /\ c = Call(op, c.arg)
             /\ OpenCalls(t) = OpenCalls(t)' \cup {c}
             /\ \A v \in Threads \ {t} : OpenCalls(v)' = OpenCalls(v)
<1>1. stack[t] # << >> /\ Top(t) \in OpenCalls(t) /\ Top(t) \in CallType /\ Top(t).op = op
  BY InnermostIs DEF Inv
<1>2. /\ OpenCalls(t) = OpenCalls(t)' \cup {Top(t)}
      /\ \A v \in Threads \ {t} : OpenCalls(v)' = OpenCalls(v)
  BY <1>1, ReturnStep DEF Inv
<1>3. Top(t) = Call(op, Top(t).arg)
  BY <1>1, EventIs
<1> QED BY <1>1, <1>2, <1>3

LEMMA DispatchJoins ==
    ASSUME Inv, JoinInv, NEW t \in Threads, NEW u \in Threads, NEW e \in Tasks,
           Dispatch(t, u, e) \/ DispatchSync(t, u, e)
    PROVE  JoinInv'
<1>1. UNCHANGED <<life, mShutdownRequired, mInitialized, registered, manager>>
  BY DEF Dispatch, DispatchSync
<1>2. CASE Dispatch(t, u, e)
  <2>1. \A v : OpenCalls(v)' = OpenCalls(v)
    BY <1>2, SameStack DEF Dispatch
  <2> QED BY <1>1, <2>1, JoinFrame
<1>3. CASE DispatchSync(t, u, e)
  <2> DEFINE c == Call("syncwait", e)
  <2>1. c \in CallType /\ c.op = "syncwait"
    BY CallFacts DEF CallOps
  <2>2. Push(t, c) /\ stack[t] # << >>
    BY <1>3, UserCode DEF DispatchSync
  <2> HIDE DEF c
  <2>3. /\ OpenCalls(t)' = OpenCalls(t) \cup {c}
        /\ \A v \in Threads \ {t} : OpenCalls(v)' = OpenCalls(v)
    BY <2>1, <2>2, PushedCalls
  <2> QED BY <1>1, <2>1, <2>3, JoinFrame
<1> QED BY <1>2, <1>3

LEMMA StepJoins ==
    ASSUME Inv, JoinInv, NEW t \in Threads, Step(t)
    PROVE  JoinInv'
<1>1. CASE Sleep(t)
  <2>1. \A v : OpenCalls(v)' = OpenCalls(v)
    BY <1>1, SameStack DEF Sleep
  <2> QED BY <1>1, <2>1, JoinFrame DEF Sleep
<1>2. CASE ProcessNextEvent(t)
  <2>1. \A v \in Threads :
          /\ \A x \in OpenCalls(v)' : x \in OpenCalls(v) \/ x.op \in {"task", "sync"}
          /\ OpenCalls(v) \subseteq OpenCalls(v)'
    <3>1. CASE Push(t, Head(queue[t])) /\ Head(queue[t]).op \in {"task", "sync"}
      <4>1. PICK h \in EventType : h = Head(queue[t])
        <5>1. queue[t] \in Seq(EventType) /\ queue[t] # << >>
          BY <1>2, Types DEF Inv, ProcessNextEvent
        <5> QED BY <5>1, TailElems
      <4>2. h \in CallType /\ Push(t, h) /\ h.op \in {"task", "sync"}
        BY <3>1, <4>1 DEF EventType, CallType, CallOps
      <4>3. stack[t] # << >>
        <5>1. CASE asleep[t]
          <6>1. OpenCalls(t) # {}
            BY <5>1 DEF Inv, SleepsInCall
          <6>2. DOMAIN stack[t] # {}
            BY <6>1 DEF OpenCalls
          <6> QED BY <6>2
        <5>2. CASE WantsEvent(t)
          BY <5>2, InnermostIs DEF WantsEvent, TopIs, Inv
        <5> QED BY <1>2, <5>1, <5>2 DEF ProcessNextEvent
      <4>4. /\ OpenCalls(t)' = OpenCalls(t) \cup {h}
            /\ \A v \in Threads \ {t} : OpenCalls(v)' = OpenCalls(v)
        BY <4>2, <4>3, PushedCalls
      <4> QED BY <4>2, <4>4
    <3>2. CASE UNCHANGED stack
      BY <3>2, SameStack
    <3> QED BY <1>2, <3>1, <3>2 DEF ProcessNextEvent
  <2> QED BY <1>2, <2>1, JoinFrame DEF ProcessNextEvent
<1>3. CASE RunReturn(t) \/ DispatchSyncReturn(t) \/ InitReturn(t)
  <2>1. UNCHANGED <<life, mShutdownRequired, mInitialized, registered, manager>>
    BY <1>3 DEF RunReturn, DispatchSyncReturn, InitReturn
  <2>2. PICK op \in {"task", "sync", "syncwait", "init"} : Innermost(t, op) /\ Return(t)
    BY <1>3 DEF RunReturn, DispatchSyncReturn, InitReturn, TopIs
  <2>3. PICK c : /\ c.op = op /\ OpenCalls(t) = OpenCalls(t)' \cup {c}
                 /\ \A v \in Threads \ {t} : OpenCalls(v)' = OpenCalls(v)
    BY <2>2, ReturnedCalls
  <2> QED BY <2>1, <2>3, JoinFrame
<1>4. CASE ShutdownReturn(t)
  <2>1. PICK c \in OpenCalls(t) :
          /\ c = Top(t) /\ c.op = "join" /\ c = Call("join", c.arg)
          /\ OpenCalls(t) = OpenCalls(t)' \cup {c}
          /\ \A v \in Threads \ {t} : OpenCalls(v)' = OpenCalls(v)
    BY <1>4, ReturnedCalls DEF ShutdownReturn, TopIs
  <2>2. PICK u \in Background : u = c.arg
    BY <2>1 DEF Inv, ArgsOK, CallOK
  <2>3. /\ u \in Threads /\ life[u] # "none"
        /\ life' = [life EXCEPT ![u] = "joined"] /\ life'[u] = "joined"
        /\ \A v \in Threads \ {u} : life'[v] = life[v]
    BY <1>4, <2>1, <2>2
       DEF ShutdownReturn, Inv, TypeOK, ShutdownProgress, ProgressOf, Threads
  <2>4. UNCHANGED <<mShutdownRequired, mInitialized, registered, manager>>
    BY <1>4 DEF ShutdownReturn
  <2>5. \A v \in Threads, w \in Background :
          /\ Call("join", w) \in OpenCalls(v)' => Call("join", w) \in OpenCalls(v)
          /\ w # u /\ Call("join", w) \in OpenCalls(v) => Call("join", w) \in OpenCalls(v)'
          /\ Inits(v, w)' => Inits(v, w)
    BY <2>1, <2>2, CallFacts, InitializesIs DEF Inits
  <2>6. \A w \in Background : Alive(w)' => Alive(w) /\ w # u
    BY <2>3 DEF Alive, Threads
  <2>7. AskedIsJoined'
    BY <2>4, <2>5, <2>6 DEF JoinInv, AskedIsJoined
  <2>8. CallersOK'
    BY <2>5 DEF JoinInv, CallersOK
  <2>9. ManagerStages'
    BY <2>4, <2>5, <2>6 DEF JoinInv, ManagerStages
  <2>10. NoneLeft'
    BY <2>3, <2>4, <2>5 DEF JoinInv, Threads, NoneLeft
  <2> QED BY <2>7, <2>8, <2>9, <2>10 DEF JoinInv
<1> QED BY <1>1, <1>2, <1>3, <1>4 DEF Step

\* The call of Shutdown past its early returns.
LEMMA BeginShutdownJoins ==
    ASSUME Inv, JoinInv, NEW t \in Joiners \cup {Main}, NEW u \in Threads, stack[t] # << >>,
           BeginShutdown(t, u), UNCHANGED <<life, mInitialized, registered>>,
           manager'.pc = manager.pc, manager.threads \ {u} \subseteq manager'.threads
    PROVE  JoinInv'
<1> DEFINE d == Call("join", u)
<1>1. u \in Background /\ u # t /\ t \in Threads
  BY ThreadAssumption DEF ThreadAssumption, BeginShutdown, Inv, ShutdownProgress, Threads
<1>2. d \in CallType /\ d.op = "join" /\ Push(t, d)
  BY CallFacts DEF CallOps, BeginShutdown
<1>this. Call("join", u) = d
  OBVIOUS
<1> HIDE DEF d
<1>3. /\ OpenCalls(t)' = OpenCalls(t) \cup {d}
      /\ \A v \in Threads \ {t} : OpenCalls(v)' = OpenCalls(v)
  BY <1>1, <1>2, PushedCalls
<1>4. \A v \in Threads, w \in Background :
        /\ Call("join", w) \in OpenCalls(v)' =>
             Call("join", w) \in OpenCalls(v) \/ (v = t /\ w = u)
        /\ Call("join", w) \in OpenCalls(v) => Call("join", w) \in OpenCalls(v)'
        /\ Inits(v, w)' => Inits(v, w)
  BY <1>1, <1>2, <1>3, <1>this, CallFacts, InitializesIs DEF Inits
<1>5. Call("join", u) \in OpenCalls(t)'
  BY <1>3, <1>this
<1>6. /\ ~ mShutdownRequired'[u]
      /\ \A v \in Threads \ {u} : mShutdownRequired'[v] = mShutdownRequired[v]
  BY DEF BeginShutdown, Inv, TypeOK
<1>7. \A w \in Background : Alive(w)' <=> Alive(w)
  BY DEF Alive
<1>8. AskedIsJoined'
  BY <1>1, <1>4, <1>5, <1>6, <1>7 DEF JoinInv, AskedIsJoined, Threads
<1>9. CallersOK'
  BY <1>1, <1>4 DEF JoinInv, CallersOK
<1>10. ManagerStages'
  BY <1>4, <1>6, <1>7 DEF JoinInv, ManagerStages, Threads
<1>11. NoneLeft'
  BY <1>4 DEF JoinInv, NoneLeft
<1> QED BY <1>8, <1>9, <1>10, <1>11 DEF JoinInv

LEMMA NewThreadJoins ==
    ASSUME Inv, JoinInv, NEW t \in Threads, NEW u \in Background, NewThread(t, u)
    PROVE  JoinInv'
<1>d. PICK d \in {Call("init", u), Call("stuck", u)} : Push(t, d)
  BY DEF NewThread
<1>1. d \in CallType /\ d.op \in {"init", "stuck"}
  BY CallFacts DEF CallOps, Threads
<1>2. stack[t] # << >> /\ t \in Creators /\ mInitialized
  BY UserCode DEF NewThread
<1>3. UNCHANGED <<life, mShutdownRequired, mInitialized, registered, manager>>
  BY DEF NewThread
<1>4. /\ OpenCalls(t)' = OpenCalls(t) \cup {d}
      /\ \A v \in Threads \ {t} : OpenCalls(v)' = OpenCalls(v)
  BY <1>d, <1>1, <1>2, PushedCalls
<1>5. \A v \in Threads, w \in Background :
        /\ Call("join", w) \in OpenCalls(v)' <=> Call("join", w) \in OpenCalls(v)
        /\ Inits(v, w)' => Inits(v, w) \/ v = t
  BY <1>1, <1>4, CallFacts, InitializesIs DEF Inits
<1>6. manager.pc = "idle"
  BY <1>2 DEF JoinInv, ManagerStages
<1>7. \A w \in Background : Alive(w)' <=> Alive(w)
  BY <1>3 DEF Alive
<1>8. AskedIsJoined'
  BY <1>3, <1>5, <1>7 DEF JoinInv, AskedIsJoined
<1>9. CallersOK'
  BY <1>2, <1>5 DEF JoinInv, CallersOK
<1>10. ManagerStages' /\ NoneLeft'
  BY <1>3, <1>6, <1>7 DEF JoinInv, ManagerStages, NoneLeft
<1> QED BY <1>8, <1>9, <1>10 DEF JoinInv

LEMMA BackgroundJoins ==
    ASSUME Inv, JoinInv, NEW u \in Background, BackgroundStep(u)
    PROVE  JoinInv'
<1>u. u \in Threads
  BY DEF Threads
<1>1. CASE ThreadStart(u)
  <2>1. PICK t \in Threads : Inits(t, u)
    <3>1. PICK t \in Threads : stack[t] # << >> /\ Initializes(Top(t), u)
      BY <1>1 DEF ThreadStart
    <3>2. Innermost(t, Top(t).op)
      BY <3>1 DEF Innermost
    <3>3. Top(t) \in OpenCalls(t)
      BY <3>2, InnermostIs DEF Inv
    <3> QED BY <3>1, <3>3 DEF Inits
  <2>2. manager.pc = "idle"
    BY <2>1 DEF JoinInv, ManagerStages
  <2>3. OpenCalls(u) = {} /\ life[u] = "none"
    BY <1>1 DEF ThreadStart, Inv, ShutdownProgress, ProgressOf
  <2>4. /\ OpenCalls(u)' = {Call("loop", u)}
        /\ \A v \in Threads \ {u} : OpenCalls(v)' = OpenCalls(v)
    <3>1. stack' = [stack EXCEPT ![u] = <<Call("loop", u)>>] /\ <<Call("loop", u)>> # << >>
      BY <1>1 DEF ThreadStart
    <3> QED BY <1>u, <3>1, SetStackStep DEF Inv
  <2>5. \A v \in Threads, w \in Background :
          /\ Call("join", w) \in OpenCalls(v)' <=> Call("join", w) \in OpenCalls(v)
          /\ Inits(v, w)' => Inits(v, w)
    BY <2>3, <2>4, CallFacts, InitializesIs DEF Inits
  <2>6. /\ mShutdownRequired'[u] /\ u \in registered' /\ registered \subseteq registered'
        /\ \A v \in Threads \ {u} : /\ mShutdownRequired'[v] = mShutdownRequired[v]
                                    /\ life'[v] = life[v]
        /\ manager' = manager
    BY <1>1, <1>u DEF ThreadStart, Inv, TypeOK
  <2>7. \A w \in Background \ {u} : w \in Threads /\ (Alive(w)' <=> Alive(w))
    BY <2>6 DEF Alive, Threads
  <2>8. AskedIsJoined'
    BY <2>5, <2>6, <2>7 DEF JoinInv, AskedIsJoined, Threads
  <2>9. CallersOK'
    BY <2>5 DEF JoinInv, CallersOK
  <2>10. ManagerStages' /\ NoneLeft'
    BY <2>2, <2>6, <2>7 DEF JoinInv, ManagerStages, NoneLeft
  <2> QED BY <2>8, <2>9, <2>10 DEF JoinInv
<1>2. CASE LoopEnd(u)
  <2>1. \A x \in OpenCalls(u) : x.op = "loop"
    BY <1>2, <1>u, InnermostIs DEF LoopEnd, TopIs, Inv
  <2>2. /\ OpenCalls(u)' = {} /\ \A v \in Threads \ {u} : OpenCalls(v)' = OpenCalls(v)
    <3>1. stack' = [stack EXCEPT ![u] = << >>]
      BY <1>2 DEF LoopEnd
    <3> QED BY <1>u, <3>1, SetStackStep DEF Inv
  <2>3. \A v \in Threads, w \in Background :
          /\ Call("join", w) \in OpenCalls(v)' <=> Call("join", w) \in OpenCalls(v)
          /\ Inits(v, w)' => Inits(v, w)
    BY <2>1, <2>2, CallFacts, InitializesIs DEF Inits
  <2>4. UNCHANGED <<mShutdownRequired, mInitialized, registered, manager>>
    BY <1>2 DEF LoopEnd
  <2>5. life[u] = "running" /\ life'[u] = "ending" /\ \A v \in Threads \ {u} : life'[v] = life[v]
    BY <1>2, <1>u DEF LoopEnd, Inv, TypeOK
  <2>6. \A w \in Background : Alive(w)' <=> Alive(w)
    BY <2>5 DEF Alive, Threads
  <2>7. AskedIsJoined'
    BY <2>3, <2>4, <2>6 DEF JoinInv, AskedIsJoined
  <2>8. CallersOK'
    BY <2>3 DEF JoinInv, CallersOK
  <2>9. ManagerStages'
    BY <2>3, <2>4, <2>6 DEF JoinInv, ManagerStages
  <2>10. NoneLeft'
    BY <2>3, <2>4, <2>5 DEF JoinInv, Threads, NoneLeft
  <2> QED BY <2>7, <2>8, <2>9, <2>10 DEF JoinInv
<1>3. CASE ThreadExit(u)
  <2>1. \A v : OpenCalls(v)' = OpenCalls(v)
    BY <1>3, SameStack DEF ThreadExit
  <2>2. UNCHANGED <<mShutdownRequired, mInitialized, manager>> /\ registered' = registered \ {u}
    BY <1>3 DEF ThreadExit
  <2>3. life[u] = "ending" /\ life'[u] = "exited" /\ \A v \in Threads \ {u} : life'[v] = life[v]
    BY <1>3, <1>u DEF ThreadExit, Inv, TypeOK
  <2>4. \A w \in Background : Alive(w)' => Alive(w) /\ w # u
    BY <2>3 DEF Alive, Threads
  <2>5. AskedIsJoined'
    BY <2>1, <2>2, <2>4 DEF JoinInv, AskedIsJoined
  <2>6. CallersOK'
    BY <2>1 DEF JoinInv, CallersOK, Inits
  <2>7. ManagerStages'
    BY <2>1, <2>2, <2>4 DEF JoinInv, ManagerStages, Inits
  <2>8. NoneLeft'
    BY <2>1, <2>2, <2>3 DEF JoinInv, Threads, NoneLeft
  <2> QED BY <2>5, <2>6, <2>7, <2>8 DEF JoinInv
<1> QED BY <1>1, <1>2, <1>3 DEF BackgroundStep
LEMMA ManagerJoins ==
    ASSUME Inv, JoinInv, Creators \subseteq {Main},
           NEW J \in Background, Joiners \subseteq {Main, J},
           ManagerShutdown \/ ManagerStep
    PROVE  JoinInv'
<1>m. Main \in Threads
  BY DEF Threads
<1>i. \A t \in Threads \ {Main}, u \in Background : ~ Inits(t, u)
  BY DEF JoinInv, CallersOK
<1>1. CASE ManagerShutdown
  <2> DEFINE d == Call("manager", Main)
  <2>1. /\ stack[Main] # << >> /\ Len(stack[Main]) = 1
        /\ \A x \in OpenCalls(Main) : x.op = "loop"
    BY <1>1, <1>m, InnermostIs DEF ManagerShutdown, TopIs, Inv
  <2>2. d \in CallType /\ d.op = "manager" /\ Push(Main, d)
    BY <1>1, <1>m, CallFacts DEF CallOps, ManagerShutdown
  <2> HIDE DEF d
  <2>3. /\ OpenCalls(Main)' = OpenCalls(Main) \cup {d}
        /\ \A v \in Threads \ {Main} : OpenCalls(v)' = OpenCalls(v)
    BY <1>m, <2>1, <2>2, PushStep DEF Inv
  <2>4. \A v \in Threads, w \in Background :
          /\ Call("join", w) \in OpenCalls(v)' <=> Call("join", w) \in OpenCalls(v)
          /\ ~ Inits(v, w)'
    BY <1>i, <2>1, <2>2, <2>3, CallFacts, InitializesIs DEF Inits
  <2>5. /\ UNCHANGED <<life, mShutdownRequired, registered>>
        /\ ~ mInitialized' /\ manager.pc = "idle" /\ manager'.pc = "flush"
    BY <1>1 DEF ManagerShutdown, Inv, TypeOK
  <2>6. \A w \in Background : Alive(w)' <=> Alive(w)
    BY <2>5 DEF Alive
  <2>7. AskedIsJoined' /\ CallersOK'
    BY <2>4, <2>5, <2>6 DEF JoinInv, AskedIsJoined, CallersOK
  <2>8. ManagerStages' /\ NoneLeft'
    BY <2>4, <2>5, <2>6 DEF JoinInv, ManagerStages, NoneLeft
  <2> QED BY <2>7, <2>8 DEF JoinInv
<1>2. CASE ManagerGather
  <2>1. \A v : OpenCalls(v)' = OpenCalls(v)
    BY <1>2, SameStack DEF ManagerGather
  <2>2. /\ UNCHANGED <<life, mShutdownRequired, mInitialized>>
        /\ manager.pc = "flush" /\ manager'.pc = "join" /\ manager'.threads = registered
    BY <1>2 DEF ManagerGather
  <2>3. \A w \in Background : Alive(w)' <=> Alive(w)
    BY <2>2 DEF Alive
  <2>4. AskedIsJoined' /\ CallersOK'
    BY <2>1, <2>2, <2>3 DEF JoinInv, AskedIsJoined, CallersOK, Inits
  <2>5. ManagerStages' /\ NoneLeft'
    BY <2>1, <2>2, <2>3 DEF JoinInv, ManagerStages, NoneLeft, Inits
  <2> QED BY <2>4, <2>5 DEF JoinInv
<1>3. ASSUME NEW u \in Threads, ManagerJoin(u) PROVE JoinInv'
  <2>1. /\ UNCHANGED <<life, mInitialized, registered>> /\ manager.pc = "join"
        /\ manager'.pc = "join" /\ manager'.threads = manager.threads \ {u}
    BY <1>3 DEF ManagerJoin, Inv, TypeOK
  <2>2. stack[Main] # << >>
    BY <1>3, <1>m, InnermostIs DEF ManagerJoin, TopIs, Inv
  <2>3. CASE BeginShutdown(Main, u)
    BY <2>1, <2>2, <2>3, BeginShutdownJoins
  <2>4. CASE ~ mShutdownRequired[u] /\ UNCHANGED <<mShutdownRequired, queue, stack>>
    <3>1. \A v : OpenCalls(v)' = OpenCalls(v)
      BY <2>4, SameStack
    <3>2. \A w \in Background : Alive(w)' <=> Alive(w)
      BY <2>1 DEF Alive
    <3>3. AskedIsJoined' /\ CallersOK'
      BY <2>4, <3>1, <3>2 DEF JoinInv, AskedIsJoined, CallersOK, Inits
    <3>4. ManagerStages' /\ NoneLeft'
      BY <2>1, <2>4, <3>1, <3>2 DEF JoinInv, ManagerStages, NoneLeft, Inits
    <3> QED BY <3>3, <3>4 DEF JoinInv
  <2> QED BY <1>3, <2>3, <2>4 DEF ManagerJoin
<1>4. CASE ManagerDone
  <2>1. \A x \in OpenCalls(Main) : x.op \in {"loop", "manager"}
    BY <1>4, <1>m, InnermostIs DEF ManagerDone, TopIs, Inv
  <2>2. /\ OpenCalls(Main)' = {} /\ \A v \in Threads \ {Main} : OpenCalls(v)' = OpenCalls(v)
    <3>1. stack' = [stack EXCEPT ![Main] = << >>]
      BY <1>4 DEF ManagerDone
    <3> QED BY <1>m, <3>1, SetStackStep DEF Inv
  <2>3. \A v \in Threads, w \in Background :
          /\ Call("join", w) \in OpenCalls(v)' <=> Call("join", w) \in OpenCalls(v)
          /\ Inits(v, w)' => Inits(v, w)
    BY <2>1, <2>2, CallFacts, InitializesIs DEF Inits
  <2>4. /\ UNCHANGED <<life, mShutdownRequired, mInitialized>>
        /\ manager.pc = "join" /\ manager.threads = {} /\ manager'.pc = "done"
    BY <1>4 DEF ManagerDone
  <2>5. \A w \in Background : Alive(w)' <=> Alive(w)
    BY <2>4 DEF Alive
  <2>6. \A w \in Background : Alive(w) =>
          \E t \in {J} : t # w /\ Call("join", w) \in OpenCalls(t)
    <3> SUFFICES ASSUME NEW w \in Background, Alive(w)
                 PROVE  J # w /\ Call("join", w) \in OpenCalls(J)
      OBVIOUS
    <3>1. ~ mShutdownRequired[w]
      BY <2>4 DEF JoinInv, ManagerStages
    <3>2. PICK t \in Threads : Call("join", w) \in OpenCalls(t)
      BY <3>1 DEF JoinInv, AskedIsJoined
    <3>3. t \in {Main, J} /\ t # w
      BY <3>2 DEF JoinInv, CallersOK
    <3>4. t # Main
      BY <2>1, <3>2, CallFacts
    <3> QED BY <3>2, <3>3, <3>4
  <2>7. \A w \in Background : ~ Alive(w)
    <3> SUFFICES ASSUME NEW w \in Background, Alive(w) PROVE FALSE
      OBVIOUS
    <3>1. Call("join", w) \in OpenCalls(J)
      BY <2>6
    <3>2. Alive(J)
      BY <3>1 DEF Inv, ShutdownProgress, ProgressOf, Alive
    <3> QED BY <2>6, <3>2
  <2>8. AskedIsJoined' /\ CallersOK'
    BY <2>3, <2>4, <2>5 DEF JoinInv, AskedIsJoined, CallersOK
  <2>9. \A v \in Threads, w \in Background : ~ Inits(v, w)'
    BY <2>3, <2>4 DEF JoinInv, ManagerStages
  <2>10. ManagerStages'
    BY <2>4, <2>9 DEF JoinInv, ManagerStages
  <2>11. NoneLeft'
    <3>1. \A w \in Background : life[w] \in {"none", "exited", "joined"}
      BY <2>7 DEF Inv, TypeOK, Alive, Threads
    <3> QED BY <2>4, <2>9, <3>1 DEF NoneLeft
  <2> QED BY <2>8, <2>10, <2>11 DEF JoinInv
<1> QED BY <1>1, <1>2, <1>3, <1>4 DEF ManagerStep

\* nsThreadManager.cpp:150, "There are no more background threads at this
\* point": it holds where the main thread creates the threads and, besides
\* it, at most one thread calls Shutdown.  (A thread that is inside NewThread
\* when the table is emptied escapes, and two threads that join each other
\* are skipped by both.)
THEOREM ManagerLeavesNone ==
    ASSUME Creators \subseteq {Main}, NEW J \in Background, Joiners \subseteq {Main, J}
    PROVE  SafetySpec => []NoBackgroundThreads
<1>1. Inv /\ JoinInv /\ [Next]_vars => JoinInv'
  <2> SUFFICES ASSUME Inv, JoinInv, [Next]_vars PROVE JoinInv'
    OBVIOUS
  <2>1. ASSUME NEW t \in Threads, NEW u \in Background, Shutdown(t, u) PROVE JoinInv'
    <3>1. /\ t \in Joiners \cup {Main} /\ u \in Threads /\ stack[t] # << >>
          /\ BeginShutdown(t, u) /\ UNCHANGED <<life, mInitialized, registered, manager>>
      BY <2>1, UserCode DEF Shutdown, Threads
    <3> QED BY <3>1, BeginShutdownJoins
  <2>2. CASE UNCHANGED vars
    <3>1. \A v : OpenCalls(v)' = OpenCalls(v)
      BY <2>2, SameStack DEF vars
    <3> QED BY <2>2, <3>1, JoinFrame DEF vars
  <2> QED BY <2>1, <2>2, DispatchJoins, StepJoins, NewThreadJoins, BackgroundJoins, ManagerJoins
          DEF Next
<1>2. JoinInv => NoBackgroundThreads
  BY DEF JoinInv, NoneLeft, NoBackgroundThreads, Inits
<1> QED BY <1>1, <1>2, InitThreads, InitJoins, NextPreserves, PTL DEF SafetySpec
=============================================================================
