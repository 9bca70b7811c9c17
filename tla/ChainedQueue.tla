----------------------------- MODULE ChainedQueue -----------------------------
(***************************************************************************)
(* nsThread's chain of event queues: PushEventQueue, PopEventQueue, and    *)
(* nsChainedEventQueue::PutEvent, which offers an event to the filter of   *)
(* the youngest queue first and passes a rejected one on to the elder.     *)
(* A put fails when nsEventQueue finds no memory for a page: the caller of *)
(* PutEvent is told, PopEventQueue does not look.                          *)
(* mLock makes PutEvent and PopEventQueue atomic towards each other; only  *)
(* the thread itself pushes, pops and takes events.                        *)
(***************************************************************************)
EXTENDS Naturals, Sequences, SequencesExt

CONSTANTS Runnables,  \* each is dispatched at most once
          Filters,    \* sets of events: what AcceptEvent accepts
          MaxPushes,  \* bound on the number of PushEventQueue calls
          MayFail     \* whether the allocation of a page may fail

ASSUME ChainAssumption ==
    /\ Filters \subseteq SUBSET Runnables
    /\ MaxPushes \in Nat
    /\ MayFail \in BOOLEAN

VARIABLES chain,      \* the queues, mEventsRoot first, mEvents last
          pushes,     \* number of PushEventQueue calls so far
          born,       \* history: the queues there were when an event came
          dispatched, \* history: events PutEvent accepted
          processed,  \* history: events GetEvent took, oldest first
          lost        \* history: events PopEventQueue found no memory for

chainVars == <<chain, pushes, born, dispatched, processed, lost>>

\* A queue remembers which PushEventQueue made it; a null filter accepts all.
Queue(id, filter) == [id |-> id, filter |-> filter, events |-> << >>]

ChainInit ==
    /\ chain = <<Queue(0, Runnables)>>
    /\ pushes = 0
    /\ born = [e \in Runnables |-> {}]
    /\ dispatched = {}
    /\ processed = << >>
    /\ lost = {}

Youngest == Len(chain)

\* nsChainedEventQueue::PutEvent on the last queue of chain c: the youngest
\* queue whose filter accepts e.  The root has no filter.
Accepts(c, i, e) == i = 1 \/ e \in c[i].filter

PutInto(c, e) ==
    LET i == CHOOSE j \in 1 .. Len(c) :
               /\ Accepts(c, j, e)
               /\ \A k \in j + 1 .. Len(c) : ~ Accepts(c, k, e)
    IN  [c EXCEPT ![i].events = Append(@, e)]

\* An event that cannot be put stays with the caller, who may try again.
ThreadPutEvent(e) ==
    /\ e \notin dispatched
    /\ \/ /\ chain' = PutInto(chain, e)
          /\ born' = [born EXCEPT ![e] = {chain[i].id : i \in DOMAIN chain}]
          /\ dispatched' = dispatched \cup {e}
       \/ /\ MayFail
          /\ UNCHANGED <<chain, born, dispatched>>
    /\ UNCHANGED <<pushes, processed, lost>>

PushEventQueue(filter) ==
    /\ pushes < MaxPushes
    /\ chain' = Append(chain, Queue(pushes + 1, filter))
    /\ pushes' = pushes + 1
    /\ UNCHANGED <<born, dispatched, processed, lost>>

\* The loop of PopEventQueue: the events of a popped queue are put into the
\* elder queues c, one by one and through the filters, but for those whose put
\* fails (any of them: which one needs a new page depends on the elder queues).
PutAll(c, left, failing) ==
    LET put[n \in 0 .. Len(left)] ==
            IF n = 0 THEN c
            ELSE IF left[n] \in failing THEN put[n - 1]
            ELSE PutInto(put[n - 1], left[n])
    IN  put[Len(left)]

\* Mutation: events left in the popped queue are thrown away.
PopEventQueueDropping ==
    /\ Youngest > 1
    /\ chain' = Front(chain)
    /\ UNCHANGED <<pushes, born, dispatched, processed, lost>>

\* Mutation: the root queue can be popped too.
PopEventQueueAny ==
    /\ chain' = PutAll(Front(chain), chain[Youngest].events, {})
    /\ UNCHANGED <<pushes, born, dispatched, processed, lost>>

\* mEventsRoot stays; what is left in the popped queue goes to the elder ones.
\* The result of each put is ignored, so an event whose put fails is gone.
PopEventQueue ==
    /\ Youngest > 1
    /\ \E failing \in SUBSET ToSet(chain[Youngest].events) :
         /\ failing = {} \/ MayFail
         /\ chain' = PutAll(Front(chain), chain[Youngest].events, failing)
         /\ lost' = lost \cup failing
    /\ UNCHANGED <<pushes, born, dispatched, processed>>

\* Mutation: an empty nested queue falls back to its elder.
GetEventFromElder ==
    /\ \E i \in DOMAIN chain :
         /\ chain[i].events # << >>
         /\ \A k \in i + 1 .. Youngest : chain[k].events = << >>
         /\ processed' = Append(processed, Head(chain[i].events))
         /\ chain' = [chain EXCEPT ![i].events = Tail(@)]
    /\ UNCHANGED <<pushes, born, dispatched, lost>>

\* ProcessNextEvent takes from mEvents, the youngest queue, only.
GetEvent ==
    /\ chain[Youngest].events # << >>
    /\ processed' = Append(processed, Head(chain[Youngest].events))
    /\ chain' = [chain EXCEPT ![Youngest].events = Tail(@)]
    /\ UNCHANGED <<pushes, born, dispatched, lost>>

ChainNext ==
    \/ \E e \in Runnables : ThreadPutEvent(e)
    \/ \E f \in Filters : PushEventQueue(f)
    \/ PopEventQueue
    \/ GetEvent

\* Each PushEventQueue is paired with a PopEventQueue, and the thread keeps
\* processing what it can.
ChainFairness == WF_chainVars(PopEventQueue) /\ WF_chainVars(GetEvent)

ChainSafetySpec == ChainInit /\ [][ChainNext]_chainVars

ChainSpec == ChainSafetySpec /\ ChainFairness
-----------------------------------------------------------------------------
Ids == {chain[i].id : i \in DOMAIN chain}

ChainTypeOK ==
    /\ chain \in Seq([id : 0 .. MaxPushes, filter : SUBSET Runnables,
                      events : Seq(Runnables)])
    /\ Youngest >= 1
    /\ pushes \in 0 .. MaxPushes
    /\ born \in [Runnables -> SUBSET (0 .. MaxPushes)]
    /\ dispatched \in SUBSET Runnables
    /\ processed \in Seq(Runnables)
    /\ lost \in SUBSET Runnables

\* The lists an event may be in: those processed, and each queue.
EventsAt(i) == IF i = 0 THEN processed ELSE chain[i].events

\* Pushing and popping neither duplicate an event nor lose one but for want of
\* memory: every accepted event was processed once, or waits once, in one
\* queue, or was dropped by PopEventQueue when its put failed.
EveryEventOnce ==
    /\ lost \cup UNION {ToSet(EventsAt(i)) : i \in 0 .. Youngest} = dispatched
    /\ \A i \in 0 .. Youngest : IsInjective(EventsAt(i)) /\ ToSet(EventsAt(i)) \cap lost = {}
    /\ \A i, j \in 0 .. Youngest : i # j => ToSet(EventsAt(i)) \cap ToSet(EventsAt(j)) = {}
    /\ MayFail \/ lost = {}

\* An event waits in a queue only if that queue, and all the elder ones, were
\* there when it was dispatched.
NoneAhead ==
    \A i \in 1 .. Youngest : \A e \in ToSet(chain[i].events) :
        \A k \in 1 .. i : chain[k].id \in born[e]

\* The chain accounts for every event, whatever the filters.
ChainInv == ChainTypeOK /\ EveryEventOnce /\ NoneAhead

\* nsIThreadInternal.idl: PushEventQueue suppresses the events enqueued
\* before it until PopEventQueue: an event is processed only in queues that
\* were there when it was dispatched.
SuppressedUntilPop ==
    [][\A e \in Runnables :
         (processed' # processed /\ Last(processed') = e) => Ids \subseteq born[e]]_chainVars

\* No accepted event stays suppressed for ever: it is processed in the end,
\* unless PopEventQueue found no memory for it.
EventuallyProcessed ==
    \A e \in Runnables : e \in dispatched ~> e \in ToSet(processed) \cup lost
==============================================================================
