------------------------------ MODULE EventQueue ------------------------------
(***************************************************************************)
(* nsEventQueue (xpcom/threads/nsEventQueue.{h,cpp}): the deque of pending *)
(* events behind every nsThread and every nsThreadPool.  Events live in    *)
(* fixed-size pages chained through mNext; mHead/mOffsetHead is the next   *)
(* slot to read, mTail/mOffsetTail the next slot to write.  Every method   *)
(* runs inside one monitor, so one action is one monitor hold: a GetEvent  *)
(* that sleeps is two actions, the one that enters mon.Wait() and the one  *)
(* that runs after it.                                                     *)
(*                                                                         *)
(* Pages is the heap: calloc may return any page that is not allocated, or *)
(* none.  A page that is freed and handed out again models the reuse of an *)
(* address.                                                                *)
(***************************************************************************)
EXTENDS Naturals, Sequences, FiniteSets

CONSTANTS Events,           \* nsIRunnable objects that get dispatched
          Consumers,        \* threads that call GetEvent
          Pages,            \* addresses calloc can return
          NoPage,           \* nsnull as a Page*
          NoEvent,          \* nsnull as an nsIRunnable*: a calloc'ed slot
          EVENTS_PER_PAGE,  \* 250 in the code
          MaxStored         \* bound on the number of accepted PutEvents

ASSUME QueueAssumption ==
    /\ EVENTS_PER_PAGE \in Nat \ {0}
    /\ MaxStored \in Nat
    /\ NoPage \notin Pages
    /\ NoEvent \notin Events

VARIABLES mHead, mTail, mOffsetHead, mOffsetTail,
          mNext,      \* mNext[p]: the link of page p
          mEvents,    \* mEvents[p][i]: slot i of page p
          allocated,  \* pages calloc'ed and not yet freed
          pc,         \* where each consumer is in GetEvent
          stored,     \* history: events accepted by PutEvent
          taken,      \* history: events returned by GetEvent
          first       \* history: how many events precede slot 0 of a page

pageVars == <<mHead, mTail, mOffsetHead, mOffsetTail, mNext, mEvents,
              allocated, first>>
vars == <<mHead, mTail, mOffsetHead, mOffsetTail, mNext, mEvents, allocated,
          pc, stored, taken, first>>

waitingConsumers == {c \in Consumers : pc[c] = "waiting"}

Slots == 0 .. EVENTS_PER_PAGE - 1

Init ==
    /\ mHead = NoPage
    /\ mTail = NoPage
    /\ mOffsetHead = 0
    /\ mOffsetTail = 0
    /\ mNext = [p \in Pages |-> NoPage]
    /\ mEvents = [p \in Pages |-> [i \in Slots |-> NoEvent]]
    /\ allocated = {}
    /\ pc = [c \in Consumers |-> "out"]
    /\ stored = << >>
    /\ taken = << >>
    /\ first = [p \in Pages |-> 0]

\* Mutation: compares offsets of different pages.
IsEmptyByOffsets == mHead = NoPage \/ mOffsetHead = mOffsetTail

IsEmpty == mHead = NoPage \/ (mHead = mTail /\ mOffsetHead = mOffsetTail)

(***************************************************************************)
(* PutEvent.  NewPage returns a zeroed page; the event goes into slot i of *)
(* page p, which is mTail after any new page was linked.                   *)
(***************************************************************************)
NewPage(p) ==
    /\ p \in Pages \ allocated
    /\ allocated' = allocated \cup {p}
    /\ first' = [first EXCEPT ![p] = Len(stored)]

\* Mutations: PR_Notify instead of PR_NotifyAll, and no notification at all.
NotifyOne ==
    \/ waitingConsumers = {} /\ UNCHANGED pc
    \/ \E c \in waitingConsumers : pc' = [pc EXCEPT ![c] = "awake"]

NotifyNone == UNCHANGED pc

\* mon.NotifyAll(): every thread inside mon.Wait() may run again.
NotifyAll ==
    pc' = [c \in Consumers |-> IF pc[c] = "waiting" THEN "awake" ELSE pc[c]]

ZeroedPage == [i \in Slots |-> NoEvent]

\* The page list is empty: the new page is head and tail.
PutInFirstPage(e, p) ==
    /\ mHead = NoPage
    /\ NewPage(p)
    /\ mHead' = p
    /\ mTail' = p
    /\ mOffsetHead' = 0
    /\ mOffsetTail' = 1
    /\ mNext' = [mNext EXCEPT ![p] = NoPage]
    /\ mEvents' = [mEvents EXCEPT ![p] = [ZeroedPage EXCEPT ![0] = e]]

\* Mutation: mTail moves on but the full page is not linked to the new one.
PutInNextPageUnlinked(e, p) ==
    /\ mHead # NoPage
    /\ mOffsetTail = EVENTS_PER_PAGE
    /\ NewPage(p)
    /\ mTail' = p
    /\ mOffsetTail' = 1
    /\ mNext' = [mNext EXCEPT ![p] = NoPage]
    /\ mEvents' = [mEvents EXCEPT ![p] = [ZeroedPage EXCEPT ![0] = e]]
    /\ UNCHANGED <<mHead, mOffsetHead>>

\* The tail page is full: the new page is linked behind it.
PutInNextPage(e, p) ==
    /\ mHead # NoPage
    /\ mOffsetTail = EVENTS_PER_PAGE
    /\ NewPage(p)
    /\ mTail' = p
    /\ mOffsetTail' = 1
    /\ mNext' = [mNext EXCEPT ![p] = NoPage, ![mTail] = p]
    /\ mEvents' = [mEvents EXCEPT ![p] = [ZeroedPage EXCEPT ![0] = e]]
    /\ UNCHANGED <<mHead, mOffsetHead>>

PutInTailPage(e) ==
    /\ mHead # NoPage
    /\ mOffsetTail # EVENTS_PER_PAGE
    /\ mEvents' = [mEvents EXCEPT ![mTail][mOffsetTail] = e]
    /\ mOffsetTail' = mOffsetTail + 1
    /\ UNCHANGED <<mHead, mTail, mOffsetHead, mNext, allocated, first>>

\* A calloc that fails makes PutEvent return PR_FALSE with nothing changed.
PutEvent(e) ==
    /\ Len(stored) < MaxStored
    /\ \/ \E p \in Pages : PutInFirstPage(e, p) \/ PutInNextPage(e, p)
       \/ PutInTailPage(e)
    /\ stored' = Append(stored, e)
    /\ NotifyAll
    /\ UNCHANGED taken

(***************************************************************************)
(* GetEvent.  RemoveHead is the part after the while loop; FreeHead gives  *)
(* the page back when its last slot was read.                              *)
(***************************************************************************)
\* Mutation: the drained page is not freed.
KeepHead ==
    /\ mHead' = mNext[mHead]
    /\ mOffsetHead' = 0
    /\ UNCHANGED allocated

FreeHead ==
    /\ mHead' = mNext[mHead]
    /\ allocated' = allocated \ {mHead}
    /\ mOffsetHead' = 0

RemoveHead ==
    /\ taken' = Append(taken, mEvents[mHead][mOffsetHead])
    /\ IF mOffsetHead + 1 = EVENTS_PER_PAGE
       THEN FreeHead
       ELSE /\ mOffsetHead' = mOffsetHead + 1
            /\ UNCHANGED <<mHead, allocated>>
    /\ UNCHANGED <<mTail, mOffsetTail, mNext, mEvents, first, stored>>

\* GetPendingEvent: GetEvent(PR_FALSE, &e).  On an empty queue it returns
\* PR_FALSE and changes nothing.
GetPendingEvent(c) ==
    /\ pc[c] = "out"
    /\ ~ IsEmpty
    /\ RemoveHead
    /\ UNCHANGED pc

\* WaitPendingEvent: GetEvent(PR_TRUE, &e), one turn of the while loop, for
\* a thread that enters it or that mon.Wait() let go.
WaitPendingEvent(c) ==
    /\ pc[c] \in {"out", "awake"}
    /\ \/ /\ ~ IsEmpty
          /\ RemoveHead
          /\ pc' = [pc EXCEPT ![c] = "out"]
       \/ /\ IsEmpty
          /\ pc' = [pc EXCEPT ![c] = "waiting"]
          /\ UNCHANGED <<pageVars, stored, taken>>

Next ==
    \/ \E e \in Events : PutEvent(e)
    \/ \E c \in Consumers : GetPendingEvent(c) \/ WaitPendingEvent(c)

\* A consumer is an nsThread or pool thread: its loop asks for the next
\* event again and again, and the monitor lets a notified thread back in.
Fairness == \A c \in Consumers : WF_vars(WaitPendingEvent(c))

SafetySpec == Init /\ [][Next]_vars

Spec == SafetySpec /\ Fairness
-----------------------------------------------------------------------------
FIFO == INSTANCE EventFIFO WITH waiting <- waitingConsumers

\* Refinement: the paged deque behaves as one first-in first-out sequence
\* (GetEvent returns PutEvent's events in order, none lost at a page
\* boundary, none returned twice or from a reused page), sleeps only when
\* empty, and under the consumers' fairness keeps handing events out.
ImplementsFIFO == FIFO!FifoSpec

\* The safety half of ImplementsFIFO.
ImplementsFIFOSafety == FIFO!FifoSafety

TypeOK ==
    /\ mHead \in Pages \cup {NoPage}
    /\ mTail \in Pages \cup {NoPage}
    /\ mOffsetHead \in Slots
    /\ mOffsetTail \in 0 .. EVENTS_PER_PAGE
    /\ mNext \in [Pages -> Pages \cup {NoPage}]
    /\ mEvents \in [Pages -> [Slots -> Events \cup {NoEvent}]]
    /\ allocated \in SUBSET Pages
    /\ pc \in [Consumers -> {"out", "waiting", "awake"}]
    /\ stored \in Seq(Events)
    /\ taken \in Seq(Events)
    /\ first \in [Pages -> Nat]

\* The events GetEvent returned are a prefix of those PutEvent accepted.
TakenIsPrefix ==
    /\ Len(taken) <= Len(stored)
    /\ \A i \in 1 .. Len(taken) : taken[i] = stored[i]

\* The chain of pages: what GetEvent and PutEvent dereference is allocated
\* memory, links go from one page to the page with the following events, and
\* no two pages hold the same positions.
ChainOK ==
    /\ mHead = NoPage => allocated = {}
    /\ mHead # NoPage =>
         /\ mHead \in allocated
         /\ mTail \in allocated
         /\ mNext[mTail] = NoPage
         /\ mOffsetTail > 0
         /\ \A p \in allocated :
              /\ first[mHead] <= first[p]
              /\ first[p] <= first[mTail]
              /\ p # mTail => /\ mNext[p] \in allocated
                              /\ first[mNext[p]] = first[p] + EVENTS_PER_PAGE
         /\ \A p, q \in allocated :
              p # q => \/ first[p] + EVENTS_PER_PAGE <= first[q]
                       \/ first[q] + EVENTS_PER_PAGE <= first[p]

\* The offsets agree with the history and every pending event is in its slot.
ContentsOK ==
    /\ mHead = NoPage => Len(taken) = Len(stored)
    /\ mHead # NoPage =>
         /\ Len(taken) = first[mHead] + mOffsetHead
         /\ Len(stored) = first[mTail] + mOffsetTail
         /\ \A p \in allocated, i \in Slots :
              (Len(taken) <= first[p] + i /\ first[p] + i < Len(stored))
                 => mEvents[p][i] = stored[first[p] + i + 1]

\* No lost wakeup: a consumer is asleep in GetEvent only while the queue is
\* empty (the NotifyAll in PutEvent reaches every sleeper).
SleepersSeeEmpty ==
    waitingConsumers # {} => Len(taken) = Len(stored)

\* The inductive invariant of the module.
QueueInv == TypeOK /\ TakenIsPrefix /\ ChainOK /\ ContentsOK /\ SleepersSeeEmpty

\* A set of pages that has mHead and, with a page, the one it links to.
ClosedUnderLinks(S) ==
    /\ mHead \in S \cup {NoPage}
    /\ \A p \in S : mNext[p] \in S \cup {NoPage}

\* The pages GetEvent can still come to: the least set closed under links.
Reachable == {p \in Pages : \A S \in SUBSET Pages : ClosedUnderLinks(S) => p \in S}

\* No page leaks and none is used after free: the allocated pages are
\* exactly those GetEvent can still reach from mHead.
NoPageLeak == allocated = Reachable
==============================================================================
