--------------------------- MODULE EventQueueProofs ---------------------------
(***************************************************************************)
(* For every page size, heap, set of threads and number of events:         *)
(* QueueInv is an invariant of EventQueue, no page leaks, and EventQueue   *)
(* implements the safety part of EventFIFO.  For every set of filters:     *)
(* the chain of queues of an nsThread accounts for every event, and holds  *)
(* events back while a younger queue is pushed.                            *)
(***************************************************************************)
EXTENDS EventQueue, ChainedQueue, ListFacts, TLAPS

\* On the invariant, nsEventQueue::IsEmpty answers the question it is asked:
\* it is true exactly when every stored event was taken.
LEMMA EmptyIffAllTaken == QueueInv => (IsEmpty <=> Len(taken) = Len(stored))
<1> SUFFICES ASSUME QueueInv PROVE IsEmpty <=> Len(taken) = Len(stored)
  OBVIOUS
<1> USE QueueAssumption DEF QueueInv, TypeOK, Slots
<1>1. CASE mHead = NoPage
  BY <1>1 DEF IsEmpty, ContentsOK
<1>2. CASE mHead # NoPage /\ mHead = mTail
  BY <1>2 DEF IsEmpty, ContentsOK
<1>3. CASE mHead # NoPage /\ mHead # mTail
  <2>1. first[mHead] + EVENTS_PER_PAGE <= first[mTail]
    BY <1>3 DEF ChainOK
  <2>2. mOffsetTail > 0 /\ first[mHead] \in Nat /\ first[mTail] \in Nat
    BY <1>3 DEF ChainOK
  <2>3. Len(taken) = first[mHead] + mOffsetHead
        /\ Len(stored) = first[mTail] + mOffsetTail
    BY <1>3 DEF ContentsOK
  <2> QED BY <1>3, <2>1, <2>2, <2>3 DEF IsEmpty
<1> QED BY <1>1, <1>2, <1>3

\* The slot GetEvent reads holds the oldest event not yet taken.
LEMMA HeadSlot ==
    QueueInv /\ ~ IsEmpty
      => /\ mHead \in allocated
         /\ Len(taken) < Len(stored)
         /\ mEvents[mHead][mOffsetHead] = stored[Len(taken) + 1]
<1> SUFFICES ASSUME QueueInv, ~ IsEmpty
             PROVE  /\ mHead \in allocated
                    /\ Len(taken) < Len(stored)
                    /\ mEvents[mHead][mOffsetHead] = stored[Len(taken) + 1]
  OBVIOUS
<1> USE QueueAssumption DEF QueueInv, TypeOK, Slots
<1>1. mHead # NoPage
  BY DEF IsEmpty
<1>2. mHead \in allocated
  BY <1>1 DEF ChainOK
<1>3. Len(taken) < Len(stored)
  BY EmptyIffAllTaken DEF TakenIsPrefix
<1>4. Len(taken) = first[mHead] + mOffsetHead /\ first[mHead] \in Nat
  BY <1>1, <1>2 DEF ContentsOK
<1>5. mEvents[mHead][mOffsetHead] = stored[first[mHead] + mOffsetHead + 1]
  <2>1. \A p \in allocated, i \in Slots :
           (Len(taken) <= first[p] + i /\ first[p] + i < Len(stored))
              => mEvents[p][i] = stored[first[p] + i + 1]
    BY <1>1 DEF ContentsOK
  <2>2. mOffsetHead \in Slots
    OBVIOUS
  <2>3. Len(taken) <= first[mHead] + mOffsetHead
        /\ first[mHead] + mOffsetHead < Len(stored)
    BY <1>3, <1>4
  <2> HIDE DEF QueueInv, TypeOK, Slots
  <2> QED BY <1>2, <2>1, <2>2, <2>3
<1> QED BY <1>2, <1>3, <1>4, <1>5

\* The empty queue satisfies the invariant.
LEMMA InitInv == Init => QueueInv
BY QueueAssumption
   DEF Init, QueueInv, TypeOK, TakenIsPrefix, ChainOK, ContentsOK,
       SleepersSeeEmpty, waitingConsumers, Slots

\* Appending e: lengths and elements, as the provers need them.
LEMMA AppendFacts ==
    ASSUME NEW S, NEW s \in Seq(S), NEW e \in S
    PROVE  /\ Append(s, e) \in Seq(S)
           /\ Len(Append(s, e)) = Len(s) + 1
           /\ \A i \in 1 .. Len(s) : Append(s, e)[i] = s[i]
           /\ Append(s, e)[Len(s) + 1] = e
           /\ Len(s) \in Nat
OBVIOUS

\* GetEvent's removal, page switch included, keeps the deque well formed.
LEMMA RemovePreserves ==
    ASSUME QueueInv, ~ IsEmpty, RemoveHead
    PROVE  /\ TakenIsPrefix' /\ ChainOK' /\ ContentsOK'
           /\ taken' \in Seq(Events) /\ mHead' \in Pages \cup {NoPage}
           /\ mOffsetHead' \in Slots /\ allocated' \in SUBSET Pages
<1> USE QueueAssumption
<1>0. /\ mHead \in allocated
      /\ Len(taken) < Len(stored)
      /\ mEvents[mHead][mOffsetHead] = stored[Len(taken) + 1]
  BY HeadSlot
<1>a. TypeOK
  BY DEF QueueInv
<1>b. mHead # NoPage
  BY DEF IsEmpty
<1>c. stored[Len(taken) + 1] \in Events /\ Len(stored) \in Nat /\ Len(taken) \in Nat
  BY <1>0, <1>a DEF TypeOK
<1>d. /\ taken' = Append(taken, stored[Len(taken) + 1])
      /\ UNCHANGED <<mTail, mOffsetTail, mNext, mEvents, first, stored>>
  BY <1>0 DEF RemoveHead
<1>e. /\ taken' \in Seq(Events)
      /\ Len(taken') = Len(taken) + 1
      /\ \A i \in 1 .. Len(taken) : taken'[i] = taken[i]
      /\ taken'[Len(taken) + 1] = stored[Len(taken) + 1]
  BY <1>a, <1>c, <1>d, AppendFacts DEF TypeOK
<1>1. TakenIsPrefix'
  <2>1. TakenIsPrefix
    BY DEF QueueInv
  <2>2. Len(taken') <= Len(stored')
    BY <1>0, <1>c, <1>d, <1>e
  <2>3. ASSUME NEW i \in 1 .. Len(taken') PROVE taken'[i] = stored'[i]
    <3>1. CASE i \in 1 .. Len(taken)
      BY <1>d, <1>e, <2>1, <3>1 DEF TakenIsPrefix
    <3>2. CASE i = Len(taken) + 1
      BY <1>d, <1>e, <3>2
    <3> QED BY <1>c, <1>e, <3>1, <3>2
  <2> QED BY <2>2, <2>3 DEF TakenIsPrefix
<1>f. /\ ChainOK
      /\ Len(taken) = first[mHead] + mOffsetHead
      /\ Len(stored) = first[mTail] + mOffsetTail
      /\ \A p \in allocated, i \in Slots :
           (Len(taken) <= first[p] + i /\ first[p] + i < Len(stored))
              => mEvents[p][i] = stored[first[p] + i + 1]
  BY <1>b DEF QueueInv, ContentsOK
<1>g. mOffsetHead \in Slots /\ allocated \in SUBSET Pages /\ first \in [Pages -> Nat]
      /\ mOffsetTail \in 0 .. EVENTS_PER_PAGE /\ mHead \in Pages /\ mTail \in Pages
      /\ mNext \in [Pages -> Pages \cup {NoPage}]
  BY <1>a, <1>b, <1>0, <1>f DEF TypeOK, ChainOK
<1>2. CASE mOffsetHead + 1 # EVENTS_PER_PAGE
  <2>1. mHead' = mHead /\ allocated' = allocated /\ mOffsetHead' = mOffsetHead + 1
    BY <1>2 DEF RemoveHead
  <2>2. mOffsetHead' \in Slots
    BY <1>2, <1>g, <2>1 DEF Slots
  <2>3. ChainOK'
    BY <1>d, <1>f, <2>1 DEF ChainOK
  <2>4. ContentsOK'
    <3>1. Len(taken') = first'[mHead'] + mOffsetHead'
          /\ Len(stored') = first'[mTail'] + mOffsetTail'
      BY <1>d, <1>e, <1>f, <1>g, <2>1 DEF Slots
    <3>2. ASSUME NEW p \in allocated', NEW i \in Slots,
                 Len(taken') <= first'[p] + i, first'[p] + i < Len(stored')
          PROVE  mEvents'[p][i] = stored'[first'[p] + i + 1]
      <4>1. p \in Pages /\ first[p] \in Nat /\ i \in Nat
        BY <1>g, <2>1 DEF Slots
      <4>2. Len(taken) <= first[p] + i /\ first[p] + i < Len(stored)
        BY <1>c, <1>d, <1>e, <3>2, <4>1
      <4> QED BY <1>d, <1>f, <2>1, <4>2
    <3> QED BY <1>b, <2>1, <3>1, <3>2 DEF ContentsOK
  <2> QED BY <1>1, <1>e, <1>g, <2>1, <2>2, <2>3, <2>4
<1>3. CASE mOffsetHead + 1 = EVENTS_PER_PAGE
  <2>1. mHead' = mNext[mHead] /\ allocated' = allocated \ {mHead} /\ mOffsetHead' = 0
    BY <1>3 DEF RemoveHead, FreeHead
  <2>2. mOffsetHead' \in Slots /\ mHead' \in Pages \cup {NoPage}
        /\ allocated' \in SUBSET Pages
    BY <1>g, <2>1 DEF Slots
  <2>3. CASE mHead = mTail
    <3>1. mHead' = NoPage
      BY <1>b, <1>f, <2>1, <2>3 DEF ChainOK
    <3>2. ASSUME NEW p \in allocated, p # mHead PROVE FALSE
      <4>1. first[p] = first[mHead]
        BY <1>b, <1>f, <1>g, <2>3, <3>2 DEF ChainOK
      <4> QED BY <1>0, <1>b, <1>f, <1>g, <3>2, <4>1 DEF ChainOK
    <3>3. allocated' = {}
      BY <2>1, <3>2
    <3>4. Len(taken') = Len(stored')
      BY <1>0, <1>3, <1>d, <1>e, <1>f, <1>g, <2>3 DEF Slots
    <3> QED BY <1>1, <1>e, <2>2, <3>1, <3>3, <3>4 DEF ChainOK, ContentsOK
  <2>4. CASE mHead # mTail
    <3>1. /\ mHead' \in allocated
          /\ first[mHead'] = first[mHead] + EVENTS_PER_PAGE
      BY <1>0, <1>b, <1>f, <2>1, <2>4 DEF ChainOK
    <3>2. mHead' # mHead /\ mHead' # NoPage
      BY <1>g, <3>1
    <3>3. ChainOK'
      <4>1. mHead' \in allocated' /\ mTail' \in allocated' /\ mNext'[mTail'] = NoPage
            /\ mOffsetTail' > 0
        BY <1>b, <1>d, <1>f, <2>1, <2>4, <3>1, <3>2 DEF ChainOK
      <4>2. ASSUME NEW p \in allocated'
            PROVE  /\ first'[mHead'] <= first'[p]
                   /\ first'[p] <= first'[mTail']
                   /\ p # mTail' => /\ mNext'[p] \in allocated'
                                    /\ first'[mNext'[p]] = first'[p] + EVENTS_PER_PAGE
        <5>1. p \in allocated /\ p # mHead /\ first[p] \in Nat /\ first[mHead] \in Nat
          BY <1>g, <2>1
        <5>2. first[mHead] <= first[p] /\ first[p] <= first[mTail]
          BY <1>b, <1>f, <5>1 DEF ChainOK
        <5>3. first[mHead] + EVENTS_PER_PAGE <= first[p]
          BY <1>0, <1>b, <1>f, <5>1, <5>2 DEF ChainOK
        <5>4. ASSUME p # mTail
              PROVE  mNext[p] \in allocated
                     /\ first[mNext[p]] = first[p] + EVENTS_PER_PAGE
          BY <1>b, <1>f, <5>1, <5>4 DEF ChainOK
        <5>5. p # mTail => mNext[p] # mHead
          BY <5>1, <5>2, <5>4
        <5> QED BY <1>d, <2>1, <3>1, <5>2, <5>3, <5>4, <5>5
      <4>3. \A p, q \in allocated' :
              p # q => \/ first'[p] + EVENTS_PER_PAGE <= first'[q]
                       \/ first'[q] + EVENTS_PER_PAGE <= first'[p]
        BY <1>b, <1>d, <1>f, <2>1 DEF ChainOK
      <4> QED BY <3>2, <4>1, <4>2, <4>3 DEF ChainOK
    <3>4. ContentsOK'
      <4>1. Len(taken') = first'[mHead'] + mOffsetHead'
            /\ Len(stored') = first'[mTail'] + mOffsetTail'
        <5>1. first[mHead] \in Nat /\ mOffsetHead \in Nat
              /\ Len(taken) = first[mHead] + mOffsetHead
          BY <1>f, <1>g DEF Slots
        <5>2. Len(taken') = first[mHead] + EVENTS_PER_PAGE
          <6>1. Len(taken') = Len(taken) + 1
            BY <1>e
          <6>2. Len(taken') = (first[mHead] + mOffsetHead) + 1
            BY <5>1, <6>1
          <6> QED BY <1>3, <5>1, <6>2
        <5>3. first'[mHead'] = first[mHead] + EVENTS_PER_PAGE /\ mOffsetHead' = 0
          BY <1>d, <2>1, <3>1
        <5>4. Len(stored') = first'[mTail'] + mOffsetTail'
          BY <1>d, <1>f
        <5> QED BY <5>1, <5>2, <5>3, <5>4
      <4>2. ASSUME NEW p \in allocated', NEW i \in Slots,
                   Len(taken') <= first'[p] + i, first'[p] + i < Len(stored')
            PROVE  mEvents'[p][i] = stored'[first'[p] + i + 1]
        <5>1. p \in allocated /\ p \in Pages /\ first[p] \in Nat /\ i \in Nat
          BY <1>g, <2>1 DEF Slots
        <5>2. Len(taken) <= first[p] + i /\ first[p] + i < Len(stored)
          BY <1>c, <1>d, <1>e, <4>2, <5>1
        <5> QED BY <1>d, <1>f, <5>1, <5>2
      <4> QED BY <3>2, <4>1, <4>2 DEF ContentsOK
    <3> QED BY <1>1, <1>e, <2>2, <3>3, <3>4
  <2> QED BY <2>3, <2>4
<1> QED BY <1>2, <1>3

\* What the three ways of finding a slot in PutEvent have in common.
LEMMA StorePreservesPrefix ==
    ASSUME QueueInv, NEW e \in Events, stored' = Append(stored, e), taken' = taken
    PROVE  /\ stored' \in Seq(Events)
           /\ Len(stored) \in Nat
           /\ Len(taken) \in Nat
           /\ Len(taken) <= Len(stored)
           /\ Len(stored') = Len(stored) + 1
           /\ \A i \in 1 .. Len(stored) : stored'[i] = stored[i]
           /\ stored'[Len(stored) + 1] = e
           /\ TakenIsPrefix'
<1>1. stored \in Seq(Events) /\ taken \in Seq(Events) /\ TakenIsPrefix
  BY DEF QueueInv, TypeOK
<1>2. /\ stored' \in Seq(Events)
      /\ Len(stored') = Len(stored) + 1
      /\ \A i \in 1 .. Len(stored) : stored'[i] = stored[i]
      /\ stored'[Len(stored) + 1] = e
  BY <1>1, AppendFacts
<1>3. Len(stored) \in Nat /\ Len(taken) \in Nat /\ Len(taken) <= Len(stored)
  BY <1>1 DEF TakenIsPrefix
<1>4. TakenIsPrefix'
  <2>1. ASSUME NEW i \in 1 .. Len(taken) PROVE stored'[i] = taken[i]
    BY <1>1, <1>2, <1>3 DEF TakenIsPrefix
  <2> QED BY <1>2, <1>3, <2>1 DEF TakenIsPrefix
<1> QED BY <1>2, <1>3, <1>4

\* PutEvent keeps the deque well formed, whichever page it stores into.
LEMMA PutPreserves ==
    ASSUME QueueInv, NEW e \in Events, PutEvent(e)
    PROVE  QueueInv'
<1> USE QueueAssumption
<1>a. stored' = Append(stored, e) /\ taken' = taken /\ NotifyAll
  BY DEF PutEvent
<1>b. /\ stored' \in Seq(Events)
      /\ Len(stored) \in Nat
      /\ Len(taken) \in Nat
      /\ Len(taken) <= Len(stored)
      /\ Len(stored') = Len(stored) + 1
      /\ \A i \in 1 .. Len(stored) : stored'[i] = stored[i]
      /\ stored'[Len(stored) + 1] = e
      /\ TakenIsPrefix'
  BY <1>a, StorePreservesPrefix
<1>c. TypeOK /\ ChainOK /\ ContentsOK
  BY DEF QueueInv
<1>d. pc' \in [Consumers -> {"out", "waiting", "awake"}] /\ SleepersSeeEmpty'
  <2>1. pc' = [c \in Consumers |-> IF pc[c] = "waiting" THEN "awake" ELSE pc[c]]
    BY <1>a DEF NotifyAll
  <2>2. pc \in [Consumers -> {"out", "waiting", "awake"}]
    BY <1>c DEF TypeOK
  <2>3. \A c \in Consumers : pc'[c] \in {"out", "awake"}
    BY <2>1, <2>2
  <2>4. waitingConsumers' = {}
    BY <2>3 DEF waitingConsumers
  <2> QED BY <2>1, <2>2, <2>4 DEF SleepersSeeEmpty
<1>e. ZeroedPage \in [Slots -> Events \cup {NoEvent}] /\ 0 \in Slots
  BY DEF ZeroedPage, Slots
<1>f. QueueInv' <=>
        /\ mHead' \in Pages \cup {NoPage} /\ mTail' \in Pages \cup {NoPage}
        /\ mOffsetHead' \in Slots /\ mOffsetTail' \in 0 .. EVENTS_PER_PAGE
        /\ mNext' \in [Pages -> Pages \cup {NoPage}]
        /\ mEvents' \in [Pages -> [Slots -> Events \cup {NoEvent}]]
        /\ allocated' \in SUBSET Pages /\ first' \in [Pages -> Nat]
        /\ ChainOK' /\ ContentsOK'
  BY <1>a, <1>b, <1>c, <1>d DEF QueueInv, TypeOK
<1>1. ASSUME NEW p \in Pages, PutInFirstPage(e, p) PROVE QueueInv'
  <2>1. /\ mHead = NoPage /\ allocated = {} /\ Len(taken) = Len(stored)
        /\ mHead' = p /\ mTail' = p /\ mOffsetHead' = 0 /\ mOffsetTail' = 1
        /\ allocated' = {p}
        /\ first' = [first EXCEPT ![p] = Len(stored)]
        /\ mNext' = [mNext EXCEPT ![p] = NoPage]
        /\ mEvents' = [mEvents EXCEPT ![p] = [ZeroedPage EXCEPT ![0] = e]]
    BY <1>1, <1>c DEF PutInFirstPage, NewPage, ChainOK, ContentsOK
  <2>2. /\ mNext' \in [Pages -> Pages \cup {NoPage}]
        /\ mEvents' \in [Pages -> [Slots -> Events \cup {NoEvent}]]
        /\ first' \in [Pages -> Nat]
        /\ first'[p] = Len(stored) /\ mNext'[p] = NoPage /\ mEvents'[p][0] = e
    BY <1>b, <1>c, <1>e, <2>1 DEF TypeOK
  <2>3. ChainOK'
    BY <1>b, <2>1, <2>2 DEF ChainOK
  <2>4. ContentsOK'
    <3>1. ASSUME NEW i \in Slots, Len(taken') <= first'[p] + i,
                 first'[p] + i < Len(stored')
          PROVE  mEvents'[p][i] = stored'[first'[p] + i + 1]
      <4>1. i = 0
        BY <1>a, <1>b, <2>1, <2>2, <3>1 DEF Slots
      <4> QED BY <1>b, <2>2, <4>1
    <3>2. \A q \in allocated', i \in Slots :
            (Len(taken') <= first'[q] + i /\ first'[q] + i < Len(stored'))
               => mEvents'[q][i] = stored'[first'[q] + i + 1]
      BY <2>1, <3>1
    <3>3. mHead' # NoPage /\ Len(taken') = first'[mHead'] + mOffsetHead'
          /\ Len(stored') = first'[mTail'] + mOffsetTail'
      BY <1>a, <1>b, <2>1, <2>2
    <3> QED BY <3>2, <3>3 DEF ContentsOK
  <2> QED BY <1>e, <1>f, <2>1, <2>2, <2>3, <2>4
<1>g. ASSUME mHead # NoPage
      PROVE  /\ mHead \in allocated /\ mTail \in allocated
             /\ mHead \in Pages /\ mTail \in Pages
             /\ allocated \in SUBSET Pages /\ mNext[mTail] = NoPage
             /\ first \in [Pages -> Nat] /\ mOffsetHead \in Slots
             /\ mOffsetTail \in 0 .. EVENTS_PER_PAGE
             /\ Len(taken) = first[mHead] + mOffsetHead
             /\ Len(stored) = first[mTail] + mOffsetTail
             /\ mNext \in [Pages -> Pages \cup {NoPage}]
             /\ mEvents \in [Pages -> [Slots -> Events \cup {NoEvent}]]
             /\ \A p \in allocated, i \in Slots :
                  (Len(taken) <= first[p] + i /\ first[p] + i < Len(stored))
                     => mEvents[p][i] = stored[first[p] + i + 1]
  BY <1>c, <1>g DEF TypeOK, ChainOK, ContentsOK
<1>2. ASSUME NEW p \in Pages, PutInNextPage(e, p) PROVE QueueInv'
  <2>1. /\ mHead # NoPage /\ mOffsetTail = EVENTS_PER_PAGE
        /\ p \notin allocated /\ allocated' = allocated \cup {p}
        /\ mHead' = mHead /\ mTail' = p
        /\ mOffsetHead' = mOffsetHead /\ mOffsetTail' = 1
        /\ first' = [first EXCEPT ![p] = Len(stored)]
        /\ mNext' = [mNext EXCEPT ![p] = NoPage, ![mTail] = p]
        /\ mEvents' = [mEvents EXCEPT ![p] = [ZeroedPage EXCEPT ![0] = e]]
    BY <1>2 DEF PutInNextPage, NewPage
  <2>2. /\ mNext' \in [Pages -> Pages \cup {NoPage}]
        /\ mEvents' \in [Pages -> [Slots -> Events \cup {NoEvent}]]
        /\ first' \in [Pages -> Nat]
    BY <1>b, <1>e, <1>g, <2>1
  <2>3. /\ first'[p] = Len(stored) /\ mNext'[p] = NoPage /\ mEvents'[p][0] = e
        /\ mNext'[mTail] = p
    BY <1>e, <1>g, <2>1
  <2>4. \A q \in allocated : q \in Pages /\ q # p /\ first'[q] = first[q]
                             /\ mEvents'[q] = mEvents[q] /\ first[q] \in Nat
                             /\ (q # mTail => mNext'[q] = mNext[q])
    BY <1>g, <2>1
  <2>5. first'[p] = first[mTail] + EVENTS_PER_PAGE
    BY <1>g, <2>1, <2>3
  <2>6. \A q \in allocated : first[mHead] <= first[q] /\ first[q] <= first[mTail]
    BY <1>c, <2>1 DEF ChainOK
  <2>7. ChainOK'
    <3>1. ASSUME NEW q \in allocated'
          PROVE  /\ first'[mHead'] <= first'[q]
                 /\ first'[q] <= first'[mTail']
                 /\ q # mTail' => /\ mNext'[q] \in allocated'
                                  /\ first'[mNext'[q]] = first'[q] + EVENTS_PER_PAGE
      <4>1. CASE q = p
        BY <1>g, <2>1, <2>4, <2>5, <2>6, <4>1
      <4>2. CASE q \in allocated
        <5>1. first'[mHead'] <= first'[q] /\ first'[q] <= first'[mTail']
          BY <1>g, <2>1, <2>4, <2>5, <2>6, <4>2
        <5>2. CASE q = mTail
          BY <1>g, <2>1, <2>3, <2>4, <2>5, <5>1, <5>2
        <5>3. CASE q # mTail
          <6>1. mNext[q] \in allocated /\ first[mNext[q]] = first[q] + EVENTS_PER_PAGE
            BY <1>c, <2>1, <4>2, <5>3 DEF ChainOK
          <6>2. mNext'[q] = mNext[q] /\ first'[q] = first[q]
            BY <2>4, <4>2, <5>3
          <6>3. first'[mNext[q]] = first[mNext[q]] /\ mNext[q] \in allocated'
            BY <2>1, <2>4, <6>1
          <6> QED BY <5>1, <6>1, <6>2, <6>3
        <5> QED BY <5>2, <5>3
      <4> QED BY <2>1, <4>1, <4>2
    <3>2. ASSUME NEW q \in allocated', NEW r \in allocated', q # r
          PROVE  \/ first'[q] + EVENTS_PER_PAGE <= first'[r]
                 \/ first'[r] + EVENTS_PER_PAGE <= first'[q]
      <4>1. CASE q \in allocated /\ r \in allocated
        BY <1>c, <2>1, <2>4, <3>2, <4>1 DEF ChainOK
      <4>2. CASE q = p
        BY <1>g, <2>1, <2>4, <2>5, <2>6, <3>2, <4>2
      <4>3. CASE r = p
        BY <1>g, <2>1, <2>4, <2>5, <2>6, <3>2, <4>3
      <4> QED BY <2>1, <4>1, <4>2, <4>3
    <3> QED BY <1>g, <2>1, <2>3, <3>1, <3>2 DEF ChainOK
  <2>8. ContentsOK'
    <3>1. Len(taken') = first'[mHead'] + mOffsetHead'
          /\ Len(stored') = first'[mTail'] + mOffsetTail'
      BY <1>a, <1>b, <1>g, <2>1, <2>3, <2>4
    <3>2. ASSUME NEW q \in allocated', NEW i \in Slots,
                 Len(taken') <= first'[q] + i, first'[q] + i < Len(stored')
          PROVE  mEvents'[q][i] = stored'[first'[q] + i + 1]
      <4>0. i \in Nat /\ i < EVENTS_PER_PAGE
        BY DEF Slots
      <4>1. CASE q = p
        <5>1. i = 0
          BY <1>b, <2>3, <3>2, <4>0, <4>1
        <5> QED BY <1>b, <2>3, <4>1, <5>1
      <4>2. CASE q \in allocated
        <5>1. first[q] + i < Len(stored)
          BY <1>g, <2>1, <2>4, <2>6, <4>0, <4>2
        <5>2. Len(taken) <= first[q] + i
          BY <1>a, <2>4, <3>2, <4>2
        <5>3. mEvents[q][i] = stored[first[q] + i + 1]
          BY <1>g, <2>1, <4>2, <5>1, <5>2
        <5>4. first[q] + i + 1 \in 1 .. Len(stored)
          BY <1>b, <2>4, <4>0, <4>2, <5>1
        <5> QED BY <1>b, <2>4, <4>2, <5>3, <5>4
      <4> QED BY <2>1, <4>1, <4>2
    <3> QED BY <2>1, <3>1, <3>2 DEF ContentsOK
  <2>9. /\ mHead' \in Pages \cup {NoPage} /\ mTail' \in Pages \cup {NoPage}
        /\ mOffsetHead' \in Slots /\ mOffsetTail' \in 0 .. EVENTS_PER_PAGE
        /\ allocated' \in SUBSET Pages
    BY <1>g, <2>1
  <2> QED BY <1>f, <2>2, <2>7, <2>8, <2>9
<1>3. ASSUME PutInTailPage(e) PROVE QueueInv'
  <2>1. /\ mHead # NoPage /\ mOffsetTail # EVENTS_PER_PAGE
        /\ mEvents' = [mEvents EXCEPT ![mTail][mOffsetTail] = e]
        /\ mOffsetTail' = mOffsetTail + 1
        /\ UNCHANGED <<mHead, mTail, mOffsetHead, mNext, allocated, first>>
    BY <1>3 DEF PutInTailPage
  <2>2. mOffsetTail' \in 0 .. EVENTS_PER_PAGE /\ mOffsetTail \in Slots
    BY <1>g, <2>1 DEF Slots
  <2>3. /\ mEvents' \in [Pages -> [Slots -> Events \cup {NoEvent}]]
        /\ mEvents'[mTail][mOffsetTail] = e
        /\ \A q \in Pages, i \in Slots :
             (q # mTail \/ i # mOffsetTail) => mEvents'[q][i] = mEvents[q][i]
    BY <1>g, <2>1, <2>2
  <2>4. ChainOK'
    BY <1>c, <1>g, <2>1 DEF ChainOK
  <2>5. ContentsOK'
    <3>1. Len(taken') = first'[mHead'] + mOffsetHead'
          /\ Len(stored') = first'[mTail'] + mOffsetTail'
      BY <1>a, <1>b, <1>g, <2>1
    <3>2. ASSUME NEW q \in allocated', NEW i \in Slots,
                 Len(taken') <= first'[q] + i, first'[q] + i < Len(stored')
          PROVE  mEvents'[q][i] = stored'[first'[q] + i + 1]
      <4>0. i \in Nat /\ i < EVENTS_PER_PAGE /\ q \in Pages /\ first[q] \in Nat
            /\ q \in allocated /\ first[mTail] \in Nat
        BY <1>g, <2>1 DEF Slots
      <4>1. CASE q = mTail /\ i = mOffsetTail
        BY <1>b, <1>g, <2>1, <2>3, <4>1
      <4>2. CASE q = mTail /\ i # mOffsetTail
        <5>1. first[q] + i < Len(stored)
          BY <1>b, <1>g, <2>1, <3>2, <4>0, <4>2
        <5>2. mEvents'[q][i] = mEvents[q][i]
          BY <2>3, <4>0, <4>2
        <5>3. Len(taken) <= first[q] + i
          BY <1>a, <2>1, <3>2
        <5>4. mEvents[q][i] = stored[first[q] + i + 1]
          BY <1>g, <2>1, <4>0, <5>1, <5>3
        <5>5. first[q] + i + 1 \in 1 .. Len(stored)
          BY <1>b, <4>0, <5>1
        <5> QED BY <1>b, <2>1, <5>2, <5>4, <5>5
      <4>3. CASE q # mTail
        <5>1. first[q] + EVENTS_PER_PAGE <= first[mTail]
          <6>1. first[q] <= first[mTail]
            BY <1>c, <2>1, <4>0 DEF ChainOK
          <6> QED BY <1>c, <1>g, <2>1, <4>0, <4>3, <6>1 DEF ChainOK
        <5>2. first[q] + i < Len(stored)
          BY <1>g, <2>1, <4>0, <5>1
        <5>3. mEvents'[q][i] = mEvents[q][i]
          BY <2>3, <4>0, <4>3
        <5>4. Len(taken) <= first[q] + i
          BY <1>a, <2>1, <3>2
        <5>5. mEvents[q][i] = stored[first[q] + i + 1]
          BY <1>g, <2>1, <4>0, <5>2, <5>4
        <5>6. first[q] + i + 1 \in 1 .. Len(stored)
          BY <1>b, <4>0, <5>2
        <5> QED BY <1>b, <2>1, <5>3, <5>5, <5>6
      <4> QED BY <4>1, <4>2, <4>3
    <3> QED BY <2>1, <3>1, <3>2 DEF ContentsOK
  <2> QED BY <1>f, <1>g, <2>1, <2>2, <2>3, <2>4, <2>5
<1> QED BY <1>1, <1>2, <1>3 DEF PutEvent

\* A GetEvent that returns an event keeps the whole invariant.
LEMMA TakePreserves ==
    ASSUME QueueInv, ~ IsEmpty, RemoveHead, NEW c \in Consumers,
           pc[c] \in {"out", "awake"},
           pc' = pc \/ pc' = [pc EXCEPT ![c] = "out"]
    PROVE  QueueInv'
<1>1. /\ TakenIsPrefix' /\ ChainOK' /\ ContentsOK'
      /\ taken' \in Seq(Events) /\ mHead' \in Pages \cup {NoPage}
      /\ mOffsetHead' \in Slots /\ allocated' \in SUBSET Pages
  BY RemovePreserves
<1>2. UNCHANGED <<mTail, mOffsetTail, mNext, mEvents, first, stored>>
  BY DEF RemoveHead
<1>3. TypeOK'
  BY <1>1, <1>2 DEF QueueInv, TypeOK
<1>4. waitingConsumers' = {}
  <2>1. Len(taken) < Len(stored)
    BY HeadSlot
  <2>2. waitingConsumers = {}
    BY <2>1 DEF QueueInv, TypeOK, SleepersSeeEmpty
  <2> QED BY <2>2 DEF waitingConsumers, QueueInv, TypeOK
<1> QED BY <1>1, <1>3, <1>4 DEF QueueInv, SleepersSeeEmpty

\* A GetEvent that goes to sleep does so on an empty queue.
LEMMA SleepPreserves ==
    ASSUME QueueInv, IsEmpty, NEW c \in Consumers,
           pc' = [pc EXCEPT ![c] = "waiting"],
           UNCHANGED <<pageVars, stored, taken>>
    PROVE  QueueInv'
<1>1. UNCHANGED <<mHead, mTail, mOffsetHead, mOffsetTail, mNext, mEvents,
                  allocated, first, stored, taken>>
  BY DEF pageVars
<1>2. Len(taken) = Len(stored)
  BY EmptyIffAllTaken
<1>3. TypeOK'
  BY <1>1 DEF QueueInv, TypeOK
<1>4. TakenIsPrefix' /\ ChainOK' /\ ContentsOK'
  BY <1>1 DEF QueueInv, TakenIsPrefix, ChainOK, ContentsOK
<1>5. SleepersSeeEmpty'
  BY <1>1, <1>2 DEF SleepersSeeEmpty
<1> QED BY <1>3, <1>4, <1>5 DEF QueueInv

\* QueueInv is inductive: one case for each action.
LEMMA NextInv == QueueInv /\ [Next]_vars => QueueInv'
<1> SUFFICES ASSUME QueueInv, [Next]_vars PROVE QueueInv'
  OBVIOUS
<1>1. ASSUME NEW e \in Events, PutEvent(e) PROVE QueueInv'
  BY <1>1, PutPreserves
<1>2. ASSUME NEW c \in Consumers, GetPendingEvent(c) PROVE QueueInv'
  BY <1>2, TakePreserves DEF GetPendingEvent
<1>3. ASSUME NEW c \in Consumers, WaitPendingEvent(c) PROVE QueueInv'
  BY <1>3, TakePreserves, SleepPreserves DEF WaitPendingEvent
<1>4. CASE UNCHANGED vars
  BY <1>4 DEF vars, QueueInv, TypeOK, TakenIsPrefix, ChainOK, ContentsOK,
              SleepersSeeEmpty, waitingConsumers
<1> QED BY <1>1, <1>2, <1>3, <1>4 DEF Next

\* Every reachable state of nsEventQueue satisfies QueueInv: the page chain is
\* allocated, ordered and complete, each pending event is in its slot, what
\* GetEvent returned is a prefix of what PutEvent accepted, and a thread
\* sleeps in GetEvent only while the queue is empty.
THEOREM QueueInvariant == SafetySpec => []QueueInv
<1>1. Init => QueueInv
  BY InitInv
<1>2. QueueInv /\ [Next]_vars => QueueInv'
  BY NextInv
<1> QED BY <1>1, <1>2, PTL DEF SafetySpec

\* No lost wakeup, for any number of consumers and any page size.
THEOREM NoLostWakeup == SafetySpec => []SleepersSeeEmpty
<1>1. QueueInv => SleepersSeeEmpty
  BY DEF QueueInv
<1> QED BY <1>1, QueueInvariant, PTL

\* A page that is allocated is reached from mHead: of the pages of a closed
\* set that lie before it or at its place, the nearest one is the page itself,
\* since the link of any other leads to one that is nearer.
LEMMA AllocatedReached ==
    ASSUME QueueInv, NEW S \in SUBSET Pages, ClosedUnderLinks(S), NEW p \in allocated
    PROVE  p \in S
<1>1. /\ first \in [Pages -> Nat] /\ allocated \in SUBSET Pages
      /\ EVENTS_PER_PAGE \in Nat \ {0} /\ NoPage \notin Pages
  BY QueueAssumption DEF QueueInv, TypeOK
<1>2. /\ mHead # NoPage /\ mHead \in allocated /\ mHead \in S
  BY DEF QueueInv, ChainOK, ClosedUnderLinks
<1>3. /\ \A q \in allocated :
           /\ first[mHead] <= first[q] /\ first[q] <= first[mTail]
           /\ q # mTail => /\ mNext[q] \in allocated
                           /\ first[mNext[q]] = first[q] + EVENTS_PER_PAGE
      /\ mTail \in allocated
      /\ \A q, r \in allocated :
           q # r => \/ first[q] + EVENTS_PER_PAGE <= first[r]
                    \/ first[r] + EVENTS_PER_PAGE <= first[q]
  BY <1>2 DEF QueueInv, ChainOK
<1>. DEFINE Before == {q \in allocated \cap S : first[q] <= first[p]}
            Distance == {first[p] - first[q] : q \in Before}
<1>4. Distance \in SUBSET Nat
  BY <1>1
<1>5. first[p] - first[mHead] \in Distance
  BY <1>2, <1>3
<1>6. PICK x \in Distance : \A y \in Distance : x <= y
  BY <1>4, <1>5, LeastNatural
<1>7. PICK q \in Before : x = first[p] - first[q]
  BY <1>6
<1>8. SUFFICES ASSUME q # p PROVE FALSE
  BY <1>7
<1>9. first[q] + EVENTS_PER_PAGE <= first[p] /\ first[q] \in Nat /\ first[p] \in Nat
  BY <1>1, <1>3, <1>7, <1>8
<1>10. q # mTail
  BY <1>1, <1>3, <1>9
<1>11. mNext[q] \in allocated /\ first[mNext[q]] = first[q] + EVENTS_PER_PAGE
  BY <1>3, <1>7, <1>10
<1>12. mNext[q] \in S
  BY <1>1, <1>7, <1>11 DEF ClosedUnderLinks
<1>13. first[p] - first[mNext[q]] \in Distance
  BY <1>9, <1>11, <1>12
<1>. HIDE DEF Distance, Before
<1> QED BY <1>1, <1>6, <1>7, <1>9, <1>11, <1>13

\* No page leaks and none is used after free, for any heap and page size: a
\* page is allocated exactly while the links lead to it from mHead.
THEOREM PagesNeverLeak == SafetySpec => []NoPageLeak
<1>1. ASSUME QueueInv PROVE NoPageLeak
  <2>1. allocated \in SUBSET Pages /\ ClosedUnderLinks(allocated)
    <3>1. CASE mHead = NoPage
      BY <1>1, <3>1 DEF QueueInv, TypeOK, ChainOK, ClosedUnderLinks
    <3>2. CASE mHead # NoPage
      BY <1>1, <3>2 DEF QueueInv, TypeOK, ChainOK, ClosedUnderLinks
    <3> QED BY <3>1, <3>2
  <2>2. Reachable \subseteq allocated
    BY <2>1 DEF Reachable
  <2>3. allocated \subseteq Reachable
    BY <1>1, <2>1, AllocatedReached DEF Reachable
  <2> QED BY <2>2, <2>3 DEF NoPageLeak
<1> QED BY <1>1, QueueInvariant, PTL

\* PutEvent and GetEvent implement the first-in first-out sequence of
\* EventFIFO: every step is a Store, a Take of the oldest event, a Sleep on
\* the empty sequence, or leaves the abstract state alone.
THEOREM QueueIsFIFO == SafetySpec => ImplementsFIFOSafety
<1>1. Init => FIFO!FifoInit
  BY DEF Init, FIFO!FifoInit, waitingConsumers
<1>2. ASSUME QueueInv, [Next]_vars PROVE [FIFO!FifoNext]_(FIFO!fifoVars)
  <2>a. pc \in [Consumers -> {"out", "waiting", "awake"}]
    BY <1>2 DEF QueueInv, TypeOK
  <2>1. ASSUME NEW e \in Events, PutEvent(e) PROVE FIFO!Store(e)
    <3>1. stored' = Append(stored, e) /\ taken' = taken /\ NotifyAll
      BY <2>1 DEF PutEvent
    <3>2. \A c \in Consumers : pc'[c] # "waiting"
      BY <2>a, <3>1 DEF NotifyAll
    <3>3. waitingConsumers' = {}
      BY <3>2 DEF waitingConsumers
    <3> QED BY <3>1, <3>3 DEF FIFO!Store
  <2>2. ASSUME NEW c \in Consumers, ~ IsEmpty, RemoveHead,
               pc[c] \in {"out", "awake"},
               pc' = pc \/ pc' = [pc EXCEPT ![c] = "out"]
        PROVE  FIFO!Take(c)
    <3>1. Len(taken) < Len(stored) /\ mEvents[mHead][mOffsetHead] = stored[Len(taken) + 1]
      BY <1>2, <2>2, HeadSlot
    <3>2. stored' = stored /\ taken' = Append(taken, stored[Len(taken) + 1])
      BY <2>2, <3>1 DEF RemoveHead
    <3>3. waitingConsumers' = waitingConsumers /\ c \notin waitingConsumers
      BY <2>a, <2>2 DEF waitingConsumers
    <3> QED BY <3>1, <3>2, <3>3 DEF FIFO!Take
  <2>3. ASSUME NEW c \in Consumers, IsEmpty, pc' = [pc EXCEPT ![c] = "waiting"],
               stored' = stored, taken' = taken
        PROVE  FIFO!Sleep(c)
    <3>1. Len(taken) = Len(stored)
      BY <1>2, <2>3, EmptyIffAllTaken
    <3>2. waitingConsumers' = waitingConsumers \cup {c}
      BY <2>a, <2>3 DEF waitingConsumers
    <3> QED BY <2>3, <3>1, <3>2 DEF FIFO!Sleep
  <2>4. CASE UNCHANGED vars
    BY <2>4 DEF vars, FIFO!fifoVars, waitingConsumers
  <2>5. ASSUME NEW c \in Consumers, GetPendingEvent(c) PROVE FIFO!Take(c)
    BY <2>2, <2>5 DEF GetPendingEvent
  <2>6. ASSUME NEW c \in Consumers, WaitPendingEvent(c)
        PROVE  FIFO!Take(c) \/ FIFO!Sleep(c)
    BY <2>2, <2>3, <2>6 DEF WaitPendingEvent
  <2> QED BY <1>2, <2>1, <2>4, <2>5, <2>6 DEF Next, FIFO!FifoNext
<1> QED BY <1>1, <1>2, QueueInvariant, PTL
        DEF SafetySpec, ImplementsFIFOSafety, FIFO!FifoSafety

-----------------------------------------------------------------------------
(* The chain of event queues of an nsThread (module ChainedQueue).          *)

ChainedQueues == [id : 0 .. MaxPushes, filter : SUBSET Runnables, events : Seq(Runnables)]

\* The events that left the queues for good.
Gone == ToSet(processed) \cup lost

\* They left once, and none is lost while there is memory.
GoneOnce ==
    /\ Distinct(processed)
    /\ ToSet(processed) \cap lost = {}
    /\ MayFail \/ lost = {}

\* What holds of the chain c at every turn of PopEventQueue's loop, when the
\* events of P were processed or lost and those of R are on their way to an elder
\* queue: the events of D are each in one place, and those in a queue or on
\* their way came after all queues that are as old.
Sound(c, P, R, D, b) ==
    /\ c \in Seq(ChainedQueues) /\ Len(c) >= 1
    /\ \A i \in 1 .. Len(c) :
         /\ Distinct(c[i].events)
         /\ ToSet(c[i].events) \cap (P \cup R) = {}
         /\ \A j \in 1 .. Len(c) : i # j => ToSet(c[i].events) \cap ToSet(c[j].events) = {}
         /\ \A e \in ToSet(c[i].events) : \A k \in 1 .. i : c[k].id \in b[e]
    /\ P \cap R = {}
    /\ \A x : x \in D <=> x \in P \cup R \/ \E i \in 1 .. Len(c) : x \in ToSet(c[i].events)
    /\ \A e \in R : \A k \in 1 .. Len(c) : c[k].id \in b[e]

LEMMA QueueFields ==
    ASSUME NEW c \in Seq(ChainedQueues), NEW i \in 1 .. Len(c)
    PROVE  /\ c[i] \in ChainedQueues /\ c[i].events \in Seq(Runnables)
           /\ c[i].id \in 0 .. MaxPushes
<1>1. c[i] \in ChainedQueues
  OBVIOUS
<1> QED BY <1>1 DEF ChainedQueues

\* The root has no filter, so a queue accepts the event.
LEMMA PutIntoQueue ==
    ASSUME NEW c \in Seq(ChainedQueues), Len(c) >= 1, NEW e
    PROVE  \E i \in 1 .. Len(c) : PutInto(c, e) = [c EXCEPT ![i].events = Append(@, e)]
<1>. PICK n \in Nat : n = Len(c) /\ n >= 1
  OBVIOUS
<1>. DEFINE YoungestAt(j) == /\ Accepts(c, j, e)
                             /\ \A k \in j + 1 .. Len(c) : ~ Accepts(c, k, e)
            Left == {x \in 0 .. n - 1 : Accepts(c, n - x, e)}
<1>1. n - 1 \in Left
  BY DEF Accepts
<1>2. PICK x \in Left : \A y \in Left : x <= y
  BY <1>1, LeastNatural, Left \in SUBSET Nat
<1>3. n - x \in 1 .. n /\ Accepts(c, n - x, e)
  OBVIOUS
<1>4. ASSUME NEW k \in n - x + 1 .. n, Accepts(c, k, e) PROVE FALSE
  <2>1. n - k \in 0 .. n - 1 /\ n - (n - k) = k /\ n - k < x
    OBVIOUS
  <2> QED BY <1>2, <1>4, <2>1
<1>5. \E j \in 1 .. Len(c) : YoungestAt(j)
  BY <1>3, <1>4
<1>6. (CHOOSE j \in 1 .. Len(c) : YoungestAt(j)) \in 1 .. Len(c)
  BY <1>5
<1>. HIDE DEF Left
<1> QED BY <1>6 DEF PutInto

\* One turn of the loop.
LEMMA PutOne ==
    ASSUME NEW c, NEW P, NEW R \in SUBSET Runnables, NEW D, NEW b,
           Sound(c, P, R, D, b), NEW e \in R
    PROVE  /\ Sound(PutInto(c, e), P, R \ {e}, D, b)
           /\ Len(PutInto(c, e)) = Len(c)
<1>1. c \in Seq(ChainedQueues) /\ Len(c) \in Nat /\ Len(c) >= 1 /\ e \in Runnables
  BY DEF Sound
<1>2. PICK m \in 1 .. Len(c) : PutInto(c, e) = [c EXCEPT ![m].events = Append(@, e)]
  BY <1>1, PutIntoQueue
<1>. PICK d : d = PutInto(c, e)
  OBVIOUS
<1>3. \A i \in 1 .. Len(c) : c[i] \in ChainedQueues /\ c[i].events \in Seq(Runnables)
  BY <1>1, QueueFields
<1>. PICK q : q = Append(c[m].events, e)
  OBVIOUS
<1>4. q \in Seq(Runnables) /\ ToSet(q) = ToSet(c[m].events) \cup {e}
  BY <1>1, <1>3, AppendSet
<1>5. Distinct(q)
  BY <1>1, <1>3, AppendSet DEF Sound
<1>6. /\ d \in Seq(ChainedQueues) /\ Len(d) = Len(c)
      /\ \A k \in 1 .. Len(c) : d[k].id = c[k].id
      /\ \A k \in 1 .. Len(c) : k # m => d[k].events = c[k].events
      /\ d[m].events = q
  <2>1. [c[m] EXCEPT !.events = q] \in ChainedQueues
    BY <1>3, <1>4 DEF ChainedQueues
  <2>2. /\ [c[m] EXCEPT !.events = q].events = q
        /\ [c[m] EXCEPT !.events = q].id = c[m].id
    BY <1>3 DEF ChainedQueues
  <2>3. d = [c EXCEPT ![m] = [c[m] EXCEPT !.events = q]]
    BY <1>1, <1>2
  <2> QED BY <1>1, <2>1, <2>2, <2>3
<1>7. \A k \in 1 .. Len(c) : ToSet(d[k].events) =
          ToSet(c[k].events) \cup IF k = m THEN {e} ELSE {}
  BY <1>4, <1>6
<1>8. \A k \in 1 .. Len(c) : Distinct(d[k].events)
  BY <1>5, <1>6 DEF Sound
<1>9. /\ P \cap R = {}
      /\ \A x : x \in D <=> x \in P \cup R \/ \E i \in 1 .. Len(c) : x \in ToSet(c[i].events)
      /\ \A i \in 1 .. Len(c) :
           /\ ToSet(c[i].events) \cap (P \cup R) = {}
           /\ \A j \in 1 .. Len(c) : i # j => ToSet(c[i].events) \cap ToSet(c[j].events) = {}
           /\ \A x \in ToSet(c[i].events) : \A k \in 1 .. i : c[k].id \in b[x]
      /\ \A x \in R : \A k \in 1 .. Len(c) : c[k].id \in b[x]
  BY DEF Sound
<1>10. ASSUME NEW i \in 1 .. Len(c)
       PROVE  /\ ToSet(d[i].events) \cap (P \cup (R \ {e})) = {}
              /\ \A j \in 1 .. Len(c) : i # j => ToSet(d[i].events) \cap ToSet(d[j].events) = {}
              /\ \A x \in ToSet(d[i].events) : \A k \in 1 .. i : d[k].id \in b[x]
  <2>1. ToSet(d[i].events) \cap (P \cup (R \ {e})) = {}
    BY <1>7, <1>9
  <2>2. ASSUME NEW j \in 1 .. Len(c), i # j
        PROVE  ToSet(d[i].events) \cap ToSet(d[j].events) = {}
    <3>1. /\ ToSet(c[i].events) \cap ToSet(c[j].events) = {}
          /\ e \notin ToSet(c[i].events) /\ e \notin ToSet(c[j].events)
      BY <1>9, <2>2
    <3>2. ~ (i = m /\ j = m)
      BY <2>2
    <3>3. \/ /\ ToSet(d[i].events) \subseteq ToSet(c[i].events)
             /\ ToSet(d[j].events) \subseteq ToSet(c[j].events) \cup {e}
          \/ /\ ToSet(d[i].events) \subseteq ToSet(c[i].events) \cup {e}
             /\ ToSet(d[j].events) \subseteq ToSet(c[j].events)
      BY <1>7, <3>2
    <3> QED BY <3>1, <3>3
  <2>3. ASSUME NEW x \in ToSet(d[i].events), NEW k \in 1 .. i PROVE d[k].id \in b[x]
    <3>. k \in 1 .. Len(c)
      BY <1>1
    <3>1. d[k].id = c[k].id
      BY <1>6
    <3>2. x \in ToSet(c[i].events) \/ x = e
      BY <1>7
    <3> QED BY <1>9, <3>1, <3>2
  <2> QED BY <2>1, <2>2, <2>3
<1>11. \A x : x \in D <=> x \in P \cup (R \ {e}) \/ \E i \in 1 .. Len(c) : x \in ToSet(d[i].events)
  <2>1. \A i \in 1 .. Len(c) : ToSet(c[i].events) \subseteq ToSet(d[i].events)
    BY <1>7
  <2>2. e \in ToSet(d[m].events)
    BY <1>7
  <2>3. \A i \in 1 .. Len(c) : ToSet(d[i].events) \subseteq ToSet(c[i].events) \cup {e}
    BY <1>7
  <2>4. TAKE x
  <2>5. CASE x = e
    BY <1>9, <2>2, <2>5
  <2>6. CASE x # e
    <3>1. \A i \in 1 .. Len(c) : x \in ToSet(d[i].events) <=> x \in ToSet(c[i].events)
      BY <2>1, <2>3, <2>6
    <3>2. x \in P \cup (R \ {e}) <=> x \in P \cup R
      BY <2>6
    <3> QED BY <1>9, <3>1, <3>2
  <2> QED BY <2>5, <2>6
<1>12. Sound(d, P, R \ {e}, D, b)
  <2>1. /\ P \cap (R \ {e}) = {}
        /\ \A x \in R \ {e} : \A k \in 1 .. Len(c) : d[k].id \in b[x]
    BY <1>6, <1>9
  <2>2. Len(d) = Len(c) /\ Len(d) >= 1 /\ d \in Seq(ChainedQueues)
    BY <1>1, <1>6
  <2> QED BY <1>8, <1>10, <1>11, <2>1, <2>2 DEF Sound
<1> QED BY <1>6, <1>12

\* One turn of the loop in which the put fails.
LEMMA LoseOne ==
    ASSUME NEW c, NEW P, NEW R \in SUBSET Runnables, NEW D, NEW b,
           Sound(c, P, R, D, b), NEW e \in R
    PROVE  Sound(c, P \cup {e}, R \ {e}, D, b)
<1>1. (P \cup {e}) \cup (R \ {e}) = P \cup R /\ (P \cup {e}) \cap (R \ {e}) = {}
  BY DEF Sound
<1> QED BY <1>1 DEF Sound

\* The loop's chains, as the recursive function of PutAll gives them.
Turn(c, e, failing) == IF e \in failing THEN c ELSE PutInto(c, e)

LEMMA PutAllTurns ==
    ASSUME NEW c, NEW left \in Seq(Runnables), NEW failing
    PROVE  \E put : /\ put[0] = c
                    /\ \A n \in 1 .. Len(left) : put[n] = Turn(put[n - 1], left[n], failing)
                    /\ PutAll(c, left, failing) = put[Len(left)]
<1>. PICK l \in Nat : l = Len(left)
  OBVIOUS
<1>. DEFINE Turns(m, g) == g = [n \in 0 .. m |-> IF n = 0 THEN c ELSE Turn(g[n - 1], left[n], failing)]
            Stuck == {m \in 0 .. l : \A g : ~ Turns(m, g)}
<1>1. ASSUME Stuck # {} PROVE FALSE
  <2>1. PICK m \in Stuck : \A y \in Stuck : m <= y
    BY <1>1, LeastNatural, Stuck \in SUBSET Nat
  <2>2. ASSUME m = 0 PROVE FALSE
    <3>1. PICK g : g = [n \in 0 .. 0 |-> c]
      OBVIOUS
    <3>2. g = [n \in 0 .. 0 |-> IF n = 0 THEN c ELSE Turn(g[n - 1], left[n], failing)]
      BY <3>1
    <3> QED BY <2>1, <2>2, <3>2
  <2>3. m \in 1 .. l /\ m - 1 \in 0 .. l /\ m - 1 < m
    BY <2>2
  <2>4. PICK g : Turns(m - 1, g)
    <3>. HIDE DEF Turns
    <3>1. m - 1 \notin Stuck
      BY <2>1, <2>3
    <3>2. \E g : Turns(m - 1, g)
      BY <2>3, <3>1
    <3> QED BY <3>2
  <2>5. PICK h : h = [n \in 0 .. m |-> IF n = m THEN Turn(g[m - 1], left[m], failing) ELSE g[n]]
    OBVIOUS
  <2>6. ASSUME NEW n \in 0 .. m
        PROVE  h[n] = IF n = 0 THEN c ELSE Turn(h[n - 1], left[n], failing)
    <3>1. CASE n = m
      <4>1. h[n] = Turn(g[m - 1], left[m], failing)
        BY <2>5, <3>1
      <4>2. m - 1 \in 0 .. m /\ m - 1 # m
        BY <2>3
      <4>3. h[n - 1] = g[m - 1]
        BY <2>5, <3>1, <4>2
      <4> QED BY <2>3, <3>1, <4>1, <4>3
    <3>2. CASE n # m /\ n = 0
      <4>1. 0 \in 0 .. m - 1
        BY <2>3
      <4>2. g[0] = c
        BY <2>4, <4>1
      <4> QED BY <2>5, <3>2, <4>2
    <3>3. CASE n # m /\ n # 0
      <4>1. n \in 0 .. m - 1 /\ n - 1 \in 0 .. m /\ n - 1 # m
        BY <2>3, <3>3
      <4>2. g[n] = Turn(g[n - 1], left[n], failing)
        BY <2>4, <3>3, <4>1
      <4>3. h[n - 1] = g[n - 1]
        BY <2>5, <4>1
      <4> QED BY <2>5, <3>3, <4>2, <4>3
    <3> QED BY <3>1, <3>2, <3>3
  <2>7. h = [n \in 0 .. m |-> IF n = 0 THEN c ELSE Turn(h[n - 1], left[n], failing)]
    BY <2>5, <2>6
  <2> QED BY <2>1, <2>7
<1>2. PICK g : Turns(l, g)
  BY <1>1
<1>3. PICK put : Turns(l, put) /\ PutAll(c, left, failing) = put[l]
  BY <1>2 DEF PutAll, Turn
<1>4. put[0] = c
  <2>1. 0 \in 0 .. l
    OBVIOUS
  <2> QED BY <1>3, <2>1
<1>5. \A n \in 1 .. l : put[n] = Turn(put[n - 1], left[n], failing)
  BY <1>3
<1> QED BY <1>3, <1>4, <1>5

\* The whole loop.
LEMMA PutAllSound ==
    ASSUME NEW c, NEW P, NEW left \in Seq(Runnables), Distinct(left), NEW D, NEW b,
           Sound(c, P, ToSet(left), D, b), NEW failing \in SUBSET ToSet(left)
    PROVE  Sound(PutAll(c, left, failing), P \cup failing, {}, D, b)
<1>. PICK l \in Nat : l = Len(left)
  OBVIOUS
<1>1. PICK put : /\ put[0] = c
                 /\ \A n \in 1 .. l : put[n] = Turn(put[n - 1], left[n], failing)
                 /\ PutAll(c, left, failing) = put[l]
  <2>1. \E put : /\ put[0] = c
                 /\ \A n \in 1 .. Len(left) : put[n] = Turn(put[n - 1], left[n], failing)
                 /\ PutAll(c, left, failing) = put[Len(left)]
    BY PutAllTurns
  <2> QED BY <2>1
<1>. DEFINE Rest(n) == {left[k] : k \in n + 1 .. l}
            Dropped(n) == failing \ Rest(n)
            Unsound == {n \in 0 .. l : ~ Sound(put[n], P \cup Dropped(n), Rest(n), D, b)}
<1>2. /\ Rest(0) = ToSet(left) /\ Rest(l) = {}
      /\ P \cup Dropped(0) = P /\ P \cup Dropped(l) = P \cup failing
  <2>1. Rest(0) = ToSet(left) /\ Rest(l) = {}
    BY DEF ToSet
  <2> QED BY <2>1
<1>3. \A n \in 0 .. l : Rest(n) \in SUBSET Runnables
  OBVIOUS
<1>4. ASSUME Unsound # {} PROVE FALSE
  <2>1. PICK m \in Unsound : \A y \in Unsound : m <= y
    BY <1>4, LeastNatural, Unsound \in SUBSET Nat
  <2>2. m # 0
    <3>1. Sound(put[0], P \cup Dropped(0), Rest(0), D, b)
      BY <1>1, <1>2
    <3> QED BY <2>1, <3>1
  <2>3. m \in 1 .. l /\ m - 1 \in 0 .. l /\ m - 1 < m /\ m - 1 + 1 = m
    BY <2>2
  <2>4. Sound(put[m - 1], P \cup Dropped(m - 1), Rest(m - 1), D, b)
    <3>. HIDE DEF Rest, Dropped, Unsound
    <3>1. m - 1 \notin Unsound
      BY <2>1, <2>3
    <3> QED BY <2>3, <3>1 DEF Unsound
  <2>5. left[m] \in Rest(m - 1) /\ Rest(m - 1) \ {left[m]} = Rest(m)
    <3>1. \A j, k \in 1 .. l : left[j] = left[k] => j = k
      BY DEF Distinct
    <3>2. \A k \in m .. l : k \in 1 .. l /\ (k # m => k \in m + 1 .. l)
      BY <2>3
    <3>3. \A k \in m + 1 .. l : k \in m .. l /\ k \in 1 .. l /\ k # m
      BY <2>3
    <3>4. Rest(m - 1) = {left[k] : k \in m .. l} /\ m \in m .. l
      BY <2>3
    <3> QED BY <2>3, <3>1, <3>2, <3>3, <3>4
  <2>6. put[m] = Turn(put[m - 1], left[m], failing)
    BY <1>1, <2>3
  <2>7. Rest(m - 1) \in SUBSET Runnables
    BY <1>3, <2>3
  <2>. HIDE DEF Rest
  <2>8. CASE left[m] \in failing
    <3>1. Sound(put[m - 1], (P \cup Dropped(m - 1)) \cup {left[m]}, Rest(m), D, b)
      <4>1. Sound(put[m - 1], (P \cup Dropped(m - 1)) \cup {left[m]},
                  Rest(m - 1) \ {left[m]}, D, b)
        BY <2>4, <2>5, <2>7, LoseOne
      <4> QED BY <2>5, <4>1
    <3>2. (P \cup Dropped(m - 1)) \cup {left[m]} = P \cup Dropped(m)
      BY <2>5, <2>8
    <3>3. put[m] = put[m - 1]
      BY <2>6, <2>8 DEF Turn
    <3>4. Sound(put[m], P \cup Dropped(m), Rest(m), D, b)
      BY <3>1, <3>2, <3>3
    <3> QED BY <2>1, <3>4
  <2>9. CASE left[m] \notin failing
    <3>1. Sound(PutInto(put[m - 1], left[m]), P \cup Dropped(m - 1), Rest(m), D, b)
      <4>1. Sound(PutInto(put[m - 1], left[m]), P \cup Dropped(m - 1),
                  Rest(m - 1) \ {left[m]}, D, b)
        BY <2>4, <2>5, <2>7, PutOne
      <4> QED BY <2>5, <4>1
    <3>2. Dropped(m - 1) = Dropped(m)
      BY <2>5, <2>9
    <3>3. put[m] = PutInto(put[m - 1], left[m])
      BY <2>6, <2>9 DEF Turn
    <3>4. Sound(put[m], P \cup Dropped(m), Rest(m), D, b)
      BY <3>1, <3>2, <3>3
    <3> QED BY <2>1, <3>4
  <2> QED BY <2>8, <2>9
<1>5. Sound(put[l], P \cup Dropped(l), Rest(l), D, b)
  <2>. HIDE DEF Rest, Dropped, Unsound
  <2>1. l \in 0 .. l /\ l \notin Unsound
    BY <1>4
  <2> QED BY <2>1 DEF Unsound
<1> QED BY <1>1, <1>2, <1>5

\* The invariant in these terms.
LEMMA InjectiveDistinct ==
    \A s : IsInjective(s) <=> Distinct(s)
BY DEF IsInjective, Distinct

LEMMA ChainInvSound ==
    ChainInv <=>
        /\ ChainTypeOK
        /\ GoneOnce
        /\ Sound(chain, Gone, {}, dispatched, born)
<1>1. ASSUME ChainTypeOK
      PROVE  /\ chain \in Seq(ChainedQueues) /\ Len(chain) \in Nat /\ Len(chain) >= 1
             /\ Youngest = Len(chain)
             /\ \A i \in 1 .. Len(chain) : i # 0 /\ i \in 0 .. Len(chain)
             /\ \A i \in 0 .. Len(chain) : i = 0 \/ i \in 1 .. Len(chain)
             /\ 0 \in 0 .. Len(chain)
  BY <1>1 DEF ChainTypeOK, ChainedQueues, Youngest
<1>2. EventsAt(0) = processed /\ \A i : i # 0 => EventsAt(i) = chain[i].events
  BY DEF EventsAt
<1>. DEFINE All == lost \cup UNION {ToSet(EventsAt(i)) : i \in 0 .. Len(chain)}
            Somewhere(x) == \/ x \in Gone \cup {}
                            \/ \E i \in 1 .. Len(chain) : x \in ToSet(chain[i].events)
<1>3. ASSUME ChainTypeOK PROVE \A x : x \in All <=> Somewhere(x)
  BY <1>1, <1>2, <1>3 DEF Gone
<1>. HIDE DEF All, Somewhere
<1>4. ASSUME ChainTypeOK
      PROVE  EveryEventOnce <=>
               /\ \A x : x \in dispatched <=> Somewhere(x)
               /\ GoneOnce
               /\ \A i \in 1 .. Len(chain) :
                    /\ Distinct(chain[i].events)
                    /\ ToSet(chain[i].events) \cap (Gone \cup {}) = {}
                    /\ \A j \in 1 .. Len(chain) :
                         i # j => ToSet(chain[i].events) \cap ToSet(chain[j].events) = {}
  <2>1. EveryEventOnce <=>
          /\ All = dispatched
          /\ \A i \in 0 .. Len(chain) : Distinct(EventsAt(i))
          /\ \A i \in 0 .. Len(chain) : ToSet(EventsAt(i)) \cap lost = {}
          /\ \A i, j \in 0 .. Len(chain) :
               i # j => ToSet(EventsAt(i)) \cap ToSet(EventsAt(j)) = {}
          /\ MayFail \/ lost = {}
    BY <1>1, <1>4, InjectiveDistinct DEF EveryEventOnce, All
  <2>2. (\A i \in 0 .. Len(chain) : Distinct(EventsAt(i))) <=>
          Distinct(processed) /\ \A i \in 1 .. Len(chain) : Distinct(chain[i].events)
    BY <1>1, <1>2, <1>4
  <2>3. (\A i, j \in 0 .. Len(chain) :
            i # j => ToSet(EventsAt(i)) \cap ToSet(EventsAt(j)) = {})
        <=> \A i \in 1 .. Len(chain) :
              /\ ToSet(chain[i].events) \cap ToSet(processed) = {}
              /\ \A j \in 1 .. Len(chain) :
                   i # j => ToSet(chain[i].events) \cap ToSet(chain[j].events) = {}
    BY <1>1, <1>2, <1>4
  <2>4. (\A i \in 0 .. Len(chain) : ToSet(EventsAt(i)) \cap lost = {}) <=>
          /\ ToSet(processed) \cap lost = {}
          /\ \A i \in 1 .. Len(chain) : ToSet(chain[i].events) \cap lost = {}
    BY <1>1, <1>2, <1>4
  <2>5. \A i : ToSet(chain[i].events) \cap (Gone \cup {}) = {} <=>
                 /\ ToSet(chain[i].events) \cap ToSet(processed) = {}
                 /\ ToSet(chain[i].events) \cap lost = {}
    BY DEF Gone
  <2>6. All = dispatched <=> \A x : x \in dispatched <=> Somewhere(x)
    BY <1>3, <1>4
  <2> QED BY <2>1, <2>2, <2>3, <2>4, <2>5, <2>6 DEF GoneOnce
<1>5. ASSUME ChainTypeOK
      PROVE  NoneAhead <=>
               \A i \in 1 .. Len(chain) : \A e \in ToSet(chain[i].events) :
                   \A k \in 1 .. i : chain[k].id \in born[e]
  BY <1>1, <1>5, InjectiveDistinct DEF NoneAhead
<1> QED BY <1>1, <1>4, <1>5 DEF ChainInv, Sound, Somewhere

LEMMA ChainInvSoundNext ==
    ChainInv' <=>
        /\ ChainTypeOK'
        /\ GoneOnce'
        /\ Sound(chain', Gone', {}, dispatched', born')
<1>1. (ChainInv <=>
          /\ ChainTypeOK
          /\ GoneOnce
          /\ Sound(chain, Gone, {}, dispatched, born))'
  BY ChainInvSound, PTL
<1> QED BY <1>1

\* The parts of TypeOK that Sound does not speak of.
LEMMA ChainTypeNext ==
    ASSUME NEW P, Sound(chain', P, {}, dispatched', born'),
           pushes' \in 0 .. MaxPushes, born' \in [Runnables -> SUBSET (0 .. MaxPushes)],
           dispatched' \in SUBSET Runnables, processed' \in Seq(Runnables),
           lost' \in SUBSET Runnables
    PROVE  ChainTypeOK'
<1>1. chain' \in Seq([id : 0 .. MaxPushes, filter : SUBSET Runnables, events : Seq(Runnables)])
      /\ Len(chain') >= 1
  BY DEF Sound, ChainedQueues
<1> QED BY <1>1 DEF ChainTypeOK, Youngest

\* What ChainInv gives every action.
LEMMA ChainFacts ==
    ASSUME ChainInv
    PROVE  /\ Sound(chain, Gone, {}, dispatched, born) /\ GoneOnce
           /\ chain \in Seq(ChainedQueues) /\ Len(chain) \in Nat /\ Len(chain) >= 1
           /\ Youngest = Len(chain)
           /\ pushes \in 0 .. MaxPushes /\ born \in [Runnables -> SUBSET (0 .. MaxPushes)]
           /\ dispatched \in SUBSET Runnables /\ processed \in Seq(Runnables)
           /\ lost \in SUBSET Runnables
<1>1. Sound(chain, Gone, {}, dispatched, born) /\ GoneOnce
      /\ ChainTypeOK
  BY ChainInvSound
<1>2. chain \in Seq(ChainedQueues) /\ Len(chain) \in Nat /\ Len(chain) >= 1
  BY <1>1 DEF Sound
<1> QED BY <1>1, <1>2 DEF ChainTypeOK, Youngest

LEMMA ChainPut ==
    ASSUME ChainInv, NEW e \in Runnables, ThreadPutEvent(e), ~ UNCHANGED chainVars
    PROVE  ChainInv'
<1>1. /\ Sound(chain, Gone, {}, dispatched, born) /\ GoneOnce
      /\ chain \in Seq(ChainedQueues) /\ Len(chain) \in Nat /\ Len(chain) >= 1
      /\ pushes \in 0 .. MaxPushes /\ born \in [Runnables -> SUBSET (0 .. MaxPushes)]
      /\ dispatched \in SUBSET Runnables /\ processed \in Seq(Runnables)
      /\ lost \in SUBSET Runnables
  BY ChainFacts
<1>2. /\ e \notin dispatched /\ chain' = PutInto(chain, e)
      /\ born' = [born EXCEPT ![e] = {chain[i].id : i \in DOMAIN chain}]
      /\ dispatched' = dispatched \cup {e}
      /\ pushes' = pushes /\ processed' = processed /\ lost' = lost /\ Gone' = Gone
  BY DEF ThreadPutEvent, chainVars, Gone
<1>3. \A i \in 1 .. Len(chain) : chain[i].id \in 0 .. MaxPushes
  BY <1>1, QueueFields
<1>4. {chain[i].id : i \in DOMAIN chain} \in SUBSET (0 .. MaxPushes)
      /\ \A i \in 1 .. Len(chain) : chain[i].id \in {chain[k].id : k \in DOMAIN chain}
  BY <1>1, <1>3
<1>5. /\ born' \in [Runnables -> SUBSET (0 .. MaxPushes)]
      /\ \A i \in 1 .. Len(chain) : chain[i].id \in born'[e]
      /\ \A x \in Runnables : x # e => born'[x] = born[x]
  BY <1>1, <1>2, <1>4
<1>6. Sound(chain, Gone, {e}, dispatched', born')
  <2>1. \A i \in 1 .. Len(chain) : ToSet(chain[i].events) \subseteq dispatched
    BY <1>1 DEF Sound
  <2>2. Gone \subseteq dispatched
    BY <1>1 DEF Sound
  <2>3. \A i \in 1 .. Len(chain) : \A x \in ToSet(chain[i].events) :
            x \in Runnables /\ x # e /\ born'[x] = born[x]
    <3>. SUFFICES ASSUME NEW i \in 1 .. Len(chain), NEW x \in ToSet(chain[i].events)
                  PROVE  x \in Runnables /\ x # e /\ born'[x] = born[x]
      OBVIOUS
    <3>1. x \in dispatched
      BY <2>1
    <3>2. x \in Runnables /\ x # e
      BY <1>1, <1>2, <3>1
    <3> QED BY <1>5, <3>2
  <2>4. e \notin Gone
    BY <1>2, <2>2
  <2>5. ASSUME NEW i \in 1 .. Len(chain), NEW x \in ToSet(chain[i].events), NEW k \in 1 .. i
        PROVE  chain[k].id \in born'[x]
    BY <1>1, <2>3 DEF Sound
  <2>6. \A i \in 1 .. Len(chain) : e \notin ToSet(chain[i].events)
    BY <2>3
  <2>7. \A x : x \in dispatched' <=>
            \/ x \in Gone \cup {e}
            \/ \E i \in 1 .. Len(chain) : x \in ToSet(chain[i].events)
    BY <1>1, <1>2 DEF Sound
  <2>8. ASSUME NEW i \in 1 .. Len(chain)
        PROVE  /\ Distinct(chain[i].events)
               /\ ToSet(chain[i].events) \cap (Gone \cup {e}) = {}
               /\ \A j \in 1 .. Len(chain) :
                    i # j => ToSet(chain[i].events) \cap ToSet(chain[j].events) = {}
    <3>1. /\ Distinct(chain[i].events)
          /\ ToSet(chain[i].events) \cap Gone = {}
          /\ \A j \in 1 .. Len(chain) :
               i # j => ToSet(chain[i].events) \cap ToSet(chain[j].events) = {}
      BY <1>1 DEF Sound
    <3> QED BY <2>6, <3>1
  <2>9. Gone \cap {e} = {}
        /\ \A x \in {e} : \A k \in 1 .. Len(chain) : chain[k].id \in born'[x]
    BY <1>5, <2>4
  <2> QED BY <1>1, <2>5, <2>7, <2>8, <2>9 DEF Sound
<1>7. Sound(chain', Gone', {}, dispatched', born')
  <2>1. Sound(chain', Gone, {e} \ {e}, dispatched', born')
    BY <1>2, <1>6, PutOne, {e} \in SUBSET Runnables
  <2> QED BY <1>2, <2>1, {e} \ {e} = {}
<1>8. ChainTypeOK'
  BY <1>1, <1>2, <1>5, <1>7, ChainTypeNext
<1>9. GoneOnce'
  BY <1>1, <1>2 DEF GoneOnce
<1> QED BY <1>7, <1>8, <1>9, ChainInvSoundNext

LEMMA ChainPush ==
    ASSUME ChainInv, NEW f \in Filters, PushEventQueue(f)
    PROVE  ChainInv'
<1>1. /\ Sound(chain, Gone, {}, dispatched, born) /\ GoneOnce
      /\ chain \in Seq(ChainedQueues) /\ Len(chain) \in Nat /\ Len(chain) >= 1
      /\ pushes \in 0 .. MaxPushes /\ born \in [Runnables -> SUBSET (0 .. MaxPushes)]
      /\ dispatched \in SUBSET Runnables /\ processed \in Seq(Runnables)
      /\ lost \in SUBSET Runnables
  BY ChainFacts
<1>. PICK q : q = [id |-> pushes + 1, filter |-> f, events |-> << >>]
  OBVIOUS
<1>2. /\ pushes < MaxPushes /\ chain' = Append(chain, q) /\ pushes' = pushes + 1
      /\ born' = born /\ dispatched' = dispatched /\ processed' = processed
      /\ lost' = lost /\ Gone' = Gone
  BY DEF PushEventQueue, Queue, Gone
<1>3. f \in SUBSET Runnables /\ MaxPushes \in Nat
  BY ChainAssumption
<1>4. pushes' \in 0 .. MaxPushes
  BY <1>1, <1>2, <1>3
<1>5. q \in ChainedQueues /\ q.events = << >>
  BY <1>2, <1>3, <1>4 DEF ChainedQueues
<1>. PICK n \in Nat : n = Len(chain)
  BY <1>1
<1>. PICK c : c = chain'
  OBVIOUS
<1>6. /\ c \in Seq(ChainedQueues) /\ Len(c) = n + 1 /\ c[n + 1] = q
      /\ \A i \in 1 .. n : c[i] = chain[i]
  BY <1>1, <1>2, <1>5, AppendFacts
<1>7. ToSet(c[n + 1].events) = {} /\ Distinct(c[n + 1].events)
  BY <1>5, <1>6, EmptyList
<1>8. Sound(c, Gone, {}, dispatched, born)
  <2>1. \A i \in 1 .. n + 1 : i \in 1 .. n \/ i = n + 1
    OBVIOUS
  <2>2. ASSUME NEW i \in 1 .. n + 1
        PROVE  /\ Distinct(c[i].events)
               /\ ToSet(c[i].events) \cap (Gone \cup {}) = {}
    BY <1>1, <1>6, <1>7, <2>1 DEF Sound
  <2>3. ASSUME NEW i \in 1 .. n + 1, NEW j \in 1 .. n + 1, i # j
        PROVE  ToSet(c[i].events) \cap ToSet(c[j].events) = {}
    <3>1. \A k, l \in 1 .. n : k # l => ToSet(chain[k].events) \cap ToSet(chain[l].events) = {}
      BY <1>1 DEF Sound
    <3>2. CASE i = n + 1 \/ j = n + 1
      BY <1>7, <3>2
    <3>3. CASE i \in 1 .. n /\ j \in 1 .. n
      <4>1. c[i] = chain[i] /\ c[j] = chain[j]
        BY <1>6, <3>3
      <4> QED BY <2>3, <3>1, <3>3, <4>1
    <3> QED BY <2>1, <3>2, <3>3
  <2>4. ASSUME NEW i \in 1 .. n + 1, NEW e \in ToSet(c[i].events), NEW k \in 1 .. i
        PROVE  c[k].id \in born[e]
    <3>1. i \in 1 .. n /\ k \in 1 .. n
      BY <1>7, <2>1
    <3> QED BY <1>1, <1>6, <3>1 DEF Sound
  <2>5. \A x : (\E i \in 1 .. n + 1 : x \in ToSet(c[i].events)) <=>
                 \E i \in 1 .. n : x \in ToSet(chain[i].events)
    BY <1>6, <1>7, <2>1
  <2>6. /\ \A x : x \in dispatched <=> \/ x \in Gone \cup {}
                                      \/ \E i \in 1 .. n : x \in ToSet(chain[i].events)
        /\ Gone \cap {} = {}
    BY <1>1 DEF Sound
  <2>7. \A x : x \in dispatched <=> \/ x \in Gone \cup {}
                                   \/ \E i \in 1 .. n + 1 : x \in ToSet(c[i].events)
    BY <2>5, <2>6
  <2>8. Len(c) = n + 1 /\ Len(c) >= 1 /\ c \in Seq(ChainedQueues)
    BY <1>6
  <2> QED BY <2>2, <2>3, <2>4, <2>6, <2>7, <2>8 DEF Sound
<1>9. ChainTypeOK'
  BY <1>1, <1>2, <1>4, <1>8, ChainTypeNext
<1>10. GoneOnce'
  BY <1>1, <1>2 DEF GoneOnce
<1> QED BY <1>2, <1>8, <1>9, <1>10, ChainInvSoundNext

LEMMA ChainPop ==
    ASSUME ChainInv, PopEventQueue
    PROVE  ChainInv'
<1>1. /\ Sound(chain, Gone, {}, dispatched, born) /\ GoneOnce
      /\ chain \in Seq(ChainedQueues) /\ Len(chain) \in Nat /\ Len(chain) >= 1
      /\ Youngest = Len(chain)
      /\ pushes \in 0 .. MaxPushes /\ born \in [Runnables -> SUBSET (0 .. MaxPushes)]
      /\ dispatched \in SUBSET Runnables /\ processed \in Seq(Runnables)
      /\ lost \in SUBSET Runnables
  BY ChainFacts
<1>. PICK n \in Nat : n = Len(chain)
  BY <1>1
<1>. PICK left : left = chain[n].events
  OBVIOUS
<1>. PICK c : c = SubSeq(chain, 1, n - 1)
  OBVIOUS
<1>. PICK failing \in SUBSET ToSet(left) :
             /\ failing = {} \/ MayFail
             /\ chain' = PutAll(c, left, failing)
             /\ lost' = lost \cup failing
  BY <1>1 DEF PopEventQueue, Front
<1>2. /\ n > 1
      /\ UNCHANGED <<pushes, born, dispatched, processed>>
  BY <1>1 DEF PopEventQueue, Front
<1>3. /\ c \in Seq(ChainedQueues) /\ Len(c) = n - 1 /\ Len(c) >= 1
      /\ \A i \in 1 .. n - 1 : c[i] = chain[i]
  BY <1>1, <1>2
<1>4. left \in Seq(Runnables) /\ Distinct(left) /\ n \in 1 .. n
  BY <1>1, <1>2, QueueFields DEF Sound
<1>5. /\ \A i \in 1 .. n :
           /\ Distinct(chain[i].events)
           /\ ToSet(chain[i].events) \cap (Gone \cup {}) = {}
           /\ \A j \in 1 .. n : i # j => ToSet(chain[i].events) \cap ToSet(chain[j].events) = {}
           /\ \A e \in ToSet(chain[i].events) : \A k \in 1 .. i : chain[k].id \in born[e]
      /\ \A x : x \in dispatched <=> \/ x \in Gone \cup {}
                                     \/ \E i \in 1 .. n : x \in ToSet(chain[i].events)
  BY <1>1 DEF Sound
<1>6. Sound(c, Gone, ToSet(left), dispatched, born)
  <2>1. \A i \in 1 .. Len(c) : i \in 1 .. n /\ i # n
    BY <1>2, <1>3
  <2>2. ASSUME NEW i \in 1 .. Len(c)
        PROVE  /\ Distinct(c[i].events)
               /\ ToSet(c[i].events) \cap (Gone \cup ToSet(left)) = {}
               /\ \A j \in 1 .. Len(c) : i # j => ToSet(c[i].events) \cap ToSet(c[j].events) = {}
               /\ \A e \in ToSet(c[i].events) : \A k \in 1 .. i : c[k].id \in born[e]
    <3>1. c[i] = chain[i] /\ i \in 1 .. n /\ i # n
      BY <1>3, <2>1
    <3>2. ToSet(c[i].events) \cap ToSet(left) = {}
      BY <1>4, <1>5, <3>1
    <3>3. \A j \in 1 .. Len(c) : c[j] = chain[j] /\ j \in 1 .. n
      BY <1>3, <2>1
    <3>4. \A k \in 1 .. i : k \in 1 .. Len(c)
      BY <1>3
    <3>5. ToSet(c[i].events) \cap (Gone \cup ToSet(left)) = {}
      BY <1>5, <3>1, <3>2
    <3>6. \A j \in 1 .. Len(c) : i # j => ToSet(c[i].events) \cap ToSet(c[j].events) = {}
      BY <1>5, <3>1, <3>3
    <3>7. \A e \in ToSet(c[i].events) : \A k \in 1 .. i : c[k].id \in born[e]
      BY <1>5, <3>1, <3>3, <3>4
    <3> QED BY <1>5, <3>1, <3>5, <3>6, <3>7
  <2>3. Gone \cap ToSet(left) = {}
    BY <1>4, <1>5
  <2>4. ASSUME NEW e \in ToSet(left), NEW k \in 1 .. Len(c) PROVE c[k].id \in born[e]
    <3>1. c[k] = chain[k] /\ k \in 1 .. n
      BY <1>3, <2>1
    <3> QED BY <1>4, <1>5, <3>1
  <2>5. \A i \in 1 .. n : i \in 1 .. Len(c) \/ i = n
    BY <1>3
  <2>6. ASSUME NEW x
        PROVE  x \in dispatched <=> \/ x \in Gone \cup ToSet(left)
                                    \/ \E i \in 1 .. Len(c) : x \in ToSet(c[i].events)
    BY <1>3, <1>4, <1>5, <2>1, <2>5
  <2> QED BY <1>3, <2>2, <2>3, <2>4, <2>6 DEF Sound
<1>7. Gone' = Gone \cup failing /\ failing \cap Gone = {}
  BY <1>2, <1>4, <1>5 DEF Gone
<1>8. Sound(chain', Gone', {}, dispatched', born')
  <2>1. Sound(PutAll(c, left, failing), Gone \cup failing, {}, dispatched, born)
    BY <1>4, <1>6, PutAllSound
  <2> QED BY <1>2, <1>7, <2>1
<1>9. failing \in SUBSET Runnables
  BY <1>4 DEF ToSet
<1>10. ChainTypeOK'
  BY <1>1, <1>2, <1>8, <1>9, ChainTypeNext
<1>11. GoneOnce'
  BY <1>1, <1>2, <1>7 DEF GoneOnce, Gone
<1> QED BY <1>8, <1>10, <1>11, ChainInvSoundNext

LEMMA ChainGet ==
    ASSUME ChainInv, GetEvent
    PROVE  ChainInv'
<1>1. /\ Sound(chain, Gone, {}, dispatched, born) /\ GoneOnce
      /\ chain \in Seq(ChainedQueues) /\ Len(chain) \in Nat /\ Len(chain) >= 1
      /\ Youngest = Len(chain)
      /\ pushes \in 0 .. MaxPushes /\ born \in [Runnables -> SUBSET (0 .. MaxPushes)]
      /\ dispatched \in SUBSET Runnables /\ processed \in Seq(Runnables)
      /\ lost \in SUBSET Runnables
  BY ChainFacts
<1>. PICK n \in Nat : n = Len(chain) /\ n \in 1 .. n
  BY <1>1
<1>. PICK old : old = chain[n].events
  OBVIOUS
<1>. PICK h : h = Head(old)
  OBVIOUS
<1>. PICK q : q = Tail(old)
  OBVIOUS
<1>. PICK c : c = chain'
  OBVIOUS
<1>2. /\ old # << >> /\ processed' = Append(processed, h)
      /\ c = [chain EXCEPT ![n].events = q]
      /\ UNCHANGED <<pushes, born, dispatched, lost>>
  BY <1>1 DEF GetEvent
<1>3. chain[n] \in ChainedQueues /\ old \in Seq(Runnables)
  BY <1>1, QueueFields
<1>4. /\ \A i \in 1 .. n :
           /\ Distinct(chain[i].events)
           /\ ToSet(chain[i].events) \cap (Gone \cup {}) = {}
           /\ \A j \in 1 .. n : i # j => ToSet(chain[i].events) \cap ToSet(chain[j].events) = {}
           /\ \A e \in ToSet(chain[i].events) : \A k \in 1 .. i : chain[k].id \in born[e]
      /\ \A x : x \in dispatched <=> \/ x \in Gone \cup {}
                                     \/ \E i \in 1 .. n : x \in ToSet(chain[i].events)
  BY <1>1 DEF Sound
<1>5. /\ q \in Seq(Runnables) /\ h \in Runnables /\ h \in ToSet(old)
      /\ Distinct(q) /\ ToSet(q) = ToSet(old) \ {h}
  <2>1. Distinct(old)
    BY <1>4
  <2> QED BY <1>2, <1>3, <2>1, TailSet
<1>6. h \notin Gone /\ \A i \in 1 .. n : i # n => h \notin ToSet(chain[i].events)
  BY <1>4, <1>5
<1>7. /\ processed' \in Seq(Runnables) /\ GoneOnce'
      /\ Gone' = Gone \cup {h}
  <2>1. h \notin ToSet(processed) /\ h \notin lost /\ Distinct(processed)
    BY <1>1, <1>6 DEF Gone, GoneOnce
  <2>2. /\ processed' \in Seq(Runnables) /\ Distinct(processed')
        /\ ToSet(processed') = ToSet(processed) \cup {h}
    BY <1>1, <1>2, <1>5, <2>1, AppendSet
  <2> QED BY <1>1, <1>2, <2>1, <2>2 DEF Gone, GoneOnce
<1>8. /\ c \in Seq(ChainedQueues) /\ Len(c) = n /\ n >= 1
      /\ \A k \in 1 .. n : c[k].id = chain[k].id
      /\ \A k \in 1 .. n : k # n => c[k].events = chain[k].events
      /\ c[n].events = q
  <2>1. [chain[n] EXCEPT !.events = q] \in ChainedQueues
    BY <1>3, <1>5 DEF ChainedQueues
  <2>2. /\ [chain[n] EXCEPT !.events = q].events = q
        /\ [chain[n] EXCEPT !.events = q].id = chain[n].id
    BY <1>3 DEF ChainedQueues
  <2>3. c = [chain EXCEPT ![n] = [chain[n] EXCEPT !.events = q]]
    BY <1>1, <1>2
  <2> QED BY <1>1, <2>1, <2>2, <2>3
<1>9. \A k \in 1 .. n : ToSet(c[k].events) = ToSet(chain[k].events) \ {h}
  <2>1. TAKE k \in 1 .. n
  <2>2. CASE k = n
    BY <1>5, <1>8, <2>2
  <2>3. CASE k # n
    BY <1>6, <1>8, <2>3
  <2> QED BY <2>2, <2>3
<1>10. Sound(c, Gone', {}, dispatched, born)
  <2>1. ASSUME NEW i \in 1 .. n
        PROVE  /\ Distinct(c[i].events)
               /\ ToSet(c[i].events) \cap (Gone' \cup {}) = {}
               /\ \A j \in 1 .. n : i # j => ToSet(c[i].events) \cap ToSet(c[j].events) = {}
               /\ \A e \in ToSet(c[i].events) : \A k \in 1 .. i : c[k].id \in born[e]
    <3>1. Distinct(c[i].events)
      <4>1. CASE i = n
        <5>1. c[i].events = q
          BY <1>8, <4>1
        <5> QED BY <1>5, <5>1
      <4>2. CASE i # n
        <5>1. c[i].events = chain[i].events
          BY <1>8, <4>2
        <5> QED BY <1>4, <5>1
      <4> QED BY <4>1, <4>2
    <3>2. ToSet(c[i].events) \cap (Gone' \cup {}) = {}
      <4>1. ToSet(chain[i].events) \cap (Gone \cup {}) = {}
        BY <1>4
      <4>2. ToSet(c[i].events) = ToSet(chain[i].events) \ {h}
        BY <1>9
      <4> QED BY <1>7, <4>1, <4>2
    <3>3. \A j \in 1 .. n : i # j => ToSet(c[i].events) \cap ToSet(c[j].events) = {}
      BY <1>4, <1>9
    <3>4. ASSUME NEW e \in ToSet(c[i].events), NEW k \in 1 .. i PROVE c[k].id \in born[e]
      <4>1. k \in 1 .. n /\ e \in ToSet(chain[i].events)
        BY <1>9
      <4> QED BY <1>4, <1>8, <4>1
    <3> QED BY <3>1, <3>2, <3>3, <3>4
  <2>2. ASSUME NEW x
        PROVE  x \in dispatched <=> \/ x \in Gone' \cup {}
                                    \/ \E i \in 1 .. n : x \in ToSet(c[i].events)
    <3>1. CASE x = h
      BY <1>4, <1>5, <1>7, <3>1
    <3>2. CASE x # h
      <4>1. x \in Gone' \cup {} <=> x \in Gone \cup {}
        BY <1>7, <3>2
      <4>2. \A i \in 1 .. n : x \in ToSet(c[i].events) <=> x \in ToSet(chain[i].events)
        BY <1>9, <3>2
      <4> QED BY <1>4, <4>1, <4>2
    <3> QED BY <3>1, <3>2
  <2> QED BY <1>8, <2>1, <2>2 DEF Sound
<1>11. Sound(chain', Gone', {}, dispatched', born')
  BY <1>2, <1>10
<1>12. ChainTypeOK'
  BY <1>1, <1>2, <1>7, <1>11, ChainTypeNext
<1> QED BY <1>7, <1>11, <1>12, ChainInvSoundNext

LEMMA ChainBegins ==
    ASSUME ChainInit
    PROVE  ChainInv
<1>. PICK q : q = [id |-> 0, filter |-> Runnables, events |-> << >>]
  OBVIOUS
<1>1. /\ chain = <<q>> /\ pushes = 0 /\ born = [e \in Runnables |-> {}]
      /\ dispatched = {} /\ processed = << >> /\ lost = {}
  BY DEF ChainInit, Queue
<1>2. MaxPushes \in Nat
  BY ChainAssumption
<1>3. q \in ChainedQueues /\ q.events = << >>
  BY <1>2 DEF ChainedQueues
<1>4. ToSet(q.events) = {} /\ Distinct(q.events) /\ Gone = {} /\ GoneOnce
  BY <1>1, <1>3, EmptyList DEF Gone, GoneOnce
<1>5. chain \in Seq(ChainedQueues) /\ Len(chain) = 1 /\ chain[1] = q
  BY <1>1, <1>3
<1>6. Sound(chain, Gone, {}, dispatched, born)
  <2>1. \A i \in 1 .. Len(chain) : ToSet(chain[i].events) = {} /\ Distinct(chain[i].events)
    BY <1>4, <1>5
  <2> QED BY <1>1, <1>4, <1>5, <2>1 DEF Sound
<1>7. ChainTypeOK
  BY <1>1, <1>2, <1>5 DEF ChainTypeOK, Youngest, ChainedQueues
<1> QED BY <1>4, <1>6, <1>7, ChainInvSound

LEMMA ChainStep ==
    ASSUME ChainInv, [ChainNext]_chainVars
    PROVE  ChainInv'
<1>1. CASE UNCHANGED chainVars
  <2>1. UNCHANGED <<chain, pushes, born, dispatched, processed, lost>>
    BY <1>1 DEF chainVars
  <2> QED BY <2>1, ChainInvSound, ChainInvSoundNext
             DEF ChainTypeOK, Youngest, Gone, GoneOnce
<1> QED BY <1>1, ChainPut, ChainPush, ChainPop, ChainGet DEF ChainNext

\* However queues with filters are pushed and popped, for any number of them:
\* PutEvent, PushEventQueue, PopEventQueue and GetEvent duplicate no event and
\* lose none but those PopEventQueue finds no memory for, and an event waits
\* only in queues it was dispatched under.
THEOREM ChainInvariant == ChainSafetySpec => []ChainInv
<1>1. ChainInit => ChainInv
  BY ChainBegins
<1>2. ChainInv /\ [ChainNext]_chainVars => ChainInv'
  BY ChainStep
<1> QED BY <1>1, <1>2, PTL DEF ChainSafetySpec

\* No event is processed in a queue pushed after it was dispatched: it is held
\* back until PopEventQueue moves it to a queue it was dispatched under.
THEOREM ChainSuppresses == ChainSafetySpec => SuppressedUntilPop
<1>1. ASSUME ChainInv, [ChainNext]_chainVars, NEW e \in Runnables,
             processed' # processed, Last(processed') = e
      PROVE  Ids \subseteq born[e]
  <2>1. GetEvent
    BY <1>1 DEF ChainNext, chainVars, ThreadPutEvent, PushEventQueue,
                PopEventQueue
  <2>2. /\ Sound(chain, Gone, {}, dispatched, born)
        /\ chain \in Seq(ChainedQueues) /\ Len(chain) \in Nat /\ Len(chain) >= 1
        /\ Youngest = Len(chain) /\ processed \in Seq(Runnables)
    BY <1>1, ChainFacts
  <2>. PICK n \in Nat : n = Len(chain) /\ n \in 1 .. n
    BY <2>2
  <2>. PICK old : old = chain[n].events
    OBVIOUS
  <2>3. old \in Seq(Runnables) /\ old # << >> /\ processed' = Append(processed, Head(old))
    BY <2>1, <2>2, QueueFields DEF GetEvent
  <2>4. Head(old) \in Runnables /\ Head(old) \in ToSet(old)
    BY <2>3, TailSet
  <2>5. e = Head(old)
    BY <1>1, <2>2, <2>3, <2>4, AppendFacts DEF Last
  <2>6. \A k \in 1 .. n : chain[k].id \in born[e]
    BY <2>2, <2>4, <2>5 DEF Sound
  <2>7. DOMAIN chain = 1 .. n
    BY <2>2
  <2> QED BY <2>6, <2>7 DEF Ids
<1>2. ChainInv /\ [ChainNext]_chainVars
        => [\A e \in Runnables : (processed' # processed /\ Last(processed') = e)
                                 => Ids \subseteq born[e]]_chainVars
  BY <1>1
<1> QED BY <1>2, ChainInvariant, PTL DEF ChainSafetySpec, SuppressedUntilPop

==============================================================================
