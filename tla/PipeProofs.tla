------------------------------ MODULE PipeProofs ------------------------------
(***************************************************************************)
(* For every segment size, segment count, set of read and write counts and *)
(* bound: PipeInv and NobodyWaitsInVain are invariants of Pipe, and Pipe   *)
(* implements the bounded FIFO of BytePipe.                                *)
(***************************************************************************)
EXTENDS Pipe, FiniteSetTheorems, TLAPS

\* Neither invariant is inductive alone: a region stays owned only because
\* nobody sleeps where the other end notifies, and the reverse.
Inv == PipeInv /\ NobodyWaitsInVain

-----------------------------------------------------------------------------
\* Products of naturals, as the provers need them.
LEMMA ProductNat == ASSUME NEW a \in Nat, NEW b \in Nat PROVE a * b \in Nat
OBVIOUS

LEMMA ProductStep ==
    ASSUME NEW a \in Int, NEW b \in Int PROVE (a + 1) * b = a * b + b /\ a * b \in Int
OBVIOUS

LEMMA ProductMonotone ==
    ASSUME NEW a \in Nat, NEW b \in Nat, NEW c \in Nat, a <= b PROVE a * c <= b * c
<1>1. PICK d \in Nat : b = a + d
  <2>1. b - a \in Nat /\ b = a + (b - a)
    OBVIOUS
  <2> QED BY <2>1
<1>2. d * c \in Nat /\ a * c \in Nat
  BY ProductNat
<1>3. (a + d) * c = a * c + d * c
  OBVIOUS
<1> QED BY <1>1, <1>2, <1>3

LEMMA ModRange == ASSUME NEW a \in Int, NEW b \in Nat \ {0} PROVE a % b \in 0 .. b - 1
OBVIOUS

\* mAvailable has room for a full pipe.
LEMMA WordHasRoom == Word \in Nat /\ SegCount * SegSize \in Nat /\ SegCount * SegSize < Word
<1>1. SegCount * SegSize \in Nat
  BY SegAssumption, ProductNat
<1> QED BY <1>1, WordAssumption

\* What a null segment means for the cursors, and a segment for the index.
LEMMA Shape ==
    ASSUME TypeOK
    PROVE  /\ Len(segs) \in Nat /\ mWriteSegment = Len(segs) - 1
           /\ segs = <<>> <=> Len(segs) = 0
           /\ mReadCursor \in -1 .. SegSize /\ mReadLimit \in -1 .. SegSize
           /\ mWriteCursor \in -1 .. SegSize /\ mWriteLimit \in -1 .. SegSize
           /\ SegSize \in Nat \ {0} /\ SegCount \in Nat \ {0}
BY SegAssumption DEF TypeOK, Null

\* The functions on the ends, and what they are functions to.
LEMMA EndTypes ==
    ASSUME TypeOK
    PROVE  /\ mBlocking \in [End -> BOOLEAN] /\ mBlocked \in [End -> BOOLEAN]
           /\ mCallback \in [End -> {"none", "ready", "closure"}] /\ asleep \subseteq End
           /\ pc \in [End -> {"idle", "get", "have", "wait", "blocked", "would_block", "async"}]
           /\ count \in [End -> Nat] /\ moved \in [End -> Nat]
           /\ ptr \in [End -> 0 .. SegSize] /\ len \in [End -> 0 .. SegSize]
           /\ told \in [End -> BOOLEAN] /\ inClosed \in BOOLEAN /\ ended \in BOOLEAN
           /\ missed \in BOOLEAN /\ late \in BOOLEAN
BY DEF TypeOK

\* A step that leaves the segments, the cursors and the bytes counted alone
\* leaves alone what is said of them.
LEMMA BufferSame ==
    ASSUME UNCHANGED <<buffer, written, delivered>>
    PROVE  /\ UnreadCount' = UnreadCount
           /\ CursorsOK => CursorsOK'
           /\ BufferHoldsTheRest => BufferHoldsTheRest'
           /\ NeedsSegment' = NeedsSegment /\ Full' = Full
BY DEF buffer, UnreadCount, UnreadBefore, PeekLimit, PeekCursor, CursorsOK,
       BufferHoldsTheRest, NeedsSegment, Full

\* Nothing is unread exactly when the read cursor is at its limit: then the
\* segment being written is the only one.
LEMMA EmptyIff ==
    ASSUME TypeOK, CursorsOK
    PROVE  /\ UnreadCount \in Nat
           /\ UnreadCount = 0 <=> ~ HasData
           /\ segs # <<>> /\ HasData => mReadCursor < mReadLimit
<1>1. /\ Len(segs) \in Nat /\ mWriteSegment = Len(segs) - 1
      /\ (segs = <<>> <=> Len(segs) = 0) /\ SegSize \in Nat \ {0}
  BY Shape
<1>2. CASE segs = <<>>
  BY <1>2 DEF UnreadCount, HasData, CursorsOK
<1>3. CASE segs # <<>>
  <2>1. /\ mReadCursor \in Int /\ mReadLimit \in Int /\ mWriteCursor \in Nat
        /\ mReadCursor <= mReadLimit /\ mReadCursor < SegSize
        /\ mReadLimit = IF mWriteSegment = 0 THEN mWriteCursor ELSE SegSize
    BY <1>3, Shape DEF CursorsOK
  <2>2. CASE mWriteSegment = 0
    BY <1>3, <2>1, <2>2
       DEF UnreadCount, UnreadBefore, PeekLimit, PeekCursor, HasData
  <2>3. CASE mWriteSegment # 0
    <3>1. mWriteSegment - 1 \in Nat /\ SegSize \in Nat
      BY <1>1, <1>3, <2>3
    <3>2. (mWriteSegment - 1) * SegSize \in Nat
      BY <1>1, <3>1, ProductNat
    <3> DEFINE k == (mWriteSegment - 1) * SegSize
    <3> HIDE DEF k
    <3>3. UnreadCount = (mReadLimit - mReadCursor + (mWriteSegment - 1) * SegSize)
                          + mWriteCursor - 0
      BY <1>3, <2>3 DEF UnreadCount, UnreadBefore, PeekLimit, PeekCursor
    <3>4. k \in Nat /\ UnreadCount = mReadLimit - mReadCursor + k + mWriteCursor
      BY <2>1, <3>2, <3>3 DEF k
    <3>5. mReadCursor < mReadLimit
      BY <2>1, <2>3
    <3> QED BY <2>1, <3>4, <3>5 DEF HasData
  <2> QED BY <2>2, <2>3
<1> QED BY <1>2, <1>3

\* A notify for each end that sleeps wakes them all.
LEMMA SignalWakes ==
    ASSUME NEW ends \in SUBSET End, NEW kinds, Signal(ends, kinds),
           asleep \subseteq {e \in ends : Notifies(e, kinds)}
    PROVE  asleep' = {}
<1> DEFINE N == {e \in ends : Notifies(e, kinds)}
<1>1. IsFiniteSet(End)
  <2>1. IsFiniteSet({"in"}) /\ IsFiniteSet({"out"})
    BY FS_Singleton
  <2>2. End = {"in"} \cup {"out"}
    BY DEF End
  <2> QED BY <2>1, <2>2, FS_Union
<1>2. IsFiniteSet(N) /\ IsFiniteSet(asleep)
  <2>1. N \subseteq End /\ asleep \subseteq End
    OBVIOUS
  <2> QED BY <1>1, <2>1, FS_Subset
<1>3. Cardinality(asleep) \in Nat /\ Cardinality(N) \in Nat
      /\ Cardinality(asleep) <= Cardinality(N)
  BY <1>2, FS_Subset, FS_CardinalityType
<1>4. Least(Cardinality(N), Cardinality(asleep)) = Cardinality(asleep)
  BY <1>3 DEF Least
<1>5. asleep' \subseteq asleep /\ Cardinality(asleep \ asleep') = Cardinality(asleep)
  BY <1>4 DEF Signal
<1>6. asleep \ asleep' = asleep
  BY <1>2, <1>5, FS_Subset
<1> QED BY <1>5, <1>6

-----------------------------------------------------------------------------
\* Init establishes both invariants.
LEMMA InitInv == Init => Inv
<1> SUFFICES ASSUME Init PROVE Inv
  OBVIOUS
<1>1. /\ segs \in Seq([Offsets -> Nat]) /\ delivered \in Seq(Nat)
      /\ Len(segs) = 0 /\ Len(delivered) = 0 /\ segs = <<>> /\ mWriteSegment = -1
      /\ written = 0 /\ mAvailable = 0 /\ mStatus = "ok"
      /\ mWritable = TRUE /\ inClosed = FALSE /\ ended = FALSE /\ asleep = {}
      /\ missed = FALSE /\ late = FALSE
      /\ mReadCursor = Null /\ mReadLimit = Null /\ mWriteCursor = Null /\ mWriteLimit = Null
  BY DEF Init
<1>2. \A e \in End : /\ mBlocked[e] = FALSE /\ told[e] = FALSE /\ mCallback[e] = "none"
                     /\ pc[e] = "idle" /\ count[e] = 0 /\ moved[e] = 0
                     /\ ptr[e] = 0 /\ len[e] = 0
  BY DEF Init
<1>3. SegSize \in Nat /\ SegCount \in Nat /\ Word - 1 \in Nat
  BY SegAssumption, WordHasRoom
<1>4. TypeOK
  <2>1. /\ mBlocked \in [End -> BOOLEAN] /\ told \in [End -> BOOLEAN]
        /\ mCallback \in [End -> {"none", "ready", "closure"}]
        /\ pc \in [End -> {"idle", "get", "have", "wait", "blocked", "would_block", "async"}]
        /\ count \in [End -> Nat] /\ moved \in [End -> Nat]
        /\ ptr \in [End -> 0 .. SegSize] /\ len \in [End -> 0 .. SegSize]
        /\ mBlocking \in [End -> BOOLEAN]
    BY <1>3 DEF Init
  <2>2. {mReadCursor, mReadLimit, mWriteCursor, mWriteLimit} \subseteq Null .. SegSize
    BY <1>1, <1>3 DEF Null
  <2>3. Len(segs) <= SegCount /\ mWriteSegment = Len(segs) - 1 /\ mAvailable \in 0 .. Word - 1
    BY <1>1, <1>3
  <2> QED BY <1>1, <2>1, <2>2, <2>3 DEF TypeOK
<1>5. UnreadCount = 0 /\ CursorsOK
  BY <1>1 DEF UnreadCount, CursorsOK
<1>6. BufferHoldsTheRest /\ AvailableExact
  BY <1>1, <1>5 DEF BufferHoldsTheRest, AvailableExact
<1>7. RegionsOwned /\ RegionsDisjoint /\ EndsOK
  BY <1>1, <1>2 DEF RegionsOwned, RegionsDisjoint, EndsOK, End
<1>8. NobodyWaitsInVain
  BY <1>1, <1>2 DEF NobodyWaitsInVain, WaitersOK, NoLostWakeup, CallbackNotStranded, End
<1> QED BY <1>4, <1>5, <1>6, <1>7, <1>8 DEF Inv, PipeInv

\* A call begins.
LEMMA CallPreserves ==
    ASSUME Inv, NEW e \in End, NEW n \in Counts, Call(e, n)
    PROVE  Inv'
<1> USE CountsAssumption DEF Inv, Call
<1>1. UNCHANGED <<buffer, written, delivered>>
  BY DEF hist
<1>2. /\ UnreadCount' = UnreadCount /\ CursorsOK' /\ BufferHoldsTheRest'
      /\ NeedsSegment' = NeedsSegment /\ Full' = Full
  BY <1>1, BufferSame DEF PipeInv
<1>3. TypeOK'
  BY DEF PipeInv, TypeOK, buffer, status, wakeup, hist, End
<1>4. AvailableExact' /\ RegionsOwned' /\ RegionsDisjoint' /\ EndsOK'
  <2>1. AvailableExact' /\ EndsOK'
    BY <1>2, EndTypes DEF PipeInv, AvailableExact, EndsOK, status, hist, End, Failed
  <2>2. RegionsOwned'
    BY EndTypes DEF PipeInv, RegionsOwned, buffer, End
  <2>3. RegionsDisjoint'
    BY EndTypes DEF PipeInv, RegionsDisjoint, buffer, End
  <2> QED BY <2>1, <2>2, <2>3
<1>5. NobodyWaitsInVain'
  BY <1>2, EndTypes DEF PipeInv, NobodyWaitsInVain, WaitersOK, NoLostWakeup,
              CallbackNotStranded, status, wakeup, hist, End, Failed
<1> QED BY <1>2, <1>3, <1>4, <1>5 DEF PipeInv

\* The reader gets a region.
LEMMA ReadGetPreserves ==
    ASSUME Inv, ReadGet
    PROVE  Inv'
<1> USE DEF Inv, ReadGet, Least, HasData
<1>1. UNCHANGED <<buffer, written, delivered>>
  BY DEF hist, status, call
<1>2. /\ UnreadCount' = UnreadCount /\ CursorsOK' /\ BufferHoldsTheRest'
      /\ NeedsSegment' = NeedsSegment /\ Full' = Full
  BY <1>1, BufferSame DEF PipeInv
<1>a. /\ mReadCursor \in 0 .. SegSize /\ mReadLimit \in 0 .. SegSize
      /\ mReadCursor < mReadLimit /\ count["in"] \in Nat /\ 0 < count["in"]
      /\ segs # <<>> /\ SegSize \in Nat
  <2>1. segs # <<>>
    BY DEF PipeInv, CursorsOK
  <2>2. mReadCursor < mReadLimit
    BY <2>1, EmptyIff DEF PipeInv
  <2>3. mReadCursor \in 0 .. SegSize /\ mReadLimit \in 0 .. SegSize /\ SegSize \in Nat
    BY <2>1, Shape DEF PipeInv, CursorsOK
  <2>4. count["in"] \in Nat /\ 0 < count["in"]
    BY DEF PipeInv, TypeOK, RegionsOwned, End
  <2> QED BY <2>1, <2>2, <2>3, <2>4
<1>b. \E l \in 1 .. SegSize :
         /\ len' = [len EXCEPT !["in"] = l]
         /\ l <= count["in"] /\ mReadCursor + l <= mReadLimit
  <2> DEFINE l == Least(mReadLimit - mReadCursor, count["in"])
  <2>1. l \in 1 .. SegSize /\ l <= count["in"] /\ mReadCursor + l <= mReadLimit
    BY <1>a DEF Least
  <2> QED BY <2>1
<1>3. TypeOK'
  <2>1. /\ pc' \in [End -> {"idle", "get", "have", "wait", "blocked", "would_block", "async"}]
        /\ ptr' \in [End -> 0 .. SegSize] /\ len' \in [End -> 0 .. SegSize]
    <3>1. PICK l \in 1 .. SegSize : len' = [len EXCEPT !["in"] = l]
      BY <1>b
    <3>2. /\ pc \in [End -> {"idle", "get", "have", "wait", "blocked", "would_block", "async"}]
          /\ ptr \in [End -> 0 .. SegSize] /\ len \in [End -> 0 .. SegSize]
          /\ mReadCursor \in 0 .. SegSize /\ l \in 0 .. SegSize
      BY <1>a DEF PipeInv, TypeOK
    <3> QED BY <3>1, <3>2
  <2> QED BY <2>1 DEF PipeInv, TypeOK, buffer, status, wakeup, hist
<1>4. AvailableExact' /\ RegionsOwned' /\ RegionsDisjoint' /\ EndsOK'
  <2>1. RegionsOwned'
    BY <1>a, <1>b, EndTypes DEF PipeInv, RegionsOwned, buffer, End
  <2>2. RegionsDisjoint'
    <3>1. pc'["out"] = pc["out"] /\ ptr'["out"] = ptr["out"]
          /\ (pc["out"] = "have" => ptr["out"] = mWriteCursor)
      BY DEF PipeInv, TypeOK, RegionsOwned, End
    <3>2. Len(segs) = 1 => mReadLimit = mWriteCursor
      BY <1>a DEF PipeInv, TypeOK, CursorsOK
    <3>3. ptr'["in"] + len'["in"] <= mReadLimit
      BY <1>a, <1>b DEF PipeInv, TypeOK, End
    <3> QED BY <3>1, <3>2, <3>3 DEF RegionsDisjoint, buffer
  <2>3. AvailableExact' /\ EndsOK'
    BY <1>2 DEF PipeInv, TypeOK, AvailableExact, EndsOK, status, hist, End, Failed
  <2> QED BY <2>1, <2>2, <2>3
<1>5. NobodyWaitsInVain'
  BY <1>2, EndTypes DEF PipeInv, NobodyWaitsInVain, WaitersOK, NoLostWakeup,
              CallbackNotStranded, status, wakeup, call, hist, End, Failed
<1> QED BY <1>2, <1>3, <1>4, <1>5 DEF PipeInv

\* The reader finds nothing.
LEMMA ReadEmptyPreserves ==
    ASSUME Inv, ReadEmpty
    PROVE  Inv'
<1> USE DEF Inv, ReadEmpty, OnWouldBlock
<1>1. UNCHANGED <<buffer, written, delivered>>
  BY DEF hist, status, call
<1>2. /\ UnreadCount' = UnreadCount /\ CursorsOK' /\ BufferHoldsTheRest'
      /\ NeedsSegment' = NeedsSegment /\ Full' = Full
  BY <1>1, BufferSame DEF PipeInv
<1>3. TypeOK'
  <2>1. /\ pc' \in [End -> {"idle", "get", "have", "wait", "blocked", "would_block", "async"}]
        /\ mCallback' \in [End -> {"none", "ready", "closure"}] /\ told' \in [End -> BOOLEAN]
        /\ ended' \in BOOLEAN
    BY EndTypes DEF PipeInv, status, wakeup, call, hist, End
  <2> QED BY <2>1 DEF PipeInv, TypeOK, buffer, status, wakeup, call, hist
<1>4. AvailableExact' /\ RegionsOwned' /\ RegionsDisjoint' /\ EndsOK'
  <2>1. AvailableExact' /\ EndsOK'
    BY <1>2, EndTypes DEF PipeInv, AvailableExact, EndsOK, status, call, hist, End, Failed
  <2>2. RegionsOwned'
    BY EndTypes DEF PipeInv, RegionsOwned, buffer, call, End
  <2>3. RegionsDisjoint'
    BY EndTypes DEF PipeInv, RegionsDisjoint, buffer, call, End
  <2> QED BY <2>1, <2>2, <2>3
<1>5. NobodyWaitsInVain'
  BY <1>2, EndTypes DEF PipeInv, NobodyWaitsInVain, WaitersOK, NoLostWakeup,
              CallbackNotStranded, status, wakeup, call, hist, End, Failed
<1> QED BY <1>2, <1>3, <1>4, <1>5 DEF PipeInv

\* A callback takes or fills nothing: the call ends.
LEMMA RefusePreserves ==
    ASSUME Inv, NEW e \in End, Refuse(e)
    PROVE  Inv'
<1> USE DEF Inv, Refuse, Progress
<1>1. UNCHANGED <<buffer, written, delivered>>
  BY DEF hist, status, call
<1>2. /\ UnreadCount' = UnreadCount /\ CursorsOK' /\ BufferHoldsTheRest'
      /\ NeedsSegment' = NeedsSegment /\ Full' = Full
  BY <1>1, BufferSame DEF PipeInv
<1>3. TypeOK'
  <2>1. /\ pc' \in [End -> {"idle", "get", "have", "wait", "blocked", "would_block", "async"}]
        /\ count' \in [End -> Nat] /\ moved' \in [End -> Nat]
        /\ ptr' \in [End -> 0 .. SegSize] /\ len' \in [End -> 0 .. SegSize]
    <3>1. /\ pc' = [pc EXCEPT ![e] = "idle"] \/ pc' = [pc EXCEPT ![e] = "get"]
          /\ count' = [count EXCEPT ![e] = 0] \/ count' = [count EXCEPT ![e] = count[e] - 0]
          /\ moved' = [moved EXCEPT ![e] = moved[e] + 0]
          /\ ptr' = [ptr EXCEPT ![e] = 0] /\ len' = [len EXCEPT ![e] = 0]
      OBVIOUS
    <3>2. count[e] - 0 \in Nat /\ moved[e] + 0 \in Nat /\ 0 \in 0 .. SegSize
      BY SegAssumption DEF PipeInv, TypeOK
    <3> QED BY <3>1, <3>2 DEF PipeInv, TypeOK
  <2> QED BY <2>1 DEF PipeInv, TypeOK, buffer, status, wakeup, call, hist
<1>4. AvailableExact' /\ RegionsOwned' /\ RegionsDisjoint' /\ EndsOK'
  <2>1. AvailableExact' /\ EndsOK'
    BY <1>2, EndTypes DEF PipeInv, AvailableExact, EndsOK, status, call, hist, End, Failed
  <2>2. RegionsOwned'
    BY EndTypes DEF PipeInv, RegionsOwned, buffer, call, End
  <2>3. RegionsDisjoint'
    BY EndTypes DEF PipeInv, RegionsDisjoint, buffer, call, End
  <2> QED BY <2>1, <2>2, <2>3
<1>5. NobodyWaitsInVain'
  BY <1>2, EndTypes DEF PipeInv, NobodyWaitsInVain, WaitersOK, NoLostWakeup,
              CallbackNotStranded, status, wakeup, call, hist, End, Failed
<1> QED BY <1>2, <1>3, <1>4, <1>5 DEF PipeInv

\* The writer finds the pipe ended.
LEMMA WriteFailedPreserves ==
    ASSUME Inv, WriteFailed
    PROVE  Inv'
<1> USE DEF Inv, WriteFailed
<1>1. UNCHANGED <<buffer, written, delivered>>
  BY DEF hist, status, call
<1>2. /\ UnreadCount' = UnreadCount /\ CursorsOK' /\ BufferHoldsTheRest'
      /\ NeedsSegment' = NeedsSegment /\ Full' = Full
  BY <1>1, BufferSame DEF PipeInv
<1>3. TypeOK'
  <2>1. /\ pc' \in [End -> {"idle", "get", "have", "wait", "blocked", "would_block", "async"}]
        /\ mCallback' \in [End -> {"none", "ready", "closure"}] /\ told' \in [End -> BOOLEAN]
        /\ ended' \in BOOLEAN
    BY EndTypes DEF PipeInv, status, wakeup, call, hist, End
  <2> QED BY <2>1 DEF PipeInv, TypeOK, buffer, status, wakeup, call, hist
<1>4. AvailableExact' /\ RegionsOwned' /\ RegionsDisjoint' /\ EndsOK'
  <2>1. AvailableExact' /\ EndsOK'
    BY <1>2, EndTypes DEF PipeInv, AvailableExact, EndsOK, status, call, hist, End, Failed
  <2>2. RegionsOwned'
    BY EndTypes DEF PipeInv, RegionsOwned, buffer, call, End
  <2>3. RegionsDisjoint'
    BY EndTypes DEF PipeInv, RegionsDisjoint, buffer, call, End
  <2> QED BY <2>1, <2>2, <2>3
<1>5. NobodyWaitsInVain'
  BY <1>2, EndTypes DEF PipeInv, NobodyWaitsInVain, WaitersOK, NoLostWakeup,
              CallbackNotStranded, status, wakeup, call, hist, End, Failed
<1> QED BY <1>2, <1>3, <1>4, <1>5 DEF PipeInv

\* The writer finds no room.
LEMMA WriteFullPreserves ==
    ASSUME Inv, WriteFull
    PROVE  Inv'
<1> USE DEF Inv, WriteFull, OnWouldBlock
<1>1. UNCHANGED <<buffer, written, delivered>>
  BY DEF hist, status, call
<1>2. /\ UnreadCount' = UnreadCount /\ CursorsOK' /\ BufferHoldsTheRest'
      /\ NeedsSegment' = NeedsSegment /\ Full' = Full
  BY <1>1, BufferSame DEF PipeInv
<1>3. TypeOK'
  <2>1. pc' \in [End -> {"idle", "get", "have", "wait", "blocked", "would_block", "async"}]
    BY EndTypes DEF PipeInv, End
  <2> QED BY <2>1 DEF PipeInv, TypeOK, buffer, status, wakeup, call, hist
<1>4. AvailableExact' /\ RegionsOwned' /\ RegionsDisjoint' /\ EndsOK'
  <2>1. AvailableExact' /\ EndsOK'
    BY <1>2, EndTypes DEF PipeInv, AvailableExact, EndsOK, status, call, hist, End, Failed
  <2>2. RegionsOwned'
    BY EndTypes DEF PipeInv, RegionsOwned, buffer, call, End
  <2>3. RegionsDisjoint'
    BY EndTypes DEF PipeInv, RegionsDisjoint, buffer, call, End
  <2> QED BY <2>1, <2>2, <2>3
<1>5. NobodyWaitsInVain'
  BY <1>2, EndTypes DEF PipeInv, NobodyWaitsInVain, WaitersOK, NoLostWakeup,
              CallbackNotStranded, status, wakeup, call, hist, End, Failed
<1> QED BY <1>2, <1>3, <1>4, <1>5 DEF PipeInv

\* The reader goes to sleep on an empty pipe, or goes on.
LEMMA InWaitPreserves ==
    ASSUME Inv, InWait
    PROVE  Inv'
<1> USE DEF Inv, InWait, MustWaitIn, Sleep, Awake
<1>1. UNCHANGED <<buffer, written, delivered>>
  BY DEF hist, status, call
<1>2. /\ UnreadCount' = UnreadCount /\ CursorsOK' /\ BufferHoldsTheRest'
      /\ NeedsSegment' = NeedsSegment /\ Full' = Full
  BY <1>1, BufferSame DEF PipeInv
<1>a. /\ \/ Sleep("in") /\ ~ Failed /\ mAvailable = 0
         \/ Awake("in")
      /\ pc["in"] \in {"wait", "blocked"} /\ "in" \notin asleep
  BY DEF Failed
<1>b. PICK v \in {"blocked", "idle", "get"} :
        /\ pc' = [pc EXCEPT !["in"] = v]
        /\ mBlocked' = [mBlocked EXCEPT !["in"] = (v = "blocked")]
        /\ asleep' = asleep \/ asleep' = asleep \union {"in"}
        /\ ended' = ended \/ ended' = TRUE
  <2>1. CASE Sleep("in")
    BY <2>1
  <2>2. CASE Awake("in")
    <3>1. mBlocked' = [mBlocked EXCEPT !["in"] = FALSE] /\ asleep' = asleep
          /\ (pc' = [pc EXCEPT !["in"] = "idle"] \/ pc' = [pc EXCEPT !["in"] = "get"])
      BY <2>2
    <3>2. ended' = ended \/ ended' = TRUE
      BY <2>2 DEF PipeInv, TypeOK
    <3> QED BY <3>1, <3>2
  <2> QED BY <1>a, <2>1, <2>2
<1>3. TypeOK'
  <2>1. /\ pc \in [End -> {"idle", "get", "have", "wait", "blocked", "would_block", "async"}]
        /\ mBlocked \in [End -> BOOLEAN] /\ asleep \subseteq End /\ ended \in BOOLEAN
    BY DEF PipeInv, TypeOK
  <2>2. /\ pc' \in [End -> {"idle", "get", "have", "wait", "blocked", "would_block", "async"}]
        /\ mBlocked' \in [End -> BOOLEAN] /\ asleep' \subseteq End /\ ended' \in BOOLEAN
    BY <1>b, <2>1 DEF End
  <2> QED BY <2>2 DEF PipeInv, TypeOK, buffer, status, call
<1>4. AvailableExact' /\ RegionsOwned' /\ RegionsDisjoint' /\ EndsOK'
  <2>1. AvailableExact' /\ EndsOK'
    BY <1>2, EndTypes DEF PipeInv, AvailableExact, EndsOK, status, call, hist, End, Failed
  <2>2. RegionsOwned'
    BY EndTypes DEF PipeInv, RegionsOwned, buffer, call, End
  <2>3. RegionsDisjoint'
    BY EndTypes DEF PipeInv, RegionsDisjoint, buffer, call, End
  <2> QED BY <2>1, <2>2, <2>3
<1>5. NobodyWaitsInVain'
  <2>1. mAvailable = 0 /\ ~ Failed => UnreadCount = 0
    BY DEF PipeInv, AvailableExact, EndsOK
  <2>2. WaitersOK'
    BY <1>2, <1>a, EndTypes DEF PipeInv, NobodyWaitsInVain, WaitersOK, status, End, Failed
  <2>3. NoLostWakeup'
    BY <1>2, <1>a, <2>1 DEF NobodyWaitsInVain, NoLostWakeup, status, Failed
  <2>4. CallbackNotStranded'
    BY <1>2 DEF NobodyWaitsInVain, CallbackNotStranded, status, Failed
  <2> QED BY <2>2, <2>3, <2>4 DEF NobodyWaitsInVain
<1> QED BY <1>2, <1>3, <1>4, <1>5 DEF PipeInv

\* The writer goes to sleep on a full pipe, or goes on.
LEMMA OutWaitPreserves ==
    ASSUME Inv, OutWait
    PROVE  Inv'
<1> USE DEF Inv, OutWait, Sleep, Awake
<1>1. UNCHANGED <<buffer, written, delivered>>
  BY DEF hist, status, call
<1>2. /\ UnreadCount' = UnreadCount /\ CursorsOK' /\ BufferHoldsTheRest'
      /\ NeedsSegment' = NeedsSegment /\ Full' = Full
  BY <1>1, BufferSame DEF PipeInv
<1>a. /\ \/ Sleep("out") /\ ~ Failed /\ ~ mWritable
         \/ Awake("out")
      /\ pc["out"] \in {"wait", "blocked"} /\ "out" \notin asleep
  BY DEF Failed
<1>b. PICK v \in {"blocked", "idle", "get"} :
        /\ pc' = [pc EXCEPT !["out"] = v]
        /\ mBlocked' = [mBlocked EXCEPT !["out"] = (v = "blocked")]
        /\ asleep' = asleep \/ asleep' = asleep \union {"out"}
        /\ ended' = ended \/ ended' = TRUE
  <2>1. CASE Sleep("out")
    BY <2>1
  <2>2. CASE Awake("out")
    <3>1. mBlocked' = [mBlocked EXCEPT !["out"] = FALSE] /\ asleep' = asleep
          /\ (pc' = [pc EXCEPT !["out"] = "idle"] \/ pc' = [pc EXCEPT !["out"] = "get"])
      BY <2>2
    <3>2. ended' = ended \/ ended' = TRUE
      BY <2>2 DEF PipeInv, TypeOK
    <3> QED BY <3>1, <3>2
  <2> QED BY <1>a, <2>1, <2>2
<1>3. TypeOK'
  <2>1. /\ pc \in [End -> {"idle", "get", "have", "wait", "blocked", "would_block", "async"}]
        /\ mBlocked \in [End -> BOOLEAN] /\ asleep \subseteq End /\ ended \in BOOLEAN
    BY DEF PipeInv, TypeOK
  <2>2. /\ pc' \in [End -> {"idle", "get", "have", "wait", "blocked", "would_block", "async"}]
        /\ mBlocked' \in [End -> BOOLEAN] /\ asleep' \subseteq End /\ ended' \in BOOLEAN
    BY <1>b, <2>1 DEF End
  <2> QED BY <2>2 DEF PipeInv, TypeOK, buffer, status, call
<1>4. AvailableExact' /\ RegionsOwned' /\ RegionsDisjoint' /\ EndsOK'
  <2>1. AvailableExact' /\ EndsOK'
    BY <1>2, EndTypes DEF PipeInv, AvailableExact, EndsOK, status, call, hist, End, Failed
  <2>2. RegionsOwned'
    BY EndTypes DEF PipeInv, RegionsOwned, buffer, call, End
  <2>3. RegionsDisjoint'
    BY EndTypes DEF PipeInv, RegionsDisjoint, buffer, call, End
  <2> QED BY <2>1, <2>2, <2>3
<1>5. NobodyWaitsInVain'
  <2>1. ~ mWritable /\ ~ Failed => NeedsSegment /\ Full
    BY DEF NobodyWaitsInVain, WaitersOK
  <2>2. WaitersOK'
    BY <1>2, <1>a, EndTypes DEF PipeInv, NobodyWaitsInVain, WaitersOK, status, End, Failed
  <2>3. NoLostWakeup'
    BY <1>2, <1>a, <2>1 DEF NobodyWaitsInVain, NoLostWakeup, status, Failed
  <2>4. CallbackNotStranded'
    BY <1>2 DEF NobodyWaitsInVain, CallbackNotStranded, status, Failed
  <2> QED BY <2>2, <2>3, <2>4 DEF NobodyWaitsInVain
<1> QED BY <1>2, <1>3, <1>4, <1>5 DEF PipeInv

\* A callback is registered, or dispatched at once.
LEMMA AsyncWaitPreserves ==
    ASSUME Inv, NEW e \in End, NEW kind \in Any, AsyncWait(e, kind),
           \/ pc' = pc
           \/ pc[e] = "would_block" /\ pc' = [pc EXCEPT ![e] = "async"]
    PROVE  Inv'
<1> USE DEF Inv, AsyncWait, DispatchNow, ReadyNow, Any
<1>1. UNCHANGED <<buffer, written, delivered>>
  BY DEF hist, status, call
<1>2. /\ UnreadCount' = UnreadCount /\ CursorsOK' /\ BufferHoldsTheRest'
      /\ NeedsSegment' = NeedsSegment /\ Full' = Full
  BY <1>1, BufferSame DEF PipeInv
<1>3. TypeOK'
  <2>1. /\ pc' \in [End -> {"idle", "get", "have", "wait", "blocked", "would_block", "async"}]
        /\ mCallback' \in [End -> {"none", "ready", "closure"}] /\ told' \in [End -> BOOLEAN]
        /\ ended' \in BOOLEAN
    BY EndTypes DEF PipeInv, status, wakeup, call, hist, End
  <2> QED BY <2>1 DEF PipeInv, TypeOK, buffer, status, wakeup, call, hist
<1>4. AvailableExact' /\ RegionsOwned' /\ RegionsDisjoint' /\ EndsOK'
  <2>1. AvailableExact' /\ EndsOK'
    BY <1>2, EndTypes DEF PipeInv, AvailableExact, EndsOK, status, call, hist, End, Failed
  <2>2. RegionsOwned'
    BY EndTypes DEF PipeInv, RegionsOwned, buffer, call, End
  <2>3. RegionsDisjoint'
    BY EndTypes DEF PipeInv, RegionsDisjoint, buffer, call, End
  <2> QED BY <2>1, <2>2, <2>3
<1>5. NobodyWaitsInVain'
  <2>1. mAvailable = 0 /\ ~ Failed => UnreadCount = 0
    BY DEF PipeInv, AvailableExact, EndsOK
  <2>2. mCallback' = [mCallback EXCEPT ![e] = "none"]
        \/ /\ mCallback' = [mCallback EXCEPT ![e] = kind] /\ ~ Failed
           /\ kind = "ready" => IF e = "in" THEN mAvailable = 0 ELSE ~ mWritable
    OBVIOUS
  <2>3. CallbackNotStranded'
    BY <1>2, <2>1, <2>2
       DEF PipeInv, TypeOK, NobodyWaitsInVain, CallbackNotStranded, status, End, Failed
  <2>4. WaitersOK'
    BY <1>2, <2>2, EndTypes DEF PipeInv, NobodyWaitsInVain, WaitersOK, status, End, Failed
  <2>5. NoLostWakeup'
    BY <1>2 DEF NobodyWaitsInVain, NoLostWakeup, status, Failed
  <2> QED BY <2>3, <2>4, <2>5 DEF NobodyWaitsInVain
<1> QED BY <1>2, <1>3, <1>4, <1>5 DEF PipeInv

\* A dispatched callback runs.
LEMMA OnReadyPreserves ==
    ASSUME Inv, NEW e \in End, OnReady(e)
    PROVE  Inv'
<1> USE DEF Inv, OnReady
<1>1. UNCHANGED <<buffer, written, delivered>>
  BY DEF hist, status, call
<1>2. /\ UnreadCount' = UnreadCount /\ CursorsOK' /\ BufferHoldsTheRest'
      /\ NeedsSegment' = NeedsSegment /\ Full' = Full
  BY <1>1, BufferSame DEF PipeInv
<1>3. TypeOK'
  <2>1. /\ pc' \in [End -> {"idle", "get", "have", "wait", "blocked", "would_block", "async"}]
        /\ mCallback' \in [End -> {"none", "ready", "closure"}] /\ told' \in [End -> BOOLEAN]
        /\ ended' \in BOOLEAN
    BY EndTypes DEF PipeInv, status, wakeup, call, hist, End
  <2> QED BY <2>1 DEF PipeInv, TypeOK, buffer, status, wakeup, call, hist
<1>4. AvailableExact' /\ RegionsOwned' /\ RegionsDisjoint' /\ EndsOK'
  <2>1. AvailableExact' /\ EndsOK'
    BY <1>2, EndTypes DEF PipeInv, AvailableExact, EndsOK, status, call, hist, End, Failed
  <2>2. RegionsOwned'
    BY EndTypes DEF PipeInv, RegionsOwned, buffer, call, End
  <2>3. RegionsDisjoint'
    BY EndTypes DEF PipeInv, RegionsDisjoint, buffer, call, End
  <2> QED BY <2>1, <2>2, <2>3
<1>5. NobodyWaitsInVain'
  BY <1>2, EndTypes DEF PipeInv, NobodyWaitsInVain, WaitersOK, NoLostWakeup,
              CallbackNotStranded, status, wakeup, call, hist, End, Failed
<1> QED BY <1>2, <1>3, <1>4, <1>5 DEF PipeInv

-----------------------------------------------------------------------------
\* With a segment, the position of a byte counted from the head of the first
\* segment says all: which byte it is, and how many are unread.
LEMMA Layout ==
    TypeOK /\ CursorsOK /\ segs # <<>> =>
      /\ UnreadCount = mWriteSegment * SegSize + mWriteCursor - mReadCursor
      /\ \A i \in 1 .. mWriteSegment : UnreadBefore(i) = i * SegSize - mReadCursor
<1> SUFFICES ASSUME TypeOK, CursorsOK, segs # <<>>
             PROVE  /\ UnreadCount = mWriteSegment * SegSize + mWriteCursor - mReadCursor
                    /\ \A i \in 1 .. mWriteSegment :
                         UnreadBefore(i) = i * SegSize - mReadCursor
  OBVIOUS
<1>1. /\ mWriteSegment \in Nat /\ SegSize \in Nat /\ mReadCursor \in Nat
      /\ mReadLimit \in Nat /\ mWriteCursor \in Nat
      /\ mReadLimit = IF mWriteSegment = 0 THEN mWriteCursor ELSE SegSize
  BY Shape DEF CursorsOK
<1>2. ASSUME NEW i \in 1 .. mWriteSegment
      PROVE  UnreadBefore(i) = i * SegSize - mReadCursor
  <2>1. i # 0 /\ i \in Int /\ i - 1 \in Int /\ (i - 1) + 1 = i /\ mReadLimit = SegSize
    BY <1>1
  <2>2. UnreadBefore(i) = SegSize - mReadCursor + (i - 1) * SegSize
    BY <2>1 DEF UnreadBefore
  <2>3. ((i - 1) + 1) * SegSize = (i - 1) * SegSize + SegSize /\ (i - 1) * SegSize \in Int
    BY <1>1, <2>1, ProductStep
  <2> DEFINE k == (i - 1) * SegSize
  <2>4. k \in Int /\ i * SegSize = k + SegSize /\ UnreadBefore(i) = SegSize - mReadCursor + k
    BY <2>1, <2>2, <2>3
  <2> HIDE DEF k
  <2> QED BY <1>1, <2>4
<1>3. CASE mWriteSegment = 0
  <2>1. UnreadCount = 0 + mWriteCursor - mReadCursor
    BY <1>1, <1>3 DEF UnreadCount, UnreadBefore, PeekLimit, PeekCursor
  <2>2. 0 * SegSize = 0
    BY <1>1
  <2> QED BY <1>1, <1>2, <1>3, <2>1, <2>2
<1>4. CASE mWriteSegment # 0
  <2>1. UnreadCount = UnreadBefore(mWriteSegment) + mWriteCursor - 0
    BY <1>1, <1>4 DEF UnreadCount, PeekLimit, PeekCursor
  <2>2. UnreadBefore(mWriteSegment) = mWriteSegment * SegSize - mReadCursor
    BY <1>1, <1>2, <1>4
  <2> DEFINE k == mWriteSegment * SegSize
  <2>3. k \in Nat /\ UnreadBefore(mWriteSegment) = k - mReadCursor
    BY <1>1, <2>2, ProductNat
  <2> HIDE DEF k
  <2>4. UnreadCount = k + mWriteCursor - mReadCursor
    BY <1>1, <2>1, <2>3
  <2> QED BY <1>2, <2>4 DEF k
<1> QED BY <1>3, <1>4

\* Never more than a full pipe is unread: mAvailable does not wrap.
LEMMA UnreadFits ==
    TypeOK /\ CursorsOK => UnreadCount \in Nat /\ UnreadCount <= SegCount * SegSize
<1> SUFFICES ASSUME TypeOK, CursorsOK
             PROVE  UnreadCount \in Nat /\ UnreadCount <= SegCount * SegSize
  OBVIOUS
<1>1. UnreadCount \in Nat /\ SegCount * SegSize \in Nat
  BY EmptyIff, WordHasRoom
<1>2. CASE segs = <<>>
  BY <1>1, <1>2 DEF UnreadCount
<1>3. CASE segs # <<>>
  <2>1. /\ mWriteSegment \in Nat /\ SegSize \in Nat /\ mReadCursor \in Nat
        /\ mWriteCursor \in Nat /\ mWriteCursor <= SegSize /\ SegCount \in Nat
        /\ mWriteSegment + 1 <= SegCount
    BY <1>3, Shape DEF CursorsOK, TypeOK
  <2>2. (mWriteSegment + 1) * SegSize <= SegCount * SegSize
    BY <2>1, ProductMonotone
  <2>3. (mWriteSegment + 1) * SegSize = mWriteSegment * SegSize + SegSize
        /\ mWriteSegment * SegSize \in Nat
    BY <2>1, ProductStep, ProductNat
  <2>4. UnreadCount = mWriteSegment * SegSize + mWriteCursor - mReadCursor
    BY <1>3, Layout
  <2> DEFINE k == mWriteSegment * SegSize
             m == SegCount * SegSize
  <2>5. k \in Nat /\ m \in Nat /\ k + SegSize <= m /\ UnreadCount = k + mWriteCursor - mReadCursor
    BY <1>1, <2>2, <2>3, <2>4
  <2> HIDE DEF k, m
  <2>6. UnreadCount <= m
    BY <2>1, <2>5
  <2> QED BY <1>1, <2>6 DEF m
<1> QED BY <1>1, <1>2, <1>3

\* The same as BufferHoldsTheRest, in terms of positions.
Byte(i, o) == Len(delivered) + i * SegSize + o - mReadCursor + 1
BytesInPlace ==
  \A i \in 0 .. mWriteSegment : \A o \in PeekCursor(i) .. PeekLimit(i) - 1 :
    segs[i + 1][o] = Byte(i, o)

LEMMA HoldsInPlace ==
    TypeOK /\ CursorsOK /\ segs # <<>> =>
      (BufferHoldsTheRest <=> written - Len(delivered) = UnreadCount /\ BytesInPlace)
<1> SUFFICES ASSUME TypeOK, CursorsOK, segs # <<>>,
                    NEW i \in 0 .. mWriteSegment, NEW o \in PeekCursor(i) .. PeekLimit(i) - 1
             PROVE  Byte(i, o) = Len(delivered) + UnreadBefore(i) + (o - PeekCursor(i)) + 1
  BY DEF BufferHoldsTheRest, BytesInPlace
<1>1. /\ mWriteSegment \in Nat /\ SegSize \in Nat /\ mReadCursor \in Nat
      /\ i \in Nat /\ Len(delivered) \in Nat
  <2>1. Len(delivered) \in Nat
    BY DEF TypeOK
  <2>2. mWriteSegment \in Nat /\ SegSize \in Nat /\ mReadCursor \in Nat
    BY Shape DEF CursorsOK
  <2> QED BY <2>1, <2>2
<1>2. o \in Int /\ i * SegSize \in Int
  BY <1>1, ProductNat
<1>3. CASE i = 0
  BY <1>1, <1>2, <1>3 DEF Byte, UnreadBefore, PeekCursor
<1>4. CASE i # 0
  <2>1. UnreadBefore(i) = i * SegSize - mReadCursor /\ PeekCursor(i) = 0
    BY <1>1, <1>4, Layout DEF PeekCursor
  <2> DEFINE k == i * SegSize
  <2>2. k \in Int /\ UnreadBefore(i) = k - mReadCursor
        /\ Byte(i, o) = Len(delivered) + k + o - mReadCursor + 1
    BY <1>2, <2>1 DEF Byte
  <2> HIDE DEF k
  <2> QED BY <1>1, <1>2, <2>1, <2>2
<1> QED BY <1>3, <1>4

\* The facts of Layout, UnreadFits and HoldsInPlace in the next state.
LEMMA LayoutNext ==
    ASSUME TypeOK', CursorsOK', (segs # <<>>)'
    PROVE  /\ UnreadCount' = mWriteSegment' * SegSize + mWriteCursor' - mReadCursor'
           /\ UnreadCount' \in Nat /\ UnreadCount' <= SegCount * SegSize
           /\ (written - Len(delivered))' = UnreadCount' /\ BytesInPlace' => BufferHoldsTheRest'
<1>1. (TypeOK /\ CursorsOK /\ segs # <<>> =>
         /\ UnreadCount = mWriteSegment * SegSize + mWriteCursor - mReadCursor
         /\ \A i \in 1 .. mWriteSegment : UnreadBefore(i) = i * SegSize - mReadCursor)'
  BY Layout, PTL
<1>2. (TypeOK /\ CursorsOK => UnreadCount \in Nat /\ UnreadCount <= SegCount * SegSize)'
  BY UnreadFits, PTL
<1>3. (TypeOK /\ CursorsOK /\ segs # <<>> =>
         (BufferHoldsTheRest <=> written - Len(delivered) = UnreadCount /\ BytesInPlace))'
  BY HoldsInPlace, PTL
<1> QED BY <1>1, <1>2, <1>3

\* Progress ends the call or asks for a region again.
LEMMA ProgressStep ==
    ASSUME TypeOK, NEW e \in End, NEW n \in 0 .. len[e], len[e] <= count[e], Progress(e, n)
    PROVE  \E v \in {"idle", "get"}, l \in Nat :
             /\ pc' = [pc EXCEPT ![e] = v] /\ count' = [count EXCEPT ![e] = l]
             /\ moved' = [moved EXCEPT ![e] = moved[e] + n] /\ moved[e] + n \in Nat
             /\ ptr' = [ptr EXCEPT ![e] = 0] /\ len' = [len EXCEPT ![e] = 0]
             /\ v = "get" => 0 < l
<1>1. len[e] \in Nat /\ count[e] \in Nat /\ moved[e] \in Nat /\ n \in Nat /\ n <= len[e]
  BY SegAssumption DEF TypeOK
<1> DEFINE l == IF n < len[e] THEN 0 ELSE count[e] - n
<1>2. l \in Nat
  BY <1>1
<1>3. /\ count' = [count EXCEPT ![e] = l] /\ moved' = [moved EXCEPT ![e] = moved[e] + n]
      /\ pc' = [pc EXCEPT ![e] = IF l = 0 THEN "idle" ELSE "get"]
      /\ ptr' = [ptr EXCEPT ![e] = 0] /\ len' = [len EXCEPT ![e] = 0]
  BY DEF Progress
<1> DEFINE v == IF l = 0 THEN "idle" ELSE "get"
<1>4. v \in {"idle", "get"} /\ (v = "get" => 0 < l) /\ moved[e] + n \in Nat
  BY <1>1, <1>2
<1>5. pc' = [pc EXCEPT ![e] = v]
  BY <1>3
<1> HIDE DEF l, v
<1> USE <1>2, <1>4
<1> WITNESS v \in {"idle", "get"}, l \in Nat
<1> QED BY <1>3, <1>4, <1>5

\* Every end that waits for a callback of a kind in kinds has it dispatched.
LEMMA SignalCalls ==
    ASSUME TypeOK, NEW ends \in SUBSET End, NEW kinds, Signal(ends, kinds)
    PROVE  /\ mCallback' \in [End -> {"none", "ready", "closure"}] /\ told' \in [End -> BOOLEAN]
           /\ asleep' \subseteq asleep
           /\ \A e \in End : mCallback'[e] = mCallback[e] \/ mCallback'[e] = "none"
           /\ \A e \in ends : mCallback'[e] \notin kinds \/ mCallback'[e] = "none"
           /\ missed' \in BOOLEAN
           /\ ~missed' => ~missed /\ \A e \in ends : e \in asleep => ~Called(e, kinds)
<1>1. mCallback' = [e \in End |-> IF e \in ends /\ Called(e, kinds) THEN "none" ELSE mCallback[e]]
      /\ told' = [e \in End |-> told[e] \/ (e \in ends /\ Called(e, kinds))]
      /\ asleep' \subseteq asleep
  BY DEF Signal
<1>2. told' \in [End -> BOOLEAN]
  <2>1. \A e \in End : (told[e] \/ (e \in ends /\ Called(e, kinds))) \in BOOLEAN
    OBVIOUS
  <2> QED BY <1>1, <2>1
<1>3. mCallback' \in [End -> {"none", "ready", "closure"}]
  BY <1>1 DEF TypeOK
<1>4. /\ missed' = (missed \/ \E e \in ends : Called(e, kinds) /\ e \in asleep)
      /\ missed \in BOOLEAN
  BY DEF Signal, TypeOK
<1> QED BY <1>1, <1>2, <1>3, <1>4 DEF Called

\* The writer's callback fills n bytes.
LEMMA WriteAdvancePreserves ==
    ASSUME Inv, NEW n \in 1 .. SegSize, WriteAdvance(n)
    PROVE  Inv'
<1> USE DEF Inv
<1>1. /\ segs # <<>> /\ mWriteSegment = Len(segs) - 1 /\ Len(segs) \in Nat \ {0}
      /\ mWriteSegment \in Nat /\ SegSize \in Nat \ {0} /\ SegCount \in Nat \ {0}
      /\ mReadCursor \in Nat /\ mReadLimit \in Nat /\ mWriteCursor \in Nat
      /\ mReadCursor <= mReadLimit /\ mReadCursor < SegSize /\ mWriteLimit = SegSize
      /\ mReadLimit = IF mWriteSegment = 0 THEN mWriteCursor ELSE SegSize
      /\ mReadLimit <= SegSize
      /\ written \in Nat /\ delivered \in Seq(Nat) /\ Len(delivered) \in Nat
      /\ Len(segs) <= SegCount
  <2>1. segs # <<>> /\ CursorsOK /\ TypeOK
    BY DEF PipeInv, RegionsOwned, WriteAdvance
  <2>2. written \in Nat /\ delivered \in Seq(Nat) /\ Len(segs) <= SegCount
    BY <2>1 DEF TypeOK
  <2> QED BY <2>1, <2>2, Shape DEF CursorsOK
<1>2. /\ pc["out"] = "have" /\ ptr["out"] = mWriteCursor /\ n \in 0 .. len["out"]
      /\ n \in Nat /\ 0 < n /\ n <= len["out"] /\ len["out"] <= count["out"]
      /\ len["out"] \in Nat /\ mWriteCursor + n <= SegSize /\ mWriteCursor < SegSize
  <2>1. pc["out"] = "have" /\ n \in 1 .. len["out"] /\ "out" \in End
    BY DEF WriteAdvance, End
  <2>2. len["out"] \in 0 .. SegSize /\ count["out"] \in Nat
    BY <2>1 DEF PipeInv, TypeOK
  <2>3. /\ ptr["out"] = mWriteCursor /\ len["out"] <= count["out"]
        /\ ptr["out"] + len["out"] <= mWriteLimit
    BY <2>1 DEF PipeInv, RegionsOwned
  <2>4. n \in Int /\ len["out"] \in Int /\ 1 <= n /\ n <= len["out"] /\ mWriteCursor \in Int
        /\ mWriteCursor + len["out"] <= SegSize
    BY <1>1, <2>1, <2>2, <2>3
  <2> QED BY <1>1, <2>1, <2>2, <2>3, <2>4
<1>3. PICK v \in {"idle", "get"}, l \in Nat :
        /\ pc' = [pc EXCEPT !["out"] = v] /\ count' = [count EXCEPT !["out"] = l]
        /\ moved' = [moved EXCEPT !["out"] = moved["out"] + n] /\ moved["out"] + n \in Nat
        /\ ptr' = [ptr EXCEPT !["out"] = 0] /\ len' = [len EXCEPT !["out"] = 0]
        /\ v = "get" => 0 < l
  BY <1>2, ProgressStep DEF PipeInv, WriteAdvance, End
<1>4. /\ mReadLimit' = IF mWriteSegment = 0 THEN mWriteCursor + n ELSE mReadLimit
      /\ mWriteCursor' = mWriteCursor + n /\ mWriteLimit' = mWriteLimit
      /\ mReadCursor' = mReadCursor /\ mWriteSegment' = mWriteSegment
      /\ written' = written + n /\ delivered' = delivered
      /\ mAvailable' = (mAvailable + n) % Word /\ mStatus' = mStatus
      /\ inClosed' = inClosed /\ ended' = ended /\ late' = (late \/ Failed)
      /\ mBlocking' = mBlocking /\ mBlocked' = mBlocked
      /\ mWritable' = (mWritable /\ ~(mWriteCursor + n = SegSize /\ Full))
      /\ Signal({"in"}, Ready)
  BY <1>1 DEF WriteAdvance
<1>5. PICK s \in [Offsets -> Nat] :
        /\ segs' = [segs EXCEPT ![Len(segs)] = s]
        /\ \A o \in Offsets :
             s[o] = IF o \in mWriteCursor .. mWriteCursor + n - 1
                    THEN written + o - mWriteCursor + 1 ELSE segs[Len(segs)][o]
  <2> DEFINE s == [o \in Offsets |-> IF o \in mWriteCursor .. mWriteCursor + n - 1
                     THEN written + o - mWriteCursor + 1 ELSE segs[Len(segs)][o]]
  <2>1. segs' = [segs EXCEPT ![Len(segs)] = s]
    BY <1>2 DEF WriteAdvance
  <2>2. segs[Len(segs)] \in [Offsets -> Nat]
    BY <1>1 DEF PipeInv, TypeOK
  <2>3. s \in [Offsets -> Nat]
    <3>1. ASSUME NEW o \in Offsets
          PROVE (IF o \in mWriteCursor .. mWriteCursor + n - 1
                     THEN written + o - mWriteCursor + 1 ELSE segs[Len(segs)][o]) \in Nat
      <4>1. segs[Len(segs)][o] \in Nat /\ o \in Int
        BY <1>1, <2>2 DEF Offsets
      <4>2. o \in mWriteCursor .. mWriteCursor + n - 1 => written + o - mWriteCursor + 1 \in Nat
        <5>1. written \in Nat /\ mWriteCursor \in Nat /\ n \in Nat
          BY <1>1, <1>2
        <5> QED BY <4>1, <5>1
      <4> QED BY <4>1, <4>2
    <3> QED BY <3>1
  <2>4. \A o \in Offsets : s[o] = IF o \in mWriteCursor .. mWriteCursor + n - 1
                    THEN written + o - mWriteCursor + 1 ELSE segs[Len(segs)][o]
    OBVIOUS
  <2> HIDE DEF s
  <2> QED BY <2>1, <2>3, <2>4
<1>6. segs' \in Seq([Offsets -> Nat]) /\ Len(segs') = Len(segs) /\ segs' # <<>>
  BY <1>1, <1>5 DEF PipeInv, TypeOK
<1>7. CursorsOK'
  BY <1>1, <1>2, <1>4, <1>6 DEF CursorsOK
<1>8. UnreadCount \in Nat
      /\ UnreadCount = mWriteSegment * SegSize + mWriteCursor - mReadCursor
  BY <1>1, UnreadFits, Layout DEF PipeInv
<1>9. asleep' \subseteq asleep /\ missed' \in BOOLEAN /\ (~missed' => asleep' = {})
  <2>1. /\ asleep' \subseteq asleep /\ missed' \in BOOLEAN
        /\ ~missed' => ("in" \in asleep => ~Called("in", Ready))
    BY <1>4, SignalCalls DEF PipeInv, End
  <2>2. "out" \notin asleep /\ asleep \subseteq End /\ ("in" \in asleep => mBlocked["in"])
    BY <1>2 DEF NobodyWaitsInVain, WaitersOK, PipeInv, TypeOK, End
  <2>3. ~missed' => asleep \subseteq {e \in {"in"} : Notifies(e, Ready)}
    BY <2>1, <2>2 DEF End, Notifies
  <2> QED BY <1>4, <2>1, <2>3, SignalWakes DEF End
<1>10. TypeOK'
  <2>1. /\ pc' \in [End -> {"idle", "get", "have", "wait", "blocked", "would_block", "async"}]
        /\ count' \in [End -> Nat] /\ moved' \in [End -> Nat]
        /\ ptr' \in [End -> 0 .. SegSize] /\ len' \in [End -> 0 .. SegSize]
    <3>1. /\ pc \in [End -> {"idle", "get", "have", "wait", "blocked", "would_block", "async"}]
          /\ count \in [End -> Nat] /\ moved \in [End -> Nat]
          /\ ptr \in [End -> 0 .. SegSize] /\ len \in [End -> 0 .. SegSize]
          /\ 0 \in 0 .. SegSize
      BY <1>1, EndTypes DEF PipeInv
    <3> QED BY <1>3, <3>1
  <2>2. /\ mCallback' \in [End -> {"none", "ready", "closure"}] /\ told' \in [End -> BOOLEAN]
        /\ asleep' \subseteq End
    BY <1>4, <1>9, SignalCalls DEF PipeInv, TypeOK, End
  <2>3. {mReadCursor', mReadLimit', mWriteCursor', mWriteLimit'} \subseteq Null .. SegSize
    BY <1>1, <1>2, <1>4 DEF Null
  <2>4. mAvailable' \in 0 .. Word - 1 /\ mWritable' \in BOOLEAN
    <3>1. mAvailable \in Int /\ mWritable \in BOOLEAN
      BY DEF PipeInv, TypeOK
    <3>2. mAvailable + n \in Int /\ Word \in Nat \ {0}
      BY <1>2, <3>1, WordHasRoom
    <3> QED BY <1>4, <3>1, <3>2, ModRange
  <2>5. written' \in Nat /\ late' \in BOOLEAN
    BY <1>1, <1>2, <1>4 DEF PipeInv, TypeOK
  <2> QED BY <1>1, <1>4, <1>6, <1>9, <2>1, <2>2, <2>3, <2>4, <2>5 DEF PipeInv, TypeOK
<1>11. UnreadCount' = UnreadCount + n /\ UnreadCount' <= SegCount * SegSize
  <2>1. UnreadCount' = mWriteSegment * SegSize + (mWriteCursor + n) - mReadCursor
        /\ UnreadCount' <= SegCount * SegSize
    BY <1>4, <1>6, <1>7, <1>10, LayoutNext
  <2>2. mWriteSegment * SegSize \in Nat
    BY <1>1, ProductNat
  <2> DEFINE k == mWriteSegment * SegSize
  <2>3. k \in Nat /\ UnreadCount' = k + (mWriteCursor + n) - mReadCursor
        /\ UnreadCount = k + mWriteCursor - mReadCursor
    BY <1>8, <2>1, <2>2
  <2> HIDE DEF k
  <2>4. UnreadCount' = UnreadCount + n
    BY <1>1, <1>2, <2>3
  <2> QED BY <2>1, <2>4
<1>12. AvailableExact'
  <2> SUFFICES ASSUME ~inClosed PROVE (UnreadCount + n) % Word = UnreadCount + n
    BY <1>4, <1>11 DEF AvailableExact, PipeInv
  <2>1. UnreadCount + n \in Nat /\ UnreadCount + n < Word
    BY <1>2, <1>8, <1>11, WordHasRoom
  <2> QED BY <2>1, WordHasRoom
<1>13. BufferHoldsTheRest'
  <2>1. written - Len(delivered) = UnreadCount /\ BytesInPlace
    BY <1>1, HoldsInPlace DEF PipeInv
  <2>2. (written - Len(delivered))' = UnreadCount'
    <3>1. written' - Len(delivered') = (written - Len(delivered)) + n
      BY <1>1, <1>2, <1>4
    <3> QED BY <1>11, <2>1, <3>1
  <2>3. BytesInPlace'
    <3> SUFFICES ASSUME NEW i \in 0 .. mWriteSegment, NEW o \in PeekCursor(i)' .. PeekLimit(i)' - 1
                 PROVE  segs'[i + 1][o] = Len(delivered) + i * SegSize + o - mReadCursor + 1
      BY <1>4 DEF BytesInPlace, Byte
    <3>1. PeekCursor(i)' = PeekCursor(i) /\ PeekCursor(i) \in Nat /\ o \in Nat
      BY <1>1, <1>2, <1>4 DEF PeekCursor, PeekLimit
    <3>2. PeekLimit(i)' = (IF i = mWriteSegment THEN mWriteCursor + n ELSE PeekLimit(i))
          /\ (i = mWriteSegment => PeekLimit(i) = mWriteCursor)
          /\ PeekLimit(i) \in Nat
      BY <1>1, <1>2, <1>4 DEF PeekLimit
    <3>3. o < SegSize /\ o \in Offsets
      <4>1. o \in Int /\ o <= PeekLimit(i)' - 1 /\ PeekLimit(i)' <= SegSize
        BY <1>1, <1>2, <1>4, <3>1, <3>2 DEF PeekLimit
      <4>2. o \in Nat /\ SegSize \in Nat /\ PeekLimit(i)' \in Int
        BY <1>1, <1>2, <3>1, <3>2
      <4> QED BY <4>1, <4>2 DEF Offsets
    <3>4. CASE i = mWriteSegment /\ mWriteCursor <= o
      <4>1. segs'[i + 1] = s /\ s[o] = written + o - mWriteCursor + 1
        BY <1>1, <1>2, <1>5, <3>1, <3>2, <3>3, <3>4 DEF PipeInv, TypeOK
      <4> DEFINE k == mWriteSegment * SegSize
      <4>2. k \in Nat /\ written - Len(delivered) = k + mWriteCursor - mReadCursor
        BY <1>1, <1>8, <2>1, <3>4, ProductNat
      <4>4. Len(delivered) + i * SegSize + o - mReadCursor + 1
              = Len(delivered) + k + o - mReadCursor + 1
        BY <3>4
      <4> HIDE DEF k
      <4>3. written + o - mWriteCursor + 1 = Len(delivered) + k + o - mReadCursor + 1
        BY <1>1, <3>1, <4>2
      <4> QED BY <4>1, <4>3, <4>4
    <3>5. CASE ~(i = mWriteSegment /\ mWriteCursor <= o)
      <4>1. o \in PeekCursor(i) .. PeekLimit(i) - 1
        BY <1>1, <1>2, <3>1, <3>2, <3>5
      <4>2. segs'[i + 1][o] = segs[i + 1][o]
        <5>1. CASE i = mWriteSegment
          <6>1. segs'[i + 1] = s /\ s[o] = segs[i + 1][o]
            BY <1>1, <1>2, <1>5, <3>1, <3>3, <3>5, <5>1 DEF PipeInv, TypeOK
          <6> QED BY <6>1
        <5>2. CASE i # mWriteSegment
          <6>1. segs'[i + 1] = segs[i + 1]
            BY <1>1, <1>5, <5>2 DEF PipeInv, TypeOK
          <6> QED BY <6>1
        <5> QED BY <5>1, <5>2
      <4>3. segs[i + 1][o] = Len(delivered) + i * SegSize + o - mReadCursor + 1
        BY <2>1, <4>1 DEF BytesInPlace, Byte
      <4> QED BY <4>2, <4>3
    <3> QED BY <3>4, <3>5
  <2> QED BY <1>6, <1>7, <1>10, <2>2, <2>3, LayoutNext
<1>14. RegionsOwned' /\ RegionsDisjoint' /\ EndsOK'
  <2>1. pc'["in"] = pc["in"] /\ ptr'["in"] = ptr["in"] /\ len'["in"] = len["in"]
        /\ count'["in"] = count["in"] /\ pc'["out"] = v /\ count'["out"] = l
    BY <1>3 DEF PipeInv, TypeOK, End
  <2>2. RegionsOwned'
    <3>1. mReadLimit <= mReadLimit' /\ mReadLimit' \in Nat
      BY <1>1, <1>2, <1>4
    <3>2. \A e \in End : /\ pc'[e] = "have" => e = "in" /\ pc["in"] = "have"
                         /\ pc'[e] \in {"get", "wait", "blocked"} => 0 < count'[e]
      BY <1>3, <2>1 DEF PipeInv, RegionsOwned, End
    <3>3. pc["in"] = "have" => /\ ptr["in"] = mReadCursor /\ ptr["in"] + len["in"] <= mReadLimit
                               /\ 0 < len["in"] /\ len["in"] <= count["in"]
                               /\ ptr["in"] + len["in"] \in Int
      <4>1. ptr["in"] \in Int /\ len["in"] \in Int
        BY <1>1 DEF PipeInv, TypeOK, End
      <4>2. ptr["in"] + len["in"] \in Int
        BY <4>1
      <4> QED BY <4>2 DEF PipeInv, RegionsOwned, End
    <3>4. pc["in"] = "have" => ptr["in"] + len["in"] <= mReadLimit'
      BY <1>1, <3>1, <3>3
    <3>5. mReadCursor' = mReadCursor /\ pc'["out"] # "have"
      BY <1>4, <2>1
    <3> QED BY <2>1, <3>2, <3>3, <3>4, <3>5 DEF RegionsOwned
  <2>3. RegionsDisjoint'
    BY <2>1 DEF RegionsDisjoint
  <2>4. EndsOK'
    <3>1. pc["out"] = "have" /\ pc'["out"] # "have"
      BY <1>2, <2>1
    <3> QED BY <1>4, <3>1 DEF PipeInv, EndsOK, Failed
  <2> QED BY <2>2, <2>3, <2>4
<1>15. NobodyWaitsInVain'
  <2>1. Full' = Full /\ NeedsSegment' = (mWriteCursor + n = SegSize)
    BY <1>1, <1>4, <1>6 DEF Full, NeedsSegment
  <2>2. ~ Failed => mWritable
    BY <1>1, <1>2 DEF NobodyWaitsInVain, WaitersOK, NeedsSegment
  <2>3. /\ \A e \in End : mCallback'[e] = mCallback[e] \/ mCallback'[e] = "none"
        /\ mCallback'["in"] # "ready"
    BY <1>4, SignalCalls DEF PipeInv, End, Ready
  <2>4. pc'["in"] = pc["in"] /\ pc'["out"] = v
    BY <1>3 DEF PipeInv, TypeOK, End
  <2>5. WaitersOK'
    BY <1>2, <1>4, <1>9, <2>1, <2>2, <2>3, <2>4
       DEF NobodyWaitsInVain, WaitersOK, End, Failed, PipeInv, TypeOK
  <2>6. NoLostWakeup'
    BY <1>9 DEF NoLostWakeup
  <2>7. CallbackNotStranded'
    BY <1>4, <2>3 DEF NobodyWaitsInVain, CallbackNotStranded, Failed, End
  <2> QED BY <2>5, <2>6, <2>7 DEF NobodyWaitsInVain
<1> QED BY <1>7, <1>10, <1>12, <1>13, <1>14, <1>15 DEF PipeInv

\* What the reader's region says of the first segment.
LEMMA ReaderHas ==
    ASSUME PipeInv, NEW n \in 1 .. len["in"], pc["in"] = "have"
    PROVE  /\ segs # <<>> /\ mWriteSegment = Len(segs) - 1 /\ mWriteSegment \in Nat
           /\ SegSize \in Nat \ {0} /\ Len(segs) \in Nat \ {0}
           /\ mReadCursor \in Nat /\ mReadLimit \in Nat /\ mWriteCursor \in Nat
           /\ mReadCursor <= mReadLimit /\ mReadCursor < SegSize /\ mWriteLimit = SegSize
           /\ mReadLimit = IF mWriteSegment = 0 THEN mWriteCursor ELSE SegSize
           /\ mWriteCursor <= SegSize /\ mReadLimit <= SegSize
           /\ n \in Nat \ {0} /\ n <= len["in"] /\ len["in"] \in Nat
           /\ ptr["in"] = mReadCursor /\ mReadCursor + n <= mReadLimit
           /\ len["in"] <= count["in"]
           /\ written \in Nat /\ delivered \in Seq(Nat) /\ Len(delivered) \in Nat
           /\ pc["out"] = "have" => ptr["out"] = mWriteCursor /\ mWriteCursor < SegSize
<1>1. /\ TypeOK /\ CursorsOK /\ "in" \in End /\ "out" \in End
      /\ written \in Nat /\ delivered \in Seq(Nat)
  BY DEF PipeInv, End, TypeOK
<1>2. len["in"] \in 0 .. SegSize /\ len["out"] \in 0 .. SegSize /\ SegSize \in Nat \ {0}
  BY <1>1, SegAssumption DEF TypeOK
<1>3. 0 < len["in"] /\ len["in"] <= count["in"] /\ ptr["in"] = mReadCursor
      /\ mReadCursor + len["in"] <= mReadLimit
  BY <1>1 DEF PipeInv, RegionsOwned
<1>4. segs # <<>>
  <2> SUFFICES ASSUME segs = <<>> PROVE FALSE
    OBVIOUS
  <2>1. mReadCursor = -1 /\ mReadLimit = -1
    BY <1>1 DEF CursorsOK, Null
  <2> QED BY <1>2, <1>3, <2>1
<1>5. /\ mWriteSegment = Len(segs) - 1 /\ mWriteSegment \in Nat /\ Len(segs) \in Nat \ {0}
      /\ mReadCursor \in Nat /\ mReadLimit \in Nat /\ mWriteCursor \in Nat
      /\ mReadCursor <= mReadLimit /\ mReadCursor < SegSize /\ mWriteLimit = SegSize
      /\ mReadLimit = IF mWriteSegment = 0 THEN mWriteCursor ELSE SegSize
      /\ mWriteCursor <= SegSize /\ mReadLimit <= SegSize
  BY <1>1, <1>4, Shape DEF CursorsOK
<1>6. n \in Nat \ {0} /\ n <= len["in"] /\ len["in"] \in Nat /\ mReadCursor + n <= mReadLimit
  BY <1>2, <1>3, <1>5
<1>7. pc["out"] = "have" => ptr["out"] = mWriteCursor /\ mWriteCursor < SegSize
  <2> SUFFICES ASSUME pc["out"] = "have" PROVE ptr["out"] = mWriteCursor /\ mWriteCursor < SegSize
    OBVIOUS
  <2>1. ptr["out"] = mWriteCursor /\ ptr["out"] + len["out"] <= mWriteLimit /\ 0 < len["out"]
    BY <1>1 DEF PipeInv, RegionsOwned
  <2> QED BY <1>2, <1>5, <2>1
<1> QED BY <1>1, <1>2, <1>3, <1>4, <1>5, <1>6, <1>7

\* The reader's callback takes the bytes that follow those it has.
LEMMA BytesTaken ==
    ASSUME PipeInv, NEW n \in 1 .. len["in"], pc["in"] = "have"
    PROVE  [i \in 1 .. n |-> segs[1][ptr["in"] + i - 1]] = [i \in 1 .. n |-> Len(delivered) + i]
<1> SUFFICES ASSUME NEW i \in 1 .. n
             PROVE  segs[1][ptr["in"] + i - 1] = Len(delivered) + i
  OBVIOUS
<1>1. i \in Nat /\ i <= n /\ 1 <= i /\ n \in Nat
  BY ReaderHas
<1>2. ptr["in"] + i - 1 \in PeekCursor(0) .. PeekLimit(0) - 1
  <2>1. /\ ptr["in"] = mReadCursor /\ mReadCursor + n <= mReadLimit
        /\ mReadCursor \in Nat /\ mReadLimit \in Nat
    BY ReaderHas
  <2>2. PeekCursor(0) = mReadCursor /\ PeekLimit(0) = mReadLimit
    BY DEF PeekCursor, PeekLimit
  <2> QED BY <1>1, <2>1, <2>2
<1>3. 0 \in 0 .. mWriteSegment
  BY ReaderHas
<1>4. BytesInPlace
  BY ReaderHas, HoldsInPlace DEF PipeInv
<1>5. segs[0 + 1][ptr["in"] + i - 1]
        = Len(delivered) + 0 * SegSize + (ptr["in"] + i - 1) - mReadCursor + 1
  BY <1>2, <1>3, <1>4 DEF BytesInPlace, Byte
<1>6. 0 * SegSize = 0
  BY ReaderHas
<1>7. ptr["in"] \in Nat /\ mReadCursor = ptr["in"] /\ Len(delivered) \in Nat
  BY ReaderHas
<1> DEFINE b == segs[1][ptr["in"] + i - 1]
<1>8. b = Len(delivered) + 0 + (ptr["in"] + i - 1) - mReadCursor + 1
  BY <1>5, <1>6
<1> HIDE DEF b
<1>9. b = Len(delivered) + i
  BY <1>1, <1>7, <1>8
<1> QED BY <1>9 DEF b

LEMMA ConcatNat ==
    ASSUME NEW a \in Seq(Nat), NEW b \in Seq(Nat)
    PROVE  a \o b \in Seq(Nat) /\ Len(a \o b) = Len(a) + Len(b)
OBVIOUS

\* What ReadAdvance says, whether it deletes the first segment or not.
LEMMA ReadAdvanceStep ==
    ASSUME Inv, NEW n \in 1 .. SegSize, ReadAdvance(n)
    PROVE  /\ pc["in"] = "have" /\ n \in 1 .. len["in"] /\ n \in 0 .. len["in"]
           /\ Progress("in", n)
           /\ delivered' = delivered \o [i \in 1 .. n |-> Len(delivered) + i]
           /\ delivered' \in Seq(Nat) /\ Len(delivered') = Len(delivered) + n
           /\ mAvailable' = (mAvailable - n) % Word
           /\ mStatus' = mStatus /\ mBlocking' = mBlocking /\ mBlocked' = mBlocked
           /\ written' = written /\ inClosed' = inClosed /\ ended' = ended /\ late' = late
<1>1. /\ pc["in"] = "have" /\ n \in 1 .. len["in"] /\ Progress("in", n)
      /\ delivered' = delivered \o [i \in 1 .. n |-> segs[1][ptr["in"] + i - 1]]
      /\ mAvailable' = (mAvailable - n) % Word
      /\ mStatus' = mStatus /\ mBlocking' = mBlocking /\ mBlocked' = mBlocked
      /\ written' = written /\ inClosed' = inClosed /\ ended' = ended /\ late' = late
  BY DEF ReadAdvance
<1>2. n \in Nat /\ n \in 0 .. len["in"] /\ Len(delivered) \in Nat /\ delivered \in Seq(Nat)
  BY <1>1, ReaderHas DEF Inv
<1>3. delivered' = delivered \o [i \in 1 .. n |-> Len(delivered) + i]
  BY <1>1, BytesTaken DEF Inv
<1>4. [i \in 1 .. n |-> Len(delivered) + i] \in Seq(Nat)
      /\ Len([i \in 1 .. n |-> Len(delivered) + i]) = n
  BY <1>2
<1>5. delivered' \in Seq(Nat) /\ Len(delivered') = Len(delivered) + n
  <2> DEFINE t == [i \in 1 .. n |-> Len(delivered) + i]
  <2> HIDE DEF t
  <2>1. t \in Seq(Nat) /\ Len(t) = n /\ delivered' = delivered \o t
    BY <1>3, <1>4 DEF t
  <2>2. delivered \o t \in Seq(Nat) /\ Len(delivered \o t) = Len(delivered) + Len(t)
    BY <1>2, <2>1, ConcatNat
  <2> QED BY <2>1, <2>2
<1> QED BY <1>1, <1>2, <1>3, <1>5

\* What the two cases of ReadAdvance leave of the segments.
LEMMA ReadKeeps ==
    ASSUME Inv, NEW n \in 1 .. SegSize, ReadAdvance(n), ~ SegmentDone(mReadCursor + n)
    PROVE  /\ mReadCursor' = mReadCursor + n
           /\ segs' = segs /\ mReadLimit' = mReadLimit /\ mWriteSegment' = mWriteSegment
           /\ mWriteCursor' = mWriteCursor /\ mWriteLimit' = mWriteLimit
           /\ mWritable' = mWritable /\ mCallback' = mCallback /\ asleep' = asleep /\ told' = told
           /\ missed' = missed /\ mReadCursor + n < SegSize
<1>1. /\ mReadCursor' = mReadCursor + n
      /\ segs' = segs /\ mReadLimit' = mReadLimit /\ mWriteSegment' = mWriteSegment
      /\ mWriteCursor' = mWriteCursor /\ mWriteLimit' = mWriteLimit
      /\ mWritable' = mWritable /\ mCallback' = mCallback /\ asleep' = asleep /\ told' = told
      /\ missed' = missed
  BY DEF ReadAdvance, wakeup
<1>2. mReadCursor + n < SegSize
  <2>1. pc["in"] = "have" /\ n \in 1 .. len["in"] /\ PipeInv
    BY DEF ReadAdvance, Inv
  <2>2. mReadCursor + n # mReadLimit \/ (mWriteSegment = 0 /\ mWriteLimit > mWriteCursor)
    BY DEF SegmentDone
  <2>3. /\ mReadCursor + n <= mReadLimit /\ mReadLimit <= SegSize /\ mWriteLimit = SegSize
        /\ mReadLimit = IF mWriteSegment = 0 THEN mWriteCursor ELSE SegSize
        /\ mReadCursor \in Nat /\ mReadLimit \in Nat /\ mWriteCursor \in Nat /\ SegSize \in Nat
        /\ n \in Nat
    BY <2>1, ReaderHas
  <2> QED BY <2>2, <2>3
<1> QED BY <1>1, <1>2

LEMMA ReadDeletes ==
    ASSUME Inv, NEW n \in 1 .. SegSize, ReadAdvance(n), SegmentDone(mReadCursor + n)
    PROVE  /\ segs' = Tail(segs) /\ segs' \in Seq([Offsets -> Nat])
           /\ Len(segs') = Len(segs) - 1 /\ mWriteSegment' = mWriteSegment - 1
           /\ \A i \in 1 .. mWriteSegment : segs'[i] = segs[i + 1]
           /\ mReadCursor + n = mReadLimit /\ mWritable' = TRUE /\ Signal({"out"}, Ready)
           /\ mWriteSegment = 0 =>
                /\ segs' = <<>> /\ mReadCursor' = -1 /\ mReadLimit' = -1
                /\ mWriteCursor' = -1 /\ mWriteLimit' = -1
                /\ mReadLimit = mWriteCursor /\ pc["out"] # "have"
           /\ mWriteSegment # 0 =>
                /\ segs' # <<>> /\ mReadCursor' = 0 /\ mReadLimit = SegSize
                /\ mReadLimit' = IF mWriteSegment = 1 THEN mWriteCursor ELSE SegSize
                /\ mWriteCursor' = mWriteCursor /\ mWriteLimit' = mWriteLimit
<1>1. pc["in"] = "have" /\ n \in 1 .. len["in"] /\ PipeInv /\ segs \in Seq([Offsets -> Nat])
  BY DEF ReadAdvance, Inv, PipeInv, TypeOK
<1>2. DeleteFirstSegment /\ mWritable' = TRUE /\ Signal({"out"}, Ready)
  BY DEF ReadAdvance
<1>3. mReadCursor + n = mReadLimit /\ ~(mWriteSegment = 0 /\ mWriteLimit > mWriteCursor)
  BY DEF SegmentDone
<1>4. segs # <<>> /\ segs' = Tail(segs) /\ mWriteSegment' = mWriteSegment - 1
      /\ mWriteSegment \in Nat /\ Len(segs) = mWriteSegment + 1
  <2>1. segs # <<>> /\ mWriteSegment \in Nat /\ mWriteSegment = Len(segs) - 1
        /\ Len(segs) \in Nat
    BY <1>1, ReaderHas
  <2>2. segs' = Tail(segs) /\ mWriteSegment' = mWriteSegment - 1
    BY <1>2 DEF DeleteFirstSegment
  <2> QED BY <2>1, <2>2
<1>5. segs' \in Seq([Offsets -> Nat]) /\ Len(segs') = Len(segs) - 1
      /\ \A i \in 1 .. Len(segs) - 1 : segs'[i] = segs[i + 1]
  BY <1>1, <1>4
<1>6. \A i \in 1 .. mWriteSegment : segs'[i] = segs[i + 1]
  BY <1>4, <1>5
<1>7. CASE mWriteSegment = 0
  <2>1. mReadCursor' = -1 /\ mReadLimit' = -1 /\ mWriteCursor' = -1 /\ mWriteLimit' = -1
    BY <1>2, <1>7 DEF DeleteFirstSegment, Null
  <2>2. segs' = <<>>
    BY <1>4, <1>5, <1>7
  <2>3. mReadLimit = mWriteCursor /\ pc["out"] # "have"
    BY <1>1, <1>3, <1>7, ReaderHas
  <2> QED BY <1>2, <1>3, <1>4, <1>5, <1>6, <1>7, <2>1, <2>2, <2>3
<1>8. CASE mWriteSegment # 0
  <2>1. /\ mReadCursor' = 0
        /\ mReadLimit' = IF mWriteSegment = 1 THEN mWriteCursor ELSE SegSize
        /\ mWriteCursor' = mWriteCursor /\ mWriteLimit' = mWriteLimit
    BY <1>2, <1>8 DEF DeleteFirstSegment, NextReadLimit
  <2>2. segs' # <<>>
    <3>1. Len(segs') # 0
      BY <1>4, <1>5, <1>8
    <3> QED BY <3>1
  <2>3. mReadLimit = SegSize
    BY <1>1, <1>8, ReaderHas
  <2> QED BY <1>2, <1>3, <1>4, <1>5, <1>6, <1>8, <2>1, <2>2, <2>3
<1> QED BY <1>7, <1>8

\* The reader's callback takes n bytes.
LEMMA ReadAdvancePreserves ==
    ASSUME Inv, NEW n \in 1 .. SegSize, ReadAdvance(n)
    PROVE  Inv'
<1> DEFINE done == SegmentDone(mReadCursor + n)
<1>1. PipeInv /\ TypeOK /\ CursorsOK /\ "in" \in End /\ "out" \in End
  BY DEF Inv, PipeInv, End
<1>2. /\ pc["in"] = "have" /\ n \in 1 .. len["in"] /\ n \in 0 .. len["in"]
      /\ Progress("in", n) /\ delivered' \in Seq(Nat) /\ Len(delivered') = Len(delivered) + n
      /\ mAvailable' = (mAvailable - n) % Word
      /\ mStatus' = mStatus /\ mBlocking' = mBlocking /\ mBlocked' = mBlocked
      /\ written' = written /\ inClosed' = inClosed /\ ended' = ended /\ late' = late
  BY ReadAdvanceStep
<1>3. /\ segs # <<>> /\ mWriteSegment = Len(segs) - 1 /\ mWriteSegment \in Nat
      /\ SegSize \in Nat \ {0} /\ Len(segs) \in Nat \ {0}
      /\ mReadCursor \in Nat /\ mReadLimit \in Nat /\ mWriteCursor \in Nat
      /\ mReadCursor <= mReadLimit /\ mReadCursor < SegSize /\ mWriteLimit = SegSize
      /\ mReadLimit = IF mWriteSegment = 0 THEN mWriteCursor ELSE SegSize
      /\ mWriteCursor <= SegSize /\ mReadLimit <= SegSize
      /\ n \in Nat \ {0} /\ n <= len["in"] /\ len["in"] \in Nat
      /\ ptr["in"] = mReadCursor /\ mReadCursor + n <= mReadLimit
      /\ len["in"] <= count["in"]
      /\ written \in Nat /\ delivered \in Seq(Nat) /\ Len(delivered) \in Nat
      /\ pc["out"] = "have" => ptr["out"] = mWriteCursor /\ mWriteCursor < SegSize
  BY <1>1, <1>2, ReaderHas
<1>4. PICK v \in {"idle", "get"}, l \in Nat :
        /\ pc' = [pc EXCEPT !["in"] = v] /\ count' = [count EXCEPT !["in"] = l]
        /\ moved' = [moved EXCEPT !["in"] = moved["in"] + n] /\ moved["in"] + n \in Nat
        /\ ptr' = [ptr EXCEPT !["in"] = 0] /\ len' = [len EXCEPT !["in"] = 0]
        /\ v = "get" => 0 < l
  BY <1>1, <1>2, <1>3, ProgressStep
<1>5. ASSUME ~ done
      PROVE  /\ mReadCursor' = mReadCursor + n
             /\ segs' = segs /\ mReadLimit' = mReadLimit /\ mWriteSegment' = mWriteSegment
             /\ mWriteCursor' = mWriteCursor /\ mWriteLimit' = mWriteLimit
             /\ mWritable' = mWritable /\ mCallback' = mCallback /\ asleep' = asleep
             /\ told' = told /\ missed' = missed /\ mReadCursor + n < SegSize
  BY <1>5, ReadKeeps
<1>6. ASSUME done
      PROVE  /\ segs' \in Seq([Offsets -> Nat])
             /\ Len(segs') = Len(segs) - 1 /\ mWriteSegment' = mWriteSegment - 1
             /\ \A i \in 1 .. mWriteSegment : segs'[i] = segs[i + 1]
             /\ mReadCursor + n = mReadLimit /\ mWritable' = TRUE /\ Signal({"out"}, Ready)
             /\ mWriteSegment = 0 =>
                  /\ segs' = <<>> /\ mReadCursor' = -1 /\ mReadLimit' = -1
                  /\ mWriteCursor' = -1 /\ mWriteLimit' = -1
                  /\ mReadLimit = mWriteCursor /\ pc["out"] # "have"
             /\ mWriteSegment # 0 =>
                  /\ segs' # <<>> /\ mReadCursor' = 0 /\ mReadLimit = SegSize
                  /\ mReadLimit' = IF mWriteSegment = 1 THEN mWriteCursor ELSE SegSize
                  /\ mWriteCursor' = mWriteCursor /\ mWriteLimit' = mWriteLimit
  BY <1>6, ReadDeletes
<1> HIDE DEF done
<1>7. CursorsOK'
  <2>1. CASE ~ done
    BY <1>3, <1>5, <2>1 DEF CursorsOK
  <2>2. CASE done /\ mWriteSegment = 0
    BY <1>6, <2>2 DEF CursorsOK, Null
  <2>3. CASE done /\ mWriteSegment # 0
    BY <1>3, <1>6, <2>3 DEF CursorsOK
  <2> QED BY <2>1, <2>2, <2>3
<1>8. segs' \in Seq([Offsets -> Nat]) /\ Len(segs') <= SegCount /\ mWriteSegment' = Len(segs') - 1
  <2>1. segs \in Seq([Offsets -> Nat]) /\ Len(segs) <= SegCount /\ SegCount \in Nat
    BY <1>1, SegAssumption DEF TypeOK
  <2>2. CASE ~ done
    BY <1>3, <1>5, <2>1, <2>2
  <2>3. CASE done
    BY <1>3, <1>6, <2>1, <2>3
  <2> QED BY <2>2, <2>3
<1>9. /\ mCallback' \in [End -> {"none", "ready", "closure"}] /\ told' \in [End -> BOOLEAN]
      /\ asleep' \subseteq asleep
      /\ \A e \in End : mCallback'[e] = mCallback[e] \/ mCallback'[e] = "none"
      /\ missed' \in BOOLEAN /\ (~missed' => ~missed)
      /\ done => mCallback'["out"] # "ready" /\ (~missed' => asleep' = {})
  <2>1. CASE ~ done
    BY <1>1, <1>5, <2>1 DEF TypeOK
  <2>2. CASE done
    <3>1. "in" \notin asleep /\ asleep \subseteq End /\ ("out" \in asleep => mBlocked["out"])
      BY <1>1, <1>2 DEF Inv, NobodyWaitsInVain, WaitersOK, TypeOK, End
    <3>2. /\ ~missed' => ("out" \in asleep => ~Called("out", Ready))
          /\ missed' \in BOOLEAN /\ (~missed' => ~missed)
      BY <1>1, <1>6, <2>2, SignalCalls DEF End
    <3>3. ~missed' => asleep \subseteq {e \in {"out"} : Notifies(e, Ready)}
      BY <3>1, <3>2 DEF End, Notifies
    <3>4. ~missed' => asleep' = {}
      BY <1>6, <2>2, <3>3, SignalWakes DEF End
    <3> QED BY ZenonT(40), <1>1, <1>6, <2>2, <3>2, <3>4, SignalCalls DEF End, Ready
  <2> QED BY <2>1, <2>2
<1>10. TypeOK'
  <2>1. /\ pc' \in [End -> {"idle", "get", "have", "wait", "blocked", "would_block", "async"}]
        /\ count' \in [End -> Nat] /\ moved' \in [End -> Nat]
        /\ ptr' \in [End -> 0 .. SegSize] /\ len' \in [End -> 0 .. SegSize]
    <3>1. /\ pc \in [End -> {"idle", "get", "have", "wait", "blocked", "would_block", "async"}]
          /\ count \in [End -> Nat] /\ moved \in [End -> Nat]
          /\ ptr \in [End -> 0 .. SegSize] /\ len \in [End -> 0 .. SegSize]
      BY <1>1, EndTypes
    <3>2. 0 \in 0 .. SegSize
      BY <1>3
    <3> QED BY <1>4, <3>1, <3>2
  <2>2. {mReadCursor', mReadLimit', mWriteCursor', mWriteLimit'} \subseteq Null .. SegSize
    <3>1. CASE ~ done
      BY <1>3, <1>5, <3>1 DEF Null
    <3>2. CASE done /\ mWriteSegment = 0
      BY <1>3, <1>6, <3>2 DEF Null
    <3>3. CASE done /\ mWriteSegment # 0
      BY <1>3, <1>6, <3>3 DEF Null
    <3> QED BY <3>1, <3>2, <3>3
  <2>3. mAvailable' \in 0 .. Word - 1
    <3>1. mAvailable - n \in Int /\ Word \in Nat \ {0}
      BY <1>1, <1>3, WordHasRoom DEF TypeOK
    <3> QED BY <1>2, <3>1, ModRange
  <2>4. mWritable' \in BOOLEAN /\ asleep' \subseteq End
    BY <1>1, <1>5, <1>6, <1>9 DEF TypeOK
  <2> QED BY <1>1, <1>2, <1>3, <1>8, <1>9, <2>1, <2>2, <2>3, <2>4 DEF TypeOK
<1>11. UnreadCount \in Nat /\ UnreadCount <= SegCount * SegSize
       /\ UnreadCount = mWriteSegment * SegSize + mWriteCursor - mReadCursor
       /\ written - Len(delivered) = UnreadCount /\ BytesInPlace
  BY <1>1, <1>3, UnreadFits, Layout, HoldsInPlace DEF PipeInv
<1>12. UnreadCount' = UnreadCount - n
  <2> DEFINE k == mWriteSegment * SegSize
  <2>1. k \in Nat /\ UnreadCount = k + mWriteCursor - mReadCursor
    BY <1>3, <1>11, ProductNat
  <2>2. CASE ~ done
    <3>1. UnreadCount' = mWriteSegment * SegSize + mWriteCursor - (mReadCursor + n)
      BY <1>3, <1>5, <1>7, <1>10, <2>2, LayoutNext
    <3>2. UnreadCount' = k + mWriteCursor - (mReadCursor + n)
      BY <3>1
    <3> HIDE DEF k
    <3> QED BY <1>3, <2>1, <3>2
  <2>3. CASE done /\ mWriteSegment # 0
    <3>1. UnreadCount' = (mWriteSegment - 1) * SegSize + mWriteCursor - 0
      BY <1>3, <1>6, <1>7, <1>10, <2>3, LayoutNext
    <3>2. ((mWriteSegment - 1) + 1) * SegSize = (mWriteSegment - 1) * SegSize + SegSize
          /\ (mWriteSegment - 1) * SegSize \in Int /\ (mWriteSegment - 1) + 1 = mWriteSegment
      BY <1>3, ProductStep
    <3> DEFINE m == (mWriteSegment - 1) * SegSize
    <3>3. k = m + SegSize /\ m \in Int /\ UnreadCount' = m + mWriteCursor - 0
      BY <3>1, <3>2
    <3> HIDE DEF k, m
    <3> QED BY <1>3, <1>6, <2>1, <2>3, <3>3
  <2>4. CASE done /\ mWriteSegment = 0
    <3>1. UnreadCount' = 0
      BY <1>6, <2>4 DEF UnreadCount
    <3>2. k = 0
      <4>1. 0 * SegSize = 0
        BY <1>3
      <4> QED BY <2>4, <4>1
    <3> HIDE DEF k
    <3> QED BY <1>3, <1>6, <2>1, <2>4, <3>1, <3>2
  <2> QED BY <2>2, <2>3, <2>4
<1>13. AvailableExact'
  <2> SUFFICES ASSUME ~inClosed PROVE (UnreadCount - n) % Word = UnreadCount - n
    BY <1>1, <1>2, <1>12 DEF AvailableExact, PipeInv
  <2>1. UnreadCount - n \in Nat
    <3>1. UnreadCount >= n
      <4> DEFINE k == mWriteSegment * SegSize
      <4>1. k \in Nat /\ UnreadCount = k + mWriteCursor - mReadCursor
        BY <1>3, <1>11, ProductNat
      <4>2. mWriteSegment # 0 => k >= SegSize
        <5>1. mWriteSegment # 0 => 1 * SegSize <= k
          <6> SUFFICES ASSUME mWriteSegment # 0 PROVE 1 * SegSize <= mWriteSegment * SegSize
            OBVIOUS
          <6>1. 1 \in Nat /\ mWriteSegment \in Nat /\ SegSize \in Nat /\ 1 <= mWriteSegment
            BY <1>3
          <6> HIDE DEF k
          <6> QED BY <6>1, ProductMonotone
        <5>2. 1 * SegSize = SegSize
          BY <1>3
        <5> QED BY <5>1, <5>2
      <4> HIDE DEF k
      <4> QED BY <1>3, <4>1, <4>2
    <3> QED BY <1>3, <1>11, <3>1
  <2>2. UnreadCount - n < Word
    BY <1>3, <1>11, WordHasRoom
  <2> QED BY <2>1, <2>2, WordHasRoom
<1>14. (written - Len(delivered))' = UnreadCount'
  BY <1>2, <1>3, <1>11, <1>12
<1>15. BufferHoldsTheRest'
  <2>1. CASE done /\ mWriteSegment = 0
    <3>1. segs' = <<>> /\ mWriteSegment' = -1
      BY <1>3, <1>6, <2>1
    <3> QED BY <1>14, <3>1 DEF BufferHoldsTheRest
  <2>2. CASE ~(done /\ mWriteSegment = 0)
    <3>1. (segs # <<>>)'
      BY <1>3, <1>5, <1>6, <2>2
    <3>2. BytesInPlace'
      <4> SUFFICES ASSUME NEW i \in 0 .. mWriteSegment',
                          NEW o \in PeekCursor(i)' .. PeekLimit(i)' - 1
                   PROVE  segs'[i + 1][o] = Byte(i, o)'
        BY DEF BytesInPlace
      <4>1. Byte(i, o)' = (Len(delivered) + n) + i * SegSize + o - mReadCursor' + 1
        BY <1>2 DEF Byte
      <4> DEFINE k == i * SegSize
      <4>2. CASE ~ done
        <5>1. /\ i \in 0 .. mWriteSegment /\ o \in PeekCursor(i) .. PeekLimit(i) - 1 /\ o \in Int
              /\ segs'[i + 1] = segs[i + 1] /\ i \in Nat
          BY <1>3, <1>5, <4>2 DEF PeekCursor, PeekLimit
        <5>2. segs[i + 1][o] = Len(delivered) + k + o - mReadCursor + 1
          BY <1>11, <5>1 DEF BytesInPlace, Byte
        <5>3. Byte(i, o)' = (Len(delivered) + n) + k + o - (mReadCursor + n) + 1 /\ k \in Nat
          BY <1>3, <1>5, <4>1, <4>2, <5>1, ProductNat
        <5> HIDE DEF k
        <5>4. (Len(delivered) + n) + k + o - (mReadCursor + n) + 1
                = Len(delivered) + k + o - mReadCursor + 1
          BY <1>3, <5>1, <5>3
        <5> QED BY <5>1, <5>2, <5>3, <5>4
      <4>3. CASE done
        <5>1. mWriteSegment # 0
          BY <2>2, <4>3
        <5>2. i \in Nat /\ i + 1 \in 1 .. mWriteSegment /\ i + 1 \in 0 .. mWriteSegment /\ i + 1 # 0
          BY <1>3, <1>6, <4>3
        <5>3. segs'[i + 1] = segs[(i + 1) + 1]
          BY <1>6, <4>3, <5>2
        <5>4. PeekCursor(i)' = 0 /\ PeekCursor(i + 1) = 0
          BY <1>6, <4>3, <5>1, <5>2 DEF PeekCursor
        <5>5. PeekLimit(i)' = PeekLimit(i + 1)
          <6>1. PeekLimit(i + 1) = IF i + 1 = mWriteSegment THEN mWriteCursor ELSE SegSize
            BY <5>2 DEF PeekLimit
          <6>2. CASE i = 0
            <7>1. PeekLimit(i)' = mReadLimit'
              BY <6>2 DEF PeekLimit
            <7>2. mReadLimit' = IF mWriteSegment = 1 THEN mWriteCursor ELSE SegSize
              BY <1>6, <4>3, <5>1
            <7> QED BY <1>3, <6>1, <6>2, <7>1, <7>2
          <6>3. CASE i # 0
            <7>1. PeekLimit(i)' = IF i = mWriteSegment - 1 THEN mWriteCursor ELSE SegSize
              BY <1>6, <4>3, <5>1, <6>3 DEF PeekLimit
            <7> QED BY <1>3, <5>2, <6>1, <7>1
          <6> QED BY <6>2, <6>3
        <5>6. segs[(i + 1) + 1][o] = Len(delivered) + (i + 1) * SegSize + o - mReadCursor + 1
          BY <1>11, <5>2, <5>4, <5>5 DEF BytesInPlace, Byte
        <5>7. (i + 1) * SegSize = k + SegSize /\ k \in Int
          BY <1>3, <5>2, ProductStep
        <5>8. o \in Int /\ n = SegSize - mReadCursor
          BY <1>3, <1>6, <4>3, <5>1, <5>4, <5>5, <5>2 DEF PeekLimit
        <5>9. Byte(i, o)' = (Len(delivered) + n) + k + o - 0 + 1
          BY <1>6, <4>1, <4>3, <5>1
        <5> DEFINE b == segs[(i + 1) + 1][o]
        <5>10. b = Len(delivered) + (k + SegSize) + o - mReadCursor + 1
          BY <5>6, <5>7
        <5> HIDE DEF b, k
        <5>11. b = (Len(delivered) + n) + k + o - 0 + 1
          BY <1>3, <5>7, <5>8, <5>10
        <5> QED BY <5>3, <5>9, <5>11 DEF b
      <4> QED BY <4>2, <4>3
    <3> QED BY <1>7, <1>10, <1>14, <3>1, <3>2, LayoutNext
  <2> QED BY <2>1, <2>2
<1>16. RegionsOwned' /\ RegionsDisjoint' /\ EndsOK'
  <2>1. pc'["out"] = pc["out"] /\ ptr'["out"] = ptr["out"] /\ len'["out"] = len["out"]
        /\ count'["out"] = count["out"] /\ pc'["in"] = v /\ count'["in"] = l
    BY <1>1, <1>4 DEF TypeOK, End
  <2>2. RegionsOwned'
    <3>1. pc["out"] = "have" => /\ segs' # <<>> /\ mWriteCursor' = mWriteCursor
                                /\ mWriteLimit' = mWriteLimit
      BY <1>3, <1>5, <1>6
    <3>2. \A e \in End : /\ pc'[e] = "have" => e = "out" /\ pc["out"] = "have"
                         /\ pc'[e] \in {"get", "wait", "blocked"} => 0 < count'[e]
      BY <1>1, <1>4, <2>1 DEF PipeInv, RegionsOwned, End
    <3>3. pc["out"] = "have" =>
            /\ ptr["out"] = mWriteCursor /\ ptr["out"] + len["out"] <= mWriteLimit
            /\ 0 < len["out"] /\ len["out"] <= count["out"]
      BY <1>1 DEF PipeInv, RegionsOwned
    <3> QED BY <2>1, <3>1, <3>2, <3>3 DEF RegionsOwned
  <2>3. RegionsDisjoint'
    BY <2>1 DEF RegionsDisjoint
  <2>4. EndsOK'
    BY <1>1, <1>2, <2>1 DEF PipeInv, EndsOK, Failed, TypeOK
  <2> QED BY <2>2, <2>3, <2>4
<1>17. NobodyWaitsInVain'
  <2>1. ~ done => Full' = Full /\ NeedsSegment' = NeedsSegment
    BY <1>5 DEF Full, NeedsSegment
  <2>2. "in" \notin asleep /\ mCallback["in"] # "ready"
    <3>1. UnreadCount # 0
      BY <1>1, <1>3, EmptyIff DEF HasData
    <3>2. "in" \notin asleep
      BY <1>1, <1>2 DEF Inv, NobodyWaitsInVain, WaitersOK
    <3> QED BY <3>1, <3>2 DEF Inv, NobodyWaitsInVain, CallbackNotStranded
  <2>3. pc'["out"] = pc["out"] /\ pc'["in"] = v
    BY <1>1, <1>4 DEF TypeOK, End
  <2>4. WaitersOK'
    BY <1>1, <1>2, <1>5, <1>6, <1>9, <2>1, <2>3
       DEF Inv, NobodyWaitsInVain, WaitersOK, End, Failed
  <2>5. NoLostWakeup'
    BY <1>2, <1>5, <1>9, <2>1, <2>2 DEF Inv, NobodyWaitsInVain, NoLostWakeup, Failed
  <2>6. CallbackNotStranded'
    BY <1>1, <1>2, <1>5, <1>9, <2>2 DEF Inv, NobodyWaitsInVain, CallbackNotStranded, Failed
  <2> QED BY <2>4, <2>5, <2>6 DEF NobodyWaitsInVain
<1> QED BY <1>7, <1>10, <1>13, <1>15, <1>16, <1>17 DEF Inv, PipeInv

\* The three ways GetWriteSegment makes room: a first or a further segment, the
\* cursors rolled back, or what is left of the segment being written.
FirstSegment ==
  /\ segs = <<>> /\ Len(segs') = 1 /\ mWriteSegment' = 0
  /\ mReadCursor' = 0 /\ mReadLimit' = 0 /\ mWriteCursor' = 0
FurtherSegment ==
  /\ segs # <<>> /\ mWriteCursor = SegSize /\ mReadLimit = SegSize
  /\ Len(segs') = Len(segs) + 1 /\ mWriteSegment' = mWriteSegment + 1
  /\ \A i \in 1 .. Len(segs) : segs'[i] = segs[i]
  /\ mReadCursor' = mReadCursor /\ mReadLimit' = mReadLimit /\ mWriteCursor' = 0
RolledBack ==
  /\ segs # <<>> /\ segs' = segs /\ mWriteSegment = 0 /\ mWriteSegment' = 0
  /\ mReadCursor = mWriteCursor /\ mReadLimit = mWriteCursor
  /\ mReadCursor' = 0 /\ mReadLimit' = 0 /\ mWriteCursor' = 0
GoesOn ==
  /\ segs # <<>> /\ segs' = segs /\ mWriteSegment' = mWriteSegment /\ mWriteCursor < SegSize
  /\ mReadCursor' = mReadCursor /\ mReadLimit' = mReadLimit /\ mWriteCursor' = mWriteCursor
WriteGetCases == FirstSegment \/ FurtherSegment \/ RolledBack \/ GoesOn

LEMMA WriteGetStep ==
    ASSUME PipeInv, WriteGet
    PROVE  /\ segs' \in Seq([Offsets -> Nat]) /\ segs' # <<>> /\ Len(segs') <= SegCount
           /\ mWriteSegment' = Len(segs') - 1 /\ mWriteLimit' = SegSize
           /\ WriteGetCases
<1> DEFINE cursor == IF NeedsSegment THEN 0 ELSE mWriteCursor
           unread == IF mReadCursor = Null THEN cursor ELSE mReadCursor
           limit == IF mReadCursor = Null THEN cursor ELSE mReadLimit
           back == unread = cursor /\ mWriteSegment' = 0
           zeros == [i \in Offsets |-> 0]
<1>1. /\ segs' = IF NeedsSegment THEN Append(segs, zeros) ELSE segs
      /\ mWriteSegment' = mWriteSegment + IF NeedsSegment THEN 1 ELSE 0
      /\ mWriteCursor' = IF back THEN 0 ELSE cursor
      /\ mReadCursor' = IF back THEN 0 ELSE unread
      /\ mReadLimit' = IF back THEN 0 ELSE limit
      /\ mWriteLimit' = SegSize /\ ~(NeedsSegment /\ Full)
  BY DEF WriteGet, CanRollBack
<1>2. /\ segs \in Seq([Offsets -> Nat]) /\ Len(segs) <= SegCount /\ Len(segs) \in Nat
      /\ mWriteSegment = Len(segs) - 1 /\ SegCount \in Nat /\ SegSize \in Nat \ {0}
      /\ segs = <<>> <=> Len(segs) = 0
  BY Shape DEF PipeInv, TypeOK
<1>3. zeros \in [Offsets -> Nat]
  OBVIOUS
<1> HIDE DEF zeros
<1>4. CASE NeedsSegment
  <2>1. segs' = Append(segs, zeros) /\ cursor = 0 /\ mWriteSegment' = mWriteSegment + 1
        /\ Len(segs) # SegCount
    BY <1>1, <1>4 DEF Full
  <2>2. segs' \in Seq([Offsets -> Nat]) /\ Len(segs') = Len(segs) + 1
        /\ \A i \in 1 .. Len(segs) : segs'[i] = segs[i]
    BY <1>2, <1>3, <2>1
  <2>3. segs' # <<>> /\ Len(segs') <= SegCount /\ mWriteSegment' = Len(segs') - 1
    <3>1. Len(segs') # 0 /\ Len(segs') <= SegCount /\ mWriteSegment' = Len(segs') - 1
      BY <1>2, <2>1, <2>2
    <3> QED BY <3>1
  <2>4. CASE segs = <<>>
    <3>1. mReadCursor = Null
      BY <2>4 DEF PipeInv, CursorsOK
    <3>2. unread = 0 /\ limit = 0 /\ mWriteSegment' = 0
      BY <1>2, <2>1, <2>4, <3>1
    <3>3. mReadCursor' = 0 /\ mReadLimit' = 0 /\ mWriteCursor' = 0
      BY <1>1, <2>1, <3>2
    <3> HIDE DEF cursor, unread, limit, back
    <3>4. Len(segs') = 1
      BY <1>2, <2>2, <2>4
    <3>5. WriteGetCases
      BY <2>4, <3>2, <3>3, <3>4 DEF WriteGetCases, FirstSegment
    <3> QED BY <1>1, <2>2, <2>3, <3>5
  <2>5. CASE segs # <<>>
    <3>1. /\ mReadCursor \in Nat /\ mReadLimit = IF mWriteSegment = 0 THEN mWriteCursor ELSE SegSize
          /\ mWriteCursor = SegSize /\ mWriteSegment \in Nat
      BY <1>4, <2>5, Shape DEF PipeInv, CursorsOK, NeedsSegment
    <3>2. unread = mReadCursor /\ limit = mReadLimit /\ ~ back
      BY <1>2, <2>1, <3>1 DEF Null
    <3>3. mReadCursor' = mReadCursor /\ mReadLimit' = mReadLimit /\ mWriteCursor' = 0
      BY <1>1, <2>1, <3>2
    <3> HIDE DEF cursor, unread, limit, back
    <3>4. WriteGetCases
      BY <2>1, <2>2, <2>5, <3>1, <3>3 DEF WriteGetCases, FurtherSegment
    <3> QED BY <1>1, <2>2, <2>3, <3>4
  <2> QED BY <2>4, <2>5
<1>5. CASE ~ NeedsSegment
  <2>1. segs' = segs /\ cursor = mWriteCursor /\ mWriteSegment' = mWriteSegment
    BY <1>1, <1>2, <1>5
  <2>2. segs # <<>>
    BY <1>5 DEF PipeInv, CursorsOK, NeedsSegment
  <2>3. /\ mReadCursor \in Nat /\ mReadLimit = IF mWriteSegment = 0 THEN mWriteCursor ELSE SegSize
        /\ mWriteCursor < SegSize /\ mWriteSegment \in Nat
    BY <1>5, <2>2, Shape DEF PipeInv, CursorsOK, NeedsSegment
  <2>4. unread = mReadCursor /\ limit = mReadLimit
    BY <2>3 DEF Null
  <2>5. \/ /\ mWriteSegment = 0 /\ mReadCursor = mWriteCursor
           /\ mReadCursor' = 0 /\ mReadLimit' = 0 /\ mWriteCursor' = 0
        \/ mReadCursor' = mReadCursor /\ mReadLimit' = mReadLimit /\ mWriteCursor' = mWriteCursor
    BY <1>1, <2>1, <2>4
  <2> HIDE DEF cursor, unread, limit, back
  <2>6. RolledBack \/ GoesOn
    BY <2>1, <2>2, <2>3, <2>5 DEF RolledBack, GoesOn
  <2> QED BY <1>1, <1>2, <2>1, <2>2, <2>6 DEF WriteGetCases
<1> QED BY <1>4, <1>5

LEMMA LeastFits ==
    ASSUME NEW s \in Nat \ {0}, NEW c \in 0 .. s - 1, NEW k \in Nat \ {0}
    PROVE  /\ Least(s - c, k) \in 1 .. s /\ Least(s - c, k) <= k
           /\ c + Least(s - c, k) <= s
BY DEF Least

\* The writer gets a region.
LEMMA WriteGetPreserves ==
    ASSUME Inv, WriteGet
    PROVE  Inv'
<1>1. PipeInv /\ TypeOK /\ CursorsOK /\ "in" \in End /\ "out" \in End
  BY DEF Inv, PipeInv, End
<1>2. /\ segs' \in Seq([Offsets -> Nat]) /\ segs' # <<>> /\ Len(segs') <= SegCount
      /\ mWriteSegment' = Len(segs') - 1 /\ mWriteLimit' = SegSize /\ WriteGetCases
  BY <1>1, WriteGetStep
<1>3. /\ pc["out"] = "get" /\ ~ Failed /\ ~(NeedsSegment /\ Full)
      /\ pc' = [pc EXCEPT !["out"] = "have"]
      /\ ptr' = [ptr EXCEPT !["out"] = mWriteCursor']
      /\ len' = [len EXCEPT !["out"] = Least(SegSize - mWriteCursor', count["out"])]
      /\ mStatus' = mStatus /\ mAvailable' = mAvailable /\ mWritable' = mWritable
      /\ mCallback' = mCallback /\ asleep' = asleep /\ told' = told
      /\ mBlocking' = mBlocking /\ mBlocked' = mBlocked /\ count' = count /\ moved' = moved
      /\ written' = written /\ delivered' = delivered
      /\ inClosed' = inClosed /\ ended' = ended /\ late' = late /\ missed' = missed
  BY DEF WriteGet, status, wakeup, hist
<1>4. /\ SegSize \in Nat \ {0} /\ Len(segs) \in Nat /\ mWriteSegment = Len(segs) - 1
      /\ Len(delivered) \in Nat /\ written \in Nat /\ count["out"] \in Nat \ {0}
      /\ Len(segs') \in Nat
      /\ segs = <<>> => mReadCursor = -1 /\ mReadLimit = -1 /\ mWriteCursor = -1 /\ Len(segs) = 0
      /\ segs # <<>> =>
           /\ mReadCursor \in Nat /\ mReadLimit \in Nat /\ mWriteCursor \in Nat
           /\ mReadCursor <= mReadLimit /\ mReadCursor < SegSize /\ mReadLimit <= SegSize
           /\ mWriteCursor <= SegSize /\ mWriteSegment \in Nat
           /\ mReadLimit = IF mWriteSegment = 0 THEN mWriteCursor ELSE SegSize
  <2>1. Len(delivered) \in Nat /\ written \in Nat /\ count["out"] \in Nat
    BY <1>1 DEF TypeOK
  <2>2. count["out"] # 0
    BY <1>1, <1>3, <2>1 DEF PipeInv, RegionsOwned
  <2>3. segs = <<>> => mReadCursor = -1 /\ mReadLimit = -1 /\ mWriteCursor = -1
    BY <1>1 DEF CursorsOK, Null
  <2> QED BY <1>1, <1>2, <2>1, <2>2, <2>3, Shape DEF CursorsOK
<1>5. CursorsOK' /\ mWriteCursor' \in 0 .. SegSize - 1
  <2> USE DEF CursorsOK
  <2>1. CASE FirstSegment
    BY <1>2, <1>4, <2>1 DEF FirstSegment
  <2>2. CASE FurtherSegment
    BY <1>2, <1>4, <2>2 DEF FurtherSegment
  <2>3. CASE RolledBack
    BY <1>2, <1>4, <2>3 DEF RolledBack
  <2>4. CASE GoesOn
    BY <1>2, <1>4, <2>4 DEF GoesOn
  <2> QED BY <1>2, <2>1, <2>2, <2>3, <2>4 DEF WriteGetCases
<1>6. PICK l \in 1 .. SegSize :
        len' = [len EXCEPT !["out"] = l] /\ l <= count["out"] /\ mWriteCursor' + l <= SegSize
  <2> DEFINE l == Least(SegSize - mWriteCursor', count["out"])
  <2>1. l \in 1 .. SegSize /\ l <= count["out"] /\ mWriteCursor' + l <= SegSize
    BY <1>4, <1>5, LeastFits
  <2>2. len' = [len EXCEPT !["out"] = l]
    BY <1>3
  <2> HIDE DEF l
  <2> QED BY <2>1, <2>2
<1>7. TypeOK'
  <2>1. /\ pc' \in [End -> {"idle", "get", "have", "wait", "blocked", "would_block", "async"}]
        /\ ptr' \in [End -> 0 .. SegSize] /\ len' \in [End -> 0 .. SegSize]
    <3>1. /\ pc \in [End -> {"idle", "get", "have", "wait", "blocked", "would_block", "async"}]
          /\ ptr \in [End -> 0 .. SegSize] /\ len \in [End -> 0 .. SegSize]
          /\ l \in 0 .. SegSize /\ mWriteCursor' \in 0 .. SegSize
      BY <1>1, <1>4, <1>5, EndTypes
    <3> QED BY <1>3, <1>6, <3>1
  <2>2. {mReadCursor', mReadLimit', mWriteCursor', mWriteLimit'} \subseteq Null .. SegSize
    BY <1>2, <1>4 DEF WriteGetCases, FirstSegment, FurtherSegment, RolledBack, GoesOn, Null
  <2> QED BY <1>1, <1>2, <1>3, <2>1, <2>2 DEF TypeOK
<1>8. UnreadCount' = UnreadCount
  <2>1. UnreadCount' = mWriteSegment' * SegSize + mWriteCursor' - mReadCursor'
    BY <1>2, <1>5, <1>7, LayoutNext
  <2>2. segs = <<>> => UnreadCount = 0
    BY DEF UnreadCount
  <2>3. segs # <<>> => UnreadCount = mWriteSegment * SegSize + mWriteCursor - mReadCursor
    BY <1>1, Layout
  <2>4. 0 * SegSize = 0
    BY <1>4
  <2>5. CASE GoesOn
    BY <2>1, <2>3, <2>5 DEF GoesOn
  <2>6. CASE FirstSegment \/ RolledBack
    <3>1. UnreadCount' = 0 * SegSize + 0 - 0
      BY <2>1, <2>6 DEF FirstSegment, RolledBack
    <3>2. UnreadCount = 0
      <4>1. CASE FirstSegment
        BY <2>2, <4>1 DEF FirstSegment
      <4>2. CASE RolledBack
        <5>1. UnreadCount = 0 * SegSize + mWriteCursor - mWriteCursor /\ mWriteCursor \in Nat
          BY <1>4, <2>3, <4>2 DEF RolledBack
        <5> QED BY <2>4, <5>1
      <4> QED BY <2>6, <4>1, <4>2
    <3> QED BY <2>4, <3>1, <3>2
  <2>7. CASE FurtherSegment
    <3> DEFINE k == mWriteSegment * SegSize
    <3>1. k \in Nat /\ UnreadCount = k + mWriteCursor - mReadCursor
      BY <1>4, <2>3, <2>7, ProductNat DEF FurtherSegment
    <3>2. (mWriteSegment + 1) * SegSize = k + SegSize
      BY <1>4, ProductStep
    <3>3. mWriteSegment' = mWriteSegment + 1 /\ mWriteCursor' = 0 /\ mWriteCursor = SegSize
          /\ mReadCursor' = mReadCursor
      BY <2>7 DEF FurtherSegment
    <3>4. UnreadCount' = (k + SegSize) + 0 - mReadCursor
      BY <2>1, <3>2, <3>3
    <3> HIDE DEF k
    <3> QED BY <1>4, <2>7, <3>1, <3>3, <3>4 DEF FurtherSegment
  <2> QED BY <1>2, <2>5, <2>6, <2>7 DEF WriteGetCases
<1>9. AvailableExact' /\ EndsOK'
  <2>1. ~ late
    BY <1>1, <1>3 DEF PipeInv, EndsOK
  <2> QED BY <1>1, <1>3, <1>8, <2>1 DEF PipeInv, AvailableExact, EndsOK, Failed
<1>10. BufferHoldsTheRest'
  <2>1. written - Len(delivered) = UnreadCount
    BY <1>1 DEF PipeInv, BufferHoldsTheRest
  <2>2. BytesInPlace'
    <3> SUFFICES ASSUME NEW i \in 0 .. mWriteSegment',
                        NEW o \in PeekCursor(i)' .. PeekLimit(i)' - 1
                 PROVE  segs'[i + 1][o] = Byte(i, o)'
      BY DEF BytesInPlace
    <3>1. /\ segs # <<>> /\ i \in 0 .. mWriteSegment /\ segs'[i + 1] = segs[i + 1]
          /\ mReadCursor' = mReadCursor /\ o \in PeekCursor(i) .. PeekLimit(i) - 1
      <4>1. CASE FirstSegment \/ RolledBack
        <5>1. PeekCursor(i)' = 0 /\ PeekLimit(i)' = 0
          BY <4>1 DEF FirstSegment, RolledBack, PeekCursor, PeekLimit
        <5> QED BY <5>1
      <4>2. CASE GoesOn
        BY <4>2 DEF GoesOn, PeekCursor, PeekLimit
      <4>3. CASE FurtherSegment
        <5> USE <4>3 DEF FurtherSegment
        <5>1. i # mWriteSegment + 1
          <6> SUFFICES ASSUME i = mWriteSegment + 1 PROVE FALSE
            OBVIOUS
          <6>1. PeekCursor(i)' = 0 /\ PeekLimit(i)' = 0
            BY <1>4 DEF PeekCursor, PeekLimit
          <6> QED BY <6>1
        <5>2. i \in 0 .. mWriteSegment /\ i + 1 \in 1 .. Len(segs)
          BY <1>4, <5>1
        <5>3. PeekCursor(i)' = PeekCursor(i) /\ PeekLimit(i)' = PeekLimit(i)
          BY <1>4, <5>1, <5>2 DEF PeekCursor, PeekLimit
        <5> QED BY <5>2, <5>3
      <4> QED BY <1>2, <4>1, <4>2, <4>3 DEF WriteGetCases
    <3>2. BytesInPlace
      BY <1>1, <3>1, HoldsInPlace DEF PipeInv
    <3> QED BY <1>3, <3>1, <3>2 DEF BytesInPlace, Byte
  <2> QED BY <1>2, <1>3, <1>5, <1>7, <1>8, <2>1, <2>2, LayoutNext
<1>11. pc'["in"] = pc["in"] /\ ptr'["in"] = ptr["in"] /\ len'["in"] = len["in"]
       /\ pc'["out"] = "have" /\ ptr'["out"] = mWriteCursor' /\ len'["out"] = l
  BY <1>1, <1>3, <1>6 DEF TypeOK, End
<1>12. pc["in"] = "have" =>
         /\ mReadCursor' = mReadCursor /\ mReadLimit' = mReadLimit
         /\ ptr["in"] = mReadCursor /\ ptr["in"] + len["in"] <= mReadLimit
  <2> SUFFICES ASSUME pc["in"] = "have"
               PROVE  /\ mReadCursor' = mReadCursor /\ mReadLimit' = mReadLimit
                      /\ ptr["in"] = mReadCursor /\ ptr["in"] + len["in"] <= mReadLimit
    OBVIOUS
  <2>1. /\ 0 < len["in"] /\ ptr["in"] = mReadCursor /\ ptr["in"] + len["in"] <= mReadLimit
        /\ len["in"] \in Nat
    <3>1. len["in"] \in 0 .. SegSize
      BY <1>1 DEF TypeOK
    <3> QED BY <1>1, <1>4, <3>1 DEF PipeInv, RegionsOwned
  <2>2. mReadCursor # mReadLimit
    BY <1>4, <2>1
  <2> QED BY <1>2, <1>4, <2>1, <2>2
          DEF WriteGetCases, FirstSegment, FurtherSegment, RolledBack, GoesOn
<1>13. RegionsOwned'
  <2>1. \A e \in End : /\ pc'[e] = "have" => e = "out" \/ (pc["in"] = "have" /\ e = "in")
                       /\ pc'[e] \in {"get", "wait", "blocked"} => 0 < count[e]
    BY <1>1, <1>11 DEF PipeInv, RegionsOwned, End
  <2>2. pc["in"] = "have" => 0 < len["in"] /\ len["in"] <= count["in"]
    BY <1>1 DEF PipeInv, RegionsOwned
  <2> QED BY <1>2, <1>3, <1>6, <1>11, <1>12, <2>1, <2>2 DEF RegionsOwned
<1>14. RegionsDisjoint'
  <2> SUFFICES ASSUME pc["in"] = "have", Len(segs') = 1
               PROVE  ptr["in"] + len["in"] <= mWriteCursor'
    BY <1>11 DEF RegionsDisjoint
  <2>1. mReadLimit' = mWriteCursor'
    BY <1>2, <1>5 DEF CursorsOK
  <2> QED BY <1>12, <2>1
<1>15. NobodyWaitsInVain'
  <2>1. mWritable
    BY <1>3 DEF Inv, NobodyWaitsInVain, WaitersOK
  <2>2. "out" \notin asleep
    BY <1>1, <1>3 DEF Inv, NobodyWaitsInVain, WaitersOK
  <2>3. WaitersOK'
    BY <1>1, <1>3, <1>11, <2>1 DEF Inv, NobodyWaitsInVain, WaitersOK, End, Failed
  <2>4. NoLostWakeup'
    BY <1>3, <1>8, <2>2 DEF Inv, NobodyWaitsInVain, NoLostWakeup, Failed
  <2>5. CallbackNotStranded'
    BY <1>3, <1>8 DEF Inv, NobodyWaitsInVain, CallbackNotStranded, Failed
  <2> QED BY <2>3, <2>4, <2>5 DEF NobodyWaitsInVain
<1> QED BY <1>5, <1>7, <1>9, <1>10, <1>13, <1>14, <1>15 DEF Inv, PipeInv

\* The pipe ends: nobody sleeps any more whose notify no callback took, and a callback
\* that stays registered is one for the closure of an input that still has bytes.
Ends(reason) ==
  /\ mStatus' = reason /\ reason \in {"closed", "error"} /\ mWritable' = FALSE
  /\ mAvailable' \in 0 .. Word - 1 /\ asleep' \subseteq asleep
  /\ missed' \in BOOLEAN /\ (~missed' => asleep' = {}) /\ told' \in [End -> BOOLEAN]
  /\ mCallback' \in [End -> {"none", "ready", "closure"}]
  /\ mCallback'["out"] = "none" /\ mCallback'["in"] # "ready"

LEMMA ExceptionStep ==
    ASSUME Inv, NEW reason \in Reasons, NEW outputOnly \in BOOLEAN, ~ Failed,
           OnPipeException(reason, outputOnly)
    PROVE  Ends(reason) /\ (outputOnly => mAvailable' = mAvailable)
<1>1. /\ mStatus' = reason /\ mWritable' = FALSE
      /\ mAvailable' = IF SparesInput(outputOnly) THEN mAvailable ELSE 0
      /\ Signal(EndsHit(outputOnly), Any) /\ EndsHit(outputOnly) \in SUBSET End
  BY DEF OnPipeException, EndsHit, End
<1>2. TypeOK /\ "in" \in End /\ "out" \in End /\ 0 \in 0 .. Word - 1
      /\ mAvailable \in 0 .. Word - 1 /\ reason \in {"closed", "error"}
  <2>1. 0 \in 0 .. Word - 1
    BY WordHasRoom
  <2> QED BY <2>1, CountsAssumption DEF Inv, PipeInv, TypeOK, End
<1>3. SparesInput(outputOnly) => (~missed => "in" \notin asleep) /\ mCallback["in"] # "ready"
  BY DEF SparesInput, Inv, PipeInv, AvailableExact, EndsOK, NobodyWaitsInVain, NoLostWakeup,
         CallbackNotStranded
<1>4. /\ mCallback' \in [End -> {"none", "ready", "closure"}] /\ told' \in [End -> BOOLEAN]
      /\ \A e \in End : mCallback'[e] = mCallback[e] \/ mCallback'[e] = "none"
      /\ \A e \in EndsHit(outputOnly) : mCallback'[e] \notin Any \/ mCallback'[e] = "none"
      /\ asleep' \subseteq asleep /\ missed' \in BOOLEAN
      /\ ~missed' => ~missed /\ \A e \in EndsHit(outputOnly) : e \in asleep => ~Called(e, Any)
  BY <1>1, <1>2, SignalCalls
<1>5. ~missed' => asleep' = {}
  <2> SUFFICES ASSUME ~missed' PROVE asleep \subseteq {e \in EndsHit(outputOnly) : Notifies(e, Any)}
    BY <1>1, SignalWakes
  <2> SUFFICES ASSUME NEW e \in asleep PROVE e \in EndsHit(outputOnly) /\ Notifies(e, Any)
    OBVIOUS
  <2>1. e \in End /\ mBlocked[e]
    BY <1>2 DEF TypeOK, Inv, NobodyWaitsInVain, WaitersOK
  <2>2. e \in EndsHit(outputOnly)
    BY <1>3, <1>4, <2>1 DEF EndsHit, End
  <2> QED BY <1>4, <2>1, <2>2 DEF Notifies
<1>7. \A e \in EndsHit(outputOnly) : mCallback'[e] = "none"
  <2> SUFFICES ASSUME NEW e \in EndsHit(outputOnly) PROVE mCallback'[e] = "none"
    OBVIOUS
  <2>1. mCallback'[e] \in {"none", "ready", "closure"}
    BY <1>1, <1>4
  <2> QED BY <1>4, <2>1 DEF Any
<1>8. mCallback'["out"] = "none" /\ mCallback'["in"] # "ready"
  <2>1. "out" \in EndsHit(outputOnly)
    BY DEF EndsHit, End
  <2>2. "in" \in EndsHit(outputOnly) \/ SparesInput(outputOnly)
    BY DEF EndsHit, End
  <2> QED BY <1>2, <1>3, <1>4, <1>7, <2>1, <2>2
<1>9. mAvailable' \in 0 .. Word - 1 /\ (outputOnly => mAvailable' = mAvailable)
  BY <1>1, <1>2 DEF SparesInput
<1> QED BY <1>1, <1>2, <1>4, <1>5, <1>8, <1>9 DEF Ends

\* An end is closed: the threads stay where they are, and mAvailable says what is
\* unread unless it was the input.
LEMMA ClosePreserves ==
    ASSUME Inv, NEW r \in Reasons, NEW outputOnly \in BOOLEAN, OnPipeException(r, outputOnly),
           UNCHANGED <<buffer, mBlocking, mBlocked, call, written, delivered, ended, late>>,
           inClosed' \in BOOLEAN,
           IF outputOnly THEN inClosed' = inClosed ELSE inClosed' = TRUE
    PROVE  Inv'
<1>1. UNCHANGED <<buffer, written, delivered>>
  OBVIOUS
<1>2. /\ UnreadCount' = UnreadCount /\ CursorsOK' /\ BufferHoldsTheRest'
      /\ NeedsSegment' = NeedsSegment /\ Full' = Full
  BY <1>1, BufferSame DEF Inv, PipeInv
<1>3. CASE Failed
  <2>1. UNCHANGED <<status, wakeup>>
    BY <1>3 DEF OnPipeException
  <2>2. TypeOK'
    BY <2>1 DEF Inv, PipeInv, TypeOK, buffer, status, wakeup, call
  <2>3. AvailableExact' /\ EndsOK'
    BY <1>2, <1>3, <2>1 DEF Inv, PipeInv, AvailableExact, EndsOK, status, call, Failed
  <2>4. RegionsOwned' /\ RegionsDisjoint'
    BY DEF Inv, PipeInv, RegionsOwned, RegionsDisjoint, buffer, call
  <2>5. NobodyWaitsInVain'
    BY <1>2, <2>1 DEF Inv, NobodyWaitsInVain, WaitersOK, NoLostWakeup,
                CallbackNotStranded, status, wakeup, call, Failed
  <2> QED BY <1>2, <2>2, <2>3, <2>4, <2>5 DEF Inv, PipeInv
<1>4. CASE ~ Failed
  <2>1. Ends(r) /\ (outputOnly => mAvailable' = mAvailable)
    BY <1>4, ExceptionStep
  <2>2. TypeOK'
    BY <2>1 DEF Ends, Inv, PipeInv, TypeOK, buffer, call
  <2>3. AvailableExact' /\ EndsOK'
    <3>1. Failed'
      BY <2>1 DEF Ends, Failed
    <3>2. ~ late
      BY <1>4 DEF Inv, PipeInv, EndsOK
    <3> QED BY <1>2, <2>1, <3>1, <3>2 DEF Inv, PipeInv, AvailableExact, EndsOK, call
  <2>4. RegionsOwned' /\ RegionsDisjoint'
    BY DEF Inv, PipeInv, RegionsOwned, RegionsDisjoint, buffer, call
  <2>5. NobodyWaitsInVain'
    BY <2>1 DEF Ends, Inv, NobodyWaitsInVain, WaitersOK, NoLostWakeup,
                CallbackNotStranded, call, Failed
  <2> QED BY <1>2, <2>2, <2>3, <2>4, <2>5 DEF Inv, PipeInv
<1> QED BY <1>3, <1>4

LEMMA CloseInputPreserves ==
    ASSUME Inv, NEW r \in Reasons, CloseInput(r)
    PROVE  Inv'
BY ClosePreserves DEF CloseInput

LEMMA CloseOutputPreserves ==
    ASSUME Inv, NEW r \in Reasons, CloseOutput(r)
    PROVE  Inv'
<1>1. inClosed \in BOOLEAN
  BY DEF Inv, PipeInv, TypeOK
<1> QED BY <1>1, ClosePreserves DEF CloseOutput, hist

LEMMA StutterPreserves ==
    ASSUME Inv, UNCHANGED vars
    PROVE  Inv'
<1> USE DEF Inv, vars
<1>1. UNCHANGED <<buffer, written, delivered>>
  BY DEF hist
<1>2. /\ UnreadCount' = UnreadCount /\ CursorsOK' /\ BufferHoldsTheRest'
      /\ NeedsSegment' = NeedsSegment /\ Full' = Full
  BY <1>1, BufferSame DEF PipeInv
<1>3. TypeOK'
  BY DEF PipeInv, TypeOK, buffer, status, wakeup, call, hist
<1>4. AvailableExact' /\ RegionsOwned' /\ RegionsDisjoint' /\ EndsOK'
  BY <1>2 DEF PipeInv, AvailableExact, RegionsOwned, RegionsDisjoint, EndsOK,
              buffer, status, call, hist, Failed
<1>5. NobodyWaitsInVain'
  BY <1>2 DEF NobodyWaitsInVain, WaitersOK, NoLostWakeup, CallbackNotStranded,
              status, wakeup, call, hist, Failed
<1> QED BY <1>2, <1>3, <1>4, <1>5 DEF PipeInv

-----------------------------------------------------------------------------
\* Every step of the pipe preserves both invariants.
LEMMA NextInv == Inv /\ [Next]_vars => Inv'
<1> SUFFICES ASSUME Inv, [Next]_vars PROVE Inv'
  OBVIOUS
<1>1. "in" \in End /\ "out" \in End /\ "ready" \in Any /\ "closure" \in Any
  BY DEF End, Any
<1>2. CASE ReaderStep
  <2>1. CASE WaitReady("in")
    BY <1>1, <2>1, AsyncWaitPreserves DEF WaitReady
  <2> QED BY <1>2, <2>1, ReadGetPreserves, ReadEmptyPreserves, InWaitPreserves DEF ReaderStep
<1>3. CASE WriterStep
  <2>1. CASE WaitReady("out")
    BY <1>1, <2>1, AsyncWaitPreserves DEF WaitReady
  <2> QED BY <1>3, <2>1, WriteFailedPreserves, WriteFullPreserves, WriteGetPreserves,
             OutWaitPreserves DEF WriterStep
<1>4. CASE Takes
  BY <1>4, ReadAdvancePreserves DEF Takes
<1>5. CASE Fills
  BY <1>5, WriteAdvancePreserves DEF Fills
<1>6. CASE \E e \in End, n \in Counts : Call(e, n)
  BY <1>6, CallPreserves
<1>7. CASE \E e \in End : Refuse(e) \/ OnReady(e)
  BY <1>7, RefusePreserves, OnReadyPreserves
<1>8. CASE \E e \in End, kind \in Any : WaitAnyTime(e, kind)
  BY <1>8, AsyncWaitPreserves DEF WaitAnyTime
<1>9. CASE \E r \in Reasons : CloseInput(r) \/ CloseOutput(r)
  BY <1>9, CloseInputPreserves, CloseOutputPreserves
<1>10. CASE UNCHANGED vars
  BY <1>10, StutterPreserves
<1> QED BY <1>2, <1>3, <1>4, <1>5, <1>6, <1>7, <1>8, <1>9, <1>10 DEF Next

LEMMA Inductive == Init /\ [][Next]_vars => []Inv
BY InitInv, NextInv, PTL

\* What the cursors, the segments and mAvailable say of each other and of the bytes
\* that were written and read, whatever the other end does while a thread copies.
THEOREM PipeInvariant == Spec => []PipeInv
<1>1. Inv => PipeInv
  BY DEF Inv
<1> QED BY <1>1, Inductive, PTL DEF Spec

\* No wakeup of a blocked thread is lost, until a callback takes the place of one, and no
\* registered callback is stranded.
THEOREM WaitersInvariant == Spec => []NobodyWaitsInVain
<1>1. Inv => NobodyWaitsInVain
  BY DEF Inv
<1> QED BY <1>1, Inductive, PTL DEF Spec

-----------------------------------------------------------------------------
\* What the reader takes are the next bytes written.
LEMMA TakesNext ==
    ASSUME Inv, Takes
    PROVE  Abstract!Take
<1>1. PICK n \in 1 .. SegSize : ReadAdvance(n)
  BY DEF Takes
<1>2. /\ delivered' = delivered \o [i \in 1 .. n |-> Len(delivered) + i]
      /\ UNCHANGED <<written, mStatus, inClosed, ended, late>>
      /\ pc["in"] = "have" /\ n \in 1 .. len["in"]
  BY <1>1, ReadAdvanceStep
<1>3. n \in 1 .. Abstract!Pending
  <2>1. /\ n \in Nat \ {0} /\ mReadCursor + n <= mReadLimit /\ mReadCursor \in Nat
        /\ mReadLimit \in Nat /\ mWriteCursor \in Nat /\ mWriteSegment \in Nat
        /\ SegSize \in Nat /\ segs # <<>>
        /\ mReadLimit = IF mWriteSegment = 0 THEN mWriteCursor ELSE SegSize
    BY <1>2, ReaderHas DEF Inv
  <2>2. UnreadCount = mWriteSegment * SegSize + mWriteCursor - mReadCursor
        /\ written - Len(delivered) = UnreadCount
    BY <2>1, Layout DEF Inv, PipeInv, BufferHoldsTheRest
  <2> DEFINE k == mWriteSegment * SegSize
  <2>3. k \in Nat /\ UnreadCount = k + mWriteCursor - mReadCursor
    BY <2>1, <2>2, ProductNat
  <2>4. mWriteSegment # 0 => SegSize <= k
    <3> SUFFICES ASSUME mWriteSegment # 0 PROVE SegSize <= mWriteSegment * SegSize
      OBVIOUS
    <3> HIDE DEF k
    <3>1. 1 \in Nat /\ mWriteSegment \in Nat /\ SegSize \in Nat /\ 1 <= mWriteSegment
      BY <2>1
    <3>2. 1 * SegSize <= mWriteSegment * SegSize
      BY <3>1, ProductMonotone
    <3>3. 1 * SegSize = SegSize
      BY <3>1
    <3> QED BY <3>2, <3>3
  <2> HIDE DEF k
  <2>5. n <= UnreadCount /\ UnreadCount \in Int
    BY <2>1, <2>3, <2>4
  <2> QED BY <2>1, <2>2, <2>5 DEF Abstract!Pending
<1> QED BY <1>2, <1>3 DEF Abstract!Take

\* The writer never puts more than the capacity, and only once when the pipe has ended.
LEMMA FillsPut ==
    ASSUME Inv, Inv', Fills
    PROVE  Abstract!Put
<1>1. PICK n \in 1 .. SegSize : WriteAdvance(n)
  BY DEF Fills
<1>2. /\ pc["out"] = "have" /\ written' = written + n
      /\ UNCHANGED <<delivered, mStatus, inClosed, ended>> /\ late' = (late \/ Failed)
  BY <1>1 DEF WriteAdvance
<1>3. ~ late /\ late' = (mStatus # "ok")
  BY <1>2 DEF Inv, PipeInv, EndsOK, Failed
<1>4. written' <= Len(delivered) + SegSize * SegCount
  <2>1. (written - Len(delivered))' = UnreadCount'
    BY DEF Inv, PipeInv, BufferHoldsTheRest
  <2>2. (TypeOK /\ CursorsOK => UnreadCount \in Nat /\ UnreadCount <= SegCount * SegSize)'
    BY UnreadFits, PTL
  <2>3. UnreadCount' \in Nat /\ UnreadCount' <= SegCount * SegSize
    BY <2>2 DEF Inv, PipeInv
  <2>4. SegCount * SegSize = SegSize * SegCount /\ SegCount * SegSize \in Nat
    BY SegAssumption, WordHasRoom
  <2>5. written' \in Nat /\ Len(delivered) \in Nat
    BY DEF Inv, PipeInv, TypeOK
  <2> DEFINE m == SegSize * SegCount
  <2>6. UnreadCount' <= m /\ m \in Nat /\ written' - Len(delivered) = UnreadCount'
    BY <1>2, <2>1, <2>3, <2>4
  <2> HIDE DEF m
  <2>7. written' <= Len(delivered) + m
    BY <2>3, <2>5, <2>6
  <2> QED BY <2>7 DEF m
<1>5. written' \in written + 1 .. Len(delivered) + SegSize * SegCount
  <2>1. n \in Nat \ {0} /\ written \in Nat /\ written' \in Nat /\ Len(delivered) \in Nat
        /\ SegSize * SegCount \in Nat
    <3>1. written \in Nat /\ written' \in Nat /\ Len(delivered) \in Nat
      BY DEF Inv, PipeInv, TypeOK
    <3>2. n \in Nat \ {0} /\ SegSize * SegCount \in Nat
      BY SegAssumption, ProductNat
    <3> QED BY <3>1, <3>2
  <2> DEFINE m == SegSize * SegCount
  <2>2. m \in Nat /\ written' <= Len(delivered) + m
    BY <1>4, <2>1
  <2> HIDE DEF m
  <2>3. written' \in written + 1 .. Len(delivered) + m
    BY <1>2, <2>1, <2>2
  <2> QED BY <2>3 DEF m
<1> QED BY <1>2, <1>3, <1>5 DEF Abstract!Put

\* A reader that is told of the end has every byte, unless the input was closed or
\* the pipe ended in an error.
LEMMA EndsAreEnds ==
    ASSUME Inv, ended' # ended, ReadEmpty \/ InWait
    PROVE  Abstract!End
<1>1. /\ UNCHANGED <<written, delivered, inClosed, late>> /\ mStatus' = mStatus
      /\ Failed /\ (mStatus = "closed" => ~ HasData) /\ ended' = TRUE
  BY DEF ReadEmpty, InWait, Sleep, Awake, status, Failed, Inv, PipeInv, TypeOK
<1>2. mStatus = "closed" => Abstract!Pending = 0
  BY <1>1, EmptyIff DEF Inv, PipeInv, BufferHoldsTheRest, Abstract!Pending
<1> QED BY <1>1, <1>2 DEF Abstract!End, Failed

\* Closing an end is Close, or nothing to a pipe that has ended.
LEMMA ClosesClose ==
    ASSUME Inv, NEW r \in Reasons, CloseInput(r) \/ CloseOutput(r)
    PROVE  Abstract!Close \/ UNCHANGED <<written, delivered, mStatus, inClosed, ended, late>>
<1>1. r \in {"closed", "error"}
  BY CountsAssumption
<1>2. CASE CloseInput(r)
  BY <1>1, <1>2 DEF CloseInput, OnPipeException, Abstract!Close, status, Failed
<1>3. CASE CloseOutput(r)
  BY <1>1, <1>3 DEF CloseOutput, OnPipeException, Abstract!Close, status, hist, Failed
<1> QED BY <1>2, <1>3

\* Every step of the pipe is a step of the bounded FIFO, or none.
LEMMA StepRefines == Inv /\ Inv' /\ [Next]_vars => [Abstract!Next]_(Abstract!vars)
<1> SUFFICES ASSUME Inv, Inv', [Next]_vars
             PROVE  Abstract!Next \/ UNCHANGED <<written, delivered, mStatus, inClosed, ended, late>>
  BY DEF Abstract!vars
<1>1. CASE ReadEmpty \/ InWait
  <2>1. ended' = ended => UNCHANGED <<written, delivered, mStatus, inClosed, ended, late>>
    BY <1>1 DEF ReadEmpty, InWait, status
  <2> QED BY <1>1, <2>1, EndsAreEnds DEF Abstract!Next
<1>2. CASE ReadGet \/ WaitReady("in")
  BY <1>2 DEF ReadGet, WaitReady, AsyncWait, status, hist
<1>3. CASE WriterStep
  <2>1. CASE OutWait
    <3>1. ended \in BOOLEAN
      BY DEF Inv, PipeInv, TypeOK
    <3>2. ended' = ended
      BY <2>1, <3>1 DEF OutWait, Sleep, Awake
    <3> QED BY <2>1, <3>2 DEF OutWait, status
  <2>2. CASE ~ OutWait
    BY <1>3, <2>2 DEF WriterStep, WriteFailed, WriteFull, WriteGet, WaitReady, AsyncWait,
                      status, hist
  <2> QED BY <2>1, <2>2
<1>4. CASE Takes
  BY <1>4, TakesNext DEF Abstract!Next
<1>5. CASE Fills
  BY <1>5, FillsPut DEF Abstract!Next
<1>6. CASE \E e \in End, n \in Counts : Call(e, n)
  BY <1>6 DEF Call, status, hist
<1>7. CASE \E e \in End : Refuse(e) \/ OnReady(e)
  BY <1>7 DEF Refuse, OnReady, status, hist
<1>8. CASE \E e \in End, kind \in Any : WaitAnyTime(e, kind)
  BY <1>8 DEF WaitAnyTime, AsyncWait, status, hist
<1>9. CASE \E r \in Reasons : CloseInput(r) \/ CloseOutput(r)
  <2>1. PICK r \in Reasons : CloseInput(r) \/ CloseOutput(r)
    BY <1>9
  <2>2. CASE Abstract!Close
    BY <2>2 DEF Abstract!Next
  <2> QED BY <2>1, <2>2, ClosesClose
<1>10. CASE UNCHANGED vars
  BY <1>10 DEF vars, status, hist
<1> QED BY <1>1, <1>2, <1>3, <1>4, <1>5, <1>6, <1>7, <1>8, <1>9, <1>10 DEF Next, ReaderStep

\* The segmented buffer is a first-in first-out channel of SegSize * SegCount bytes: no
\* byte is lost, repeated or reordered, and a reader is told of a normal close only
\* after the last byte.
THEOREM PipeRefinesBytePipe == Spec => RefinesBytePipe
<1>1. Init => Abstract!Init
  BY DEF Init, Abstract!Init
<1>2. Init /\ [][Next]_vars => Abstract!Spec
  BY <1>1, Inductive, StepRefines, PTL DEF Abstract!Spec
<1> QED BY <1>2, PTL DEF Spec, RefinesBytePipe
=============================================================================
