-------------------------------- MODULE Pipe --------------------------------
(***************************************************************************)
(* nsPipe (src/xpcom/io/nsPipe3.cpp): a segmented byte buffer between an   *)
(* input stream and an output stream that are usually used on two threads. *)
(* Every action is one hold of the pipe's monitor; the callbacks of        *)
(* ReadSegments and WriteSegments copy bytes between two holds, through a  *)
(* pointer taken in the first.  A cursor is an offset in its segment: the  *)
(* read cursor in segment 0, the write cursor in segment mWriteSegment.    *)
(***************************************************************************)
EXTENDS Integers, Sequences, FiniteSets

CONSTANTS SegSize, SegCount,  \* bytes of a segment, segments of a full pipe
          MaxBytes,           \* bound: bytes the writer ever offers
          Counts,             \* the counts Read and Write are called with
          Reasons,            \* the statuses CloseWithStatus is called with
          MayFail,            \* may the segment allocator fail?
          Word                \* PRUint32 arithmetic is modulo Word

ASSUME SegAssumption == SegSize \in Nat \ {0} /\ SegCount \in Nat \ {0}
\* nsPipe::Init cuts segmentCount down: the size of a full pipe is a PRUint32.
ASSUME WordAssumption == Word \in Nat /\ SegCount * SegSize < Word
ASSUME CountsAssumption ==
  /\ Counts \subseteq Nat \ {0} /\ Reasons \subseteq {"closed", "error"}
  /\ MaxBytes \in Nat /\ MayFail \in BOOLEAN

End == {"in", "out"}
Null == -1                    \* a null cursor

VARIABLES
  segs, mReadCursor, mReadLimit, mWriteSegment, mWriteCursor, mWriteLimit,
  mStatus, mAvailable, mWritable,
  mBlocking,  \* per end: a blocking stream
  mBlocked,   \* per end: a thread is in mon.Wait
  mCallback,  \* per end: "none", "ready", or "closure" (WAIT_CLOSURE_ONLY)
  asleep,     \* the ends whose thread sleeps in mon.Wait, not yet notified
  pc,         \* per end: where its thread is in ReadSegments or WriteSegments
  count,      \* per end: bytes the call still wants to move
  moved,      \* per end: bytes the call has moved (*readCount, *writeCount)
  ptr, len,   \* per end: the region GetReadSegment or GetWriteSegment returned
  told,       \* per end: the callback was dispatched and has not run yet
  missed,     \* history: a callback took the place of a sleeping thread's notify
  written, delivered, inClosed, ended, late   \* history: see BytePipe

buffer == <<segs, mReadCursor, mReadLimit, mWriteSegment, mWriteCursor, mWriteLimit>>
status == <<mStatus, mAvailable, mWritable>>
wakeup == <<mCallback, asleep, told, missed>>
call   == <<pc, count, moved, ptr, len>>
hist   == <<written, delivered, inClosed, ended, late>>
vars == <<buffer, status, wakeup, mBlocking, mBlocked, call, hist>>

Least(a, b) == IF a <= b THEN a ELSE b
Failed == mStatus # "ok"

Offsets == 0 .. SegSize - 1

TypeOK ==
  /\ segs \in Seq([Offsets -> Nat]) /\ Len(segs) <= SegCount /\ mWriteSegment = Len(segs) - 1
  /\ {mReadCursor, mReadLimit, mWriteCursor, mWriteLimit} \subseteq Null .. SegSize
  /\ mStatus \in {"ok", "closed", "error"}
  /\ mAvailable \in 0 .. Word - 1 /\ mWritable \in BOOLEAN
  /\ mBlocking \in [End -> BOOLEAN] /\ mBlocked \in [End -> BOOLEAN]
  /\ mCallback \in [End -> {"none", "ready", "closure"}] /\ asleep \subseteq End
  /\ pc \in [End -> {"idle", "get", "have", "wait", "blocked", "would_block", "async"}]
  /\ count \in [End -> Nat] /\ moved \in [End -> Nat]
  /\ ptr \in [End -> 0 .. SegSize] /\ len \in [End -> 0 .. SegSize]
  /\ told \in [End -> BOOLEAN] /\ missed \in BOOLEAN
  /\ written \in Nat /\ delivered \in Seq(Nat)
  /\ inClosed \in BOOLEAN /\ ended \in BOOLEAN /\ late \in BOOLEAN

Init ==
  /\ segs = <<>> /\ mWriteSegment = -1
  /\ mReadCursor = Null /\ mReadLimit = Null /\ mWriteCursor = Null /\ mWriteLimit = Null
  /\ mStatus = "ok" /\ mAvailable = 0 /\ mWritable = TRUE
  /\ mBlocking \in [End -> BOOLEAN] /\ mBlocked = [e \in End |-> FALSE]
  /\ mCallback = [e \in End |-> "none"] /\ asleep = {}
  /\ pc = [e \in End |-> "idle"]
  /\ count = [e \in End |-> 0] /\ moved = [e \in End |-> 0]
  /\ ptr = [e \in End |-> 0] /\ len = [e \in End |-> 0]
  /\ told = [e \in End |-> FALSE] /\ missed = FALSE
  /\ written = 0 /\ delivered = <<>>
  /\ inClosed = FALSE /\ ended = FALSE /\ late = FALSE

-----------------------------------------------------------------------------
(* OnInputReadable, OnOutputWritable and the two OnException: an end with a *)
(* callback of a kind in kinds has it dispatched (by ~nsPipeEvents, after   *)
(* the monitor is left); otherwise a blocked end makes the pipe notify its  *)
(* monitor, which wakes one of the threads that sleep there.  So a thread   *)
(* that sleeps at an end with a callback gets no notify: missed says it.    *)
Called(e, kinds) == mCallback[e] \in kinds
\* Mutation: a blocked reader is not notified.
NotifiesOutputOnly(e, kinds) == e = "out" /\ ~Called(e, kinds) /\ mBlocked[e]
Notifies(e, kinds) == ~Called(e, kinds) /\ mBlocked[e]

Signal(ends, kinds) ==
  /\ mCallback' = [e \in End |-> IF e \in ends /\ Called(e, kinds) THEN "none" ELSE mCallback[e]]
  /\ told' = [e \in End |-> told[e] \/ (e \in ends /\ Called(e, kinds))]
  /\ missed' = (missed \/ \E e \in ends : Called(e, kinds) /\ e \in asleep)
  /\ asleep' \in {a \in SUBSET asleep :
       Cardinality(asleep \ a) =
         Least(Cardinality({e \in ends : Notifies(e, kinds)}), Cardinality(asleep))}

Ready == {"ready"}
Any == {"ready", "closure"}

(* A thread calls Read (ReadSegments) or Write (WriteSegments). *)
Call(e, n) ==
  /\ pc[e] = "idle"
  /\ IF e = "in" THEN ~ended ELSE ~Failed /\ written + n <= MaxBytes
  /\ pc' = [pc EXCEPT ![e] = "get"]
  /\ count' = [count EXCEPT ![e] = n] /\ moved' = [moved EXCEPT ![e] = 0]
  /\ UNCHANGED <<buffer, status, wakeup, mBlocking, mBlocked, ptr, len, hist>>

(* Where the loop of ReadSegments or WriteSegments goes when its segment    *)
(* getter would block, with ok the value of "something was moved already".  *)
OnWouldBlock(e, ok) ==
  IF ok THEN "idle" ELSE IF mBlocking[e] THEN "wait" ELSE "would_block"

(* GetReadSegment finds data. *)
\* Mutation: the status is looked at before the data.
StatusBeforeData == ~Failed /\ mReadCursor # mReadLimit
HasData == mReadCursor # mReadLimit

ReadGet ==
  /\ pc["in"] = "get" /\ HasData
  /\ pc' = [pc EXCEPT !["in"] = "have"]
  /\ ptr' = [ptr EXCEPT !["in"] = mReadCursor]
  /\ len' = [len EXCEPT !["in"] = Least(mReadLimit - mReadCursor, count["in"])]
  /\ UNCHANGED <<buffer, status, wakeup, mBlocking, mBlocked, count, moved, hist>>

(* GetReadSegment finds none: end of file, an error, or would block; any of *)
(* them is ignored once something was read.                                 *)
ReadEmpty ==
  /\ pc["in"] = "get" /\ ~HasData
  /\ pc' = [pc EXCEPT !["in"] = OnWouldBlock("in", moved["in"] > 0 \/ Failed)]
  /\ ended' = (ended \/ (moved["in"] = 0 /\ Failed))
  /\ UNCHANGED <<buffer, status, wakeup, mBlocking, mBlocked, count, moved, ptr, len,
                 written, delivered, inClosed, late>>

(* The callback consumed n bytes of the segment: if fewer than it was       *)
(* offered (or none), ReadSegments and WriteSegments stop.                  *)
Progress(e, n) ==
  LET left == IF n < len[e] THEN 0 ELSE count[e] - n
  IN /\ count' = [count EXCEPT ![e] = left]
     /\ moved' = [moved EXCEPT ![e] = @ + n]
     /\ pc' = [pc EXCEPT ![e] = IF left = 0 THEN "idle" ELSE "get"]
     /\ ptr' = [ptr EXCEPT ![e] = 0] /\ len' = [len EXCEPT ![e] = 0]

Refuse(e) ==
  /\ pc[e] = "have" /\ Progress(e, 0)
  /\ UNCHANGED <<buffer, status, wakeup, mBlocking, mBlocked, hist>>

(* AdvanceReadCursor deletes the first segment when it is read to its limit *)
(* and no longer written to.                                                *)
SegmentDone(cursor) ==
  cursor = mReadLimit /\ ~(mWriteSegment = 0 /\ mWriteLimit > mWriteCursor)

\* Mutation: the next segment is taken for full.
WholeSegment == SegSize
NextReadLimit == IF mWriteSegment = 1 THEN mWriteCursor ELSE SegSize

DeleteFirstSegment ==
  /\ segs' = Tail(segs) /\ mWriteSegment' = mWriteSegment - 1
  /\ IF mWriteSegment = 0
     THEN /\ mReadCursor' = Null /\ mReadLimit' = Null
          /\ mWriteCursor' = Null /\ mWriteLimit' = Null
     ELSE /\ mReadCursor' = 0
          /\ mReadLimit' = NextReadLimit
          /\ UNCHANGED <<mWriteCursor, mWriteLimit>>

(* The writer callback takes n bytes through the pointer, then              *)
(* AdvanceReadCursor.                                                       *)
ReadAdvance(n) ==
  /\ pc["in"] = "have" /\ n \in 1 .. len["in"]
  /\ Progress("in", n)
  /\ delivered' = delivered \o [i \in 1 .. n |-> segs[1][ptr["in"] + i - 1]]
  /\ mAvailable' = (mAvailable - n) % Word
  /\ IF SegmentDone(mReadCursor + n)
     THEN DeleteFirstSegment /\ mWritable' = TRUE /\ Signal({"out"}, Ready)
     ELSE /\ mReadCursor' = mReadCursor + n
          /\ UNCHANGED <<segs, mReadLimit, mWriteSegment, mWriteCursor, mWriteLimit,
                         mWritable, wakeup>>
  /\ UNCHANGED <<mStatus, mBlocking, mBlocked, written, inClosed, ended, late>>

NeedsSegment == mWriteCursor = mWriteLimit
\* Mutation: the size is compared one segment late.
OneTooMany == Len(segs) > SegCount
Full == Len(segs) = SegCount     \* mBuffer.GetSize() >= mBuffer.GetMaxSize()

(* GetWriteSegment fails: the pipe has ended. *)
WriteFailed ==
  /\ pc["out"] = "get" /\ Failed
  /\ pc' = [pc EXCEPT !["out"] = "idle"]
  /\ UNCHANGED <<buffer, status, wakeup, mBlocking, mBlocked, count, moved, ptr, len, hist>>

(* AppendNewSegment returns null: the buffer is full, or out of memory. *)
WriteFull ==
  /\ pc["out"] = "get" /\ ~Failed /\ NeedsSegment
  /\ Full \/ MayFail
  /\ pc' = [pc EXCEPT !["out"] = OnWouldBlock("out", moved["out"] > 0 /\ ~mBlocking["out"])]
  /\ UNCHANGED <<buffer, status, wakeup, mBlocking, mBlocked, count, moved, ptr, len, hist>>

(* Both cursors go back to the head of the segment when nothing is unread. *)
\* Mutation: the cursors roll back over unread bytes.
RollBackAnyway(cursor, unread) == mWriteSegment' = 0
CanRollBack(cursor, unread) == unread = cursor /\ mWriteSegment' = 0

WriteGet ==
  /\ pc["out"] = "get" /\ ~Failed /\ ~(NeedsSegment /\ Full)
  /\ segs' = IF NeedsSegment THEN Append(segs, [i \in Offsets |-> 0]) ELSE segs
  /\ mWriteSegment' = mWriteSegment + IF NeedsSegment THEN 1 ELSE 0
  /\ LET cursor == IF NeedsSegment THEN 0 ELSE mWriteCursor
         unread == IF mReadCursor = Null THEN cursor ELSE mReadCursor
         limit  == IF mReadCursor = Null THEN cursor ELSE mReadLimit
         back   == CanRollBack(cursor, unread)
     IN /\ mWriteCursor' = IF back THEN 0 ELSE cursor
        /\ mReadCursor' = IF back THEN 0 ELSE unread
        /\ mReadLimit' = IF back THEN 0 ELSE limit
  /\ mWriteLimit' = SegSize
  /\ pc' = [pc EXCEPT !["out"] = "have"]
  /\ ptr' = [ptr EXCEPT !["out"] = mWriteCursor']
  /\ len' = [len EXCEPT !["out"] = Least(SegSize - mWriteCursor', count["out"])]
  /\ UNCHANGED <<status, wakeup, mBlocking, mBlocked, count, moved, hist>>

(* The reader callback fills n bytes of the region, then AdvanceWriteCursor. *)
WriteAdvance(n) ==
  /\ pc["out"] = "have" /\ n \in 1 .. len["out"]
  /\ Progress("out", n)
  /\ segs' = [segs EXCEPT ![Len(segs)] =
       [i \in Offsets |->
          IF i \in ptr["out"] .. ptr["out"] + n - 1 THEN written + i - ptr["out"] + 1 ELSE @[i]]]
  /\ written' = written + n /\ late' = (late \/ Failed)
  /\ mReadLimit' = IF mWriteSegment = 0 /\ mReadLimit = mWriteCursor
                   THEN mWriteCursor + n ELSE mReadLimit
  /\ mWriteCursor' = mWriteCursor + n
  /\ mWritable' = (mWritable /\ ~(mWriteCursor' = mWriteLimit /\ Full))
  /\ mAvailable' = (mAvailable + n) % Word
  /\ Signal({"in"}, Ready)
  /\ UNCHANGED <<mReadCursor, mWriteSegment, mWriteLimit, mStatus, mBlocking, mBlocked,
                 delivered, inClosed, ended>>

-----------------------------------------------------------------------------
(* The thread of end e goes to sleep in mon.Wait ... *)
Sleep(e) ==
  /\ mBlocked' = [mBlocked EXCEPT ![e] = TRUE] /\ asleep' = asleep \union {e}
  /\ pc' = [pc EXCEPT ![e] = "blocked"] /\ UNCHANGED ended

(* ... or Wait returns: NS_OK (also for a closed pipe) lets the loop go on, *)
(* an error ends the call.                                                  *)
Awake(e) ==
  /\ mBlocked' = [mBlocked EXCEPT ![e] = FALSE] /\ UNCHANGED asleep
  /\ pc' = [pc EXCEPT ![e] = IF mStatus = "error" THEN "idle" ELSE "get"]
  /\ ended' = (ended \/ (e = "in" /\ mStatus = "error"))

(* nsPipeInputStream::Wait: a loop. *)
\* Mutation: the wait does not look at the status.
NothingAvailable == mAvailable = 0
MustWaitIn == ~Failed /\ mAvailable = 0

InWait ==
  /\ pc["in"] \in {"wait", "blocked"} /\ "in" \notin asleep
  /\ IF MustWaitIn THEN Sleep("in") ELSE Awake("in")
  /\ UNCHANGED <<buffer, status, mCallback, told, missed, mBlocking, count, moved, ptr, len,
                 written, delivered, inClosed, late>>

(* nsPipeOutputStream::Wait: it waits once. *)
OutWait ==
  /\ pc["out"] \in {"wait", "blocked"} /\ "out" \notin asleep
  /\ IF pc["out"] = "wait" /\ ~Failed /\ ~mWritable THEN Sleep("out") ELSE Awake("out")
  /\ UNCHANGED <<buffer, status, mCallback, told, missed, mBlocking, count, moved, ptr, len,
                 written, delivered, inClosed, late>>

(* AsyncWait replaces a pending callback: the new one is dispatched at once *)
(* or stays registered.                                                     *)
ReadyNow(e) == IF e = "in" THEN mAvailable # 0 ELSE mWritable

\* Mutation: AsyncWait does not look at the status.
OnlyWhenReady(e, kind) == ReadyNow(e) /\ kind = "ready"
DispatchNow(e, kind) == Failed \/ (ReadyNow(e) /\ kind = "ready")

AsyncWait(e, kind) ==
  /\ told' = [told EXCEPT ![e] = @ \/ DispatchNow(e, kind)]
  /\ mCallback' = [mCallback EXCEPT ![e] = IF DispatchNow(e, kind) THEN "none" ELSE kind]
  /\ UNCHANGED <<buffer, status, asleep, missed, mBlocking, mBlocked, count, moved, ptr, len,
                 hist>>

(* The owner of an end asks to be called after a call that would block ... *)
WaitReady(e) ==
  /\ pc[e] = "would_block" /\ pc' = [pc EXCEPT ![e] = "async"]
  /\ AsyncWait(e, "ready")

(* ... and any thread at any time, to hear of the closure, or on a blocking *)
(* end.  Bound: on an open pipe with no callback at either end.             *)
WaitAnyTime(e, kind) ==
  /\ \A x \in End : mCallback[x] = "none" /\ ~told[x]
  /\ ~Failed /\ (kind = "closure" \/ mBlocking[e]) /\ UNCHANGED pc
  /\ AsyncWait(e, kind)

(* The dispatched OnInputStreamReady or OnOutputStreamReady runs, on any    *)
(* thread: the owner that waits for it may call Read or Write again.        *)
OnReady(e) ==
  /\ told[e] /\ told' = [told EXCEPT ![e] = FALSE]
  /\ pc' = [pc EXCEPT ![e] = IF @ = "async" THEN "idle" ELSE @]
  /\ UNCHANGED <<buffer, status, mCallback, asleep, missed, mBlocking, mBlocked, count, moved,
                 ptr, len, hist>>

(* OnPipeException: only the first counts; an output-only one spares an     *)
(* input end that still has bytes.                                          *)
\* Mutation: unread bytes do not protect the input end.
NeverSpares(outputOnly) == FALSE
SparesInput(outputOnly) == outputOnly /\ mAvailable # 0

\* Mutation: closing one end does not reach the other.
OwnEnd(outputOnly) == IF outputOnly THEN {"out"} ELSE {"in"}
EndsHit(outputOnly) == IF SparesInput(outputOnly) THEN {"out"} ELSE End

OnPipeException(reason, outputOnly) ==
  IF Failed THEN UNCHANGED <<status, wakeup>>
  ELSE /\ mStatus' = reason /\ mWritable' = FALSE
       /\ mAvailable' = IF SparesInput(outputOnly) THEN mAvailable ELSE 0
       /\ Signal(EndsHit(outputOnly), Any)

(* nsPipeInputStream::CloseWithStatus, from any thread (a pump is cancelled). *)
CloseInput(reason) ==
  /\ ~inClosed /\ inClosed' = TRUE
  /\ OnPipeException(reason, FALSE)
  /\ UNCHANGED <<buffer, mBlocking, mBlocked, call, written, delivered, ended, late>>

(* nsPipeOutputStream::CloseWithStatus, from any thread: a Write may be     *)
(* copying outside the monitor, or asleep.                                  *)
CloseOutput(reason) ==
  /\ OnPipeException(reason, TRUE)
  /\ UNCHANGED <<buffer, mBlocking, mBlocked, call, hist>>

ReaderStep == ReadGet \/ ReadEmpty \/ InWait \/ WaitReady("in")
WriterStep == WriteFailed \/ WriteFull \/ WriteGet \/ OutWait \/ WaitReady("out")
Takes == \E n \in 1 .. SegSize : ReadAdvance(n)
Fills == \E n \in 1 .. SegSize : WriteAdvance(n)

Next ==
  \/ ReaderStep \/ WriterStep \/ Takes \/ Fills
  \/ \E e \in End, n \in Counts : Call(e, n)
  \/ \E e \in End : Refuse(e) \/ OnReady(e)
  \/ \E e \in End, kind \in Any : WaitAnyTime(e, kind)
  \/ \E r \in Reasons : CloseInput(r) \/ CloseOutput(r)

(* Threads run, dispatched callbacks run, the reader keeps reading and its  *)
(* callback does not refuse for ever.                                       *)
Fairness ==
  /\ WF_vars(ReaderStep) /\ WF_vars(WriterStep)
  /\ \A e \in End : WF_vars(OnReady(e))
  /\ WF_vars(\E n \in Counts : Call("in", n))
  /\ SF_vars(Takes) /\ SF_vars(Fills)

Spec == Init /\ [][Next]_vars /\ Fairness

-----------------------------------------------------------------------------
(* PeekSegment: the unread bytes of segment i lie from its cursor up to its *)
(* limit.                                                                   *)
PeekCursor(i) == IF i = 0 THEN mReadCursor ELSE 0
PeekLimit(i) == IF i = 0 THEN mReadLimit ELSE IF i = mWriteSegment THEN mWriteCursor ELSE SegSize

UnreadBefore(i) == IF i = 0 THEN 0 ELSE mReadLimit - mReadCursor + (i - 1) * SegSize

UnreadCount ==
  IF segs = <<>> THEN 0
  ELSE UnreadBefore(mWriteSegment) + PeekLimit(mWriteSegment) - PeekCursor(mWriteSegment)

(* The segments and cursors hold exactly the bytes written and not yet read, *)
(* in order: no step loses, repeats or reorders a byte, whatever the other   *)
(* end does while a thread copies outside the monitor.                       *)
BufferHoldsTheRest ==
  /\ written - Len(delivered) = UnreadCount
  /\ \A i \in 0 .. mWriteSegment : \A o \in PeekCursor(i) .. PeekLimit(i) - 1 :
       segs[i + 1][o] = Len(delivered) + UnreadBefore(i) + (o - PeekCursor(i)) + 1

(* mAvailable is the number of unread bytes until the input is closed: the   *)
(* count that wakes the reader never drifts from the cursors.                *)
AvailableExact == ~inClosed => mAvailable = UnreadCount

(* The memory the writer fills outside the monitor is never memory that the  *)
(* reader copies from: the rollback of the cursors must not hand out bytes   *)
(* in use.                                                                   *)
RegionsDisjoint ==
  (pc["in"] = "have" /\ pc["out"] = "have" /\ Len(segs) = 1) =>
     \/ ptr["in"] + len["in"] <= ptr["out"]
     \/ ptr["out"] + len["out"] <= ptr["in"]

(* The four cursors: null without a segment; otherwise only the last segment *)
(* has room, the first one is never read to its end, and what is read of the *)
(* segment being written ends where the writer is.                           *)
CursorsOK ==
  IF segs = <<>> THEN {mReadCursor, mReadLimit, mWriteCursor, mWriteLimit} = {Null}
  ELSE /\ 0 <= mReadCursor /\ mReadCursor <= mReadLimit /\ mReadCursor < SegSize
       /\ 0 <= mWriteCursor /\ mWriteLimit = SegSize
       /\ mReadLimit = IF mWriteSegment = 0 THEN mWriteCursor ELSE SegSize

(* A call that has left the monitor still owns the region it was given: the  *)
(* cursors it started from have not moved under it.                          *)
RegionsOwned ==
  /\ \A e \in End : pc[e] = "have" => 0 < len[e] /\ len[e] <= count[e]
  /\ \A e \in End : pc[e] \in {"get", "wait", "blocked"} => 0 < count[e]
  /\ pc["in"] = "have" => ptr["in"] = mReadCursor /\ ptr["in"] + len["in"] <= mReadLimit
  /\ pc["out"] = "have" =>
       segs # <<>> /\ ptr["out"] = mWriteCursor /\ ptr["out"] + len["out"] <= mWriteLimit

(* The input is only closed with the pipe, and the reader is told that it    *)
(* ended only then; at most one region is written to a pipe that has ended:  *)
(* the one that a Write was copying to outside the monitor.                  *)
EndsOK ==
  /\ inClosed \/ ended \/ late => Failed
  /\ late => pc["out"] # "have"

(* What the reader and the writer rely on in each other.                     *)
PipeInv ==
  /\ TypeOK /\ CursorsOK /\ BufferHoldsTheRest /\ AvailableExact
  /\ RegionsOwned /\ RegionsDisjoint /\ EndsOK

(* No lost wakeup: a thread that sleeps in mon.Wait has a reason to: the pipe *)
(* is open and, for a reader, empty, for a writer, full.  It holds until a    *)
(* callback is dispatched for an end whose thread sleeps: the code then calls *)
(* the callback instead of the notify (nsPipe3.cpp:627-633, 651-657), and a   *)
(* notify for the other end may go to the wrong thread from then on.          *)
NoLostWakeup ==
  ~missed => /\ "in" \in asleep => ~Failed /\ UnreadCount = 0
             /\ "out" \in asleep => ~Failed /\ NeedsSegment /\ Full

(* A registered callback is never stranded: AsyncWait's callback stays        *)
(* registered only while the pipe is open and the end is not ready; one that  *)
(* waits for closure of the output, only while the pipe is open.              *)
CallbackNotStranded ==
  /\ mCallback["in"] = "ready" => ~Failed /\ UnreadCount = 0
  /\ mCallback["out"] # "none" => ~Failed
  /\ mCallback["out"] = "ready" => ~mWritable

(* Only a blocking end blocks, and says so while it sleeps; a pipe that is    *)
(* not writable has no room.                                                  *)
WaitersOK ==
  /\ \A e \in End : (mBlocked[e] <=> pc[e] = "blocked") /\ (e \in asleep => mBlocked[e])
  /\ \A e \in End : pc[e] \in {"wait", "blocked"} => mBlocking[e]
  /\ ~Failed /\ ~mWritable => NeedsSegment /\ Full

(* Whether an end blocks or asks to be called back, it does not wait in vain. *)
NobodyWaitsInVain == WaitersOK /\ NoLostWakeup /\ CallbackNotStranded

(* The pipe implements the bounded FIFO of BytePipe. *)
Abstract == INSTANCE BytePipe WITH Capacity <- SegSize * SegCount, status <- mStatus
RefinesBytePipe == Abstract!Spec

(* Bytes written do not stay in the pipe: the reader gets them all, unless    *)
(* the input is closed, the output ends in an error, the output was closed    *)
(* under a Write and the reader was told of the end before the bytes came, or *)
(* a callback took a notify.                                                  *)
EventuallyRead ==
  (written > Len(delivered)) ~>
    \/ written = Len(delivered) \/ inClosed \/ mStatus = "error"
    \/ late /\ ended
    \/ missed

(* No writer and no reader of an ended pipe stays blocked or waiting, unless  *)
(* a callback took a notify.                                                  *)
EndReleases == Failed ~> missed \/ \A e \in End : pc[e] \in {"idle", "get", "have"}
=============================================================================
