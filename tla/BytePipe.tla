------------------------------ MODULE BytePipe ------------------------------
(***************************************************************************)
(* What nsIPipe promises (src/xpcom/io/nsIPipe.idl): a bounded first-in    *)
(* first-out channel of bytes from one writer to one reader.  The n-th     *)
(* byte written is the number n.  Either end may be closed; the reader of  *)
(* a pipe whose output was closed normally is told so only after it has    *)
(* taken every byte.                                                       *)
(***************************************************************************)
EXTENDS Naturals, Sequences

CONSTANT Capacity     \* bytes the pipe may hold: segmentSize * segmentCount

VARIABLES written,    \* how many bytes the writer has put in
          delivered,  \* the bytes the reader has got, in order
          status,     \* "ok", or why the pipe ended: "closed" or "error"
          inClosed,   \* the input end was closed
          ended,      \* the reader has been told that the pipe ended
          late        \* bytes were put into a pipe that had ended

vars == <<written, delivered, status, inClosed, ended, late>>

Init == /\ written = 0 /\ delivered = <<>>
        /\ status = "ok" /\ inClosed = FALSE /\ ended = FALSE /\ late = FALSE

Pending == written - Len(delivered)

\* A write that had begun when the pipe ended may put its bytes, once.
Put == /\ ~late /\ late' = (status # "ok")
       /\ written' \in written + 1 .. Len(delivered) + Capacity
       /\ UNCHANGED <<delivered, status, inClosed, ended>>

Take == /\ \E n \in 1 .. Pending :
             delivered' = delivered \o [i \in 1 .. n |-> Len(delivered) + i]
        /\ UNCHANGED <<written, status, inClosed, ended, late>>

Close == /\ status = "ok" \/ ~inClosed
         /\ status' \in IF status = "ok" THEN {"closed", "error"} ELSE {status}
         /\ inClosed' \in {inClosed, TRUE}
         /\ UNCHANGED <<written, delivered, ended, late>>

End == /\ status # "ok"
       /\ status = "closed" /\ ~inClosed => Pending = 0
       /\ ended' = TRUE
       /\ UNCHANGED <<written, delivered, status, inClosed, late>>

Next == Put \/ Take \/ Close \/ End

Spec == Init /\ [][Next]_vars
=============================================================================
