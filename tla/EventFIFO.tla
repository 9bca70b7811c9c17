------------------------------ MODULE EventFIFO ------------------------------
(***************************************************************************)
(* What nsEventQueue promises to the threads that share it, with no pages  *)
(* and no offsets: the events stored by PutEvent form one sequence, and    *)
(* GetEvent hands out exactly that sequence, each event once.  A consumer  *)
(* sleeps only while there is nothing to hand out, and a store wakes every *)
(* sleeper (PR_NotifyAll).                                                 *)
(***************************************************************************)
EXTENDS Naturals, Sequences

CONSTANTS Events,     \* nsIRunnable objects
          Consumers   \* threads that call GetEvent

VARIABLES stored,     \* every event PutEvent accepted, in order
          taken,      \* every event GetEvent returned, in order
          waiting     \* the consumers asleep in GetEvent

fifoVars == <<stored, taken, waiting>>

FifoInit ==
    /\ stored = << >>
    /\ taken = << >>
    /\ waiting = {}

Store(e) ==
    /\ stored' = Append(stored, e)
    /\ waiting' = {}
    /\ UNCHANGED taken

Take(c) ==
    /\ c \notin waiting
    /\ Len(taken) < Len(stored)
    /\ taken' = Append(taken, stored[Len(taken) + 1])
    /\ UNCHANGED <<stored, waiting>>

Sleep(c) ==
    /\ Len(taken) = Len(stored)
    /\ waiting' = waiting \cup {c}
    /\ UNCHANGED <<stored, taken>>

FifoNext ==
    \/ \E e \in Events : Store(e)
    \/ \E c \in Consumers : Take(c) \/ Sleep(c)

FifoSafety == FifoInit /\ [][FifoNext]_fifoVars

FifoSpec == FifoSafety /\ WF_fifoVars(\E c \in Consumers : Take(c))
==============================================================================
