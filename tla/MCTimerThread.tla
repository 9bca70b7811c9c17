---------------------------- MODULE MCTimerThread ----------------------------
(* TLC instances of TimerThread.                                           *)
EXTENDS TimerThread, TLC

Symmetry == Permutations(Timers)
NoAdjustment == {0}
EarlyAdjustment == {-1, 0}
==============================================================================
