------------------------------ MODULE MCThread ------------------------------
(* TLC instances of Thread.                                                *)
EXTENDS Thread, TLC

Symmetry == Permutations(Tasks) \cup Permutations(Background)
==============================================================================
