---------------------------- MODULE MCThreadPool ----------------------------
(* TLC instances of ThreadPool.                                            *)
EXTENDS ThreadPool, TLC

Symmetry == Permutations(Workers) \cup Permutations(Events)
              \cup Permutations(Dispatchers)
==============================================================================
