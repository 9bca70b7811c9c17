--------------------------- MODULE MCChainedQueue ---------------------------
(* TLC instances of ChainedQueue.                                          *)
EXTENDS ChainedQueue

CONSTANTS e1, e2, e3

\* Accept nothing, one event, two events, or everything.
SomeFilters == {{}, {e1}, {e1, e2}, Runnables}
==============================================================================
