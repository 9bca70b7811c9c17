------------------------ MODULE MCHttpConnectionMgr ------------------------
(* TLC instances of HttpConnectionMgr.                                     *)
EXTENDS HttpConnectionMgr

OneConn == [conns |-> 1, perHost |-> 1, persist |-> 1]
TwoConns == {[conns |-> 2, perHost |-> 1, persist |-> 1]}
TwoRequests ==
  {[host |-> "a", caps |-> {"keep-alive", "sticky"}, priority |-> 0],
   [host |-> "b", caps |-> {}, priority |-> 1]}
==============================================================================
