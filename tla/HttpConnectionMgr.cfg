CONSTANTS
  Hosts = {"a", "b"}
  Transactions = {1, 2, 3}
  Conns = {1, 2, 3}
  Requests <- TwoRequests
  Priorities = {0, 1}
  Limits <- TwoConns
  InitLimits <- OneConn
  MaxRestarts = 1
  MaxPosted = 1
  MaxEvents = 2
  MayFail = TRUE
SPECIFICATION Spec
CHECK_DEADLOCK FALSE
INVARIANT ManagerInv
INVARIANT TransactionInOnePlace
INVARIANT NothingStranded
PROPERTY NeverGrowsPastMax
PROPERTY EventuallyClosed

