CONSTANTS
  Hosts = {"a", "lit"}
  Literals = {"lit"}
  Callbacks = {1, 2, 3}
  Threads = {"t1", "t2"}
  MaxRecs = 3
  MaxCache = 1
  Bypass = {FALSE, TRUE}
  MayFail = TRUE
SPECIFICATION Spec
CHECK_DEADLOCK FALSE
INVARIANT ResolverInv
INVARIANT CalledOnce
INVARIANT LookupHasThread
PROPERTY EventuallyCalled
PROPERTY ThreadsExit

