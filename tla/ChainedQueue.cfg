CONSTANTS
    e1 = e1
    e2 = e2
    e3 = e3
    Runnables = {e1, e2, e3}
    Filters <- SomeFilters
    MaxPushes = 2
    MayFail = TRUE
SPECIFICATION ChainSpec
INVARIANT ChainInv
PROPERTIES SuppressedUntilPop EventuallyProcessed
CHECK_DEADLOCK FALSE
