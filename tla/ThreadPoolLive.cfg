CONSTANTS
    Workers = {w1, w2, w3}
    NoWorker = NoWorker
    Dispatchers = {d1, d2}
    Events = {e1, e2}
    NoEvent = NoEvent
    ThreadLimits = {1, 2}
    IdleLimits = {0, 1}
    InitThreadLimit = 2
    InitIdleLimit = 1
    MayFail = FALSE
    ShutdownWhen = "quiet"
SPECIFICATION Spec
INVARIANT EventHasServer
PROPERTIES EventuallyRun ShutdownReturns
CHECK_DEADLOCK FALSE
