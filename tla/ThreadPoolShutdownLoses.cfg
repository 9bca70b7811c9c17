CONSTANTS
    Workers = {w1, w2}
    NoWorker = NoWorker
    Dispatchers = {d1}
    Events = {e1}
    NoEvent = NoEvent
    ThreadLimits = {}
    IdleLimits = {}
    InitThreadLimit = 2
    InitIdleLimit = 1
    MayFail = FALSE
    ShutdownWhen = "anytime"
SPECIFICATION Spec
PROPERTY EventuallyRun

CHECK_DEADLOCK FALSE
