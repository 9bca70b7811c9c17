CONSTANTS
    Workers = {w1, w2}
    NoWorker = NoWorker
    Dispatchers = {d1, d2}
    Events = {e1, e2, e3}
    NoEvent = NoEvent
    ThreadLimits = {1, 2}
    IdleLimits = {0, 1}
    InitThreadLimit = 2
    InitIdleLimit = 1
    MayFail = TRUE
    ShutdownWhen = "anytime"
SPECIFICATION SafetySpec
INVARIANTS PoolInv SleepersAreIdle
PROPERTY NeverGrowsPastLimit
SYMMETRY Symmetry
CHECK_DEADLOCK FALSE
