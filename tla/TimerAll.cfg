CONSTANTS
    Timers = {t1}
    NoTimer = NoTimer
    Domain = 4
    Delays = {1}
    Types = {"ONE_SHOT", "REPEATING_SLACK", "REPEATING_PRECISE"}
    Adjustments <- NoAdjustment
    MaxInits = 1
    MaxPosted = 1
    MaxEntries = 2
    MaxLate = 0
    Reinit = {}
    UseSetDelay = TRUE
    UseSetType = TRUE
    UseSleep = TRUE
    UseShutdown = TRUE
SPECIFICATION Spec
INVARIANT NeverStranded
PROPERTIES EventuallyFires ShutdownEnds
CHECK_DEADLOCK FALSE

