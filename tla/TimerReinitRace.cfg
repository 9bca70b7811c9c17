CONSTANTS
    Timers = {t1}
    NoTimer = NoTimer
    Domain = 6
    Delays = {1, 2}
    Types = {"ONE_SHOT"}
    Adjustments <- NoAdjustment
    MaxInits = 2
    MaxPosted = 2
    MaxEntries = 3
    MaxLate = 1
    Reinit = {"ONE_SHOT"}
    UseSetDelay = FALSE
    UseSetType = FALSE
    UseSleep = FALSE
    UseShutdown = FALSE
SPECIFICATION SafetySpec
INVARIANT OneShotFiresOnce
CHECK_DEADLOCK FALSE
