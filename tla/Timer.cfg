CONSTANTS
    Timers = {t1, t2}
    NoTimer = NoTimer
    Domain = 8
    Delays = {2}
    Types = {"ONE_SHOT", "REPEATING_PRECISE"}
    Adjustments <- EarlyAdjustment
    MaxInits = 2
    MaxPosted = 1
    MaxEntries = 2
    MaxLate = 1
    Reinit = {"ONE_SHOT"}
    UseSetDelay = FALSE
    UseSetType = FALSE
    UseSleep = FALSE
    UseShutdown = FALSE
SPECIFICATION SafetySpec
INVARIANTS TimerInv NeverOversleeps OneShotUnlessReinit
PROPERTY FiresNotEarly
SYMMETRY Symmetry
CHECK_DEADLOCK FALSE

