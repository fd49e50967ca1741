SPECIFICATION MCSpec
CONSTANTS
    Tolerate = 1
    Threshold = 2
    MissedMod = 4
    Half = 2
    NoReport = noreport
    NSlots = 2
    SlotTicks = 3
    Latency = 1
    MaxDelay = 1
    MaxAge = 7
    MaxStart = 2
INVARIANT ToleratesFew
CHECK_DEADLOCK FALSE
