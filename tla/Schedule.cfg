SPECIFICATION MCSpec
CONSTANTS
    Tolerate = 1
    Threshold = 1
    MissedMod = 3
    Half = 2
    NoReport = noreport
    NSlots = 2
    SlotTicks = 3
    Latency = 1
    MaxDelay = 1
    MaxAge = 7
    MaxStart = 2
INVARIANT TypesOK
INVARIANT EpochTrue
INVARIANT NeverIdle
INVARIANT SlotOnce
INVARIANT SlotServed
PROPERTY SlotOnTime
PROPERTY Resyncs
PROPERTY Beacons
CHECK_DEADLOCK FALSE
