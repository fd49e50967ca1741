SPECIFICATION MCFairSpec
CONSTANTS
    Euids = {666, 66202, 667}
    MaxNodes = 2
    Roles = {1, 2}
    Leases = {0, 4}
    DefaultLease = 1
    WordMod = 32
    MaxUp = 2
    NoEntry = none
    NetworkRole = 1
    Margin = 0
    LeaseOf <- MCLeaseOf
    UsWrap = 3
    Turn = 3
    ResetCycles = 1
    NoFrame = noframe
    Receivers = {n}
    Newest = 2
    Size = 4
    Block = 2
    Repeats = 2
    EndRepeats = 2
    MaxFaults = 3
    NoPacket = nopacket
INVARIANT TypesOK
INVARIANT SlotsExclusive
INVARIANT OneRecordPerNode
INVARIANT FlashAgrees
INVARIANT HoldersCovered
INVARIANT ContinuesClean
PROPERTY Updates
CHECK_DEADLOCK FALSE
