SPECIFICATION MCSpec
CONSTANTS
    Euids = {666, 66202, 667}
    MaxNodes = 2
    Roles = {1}
    Leases = {0}
    DefaultLease = 1
    WordMod = 4
    MaxUp = 3
    NoEntry = none
    NetworkRole = 1
    Margin = 0
    LeaseOf <- MCZeroLease
    UsWrap = 8
    Turn = 1
    ResetCycles = 1
    NoFrame = noframe
    Receivers = {n}
    Newest = 0
    Size = 2
    Block = 2
    Repeats = 2
    EndRepeats = 2
    MaxFaults = 0
    NoPacket = nopacket
INVARIANT SlotsExclusive
CHECK_DEADLOCK FALSE
