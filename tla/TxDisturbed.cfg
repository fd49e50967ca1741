SPECIFICATION BoundedSpec
CONSTANTS
    Packets = {p1}
    NoPacket = none
    MaxRetries = 1
    TxSeqMod = 2
    SlotRoom = 1
    RequestAcks = TRUE
    Resetters = {ccp}
    Disturbances = {"foreign", "stray", "listen"}
INVARIANT TypeOK
INVARIANT RetryContract
INVARIANT SemBound
PROPERTY QueuedResolved
