SPECIFICATION MCSpec
CONSTANTS
    Packets = {p1, p2, p3}
    NoPacket = none
    MaxRetries = 1
    TxSeqMod = 3
    SlotRoom = 2
    RequestAcks = FALSE
    Resetters = {}
    Disturbances = {}
    Senders = {s}
    Codes = {newtmgr, other}
    NoFrame = noframe
    RxSeqMod = 4
    PoolSize = 3
    Window = 2
    MaxPackets = 3
    MayShutDown = TRUE
    Producers = {a, b, c}
    Mbufs = {m1, m2, m3, m4}
    Handles = {h, g}
    Bytes = {0, 1}
    BufLen = 2
    HdrLen = 1
    Blocks = 3
    MaxLen = 3
INVARIANT HeaderUpdated
CHECK_DEADLOCK FALSE
