SPECIFICATION MCSpec
CONSTANTS
    Packets = {p1, p2}
    NoPacket = none
    MaxRetries = 1
    TxSeqMod = 3
    SlotRoom = 2
    RequestAcks = TRUE
    Resetters = {}
    Disturbances = {}
    RingSize = 2
    NSlots = 2
    NrngSeqMod = 3
    NotFinal = notfinal
    Anchors = {d, e}
    Requester = d
    Tag = t
    TagFrames = 4
    IdxMod = 4
    MaxSeqs = 2
PROPERTY ImplementsService
INVARIANT ReadingsTrue
