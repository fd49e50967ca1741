SPECIFICATION Spec
CONSTANTS
    Packets = {p1, p2}
    NoPacket = none
    MaxRetries = 1
    TxSeqMod = 3
    SlotRoom = 2
    RequestAcks = FALSE
    Resetters = {ccp}
    Disturbances = {}
SYMMETRY PacketSymmetry
INVARIANT ErrataSafe
