SPECIFICATION MCSpec
CONSTANTS
    Nodes = {a, b, c}
    Requesters = {a, b}
    Listeners = {b, c}
    NFrames = 3
    MaxRequests = 1
    Disturbances = {}
INVARIANT RangeCurrent
INVARIANT ResultKept
INVARIANT DsPairKept
INVARIANT TokenOK
PROPERTY RequestReturns
