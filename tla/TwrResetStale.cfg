SPECIFICATION Spec
CONSTANTS
    Nodes = {a, b}
    Requesters = {a}
    Listeners = {b}
    NFrames = 2
    MaxRequests = 2
    Disturbances = {"reset"}
INVARIANT RangeCurrent
