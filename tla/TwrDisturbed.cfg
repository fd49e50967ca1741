SPECIFICATION MCResetSpec
CONSTANTS
    Nodes = {a, b}
    Requesters = {a}
    Listeners = {b}
    NFrames = 2
    MaxRequests = 1
    Disturbances = {"reset", "superframe", "broken", "foreign"}
INVARIANT TypesOK
INVARIANT EndsAgree
PROPERTY RequestReturns
