SPECIFICATION FairSpec
CONSTANTS
    a = a
    b = b
    c = c
    d = d
    TaskIDs = {a, b, c}
    Workers = {w1}
    FailureModes = {"Stop", "Continue"}
    AllowedEdges <- AllEdges
    MaxRepeats = 1
    MaxEdges = 3
    MayFail = {a, b, c}
    Interrupts = {"Stop"}
    NoTask = NoTask
PROPERTIES
    StartReturnsRight
    ContinueBuildsOthers
CHECK_DEADLOCK FALSE
