SPECIFICATION Spec
CONSTANTS
    Names <- AllNames
    Mirrors = 2
    Listing <- TwoListings
    Before <- Trees
    MaxRetries = 2
    MaxOutstanding = 1
    SocketCap = 2
    SystemRsync = {TRUE, FALSE}
    MaxFaults = 2
INVARIANTS
    NilMeansMirrored
PROPERTIES
    ReplacedWholeDeletedLast
    SyncEnds
