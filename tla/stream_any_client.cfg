SPECIFICATION StreamFairSpec
CONSTANTS
    NumEvents = 6
    AppCap = 10
    StreamCap = 10
    MayCancelJob = TRUE
    MayDisconnect = TRUE
INVARIANTS
    PanicOnlyAfterCancel
    VerdictTrue
PROPERTIES
    BothSidesEnd
CHECK_DEADLOCK FALSE
