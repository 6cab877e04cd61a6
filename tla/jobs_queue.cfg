SPECIFICATION FairSpec
CONSTANTS
    j1 = j1
    j2 = j2
    j3 = j3
    p = p
    q = q
    Jobs = {j1, j3}
    Workers = {w1, w2}
    QueueSize = 1
    Packages = {p, q}
    PackageOf <- MCPackageOf
    Affects <- SharedDep
    Priority <- MCPriority
    MayFail = {j1}
    MayCancel = {j1, j3}
    ResolveMayFail = FALSE
    OneSubmitAtATime = FALSE
    MayStop = TRUE
    NoJob = NoJob
INVARIANTS
    SteadyConflictRefused
PROPERTIES
    CancelUndoneOnlyByStartingWorker
    EveryoneEnds
    ServesJobs
