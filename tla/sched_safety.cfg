SPECIFICATION Spec
CONSTANTS
    a = a
    b = b
    c = c
    d = d
    TaskIDs = {a, b, c}
    Workers = {w1, w2}
    FailureModes = {"Stop", "Continue"}
    AllowedEdges <- AllEdges
    MaxRepeats = 2
    MaxEdges = 3
    MayFail = {a, b, c}
    Interrupts = {"ctx"}
    NoTask = NoTask
SYMMETRY Interchangeable
INVARIANTS
    DependenciesFirst
    ResultsExact
PROPERTIES
    ImplementsPromise
CHECK_DEADLOCK FALSE
