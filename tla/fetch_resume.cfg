SPECIFICATION FairSpec
CONSTANTS
    m1 = m1
    m2 = m2
    u1 = u1
    Workers = {w1}
    Files <- MCTwoFiles
    Size = 2
    Mirrors = {m1, m2}
    SrcURIs <- MCSrcURIs
    BaseOf <- MCBaseOf
    NoMirror = NoMirror
    Resume = TRUE
    MaxRetries = 2
    ErrBody = 1
    JunkSizes = {1, 2, 3}
    MayCancel = TRUE
    MayCrash = TRUE
    MaxFetches = 2
    ScoreCap = 2
PROPERTIES
    VerifiedForGood
    Recovers
