SPECIFICATION Spec
CONSTANTS
    a1 = a1
    a2 = a2
    b1 = b1
    f = f
    e = e
    Atoms = {a1, a2, b1}
    NameOf <- MCNameOf
    SlotOf <- MCSlotOf
    Rank <- MCRank
    Paths = {f, e}
    ContentOf <- MCContentOf
    ConfigPaths = {e}
    MaxCfg = 1
    Workers = {w1, w2}
    Commands = {"emerge", "uninstall"}
    Replace = TRUE
    ForceOpt = FALSE
    RootIsSlash = TRUE
    MayCrash = TRUE
    MaxCommands = 3
    MaxEdits = 1
    MaxErrors = 1
    NoAtom = NoAtom
    NoFile = NoFile
    Edited = Edited
    Partial = Partial
    NoHash = NoHash
INVARIANTS
    IndexSound
PROPERTIES
    UserConfigKept
    InstalledKept
SYMMETRY WorkerSymmetry
CHECK_DEADLOCK FALSE
