SPECIFICATION Spec
CONSTANTS
    a1 = a1
    a2 = a2
    b1 = b1
    b2 = b2
    c1 = c1
    c2 = c2
    d1 = d1
    Pkgs = {a1, a2, b1, b2, c1, c2, d1}
    Names = {"a", "b", "c", "d"}
    Slots = {0, 1}
    AnySlot = 9
    NameOf <- MCName
    VerOf <- MCVer
    SlotOf <- MCSlot
    Instances <- MCInstances
INVARIANTS
    AnswerTrue
    BlockersHonoured
    PreferredWhenPossible
