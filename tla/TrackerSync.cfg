SPECIFICATION FairSpec
CONSTANTS
    None = None
    Never = 99
    a1 = a1
    a2 = a2
    Clones = {c1, c2}
    Values = {"open", "closed"}
    Menus <- AllMenus
INVARIANTS
    SameEventsSameRow
    LiveIsRebuilt
    DoubleHoldIsConcurrent
PROPERTIES
    ClaimsSeeNoConflict
    Converges
CHECK_DEADLOCK FALSE
