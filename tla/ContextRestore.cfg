CONSTANTS
    a = a
    b = b
    Paths = {a, b}
    PathOf <- TwoFiles
    ModeOf <- Modes
    Scenarios <- AllScenarios
    None = None
SPECIFICATION FairSpec
INVARIANTS
    PlanesAgree
    TimelineWhole
PROPERTIES
    NothingUnseenDropped
    WorkflowEnds
CHECK_DEADLOCK FALSE
