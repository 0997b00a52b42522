CONSTANTS
    a = a
    b = b
    Paths = {a, b}
    PathOf <- TwoFiles
    ModeOf <- Modes
    Scenarios <- AllScenarios
    None = None
SPECIFICATION Spec
INVARIANT UndoRestores
CHECK_DEADLOCK FALSE
