CONSTANTS
    a = a
    b = b
    Paths = {a, b}
    PathOf <- TwoFiles
    ModeOf <- Modes
    Scenarios <- AllScenarios
    None = None
SPECIFICATION Spec
PROPERTY TerminalAbsorbs
CHECK_DEADLOCK FALSE
