SPECIFICATION ScenarioSpec
CONSTANTS
    e1 = e1
    e2 = e2
    x1 = x1
    r1 = r1
    r2 = r2
    r3 = r3
    c1 = c1
    c2 = c2
    Effects <- AllEffects
    Runs <- AllRuns
    RunEffect <- AllRunEffect
    ExecEffects <- OneExec
    AgentEffects <- AgentPair
    Capacity = 1
    Dependency <- SucceedsEdge
    AdmitStatuses = {"queued", "blocked_by_dependency"}
    RuleTerminals = {"completed"}
    OperatorStatuses = {"running", "paused"}
    PolicyBlocks = {"blocked_by_profile"}
    WorkerBlocks = {"blocked"}
    Categories = {"unbound"}
    DriverFences = {}
    Evidence = {"applied", "not_applied"}
    LeaseTerm = 1
    MaxTime = 1
    MaxEpoch = 1
SYMMETRY AttemptSymmetry
INVARIANTS
    AtMostOneRunningRun
    NoBlindResubmission
    NoOverlappingIncarnations
    CancelledExecIsFenced
    SucceedsOrder
    RebuildAgrees
PROPERTIES
    CompletedIsFinal
CHECK_DEADLOCK FALSE
