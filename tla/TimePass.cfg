SPECIFICATION FairPassSpec
CONSTANTS
    t1 = t1
    e1 = e1
    q1 = q1
    r1 = r1
    Effects <- BothEffects
    Runs <- BothRuns
    RunEffect <- BothRunEffect
    ExecEffects <- OneEffect
    AgentEffects <- NoEffects
    Capacity = 1
    Dependency <- TimerWaits
    AdmitStatuses = {"queued"}
    RuleTerminals = {}
    OperatorStatuses = {}
    PolicyBlocks = {}
    WorkerBlocks = {}
    Categories = {}
    DriverFences = {"deadline"}
    Evidence = {}
    LeaseTerm = 3
    MaxTime = 1
    MaxEpoch = 0
    Timers <- OneTimer
    TimerRun <- TimerRunId
    Timed <- BothEffects
    DueAt <- BothDueAt
    Rank <- BothRank
    NoRun = NoRun
    MaxCrashes = 1
PROPERTIES
    TimersFire
    PassRecordsTruth
CHECK_DEADLOCK FALSE
