\* Leases, a counter and a ledger shared by instances; two workers, crashes.
SPECIFICATION CoordSpec
CONSTANTS
    i1 = i1
    i2 = i2
    k1 = k1
    w1 = w1
    w2 = w2
    a1 = a1
    b1 = b1
    r1 = r1
    n1 = n1
    c1 = c1
    c2 = c2
    l1 = l1
    l2 = l2
    m1 = m1
    Instances <- TwoInstances
    Keys <- OneKey
    Workers <- TwoWorkers
    Effects <- AllEffects
    Kind <- EffectKind
    InstanceOf <- EffectInstance
    KeyOf <- EffectKey
    Acquire <- NamedAcquire
    Waits <- WaitingAcquire
    WaitUntil <- WaitEnd
    Malformed <- WrongInput
    Amount <- AskedAmount
    Cap <- DeclaredCap
    Slots = 1
    Ttl = 2
    Retain = 2
    PeriodLength = 1
    MaxInt = 7
    MaxTime = 2
    MaxCrashes = 1
    Programs <- ThreePrograms
    Cancellable <- Contested
    Ending <- FirstInstance
INVARIANTS
    PromisesKept
    BudgetAccounted
    LedgerNumbersOnce
PROPERTIES
    ImplementsSlotPool
CHECK_DEADLOCK FALSE
