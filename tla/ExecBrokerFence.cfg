SPECIFICATION FairSpec
CONSTANTS
    Invocations <- OneInvocation
    Containers <- TwoContainers
    FenceIds <- TwoFences
    Results <- OneResult
    Recalled <- OneInvocation
    MaxStarts = 2
    MaxFaults = 2
    FenceContainer = c1
    Nowhere = Nowhere
    NoFence = NoFence
    NoResult = NoResult
    i1 = i1
    i2 = i2
    c1 = c1
    c2 = c2
    f1 = f1
    f2 = f2
    r1 = r1
    r2 = r2
PROPERTIES
    KeepsPromise
    FenceCloses
CHECK_DEADLOCK FALSE
