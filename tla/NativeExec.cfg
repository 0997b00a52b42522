SPECIFICATION FairSpec
CONSTANTS
    Invocations <- OneInvocation
    Inv = i1
    FenceIds <- OneFence
    Results <- TwoResults
    NoFence = NoFence
    NoResult = NoResult
    Hosts <- TwoHosts
    Candidates <- EitherOwner
    Owners <- OwnerSet
    NoOwner = NoOwner
    MaxStarts = 2
    MaxFaults = 2
    i1 = i1
    h1 = h1
    h2 = h2
    o1 = o1
    o2 = o2
    f1 = f1
    r1 = r1
    r2 = r2
INVARIANTS
    OneContainer
    NoResultDiscarded
PROPERTIES
    KeepsPromise
    FenceCloses
    NoContainerLeft
CHECK_DEADLOCK FALSE
