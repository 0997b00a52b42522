SPECIFICATION Spec
CONSTANTS
    Invocations <- TwoInvocations
    Containers <- OneContainer
    FenceIds <- OneFence
    Results <- OneResult
    Recalled <- Nobody
    MaxStarts = 2
    MaxFaults = 1
    FenceContainer = c1
    Nowhere = Nowhere
    NoFence = NoFence
    NoResult = NoResult
    i1 = i1
    i2 = i2
    c1 = c1
    c2 = c2
    f1 = f1
    f2 = f2
    r1 = r1
    r2 = r2
INVARIANTS
    ProofIsPhysical
    BarrierCanFinish
    EvidenceAgrees
PROPERTIES
    KeepsPromise
CHECK_DEADLOCK FALSE
