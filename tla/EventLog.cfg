SPECIFICATION HostSpec
CONSTANTS
    w1 = w1
    w2 = w2
    k1 = k1
    Writers <- TwoWriters
    Keys <- OneKey
    NoKey = NoKey
    Earlier = Earlier
    Legacy = 2
    MaxRows = 4
    MaxOwner = 2
SYMMETRY WriterSymmetry
INVARIANTS
    ChainIntact
    OwnersWriteInOrder
    PinnedHeadsStay
CHECK_DEADLOCK FALSE
