\* Rounds of all classes; the broker loses 2 of them at most.
SPECIFICATION FairSpec
CONSTANTS
    Requests <- FourRounds
    Class <- FourClasses
    Pool = 2
    Slots = 1
    MaxWaiting = 2
    MaxFaults = 2
    p1 = p1
    w1 = w1
    w2 = w2
    k1 = k1
INVARIANTS
    NoIdleSlot
    OneQueue
PROPERTIES
    NoOvertaking
    AcceptedEnds
CHECK_DEADLOCK FALSE
