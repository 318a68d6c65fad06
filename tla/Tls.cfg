SPECIFICATION FairSpec
CONSTANTS
    Hazards <- NoHazards
    Validity = 1
    MaxDepth = 2
    MaxTime = 3
    MaxEvents = 5
CHECK_DEADLOCK FALSE
INVARIANTS TypeOK PairFits ProgressCloses
PROPERTY CallsReturn
