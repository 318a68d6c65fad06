SPECIFICATION FairSpec
CONSTANTS
    Hazards <- FastThread
    Validity = 1
    MaxDepth = 1
    MaxTime = 1
    MaxEvents = 1
CHECK_DEADLOCK FALSE
PROPERTY CallsReturn
