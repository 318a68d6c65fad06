SPECIFICATION Spec
CONSTANTS
    a = a
    s1 = s1
    s2 = s2
    Root = Root
    NoKey = NoKey
    NoSocket = NoSocket
    Keys <- OneKey
    Sockets <- OneSocket
    Kinds <- BothKinds
    Calls <- EveryCall
    Hazards <- QuitEarly
    MaxData = 3
    MaxServers = 2
    MaxCalls = 5
CHECK_DEADLOCK FALSE
INVARIANT ServingIsAnnounced
