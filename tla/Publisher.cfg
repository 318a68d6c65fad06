SPECIFICATION FairSpec
CONSTANTS
    a = a
    s1 = s1
    s2 = s2
    Root = Root
    NoKey = NoKey
    NoSocket = NoSocket
    Keys <- OneKey
    Sockets <- TwoSockets
    Kinds <- BothKinds
    Calls <- EveryCall
    Hazards <- Ordinary
    MaxData = 3
    MaxServers = 2
    MaxCalls = 5
CHECK_DEADLOCK FALSE
INVARIANTS TypeOK RefsExact HandlerDataLive TagsExact ServingIsAnnounced BookmarksServed
PROPERTY QuitEndsRun
