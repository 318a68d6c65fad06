SPECIFICATION Spec
CONSTANTS
    w1 = w1
    w2 = w2
    w3 = w3
    Watchers <- MCWatchers
    FirstStates <- MCFirstStates
    LaterStates <- MCLaterStates
    CallbacksRemove = FALSE
    InitialReserve = 1
    StaleIds <- MCNoStaleIds
    MaxClients = 2
    MaxWatches = 3
    MaxId = 5
CHECK_DEADLOCK FALSE
INVARIANTS TypeOK IdsIncrease HeldIsRegistered WatchersKnowState
PROPERTIES ClientStaysDuringNotify FailureToldBeforeFree
