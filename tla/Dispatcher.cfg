SPECIFICATION FairSpec
CONSTANTS
    http = http
    https = https
    Types <- TwoTypes
    Strategies <- Renaming
    AppCookies <- AnyCookie
    Rivals <- AnyPlace
    Hazards <- ClientFailure
    MaxName = 2
    MaxEvents = 5
CHECK_DEADLOCK FALSE
INVARIANTS TypeOK CommitHasGroup OneName
PROPERTY EventuallyAnnounced
