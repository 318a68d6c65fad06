SPECIFICATION Spec
CONSTANTS
    http = http
    https = https
    Types <- OneType
    Strategies <- Renaming
    AppCookies <- OwnCookie
    Rivals <- AnyPlace
    Hazards <- GroupFailure
    MaxName = 2
    MaxEvents = 4
CHECK_DEADLOCK FALSE
INVARIANT NoFreedObject
