SPECIFICATION Spec
CONSTANTS
    http = http
    https = https
    Types <- TwoTypes
    Strategies <- UniqueOrIgnore
    AppCookies <- OwnCookie
    Rivals <- AnyRival
    Hazards <- DaemonHazards
    MaxName = 2
    MaxEvents = 5
CHECK_DEADLOCK FALSE
PROPERTY UniqueKeepsName
