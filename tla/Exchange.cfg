SPECIFICATION FairSpec
CONSTANTS
    Hazards <- NoHazards
    Clients = {c1}
    Symbols <- SymbolsDef
    Keys <- KeysDef
    Patterns <- PatternsDef
    Parts <- PartsDef
    Size <- SizeDef
    Values <- ValuesDef
    Page = 2
    Settings <- SettingsDef
    MaxEvents = 4
CHECK_DEADLOCK FALSE
INVARIANTS TypeOK RequestsReach BufferFits
PROPERTIES AsStore CallsEnd
