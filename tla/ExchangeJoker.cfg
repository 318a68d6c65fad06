SPECIFICATION Spec
CONSTANTS
    Hazards <- QueryChars
    Clients = {c1}
    Symbols <- SymbolsDef
    Keys <- KeysDef
    Patterns <- JokersDef
    Parts <- PartsDef
    Size <- SizeDef
    Values <- ValuesDef
    Page = 2
    Settings <- SettingsDef
    MaxEvents = 3
CHECK_DEADLOCK FALSE
INVARIANT ListedMatch
