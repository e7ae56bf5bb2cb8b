SPECIFICATION FairSpec
CONSTANTS
    a = a
    b = b
    Origins <- OnlyB
    Kind <- MCKind
    Priority <- MCPriority
    Threshold <- MCThreshold
    MaxAttempts = 2
    MaxRetries = 2
    Movable <- OnlyB
    Watched <- OnlyB
INVARIANTS
    RegisteredIsMonitored
    EventsTellTheStatus
    NothingLeftBehind
    ReadsFindTheirOrigin
PROPERTIES
    DownIsNoticed
    ReadsEnd
