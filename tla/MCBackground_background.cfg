SPECIFICATION BackgroundSpec
CONSTANTS
    Files = {"a", "b"}
    Receivers = {"engine"}
    Capacity = 2
    lookahead = 2
    max_concurrent = 1
    MaxPlays = 5
    MaxGaps = 1
    Chunks = {"c", "d"}
    Tasks = {"t", "u"}
    Target = 0
    MaxNow = 1
    MaxPuts = 2
    Names = {"n", "m"}
    Spawns = {1, 2}
    max_restarts = 2
    a = a
    b = b
    link = link
    Paths <- MCPaths
    Canonical <- MCCanonical
    Configured <- MCConfigured
    Found <- MCFound
    WasmEnabled = TRUE
    WasmBase = 10
    MaxId = 2
    MaxWasm = 1
    Garbled = "garbled"
    FileIds = {1, 2, 3}
    Known = {1}
    FileTags <- MCFileTags
    Users = {"u"}
    Edits <- MCEdits
    Batches <- MCBatches
    Imports <- MCImports
    NoRequest = NoRequest
    ChannelSize = 1
    DbErrors = TRUE
    MaxScans = 1
INVARIANTS
    EditsShow
    ReportsAreTrue
    WorkFollowsTheClient
    HeaderSaysTheRow
    CountsAreEarned
    PolicyIsRight
    StatusIsTrue
    LoadedOnce
    RegistryIsTrue
    ShutdownLeavesNothing
PROPERTIES
    FlightsLand
    StopEnds
    EvictionEnds
CHECK_DEADLOCK FALSE
