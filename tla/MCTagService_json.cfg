SPECIFICATION TagSpec
CONSTANTS
    Garbled = "garbled"
    FileIds = {1}
    Known = {1}
    FileTags <- MCFileTags
    Users = {"u"}
    Edits <- ReadmeEdits
    Batches = {}
    Imports = {}
    NoRequest = NoRequest
    ChannelSize = 1
    DbErrors = FALSE
    MaxScans = 0
INVARIANTS
    EditsShow
CHECK_DEADLOCK FALSE
