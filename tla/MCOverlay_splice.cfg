SPECIFICATION Spec
CONSTANTS
    NULL = NULL
    Extension = "flac"
    Versions <- FlacVersions
    Edits <- MCEdits
    Pieces = {1, 2, 5}
    Estimate = 4
    Width = 64
    Faults = TRUE
INVARIANTS
    ReadsAreWhole
    FileReadIsWhole
    EditsShowTillForgotten
CHECK_DEADLOCK FALSE
