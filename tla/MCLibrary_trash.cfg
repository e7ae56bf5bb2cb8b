SPECIFICATION Spec
CONSTANTS
    x = x
    y = y
    Fragments <- MCFragments
    Wide = {"x"}
    TrashName <- MCTrash
    Derived <- MCDerived
    Files <- TwoFiles
    Present <- TwoFiles
    Events = {"restore", "purge"}
    FilePaths <- PlacesXY
    DirPaths <- NoPaths
    MovePaths <- NoPaths
    RestoreFileKnown = TRUE
    Ages = {}
    MaxTime = 1
    MaxId = 2
PROPERTIES
    NoFileLost
CHECK_DEADLOCK FALSE
