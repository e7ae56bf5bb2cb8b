SPECIFICATION Spec
CONSTANTS
    x = x
    y = y
    Fragments <- MCFragments
    Wide = {"x"}
    TrashName <- MCTrash
    Derived <- MCDerived
    Files <- TwoFiles
    Present <- TwoFiles
    Events = {"crash"}
    FilePaths <- MountFiles
    DirPaths <- OwnDirs
    MovePaths <- MountMoves
    RestoreFileKnown = FALSE
    Ages = {}
    MaxTime = 2
    MaxId = 2
INVARIANTS
    FilesSurvive
    UserDirsSurvive
CHECK_DEADLOCK FALSE
