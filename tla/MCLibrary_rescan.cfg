SPECIFICATION Spec
CONSTANTS
    x = x
    y = y
    Fragments <- MCFragments
    Wide = {"x"}
    TrashName <- MCTrash
    Derived <- MCDerived
    Files <- TwoFiles
    Present <- OneFile
    Events = {"rescan", "new_file", "second_daemon", "db_error", "crash", "crash_in_scan"}
    FilePaths <- JustX
    DirPaths <- NoPaths
    MovePaths <- NoPaths
    RestoreFileKnown = FALSE
    Ages = {}
    MaxTime = 1
    MaxId = 4
INVARIANTS
    Readable
CHECK_DEADLOCK FALSE
