SPECIFICATION Spec
CONSTANTS
    Fragments <- MCFragments
    TrashName <- MCTrash
    FileIds = {1, 2}
    DirPaths <- PlainDirs
    FilePaths <- PlainFiles
    MaxInode = 6
INVARIANTS
    PathsAreExact
    ViewsAgree
PROPERTIES
    InodeKeepsMeaning
    ImplementsNamespace
CHECK_DEADLOCK FALSE
