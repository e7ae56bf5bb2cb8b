SPECIFICATION Spec
CONSTANTS
    Fragments <- MCFragments
    TrashName <- MCTrash
    FileIds = {1}
    DirPaths <- SiblingDirs
    FilePaths <- SiblingFiles
    MaxInode = 5
PROPERTIES
    RenameMovesOnlyDescendants
CHECK_DEADLOCK FALSE
