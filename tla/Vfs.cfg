CONSTANTS
    Root = "root"
    Dirs <- MCDirs
    Links <- MCLinks
    Paths <- MCPaths
    MAX_OPEN = 2
    MAX_SYMLINK_CNT = 4
    MaxInodes = 6
    Faults = TRUE
SPECIFICATION Spec
INVARIANTS RefsExact FindsTheFile
PROPERTY SearchEnds
