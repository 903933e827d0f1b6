CONSTANTS
    FS_MAX_BLOCKS = 6
    FIRST_BLOCK = 2
    MAX_DIR_ENTRIES = 2
    SCAN_DEPTH = 8
    CLIMB_GUARD = 8
    Names = {"a", "b"}
    LongNames = {"bb"}
    Short <- MCShort
    Contents = {"v"}
    StoreSizes = {0}
    MaxCalls = 3
    MaxCrashes = 0
SPECIFICATION Spec
PROPERTIES
    MoveKeepsEntry
