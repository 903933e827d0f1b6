CONSTANTS
    FS_MAX_BLOCKS = 6
    FIRST_BLOCK = 2
    MAX_DIR_ENTRIES = 2
    SCAN_DEPTH = 8
    CLIMB_GUARD = 8
    Names = {"a", "b"}
    LongNames = {"bb"}
    Short <- MCShort
    Contents = {"v", "w"}
    StoreSizes = {0, 2}
    MaxCalls = 4
    MaxCrashes = 2
SPECIFICATION Spec
INVARIANTS
    TypeOK
    TreeMarked
    FileIntact
    OneOwner
    HintExact
PROPERTIES
    RebuildExact
