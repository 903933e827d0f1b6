CONSTANTS
    Worlds <- MCWorlds
    RootFile = "a.c"
    AutoSource <- MCAutoSource
    JIT_INCLUDE_MAX_DEPTH = 4
    JIT_SEEN_MAX = 3
    JIT_SOURCE_MAX_SIZE = 14
    Programs <- MCPrograms
    TextAddrs = {1, 2, 3, 4}
    Lines = {1, 2}
    MaxRows = 4
    JIT_DEBUG_LINE_MAP_MAX = 3
SPECIFICATION Spec
CHECK_DEADLOCK FALSE
INVARIANTS
    TextComplete
    PollsInLoops
    LineNeverWrong
