CONSTANTS
    RxSize = 2
    Roots = {".", "s"}
    RemoteNames = {"a", "b"}
    Chunks = 1
    Commands = {"probe", "exec", "ls", "get", "cat", "put", "cp_in", "cp_over", "mv_in", "mv_out", "mv_over"}
    MaxCommands = 1
    MaxAhead = 3
SPECIFICATION Spec
CHECK_DEADLOCK FALSE
INVARIANTS
    StreamInOrder
    NothingHeld
    FileNeverLost
PROPERTY
    TimedCallsEnd
