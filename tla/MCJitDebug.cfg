CONSTANTS
    Windows = {1, 2}
    Code <- MCCode
    MaxBreaks = 1
SPECIFICATION DebugSpec
INVARIANTS
    OneInstruction
    PausedJobReachable
PROPERTY
    NothingSkipped
