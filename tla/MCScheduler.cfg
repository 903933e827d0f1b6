CONSTANTS
    MAX_TASKS = 4
    MAX_TASKLEVELS = 3
    LEVEL0_QUOTA = 3
    BootLevels <- MCBootLevels
    CallLevels <- MCCallLevels
SPECIFICATION FairSpec
INVARIANTS
    TypeOK
    QueuesAgree
PROPERTIES
    NoLostRound
    TurnKept
    PoolSpec
    RunnableServed
