CONSTANTS
    MAX_WINDOWS = 2
    TERMINAL_WORKERS = 2
    JIT_MAX_JOBS = 2
    JIT_MAX_KPTRS = 1
    JIT_MAX_FDS = 1
    APPFS_FDS = 1
    Ptrs = {p1, p2}
    p1 = p1
    p2 = p2
    TimerIrq = TRUE
    MaxId = 3
SYMMETRY PtrSymmetry
SPECIFICATION Spec
INVARIANTS
    WaiterOfLiveJob
    RunsOwnCode
    TrackedNotLost
    OneTaskPerSlot
