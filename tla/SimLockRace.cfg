SPECIFICATION Spec
CONSTANTS
    N = 3
    Resources <- OneMutex
    WORKERS = TRUE
    grant_select <- NoHook
INVARIANT
    MutualExclusion
