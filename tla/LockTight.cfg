SPECIFICATION WaitSpec
CONSTANTS
    N = 3
    SLOTS = 1
    POLICY = "priority"
    BODY = 2
    TIGHT = TRUE
    PREEMPT = FALSE
    FIRST_WAITS = FALSE
    grant_select <- HighestOther
INVARIANT
    MutualExclusion
