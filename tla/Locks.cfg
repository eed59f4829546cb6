SPECIFICATION LocksSpec
CONSTANTS
    N = 3
    SLOTS = 1
    POLICY = "round_robin"
    BODY = 3
    TIGHT = FALSE
    PREEMPT = TRUE
    FIRST_WAITS = FALSE
    grant_select <- HighestOther
    NUM_REQ = 3
    Latencies = {1, 2, 3}
    user_hook <- AllButLast
    SimResources <- CheckedResources
    GEN_RANGE = 2
    MaxBatch = 2
INVARIANTS
    MutualExclusion
    BoundedWait
    RequestsServed
    LocksHandedOver
    EdgesDone
PROPERTIES
    HoldStable
    NobodyStarves
    SemaphoreIsSafe
