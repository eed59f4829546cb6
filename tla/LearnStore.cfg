SPECIFICATION FairSpec
CONSTANTS
    Procs = {p1, p2}
    Files = {f1}
    MaxCalls = 3
    None = None
INVARIANTS
    NoEventLost
    FeaturesReplaced
    CountsExact
    IndexFresh
PROPERTY
    CallsEnd
CHECK_DEADLOCK FALSE
