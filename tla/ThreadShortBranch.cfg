SPECIFICATION FairSpec
CONSTANTS
    Programs <- ShortBranch
    Inputs = {"a", "b", "c"}
    CNT_RANGE = 8
    LOOP_RANGE = 4
INVARIANTS
    FollowsProgram
