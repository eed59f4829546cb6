SPECIFICATION LoweringSpec
CONSTANTS
    Programs <- AllBodies
    Inputs = {"a", "b", "c"}
    CNT_RANGE = 8
    LOOP_RANGE = 4
INVARIANTS
    FollowsProgram
PROPERTIES
    WaitsTakeTheirCycles
    ThreadsRecur
    ItemsInOrder
    ItemsLeave
