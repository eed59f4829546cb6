SPECIFICATION FairSpec
CONSTANTS
    Programs <- FoldedBeforeCount
    Inputs = {"a", "b", "c"}
    CNT_RANGE = 8
    LOOP_RANGE = 4
PROPERTIES
    WaitsTakeTheirCycles
