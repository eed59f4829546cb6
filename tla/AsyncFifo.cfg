SPECIFICATION FairSpec
CONSTANTS
    DEPTH = 4
    OVERFLOW = FALSE
    Data = {d1, d2}
    NoData = NoData
INVARIANT
    ViewsAreLate
PROPERTIES
    ImplementsElasticQueue
    PointersArrive
