SPECIFICATION ChannelsSpec
CONSTANTS
    DEPTH = 3
    RANGE = 4
    Data = {d1, d2}
    NoData = NoData
    STAGES = 2
    WIDTH = 2
    Links <- CheckedLinks
INVARIANTS
    CreditsConserved
    CanSendExact
    ClassesAgree
    CrossingsAreClean
    CallsConserved
    HandshakesStable
PROPERTIES
    ImplementsElasticQueue
    CreditReturns
    HandshakeIsChannel
    InputArrives
    AnswersMatch
    CallsReturn
