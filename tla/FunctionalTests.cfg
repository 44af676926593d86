SPECIFICATION FairSpec
CONSTANTS
    Scales <- MCScales
    SeqMod = 8
    Tests <- AllTests
    TimeInfinity <- Infinity
    AnyTime <- MCAnyTime
CHECK_DEADLOCK FALSE
INVARIANTS
    ChecksHold
    OutputInPlace
PROPERTIES
    TestsFinish
