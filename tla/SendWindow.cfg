\* Two segments per message, a window of two, sequence numbers that wrap.
SPECIFICATION Spec
CONSTANTS
    SeqMod = 4
    SegLen = 1
    MsgSegs = 2
    VecBits = 2
    TimeInfinity = 99
    SendCap = 2
    Tiny = 1
    Rtx = 1
    SendLens <- MCSendLens
    Dts <- MCDts
    MaxSent = 5
INVARIANTS
    TypeOK
    WindowShape
    ContentContiguous
PROPERTIES
    OnlyFrontLeaves
