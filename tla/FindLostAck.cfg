\* An acknowledgement is lost.
SPECIFICATION Spec
CONSTANTS
    SeqMod = 16
    SegLen = 1
    MsgSegs = 1
    VecBits = 1
    TimeInfinity = 5
    SendCap = 2
    RecvCap = 2
    Tiny = 1
    Rtx = 2
    InterSeg = 1
    UseConnections = FALSE
    RstAttempts = 2
    RstPeriod = 1
    Senders <- JustA
    Connectors <- NoOne
    Env <- LossyAcks
    UseFlush = FALSE
    SendLens <- Lens123
    RecvMaxs <- Lens12
    Dts <- Ticks
    MaxBytes = 4
    MaxLoss = 1
    MaxConnects = 0
    MaxResets = 0
    ChanCap = 2
PROPERTIES
    ExactlyOnceAB
