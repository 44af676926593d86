\* Both ends may connect and reset; any frame may be lost or damaged.
SPECIFICATION FairSpec
CONSTANTS
    SeqMod = 1
    SegLen = 1
    MsgSegs = 1
    VecBits = 1
    TimeInfinity = 5
    SendCap = 2
    RecvCap = 2
    Tiny = 1
    Rtx = 2
    InterSeg = 1
    UseConnections = TRUE
    RstAttempts = 2
    RstPeriod = 1
    Senders <- NoOne
    Connectors <- Both
    Env <- Noisy
    UseFlush = FALSE
    SendLens <- Lens1
    RecvMaxs <- Lens12
    Dts <- Ticks
    MaxBytes = 0
    MaxLoss = 1
    MaxConnects = 1
    MaxResets = 1
    ChanCap = 2
PROPERTIES
    HandshakeEnds
    EventsTellOutcome
