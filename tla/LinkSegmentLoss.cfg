\* One segment of two bytes per message, partial messages that grow until the
\* tinygram timer goes off, data frames lost, a reader that falls behind.
SPECIFICATION FairSpec
CONSTANTS
    SeqMod = 16
    SegLen = 2
    MsgSegs = 1
    VecBits = 1
    TimeInfinity = 5
    SendCap = 2
    RecvCap = 2
    Tiny = 1
    Rtx = 2
    InterSeg = 1
    UseConnections = FALSE
    RstAttempts = 2
    RstPeriod = 1
    Senders <- JustA
    Connectors <- NoOne
    Env <- LossyDataSlowReader
    UseFlush = FALSE
    SendLens <- Lens123
    RecvMaxs <- Lens3
    Dts <- Ticks
    MaxBytes = 5
    MaxLoss = 2
    MaxConnects = 0
    MaxResets = 0
    ChanCap = 2
INVARIANTS
    TypeOK
    AckedIsReceived
PROPERTIES
    ExactlyOnceAB
    DeliveredAB
