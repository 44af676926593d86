\* A connects, then both send; frames without an acknowledgement are lost.
SPECIFICATION FairSpec
CONSTANTS
    SeqMod = 16
    SegLen = 1
    MsgSegs = 1
    VecBits = 1
    TimeInfinity = 5
    SendCap = 2
    RecvCap = 2
    Tiny = 1
    Rtx = 2
    InterSeg = 1
    UseConnections = TRUE
    RstAttempts = 2
    RstPeriod = 1
    Senders <- Both
    Connectors <- JustA
    Env <- LossyDataSkewed
    UseFlush = FALSE
    SendLens <- Lens2
    RecvMaxs <- Lens12
    Dts <- Ticks
    MaxBytes = 2
    MaxLoss = 1
    MaxConnects = 1
    MaxResets = 0
    ChanCap = 2
INVARIANTS
    IdleOwesNoAck
    NoHalfOpen
PROPERTIES
    ExactlyOnceBA
    DeliveredBA
    ConnectSucceeds
