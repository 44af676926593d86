\* Two segments of two bytes per message.  Partial messages leave when they are
\* flushed; last segments are lost and the inter-segment timer asks for them again.
SPECIFICATION FairSpec
CONSTANTS
    SeqMod = 16
    SegLen = 2
    MsgSegs = 2
    VecBits = 2
    TimeInfinity = 5
    SendCap = 1
    RecvCap = 2
    Tiny = 1
    Rtx = 2
    InterSeg = 1
    UseConnections = FALSE
    RstAttempts = 2
    RstPeriod = 1
    Senders <- JustA
    Connectors <- NoOne
    Env <- LossyLast
    UseFlush = TRUE
    SendLens <- Lens123
    RecvMaxs <- Lens3
    Dts <- Ticks
    MaxBytes = 6
    MaxLoss = 2
    MaxConnects = 0
    MaxResets = 0
    ChanCap = 2
INVARIANTS
    OnlyFailedResent
    NextPollNotLate
    NoEmptySegment
PROPERTIES
    ExactlyOnceAB
    SendSpaceReturns
