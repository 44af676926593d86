\* Seven messages of one or two segments, so that sequence numbers wrap; segments in
\* any order, reads at any time.
SPECIFICATION Spec
CONSTANTS
    SeqMod = 6
    SegLen = 1
    MsgSegs = 2
    VecBits = 2
    TimeInfinity = 9
    RecvCap = 2
    InterSeg = 2
    PeerCap = 2
    Lens <- MCLens
    RecvMaxs <- MCRecvMaxs
    Dts <- MCDts
    MaxMsgs = 7
    MaxRcvd = 14
    Env = {"any_order", "eager_recv"}
INVARIANTS
    TypeOK
    StreamInOrder
    CursorsAgree
    AckTellsTruth
