SPECIFICATION Spec
CONSTANTS
    UMod = 128
    ArqT <- MCArqT
    TimeT <- MCTimeT
    MsgT <- MCMsgT
    Cfgs <- MCCfgs
    Seats <- MCSeats
    SeatSizes <- MCSeatSizes
CHECK_DEADLOCK FALSE
INVARIANTS
    TypeOK
    RegionsApart
    RegionsAligned
    RequiredIsLeast
