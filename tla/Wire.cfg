\* Three frames, each the longest or the shortest, one of them damaged by noise or a
\* stray zero before or after it; bytes arrive one at a time or all at once.
SPECIFICATION FairSpec
CONSTANTS
    Checksum <- arq_crc32
    SegLen = 2
    Frames <- SegmentAndAck
    Noise <- LineNoise
    Chunks <- OneOrAll
    MaxFrames = 3
    MaxNoise = 1
CHECK_DEADLOCK FALSE
INVARIANTS
    TypeOK
    OnlyLastByteZero
    ChecksumIsCrc32
PROPERTIES
    CarriesFrames
    CleanDelivered
