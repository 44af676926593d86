\* The zero at the end of a frame is lost.
SPECIFICATION FullyFairSpec
CONSTANTS
    Checksum <- arq_crc32
    SegLen = 2
    Frames <- JustSegment
    Noise <- LostEnd
    Chunks <- All
    MaxFrames = 3
    MaxNoise = 1
CHECK_DEADLOCK FALSE
PROPERTIES
    CleanDelivered
