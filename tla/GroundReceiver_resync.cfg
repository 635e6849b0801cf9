CONSTANTS
    Streams <- MCStreams
    ByteDuration = 2
    MinPacket = 2
    MaxMessage = 8
    MaxTroubles = 1
SPECIFICATION Spec
INVARIANT ChewsUp
CHECK_DEADLOCK FALSE
