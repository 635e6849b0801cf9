CONSTANTS
    QueueNum = 2
    IdxSize = 4
    MessageSize = 2
    Flow = 1
    MaxBytes = 4
    MaxTroubles = 0
SPECIFICATION Spec
PROPERTY NothingLost
