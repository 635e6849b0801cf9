CONSTANTS
    Apps = 1
    Copies = 2
    MaxAttempts = 3
    AspectTimeout = 12
    Least = 2
    MaxUpsets = 2
    MaxShort = 1
    MaxFaults = 2
    QueueNum = 2
    IdxSize = 4
    MessageSize = 2
    Flow = 1
    MaxBytes = 4
    MaxTroubles = 2
    Bodies = {p, q}
    OutputNum = 2
    Devices = {2, 3}
    MaxPackets = 3
SPECIFICATION MCSpec
INVARIANTS ToldWhenCut FewRetries
PROPERTIES ResetJustified MCRecovers MCAnswersCome MCIntended MCReceives
