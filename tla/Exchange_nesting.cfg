CONSTANTS
    MaxOutstandingTokens = 2
    ReadFlow = 2
    BufferRuns = 1
    TxRoom = 6
    Period = {1}
    FwPackets = 0
    SimPackets = 2
    Burst = 1
    UpRoom = 2
    DownRoom = 1
    MaxLosses = 1
    MaxReboots = 0
    FwIds = {1}
    SimIds = {2}
SPECIFICATION Spec
INVARIANTS NothingFails
