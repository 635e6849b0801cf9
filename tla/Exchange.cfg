CONSTANTS
    MaxOutstandingTokens = 2
    ReadFlow = 1
    BufferRuns = 2
    TxRoom = 4
    Period = {1}
    FwPackets = 2
    SimPackets = 2
    Burst = 1
    UpRoom = 1
    DownRoom = 0
    MaxLosses = 0
    MaxReboots = 1
    FwIds = {1}
    SimIds = {2}
SPECIFICATION MCSpec
INVARIANTS WholePackets Asserted MCSidesAgree
PROPERTIES MCLossNoticed
