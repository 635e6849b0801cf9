CONSTANTS
    TxnIds = 4
    Half = 6
    LocalSize = 4
    Rate = 1
    MaxBytes = 8
    MaxLost = 0
    MaxLate = 1
    MaxStalls = 1
    MaxReboots = 1
    NumReplicas = 3
    AsyncFlow = 2
    SyncFlow = 1
    DownlinkScratch = 3
    MsgSize = 2
    MaxAsync = 2
    MaxSync = 2
    MaxTroubles = 2
    UplinkScratch = 20
    UplinkSize = 10
    Portions = {0, 1, 10}
    MaxContent = 2
    ByteDuration = 2
    MinPacket = 2
    MaxMessage = 8
    Delays = {1, 3, 6}
    Lengths = {1, 2}
    MaxCommands = 3
    ParamSize = 2
    TxCapacity = 5
    Runs <- MCData
    Params <- MCParams
    Rooms = {0, 1}
    Noise = {65, 130, 133, 135, 151}
    MaxSent = 3
    MaxErrors = 1
    MaxResets = 1
SPECIFICATION GroundSpec
INVARIANTS MCStreamIntact MCKeepsUp MCAccounted MCAnswered MCHears MCReported MCVerdictsInWindows MCRoundTrip MCReadAlike
PROPERTIES MCSettles
