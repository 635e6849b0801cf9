CONSTANTS
    TxnIds = 3
    Replicas = {1, 2, 3}
    MaxMessages = 2
    MaxLength = 2
    MaxLost = 1
    MaxLate = 1
    MaxUpsets = 1
    MaxReboots = 1
    NumReplicas = 3
    Measured = {0, 2}
    Damaged = {0, 9}
    MaxFaults = 4
    ElementCount = 2
    MaxPerMap = 1
    ReadingDelay = 3
    LatchingDelay = 1
    TelemDelay = 5
    MeasurementDelay = 2
    Offset = 2
    Displaced = {0, 1, 3}
    MaxTime = 17
    MaxUncalibrated = 1
    MaxTroubles = 2
    CommandTimes = {0, 7, 8}
SPECIFICATION MCSpec
INVARIANTS Framed MCMissionTimeRight MCReportsOrdered MCNothingMissed
PROPERTIES MCTransmits MCCalibrates
