CONSTANTS
    Replicas = {1, 2, 3}
    ElementCount = 2
    MaxPerMap = 1
    ReadingDelay = 3
    LatchingDelay = 1
    TelemDelay = 5
    MeasurementDelay = 2
    Offset = 2
    Displaced = {0, 1, 3}
    MaxTime = 17
    MaxUncalibrated = 1
    MaxTroubles = 2
    CommandTimes = {0, 7, 8}
SPECIFICATION Spec
INVARIANT TimesTrue
