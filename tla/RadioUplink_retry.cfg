CONSTANTS
    TxnIds = 4
    Half = 5
    LocalSize = 4
    Rate = 1
    MaxBytes = 40
    MaxLost = 1
    MaxLate = 0
    MaxStalls = 0
    MaxReboots = 0
SPECIFICATION Spec
INVARIANTS RegistersCoherent
