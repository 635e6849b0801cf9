CONSTANTS
    NumReplicas = 3
    Modulus = 3
    State <- MCState
    Zeroed = 0
    Input = {0, 1}
    Compute <- MCCompute
    MaxFaulty = 1
    AnyMemory = FALSE
    Damage = TRUE
    NumVoters = 3
    Aspects = {a, b}
    Timeout = 1
    Words = 9
    Period = 4
    EarlyOffset = 3
    MaxMissed = 1
SPECIFICATION MCSpec
INVARIANTS Lockstep MCResynchronises MCResetIfOverdue
PROPERTIES InvalidOnlyIfBlank MCFedIfWell
