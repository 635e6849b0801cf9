CONSTANTS
    a = a
    b = b
    SenderReplicas = 3
    ReceiverReplicas = 2
    MaxFlow = 2
    SenderFirst = FALSE
    Msg <- MCMsg
    Malformed = Malformed
    MaxFaulty = 1
    WildWrites = FALSE
SYMMETRY MCSymmetry
SPECIFICATION MCSpec
INVARIANTS DeliversIntent NoFalseAlarm FaultsTolerated
PROPERTY ImplementsMailbox
