CONSTANTS
    NumReceivers = 3
    MaxFlow = 1
    MsgSize = 1
    SendCapacity = 1
    Capacity = 2
    Bytes = 4
    Demand = {0, 2}
    MaxFaulty = 1
    SenderFails = TRUE
    Patience = 0
    LastPort = 3
    Inbound <- MCInbound
    Outbound <- MCOutbound
    routing_table <- MCRoutes
    PortFlow <- MCPortFlow
    PortSize <- MCPortSize
    MaxLength = 3
    Devices = {2, 3}
    MaxPackets = 3
SPECIFICATION MCSpec
INVARIANTS MCContiguous MCKeepsGoing MCInOrder
PROPERTIES MCRouted
