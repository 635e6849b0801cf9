-------------------------------- MODULE MCPipe --------------------------------
(***************************************************************************)
(* What carries data: the pipes between the clips; the switch between      *)
(* their ducts; and the router that the simulator has on the other side of *)
(* the bus.  One of four instances is chosen at the start and then runs by *)
(* itself: a pipe of which a minority of the receivers and the sender may  *)
(* be cut short; over variables of its own, a larger pipe without faults   *)
(* whose consumer reads at least a byte in every epoch; a small switch,    *)
(* with three ports, the third without an outbound duct, and two logical   *)
(* addresses, of which one is popped; and the router, with two devices.    *)
(***************************************************************************)
EXTENDS Pipe, TLC

CONSTANTS LastPort, Inbound, Outbound, routing_table, PortFlow, PortSize, MaxLength, Devices, MaxPackets

MCInbound == {1, 2}
MCOutbound == {1, 2}
MCRoutes == 4 :> [enabled |-> TRUE, pop |-> FALSE, port |-> 2]
         @@ 5 :> [enabled |-> TRUE, pop |-> TRUE, port |-> 1]
MCPortFlow == <<1, 2, 1>>
MCPortSize == <<2, 1, 2>>

VARIABLES
    instance,   \* "cuts", "flow", "switch" or "router"
    send_scratch2, scratch2, scratch_avail2, scratch_offset2, last_requested2, dataflow2,
    pressure2, turn2, step2, available2, taken2, demand2, faulty2, lagging2, stalled2,
    sent2, consumed2,
    inbound, outbound,
    net, fceSent, answered

vars2 == <<send_scratch2, scratch2, scratch_avail2, scratch_offset2, last_requested2,
           dataflow2, pressure2, turn2, step2, available2, taken2, demand2, faulty2,
           lagging2, stalled2, sent2, consumed2>>

Large == INSTANCE Pipe WITH
    NumReceivers <- 1, MaxFlow <- 2, MsgSize <- 2, SendCapacity <- 3, Capacity <- 4,
    Bytes <- 8, Demand <- {1, 3}, MaxFaulty <- 0, SenderFails <- FALSE, Patience <- 2,
    send_scratch <- send_scratch2, scratch <- scratch2, scratch_avail <- scratch_avail2,
    scratch_offset <- scratch_offset2, last_requested <- last_requested2,
    dataflow <- dataflow2, pressure <- pressure2, turn <- turn2, step <- step2,
    available <- available2, taken <- taken2, demand <- demand2, faulty <- faulty2,
    lagging <- lagging2, stalled <- stalled2, sent <- sent2, consumed <- consumed2

Switch == INSTANCE Switch WITH MaxFlow <- PortFlow, MessageSize <- PortSize
Router == INSTANCE Router WITH sent <- fceSent

ASSUME CarrierAssumption == Switch!SwitchAssumption /\ Router!RouterAssumption

svars == <<inbound, outbound>>
rvars == <<net, fceSent, answered>>

Is(name) == instance = name

MCInit ==
    /\ Init /\ Large!Init /\ Switch!Init /\ Router!Init
    /\ instance \in {"cuts", "flow", "switch", "router"}
    /\ Is("flow") \/ demand2 = <<1, 0>>
    /\ Is("cuts") \/ demand = <<0, 0>>

MCNext ==
    /\ UNCHANGED instance
    /\ \/ Is("cuts") /\ Next /\ UNCHANGED <<vars2, svars, rvars>>
       \/ Is("flow") /\ Large!Next /\ UNCHANGED <<vars, svars, rvars>>
       \/ Is("switch") /\ Switch!Next /\ UNCHANGED <<vars, vars2, rvars>>
       \/ Is("router") /\ Router!Next /\ UNCHANGED <<vars, vars2, svars>>

MCSpec == MCInit /\ [][MCNext]_<<vars, vars2, svars, rvars, instance>>

(* In the smaller pipe the unread bytes of every receiver are the next     *)
(* ones of the stream; and although receivers are cut short, no message is sent *)
(* that one of them has no room for, and nothing aborts.                   *)
MCContiguous == TypeOK /\ Contiguous /\ NothingDropped /\ NeverAborts

(* So it is in the larger one, which does not have more in an epoch than   *)
(* fits its buffer; and without faults it does not stall.                  *)
MCKeepsGoing ==
    Is("flow") => Large!TypeOK /\ Large!Contiguous /\ Large!NeverAborts /\ Large!Fits /\ Large!Flows

(* The switch drops only what it must.                                     *)
MCRouted == Switch!Routed

(* In the router nothing is forgotten, and a device's answers come in      *)
(* order and once.                                                         *)
MCInOrder == Is("router") => Router!Awake /\ Router!InOrder
===============================================================================
