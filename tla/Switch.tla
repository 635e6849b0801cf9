-------------------------------- MODULE Switch --------------------------------
(***************************************************************************)
(* The virtual switch of the flight software, src/fsw/bus/switch.c: once   *)
(* in every epoch it takes all messages from the ducts of its inbound      *)
(* ports and sends each to the outbound port its first byte names, by port *)
(* number or through the routing table, or drops it.                       *)
(*                                                                         *)
(* A packet is the sequence of its bytes, of which only the first matters. *)
(***************************************************************************)
EXTENDS Integers, Sequences, SequencesExt, FiniteSetsExt

CONSTANTS
    LastPort,       \* ports are 1..LastPort: SWITCH_PORTS
    Inbound,        \* ports with an inbound duct
    Outbound,       \* ports with an outbound duct
    routing_table,  \* for each address above the ports, [enabled, pop, port]
    MaxFlow,        \* for each port, packets its ducts carry in an epoch
    MessageSize,    \* for each port, the longest packet of its outbound duct
    MaxLength       \* of the packets that come in: scratch_buffer_size

SWITCH_PORT_BASE == 1
SWITCH_ROUTE_BASE == LastPort + 1
Ports == SWITCH_PORT_BASE..LastPort

SwitchAssumption ==
    /\ LastPort \in Nat /\ Inbound \subseteq Ports /\ Outbound \subseteq Ports
    /\ DOMAIN routing_table \subseteq Nat \ 0..LastPort
    /\ \A address \in DOMAIN routing_table :
          routing_table[address] \in [enabled: BOOLEAN, pop: BOOLEAN, port: Ports]
    /\ MaxFlow \in [Ports -> Nat] /\ MessageSize \in [Ports -> Nat] /\ MaxLength \in Nat

VARIABLES
    inbound,    \* for each port, what is in its inbound duct
    outbound    \* for each port, what is in its outbound duct

vars == <<inbound, outbound>>

Destinations == 0..SWITCH_ROUTE_BASE + 2
Nothing == [p \in Ports |-> <<>>]

Init == inbound = Nothing /\ outbound = Nothing

-----------------------------------------------------------------------------
(* switch_packet.                                                          *)

NoRoute == [enabled |-> FALSE, pop |-> FALSE, port |-> 0]

(* Where an address leads: port numbers are popped, logical addresses are  *)
(* routed.                                                                 *)
Route(destination) ==
    IF destination \in Ports THEN [enabled |-> TRUE, pop |-> TRUE, port |-> destination]
    ELSE IF destination \in DOMAIN routing_table THEN routing_table[destination] ELSE NoRoute

(* Some of the checks are made in turn, each dropping the packet.          *)
Bug_Checked(out, port, data) ==
    IF Len(out[port]) < MaxFlow[port] /\ data # <<>>
    THEN [out EXCEPT ![port] = Append(@, SubSeq(data, 1, Min({Len(data), MessageSize[port]})))] ELSE out
Checked(out, port, data) ==
    IF Len(out[port]) < MaxFlow[port] /\ data # <<>> /\ Len(data) <= MessageSize[port]
    THEN [out EXCEPT ![port] = Append(@, data)] ELSE out

switch_packet(out, packet) ==
    LET route == Route(Head(packet))
    IN IF ~route.enabled \/ route.port \notin Outbound THEN out
       ELSE Checked(out, route.port, IF route.pop THEN Tail(packet) ELSE packet)

(* The ports are gone through in order, and each is emptied.               *)
Arrivals == FlattenSeq([p \in Ports |-> inbound[p]])

switch_io_clip ==
    /\ outbound' = FoldLeft(switch_packet, Nothing, Arrivals)
    /\ inbound' = Nothing

(* The clips on the other sides of the ducts take what was sent to them,   *)
(* and send at most as much as their ducts carry.                          *)
Packet(destination, n) == <<destination>> \o [i \in 1..n |-> 0]
Packets == {Packet(destination, n) : destination \in Destinations, n \in 0..MaxLength - 1}

Sends ==
    /\ \E p \in Inbound, packet \in Packets :
          /\ Len(inbound[p]) < MaxFlow[p]
          /\ inbound' = [inbound EXCEPT ![p] = Append(@, packet)]
    /\ outbound' = Nothing

Next == switch_io_clip \/ Sends

Spec == Init /\ [][Next]_vars

-----------------------------------------------------------------------------
(* What the switch promises.                                               *)

(* What a packet becomes on its way to a port.                             *)
Popped(packet) == IF Route(Head(packet)).pop THEN Tail(packet) ELSE packet

(* Whether a port could send it on.                                        *)
Deliverable(packet, port) ==
    LET route == Route(Head(packet))
    IN route.enabled /\ route.port = port /\ Len(Popped(packet)) \in 1..MessageSize[port]

(* The arrivals that a port could send on, in their order.                 *)
Due(port) ==
    LET due[n \in 0..Len(Arrivals)] ==
            IF n = 0 THEN <<>>
            ELSE IF Deliverable(Arrivals[n], port) THEN Append(due[n - 1], Arrivals[n]) ELSE due[n - 1]
    IN  due[Len(Arrivals)]

(* A port sends the first packets for it that could be sent at all, as     *)
(* many as its duct carries, whole and in the order of arrival: no packet  *)
(* that is dropped takes the place of another, and no port takes the       *)
(* packets of another.                                                     *)
Routed ==
    [][switch_io_clip => \A p \in Outbound :
          outbound'[p] = [i \in 1..Min({MaxFlow[p], Len(Due(p))}) |-> Popped(Due(p)[i])]]_vars
=============================================================================
