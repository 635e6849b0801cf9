-------------------------------- MODULE Router --------------------------------
(***************************************************************************)
(* The onboard FakeWire network of the simulator: the router of            *)
(* src/sim/fakewire/router/router.go between the flight computer and the   *)
(* RMAP devices (src/sim/fakewire/rmap/device.go).  Each port has a FIFO   *)
(* for one packet coming in and a multiplexer for packets going out.       *)
(* Everybody is told of progress by events only                            *)
(* (src/sim/component/dispatcher.go): a packet nobody is told of stays.    *)
(*                                                                         *)
(* The flight computer sits behind two one-packet nodes that are patched   *)
(* to its port (src/sim/fakewire/packetlink).                              *)
(***************************************************************************)
EXTENDS Integers, Sequences, FiniteSets, SequencesExt

CONSTANTS
    Devices,        \* ports with a device; the flight computer is on port 1
    MaxPackets      \* packets the flight computer sends

RouterAssumption ==
    /\ Devices \subseteq Nat \ {0, 1} /\ IsFiniteSet(Devices)
    /\ MaxPackets \in Nat

FCE == 1
Ports == Devices \cup {FCE}
Nobody == 0

VARIABLES
    net,        \* the network: [fifo, sending, outbox, inbox, pending]
    sent,       \* the packets the flight computer has sent
    answered    \* the numbers of those whose answers it has received

vars == <<net, sent, answered>>

(* A packet: where the router sends it, or Nobody if its address leads     *)
(* nowhere; its number; and whether a device answers it.                   *)
Packets == [to : Ports \cup {Nobody}, number : 1..MaxPackets, valid : BOOLEAN]
NoPacket == [to |-> Nobody, number |-> 0, valid |-> FALSE]

(* The events that may be pending: for a port, that its FIFO is free or    *)
(* its multiplexer has a packet, and for the nodes of the flight computer  *)
(* that one has a packet to send or has room for one that was received.    *)
Events == {<<"fifo", p>> : p \in Ports} \cup {<<"mux", p>> : p \in Ports}
              \cup {<<"outbox", FCE>>, <<"inbox", FCE>>}

TypeOK ==
    /\ net.fifo \in [Ports -> {packet \in Packets : packet.to # Nobody} \cup {NoPacket}]
    /\ net.sending \in [Ports -> Ports \cup {Nobody}]
    /\ {net.outbox, net.inbox} \subseteq Packets \cup {NoPacket}
    /\ net.pending \subseteq Events
    /\ sent \in Seq(Packets) /\ answered \in Seq(1..MaxPackets)

(* At the start everybody looks once.                                      *)
Init ==
    /\ net = [fifo    |-> [p \in Ports |-> NoPacket], sending |-> [p \in Ports |-> Nobody],
              outbox  |-> NoPacket, inbox |-> NoPacket, pending |-> Events]
    /\ sent = <<>> /\ answered = <<>>

-----------------------------------------------------------------------------
(* The router, as functions of the network.                                *)

CanAcceptPacket(n, p) == n.fifo[p] = NoPacket
HasPacketAvailable(n, p) == n.sending[p] # Nobody

(* receiveFIFO.SendPacket: a packet that leads nowhere is dropped.         *)
SendPacket(n, p, packet) ==
    LET stored == [n EXCEPT !.fifo[p] = packet]
    IN IF packet.to = Nobody THEN n
       ELSE IF n.sending[packet.to] # Nobody THEN stored
       ELSE [stored EXCEPT !.sending[packet.to] = p, !.pending = @ \cup {<<"mux", packet.to>>}]

(* transmitMux.ReceivePacket: the packet, and the network after it, with   *)
(* the first FIFO that has another for this port.                          *)
Received(n, p) == n.fifo[n.sending[p]]
Bug_AfterReceive_kept(n, p) ==
    [n EXCEPT !.pending = @ \cup {<<"fifo", n.sending[p]>>}]
AfterReceive(n, p) ==
    LET from    == n.sending[p]
        waiting == {f \in Ports \ {from} : n.fifo[f] # NoPacket /\ n.fifo[f].to = p}
    IN [n EXCEPT !.fifo[from] = NoPacket,
                 !.sending[p] = IF waiting = {} THEN Nobody
                                ELSE CHOOSE f \in waiting : \A g \in waiting : f <= g,
                 !.pending = @ \cup {<<"fifo", from>>}]

-----------------------------------------------------------------------------
(* What is subscribed to the events.                                       *)

(* One turn of processPackets: a packet is taken only if an answer to it   *)
(* could be sent at once.                                                  *)
Bug_Processed(n, p) ==
    IF ~HasPacketAvailable(n, p) THEN n
    ELSE LET packet == Received(n, p)
             after  == AfterReceive(n, p)
         IN IF packet.valid /\ CanAcceptPacket(n, p) THEN SendPacket(after, p, [packet EXCEPT !.to = FCE]) ELSE after
Processed(n, p) ==
    IF ~HasPacketAvailable(n, p) \/ ~CanAcceptPacket(n, p) THEN n
    ELSE LET packet == Received(n, p)
             after  == AfterReceive(n, p)
         IN IF packet.valid THEN SendPacket(after, p, [packet EXCEPT !.to = FCE]) ELSE after

(* The loop: a port has at most one packet from each FIFO.                 *)
processPackets(n, p) ==
    FoldLeft(LAMBDA at, turn : Processed(at, p), n, [turn \in 1..Cardinality(Ports) |-> turn])

(* PatchLinks from the outbox to the router, and from the router to the    *)
(* inbox: each has room for one packet, so each loop has one turn.         *)
PumpOut(n) ==
    IF n.outbox = NoPacket \/ ~CanAcceptPacket(n, FCE) THEN n
    ELSE SendPacket([n EXCEPT !.outbox = NoPacket], FCE, n.outbox)
PumpIn(n) ==
    IF ~HasPacketAvailable(n, FCE) \/ n.inbox # NoPacket THEN n
    ELSE [AfterReceive(n, FCE) EXCEPT !.inbox = Received(n, FCE)]

Subscriber(n, event) ==
    IF event[2] # FCE THEN processPackets(n, event[2])
    ELSE IF event[1] \in {"outbox", "fifo"} THEN PumpOut(n) ELSE PumpIn(n)

(* A pending event is dispatched; those due at the same time come in any   *)
(* order.                                                                  *)
Dispatch ==
    \E event \in net.pending :
        /\ net' = Subscriber([net EXCEPT !.pending = @ \ {event}], event)
        /\ UNCHANGED <<sent, answered>>

(* The flight computer sends a packet to a device, or astray.              *)
FceSends ==
    /\ net.outbox = NoPacket /\ Len(sent) < MaxPackets
    /\ \E to \in Devices \cup {Nobody}, valid \in BOOLEAN :
          LET packet == [to |-> to, number |-> Len(sent) + 1, valid |-> valid]
          IN /\ net' = [net EXCEPT !.outbox = packet, !.pending = @ \cup {<<"outbox", FCE>>}]
             /\ sent' = Append(sent, packet)
    /\ UNCHANGED answered

FceReceives ==
    /\ net.inbox # NoPacket
    /\ net' = [net EXCEPT !.inbox = NoPacket, !.pending = @ \cup {<<"inbox", FCE>>}]
    /\ answered' = Append(answered, net.inbox.number)
    /\ UNCHANGED sent

(* The flight computer may send nothing more.                              *)
Quiet == net.pending = {} /\ net.inbox = NoPacket /\ UNCHANGED vars

Next == Dispatch \/ FceSends \/ FceReceives \/ Quiet

Spec == Init /\ [][Next]_vars

(* The simulator runs every event that is due, and the flight computer     *)
(* takes what it is sent.                                                  *)
FairSpec == Spec /\ WF_vars(Dispatch) /\ WF_vars(FceReceives)

-----------------------------------------------------------------------------
(* What the router promises.                                               *)

(* Nothing is forgotten.  The multiplexer of a port points to a FIFO with  *)
(* a packet for that port whenever there is one, so that the panics of the *)
(* router are unreachable and no packet waits where nobody looks; and      *)
(* nobody sleeps through work: whoever could move a packet is about to be  *)
(* told of it.                                                             *)
Coherent ==
    \A p \in Ports :
        LET waiting == {f \in Ports : net.fifo[f] # NoPacket /\ net.fifo[f].to = p}
        IN IF waiting = {} THEN net.sending[p] = Nobody ELSE net.sending[p] \in waiting

Told ==
    /\ \A p \in Devices : HasPacketAvailable(net, p) /\ CanAcceptPacket(net, p)
                             => {<<"fifo", p>>, <<"mux", p>>} \cap net.pending # {}
    /\ net.outbox # NoPacket /\ CanAcceptPacket(net, FCE)
          => {<<"fifo", FCE>>, <<"outbox", FCE>>} \cap net.pending # {}
    /\ HasPacketAvailable(net, FCE) /\ net.inbox = NoPacket
          => {<<"mux", FCE>>, <<"inbox", FCE>>} \cap net.pending # {}

Awake == TypeOK /\ Coherent /\ Told

(* The answers of one device come in the order of the packets sent to it,  *)
(* each once.                                                              *)
InOrder ==
    \A i, j \in DOMAIN answered :
        i < j /\ sent[answered[i]].to = sent[answered[j]].to => answered[i] < answered[j]

(* Every packet a device answers is answered, however the devices compete  *)
(* for the way back.                                                       *)
Unanswered ==
    {n \in DOMAIN sent : sent[n].to # Nobody /\ sent[n].valid} \ ToSet(answered)

Answered == Unanswered # {} ~> Unanswered = {}
=============================================================================
