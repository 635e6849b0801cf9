------------------------------- MODULE MCVivid --------------------------------
(***************************************************************************)
(* Parts of the platform that do not depend on one another: the schedule   *)
(* of the clips with their scrubbers, the two kinds of queue of the VIRTIO *)
(* driver, and beyond it the router of the simulator, with two devices,    *)
(* under fairness (MCPipe is about its order).  One of them is chosen at   *)
(* the start and then runs by itself.                                      *)
(***************************************************************************)
EXTENDS ClipScheduler

CONSTANTS QueueNum, IdxSize, MessageSize, Flow, MaxBytes, MaxTroubles, Bodies, OutputNum,
          Devices, MaxPackets

VARIABLES
    part,       \* "schedule", "input", "output" or "router"
    used_idx, avail_idx, ring, configured, last_descriptor_count, restarting, inputTurn, row,
    received, delivered, returned, inputDisturbed, inputTroubles,
    outputUsed, outputAvail, transmit_buffer, desc, outputTurn, batch, sent, outputDisturbed,
    outputTroubles,
    net, fceSent, answered

I == INSTANCE VirtioInput WITH turn <- inputTurn, disturbed <- inputDisturbed, troubles <- inputTroubles
OutputMessage == [length: 1..MessageSize, body: Bodies]
O == INSTANCE VirtioOutput WITH
        Message <- OutputMessage, OutputIdxSize <- IdxSize,
        used_idx <- outputUsed, avail_idx <- outputAvail, turn <- outputTurn,
        disturbed <- outputDisturbed, troubles <- outputTroubles
Router == INSTANCE Router WITH sent <- fceSent

ASSUME RouterAssumption == Router!RouterAssumption
ASSUME QueueAssumption == I!VirtioInputAssumption /\ O!VirtioOutputAssumption

ivars == <<used_idx, avail_idx, ring, configured, last_descriptor_count, restarting, inputTurn, row,
           received, delivered, returned, inputDisturbed, inputTroubles>>
ovars == <<outputUsed, outputAvail, transmit_buffer, desc, outputTurn, batch, sent, outputDisturbed,
           outputTroubles>>
rvars == <<net, fceSent, answered>>

Is(name) == part = name

MCInit ==
    /\ part \in {"schedule", "input", "output", "router"}
    /\ Init /\ I!Init /\ O!Init /\ Router!Init
    /\ Is("output") \/ batch = <<>>

MCNext ==
    /\ UNCHANGED part
    /\ \/ Is("schedule") /\ Next /\ UNCHANGED <<ivars, ovars, rvars>>
       \/ Is("input") /\ I!Next /\ UNCHANGED <<vars, ovars, rvars>>
       \/ Is("output") /\ O!Next /\ UNCHANGED <<vars, ivars, rvars>>
       \/ Is("router") /\ Router!Next /\ UNCHANGED <<vars, ivars, ovars>>

(* The fairness of the FairSpec of the schedule, the receive queue and the *)
(* router.                                                                 *)
MCSpec ==
    /\ MCInit /\ [][MCNext]_<<vars, ivars, ovars, rvars, part>>
    /\ WF_vars(Is("schedule") /\ Step)
    /\ WF_ivars(Is("input") /\ I!Clip)
    /\ WF_rvars(Is("router") /\ Router!Dispatch) /\ WF_rvars(Is("router") /\ Router!FceReceives)

(* Damage is repaired in the end, and no receive queue stays stuck.        *)
MCRecovers == (Is("schedule") => Recovers) /\ (Is("input") => I!Returns)

(* What a device answers is answered.                                      *)
MCAnswersCome == Is("router") => Router!Answered

(* A transmit queue sends what was meant to be sent, and without trouble   *)
(* all of it.                                                              *)
MCIntended == [](O!TypeOK /\ O!SendsIntended) /\ O!SendsAll

(* What a receive queue hands over is the device's stream with gaps, and   *)
(* without trouble all that its prepare clip has seen and sent.            *)
MCReceives == [](I!TypeOK /\ I!InOrder) /\ I!HandsOver
=============================================================================
