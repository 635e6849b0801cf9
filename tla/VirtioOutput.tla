------------------------------ MODULE VirtioOutput -----------------------------
(***************************************************************************)
(* A transmit queue of the VIRTIO driver, src/fsw/vivid/virtio_output.c    *)
(* with VIVID_PREPARE_COMMIT_VIRTIO_DRIVER = 1.                            *)
(*                                                                         *)
(* Once an epoch the prepare clip copies what the duct holds into the      *)
(* transmit buffers behind avail->idx and describes it, and the commit     *)
(* clip, which receives the same from the duct, compares and hands the     *)
(* buffers to the device.  So one clip that goes wrong sends nothing that  *)
(* was not meant to be sent.                                               *)
(*                                                                         *)
(* The device sends what it was handed before the next epoch: when it is   *)
(* behind, the code only logs a mismatch (virtio_output.c:18-22).          *)
(***************************************************************************)
EXTENDS Integers, Sequences, SequencesExt, FiniteSets

CONSTANTS
    Message,        \* messages, records with a length
    OutputNum,      \* queue_num, which is the max_flow of the duct too
    OutputIdxSize,  \* the indices wrap here
    MaxTroubles     \* bound: cuts and upsets

VirtioOutputAssumption ==
    /\ OutputNum \in Nat \ {0} /\ OutputIdxSize \in Nat
    /\ OutputIdxSize % OutputNum = 0 /\ OutputIdxSize > OutputNum
    /\ \A m \in Message : m.length \in Nat \ {0}
    /\ MaxTroubles \in Nat

Slots == 0..OutputNum - 1
Nothing == [length |-> 0, body |-> "nothing"]  \* the content of a buffer, or a descriptor, that is no message's
Clips == {"prepare", "commit"}

VARIABLES
    used_idx, avail_idx,
    transmit_buffer,        \* transmit_buffer[i]: the message whose bytes it holds
    desc,                   \* desc[i]: the length in a descriptor that is right otherwise, or 0
    turn,                   \* the clip that is next, or "device"
    batch,                  \* what the duct holds in this epoch
    sent,                   \* what the device has sent in this epoch
    disturbed,              \* a clip was cut or an upset struck in this epoch
    troubles

vars == <<used_idx, avail_idx, transmit_buffer, desc, turn, batch, sent, disturbed, troubles>>

Batches == UNION {[1..n -> Message] : n \in 0..OutputNum}

TypeOK ==
    /\ used_idx \in 0..OutputIdxSize - 1 /\ avail_idx \in 0..OutputIdxSize - 1
    /\ transmit_buffer \in [Slots -> Message \cup {Nothing}]
    /\ desc \in [Slots -> {0} \cup {m.length : m \in Message}]
    /\ turn \in Clips \cup {"device"} /\ batch \in Batches
    /\ sent \in Seq(Message \cup {Nothing}) /\ Len(sent) <= OutputNum
    /\ disturbed \in BOOLEAN /\ troubles \in 0..MaxTroubles

Init ==
    /\ used_idx = 0 /\ avail_idx = 0
    /\ transmit_buffer = [i \in Slots |-> Nothing] /\ desc = [i \in Slots |-> 0]
    /\ turn = "prepare" /\ batch \in Batches /\ sent = <<>>
    /\ disturbed = FALSE /\ troubles = 0

ring_index(k) == (avail_idx + k - 1) % OutputNum    \* of the k-th message of the epoch

Strikes == troubles < MaxTroubles /\ troubles' = troubles + 1 /\ disturbed' = TRUE

(* Messages 1..n of the epoch are in their buffers.                        *)
Filled(n) ==
    LET at(i) == {k \in 1..n : ring_index(k) = i}
    IN  /\ transmit_buffer' = [i \in Slots |-> IF at(i) = {} THEN transmit_buffer[i]
                                               ELSE batch[CHOOSE k \in at(i) : TRUE]]
        /\ desc' = [i \in Slots |-> IF at(i) = {} THEN desc[i] ELSE batch[CHOOSE k \in at(i) : TRUE].length]

(* The prepare clip, whole or cut after some of the messages.              *)
virtio_output_queue_prepare_clip ==
    /\ turn = "prepare" /\ turn' = "commit"
    /\ \/ Filled(Len(batch)) /\ UNCHANGED <<disturbed, troubles>>
       \/ \E n \in 0..Len(batch) : Filled(n) /\ Strikes
    /\ UNCHANGED <<used_idx, avail_idx, batch, sent>>

Bug_Matches(k) == desc[ring_index(k)] = batch[k].length
Matches(k) ==
    /\ desc[ring_index(k)] = batch[k].length
    /\ transmit_buffer[ring_index(k)] = batch[k]

(***************************************************************************)
(* The commit clip.  At a mismatch it stops comparing, and if that leaves  *)
(* messages in the duct, duct_receive_commit restarts the clip before it   *)
(* hands over anything at all.                                             *)
(***************************************************************************)
Cleared == {k \in 1..Len(batch) : \A j \in 1..k : Matches(j)}
Leftover == Len(batch) > Cardinality(Cleared) + 1

virtio_output_queue_commit_clip ==
    /\ turn = "commit" /\ turn' = "device"
    /\ \/ /\ avail_idx' = IF Leftover THEN avail_idx
                          ELSE (avail_idx + Cardinality(Cleared)) % OutputIdxSize
          /\ UNCHANGED <<disturbed, troubles>>
       \/ UNCHANGED avail_idx /\ Strikes
    /\ UNCHANGED <<used_idx, transmit_buffer, desc, batch, sent>>

(* A bit flips in a buffer or a descriptor before it is compared.          *)
Upset ==
    /\ turn = "commit" /\ Strikes
    /\ \E i \in Slots :
          \/ transmit_buffer' = [transmit_buffer EXCEPT ![i] = Nothing] /\ UNCHANGED desc
          \/ desc' = [desc EXCEPT ![i] = 0] /\ UNCHANGED transmit_buffer
    /\ UNCHANGED <<used_idx, avail_idx, turn, batch, sent>>

(* The device sends one buffer.                                            *)
DeviceSends ==
    /\ turn = "device" /\ used_idx # avail_idx
    /\ sent' = Append(sent, transmit_buffer[used_idx % OutputNum])
    /\ used_idx' = (used_idx + 1) % OutputIdxSize
    /\ UNCHANGED <<avail_idx, transmit_buffer, desc, turn, batch, disturbed, troubles>>

NextEpoch ==
    /\ turn = "device" /\ used_idx = avail_idx /\ turn' = "prepare"
    /\ batch' \in Batches /\ sent' = <<>> /\ disturbed' = FALSE
    /\ UNCHANGED <<used_idx, avail_idx, transmit_buffer, desc, troubles>>

Next ==
    \/ virtio_output_queue_prepare_clip \/ virtio_output_queue_commit_clip
    \/ Upset \/ DeviceSends \/ NextEpoch

Spec == Init /\ [][Next]_vars

-----------------------------------------------------------------------------
(* The device sends what the duct held, from its beginning and intact,     *)
(* whatever happened to the prepare clip and to the buffers                *)
(* (virtio_output.c:59-60 and :96).                                        *)
SendsIntended == IsPrefix(sent, batch)

(* In an epoch without trouble it sends all of it.                         *)
SendsAll == [][NextEpoch /\ ~disturbed => sent = batch]_vars
=============================================================================
