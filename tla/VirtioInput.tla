------------------------------ MODULE VirtioInput ------------------------------
(***************************************************************************)
(* A receive queue of the VIRTIO driver, src/fsw/vivid/virtio_input.c with *)
(* VIVID_PREPARE_COMMIT_VIRTIO_DRIVER = 1.                                 *)
(*                                                                         *)
(* The device fills the buffers of the queue at any time.  Once an epoch   *)
(* the prepare clip and the commit clip look, one after the other, at what *)
(* it has used, and each sends it into the duct towards the flight         *)
(* software, where only what both of them sent arrives.  The prepare clip  *)
(* repairs the descriptors, the commit clip gives them back.               *)
(*                                                                         *)
(* Each index is a counter modulo IdxSize, 2^16 in the code.  A byte is    *)
(* its number in the stream.  A clip is one step, cut short or not, since  *)
(* the device adds only behind the index that the clip read.               *)
(***************************************************************************)
EXTENDS Integers, Sequences, SequencesExt

CONSTANTS
    QueueNum,       \* queue_num, a power of two
    IdxSize,        \* the indices wrap here
    MessageSize,    \* bytes of a buffer and of a duct message
    Flow,           \* max_flow of the duct
    MaxBytes,       \* bound: bytes the device receives
    MaxTroubles     \* bound: upsets, cuts and turns not taken

VirtioInputAssumption ==
    /\ QueueNum \in Nat \ {0} /\ IdxSize \in Nat
    /\ IdxSize % QueueNum = 0 /\ IdxSize > QueueNum
    /\ Flow \in 1..QueueNum /\ MessageSize \in Nat \ {0}
    /\ MaxBytes \in Nat /\ MaxTroubles \in Nat

PREPARE == "prepare"    \* REPLICA_PREPARE_ID
COMMIT == "commit"      \* REPLICA_COMMIT_ID
Clips == {PREPARE, COMMIT}
Slots == 0..QueueNum - 1

VARIABLES
    used_idx, avail_idx,
    ring,                   \* ring[i]: the bytes of the last element the device used in slot i
    configured,             \* the slots whose avail->ring entry and descriptor are right
    last_descriptor_count,
    restarting,             \* the clips that start their next turn anew
    turn,                   \* the clip that is next, or "receive"
    row,                    \* row[c]: the messages of this epoch that c committed to the duct
    received,               \* how many bytes the device was sent
    delivered,              \* the messages that came out of the duct
    returned,               \* the bytes given back to the device in this epoch
    disturbed,              \* something went wrong in this epoch or is not made good yet
    troubles

vars == <<used_idx, avail_idx, ring, configured, last_descriptor_count, restarting, turn, row,
          received, delivered, returned, disturbed, troubles>>
ghosts == <<received, delivered>>

Bytes == 1..MaxBytes
Messages == Seq(Seq(Bytes))

TypeOK ==
    /\ used_idx \in 0..IdxSize - 1 /\ avail_idx \in 0..IdxSize - 1
    /\ ring \in [Slots -> Seq(Bytes)] /\ configured \subseteq Slots
    /\ last_descriptor_count \in 0..QueueNum
    /\ restarting \subseteq Clips /\ turn \in Clips \cup {"receive"}
    /\ row \in [Clips -> Messages] /\ delivered \in Messages
    /\ received \in 0..MaxBytes /\ returned \subseteq Bytes
    /\ disturbed \in BOOLEAN /\ troubles \in 0..MaxTroubles

(* The descriptors are zero until the first prepare clip; a clip starts    *)
(* its very first turn as after a restart.                                 *)
Init ==
    /\ used_idx = 0 /\ avail_idx = 0
    /\ ring = [i \in Slots |-> <<>>] /\ configured = {}
    /\ last_descriptor_count = 0
    /\ restarting = Clips /\ turn = PREPARE
    /\ row = [c \in Clips |-> <<>>]
    /\ received = 0 /\ delivered = <<>>
    /\ returned = {} /\ disturbed = TRUE /\ troubles = 0

(* Troubles come one at a time: the next one only once the last is made    *)
(* good.  (Two together can deliver data twice: a commit clip cut late,    *)
(* then a descriptor upset in the turn in which it starts anew.)           *)
Strikes == troubles < MaxTroubles /\ (troubles = 0 \/ ~disturbed) /\ troubles' = troubles + 1

last_used_idx == (avail_idx - QueueNum) % IdxSize
pending == (used_idx - last_used_idx) % IdxSize     \* descriptor_count as first computed

(* The device fills a buffer that is available to it, as far as it likes.  *)
DeviceReceives ==
    /\ used_idx # avail_idx /\ used_idx % QueueNum \in configured
    /\ \E n \in 1..MessageSize :
          /\ received + n <= MaxBytes
          /\ received' = received + n
          /\ ring' = [ring EXCEPT ![used_idx % QueueNum] = [k \in 1..n |-> received + k]]
    /\ used_idx' = (used_idx + 1) % IdxSize
    /\ UNCHANGED <<avail_idx, configured, last_descriptor_count, restarting, turn, row,
                   delivered, returned, disturbed, troubles>>

-----------------------------------------------------------------------------
(***************************************************************************)
(* virtio_input_queue_common_data.  The merge buffer takes one message;    *)
(* once that is full, merge_buffer is NULL, and what is left of the        *)
(* element goes there: the clip traps, or the bytes vanish.                *)
(***************************************************************************)
NoMerge == [merging |-> TRUE, buffer |-> <<>>, sent |-> <<>>, trapped |-> FALSE]

SendAlone(m, elem) ==
    IF Len(m.sent) < Flow THEN [m EXCEPT !.sent = Append(@, elem)] ELSE [m EXCEPT !.trapped = TRUE]

Sent(m) == IF Len(m.sent) < Flow THEN Append(m.sent, m.buffer) ELSE m.sent

Merged(m, elem, traps) ==
    LET room == MessageSize - Len(m.buffer)
        taken == [m EXCEPT !.buffer = @ \o SubSeq(elem, 1, IF Len(elem) < room THEN Len(elem) ELSE room)]
    IN  IF Len(taken.buffer) < MessageSize THEN taken
        ELSE [merging |-> FALSE, buffer |-> <<>>, sent |-> Sent(taken),
              trapped |-> Len(elem) > room /\ traps]

Described(m, elem, traps) ==
    IF m.trapped THEN m
    ELSE IF elem = <<>> THEN [m EXCEPT !.trapped = TRUE]
    ELSE IF m.merging THEN Merged(m, elem, traps) ELSE SendAlone(m, elem)

Collected(count, traps) ==
    LET after[k \in 0..count] ==
            IF k = 0 THEN NoMerge
            ELSE Described(after[k - 1], ring[(last_used_idx + k - 1) % QueueNum], traps)
        last == after[count]
    IN  IF ~last.trapped /\ last.merging /\ last.buffer # <<>> THEN [last EXCEPT !.sent = Sent(last)]
        ELSE last

(***************************************************************************)
(* A turn of clip c that would hand over count descriptors ends here:      *)
(* "done"; cut before it commits to the duct, "early", as every trap is;   *)
(* or cut after that, "late".                                              *)
(***************************************************************************)
Ends == {"done", "early", "late"}

Turn(c, count, end) ==
    \E traps \in BOOLEAN : \E data \in {Collected(count, traps)} :
        /\ data.trapped => end = "early"
        /\ IF end = "done" \/ data.trapped THEN UNCHANGED troubles ELSE Strikes
        /\ row' = [row EXCEPT ![c] = IF end = "early" THEN <<>> ELSE data.sent]
        /\ restarting' = IF end = "done" THEN restarting \ {c} ELSE restarting \cup {c}
        /\ disturbed' = (disturbed \/ c \in restarting \/ end # "done")

(* How many descriptors the prepare clip repairs before its end.           *)
Repaired(end) == IF end = "done" THEN {QueueNum} ELSE 0..QueueNum

virtio_input_queue_prepare_clip ==
    /\ turn = PREPARE /\ turn' = COMMIT
    /\ pending <= QueueNum
    /\ LET descriptor_count == IF PREPARE \in restarting THEN 0 ELSE pending
       IN  \E end \in Ends :
              /\ Turn(PREPARE, descriptor_count, end)
              /\ \/ /\ end # "done"
                    /\ UNCHANGED <<last_descriptor_count, configured>>
                 \/ /\ end # "early"
                    /\ last_descriptor_count' = descriptor_count
                    /\ \E i \in Repaired(end) : configured' = configured \cup 0..i - 1
    /\ UNCHANGED <<used_idx, avail_idx, ring, returned, ghosts>>

all_ok == configured = Slots

(* How many descriptors the commit clip hands over.                        *)
Bug_commit_count == IF ~all_ok THEN 0 ELSE IF pending > last_descriptor_count THEN last_descriptor_count ELSE pending
commit_count ==
    IF COMMIT \in restarting \/ ~all_ok THEN 0
    ELSE IF pending > last_descriptor_count THEN last_descriptor_count ELSE pending

(* The bytes of the descriptors that the clip gives back.                  *)
Used == UNION {ToSet(ring[(last_used_idx + i) % QueueNum]) : i \in 0..pending - 1}

virtio_input_queue_commit_clip ==
    /\ turn = COMMIT /\ turn' = "receive"
    /\ pending <= QueueNum
    /\ \E end \in Ends :
          /\ Turn(COMMIT, commit_count, end)
          /\ \/ /\ all_ok /\ end # "early"
                /\ avail_idx' = (used_idx + QueueNum) % IdxSize /\ returned' = Used
             \/ /\ all_ok => end # "done"
                /\ UNCHANGED <<avail_idx, returned>>
          /\ \/ last_descriptor_count' = IF pending > last_descriptor_count THEN 0 ELSE last_descriptor_count
             \/ end = "early" /\ UNCHANGED last_descriptor_count
    /\ UNCHANGED <<used_idx, ring, configured, ghosts>>

(* A clip that waits for the scrubber misses a turn.                       *)
SkipTurn ==
    /\ turn \in restarting /\ troubles < MaxTroubles /\ troubles' = troubles + 1
    /\ turn' = IF turn = PREPARE THEN COMMIT ELSE "receive"
    /\ disturbed' = TRUE
    /\ UNCHANGED <<used_idx, avail_idx, ring, configured, last_descriptor_count, restarting, row,
                   returned, ghosts>>

-----------------------------------------------------------------------------
(* The duct: a message arrives if both clips sent it at the same place.    *)
Agreed ==
    LET same == {n \in 0..Len(row[PREPARE]) : n <= Len(row[COMMIT])
                    /\ SubSeq(row[PREPARE], 1, n) = SubSeq(row[COMMIT], 1, n)}
    IN  SubSeq(row[PREPARE], 1, CHOOSE n \in same : \A k \in same : k <= n)

(* The other end of the duct takes what arrives, and the epoch ends.       *)
Receive ==
    /\ turn = "receive" /\ turn' = PREPARE
    /\ delivered' = delivered \o Agreed
    /\ row' = [c \in Clips |-> <<>>]
    /\ returned' = {}
    /\ disturbed' = (restarting # {} \/ configured # Slots)
    /\ UNCHANGED <<used_idx, avail_idx, ring, configured, last_descriptor_count, restarting,
                   received, troubles>>

(* A bit flips in a descriptor or in the count.                            *)
Upset ==
    /\ Strikes
    /\ \/ /\ \E i \in configured : configured' = configured \ {i}
          /\ UNCHANGED last_descriptor_count
       \/ last_descriptor_count' \in 0..QueueNum /\ UNCHANGED configured
    /\ disturbed' = TRUE
    /\ UNCHANGED <<used_idx, avail_idx, ring, restarting, turn, row, returned, ghosts>>

Clip == virtio_input_queue_prepare_clip \/ virtio_input_queue_commit_clip \/ Receive
Next == Clip \/ DeviceReceives \/ SkipTurn \/ Upset

Spec == Init /\ [][Next]_vars
FairSpec == Spec /\ WF_vars(Clip)

-----------------------------------------------------------------------------
(***************************************************************************)
(* What comes out of the duct is the stream of the device with gaps at the *)
(* most: no byte twice, none out of order, and no gap inside a message     *)
(* (a restarted clip does not know whether its last turn reached the duct, *)
(* virtio_input.c:87-89 and :127-129).                                     *)
(***************************************************************************)
InOrder ==
    LET stream == FlattenSeq(delivered)
    IN  /\ \A i, j \in DOMAIN stream : i < j => stream[i] < stream[j]
        /\ \A k \in DOMAIN delivered : \A i \in DOMAIN delivered[k] :
              delivered[k][i] = delivered[k][1] + i - 1

(***************************************************************************)
(* In an epoch in which nothing goes wrong the two clips hand over the     *)
(* same: all that the prepare clip sent comes out of the duct, though the  *)
(* device may have used more buffers when the commit clip looks            *)
(* (virtio_input.c:121-122).                                               *)
(***************************************************************************)
HandsOver == [][Receive /\ ~disturbed => delivered' = delivered \o row[PREPARE]]_vars

(***************************************************************************)
(* What the clips give back to the device they have handed over, if        *)
(* nothing goes wrong.  The code does not keep to it: the commit clip cuts *)
(* its count down to what the prepare clip has seen, "so that [...] we     *)
(* don't try to advance" (virtio_input.c:121-124), and then advances past  *)
(* all that it sees itself (:175-177).                                     *)
(***************************************************************************)
NothingLost == [][Receive /\ ~disturbed => returned \subseteq ToSet(FlattenSeq(delivered'))]_vars

(***************************************************************************)
(* The queue never stays stuck: the clips come to give back every buffer   *)
(* that the device has used, whatever they trapped on in between           *)
(* (virtio_input.c:88 and :179, the descriptors repaired at :101-110).     *)
(***************************************************************************)
Returns == []<>(avail_idx = (used_idx + QueueNum) % IdxSize)
=============================================================================
