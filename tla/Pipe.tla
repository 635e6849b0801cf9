-------------------------------- MODULE Pipe --------------------------------
(***************************************************************************)
(* The replication-safe pipe of src/fsw/synch/pipe.c with the buffers of   *)
(* src/fsw/synch/pipebuf.c at both ends: a duct for data, a duct back for  *)
(* pressure, and no other channel between the two sides.                   *)
(*                                                                         *)
(* Polarity is PIPE_SENDER_FIRST: in each scheduling epoch the sender runs *)
(* and then the receiver replicas, so the sender acts on what the          *)
(* receivers requested in the epoch before.  The ducts are those of Duct,  *)
(* at the level of what they promise: a receiver is handed this epoch's    *)
(* batch, or nothing if the sender missed its turn; the pressure message   *)
(* is the one a majority of the receiver replicas sent.                    *)
(*                                                                         *)
(* The sender is one logical replica.  Its bytes are numbered as they      *)
(* enter the stream, modulo Bytes, so that a byte that is lost, repeated   *)
(* or overwritten shows.                                                   *)
(***************************************************************************)
EXTENDS Integers, FiniteSets, SequencesExt

CONSTANTS
    NumReceivers,       \* receiver replicas
    MaxFlow,            \* messages per epoch
    MsgSize,            \* bytes in a message, at most
    SendCapacity,       \* scratch_capacity of the pipe_sender_t
    Capacity,           \* scratch_capacity of the pipe_receiver_t
    Bytes,              \* modulus of the byte numbers
    Demand,             \* bytes the consumer may ask for in one epoch
    MaxFaulty,          \* receiver replicas cut short or still out of step at once
    SenderFails,        \* whether the sender's clip may be cut short
    Patience            \* turns in a row in which the sender may have to hold its data

ASSUME PipeAssumption ==
    /\ NumReceivers \in Nat \ {0} /\ MaxFlow \in Nat \ {0}
    /\ MsgSize \in Nat \ {0} /\ SendCapacity \in Nat /\ Bytes \in Nat \ {0}
    /\ Capacity \in Nat /\ 2 * MsgSize <= Capacity    \* asserted by pipe_receiver_request_count
    /\ Bytes > SendCapacity + Capacity
    /\ Demand \subseteq Nat
    /\ MaxFaulty \in Nat /\ SenderFails \in BOOLEAN /\ Patience \in Nat

Receivers == 0..NumReceivers - 1
Byte == 0..Bytes - 1
Missing == -1                       \* no pressure message from this replica
SenderTurn == -1                    \* before the turns of the receivers
Lesser(a, b) == IF a <= b THEN a ELSE b

VARIABLES
    send_scratch,       \* the sender's scratch[0..scratch_offset-1]
    scratch,            \* scratch[r]: the receiver's buffer
    scratch_avail,      \* scratch_avail[r]
    scratch_offset,     \* scratch_offset[r]
    last_requested,     \* last_requested[r]
    dataflow,           \* the batch in the data duct in this epoch
    pressure,           \* pressure[r]: allowed_flow announced by replica r
    turn,               \* SenderTurn, a receiver, or NumReceivers between epochs
    step,               \* where the running clip is
    available,          \* pipe_txn.available of the running receiver
    taken,              \* messages its transaction has received
    demand,             \* what the consumer does this epoch: bytes, bytes held back
    faulty,             \* receiver replicas cut short in this epoch
    lagging,            \* those that had not caught up when it began
    stalled,            \* turns in a row the sender had data and sent none, up to Patience
    sent,               \* number of the next byte to enter the data duct
    consumed            \* consumed[r]: number of the next byte r should read

sender   == <<send_scratch>>
receiver == <<scratch, scratch_avail, scratch_offset, last_requested>>
ducts    == <<dataflow, pressure>>
clip     == <<turn, step, available, taken>>
vars == <<sender, receiver, ducts, clip, demand, faulty, lagging, stalled, sent, consumed>>

TypeOK ==
    /\ send_scratch \in Seq(Byte) /\ Len(send_scratch) <= SendCapacity
    /\ scratch \in [Receivers -> [0..Capacity - 1 -> Byte]]
    /\ \A r \in Receivers : 0 <= scratch_offset[r] /\ scratch_offset[r] <= scratch_avail[r]
                            /\ scratch_avail[r] <= Capacity
    /\ last_requested \in [Receivers -> 0..MaxFlow]
    /\ Len(dataflow) <= MaxFlow
    /\ \A i \in 1..Len(dataflow) : Len(dataflow[i]) \in 1..MsgSize
    /\ pressure \in [Receivers -> {Missing} \cup 0..MaxFlow]
    /\ turn \in SenderTurn..NumReceivers
    /\ step \in {"start", "prepared", "consumed"}
    /\ available \in 0..MaxFlow /\ taken \in 0..MaxFlow
    /\ faulty \subseteq Receivers /\ lagging \subseteq Receivers
    /\ stalled \in 0..Patience
    /\ sent \in Byte /\ consumed \in [Receivers -> Byte]

Blank == [i \in 0..Capacity - 1 |-> 0]

(* What a consumer may do in an epoch: the bytes it asks for, and how many *)
(* of those there are it holds back.                                       *)
Demands == {d \in Demand \X {0, 1} : d[1] = 0 => d[2] = 0}

Init ==
    /\ send_scratch = <<>>
    /\ scratch = [r \in Receivers |-> Blank]
    /\ scratch_avail = [r \in Receivers |-> 0]
    /\ scratch_offset = [r \in Receivers |-> 0]
    /\ last_requested = [r \in Receivers |-> 0]
    /\ dataflow = <<>>
    /\ pressure = [r \in Receivers |-> Missing]
    /\ turn = SenderTurn /\ step = "start" /\ available = 0 /\ taken = 0
    /\ demand \in Demands
    /\ faulty = {} /\ lagging = {} /\ stalled = 0
    /\ sent = 0
    /\ consumed = [r \in Receivers |-> 0]

EndTurn == turn' = turn + 1 /\ step' = "start" /\ available' = 0 /\ taken' = 0

fill_level(r) == scratch_avail[r] - scratch_offset[r]

(* A receiver that was restarted holds less than the others until they     *)
(* have drained their buffers.                                             *)
Behind(r) == \E q \in Receivers : fill_level(q) > fill_level(r)

NewEpoch ==
    /\ turn = NumReceivers
    /\ turn' = SenderTurn
    /\ demand' \in Demands
    /\ faulty' = {}
    /\ lagging' = {r \in Receivers : Behind(r)}
    /\ UNCHANGED <<sender, receiver, ducts, step, available, taken, stalled, sent, consumed>>

-----------------------------------------------------------------------------
(* The sender.                                                             *)

pipe_sender_write_byte ==
    /\ turn = SenderTurn
    /\ Len(send_scratch) < SendCapacity
    /\ send_scratch' = Append(send_scratch, (sent + Len(send_scratch)) % Bytes)
    /\ UNCHANGED <<receiver, ducts, clip, demand, faulty, lagging, stalled, sent, consumed>>

(* pipe_send_prepare: the flow a majority of the receivers agreed on.      *)
Requesting(f) == {r \in Receivers : pressure[r] = f}
allowed_flow ==
    LET agreed == {f \in 0..MaxFlow : Cardinality(Requesting(f)) >= NumReceivers \div 2 + 1}
    IN IF agreed = {} THEN 0 ELSE CHOOSE f \in agreed : TRUE

(* The k-th message cut from the front of the scratch buffer.              *)
Chunk(k) == SubSeq(send_scratch, (k - 1) * MsgSize + 1,
                   Lesser(k * MsgSize, Len(send_scratch)))

pipe_sender_commit ==
    /\ turn = SenderTurn
    /\ LET full == (Len(send_scratch) + MsgSize - 1) \div MsgSize
           n    == Lesser(allowed_flow, full)
           gone == Lesser(n * MsgSize, Len(send_scratch))
       IN /\ dataflow' = [k \in 1..n |-> Chunk(k)]
          /\ send_scratch' = SubSeq(send_scratch, gone + 1, Len(send_scratch))
          /\ sent' = (sent + gone) % Bytes
          /\ stalled' = IF n = 0 /\ send_scratch # <<>> THEN Lesser(stalled + 1, Patience)
                                                        ELSE 0
    /\ pressure' = [r \in Receivers |-> Missing]
    /\ EndTurn
    /\ UNCHANGED <<receiver, demand, faulty, lagging, consumed>>

(* The sender's clip is cut short: nothing is sent, and its restart resets *)
(* the buffer (pipe_sender_reset).  The pressure may have been received.   *)
(* Not in the turn after a batch that a receiver left in the duct, cut     *)
(* before it marked it as consumed (duct.c:274-278): that receiver would   *)
(* be handed the same batch once more.                                     *)
SenderCut ==
    /\ turn = SenderTurn /\ SenderFails
    /\ dataflow = <<>> \/ \A r \in Receivers : pressure[r] # Missing
    /\ send_scratch' = <<>>
    /\ dataflow' = <<>>
    /\ \/ pressure' = [r \in Receivers |-> Missing]
       \/ UNCHANGED pressure
    /\ EndTurn
    /\ UNCHANGED <<receiver, demand, faulty, lagging, stalled, sent, consumed>>

-----------------------------------------------------------------------------
(* A receiver.                                                             *)

Bug_stingy_request(r) == Lesser((Capacity - fill_level(r)) \div (2 * MsgSize), MaxFlow)
pipe_receiver_request_count(r) ==
    Lesser((Capacity - fill_level(r)) \div MsgSize, MaxFlow)

must_relocate(r, refills) ==
    /\ scratch_offset[r] > 0
    /\ scratch_avail[r] + MsgSize * refills > Capacity

(* memmove of the unread bytes to the start of the buffer.                 *)
Bug_Relocated(r) == scratch[r]
Relocated(r) ==
    [i \in 0..Capacity - 1 |->
        IF i < fill_level(r) THEN scratch[r][scratch_offset[r] + i] ELSE scratch[r][i]]

(* The first n messages of the batch, one after another.                   *)
Incoming(n) == FlattenSeq(SubSeq(dataflow, 1, n))

pipe_receiver_prepare(r) ==
    /\ turn = r /\ step = "start"
    /\ LET refills == pipe_receiver_request_count(r)
           n       == Lesser(refills, Len(dataflow))
           moved   == refills > 0 /\ must_relocate(r, refills)
           base    == IF moved THEN fill_level(r) ELSE scratch_avail[r]
       IN \E data \in {Incoming(n)}, buffer \in {IF moved THEN Relocated(r) ELSE scratch[r]} :
          /\ scratch' = [scratch EXCEPT ![r] =
                            [i \in 0..Capacity - 1 |->
                                IF i \in base..base + Len(data) - 1
                                THEN data[i - base + 1] ELSE buffer[i]]]
          /\ scratch_avail' = [scratch_avail EXCEPT ![r] = base + Len(data)]
          /\ scratch_offset' = [scratch_offset EXCEPT ![r] = IF moved THEN 0 ELSE @]
          /\ taken' = n
          /\ available' = last_requested[r] - Lesser(n, last_requested[r])
    /\ step' = "prepared"
    /\ UNCHANGED <<sender, ducts, last_requested, turn, demand, faulty, lagging, stalled, sent, consumed>>

(* The consumer reads some bytes, all or all but one of those there are:   *)
(* the packet decoder leaves a lone escape byte where it is.               *)
Reading(r) == Lesser(demand[1], IF fill_level(r) > demand[2]
                                THEN fill_level(r) - demand[2] ELSE 0)

pipe_receiver_read_byte(r) ==
    /\ turn = r /\ step = "prepared"
    /\ scratch_offset' = [scratch_offset EXCEPT ![r] = @ + Reading(r)]
    /\ consumed' = [consumed EXCEPT ![r] = (@ + Reading(r)) % Bytes]
    /\ step' = "consumed"
    /\ UNCHANGED <<sender, scratch, scratch_avail, last_requested, ducts, turn,
                   available, taken, demand, faulty, lagging, stalled, sent>>

(* pipe_receive_commit aborts the system on this; messages that come in    *)
(* excess of what was requested are dropped.                               *)
Unprocessed == taken < Len(dataflow) /\ available > 0

requested(r) == pipe_receiver_request_count(r)

pipe_receiver_commit(r) ==
    /\ turn = r /\ step = "consumed"
    /\ ~Unprocessed
    /\ last_requested' = [last_requested EXCEPT ![r] = requested(r)]
    /\ pressure' = [pressure EXCEPT ![r] = requested(r)]
    /\ EndTurn
    /\ UNCHANGED <<sender, scratch, scratch_avail, scratch_offset, dataflow, demand,
                   faulty, lagging, stalled, sent, consumed>>

(* A receiver's clip is cut short before its commit; its restart resets    *)
(* the buffer (pipe_receiver_reset), so it next reads what is sent next.   *)
ReceiverCut(r) ==
    /\ turn = r
    /\ Cardinality(faulty \cup lagging \cup {r}) <= MaxFaulty
    /\ faulty' = faulty \cup {r}
    /\ scratch_avail' = [scratch_avail EXCEPT ![r] = 0]
    /\ scratch_offset' = [scratch_offset EXCEPT ![r] = 0]
    /\ consumed' = [consumed EXCEPT ![r] = sent]
    /\ EndTurn
    /\ UNCHANGED <<sender, scratch, last_requested, ducts, demand, lagging, stalled, sent>>

Next ==
    \/ NewEpoch
    \/ pipe_sender_write_byte \/ pipe_sender_commit \/ SenderCut
    \/ \E r \in Receivers :
          \/ pipe_receiver_prepare(r) \/ pipe_receiver_read_byte(r)
          \/ pipe_receiver_commit(r) \/ ReceiverCut(r)

Spec == Init /\ [][Next]_vars

-----------------------------------------------------------------------------
(* What a pipe is for.                                                     *)

(* The unread bytes of a receiver are the next bytes of the stream, in     *)
(* order and without a gap, through every relocation of the buffer, every  *)
(* restart of a minority of the receivers and every turn the sender misses.*)
Contiguous ==
    \A r \in Receivers : \A i \in 0..fill_level(r) - 1 :
        scratch[r][scratch_offset[r] + i] = (consumed[r] + i) % Bytes

(* Between epochs every byte sent has been taken by every receiver: the    *)
(* flow a majority requested never exceeds the room another receiver has.  *)
NothingDropped ==
    turn = NumReceivers => \A r \in Receivers :
        (consumed[r] + fill_level(r)) % Bytes = sent

(* pipe_receive_commit never finds messages it requested but its caller    *)
(* did not take: its abortf, which stops the whole system, is unreachable. *)
NeverAborts == step = "consumed" => ~Unprocessed

(* The assertion of pipe_receiver_prepare's loop: the requested messages   *)
(* fit behind what is already in the buffer.                               *)
Fits ==
    turn \in Receivers /\ step = "start" =>
        LET refills == pipe_receiver_request_count(turn)
        IN refills > 0 =>
            (IF must_relocate(turn, refills) THEN fill_level(turn) ELSE scratch_avail[turn])
                + MsgSize * refills <= Capacity

(* Data in the sender's buffer moves on within Patience turns, although    *)
(* the consumer reads little and holds a byte back: the pipe never stalls  *)
(* on a message consumed in part, which is what twice the message size is  *)
(* asserted for.                                                           *)
Flows == stalled < Patience
=============================================================================
