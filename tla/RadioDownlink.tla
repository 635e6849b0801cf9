---------------------------- MODULE RadioDownlink ----------------------------
(***************************************************************************)
(* The downlink of the radio: the replicas of the clip of                  *)
(* src/fsw/flight/radio_down.c, which take messages from the downlink pipe *)
(* and have the radio transmit them one at a time, against the transmitter *)
(* of src/sim/telecomm/radio/radio.go.  The state of the clip is in its    *)
(* voted notepad, but the message it holds is local to each replica.       *)
(*                                                                         *)
(* Messages are numbered in the order in which the pipe carries them; a    *)
(* byte on the air is the message it belongs to and its place in it.       *)
(***************************************************************************)
EXTENDS Integers, Sequences, FiniteSets, Rmap

CONSTANTS
    Replicas,
    MaxMessages,    \* messages the pipe carries
    MaxLength,      \* of a message: DOWNLINK_BUF_LOCAL_SIZE
    MaxLost,        \* commands or replies lost
    MaxLate,        \* epochs in which a reply is late
    MaxUpsets,      \* times the local memory of a replica is damaged
    MaxReboots

ASSUME RadioDownlinkAssumption ==
    /\ IsFiniteSet(Replicas) /\ Cardinality(Replicas) > 2 /\ MaxLength \in Nat \ {0}
    /\ {MaxMessages, MaxLost, MaxLate, MaxUpsets, MaxReboots} \subseteq Nat

VARIABLES
    note,       \* the notepad: [state, length, txn]
    local,      \* for each replica, the message in downlink_buf_local: 0 for none
    wanted,     \* how many messages the pipe may carry in this epoch
    received,   \* messages the pipe has carried
    command,    \* the RMAP command on its way to the radio, or NoPacket
    replies,    \* replies on their way back
    reg,        \* the radio's transmit registers
    mem,        \* the message in the transmit region of its memory
    air,        \* the bytes transmitted
    faults      \* [lost, late, upsets, reboots]: how many there have been

vars == <<note, local, wanted, received, command, replies, reg, mem, air, faults>>

Messages == 1..MaxMessages
Length(message) == 1 + (message % MaxLength)
LocalLength(message) == IF message = 0 THEN 0 ELSE Length(message)

InitialNote == [state |-> "INITIAL_STATE", length |-> 0, txn |-> rmap_synch_reset]

TypeOK ==
    /\ note.state \in {"INITIAL_STATE", "QUERY_COMMON_CONFIG", "DISABLE_TRANSMIT",
                       "WAITING_FOR_STREAM", "WRITE_RADIO_MEMORY", "START_TRANSMIT",
                       "MONITOR_TRANSMIT"}
    /\ note.length \in 0..MaxLength
    /\ note.length > 0 <=>
          note.state \in {"WRITE_RADIO_MEMORY", "START_TRANSMIT", "MONITOR_TRANSMIT"}
    /\ local \in [Replicas -> 0..received] /\ wanted \in {0, 1}
    /\ Len(replies) <= MaxLate + 1
    /\ reg.PTR + reg.LEN <= MaxLength /\ reg.TX_STATE \in {"IDLE", "ACTIVE"}
    /\ mem \in 0..received

Init ==
    /\ note = InitialNote /\ local = [r \in Replicas |-> 0]
    /\ wanted = 0 /\ received = 0
    /\ command = NoPacket /\ replies = <<>>
    /\ reg = [PTR |-> 0, LEN |-> 0, TX_STATE |-> "IDLE"] /\ mem = 0 /\ air = <<>>
    /\ faults = [lost |-> 0, late |-> 0, upsets |-> 0, reboots |-> 0]

-----------------------------------------------------------------------------
(* radio_downlink_clip in one replica, in the order of the code: the reply *)
(* to an earlier command, the pipe, the next command.                      *)

Lane(n, message) == [note |-> n, local |-> message]
In(n, state) == [n EXCEPT !.state = state]

Bug_Await(status, n, next) == IF status # "NO_RESPONSE" \/ n.state = "START_TRANSMIT" THEN In(n, next) ELSE n
Await(status, n, next) == IF status = "OK" THEN In(n, next) ELSE n

Monitored(packet, n) ==
    IF rmap_read_complete(packet, n.txn, 2) = "OK"
          /\ packet.data[1] = 0 /\ packet.data[2] = "IDLE"
    THEN [n EXCEPT !.state = "WAITING_FOR_STREAM", !.length = 0] ELSE n

Bug_Started(status, n, message) == Lane(Await(status, n, "MONITOR_TRANSMIT"), message)
Started(status, n, message) == Lane(Await(status, n, "MONITOR_TRANSMIT"), 0)

Completed(n, message, packet) ==
    LET read3   == rmap_read_complete(packet, n.txn, 3)
        written == rmap_write_complete(packet, n.txn)
    IN CASE n.state = "QUERY_COMMON_CONFIG" -> Lane(Await(read3, n, "DISABLE_TRANSMIT"), message)
         [] n.state = "DISABLE_TRANSMIT"    -> Lane(Await(written, n, "WAITING_FOR_STREAM"), 0)
         [] n.state = "WRITE_RADIO_MEMORY"  -> Lane(Await(written, n, "START_TRANSMIT"), message)
         [] n.state = "START_TRANSMIT"      -> Started(written, n, message)
         [] n.state = "MONITOR_TRANSMIT"    -> Lane(Monitored(packet, n), message)
         [] n.state = "INITIAL_STATE"       -> Lane(In(n, "QUERY_COMMON_CONFIG"), message)
         [] OTHER                           -> Lane(n, message)

Accepting(n) == n.state \in {"WAITING_FOR_STREAM", "MONITOR_TRANSMIT"}

(* A message that arrives is taken only when none is held; one that is     *)
(* held is due once the last has been transmitted.                         *)
Streamed(lane, arriving) ==
    LET message == IF Accepting(lane.note) /\ lane.local = 0 THEN arriving ELSE lane.local
    IN IF lane.note.state = "WAITING_FOR_STREAM" /\ message # 0
       THEN Lane([lane.note EXCEPT !.state = "WRITE_RADIO_MEMORY", !.length = Length(message)], message)
       ELSE Lane(lane.note, message)

Request(lane) == IF Accepting(lane.note) /\ lane.local = 0 THEN 1 ELSE 0

(* A replica whose message is not as long as the one voted for starts over.*)
Desynchronized(lane) ==
    lane.note.state = "WRITE_RADIO_MEMORY" /\ lane.note.length # LocalLength(lane.local)
Checked(lane) == IF Desynchronized(lane) THEN Lane(In(lane.note, "INITIAL_STATE"), 0) ELSE lane

NextCommand(lane) ==
    LET n == lane.note IN
    CASE n.state = "QUERY_COMMON_CONFIG" -> rmap_read_start(n.txn, "config", 3)
      [] n.state = "DISABLE_TRANSMIT" ->
            rmap_write_start(n.txn, "registers", [PTR |-> 0, LEN |-> 0, TX_STATE |-> "IDLE"])
      [] n.state = "WRITE_RADIO_MEMORY" -> rmap_write_start(n.txn, "memory", lane.local)
      [] n.state = "START_TRANSMIT" ->
            rmap_write_start(n.txn, "registers", [PTR |-> 0, LEN |-> n.length, TX_STATE |-> "ACTIVE"])
      [] n.state = "MONITOR_TRANSMIT" -> rmap_read_start(n.txn, "registers", 2)
      [] OTHER -> NoPacket

Remembered(n, next) == IF next = NoPacket THEN n ELSE [n EXCEPT !.txn = next.txn]

(* What most replicas agree on.                                            *)
Voted(of, otherwise) ==
    LET majority(value) == 2 * Cardinality({r \in Replicas : of[r] = value}) > Cardinality(Replicas)
        agreed == {of[r] : r \in {s \in Replicas : majority(of[s])}}
    IN IF agreed = {} THEN otherwise ELSE CHOOSE value \in agreed : TRUE

(* One epoch.  The replies that have arrived leave the switch, which keeps *)
(* the first; the pipe may carry a message if one is wanted.               *)
DownlinkClip ==
    /\ command = NoPacket
    /\ \E arrived \in 0..Len(replies), carried \in 0..wanted :
          /\ arrived < Len(replies) => faults.late < MaxLate
          /\ received + carried <= MaxMessages
          /\ \E streamed \in {[r \in Replicas |->
                    Streamed(Completed(note, local[r], IF arrived = 0 THEN NoPacket ELSE Head(replies)),
                             IF carried = 0 THEN 0 ELSE received + 1)]} :
             \E lane \in {[r \in Replicas |-> Checked(streamed[r])]} :
             \E next \in {[r \in Replicas |-> NextCommand(lane[r])]} :
                /\ note' = Voted([r \in Replicas |-> Remembered(lane[r].note, next[r])], InitialNote)
                /\ local' = [r \in Replicas |-> lane[r].local]
                /\ wanted' = Voted([r \in Replicas |-> Request(streamed[r])], 0)
                /\ command' = Voted(next, NoPacket)
          /\ received' = received + carried
          /\ replies' = SubSeq(replies, arrived + 1, Len(replies))
          /\ faults' = [faults EXCEPT !.late = IF arrived < Len(replies) THEN @ + 1 ELSE @]
    /\ UNCHANGED <<reg, mem, air>>

-----------------------------------------------------------------------------
(* The radio.                                                              *)

(* A byte goes out; the transmitter is idle after the last one.            *)
Transmit ==
    /\ reg.TX_STATE = "ACTIVE"
    /\ reg' = [PTR |-> reg.PTR + 1, LEN |-> reg.LEN - 1,
               TX_STATE |-> IF reg.LEN = 1 THEN "IDLE" ELSE "ACTIVE"]
    /\ air' = Append(air, [message |-> mem, place |-> reg.PTR + 1])
    /\ UNCHANGED <<note, local, wanted, received, command, replies, mem, faults>>

Data == IF command.addr = "config" THEN <<0, 0, 0>> ELSE <<reg.LEN, reg.TX_STATE>>

(* The radio handles a command, unless that or its reply is lost.          *)
RadioHandles ==
    /\ command # NoPacket
    /\ command' = NoPacket
    /\ \E lost \in {"no", "command", "reply"} :
          /\ lost # "no" => faults.lost < MaxLost
          /\ faults' = IF lost = "no" THEN faults ELSE [faults EXCEPT !.lost = @ + 1]
          /\ replies' = IF lost # "no" THEN replies
                        ELSE Append(replies, Reply(command, "OK", IF command.op = "read" THEN Data ELSE <<>>))
          /\ LET writes(addr) == lost # "command" /\ command.op = "write" /\ command.addr = addr
             IN /\ reg' = IF writes("registers") THEN command.arg ELSE reg
                /\ mem' = IF writes("memory") THEN command.arg ELSE mem
    /\ UNCHANGED <<note, local, wanted, received, air>>

-----------------------------------------------------------------------------
(* The local memory of a replica is damaged, while the others agree.       *)
Upset ==
    /\ faults.upsets < MaxUpsets
    /\ faults' = [faults EXCEPT !.upsets = @ + 1]
    /\ \E r \in Replicas, message \in 0..received :
          /\ \A s, t \in Replicas : local[s] = local[t]
          /\ message # local[r]
          /\ local' = [local EXCEPT ![r] = message]
    /\ UNCHANGED <<note, wanted, received, command, replies, reg, mem, air>>

(* The flight computer starts again; the radio knows nothing of it.        *)
Reboot ==
    /\ faults.reboots < MaxReboots
    /\ faults' = [faults EXCEPT !.reboots = @ + 1]
    /\ note' = InitialNote /\ local' = [r \in Replicas |-> 0] /\ wanted' = 0
    /\ command' = NoPacket /\ replies' = <<>>
    /\ UNCHANGED <<received, reg, mem, air>>

Next == DownlinkClip \/ RadioHandles \/ Transmit \/ Upset \/ Reboot

Spec == Init /\ [][Next]_vars

(* Partitions run in every epoch, the radio answers what reaches it, and   *)
(* it transmits at its own pace.                                           *)
FairSpec == Spec /\ WF_vars(DownlinkClip) /\ WF_vars(RadioHandles) /\ WF_vars(Transmit)

-----------------------------------------------------------------------------
(* What the downlink is for.                                               *)

Last(byte) == byte.place = Length(byte.message)

(* What is on the air are the messages of the pipe, whole and in order: a  *)
(* message is followed by the next only at its end, and starts again from  *)
(* its first byte if its start had to be asked for twice.  After a reboot  *)
(* messages may be cut or missing.                                         *)
Framed ==
    /\ TypeOK
    /\ air # <<>> => air[1].place = 1
    /\ \A i \in 2..Len(air) :
          LET before == air[i - 1]
              byte   == air[i]
          IN \/ byte.message = before.message /\ byte.place = before.place + 1
             \/ byte.place = 1 /\ byte.message = before.message /\ faults.lost + faults.late > 0
             \/ byte.place = 1 /\ byte.message = before.message + 1 /\ Last(before)
             \/ byte.place = 1 /\ byte.message > before.message /\ faults.reboots > 0

(* The memory of the transmitter is never written while it transmits.      *)
MemoryStable == [][mem' # mem => reg.TX_STATE = "IDLE"]_vars

(* A message the pipe has carried is transmitted to its end, damage to one *)
(* replica and lost or late replies notwithstanding, unless the flight     *)
(* computer starts again.                                                  *)
Sent(message) == \E i \in DOMAIN air : air[i].message = message /\ Last(air[i])
Transmitted ==
    \A message \in Messages :
        received >= message ~> Sent(message) \/ faults.reboots > 0
=============================================================================
