--------------------------- MODULE GroundReceiver ---------------------------
(***************************************************************************)
(* The last part of the way of telemetry: the transmitter of the radio     *)
(* (src/sim/telecomm/radio/radio.go) puts messages into the schedule of    *)
(* the bytes on the air, and the receiver on the ground (src/sim/telecomm/ *)
(* transport/coder.go, packet.go) looks for packets in that schedule,      *)
(* takes each when its last byte has arrived, and tosses what belongs to   *)
(* none.  The packets of a stream are cut into messages anywhere.          *)
(*                                                                         *)
(* The flight software does what RadioDownlink says: it writes a message   *)
(* into the memory of the radio, starts it, perhaps twice because a reply  *)
(* is lost, and waits for its end.  A restart disables the transmitter.    *)
(***************************************************************************)
EXTENDS ByteSchedule

CONSTANTS
    Streams,        \* sequences of packets that may be sent, each a sequence of bytes
    MinPacket,      \* bytes of a header and a CRC: 20
    MaxMessage,     \* bytes in a message
    MaxTroubles     \* replies lost, and restarts of the flight software

Escape    == 255
EscEscape == 17
EscSOP    == 34
EscEOP    == 51
TimeNever == -1

GroundReceiverAssumption ==
    /\ ByteScheduleAssumption
    /\ Streams \subseteq Seq(Seq(0..255))
    /\ \A stream \in Streams : \A i \in DOMAIN stream : Len(stream[i]) >= MinPacket
    /\ {MinPacket, MaxMessage, MaxTroubles} \subseteq Nat

VARIABLES
    packets,    \* the packets sent, one of Streams
    next,       \* the bytes of the stream that have been put into messages
    downlink,   \* the state of the flight software: "WRITE", "START" or "MONITOR"
    message,    \* the transmit region of the radio's memory
    reg,        \* the radio's transmit registers
    now,
    schedule,   \* the bytes on the air that the receiver has not taken
    update,     \* TRUE if the receiver is due to hear of a change in the schedule
    timer,      \* when the timer of the receiver fires, or TimeNever
    taken,      \* the bytes that it has taken
    heard,      \* [packet, upto]: the packets it called back, and where their bytes end
    errors,     \* errors it reported
    panic,
    troubles

vars == <<packets, next, downlink, message, reg, now, schedule, update, timer, taken, heard, errors,
          panic, troubles>>

-----------------------------------------------------------------------------
(* Packets.                                                                *)

encodeEscapes(region) ==
    FlattenSeq([i \in DOMAIN region |->
                   IF region[i] = Escape THEN <<Escape, EscEscape>> ELSE <<region[i]>>])
Encode(packet) == <<Escape, EscSOP>> \o encodeEscapes(packet) \o <<Escape, EscEOP>>
Encoded(list) == FlattenSeq([i \in DOMAIN list |-> Encode(list[i])])

escapesIntact(region) ==
    /\ region # <<>> => Last(region) # Escape
    /\ \A i \in 1..Len(region) - 1 : region[i] = Escape => region[i + 1] = EscEscape

(* The bytes but for those that an escape precedes.                        *)
decodeEscapes(region) ==
    LET kept == {i \in DOMAIN region : i > 1 => region[i - 1] # Escape}
        ordered == SetToSortSeq(kept, <)
    IN [i \in DOMAIN ordered |-> region[ordered[i]]]

(* bytes.Index of an escape followed by b: -1 if there is none.            *)
Index(stream, b) ==
    LET at == {i \in 1..Len(stream) - 1 : stream[i] = Escape /\ stream[i + 1] = b}
    IN IF at = {} THEN -1 ELSE Min(at) - 1

(* The result of DecodeCommPacket: the packet, as a sequence of one, how   *)
(* many bytes are used, how many of them count as errors; and whether the  *)
(* slice stream[2:eop] is out of bounds.                                   *)
Found(packet, used, wrong) == [packet |-> packet, used |-> used, errors |-> wrong, panic |-> FALSE]

DecodeCommPacket(stream) ==
    LET sop    == Index(stream, EscSOP)
        eop    == Index(stream, EscEOP)
        region == SubSeq(stream, 3, eop)
    IN IF Len(stream) < 2 THEN Found(<<>>, 0, 0)
       ELSE IF sop = -1 THEN Found(<<>>, Len(stream) - 1, Len(stream) - 1)
       ELSE IF eop = -1 THEN Found(<<>>, sop, sop)
       ELSE IF eop < 2 THEN [Found(<<>>, 0, 0) EXCEPT !.panic = TRUE]
       ELSE IF escapesIntact(region) /\ Len(decodeEscapes(region)) >= MinPacket
       THEN Found(<<decodeEscapes(region)>>, eop + 2, sop)
       ELSE Found(<<>>, eop + 2, eop + 2)

-----------------------------------------------------------------------------
(* The receiver: r is its part of the state.                               *)

Receiver == [schedule |-> schedule, timer |-> timer, taken |-> taken, heard |-> heard,
             errors |-> errors, panic |-> panic]

Consume(r, n) == [r EXCEPT !.schedule = SubSeq(@, n + 1, Len(@)),
                           !.taken = @ \o Bytes(SubSeq(r.schedule, 1, n))]

(* The rest of recomputeReception, when its timer has been cancelled.      *)
RECURSIVE recomputeReception(_)
recomputeReception(r) ==
    LET found     == DecodeCommPacket(Bytes(r.schedule))
        receiveAt == r.schedule[found.used].EndTime
        available == Len(ReceivedAt(r.schedule, now))
    IN IF found.panic THEN [r EXCEPT !.panic = TRUE]
       ELSE IF found.used = 0 THEN r
       ELSE IF found.packet = <<>>
       THEN IF available > found.used THEN [r EXCEPT !.panic = TRUE]
            ELSE [Consume(r, available) EXCEPT !.errors = @ + available, !.timer = receiveAt]
       ELSE IF now < receiveAt THEN [r EXCEPT !.timer = receiveAt]
       ELSE IF Len(ReceivedAt(r.schedule, receiveAt)) # found.used THEN [r EXCEPT !.panic = TRUE]
       ELSE recomputeReception(
              [Consume(r, found.used) EXCEPT
                 !.heard = Append(@, [packet |-> found.packet[1],
                                      upto   |-> Len(r.taken) + found.used]),
                 !.errors = @ + found.errors])

Recompute ==
    \E r \in {recomputeReception([Receiver EXCEPT !.timer = TimeNever])} :
        /\ schedule' = r.schedule /\ timer' = r.timer /\ taken' = r.taken
        /\ heard' = r.heard /\ errors' = r.errors /\ panic' = r.panic

Bug_TimerDue == timer # TimeNever /\ timer < now
TimerDue == timer # TimeNever /\ timer <= now

Dispatch ==
    /\ ~panic /\ update
    /\ update' = FALSE /\ Recompute
    /\ UNCHANGED <<packets, next, downlink, message, reg, now, troubles>>

Finalize ==
    /\ ~panic /\ TimerDue
    /\ Recompute
    /\ UNCHANGED <<packets, next, downlink, message, reg, now, update, troubles>>

(* Time passes when no event is due.                                       *)
Advance ==
    /\ ~panic /\ ~update /\ ~TimerDue
    /\ LastEndTime(schedule, now) > now
    /\ now' = now + 1
    /\ UNCHANGED <<packets, next, downlink, message, reg, schedule, update, timer, taken, heard,
                   errors, panic, troubles>>

-----------------------------------------------------------------------------
(* The radio.                                                              *)

(* The transmit half of updateTelecommSimulation, before every access.     *)
Updated ==
    LET remaining == CountTxBytesRemaining(schedule, now)
        left      == Min({reg.LEN, remaining})
    IN IF reg.TX_STATE = "IDLE" THEN reg
       ELSE [PTR |-> reg.PTR + reg.LEN - left, LEN |-> left,
             TX_STATE |-> IF remaining = 0 THEN "IDLE" ELSE "ACTIVE"]

CurrentTxStart == IF Updated.TX_STATE = "ACTIVE" THEN RemainingStartAt(schedule, now) ELSE now

reviseTransmission(bytes) ==
    /\ schedule' = UpdateTransmission(schedule, now, CurrentTxStart, bytes)
    /\ update' = TRUE

Receiving == <<timer, taken, heard, errors, panic>>

(* The flight software writes the next bytes of the stream into the memory *)
(* of the radio, whose transmitter it found idle.                          *)
WriteMemory ==
    /\ ~panic /\ downlink = "WRITE" /\ downlink' = "START"
    /\ \E n \in 1..Min({MaxMessage, Len(Encoded(packets)) - next}) :
          /\ message' = SubSeq(Encoded(packets), next + 1, next + n)
          /\ next' = next + n
    /\ reg' = Updated
    /\ UNCHANGED <<packets, now, schedule, update, troubles, Receiving>>

(* It starts the transmitter, or starts it again if the reply was lost.    *)
StartTransmit ==
    /\ ~panic /\ downlink = "START"
    /\ reg' = [PTR |-> 0, LEN |-> Len(message), TX_STATE |-> "ACTIVE"]
    /\ reviseTransmission(message)
    /\ \/ downlink' = "MONITOR" /\ UNCHANGED troubles
       \/ /\ troubles < MaxTroubles /\ troubles' = troubles + 1
          /\ UNCHANGED downlink
    /\ UNCHANGED <<packets, next, message, now, Receiving>>

MonitorTransmit ==
    /\ ~panic /\ downlink = "MONITOR"
    /\ reg' = Updated
    /\ downlink' = IF Updated.LEN = 0 /\ Updated.TX_STATE = "IDLE" THEN "WRITE" ELSE downlink
    /\ UNCHANGED <<packets, next, message, now, schedule, update, troubles, Receiving>>

(* It starts again and disables the transmitter: what was not transmitted  *)
(* is lost.  If its encoder starts again too, a packet begins.             *)
Beginnings == {Len(Encoded(SubSeq(packets, 1, k))) : k \in 0..Len(packets)}

DisableTransmit ==
    /\ ~panic
    /\ troubles < MaxTroubles /\ troubles' = troubles + 1
    /\ downlink' = "WRITE"
    /\ reg' = [PTR |-> 0, LEN |-> 0, TX_STATE |-> "IDLE"]
    /\ IF Updated.TX_STATE = "ACTIVE" THEN reviseTransmission(<<>>) ELSE UNCHANGED <<schedule, update>>
    /\ next' \in {next} \cup {b \in Beginnings : b > next}
    /\ UNCHANGED <<packets, message, now, Receiving>>

-----------------------------------------------------------------------------
Init ==
    /\ packets \in Streams
    /\ next = 0 /\ downlink = "WRITE" /\ message = <<>>
    /\ reg = [PTR |-> 0, LEN |-> 0, TX_STATE |-> "IDLE"]
    /\ now = 0 /\ schedule = <<>> /\ update = TRUE /\ timer = TimeNever
    /\ taken = <<>> /\ heard = <<>> /\ errors = 0 /\ panic = FALSE
    /\ troubles = 0

Next ==
    \/ Dispatch \/ Finalize \/ Advance
    \/ WriteMemory \/ StartTransmit \/ MonitorTransmit \/ DisableTransmit

Spec == Init /\ [][Next]_vars

-----------------------------------------------------------------------------
TypeOK ==
    /\ next \in 0..Len(Encoded(packets)) /\ downlink \in {"WRITE", "START", "MONITOR"}
    /\ InSequence(schedule)
    /\ reg.PTR + reg.LEN <= Len(message) \/ reg.LEN = 0
    /\ update \/ timer = TimeNever \/ timer <= LastEndTime(schedule, now)

(* The bytes that have arrived, those that the receiver has not taken      *)
(* included.                                                               *)
Arrived == taken \o Bytes(ReceivedAt(schedule, now))
Quiet == ~update /\ ~TimerDue

(* Everything is sent, and nothing is due any more.                        *)
Ended == panic \/ (next = Len(Encoded(packets)) /\ downlink = "WRITE" /\ LastEndTime(schedule, now) <= now /\ Quiet)

EndsAt(packet, n) ==
    LET bytes == Encode(packet)
    IN n >= Len(bytes) /\ SubSeq(Arrived, n - Len(bytes) + 1, n) = bytes

(* Without trouble each packet is called back once, in order, and as soon  *)
(* as its last byte has arrived; nothing is an error.                      *)
HearsAll ==
    troubles = 0 =>
        /\ ~panic /\ errors = 0
        /\ Quiet => LET whole == {k \in 0..Len(packets) : Len(Encoded(SubSeq(packets, 1, k))) <= Len(Arrived)}
                    IN [i \in DOMAIN heard |-> heard[i].packet] = SubSeq(packets, 1, Max(whole))

(* Whatever happens, a packet with the contents of one that was sent was   *)
(* on the air, and no byte of it is part of another.                       *)
HearsOnly ==
    \A i \in DOMAIN heard : heard[i].packet \in ToSet(packets) =>
        /\ EndsAt(heard[i].packet, heard[i].upto)
        /\ i > 1 => heard[i].upto >= heard[i - 1].upto + Len(Encode(heard[i].packet))

(* "chew up any bytes until the next start-of-packet" (packet.go:75): a    *)
(* packet that is on the air as a whole is heard, whatever bytes precede   *)
(* it, as long as they do not begin a packet themselves.                   *)
NoneBegins(bytes) ==
    LET eops == {i \in 2..Len(bytes) : bytes[i - 1] = Escape /\ bytes[i] = EscEOP}
    IN Index(SubSeq(bytes, Max(eops \cup {0}) + 1, Len(bytes)), EscSOP) = -1

ChewsUp ==
    /\ ~panic
    /\ Quiet => \A k \in DOMAIN packets, n \in 1..Len(Arrived) :
                   /\ EndsAt(packets[k], n)
                   /\ NoneBegins(SubSeq(Arrived, 1, n - Len(Encode(packets[k]))))
                   => \E i \in DOMAIN heard : heard[i].upto = n
=============================================================================
