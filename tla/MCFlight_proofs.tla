---------------------------- MODULE MCFlight_proofs ----------------------------
(***************************************************************************)
(* Theorems about RadioDownlink, which MCFlight extends, for any number of *)
(* replicas above two, any messages and any number of upsets, reboots and  *)
(* lost replies: messages are on the air whole and in order, and the       *)
(* memory of the transmitter is written only while it is idle.  Then one   *)
(* about Clock, the instance C of MCFlight, for every odd number of        *)
(* replicas above one, any clock, any damage and any number of faults, as  *)
(* long as one component at a time is affected: the mission time is never  *)
(* wrong.  Then one about Magnetometer, the instance M, for three replicas *)
(* or more, any size of their buffers and of a report, and any delays:     *)
(* type correctness, and that the reports are in order.  At the end is     *)
(* what MCFlight owes to its components: its steps are steps of one of     *)
(* them or leave it alone, so that what is proved of them holds in the run *)
(* too.                                                                    *)
(***************************************************************************)
EXTENDS MCFlight, FiniteSetTheorems, SequenceTheorems, TLAPS

(* No reply is so late that its transaction ID is in use again: the        *)
(* program has 2^16 of them.                                               *)
Distinct == MaxLate < TxnIds

(* All replicas but at most one hold the message that counts.              *)
Agreed(held) == \E odd \in Replicas : \A r \in Replicas \ {odd} : local[r] = held

(* The transaction ID that is less than TxnIds behind the greatest.        *)
Wrap(txn) == IF txn < TxnIds THEN txn ELSE txn - TxnIds

Typed ==
    /\ TypeOK
    /\ note \in [state : {"INITIAL_STATE", "QUERY_COMMON_CONFIG", "DISABLE_TRANSMIT",
                          "WAITING_FOR_STREAM", "WRITE_RADIO_MEMORY", "START_TRANSMIT",
                          "MONITOR_TRANSMIT"},
                 length : 0..MaxLength, txn : 0..TxnIds - 1]
    /\ received \in Nat
    /\ faults \in [lost : Nat, late : 0..MaxLate, upsets : Nat, reboots : Nat]
    /\ reg \in [PTR : Nat, LEN : Nat, TX_STATE : {"IDLE", "ACTIVE"}]
    /\ air \in Seq([message : Nat, place : Nat])

(* The replies of the radio: each for an earlier command the longer it is  *)
(* under way, and the last one perhaps for the latest.                     *)
Answers == [op : {"read", "write"}, txn : 0..TxnIds - 1, status : {"OK"},
            data : {<<>>, <<0, 0, 0>>}
                      \cup {<<len, tx>> : len \in 0..MaxLength, tx \in {"IDLE", "ACTIVE"}}]
Current(i) == replies[i].txn = note.txn

RepliesOK ==
    /\ replies \in Seq(Answers)
    /\ Len(replies) <= faults.late + (IF command = NoPacket THEN 1 ELSE 0)
    /\ \A i \in 1..Len(replies) :
          /\ \E age \in 0..faults.late : note.txn = Wrap(replies[i].txn + age)
          /\ i < Len(replies) \/ command # NoPacket => ~Current(i)

(* A command is that of the present state; held is the message to send.    *)
CommandOK(held) ==
    command # NoPacket =>
        /\ note.state \notin {"INITIAL_STATE", "WAITING_FOR_STREAM"}
        /\ command = CASE note.state = "QUERY_COMMON_CONFIG" ->
                              [op |-> "read", txn |-> note.txn, addr |-> "config", arg |-> 3]
                       [] note.state = "DISABLE_TRANSMIT" ->
                              [op |-> "write", txn |-> note.txn, addr |-> "registers",
                               arg |-> [PTR |-> 0, LEN |-> 0, TX_STATE |-> "IDLE"]]
                       [] note.state = "WRITE_RADIO_MEMORY" ->
                              [op |-> "write", txn |-> note.txn, addr |-> "memory", arg |-> held]
                       [] note.state = "START_TRANSMIT" ->
                              [op |-> "write", txn |-> note.txn, addr |-> "registers",
                               arg |-> [PTR |-> 0, LEN |-> note.length, TX_STATE |-> "ACTIVE"]]
                       [] OTHER ->
                              [op |-> "read", txn |-> note.txn, addr |-> "registers", arg |-> 2]

LastByte == air[Len(air)]

(* A message may start that did not before, or again.                      *)
Follows(message) ==
    air # <<>> =>
        \/ message = LastByte.message + 1 /\ Last(LastByte)
        \/ message > LastByte.message /\ faults.reboots > 0
Repeats(message) == air # <<>> /\ LastByte.message = message /\ faults.lost + faults.late > 0
Done == air # <<>> /\ LastByte = [message |-> mem, place |-> Length(mem)]

Idle == reg.TX_STATE = "IDLE"

(* The transmitter stops at the end of the message that is in its memory.  *)
RadioOK ==
    /\ mem <= received
    /\ air # <<>> => LastByte.message <= mem
    /\ Idle => reg.LEN = 0
    /\ ~Idle =>
          /\ reg.LEN > 0 /\ reg.PTR + reg.LEN = Length(mem)
          /\ IF reg.PTR = 0 THEN Follows(mem) \/ Repeats(mem)
             ELSE air # <<>> /\ LastByte = [message |-> mem, place |-> reg.PTR]

(* The reply to the latest command is there.                               *)
Answered == command = NoPacket /\ replies # <<>> /\ Current(Len(replies))

Starting ==
    note.state \in {"INITIAL_STATE", "QUERY_COMMON_CONFIG", "DISABLE_TRANSMIT"} =>
        /\ faults.reboots = 0 => received = 0 /\ air = <<>> /\ Idle
        /\ note.state = "INITIAL_STATE" => replies = <<>>
        /\ note.state = "DISABLE_TRANSMIT" /\ Answered => Idle

Waiting(held) ==
    note.state = "WAITING_FOR_STREAM" =>
        held = 0 /\ Idle /\ Follows(received + 1) /\ replies = <<>>

Writing(held) ==
    note.state = "WRITE_RADIO_MEMORY" =>
        /\ held = received /\ held > 0 /\ Idle /\ Follows(held)
        /\ note.length = Length(held)
        /\ Answered => mem = held

(* A message is started again only if the reply was lost or late.          *)
Begun == Done \/ ~Idle
Transmitting(held) ==
    note.state = "START_TRANSMIT" =>
        /\ mem = received /\ mem > 0 /\ held \in {0, mem} /\ note.length = Length(mem)
        /\ Begun \/ Follows(mem)
        /\ Answered => Begun /\ replies[Len(replies)].op = "write"
        /\ faults.lost + faults.late = 0 =>
              IF command = NoPacket THEN replies # <<>> ELSE ~Begun

Monitoring(held) ==
    note.state = "MONITOR_TRANSMIT" =>
        /\ mem > 0 /\ Begun /\ note.length = Length(mem)
        /\ held \in {0, received} /\ received = IF held = 0 THEN mem ELSE mem + 1
        /\ Answered /\ replies[Len(replies)].data[2] = "IDLE" => Idle

Wanted(held) ==
    wanted = 1 => note.state \in {"WAITING_FOR_STREAM", "MONITOR_TRANSMIT"} /\ held = 0

Phase(held) ==
    /\ CommandOK(held) /\ Starting /\ Waiting(held) /\ Writing(held)
    /\ Transmitting(held) /\ Monitoring(held) /\ Wanted(held)

DownInv ==
    /\ Typed /\ RepliesOK /\ RadioOK /\ Framed
    /\ \E held \in 0..received : Agreed(held) /\ Phase(held)
-----------------------------------------------------------------------------
(* Lengths, transaction IDs and votes.                                     *)

Notes == [state : {"INITIAL_STATE", "QUERY_COMMON_CONFIG", "DISABLE_TRANSMIT",
                   "WAITING_FOR_STREAM", "WRITE_RADIO_MEMORY", "START_TRANSMIT",
                   "MONITOR_TRANSMIT"},
          length : 0..MaxLength, txn : 0..TxnIds - 1]

LEMMA DownConsts ==
    /\ MaxLength \in Nat /\ MaxLength >= 1 /\ MaxLate \in Nat /\ MaxMessages \in Nat
    /\ TxnIds \in Nat /\ TxnIds >= 1
  BY RadioDownlinkAssumption, RmapAssumption

LEMMA LengthType == ASSUME NEW m \in Nat PROVE Length(m) \in 1..MaxLength
<1>1. m % MaxLength \in 0..MaxLength - 1
  BY RadioDownlinkAssumption
<1> QED
  BY <1>1, DownConsts DEF Length

LEMMA Wraps ==
    ASSUME NEW t \in 0..TxnIds - 1
    PROVE  /\ NextTxn(t) = Wrap(t + 1) /\ NextTxn(t) \in 0..TxnIds - 1
           /\ Wrap(t) = t
           /\ \A a \in 1..TxnIds - 1 : Wrap(t + a) # t
           /\ \A a \in 0..TxnIds - 2 : Wrap(Wrap(t + a) + 1) = Wrap(t + (a + 1))
<1>1. TxnIds \in Nat \ {0}
  BY RmapAssumption
<1>2. NextTxn(t) = Wrap(t + 1)
  <2>1. CASE t + 1 < TxnIds
    <3>1. (t + 1) % TxnIds = t + 1
      BY <1>1, <2>1
    <3> QED
      BY <2>1, <3>1 DEF NextTxn, Wrap
  <2>2. CASE t + 1 = TxnIds
    <3>1. (t + 1) % TxnIds = 0
      BY <1>1, <2>2
    <3> QED
      BY <1>1, <2>2, <3>1 DEF NextTxn, Wrap
  <2> QED
    BY <1>1, <2>1, <2>2
<1> QED
  BY <1>1, <1>2 DEF Wrap

LEMMA LastByteType ==
    ASSUME Typed, air # <<>>
    PROVE  /\ LastByte \in [message : Nat, place : Nat]
           /\ LastByte.message \in Nat /\ LastByte.place \in Nat
           /\ Len(air) \in Nat /\ Len(air) >= 1
<1>1. air \in Seq([message : Nat, place : Nat])
  BY DEF Typed
<1>2. Len(air) \in Nat /\ Len(air) >= 1
  BY <1>1
<1>3. LastByte \in [message : Nat, place : Nat]
  BY <1>1, <1>2, ElementOfSeq, Len(air) \in 1..Len(air) DEF LastByte
<1> QED
  BY <1>2, <1>3

(* All replicas but one are a majority.                                    *)
LEMMA VotedMost ==
    ASSUME NEW of, NEW odd \in Replicas, NEW x, \A r \in Replicas \ {odd} : of[r] = x,
           NEW otherwise
    PROVE  Voted(of, otherwise) = x
<1> DEFINE n == Cardinality(Replicas)
           Holding(v) == {r \in Replicas : of[r] = v}
<1>1. /\ IsFiniteSet(Replicas) /\ n \in Nat /\ n > 2
      /\ IsFiniteSet(Replicas \ {odd}) /\ Cardinality(Replicas \ {odd}) = n - 1
  BY RadioDownlinkAssumption, FS_RemoveElement, FS_CardinalityType
<1>2. \A v : IsFiniteSet(Holding(v)) /\ Cardinality(Holding(v)) \in Nat
  <2>1. \A v : Holding(v) \subseteq Replicas
    OBVIOUS
  <2> QED
    BY <1>1, <2>1, FS_Subset, FS_CardinalityType
<1>3. Cardinality(Holding(x)) >= n - 1
  <2>1. Replicas \ {odd} \subseteq Holding(x)
    OBVIOUS
  <2> QED
    BY <1>1, <1>2, <2>1, FS_Subset
<1>4. \A v : v # x => Cardinality(Holding(v)) <= 1
  <2>1. SUFFICES ASSUME NEW v, v # x PROVE Cardinality(Holding(v)) <= 1
    OBVIOUS
  <2>2. Holding(v) \subseteq {odd}
    BY <2>1
  <2>3. IsFiniteSet({odd}) /\ Cardinality({odd}) = 1
    BY FS_Singleton
  <2> QED
    BY <2>2, <2>3, FS_Subset
<1>5. \A v : 2 * Cardinality(Holding(v)) > n <=> v = x
  <2> HIDE DEF n, Holding
  <2>1. 2 * Cardinality(Holding(x)) > n
    BY <1>1, <1>2, <1>3
  <2>2. \A v : v # x => ~(2 * Cardinality(Holding(v)) > n)
    BY <1>1, <1>2, <1>4
  <2> QED
    BY <2>1, <2>2
<1>6. PICK s \in Replicas : s # odd
  <2>1. Replicas \ {odd} # {}
    BY <1>1, FS_EmptySet
  <2> QED
    BY <2>1
<1> DEFINE most == {r \in Replicas : 2 * Cardinality(Holding(of[r])) > n}
           agreed == {of[r] : r \in most}
<1>7. s \in most /\ \A r \in most : of[r] = x
  BY <1>5, <1>6
<1>8. agreed = {x}
  BY <1>6, <1>7
<1>9. Voted(of, otherwise) = IF agreed = {} THEN otherwise ELSE CHOOSE value \in agreed : TRUE
  BY DEF Voted
<1> HIDE DEF agreed
<1> QED
  BY <1>8, <1>9

-----------------------------------------------------------------------------
(* What the clip makes of the voted note and of a message.                 *)

Due(n, m, arriving) ==
    IF n.state \in {"WAITING_FOR_STREAM", "MONITOR_TRANSMIT"} /\ m = 0 THEN arriving ELSE m

LEMMA InState ==
    ASSUME NEW n \in Notes, NEW st
    PROVE  In(n, st) = [state |-> st, length |-> n.length, txn |-> n.txn]
  BY DEF Notes, In

LEMMA StreamedLane ==
    ASSUME NEW n \in Notes, NEW m, NEW arriving
    PROVE  /\ ~(n.state = "WAITING_FOR_STREAM" /\ Due(n, m, arriving) # 0) =>
                 Streamed(Lane(n, m), arriving) = Lane(n, Due(n, m, arriving))
           /\ n.state = "WAITING_FOR_STREAM" /\ Due(n, m, arriving) # 0 =>
                 Streamed(Lane(n, m), arriving) =
                    Lane([state |-> "WRITE_RADIO_MEMORY", length |-> Length(Due(n, m, arriving)),
                          txn |-> n.txn], Due(n, m, arriving))
<1>1. Lane(n, m).note = n /\ Lane(n, m).local = m
  BY DEF Lane
<1> DEFINE e == In(n, "WRITE_RADIO_MEMORY")
           l == Length(Due(n, m, arriving))
<1>2. e \in Notes /\ e.state = "WRITE_RADIO_MEMORY" /\ e.txn = n.txn
  BY InState DEF Notes
<1>3. [e EXCEPT !.length = l] = [state |-> "WRITE_RADIO_MEMORY", length |-> l, txn |-> n.txn]
  <2> HIDE DEF e, l
  <2> QED
    BY <1>2 DEF Notes
<1>4. [n EXCEPT !.state = "WRITE_RADIO_MEMORY", !.length = l] = [e EXCEPT !.length = l]
  BY DEF In
<1> QED
  BY <1>1, <1>3, <1>4 DEF Streamed, Due, Accepting

LEMMA LaneParts == ASSUME NEW n, NEW m PROVE Lane(n, m).note = n /\ Lane(n, m).local = m
  BY DEF Lane

(* A lane whose message is as long as the note says goes on.               *)
LEMMA CheckedLane ==
    ASSUME NEW n, NEW m, n.state = "WRITE_RADIO_MEMORY" => n.length = LocalLength(m)
    PROVE  Checked(Lane(n, m)) = Lane(n, m)
  BY LaneParts DEF Checked, Desynchronized

(* The command that goes with a note, and what is remembered of it.        *)
LEMMA Commanded ==
    ASSUME NEW n \in Notes, NEW m
    PROVE  LET next == NextCommand(Lane(n, m)) IN
           /\ (next = NoPacket) <=> (n.state \in {"INITIAL_STATE", "WAITING_FOR_STREAM"})
           /\ next = NoPacket => Remembered(n, next) = n
           /\ next # NoPacket =>
                 /\ next.txn = NextTxn(n.txn)
                 /\ Remembered(n, next) =
                       [state |-> n.state, length |-> n.length, txn |-> NextTxn(n.txn)]
           /\ n.state = "QUERY_COMMON_CONFIG" =>
                 next = [op |-> "read", txn |-> NextTxn(n.txn), addr |-> "config", arg |-> 3]
           /\ n.state = "DISABLE_TRANSMIT" =>
                 next = [op |-> "write", txn |-> NextTxn(n.txn), addr |-> "registers",
                         arg |-> [PTR |-> 0, LEN |-> 0, TX_STATE |-> "IDLE"]]
           /\ n.state = "WRITE_RADIO_MEMORY" =>
                 next = [op |-> "write", txn |-> NextTxn(n.txn), addr |-> "memory", arg |-> m]
           /\ n.state = "START_TRANSMIT" =>
                 next = [op |-> "write", txn |-> NextTxn(n.txn), addr |-> "registers",
                         arg |-> [PTR |-> 0, LEN |-> n.length, TX_STATE |-> "ACTIVE"]]
           /\ n.state = "MONITOR_TRANSMIT" =>
                 next = [op |-> "read", txn |-> NextTxn(n.txn), addr |-> "registers", arg |-> 2]
<1> DEFINE next == NextCommand(Lane(n, m))
<1>1. Lane(n, m).note = n /\ Lane(n, m).local = m
  BY LaneParts
<1>2. /\ n.state = "QUERY_COMMON_CONFIG" =>
            next = [op |-> "read", txn |-> NextTxn(n.txn), addr |-> "config", arg |-> 3]
      /\ n.state = "DISABLE_TRANSMIT" =>
            next = [op |-> "write", txn |-> NextTxn(n.txn), addr |-> "registers",
                    arg |-> [PTR |-> 0, LEN |-> 0, TX_STATE |-> "IDLE"]]
      /\ n.state = "WRITE_RADIO_MEMORY" =>
            next = [op |-> "write", txn |-> NextTxn(n.txn), addr |-> "memory", arg |-> m]
      /\ n.state = "START_TRANSMIT" =>
            next = [op |-> "write", txn |-> NextTxn(n.txn), addr |-> "registers",
                    arg |-> [PTR |-> 0, LEN |-> n.length, TX_STATE |-> "ACTIVE"]]
      /\ n.state = "MONITOR_TRANSMIT" =>
            next = [op |-> "read", txn |-> NextTxn(n.txn), addr |-> "registers", arg |-> 2]
      /\ n.state \in {"INITIAL_STATE", "WAITING_FOR_STREAM"} => next = NoPacket
  BY <1>1 DEF NextCommand, rmap_read_start, rmap_write_start
<1>3. n.state \in {"INITIAL_STATE", "QUERY_COMMON_CONFIG", "DISABLE_TRANSMIT",
                   "WAITING_FOR_STREAM", "WRITE_RADIO_MEMORY", "START_TRANSMIT",
                   "MONITOR_TRANSMIT"}
  BY DEF Notes
<1>4. n.state \in {"INITIAL_STATE", "WAITING_FOR_STREAM"} \/ next.txn = NextTxn(n.txn)
  BY <1>2, <1>3
<1>5. n.state \in {"INITIAL_STATE", "WAITING_FOR_STREAM"} \/ next.op \in {"read", "write"}
  BY <1>2, <1>3
<1>6. NoPacket.op = "none"
  BY DEF NoPacket
<1>7. (next = NoPacket) <=> (n.state \in {"INITIAL_STATE", "WAITING_FOR_STREAM"})
  BY <1>2, <1>5, <1>6
<1>8. next = NoPacket => Remembered(n, next) = n
  BY DEF Remembered
<1>9. next # NoPacket =>
        Remembered(n, next) = [state |-> n.state, length |-> n.length, txn |-> NextTxn(n.txn)]
  <2>1. HAVE next # NoPacket
  <2>2. Remembered(n, next) = [n EXCEPT !.txn = next.txn]
    BY <2>1 DEF Remembered
  <2>3. next.txn = NextTxn(n.txn)
    BY <1>4, <1>7, <2>1
  <2> QED
    BY <2>2, <2>3 DEF Notes
<1> QED
  BY <1>2, <1>4, <1>7, <1>8, <1>9

-----------------------------------------------------------------------------
(* One turn of the clip, as most replicas see it.                          *)

Packet(arrived)   == IF arrived = 0 THEN NoPacket ELSE Head(replies)
Arriving(carried) == IF carried = 0 THEN 0 ELSE received + 1
Stream(arrived, carried, m)  == Streamed(Completed(note, m, Packet(arrived)), Arriving(carried))
Outcome(arrived, carried, m) == Checked(Stream(arrived, carried, m))

(* What the turn does to everything but the voted state.                   *)
Carries(arrived, carried) ==
    /\ arrived < Len(replies) => faults.late < MaxLate
    /\ received + carried <= MaxMessages
    /\ received' = received + carried
    /\ replies' = SubSeq(replies, arrived + 1, Len(replies))
    /\ faults' = [faults EXCEPT !.late = IF arrived < Len(replies) THEN @ + 1 ELSE @]
    /\ local' = [r \in Replicas |-> Outcome(arrived, carried, local[r]).local]
    /\ command = NoPacket /\ UNCHANGED <<reg, mem, air>>

LEMMA ClipVoted ==
    ASSUME NEW odd \in Replicas, NEW held, \A r \in Replicas \ {odd} : local[r] = held,
           DownlinkClip
    PROVE  \E arrived \in 0..Len(replies), carried \in 0..wanted :
              LET lane == Outcome(arrived, carried, held)
                  next == NextCommand(lane)
              IN /\ Carries(arrived, carried)
                 /\ note' = Remembered(lane.note, next)
                 /\ command' = next
                 /\ wanted' = Request(Stream(arrived, carried, held))
<1>1. PICK arrived \in 0..Len(replies), carried \in 0..wanted :
         /\ arrived < Len(replies) => faults.late < MaxLate
         /\ received + carried <= MaxMessages
         /\ \E streamed \in {[r \in Replicas |-> Stream(arrived, carried, local[r])]} :
            \E lane \in {[r \in Replicas |-> Checked(streamed[r])]} :
            \E next \in {[r \in Replicas |-> NextCommand(lane[r])]} :
               /\ note' = Voted([r \in Replicas |-> Remembered(lane[r].note, next[r])], InitialNote)
               /\ local' = [r \in Replicas |-> lane[r].local]
               /\ wanted' = Voted([r \in Replicas |-> Request(streamed[r])], 0)
               /\ command' = Voted(next, NoPacket)
         /\ received' = received + carried
         /\ replies' = SubSeq(replies, arrived + 1, Len(replies))
         /\ faults' = [faults EXCEPT !.late = IF arrived < Len(replies) THEN @ + 1 ELSE @]
  BY DEF DownlinkClip, Stream, Packet, Arriving
<1> DEFINE streamed == [r \in Replicas |-> Stream(arrived, carried, local[r])]
           lane == [r \in Replicas |-> Checked(streamed[r])]
           next == [r \in Replicas |-> NextCommand(lane[r])]
           memory == [r \in Replicas |-> Remembered(lane[r].note, next[r])]
           asks == [r \in Replicas |-> Request(streamed[r])]
<1>2. /\ note' = Voted(memory, InitialNote)
      /\ local' = [r \in Replicas |-> lane[r].local]
      /\ wanted' = Voted(asks, 0)
      /\ command' = Voted(next, NoPacket)
  BY <1>1
<1>3. \A r \in Replicas : streamed[r] = Stream(arrived, carried, local[r])
  OBVIOUS
<1>4. \A r \in Replicas : lane[r] = Outcome(arrived, carried, local[r])
  BY <1>3 DEF Outcome
<1>5. \A r \in Replicas : next[r] = NextCommand(Outcome(arrived, carried, local[r]))
  BY <1>4
<1> DEFINE l == Outcome(arrived, carried, held)
<1>6. \A r \in Replicas \ {odd} : next[r] = NextCommand(l)
  BY <1>5
<1>7. \A r \in Replicas \ {odd} : memory[r] = Remembered(l.note, NextCommand(l))
  <2> SUFFICES ASSUME NEW r \in Replicas \ {odd}
               PROVE  memory[r] = Remembered(l.note, NextCommand(l))
    OBVIOUS
  <2>1. lane[r] = l /\ next[r] = NextCommand(l)
    BY <1>4, <1>6
  <2>2. memory[r] = Remembered(lane[r].note, next[r])
    OBVIOUS
  <2> HIDE DEF memory, lane, next
  <2> QED
    BY <2>1, <2>2
<1>8. \A r \in Replicas \ {odd} : asks[r] = Request(Stream(arrived, carried, held))
  BY <1>3
<1>9. local' = [r \in Replicas |-> Outcome(arrived, carried, local[r]).local]
  BY <1>2, <1>4
<1> HIDE DEF streamed, lane, next, memory, asks
<1>10. note' = Remembered(l.note, NextCommand(l))
  <2> HIDE DEF l
  <2>1. Voted(memory, InitialNote) = Remembered(l.note, NextCommand(l))
    BY <1>7, VotedMost
  <2> QED
    BY <1>2, <2>1
<1>11. command' = NextCommand(l)
  BY <1>2, <1>6, VotedMost
<1>12. wanted' = Request(Stream(arrived, carried, held))
  BY <1>2, <1>8, VotedMost
<1>13. Carries(arrived, carried)
  BY <1>1, <1>9 DEF Carries, DownlinkClip
<1> QED
  BY <1>10, <1>11, <1>12, <1>13

(* The reply that is handled is that to the latest command.                *)
Matches(arrived) == arrived > 0 /\ Head(replies).txn = note.txn

Kept(held) == IF note.state \in {"DISABLE_TRANSMIT", "START_TRANSMIT"} THEN 0 ELSE held

Completes(arrived, n) ==
    /\ n.txn = note.txn
    /\ note.state = "INITIAL_STATE" => n.state = "QUERY_COMMON_CONFIG"
    /\ note.state = "QUERY_COMMON_CONFIG" => n.state \in {"QUERY_COMMON_CONFIG", "DISABLE_TRANSMIT"}
    /\ note.state = "DISABLE_TRANSMIT" =>
          n.state = "DISABLE_TRANSMIT" \/ (n.state = "WAITING_FOR_STREAM" /\ Matches(arrived))
    /\ note.state = "WAITING_FOR_STREAM" => n.state = "WAITING_FOR_STREAM"
    /\ note.state = "WRITE_RADIO_MEMORY" =>
          n.state = "WRITE_RADIO_MEMORY" \/ (n.state = "START_TRANSMIT" /\ Matches(arrived))
    /\ note.state = "START_TRANSMIT" =>
          \/ n.state = "START_TRANSMIT" /\ ~(Matches(arrived) /\ Head(replies).op = "write")
          \/ n.state = "MONITOR_TRANSMIT" /\ Matches(arrived)
    /\ note.state = "MONITOR_TRANSMIT" =>
          \/ n.state = "MONITOR_TRANSMIT"
          \/ n.state = "WAITING_FOR_STREAM" /\ Matches(arrived) /\ Head(replies).data[2] = "IDLE"
    /\ n.length = IF note.state = "MONITOR_TRANSMIT" /\ n.state = "WAITING_FOR_STREAM" THEN 0
                  ELSE note.length

LEMMA CompletedLane ==
    ASSUME note \in Notes, replies \in Seq(Answers), NEW arrived \in 0..Len(replies), NEW held
    PROVE  \E n \in Notes : /\ Completed(note, held, Packet(arrived)) = Lane(n, Kept(held))
                            /\ Completes(arrived, n)
<1> DEFINE p == Packet(arrived)
           w == rmap_write_complete(p, note.txn)
           r3 == rmap_read_complete(p, note.txn, 3)
           r2 == rmap_read_complete(p, note.txn, 2)
<1>1. arrived = 0 => p.op = "none"
  BY DEF Packet, NoPacket
<1>2. arrived # 0 => p = Head(replies) /\ p \in Answers
  BY DEF Packet
<1>3. /\ w = "OK" => Matches(arrived)
      /\ r3 = "OK" => Matches(arrived)
      /\ r2 = "OK" => Matches(arrived)
      /\ Matches(arrived) /\ Head(replies).op = "write" => w = "OK"
      /\ Matches(arrived) => p = Head(replies)
  <2> HIDE DEF p
  <2>1. CASE arrived = 0
    BY <1>1, <2>1 DEF rmap_write_complete, rmap_read_complete, Valid, Matches
  <2>2. CASE arrived # 0
    BY <1>2, <2>2 DEF rmap_write_complete, rmap_read_complete, Valid, Matches, Answers
  <2> QED
    BY <2>1, <2>2
<1> HIDE DEF p, w, r3, r2
<1>4. \A st \in {"QUERY_COMMON_CONFIG", "DISABLE_TRANSMIT", "WAITING_FOR_STREAM",
                 "START_TRANSMIT", "MONITOR_TRANSMIT"} :
         /\ In(note, st) \in Notes /\ In(note, st).state = st
         /\ In(note, st).length = note.length /\ In(note, st).txn = note.txn
  BY InState DEF Notes
<1>5. note.state \in {"INITIAL_STATE", "QUERY_COMMON_CONFIG", "DISABLE_TRANSMIT",
                      "WAITING_FOR_STREAM", "WRITE_RADIO_MEMORY", "START_TRANSMIT",
                      "MONITOR_TRANSMIT"}
  BY DEF Notes
<1> DEFINE c == Completed(note, held, Packet(arrived))
<1>6. CASE note.state = "INITIAL_STATE"
  <2>1. c = Lane(In(note, "QUERY_COMMON_CONFIG"), Kept(held))
    BY <1>6 DEF Completed, Kept
  <2> QED
    BY <1>4, <1>6, <2>1 DEF Completes
<1>7. CASE note.state = "QUERY_COMMON_CONFIG"
  <2>1. c = Lane(IF r3 = "OK" THEN In(note, "DISABLE_TRANSMIT") ELSE note, Kept(held))
    BY <1>7 DEF Completed, Kept, Await, r3, p
  <2> QED
    BY <1>4, <1>7, <2>1 DEF Completes
<1>8. CASE note.state = "DISABLE_TRANSMIT"
  <2>1. c = Lane(IF w = "OK" THEN In(note, "WAITING_FOR_STREAM") ELSE note, Kept(held))
    BY <1>8 DEF Completed, Kept, Await, w, p
  <2> QED
    BY <1>3, <1>4, <1>8, <2>1 DEF Completes
<1>9. CASE note.state = "WAITING_FOR_STREAM"
  <2>1. c = Lane(note, Kept(held))
    BY <1>9 DEF Completed, Kept
  <2> QED
    BY <1>9, <2>1 DEF Completes
<1>10. CASE note.state = "WRITE_RADIO_MEMORY"
  <2>1. c = Lane(IF w = "OK" THEN In(note, "START_TRANSMIT") ELSE note, Kept(held))
    BY <1>10 DEF Completed, Kept, Await, w, p
  <2> QED
    BY <1>3, <1>4, <1>10, <2>1 DEF Completes
<1>11. CASE note.state = "START_TRANSMIT"
  <2>1. c = Lane(IF w = "OK" THEN In(note, "MONITOR_TRANSMIT") ELSE note, Kept(held))
    BY <1>11 DEF Completed, Started, Kept, Await, w, p
  <2> QED
    BY <1>3, <1>4, <1>11, <2>1 DEF Completes
<1>12. CASE note.state = "MONITOR_TRANSMIT"
  <2> DEFINE free == [note EXCEPT !.state = "WAITING_FOR_STREAM", !.length = 0]
  <2>1. c = Lane(IF r2 = "OK" /\ p.data[1] = 0 /\ p.data[2] = "IDLE" THEN free ELSE note, Kept(held))
    BY <1>12 DEF Completed, Monitored, Kept, r2, p
  <2>2. free = [In(note, "WAITING_FOR_STREAM") EXCEPT !.length = 0]
    BY DEF In
  <2>3. /\ free \in Notes /\ free.state = "WAITING_FOR_STREAM" /\ free.length = 0
        /\ free.txn = note.txn
    <3> DEFINE e == In(note, "WAITING_FOR_STREAM")
    <3>1. e \in Notes /\ e.state = "WAITING_FOR_STREAM" /\ e.txn = note.txn /\ 0 \in 0..MaxLength
      BY <1>4, DownConsts
    <3> HIDE DEF e
    <3>2. LET f == [e EXCEPT !.length = 0] IN
          f \in Notes /\ f.state = "WAITING_FOR_STREAM" /\ f.length = 0 /\ f.txn = note.txn
      BY <3>1 DEF Notes
    <3> QED
      BY <2>2, <3>2 DEF e
  <2> HIDE DEF free
  <2> QED
    BY <1>3, <1>12, <2>1, <2>3 DEF Completes
<1> QED
  BY <1>5, <1>6, <1>7, <1>8, <1>9, <1>10, <1>11, <1>12

(* One turn with all that follows from it: c is the note once the reply is *)
(* handled, m the message then held, n the note of the command.            *)
Turns(arrived, carried, held, c, n, m) ==
    /\ Carries(arrived, carried) /\ Completes(arrived, c)
    /\ m = Due(c, Kept(held), Arriving(carried))
    /\ c.state = "WAITING_FOR_STREAM" /\ m # 0 =>
          n.state = "WRITE_RADIO_MEMORY" /\ n.length = Length(m)
    /\ ~(c.state = "WAITING_FOR_STREAM" /\ m # 0) => n = c
    /\ note' = [state |-> n.state, length |-> n.length,
                txn |-> IF command' = NoPacket THEN note.txn ELSE NextTxn(note.txn)]
    /\ n.txn = note.txn /\ command' = NextCommand(Lane(n, m))
    /\ wanted' = IF n.state \in {"WAITING_FOR_STREAM", "MONITOR_TRANSMIT"} /\ m = 0 THEN 1 ELSE 0
    /\ carried = 1 => held = 0 /\ note.state \in {"WAITING_FOR_STREAM", "MONITOR_TRANSMIT"}

LEMMA Turn ==
    ASSUME Typed, RepliesOK, NEW held \in 0..received, Phase(held), DownlinkClip,
           NEW odd \in Replicas, \A r \in Replicas \ {odd} : local[r] = held
    PROVE  \E arrived \in 0..Len(replies), carried \in {0, 1}, c \in Notes, n \in Notes,
              m \in 0..received' :
              /\ Turns(arrived, carried, held, c, n, m)
              /\ \A r \in Replicas \ {odd} : local'[r] = m
<1>1. PICK arrived \in 0..Len(replies), carried \in 0..wanted :
         LET lane == Outcome(arrived, carried, held)
             next == NextCommand(lane)
         IN /\ Carries(arrived, carried)
            /\ note' = Remembered(lane.note, next)
            /\ command' = next
            /\ wanted' = Request(Stream(arrived, carried, held))
  BY ClipVoted
<1>2. note \in Notes /\ replies \in Seq(Answers) /\ wanted \in {0, 1} /\ received \in Nat
  BY DEF Typed, TypeOK, RepliesOK, Notes
<1>3. carried \in {0, 1} /\ (carried = 1 => wanted = 1)
  BY <1>2
<1>4. carried = 1 => held = 0 /\ note.state \in {"WAITING_FOR_STREAM", "MONITOR_TRANSMIT"}
  BY <1>3 DEF Phase, Wanted
<1>5. PICK c \in Notes : /\ Completed(note, held, Packet(arrived)) = Lane(c, Kept(held))
                        /\ Completes(arrived, c)
  BY <1>2, CompletedLane
<1> DEFINE m == Due(c, Kept(held), Arriving(carried))
           moves == c.state = "WAITING_FOR_STREAM" /\ m # 0
           n == IF moves THEN [state |-> "WRITE_RADIO_MEMORY", length |-> Length(m), txn |-> c.txn]
                ELSE c
<1>6. Stream(arrived, carried, held) = Lane(n, m)
  BY <1>5, StreamedLane DEF Stream
<1>7. received' = received + carried
  BY <1>1 DEF Carries
<1>8. m \in 0..received'
  BY <1>2, <1>3, <1>7 DEF Due, Kept, Arriving
<1>9. m \in Nat /\ Length(m) \in 0..MaxLength /\ Length(m) > 0
  <2> HIDE DEF m
  <2>1. m \in Nat
    BY <1>2, <1>3, <1>7, <1>8
  <2>2. Length(m) \in 1..MaxLength
    BY <2>1, LengthType
  <2> QED
    BY <2>1, <2>2, DownConsts
<1>10. c.txn = note.txn
  BY <1>5 DEF Completes
<1> HIDE DEF m
<1>11. /\ n \in Notes /\ n.txn = note.txn
       /\ moves => n.state = "WRITE_RADIO_MEMORY" /\ n.length = Length(m)
       /\ ~moves => n = c
  BY <1>2, <1>9, <1>10 DEF Notes
<1>12. n.state = "WRITE_RADIO_MEMORY" => n.length = LocalLength(m)
  <2>1. CASE moves
    BY <1>11, <2>1 DEF LocalLength
  <2>2. CASE ~moves
    <3>1. HAVE n.state = "WRITE_RADIO_MEMORY"
    <3>2. n = c /\ c.state = "WRITE_RADIO_MEMORY"
      BY <1>11, <2>2, <3>1
    <3>3. note.state = "WRITE_RADIO_MEMORY" /\ c.length = note.length
      BY <1>2, <1>5, <3>2 DEF Completes, Notes
    <3>4. m = held
      BY <3>2, <3>3 DEF m, Due, Kept
    <3>5. held > 0 /\ note.length = Length(held)
      BY <3>3 DEF Phase, Writing
    <3> QED
      BY <3>2, <3>3, <3>4, <3>5 DEF LocalLength
  <2> QED
    BY <2>1, <2>2
<1> HIDE DEF n
<1>13. Outcome(arrived, carried, held) = Lane(n, m)
  BY <1>6, <1>12, CheckedLane DEF Outcome
<1>14. note' = Remembered(n, NextCommand(Lane(n, m))) /\ command' = NextCommand(Lane(n, m))
  BY <1>1, <1>13, LaneParts
<1>15. note' = [state |-> n.state, length |-> n.length,
                txn |-> IF command' = NoPacket THEN note.txn ELSE NextTxn(note.txn)]
  <2>1. n = [state |-> n.state, length |-> n.length, txn |-> note.txn]
    BY <1>11 DEF Notes
  <2> QED
    BY <1>11, <1>14, <2>1, Commanded
<1>16. wanted' = IF n.state \in {"WAITING_FOR_STREAM", "MONITOR_TRANSMIT"} /\ m = 0 THEN 1 ELSE 0
  BY <1>1, <1>6, LaneParts DEF Request, Accepting
<1>17. \A r \in Replicas \ {odd} : local'[r] = m
  BY <1>1, <1>13, LaneParts DEF Carries
<1>18. Turns(arrived, carried, held, c, n, m)
  BY <1>1, <1>4, <1>5, <1>11, <1>14, <1>15, <1>16 DEF Turns, m
<1> QED
  BY <1>3, <1>8, <1>11, <1>17, <1>18

-----------------------------------------------------------------------------
(* The replies under way.                                                  *)

(* The reply to the latest command is the only one, once it is the first.  *)
LEMMA MatchesAnswered ==
    ASSUME RepliesOK, command = NoPacket, NEW arrived \in 0..Len(replies), Matches(arrived)
    PROVE  /\ Answered /\ Len(replies) = 1 /\ arrived = 1
           /\ Head(replies) = replies[Len(replies)]
<1>1. replies \in Seq(Answers) /\ Len(replies) \in Nat /\ Len(replies) >= 1
      /\ arrived \in Nat /\ arrived >= 1 /\ arrived <= Len(replies)
  BY DEF RepliesOK, Matches
<1>2. replies # <<>> /\ Head(replies) = replies[1] /\ Current(1)
  BY <1>1 DEF Matches, Current
<1>3. ~(1 < Len(replies))
  <2>1. 1 \in 1..Len(replies)
    BY <1>1
  <2> QED
    BY <1>1, <1>2, <2>1 DEF RepliesOK
<1>4. Len(replies) = 1 /\ arrived = 1
  <2>1. \A k, l \in Nat : k >= 1 /\ k <= l /\ ~(1 < l) => l = 1 /\ k = 1
    OBVIOUS
  <2> QED
    BY <1>1, <1>3, <2>1
<1> QED
  BY <1>1, <1>2, <1>4 DEF Answered

(* Before any reply is late, each is that to the latest command.           *)
LEMMA NoneLate ==
    ASSUME Typed, RepliesOK, faults.late = 0, command = NoPacket,
           NEW arrived \in 0..Len(replies), arrived > 0
    PROVE  Matches(arrived)
<1>1. replies \in Seq(Answers) /\ Len(replies) >= 1
  BY DEF RepliesOK
<1>2. Head(replies) = replies[1] /\ 1 \in 1..Len(replies) /\ replies[1] \in Answers
  BY <1>1
<1>3. PICK age \in 0..faults.late : note.txn = Wrap(replies[1].txn + age)
  BY <1>2 DEF RepliesOK
<1>4. age = 0 /\ replies[1].txn \in 0..TxnIds - 1
  BY <1>2, <1>3 DEF Answers
<1>5. note.txn = replies[1].txn
  <2> DEFINE t == replies[1].txn
  <2>1. t \in Nat /\ t < TxnIds /\ age = 0 /\ note.txn = Wrap(t + age)
    BY <1>3, <1>4, DownConsts
  <2> HIDE DEF t
  <2>2. t + age = t
    BY <2>1
  <2>3. note.txn = t
    BY <2>1, <2>2 DEF Wrap
  <2> QED
    BY <2>3 DEF t
<1> QED
  BY <1>2, <1>5 DEF Matches

LEMMA ClipReplies ==
    ASSUME Distinct, Typed, RepliesOK, NEW held, NEW arrived \in 0..Len(replies),
           NEW carried \in {0, 1}, NEW c \in Notes, NEW n \in Notes, NEW m,
           Turns(arrived, carried, held, c, n, m), Waiting(held), Starting
    PROVE  /\ RepliesOK'
           /\ faults' \in [lost : Nat, late : 0..MaxLate, upsets : Nat, reboots : Nat]
           /\ faults'.lost = faults.lost /\ faults'.reboots = faults.reboots
           /\ faults'.late >= faults.late
           /\ faults'.late = faults.late => arrived = Len(replies)
           /\ note'.txn \in 0..TxnIds - 1
           /\ command' = NoPacket => replies' = <<>>
           /\ (command' = NoPacket) <=> n.state \in {"INITIAL_STATE", "WAITING_FOR_STREAM"}
<1> DEFINE left == Len(replies) - arrived
<1>1. /\ replies \in Seq(Answers) /\ Len(replies) \in Nat /\ arrived \in Nat
      /\ left \in Nat /\ Len(replies) <= faults.late + 1
      /\ faults \in [lost : Nat, late : 0..MaxLate, upsets : Nat, reboots : Nat]
      /\ note.txn \in 0..TxnIds - 1 /\ faults.late \in Nat
      /\ command = NoPacket /\ replies' = SubSeq(replies, arrived + 1, Len(replies))
      /\ arrived < Len(replies) => faults.late < MaxLate
      /\ faults' = [faults EXCEPT !.late = IF arrived < Len(replies) THEN @ + 1 ELSE @]
  BY DEF RepliesOK, Typed, Turns, Carries
<1>2. /\ faults' \in [lost : Nat, late : 0..MaxLate, upsets : Nat, reboots : Nat]
      /\ faults'.lost = faults.lost /\ faults'.reboots = faults.reboots
      /\ faults'.late = IF left > 0 THEN faults.late + 1 ELSE faults.late
  <2>1. CASE left > 0
    <3>1. arrived < Len(replies) /\ faults.late + 1 \in 0..MaxLate
      BY <1>1, <2>1, DownConsts
    <3>2. faults' = [faults EXCEPT !.late = faults.late + 1]
      BY <1>1, <3>1
    <3> QED
      BY <1>1, <2>1, <3>1, <3>2
  <2>2. CASE ~(left > 0)
    <3>1. ~(arrived < Len(replies))
      BY <1>1, <2>2
    <3>2. faults' = [faults EXCEPT !.late = faults.late]
      BY <1>1, <3>1
    <3> QED
      BY <1>1, <2>2, <3>2
  <2> QED
    BY <2>1, <2>2
<1>3. /\ replies' \in Seq(Answers) /\ Len(replies') = left
      /\ \A i \in 1..left : replies'[i] = replies[arrived + i]
  BY <1>1
<1>4. note'.txn = IF command' = NoPacket THEN note.txn ELSE NextTxn(note.txn)
  BY DEF Turns
<1>5. NextTxn(note.txn) \in 0..TxnIds - 1
  BY <1>1, Wraps
<1>6. (command' = NoPacket) <=> n.state \in {"INITIAL_STATE", "WAITING_FOR_STREAM"}
  BY Commanded DEF Turns
<1>7. ASSUME command' = NoPacket PROVE left = 0
  <2>1. n.state \in {"INITIAL_STATE", "WAITING_FOR_STREAM"}
    BY <1>6, <1>7
  <2>2. c = n
    BY <2>1 DEF Turns
  <2>3. note.state \in {"WAITING_FOR_STREAM"} \/ Matches(arrived)
    BY <2>1, <2>2 DEF Turns, Completes, Typed, Notes
  <2>4. CASE note.state = "WAITING_FOR_STREAM"
    BY <1>1, <2>4 DEF Waiting
  <2>5. CASE Matches(arrived)
    BY <1>1, <2>5, MatchesAnswered
  <2> QED
    BY <2>3, <2>4, <2>5
<1>8. ASSUME NEW i \in 1..left
      PROVE  /\ \E age \in 0..faults'.late : note'.txn = Wrap(replies'[i].txn + age)
             /\ note'.txn # replies'[i].txn
  <2>1. left > 0 /\ command' # NoPacket
    BY <1>1, <1>7
  <2> DEFINE t == replies[arrived + i].txn
  <2>2. arrived + i \in 1..Len(replies)
    BY <1>1
  <2>3. PICK age \in 0..faults.late : note.txn = Wrap(t + age)
    BY <2>2 DEF RepliesOK
  <2>4. replies[arrived + i] \in Answers
    BY <1>1, <2>2
  <2>5. t \in 0..TxnIds - 1
    BY <2>4 DEF Answers
  <2>6. age \in 0..TxnIds - 2 /\ age + 1 \in 1..TxnIds - 1 /\ age + 1 \in 0..faults'.late
    <3>1. faults.late < MaxLate /\ faults'.late = faults.late + 1
      BY <1>1, <1>2, <2>1
    <3>2. faults.late \in Nat /\ MaxLate < TxnIds
      BY <1>1 DEF Distinct
    <3> QED
      BY <3>1, <3>2, DownConsts
  <2>7. NextTxn(note.txn) = Wrap(note.txn + 1)
    BY <1>1, Wraps
  <2> HIDE DEF t
  <2>8. NextTxn(note.txn) = Wrap(t + (age + 1)) /\ Wrap(t + (age + 1)) # t
    BY <2>3, <2>5, <2>6, <2>7, Wraps
  <2>9. note'.txn = NextTxn(note.txn) /\ replies'[i].txn = t
    BY <1>3, <1>4, <2>1 DEF t
  <2> QED
    BY <2>6, <2>8, <2>9
<1>9. RepliesOK'
  <2>1. Len(replies') <= faults'.late + (IF command' = NoPacket THEN 1 ELSE 0)
    BY <1>1, <1>2, <1>3
  <2>2. \A i \in 1..Len(replies') :
           /\ \E age \in 0..faults'.late : note'.txn = Wrap(replies'[i].txn + age)
           /\ i < Len(replies') \/ command' # NoPacket => replies'[i].txn # note'.txn
    BY <1>3, <1>8
  <2>3. (replies \in Seq(Answers))'
    BY <1>3 DEF Answers
  <2>4. (\A i \in 1..Len(replies) :
           /\ \E age \in 0..faults.late : note.txn = Wrap(replies[i].txn + age)
           /\ i < Len(replies) \/ command # NoPacket => ~Current(i))'
    BY <2>2 DEF Current, Wrap
  <2> QED
    BY <2>1, <2>3, <2>4 DEF RepliesOK
<1>10. /\ faults'.late >= faults.late
       /\ faults'.late = faults.late => arrived = Len(replies)
  BY <1>1, <1>2
<1>11. note'.txn \in 0..TxnIds - 1
  BY <1>1, <1>4, <1>5
<1>12. command' = NoPacket => replies' = <<>>
  BY <1>3, <1>7
<1> QED
  BY <1>2, <1>6, <1>9, <1>10, <1>11, <1>12

-----------------------------------------------------------------------------
(* The phases of a message after a turn of the clip.                       *)

LEMMA ClipPhase ==
    ASSUME Distinct, Typed, RepliesOK, RadioOK, NEW held \in 0..received, Phase(held),
           NEW arrived \in 0..Len(replies), NEW carried \in {0, 1},
           NEW c \in Notes, NEW n \in Notes, NEW m \in 0..received',
           Turns(arrived, carried, held, c, n, m)
    PROVE  Phase(m)'
<1> DEFINE States == {"INITIAL_STATE", "QUERY_COMMON_CONFIG", "DISABLE_TRANSMIT",
                      "WAITING_FOR_STREAM", "WRITE_RADIO_MEMORY", "START_TRANSMIT",
                      "MONITOR_TRANSMIT"}
<1>1. /\ note.state \in States /\ c.state \in States /\ n.state \in States
      /\ note.length \in Int /\ received \in Nat /\ mem \in Nat /\ mem <= received
      /\ faults.lost \in Nat /\ faults.late \in Nat /\ faults.reboots \in Nat
  <2>1. mem \in 0..received
    BY DEF Typed, TypeOK
  <2> QED
    BY <2>1 DEF Typed, Notes
<1>2. /\ command = NoPacket /\ UNCHANGED <<reg, mem, air>> /\ received' = received + carried
      /\ note' = [state |-> n.state, length |-> n.length,
                  txn |-> IF command' = NoPacket THEN note.txn ELSE NextTxn(note.txn)]
  BY DEF Turns, Carries
<1>3. note'.state = n.state /\ note'.length = n.length
  BY <1>2
<1>4. /\ RepliesOK' /\ faults'.lost = faults.lost /\ faults'.reboots = faults.reboots
      /\ faults'.late \in Nat /\ faults'.late >= faults.late
      /\ faults'.late = faults.late => arrived = Len(replies)
      /\ command' = NoPacket => replies' = <<>>
      /\ (command' = NoPacket) <=> n.state \in {"INITIAL_STATE", "WAITING_FOR_STREAM"}
  <2>1. Waiting(held) /\ Starting
    BY DEF Phase
  <2> QED
    BY <2>1, ClipReplies, DownConsts
<1>5. ~Answered'
  BY <1>4 DEF Answered
<1>6. /\ Idle' = Idle /\ Begun' = Begun /\ Done' = Done /\ LastByte' = LastByte
      /\ \A x : Follows(x)' <=> Follows(x)
  <2>1. Idle' = Idle /\ LastByte' = LastByte
    BY <1>2 DEF Idle, LastByte
  <2>2. Done' = Done
    BY <1>2, <2>1 DEF Done, Length
  <2>3. \A x : Follows(x)' <=> Follows(x)
    BY <1>2, <1>4, <2>1 DEF Follows, Last, Length
  <2> QED
    BY <2>1, <2>2, <2>3 DEF Begun
<1>7. /\ c.state = "WAITING_FOR_STREAM" /\ m # 0 =>
            n.state = "WRITE_RADIO_MEMORY" /\ n.length = Length(m)
      /\ ~(c.state = "WAITING_FOR_STREAM" /\ m # 0) => n = c
      /\ m = Due(c, Kept(held), Arriving(carried)) /\ Completes(arrived, c)
      /\ wanted' = IF n.state \in {"WAITING_FOR_STREAM", "MONITOR_TRANSMIT"} /\ m = 0 THEN 1 ELSE 0
      /\ carried = 1 => held = 0 /\ note.state \in {"WAITING_FOR_STREAM", "MONITOR_TRANSMIT"}
  BY DEF Turns
<1>8. Matches(arrived) => /\ Answered /\ Len(replies) = 1
                          /\ Head(replies) = replies[Len(replies)]
  BY <1>2, MatchesAnswered
<1>9. /\ CommandOK(held) /\ Starting /\ Waiting(held) /\ Writing(held)
      /\ Transmitting(held) /\ Monitoring(held) /\ Wanted(held)
  BY DEF Phase
<1>10. Done => \A x : (x = mem + 1 => Follows(x)) /\ (mem > 0 /\ x = mem => ~Follows(x))
  BY <1>1 DEF Done, Follows, Last
<1>11. CommandOK(m)'
  <2> SUFFICES ASSUME command' # NoPacket PROVE CommandOK(m)'
    BY DEF CommandOK
  <2>1. /\ n.state \in States \ {"INITIAL_STATE", "WAITING_FOR_STREAM"}
        /\ note'.txn = NextTxn(n.txn) /\ command' = NextCommand(Lane(n, m))
    BY <1>1, <1>2, <1>4 DEF Turns
  <2>2. CASE n.state = "QUERY_COMMON_CONFIG"
    BY <1>3, <2>1, <2>2, Commanded DEF CommandOK
  <2>3. CASE n.state = "DISABLE_TRANSMIT"
    BY <1>3, <2>1, <2>3, Commanded DEF CommandOK
  <2>4. CASE n.state = "WRITE_RADIO_MEMORY"
    BY <1>3, <2>1, <2>4, Commanded DEF CommandOK
  <2>5. CASE n.state = "START_TRANSMIT"
    BY <1>3, <2>1, <2>5, Commanded DEF CommandOK
  <2>6. CASE n.state = "MONITOR_TRANSMIT"
    BY <1>3, <2>1, <2>6, Commanded DEF CommandOK
  <2> QED
    BY <2>1, <2>2, <2>3, <2>4, <2>5, <2>6
<1>12. Starting'
  <2> SUFFICES ASSUME n.state \in {"INITIAL_STATE", "QUERY_COMMON_CONFIG", "DISABLE_TRANSMIT"}
               PROVE  /\ faults.reboots = 0 => received' = 0 /\ air = <<>> /\ Idle
                      /\ n.state = "INITIAL_STATE" => replies' = <<>>
    BY <1>2, <1>3, <1>4, <1>5, <1>6 DEF Starting
  <2>1. n = c
    BY <1>7
  <2>2. note.state \in {"INITIAL_STATE", "QUERY_COMMON_CONFIG", "DISABLE_TRANSMIT"}
    BY <1>1, <1>7, <2>1 DEF Completes
  <2>3. carried = 0
    BY <1>7, <2>2
  <2> QED
    BY <1>1, <1>2, <1>4, <1>9, <2>2, <2>3 DEF Starting
<1>13. Waiting(m)'
  <2> SUFFICES ASSUME n.state = "WAITING_FOR_STREAM"
               PROVE  m = 0 /\ Idle /\ Follows(received' + 1) /\ replies' = <<>>
    BY <1>3, <1>6 DEF Waiting
  <2>1. n = c /\ m = 0 /\ replies' = <<>>
    BY <1>4, <1>7
  <2>2. CASE note.state = "DISABLE_TRANSMIT"
    <3>1. Answered /\ carried = 0
      BY <1>7, <1>8, <2>1, <2>2 DEF Completes
    <3>2. Idle
      BY <1>9, <2>2, <3>1 DEF Starting
    <3>3. Follows(received + 1)
      <4>1. air # <<>> => faults.reboots > 0 /\ LastByte.message <= mem /\ LastByte.message \in Nat
        <5>1. HAVE air # <<>>
        <5>2. LastByte.message \in Nat
          BY <5>1, LastByteType
        <5> QED
          BY <1>1, <1>9, <2>2, <5>1, <5>2 DEF Starting, RadioOK
      <4> QED
        BY <1>1, <4>1 DEF Follows
    <3> QED
      BY <1>1, <1>2, <2>1, <3>1, <3>2, <3>3
  <2>3. CASE note.state = "WAITING_FOR_STREAM"
    <3>1. carried = 0 /\ Idle /\ Follows(received + 1)
      BY <1>1, <1>7, <1>9, <2>1, <2>3 DEF Due, Kept, Arriving, Waiting
    <3> QED
      BY <1>1, <1>2, <2>1, <3>1
  <2>4. CASE note.state = "MONITOR_TRANSMIT"
    <3>1. held = 0 /\ carried = 0
      BY <1>1, <1>7, <2>1, <2>4 DEF Due, Kept, Arriving
    <3>2. Answered /\ replies[Len(replies)].data[2] = "IDLE"
      BY <1>7, <1>8, <2>1, <2>4 DEF Completes
    <3>3. Idle /\ Begun /\ received = mem
      BY <1>9, <2>4, <3>1, <3>2 DEF Monitoring
    <3>4. Follows(mem + 1)
      BY <1>10, <3>3 DEF Begun
    <3> QED
      BY <1>1, <1>2, <2>1, <3>1, <3>3, <3>4
  <2> QED
    BY <1>1, <1>7, <2>1, <2>2, <2>3, <2>4 DEF Completes
<1>14. Writing(m)'
  <2> SUFFICES ASSUME n.state = "WRITE_RADIO_MEMORY"
               PROVE  /\ m = received' /\ m > 0 /\ Idle /\ Follows(m)
                      /\ n.length = Length(m)
    BY <1>3, <1>5, <1>6 DEF Writing, Length
  <2>1. CASE n = c
    <3>1. note.state = "WRITE_RADIO_MEMORY"
      BY <1>1, <1>7, <2>1 DEF Completes
    <3>2. carried = 0 /\ m = held /\ n.length = note.length
      BY <1>7, <2>1, <3>1 DEF Due, Kept, Completes
    <3> QED
      BY <1>1, <1>2, <1>9, <3>1, <3>2 DEF Writing
  <2>2. CASE n # c
    <3>1. c.state = "WAITING_FOR_STREAM" /\ m # 0 /\ n.length = Length(m)
      BY <1>7, <2>2
    <3>2. CASE note.state = "DISABLE_TRANSMIT"
      BY <1>7, <3>1, <3>2 DEF Due, Kept, Arriving
    <3>3. CASE note.state = "WAITING_FOR_STREAM"
      <4>1. held = 0 /\ Idle /\ Follows(received + 1)
        BY <1>9, <3>3 DEF Waiting
      <4>2. carried = 1 /\ m = received + 1
        BY <1>7, <3>1, <3>3, <4>1 DEF Due, Kept, Arriving
      <4> QED
        BY <1>1, <1>2, <3>1, <4>1, <4>2
    <3>4. CASE note.state = "MONITOR_TRANSMIT"
      <4>1. Answered /\ replies[Len(replies)].data[2] = "IDLE"
        BY <1>7, <1>8, <3>1, <3>4 DEF Completes
      <4>2. /\ Idle /\ Begun /\ held \in {0, received}
            /\ received = IF held = 0 THEN mem ELSE mem + 1
        BY <1>9, <3>4, <4>1 DEF Monitoring
      <4>3. Follows(mem + 1)
        BY <1>10, <4>2 DEF Begun
      <4>4. m = IF held = 0 THEN Arriving(carried) ELSE held
        BY <1>7, <3>1, <3>4 DEF Due, Kept
      <4>5. m = mem + 1 /\ m = received'
        BY <1>1, <1>2, <1>7, <3>1, <4>2, <4>4 DEF Arriving
      <4> QED
        BY <1>1, <3>1, <4>2, <4>3, <4>5
    <3> QED
      BY <1>1, <1>7, <3>1, <3>2, <3>3, <3>4 DEF Completes
  <2> QED
    BY <2>1, <2>2
<1>15. Transmitting(m)'
  <2> SUFFICES ASSUME n.state = "START_TRANSMIT"
               PROVE  /\ mem = received' /\ mem > 0 /\ m \in {0, mem} /\ n.length = Length(mem)
                      /\ Begun \/ Follows(mem)
                      /\ faults'.lost + faults'.late = 0 => ~Begun
    BY <1>2, <1>3, <1>4, <1>5, <1>6 DEF Transmitting, Length
  <2>1. n = c
    BY <1>7
  <2>2. CASE note.state = "WRITE_RADIO_MEMORY"
    <3>1. Answered /\ carried = 0 /\ m = held /\ n.length = note.length
      BY <1>7, <1>8, <2>1, <2>2 DEF Completes, Due, Kept
    <3>2. mem = held /\ held = received /\ held > 0 /\ Idle /\ Follows(held) /\ note.length = Length(held)
      BY <1>9, <2>2, <3>1 DEF Writing
    <3>3. ~Begun
      BY <1>1, <1>10, <3>2 DEF Begun
    <3> QED
      BY <1>1, <1>2, <3>1, <3>2, <3>3
  <2>3. CASE note.state = "START_TRANSMIT"
    <3>1. /\ carried = 0 /\ m = 0 /\ n.length = note.length
          /\ ~(Matches(arrived) /\ Head(replies).op = "write")
      BY <1>7, <2>1, <2>3 DEF Completes, Due, Kept
    <3>2. /\ mem = received /\ mem > 0 /\ note.length = Length(mem) /\ (Begun \/ Follows(mem))
          /\ Answered => replies[Len(replies)].op = "write"
          /\ faults.lost + faults.late = 0 => replies # <<>>
      BY <1>2, <1>9, <2>3 DEF Transmitting
    <3>3. ~(faults'.lost + faults'.late = 0)
      <4> SUFFICES ASSUME faults'.lost + faults'.late = 0 PROVE FALSE
        OBVIOUS
      <4>1. faults.lost + faults.late = 0 /\ faults.late = 0 /\ faults'.late = faults.late
        BY <1>1, <1>4
      <4>2. arrived = Len(replies) /\ arrived > 0
        BY <1>4, <3>2, <4>1 DEF RepliesOK
      <4>3. Matches(arrived)
        BY <1>2, <4>1, <4>2, NoneLate
      <4> QED
        BY <1>8, <3>1, <3>2, <4>3
    <3> QED
      BY <1>1, <1>2, <3>1, <3>2, <3>3
  <2> QED
    BY <1>1, <1>7, <2>1, <2>2, <2>3 DEF Completes
<1>16. Monitoring(m)'
  <2> SUFFICES ASSUME n.state = "MONITOR_TRANSMIT"
               PROVE  /\ mem > 0 /\ Begun /\ n.length = Length(mem)
                      /\ m \in {0, received'} /\ received' = IF m = 0 THEN mem ELSE mem + 1
    BY <1>2, <1>3, <1>5, <1>6 DEF Monitoring, Length
  <2>1. n = c
    BY <1>7
  <2>2. CASE note.state = "START_TRANSMIT"
    <3>1. Answered /\ carried = 0 /\ m = 0 /\ n.length = note.length
      BY <1>7, <1>8, <2>1, <2>2 DEF Completes, Due, Kept, Arriving
    <3> QED
      BY <1>1, <1>2, <1>9, <2>2, <3>1 DEF Transmitting
  <2>3. CASE note.state = "MONITOR_TRANSMIT"
    <3>1. /\ mem > 0 /\ Begun /\ note.length = Length(mem)
          /\ held \in {0, received} /\ received = IF held = 0 THEN mem ELSE mem + 1
      BY <1>9, <2>3 DEF Monitoring
    <3>2. n.length = note.length /\ m = IF held = 0 THEN Arriving(carried) ELSE held
      BY <1>7, <2>1, <2>3 DEF Completes, Due, Kept
    <3> QED
      BY <1>1, <1>2, <1>7, <3>1, <3>2 DEF Arriving
  <2> QED
    BY <1>1, <1>7, <2>1, <2>2, <2>3 DEF Completes
<1>17. Wanted(m)'
  BY <1>3, <1>7 DEF Wanted
<1> QED
  BY <1>11, <1>12, <1>13, <1>14, <1>15, <1>16, <1>17 DEF Phase

-----------------------------------------------------------------------------
(* The steps.                                                              *)

(* What is on the air stays in order if nothing is added to it.            *)
LEMMA FramedStays ==
    ASSUME Typed, Framed, TypeOK', UNCHANGED air,
           faults' \in [lost : Nat, late : Nat, upsets : Nat, reboots : Nat],
           faults'.lost >= faults.lost, faults'.late >= faults.late,
           faults'.reboots >= faults.reboots
    PROVE  Framed'
<1>1. /\ faults.lost \in Nat /\ faults.late \in Nat /\ faults.reboots \in Nat
      /\ faults'.lost \in Nat /\ faults'.late \in Nat /\ faults'.reboots \in Nat
  BY DEF Typed
<1>2. /\ faults.lost + faults.late > 0 => faults'.lost + faults'.late > 0
      /\ faults.reboots > 0 => faults'.reboots > 0
  BY <1>1
<1> QED
  BY <1>2 DEF Framed, Last, Length

LEMMA RadioStays ==
    ASSUME Typed, RadioOK, UNCHANGED <<reg, mem, air>>, received' \in Nat, received' >= received,
           faults' \in [lost : Nat, late : Nat, upsets : Nat, reboots : Nat],
           faults'.lost >= faults.lost, faults'.late >= faults.late,
           faults'.reboots >= faults.reboots
    PROVE  RadioOK'
<1>1. /\ faults.lost \in Nat /\ faults.late \in Nat /\ faults.reboots \in Nat
      /\ faults'.lost \in Nat /\ faults'.late \in Nat /\ faults'.reboots \in Nat
      /\ received \in Nat /\ mem \in Nat
  <2>1. mem \in 0..received /\ received \in Nat
    BY DEF Typed, TypeOK
  <2> QED
    BY <2>1 DEF Typed
<1>2. /\ faults.lost + faults.late > 0 => faults'.lost + faults'.late > 0
      /\ faults.reboots > 0 => faults'.reboots > 0
  BY <1>1
<1>3. LastByte' = LastByte /\ Idle' = Idle /\ Length(mem)' = Length(mem)
  BY DEF LastByte, Idle, Length
<1>4. (Follows(mem) => Follows(mem)') /\ (Repeats(mem) => Repeats(mem)')
  BY <1>2, <1>3 DEF Follows, Repeats, Last, Length
<1>5. mem' <= received'
  BY <1>1 DEF RadioOK
<1> QED
  BY <1>3, <1>4, <1>5 DEF RadioOK

(* Whatever a replica holds is nothing, what it held, or what has arrived. *)
LEMMA OutcomeLocal ==
    ASSUME note \in Notes, replies \in Seq(Answers), received \in Nat,
           NEW arrived \in 0..Len(replies), NEW carried \in {0, 1}, NEW x \in 0..received
    PROVE  Outcome(arrived, carried, x).local \in 0..received + carried
<1>1. PICK c \in Notes : Completed(note, x, Packet(arrived)) = Lane(c, Kept(x))
  BY CompletedLane
<1> DEFINE m == Due(c, Kept(x), Arriving(carried))
<1>2. m \in 0..received + carried /\ 0 \in 0..received + carried
  BY DEF Due, Kept, Arriving
<1>3. \E n : Stream(arrived, carried, x) = Lane(n, m)
  BY <1>1, StreamedLane DEF Stream
<1>4. \A n : Checked(Lane(n, m)).local \in {0, m}
  BY LaneParts DEF Checked
<1> QED
  BY <1>2, <1>3, <1>4 DEF Outcome

LEMMA ClipStep ==
    ASSUME Distinct, DownInv, DownlinkClip
    PROVE  DownInv'
<1>1. /\ Typed /\ TypeOK /\ RepliesOK /\ RadioOK /\ Framed /\ note \in Notes
      /\ replies \in Seq(Answers) /\ received \in Nat
      /\ local \in [Replicas -> 0..received] /\ mem \in 0..received
  BY DEF DownInv, Typed, TypeOK, RepliesOK, Notes
<1>2. PICK held \in 0..received, odd \in Replicas :
         Phase(held) /\ \A r \in Replicas \ {odd} : local[r] = held
  BY DEF DownInv, Agreed
<1>3. PICK arrived \in 0..Len(replies), carried \in {0, 1}, c \in Notes, n \in Notes,
           m \in 0..received' :
              /\ Turns(arrived, carried, held, c, n, m)
              /\ \A r \in Replicas \ {odd} : local'[r] = m
  BY <1>1, <1>2, Turn
<1>4. Phase(m)'
  BY <1>1, <1>2, <1>3, ClipPhase
<1>5. Waiting(held) /\ Starting
  BY <1>2 DEF Phase
<1>6. /\ RepliesOK'
      /\ faults' \in [lost : Nat, late : 0..MaxLate, upsets : Nat, reboots : Nat]
      /\ faults'.lost = faults.lost /\ faults'.reboots = faults.reboots
      /\ faults'.late >= faults.late /\ note'.txn \in 0..TxnIds - 1
  BY <1>1, <1>3, <1>5, ClipReplies
<1>7. /\ UNCHANGED <<reg, mem, air>> /\ received' = received + carried
      /\ local' = [r \in Replicas |-> Outcome(arrived, carried, local[r]).local]
      /\ note' = [state |-> n.state, length |-> n.length,
                  txn |-> IF command' = NoPacket THEN note.txn ELSE NextTxn(note.txn)]
      /\ wanted' \in {0, 1}
  BY <1>3 DEF Turns, Carries
<1>8. received' \in Nat /\ received' >= received /\ 0..received \subseteq 0..received'
  BY <1>1, <1>7
<1>9. note' \in Notes /\ note'.state = n.state /\ note'.length = n.length
  BY <1>6, <1>7 DEF Notes
<1>10. local' \in [Replicas -> 0..received']
  BY <1>1, <1>7, OutcomeLocal
<1>11. n.length > 0 <=> n.state \in {"WRITE_RADIO_MEMORY", "START_TRANSMIT", "MONITOR_TRANSMIT"}
  <2>1. c.length > 0 <=> c.state \in {"WRITE_RADIO_MEMORY", "START_TRANSMIT", "MONITOR_TRANSMIT"}
    <3>1. note.length > 0 <=>
            note.state \in {"WRITE_RADIO_MEMORY", "START_TRANSMIT", "MONITOR_TRANSMIT"}
      BY <1>1 DEF TypeOK
    <3>2. Completes(arrived, c)
      BY <1>3 DEF Turns
    <3>3. note.state = "MONITOR_TRANSMIT" /\ c.state = "WAITING_FOR_STREAM" => ~(c.length > 0)
      BY <3>2 DEF Completes
    <3>4. ~(note.state = "MONITOR_TRANSMIT" /\ c.state = "WAITING_FOR_STREAM") => c.length = note.length
      BY <3>2 DEF Completes
    <3>5. /\ note.state \in {"WRITE_RADIO_MEMORY", "START_TRANSMIT", "MONITOR_TRANSMIT"} =>
                \/ c.state \in {"WRITE_RADIO_MEMORY", "START_TRANSMIT", "MONITOR_TRANSMIT"}
                \/ note.state = "MONITOR_TRANSMIT" /\ c.state = "WAITING_FOR_STREAM"
          /\ c.state \in {"WRITE_RADIO_MEMORY", "START_TRANSMIT", "MONITOR_TRANSMIT"} =>
                note.state \in {"WRITE_RADIO_MEMORY", "START_TRANSMIT", "MONITOR_TRANSMIT"}
      BY <1>1, <3>2 DEF Completes, Notes
    <3> QED
      BY <3>1, <3>3, <3>4, <3>5
  <2>2. CASE c.state = "WAITING_FOR_STREAM" /\ m # 0
    <3>1. n.state = "WRITE_RADIO_MEMORY" /\ n.length = Length(m)
      BY <1>3, <2>2 DEF Turns
    <3>2. Length(m) \in 1..MaxLength
      BY <1>8, LengthType, m \in Nat
    <3> QED
      BY <3>1, <3>2, DownConsts
  <2>3. CASE ~(c.state = "WAITING_FOR_STREAM" /\ m # 0)
    BY <1>3, <2>1, <2>3 DEF Turns
  <2> QED
    BY <2>2, <2>3
<1>12. Len(replies') <= MaxLate + 1
  <2>1. Len(replies') <= faults'.late + 1 /\ Len(replies') \in Nat /\ faults'.late \in 0..MaxLate
    BY <1>6 DEF RepliesOK
  <2> QED
    BY <2>1, DownConsts
<1>13. TypeOK'
  BY <1>1, <1>7, <1>8, <1>9, <1>10, <1>11, <1>12 DEF TypeOK, Notes
<1>14. Typed'
  BY <1>1, <1>6, <1>7, <1>8, <1>9, <1>13 DEF Typed, Notes
<1>15. faults' \in [lost : Nat, late : Nat, upsets : Nat, reboots : Nat]
       /\ faults'.lost >= faults.lost /\ faults'.reboots >= faults.reboots
  BY <1>1, <1>6, DownConsts DEF Typed
<1>16. RadioOK' /\ Framed'
  BY <1>1, <1>6, <1>7, <1>8, <1>13, <1>15, FramedStays, RadioStays
<1>17. Agreed(m)'
  BY <1>3 DEF Agreed
<1> QED
  BY <1>3, <1>4, <1>6, <1>14, <1>16, <1>17 DEF DownInv

LEMMA DownInit ==
    ASSUME Init
    PROVE  DownInv
<1>1. /\ note = [state |-> "INITIAL_STATE", length |-> 0, txn |-> 0]
      /\ local = [r \in Replicas |-> 0] /\ wanted = 0 /\ received = 0
      /\ command = NoPacket /\ replies = <<>> /\ mem = 0 /\ air = <<>>
      /\ reg = [PTR |-> 0, LEN |-> 0, TX_STATE |-> "IDLE"]
      /\ faults = [lost |-> 0, late |-> 0, upsets |-> 0, reboots |-> 0]
  BY DEF Init, InitialNote, rmap_synch_reset
<1>2. note.state = "INITIAL_STATE" /\ note.length = 0
  BY <1>1
<1>3. TypeOK
  BY <1>1, DownConsts DEF TypeOK
<1>4. Typed
  BY <1>1, <1>3, DownConsts DEF Typed
<1>5. RepliesOK
  <2>1. <<>> \in Seq(Answers) /\ Len(<<>>) = 0
    OBVIOUS
  <2> QED
    BY <1>1, <2>1 DEF RepliesOK
<1>6. RadioOK
  BY <1>1 DEF RadioOK, Idle
<1>7. Framed
  BY <1>1, <1>3 DEF Framed
<1>8. Phase(0)
  BY <1>1, <1>2 DEF Phase, CommandOK, Starting, Waiting, Writing, Transmitting, Monitoring, Wanted,
     Answered, Idle
<1>9. Agreed(0)
  <2>1. Replicas # {}
    BY RadioDownlinkAssumption, FS_EmptySet
  <2> QED
    BY <1>1, <2>1 DEF Agreed
<1> QED
  BY <1>1, <1>4, <1>5, <1>6, <1>7, <1>8, <1>9 DEF DownInv

LEMMA UpsetStep ==
    ASSUME DownInv, Upset
    PROVE  DownInv'
<1>1. PICK held \in 0..received : Agreed(held) /\ Phase(held)
  BY DEF DownInv
<1>2. Typed /\ TypeOK /\ RepliesOK /\ RadioOK /\ Framed /\ received \in Nat
  BY DEF DownInv, Typed
<1>3. PICK r \in Replicas, message \in 0..received :
         /\ \A s, t \in Replicas : local[s] = local[t]
         /\ local' = [local EXCEPT ![r] = message]
  BY DEF Upset
<1>4. /\ UNCHANGED <<note, wanted, received, command, replies, reg, mem, air>>
      /\ faults' = [faults EXCEPT !.upsets = @ + 1]
  BY DEF Upset
<1>5. local \in [Replicas -> 0..received] /\ local' \in [Replicas -> 0..received]
  BY <1>2, <1>3 DEF TypeOK
<1>6. /\ faults' \in [lost : Nat, late : 0..MaxLate, upsets : Nat, reboots : Nat]
      /\ faults' \in [lost : Nat, late : Nat, upsets : Nat, reboots : Nat]
      /\ faults'.lost = faults.lost /\ faults'.late = faults.late
      /\ faults'.reboots = faults.reboots
      /\ faults.lost \in Nat /\ faults.late \in Nat /\ faults.reboots \in Nat
  <2>1. faults \in [lost : Nat, late : 0..MaxLate, upsets : Nat, reboots : Nat]
    BY <1>2 DEF Typed
  <2>2. faults'.late = faults.late /\ faults.late \in Nat
    BY <2>1, <1>4, DownConsts
  <2> QED
    BY <2>1, <2>2, <1>4
<1>7. TypeOK'
  BY <1>2, <1>4, <1>5 DEF TypeOK
<1>8. Typed'
  BY <1>2, <1>4, <1>6, <1>7 DEF Typed
<1>9. RepliesOK'
  BY <1>2, <1>4, <1>6 DEF RepliesOK, Current
<1>10. RadioOK' /\ Framed'
  BY <1>2, <1>4, <1>6, <1>7, FramedStays, RadioStays
<1>11. Phase(held)'
  BY <1>1, <1>4, <1>6 DEF Phase, CommandOK, Starting, Waiting, Writing, Transmitting, Monitoring,
     Wanted, Answered, Current, Idle, Begun, Done, LastByte, Follows, Last, Length
<1>12. Agreed(held)'
  <2>1. PICK odd \in Replicas : \A s \in Replicas \ {odd} : local[s] = held
    BY <1>1 DEF Agreed
  <2>2. PICK s \in Replicas : s # odd
    <3>1. Replicas # {odd}
      BY RadioDownlinkAssumption, FS_Singleton
    <3> QED
      BY <3>1
  <2>3. \A t \in Replicas : local[t] = held
    BY <1>3, <2>1, <2>2
  <2>4. \A t \in Replicas \ {r} : local'[t] = held
    BY <1>3, <1>5, <2>3
  <2> QED
    BY <2>4 DEF Agreed
<1> QED
  BY <1>1, <1>4, <1>8, <1>9, <1>10, <1>11, <1>12 DEF DownInv

LEMMA RebootStep ==
    ASSUME DownInv, Reboot
    PROVE  DownInv'
<1>1. Typed /\ TypeOK /\ RadioOK /\ Framed /\ received \in Nat
  BY DEF DownInv, Typed
<1>2. /\ note' = [state |-> "INITIAL_STATE", length |-> 0, txn |-> 0]
      /\ local' = [r \in Replicas |-> 0] /\ wanted' = 0
      /\ command' = NoPacket /\ replies' = <<>>
      /\ UNCHANGED <<received, reg, mem, air>>
      /\ faults' = [faults EXCEPT !.reboots = @ + 1]
  BY DEF Reboot, InitialNote, rmap_synch_reset
<1>3. note'.state = "INITIAL_STATE" /\ note'.length = 0
  BY <1>2
<1>4. /\ faults' \in [lost : Nat, late : 0..MaxLate, upsets : Nat, reboots : Nat]
      /\ faults' \in [lost : Nat, late : Nat, upsets : Nat, reboots : Nat]
      /\ faults'.lost = faults.lost /\ faults'.late = faults.late
      /\ faults'.reboots = faults.reboots + 1
      /\ faults.lost \in Nat /\ faults.late \in Nat /\ faults.reboots \in Nat
  <2>1. faults \in [lost : Nat, late : 0..MaxLate, upsets : Nat, reboots : Nat]
    BY <1>1 DEF Typed
  <2>2. faults'.late = faults.late /\ faults.late \in Nat
    BY <2>1, <1>2, DownConsts
  <2> QED
    BY <2>1, <2>2, <1>2
<1>5. TypeOK'
  <2>1. Len(replies') = 0
    BY <1>2
  <2> QED
    BY <1>1, <1>2, <1>3, <2>1, DownConsts DEF TypeOK
<1>6. Typed'
  BY <1>1, <1>2, <1>4, <1>5, DownConsts DEF Typed
<1>7. RepliesOK'
  <2>1. <<>> \in Seq(Answers) /\ Len(<<>>) = 0
    OBVIOUS
  <2> QED
    BY <1>2, <1>4, <2>1 DEF RepliesOK, Answers
<1>8. RadioOK' /\ Framed'
  BY <1>1, <1>2, <1>4, <1>5, FramedStays, RadioStays
<1>9. Phase(0)'
  BY <1>2, <1>3, <1>4 DEF Phase, CommandOK, Starting, Waiting, Writing, Transmitting, Monitoring,
     Wanted, Answered
<1>10. Agreed(0)'
  <2>1. Replicas # {}
    BY RadioDownlinkAssumption, FS_EmptySet
  <2> QED
    BY <1>2, <2>1 DEF Agreed
<1> QED
  BY <1>1, <1>2, <1>6, <1>7, <1>8, <1>9, <1>10 DEF DownInv

LEMMA TransmitStep ==
    ASSUME DownInv, Transmit
    PROVE  DownInv'
<1>1. PICK held \in 0..received : Agreed(held) /\ Phase(held)
  BY DEF DownInv
<1>2. Typed /\ TypeOK /\ RepliesOK /\ RadioOK /\ Framed /\ received \in Nat
  BY DEF DownInv, Typed
<1> DEFINE b == [message |-> mem, place |-> reg.PTR + 1]
<1>3. /\ reg.TX_STATE = "ACTIVE" /\ air' = Append(air, b)
      /\ reg' = [PTR |-> reg.PTR + 1, LEN |-> reg.LEN - 1,
                 TX_STATE |-> IF reg.LEN = 1 THEN "IDLE" ELSE "ACTIVE"]
      /\ UNCHANGED <<note, local, wanted, received, command, replies, mem, faults>>
  BY DEF Transmit
<1>4. /\ ~Idle /\ reg.LEN > 0 /\ reg.PTR \in Nat /\ reg.LEN \in Nat /\ mem \in Nat
      /\ reg.PTR + reg.LEN = Length(mem) /\ Length(mem) \in 1..MaxLength /\ mem <= received
      /\ IF reg.PTR = 0 THEN Follows(mem) \/ Repeats(mem)
         ELSE air # <<>> /\ LastByte = [message |-> mem, place |-> reg.PTR]
  <2>1. mem \in 0..received /\ reg \in [PTR : Nat, LEN : Nat, TX_STATE : {"IDLE", "ACTIVE"}]
    BY <1>2 DEF TypeOK, Typed
  <2>2. mem \in Nat
    BY <1>2, <2>1
  <2>3. Length(mem) \in 1..MaxLength
    BY <2>2, LengthType
  <2> QED
    BY <1>2, <1>3, <2>1, <2>2, <2>3 DEF RadioOK, Idle
<1>5. /\ reg'.PTR = reg.PTR + 1 /\ reg'.LEN = reg.LEN - 1
      /\ Idle' <=> reg.LEN = 1
      /\ reg'.TX_STATE \in {"IDLE", "ACTIVE"}
  BY <1>3 DEF Idle
<1>6. /\ reg' \in [PTR : Nat, LEN : Nat, TX_STATE : {"IDLE", "ACTIVE"}]
      /\ reg'.PTR + reg'.LEN <= MaxLength
  BY <1>3, <1>4, <1>5, DownConsts
<1>7. /\ air \in Seq([message : Nat, place : Nat]) /\ Len(air) \in Nat
      /\ b \in [message : Nat, place : Nat] /\ b.message = mem /\ b.place = reg.PTR + 1
  BY <1>2, <1>4 DEF Typed
<1>8. /\ air' \in Seq([message : Nat, place : Nat]) /\ Len(air') = Len(air) + 1
      /\ air'[Len(air) + 1] = b /\ \A i \in 1..Len(air) : air'[i] = air[i]
      /\ air' # <<>>
  <2> HIDE DEF b
  <2> QED
    BY <1>3, <1>7, AppendProperties
<1>9. LastByte' = b
  BY <1>8 DEF LastByte
<1>10. TypeOK'
  BY <1>2, <1>3, <1>5, <1>6 DEF TypeOK
<1>11. Typed'
  BY <1>2, <1>3, <1>6, <1>8, <1>10 DEF Typed
<1>12. RepliesOK'
  BY <1>2, <1>3 DEF RepliesOK, Current
<1>13. air # <<>> => Len(air) >= 1 /\ LastByte = air[Len(air)]
  BY <1>2, LastByteType DEF LastByte
<1>14. Framed'
  <2>1. air'[1].place = 1
    <3>1. CASE air = <<>>
      <4>1. Len(air) = 0
        BY <3>1
      <4>2. reg.PTR = 0
        BY <1>4, <3>1
      <4> QED
        BY <1>7, <1>8, <4>1, <4>2
    <3>2. CASE air # <<>>
      BY <1>2, <1>7, <1>8, <1>13, <3>2 DEF Framed
    <3> QED
      BY <3>1, <3>2
  <2> DEFINE Ordered(before, byte) ==
        \/ byte.message = before.message /\ byte.place = before.place + 1
        \/ byte.place = 1 /\ byte.message = before.message /\ faults.lost + faults.late > 0
        \/ byte.place = 1 /\ byte.message = before.message + 1 /\ Last(before)
        \/ byte.place = 1 /\ byte.message > before.message /\ faults.reboots > 0
  <2>2. \A i \in 2..Len(air) : Ordered(air[i - 1], air[i])
    BY <1>2 DEF Framed
  <2>3. Len(air) >= 1 => Ordered(air[Len(air)], b)
    <3>1. HAVE Len(air) >= 1
    <3>2. air # <<>>
      BY <3>1
    <3>3. LastByte = air[Len(air)]
      BY <1>13, <3>2
    <3>4. CASE reg.PTR = 0
      BY <1>4, <1>7, <3>2, <3>3, <3>4 DEF Follows, Repeats
    <3>5. CASE reg.PTR # 0
      BY <1>4, <1>7, <3>3, <3>5
    <3> QED
      BY <3>4, <3>5
  <2> HIDE DEF Ordered, b
  <2>4. \A i \in 2..Len(air') : Ordered(air'[i - 1], air'[i])
    <3> SUFFICES ASSUME NEW i \in 2..Len(air') PROVE Ordered(air'[i - 1], air'[i])
      OBVIOUS
    <3>1. CASE i \in 2..Len(air)
      <4>1. i \in 1..Len(air) /\ i - 1 \in 1..Len(air)
        BY <3>1
      <4> QED
        BY <1>8, <2>2, <3>1, <4>1
    <3>2. CASE i = Len(air) + 1
      <4>1. Len(air) >= 1 /\ i - 1 = Len(air) /\ Len(air) \in 1..Len(air)
        BY <1>7, <3>2
      <4> QED
        BY <1>8, <2>3, <3>2, <4>1
    <3> QED
      BY <1>7, <1>8, <3>1, <3>2
  <2>5. /\ faults' = faults
        /\ \A byte : Last(byte)' <=> Last(byte)
    BY <1>3 DEF Last, Length
  <2> QED
    BY <1>10, <2>1, <2>4, <2>5 DEF Framed, Ordered, Last, Length
<1>15. RadioOK'
  <2>1. Idle' => reg'.LEN = 0
    BY <1>4, <1>5
  <2>2. reg'.PTR # 0 /\ reg'.PTR + reg'.LEN = Length(mem) /\ (~Idle' => reg'.LEN > 0)
    BY <1>4, <1>5
  <2>3. LastByte' = [message |-> mem, place |-> reg'.PTR] /\ LastByte'.message = mem
    BY <1>5, <1>7, <1>9
  <2>4. Length(mem)' = Length(mem) /\ mem' = mem /\ received' = received
    BY <1>3 DEF Length
  <2> QED
    BY <1>4, <1>8, <2>1, <2>2, <2>3, <2>4 DEF RadioOK
<1>16. Begun'
  <2>1. CASE reg.LEN = 1
    <3>1. reg.PTR + 1 = Length(mem)
      BY <1>4, <2>1
    <3> QED
      BY <1>3, <1>8, <1>9, <3>1 DEF Begun, Done, Length
  <2>2. CASE reg.LEN # 1
    BY <1>5, <2>2 DEF Begun
  <2> QED
    BY <2>1, <2>2
<1>17. Begun
  BY <1>4 DEF Begun
<1>18. Answered' = Answered /\ Length(mem)' = Length(mem)
  BY <1>3 DEF Answered, Current, Length
<1>19. Phase(held)'
  <2>1. /\ CommandOK(held) /\ Starting /\ Waiting(held) /\ Writing(held)
        /\ Transmitting(held) /\ Monitoring(held) /\ Wanted(held)
    BY <1>1 DEF Phase
  <2>2. CommandOK(held)' /\ Wanted(held)'
    BY <1>3, <2>1 DEF CommandOK, Wanted
  <2>3. Starting' /\ Waiting(held)' /\ Writing(held)'
    BY <1>3, <1>4, <1>18, <2>1 DEF Starting, Waiting, Writing
  <2>4. Transmitting(held)' /\ Monitoring(held)'
    BY <1>3, <1>4, <1>16, <1>17, <1>18, <2>1 DEF Transmitting, Monitoring
  <2> QED
    BY <2>2, <2>3, <2>4 DEF Phase
<1>20. Agreed(held)'
  BY <1>1, <1>3 DEF Agreed
<1> QED
  BY <1>1, <1>3, <1>11, <1>12, <1>14, <1>15, <1>19, <1>20 DEF DownInv

(* What the radio does with a command, and what becomes of the reply.      *)
Handled(held, lost, reply) ==
    /\ reg' = IF lost = "command" THEN reg
              ELSE IF note.state = "DISABLE_TRANSMIT" THEN [PTR |-> 0, LEN |-> 0, TX_STATE |-> "IDLE"]
              ELSE IF note.state = "START_TRANSMIT"
                   THEN [PTR |-> 0, LEN |-> note.length, TX_STATE |-> "ACTIVE"]
              ELSE reg
    /\ mem' = IF lost # "command" /\ note.state = "WRITE_RADIO_MEMORY" THEN held ELSE mem
    /\ reply \in Answers /\ reply.txn = note.txn
    /\ note.state = "START_TRANSMIT" => reply.op = "write"
    /\ note.state = "MONITOR_TRANSMIT" => reply.data[2] = reg.TX_STATE
    /\ replies' = IF lost = "no" THEN Append(replies, reply) ELSE replies
    /\ faults' = IF lost = "no" THEN faults ELSE [faults EXCEPT !.lost = @ + 1]

LEMMA RadioHandling ==
    ASSUME NEW held, Typed, CommandOK(held), RadioHandles
    PROVE  /\ command # NoPacket /\ command' = NoPacket
           /\ note.state \in {"QUERY_COMMON_CONFIG", "DISABLE_TRANSMIT", "WRITE_RADIO_MEMORY",
                              "START_TRANSMIT", "MONITOR_TRANSMIT"}
           /\ UNCHANGED <<note, local, wanted, received, air>>
           /\ \E lost \in {"no", "command", "reply"}, reply \in Answers : Handled(held, lost, reply)
<1>1. PICK lost \in {"no", "command", "reply"} :
         /\ faults' = IF lost = "no" THEN faults ELSE [faults EXCEPT !.lost = @ + 1]
         /\ replies' = IF lost # "no" THEN replies
                       ELSE Append(replies, Reply(command, "OK", IF command.op = "read" THEN Data ELSE <<>>))
         /\ reg' = IF lost # "command" /\ command.op = "write" /\ command.addr = "registers"
                   THEN command.arg ELSE reg
         /\ mem' = IF lost # "command" /\ command.op = "write" /\ command.addr = "memory"
                   THEN command.arg ELSE mem
  BY DEF RadioHandles
<1>2. /\ command # NoPacket /\ command' = NoPacket
      /\ UNCHANGED <<note, local, wanted, received, air>>
  BY DEF RadioHandles
<1>3. /\ note.state \in {"QUERY_COMMON_CONFIG", "DISABLE_TRANSMIT", "WRITE_RADIO_MEMORY",
                         "START_TRANSMIT", "MONITOR_TRANSMIT"}
      /\ note.txn \in 0..TxnIds - 1
  BY <1>2 DEF CommandOK, Typed
<1>4. /\ reg.LEN \in 0..MaxLength /\ reg.TX_STATE \in {"IDLE", "ACTIVE"}
  <2>1. reg.PTR \in Nat /\ reg.LEN \in Nat /\ reg.PTR + reg.LEN <= MaxLength
        /\ reg.TX_STATE \in {"IDLE", "ACTIVE"}
    BY DEF Typed, TypeOK
  <2> QED
    BY <2>1, DownConsts
<1> DEFINE reply == Reply(command, "OK", IF command.op = "read" THEN Data ELSE <<>>)
<1>5. /\ reply.op = command.op /\ reply.txn = command.txn
      /\ reply.data = IF command.op = "read" THEN Data ELSE <<>>
      /\ reply = [op |-> command.op, txn |-> command.txn, status |-> "OK",
                  data |-> IF command.op = "read" THEN Data ELSE <<>>]
  BY DEF Reply
<1> HIDE DEF reply
<1>6. CASE note.state = "QUERY_COMMON_CONFIG"
  <2>1. command.op = "read" /\ command.txn = note.txn /\ command.addr = "config"
    BY <1>2, <1>6 DEF CommandOK
  <2>2. Data = <<0, 0, 0>>
    BY <2>1 DEF Data
  <2>3. reply \in Answers /\ reply.txn = note.txn
    BY <1>3, <1>5, <2>1, <2>2 DEF Answers
  <2>4. Handled(held, lost, reply)
    BY <1>1, <1>6, <2>1, <2>3 DEF Handled, reply
  <2> QED
    BY <1>2, <1>3, <2>3, <2>4
<1>7. CASE note.state = "DISABLE_TRANSMIT"
  <2>1. /\ command.op = "write" /\ command.txn = note.txn /\ command.addr = "registers"
        /\ command.arg = [PTR |-> 0, LEN |-> 0, TX_STATE |-> "IDLE"]
    BY <1>2, <1>7 DEF CommandOK
  <2>2. reply \in Answers /\ reply.txn = note.txn
    BY <1>3, <1>5, <2>1 DEF Answers
  <2>3. Handled(held, lost, reply)
    BY <1>1, <1>7, <2>1, <2>2 DEF Handled, reply
  <2> QED
    BY <1>2, <1>3, <2>2, <2>3
<1>8. CASE note.state = "WRITE_RADIO_MEMORY"
  <2>1. /\ command.op = "write" /\ command.txn = note.txn /\ command.addr = "memory"
        /\ command.arg = held
    BY <1>2, <1>8 DEF CommandOK
  <2>2. reply \in Answers /\ reply.txn = note.txn
    BY <1>3, <1>5, <2>1 DEF Answers
  <2>3. Handled(held, lost, reply)
    BY <1>1, <1>8, <2>1, <2>2 DEF Handled, reply
  <2> QED
    BY <1>2, <1>3, <2>2, <2>3
<1>9. CASE note.state = "START_TRANSMIT"
  <2>1. /\ command.op = "write" /\ command.txn = note.txn /\ command.addr = "registers"
        /\ command.arg = [PTR |-> 0, LEN |-> note.length, TX_STATE |-> "ACTIVE"]
    BY <1>2, <1>9 DEF CommandOK
  <2>2. reply \in Answers /\ reply.txn = note.txn /\ reply.op = "write"
    BY <1>3, <1>5, <2>1 DEF Answers
  <2>3. Handled(held, lost, reply)
    BY <1>1, <1>9, <2>1, <2>2 DEF Handled, reply
  <2> QED
    BY <1>2, <1>3, <2>2, <2>3
<1>10. CASE note.state = "MONITOR_TRANSMIT"
  <2>1. command.op = "read" /\ command.txn = note.txn /\ command.addr = "registers"
    BY <1>2, <1>10 DEF CommandOK
  <2>2. Data = <<reg.LEN, reg.TX_STATE>>
    BY <2>1 DEF Data
  <2>3. reply \in Answers /\ reply.txn = note.txn /\ reply.data[2] = reg.TX_STATE
    BY <1>3, <1>4, <1>5, <2>1, <2>2 DEF Answers
  <2>4. Handled(held, lost, reply)
    BY <1>1, <1>10, <2>1, <2>3 DEF Handled, reply
  <2> QED
    BY <1>2, <1>3, <2>3, <2>4
<1> QED
  BY <1>3, <1>6, <1>7, <1>8, <1>9, <1>10

LEMMA RadioStep ==
    ASSUME DownInv, RadioHandles
    PROVE  DownInv'
<1>1. PICK held \in 0..received : Agreed(held) /\ Phase(held)
  BY DEF DownInv
<1>2. Typed /\ TypeOK /\ RepliesOK /\ RadioOK /\ Framed /\ received \in Nat
  BY DEF DownInv, Typed
<1>3. /\ CommandOK(held) /\ Starting /\ Waiting(held) /\ Writing(held)
      /\ Transmitting(held) /\ Monitoring(held) /\ Wanted(held)
  BY <1>1 DEF Phase
<1>4. /\ command # NoPacket /\ command' = NoPacket
      /\ note.state \in {"QUERY_COMMON_CONFIG", "DISABLE_TRANSMIT", "WRITE_RADIO_MEMORY",
                         "START_TRANSMIT", "MONITOR_TRANSMIT"}
      /\ UNCHANGED <<note, local, wanted, received, air>>
  BY <1>2, <1>3, RadioHandling
<1>5. PICK lost \in {"no", "command", "reply"}, reply \in Answers : Handled(held, lost, reply)
  BY <1>2, <1>3, RadioHandling
<1>6. /\ mem \in Nat /\ mem <= received /\ held \in Nat /\ held <= received
      /\ note.length \in 0..MaxLength /\ note.txn \in 0..TxnIds - 1
      /\ reg \in [PTR : Nat, LEN : Nat, TX_STATE : {"IDLE", "ACTIVE"}]
  <2>1. mem \in 0..received
    BY <1>2 DEF TypeOK
  <2> QED
    BY <1>2, <2>1 DEF Typed
<1>7. /\ faults' \in [lost : Nat, late : 0..MaxLate, upsets : Nat, reboots : Nat]
      /\ faults' \in [lost : Nat, late : Nat, upsets : Nat, reboots : Nat]
      /\ faults'.lost = IF lost = "no" THEN faults.lost ELSE faults.lost + 1
      /\ faults'.late = faults.late /\ faults'.reboots = faults.reboots
      /\ faults.lost \in Nat /\ faults.late \in Nat /\ faults.late <= MaxLate
      /\ faults.reboots \in Nat
  <2>1. faults \in [lost : Nat, late : 0..MaxLate, upsets : Nat, reboots : Nat]
    BY <1>2 DEF Typed
  <2>2. faults' = IF lost = "no" THEN faults ELSE [faults EXCEPT !.lost = @ + 1]
    BY <1>5 DEF Handled
  <2>3. faults'.late = faults.late /\ faults.late \in Nat /\ faults.late <= MaxLate
    BY <2>1, <2>2, DownConsts
  <2> QED
    BY <2>1, <2>2, <2>3
<1>8. /\ replies' = IF lost = "no" THEN Append(replies, reply) ELSE replies
      /\ reply \in Answers /\ reply.txn = note.txn
      /\ note.state = "START_TRANSMIT" => reply.op = "write"
      /\ note.state = "MONITOR_TRANSMIT" => reply.data[2] = reg.TX_STATE
  BY <1>5 DEF Handled
<1>9. /\ replies \in Seq(Answers) /\ Len(replies) \in Nat /\ Len(replies) <= faults.late
      /\ \A i \in 1..Len(replies) :
            /\ \E age \in 0..faults.late : note.txn = Wrap(replies[i].txn + age)
            /\ replies[i].txn # note.txn
  BY <1>2, <1>4, <1>7 DEF RepliesOK, Current
<1>10. /\ replies' \in Seq(Answers)
       /\ Len(replies') = IF lost = "no" THEN Len(replies) + 1 ELSE Len(replies)
       /\ \A i \in 1..Len(replies) : replies'[i] = replies[i]
       /\ lost = "no" => replies'[Len(replies) + 1] = reply /\ replies' # <<>>
  BY <1>8, <1>9, AppendProperties
<1>11. RepliesOK'
  <2>1. \A i \in 1..Len(replies') :
           /\ \E age \in 0..faults'.late : note'.txn = Wrap(replies'[i].txn + age)
           /\ i < Len(replies') \/ command' # NoPacket => replies'[i].txn # note'.txn
    <3> SUFFICES ASSUME NEW i \in 1..Len(replies')
                 PROVE  /\ \E age \in 0..faults'.late : note'.txn = Wrap(replies'[i].txn + age)
                        /\ i < Len(replies') \/ command' # NoPacket => replies'[i].txn # note'.txn
      OBVIOUS
    <3>1. CASE i \in 1..Len(replies)
      BY <1>4, <1>7, <1>9, <1>10, <3>1
    <3>2. CASE i = Len(replies) + 1
      <4>1. lost = "no" /\ i = Len(replies')
        BY <1>9, <1>10, <3>2
      <4>2. replies'[i].txn = note.txn /\ note'.txn = note.txn
        BY <1>4, <1>8, <1>10, <3>2, <4>1
      <4>3. Wrap(note.txn + 0) = note.txn /\ 0 \in 0..faults'.late
        BY <1>6, <1>7, Wraps
      <4> QED
        BY <1>4, <1>9, <4>1, <4>2, <4>3
    <3> QED
      BY <1>9, <1>10, <3>1, <3>2
  <2>2. Len(replies') <= faults'.late + (IF command' = NoPacket THEN 1 ELSE 0)
    BY <1>4, <1>7, <1>9, <1>10
  <2> QED
    BY <1>10, <2>1, <2>2 DEF RepliesOK, Current, Wrap, Answers
<1>12. Answered' => lost = "no" /\ replies'[Len(replies')] = reply
  <2>1. HAVE Answered'
  <2>2. replies'[Len(replies')].txn = note.txn /\ replies' # <<>>
    BY <1>4, <2>1 DEF Answered, Current
  <2>3. Len(replies') \in 1..Len(replies')
    BY <1>10, <2>2
  <2>4. lost = "no"
    BY <1>9, <1>10, <2>2, <2>3
  <2> QED
    BY <1>10, <2>4
<1>13. /\ note' = note /\ received' = received /\ LastByte' = LastByte
       /\ \A x : Length(x)' = Length(x)
       /\ \A x : Follows(x)' <=> Follows(x)
       /\ \A x : Repeats(x) => Repeats(x)'
  <2>1. LastByte' = LastByte
    BY <1>4 DEF LastByte
  <2>2. faults.lost + faults.late > 0 => faults'.lost + faults'.late > 0
    BY <1>7
  <2> QED
    BY <1>4, <1>7, <2>1, <2>2 DEF Follows, Repeats, Last, Length
<1>14. Len(replies') <= MaxLate + 1
  BY <1>7, <1>9, <1>10, DownConsts
<1> DEFINE Goal == /\ reg' \in [PTR : Nat, LEN : Nat, TX_STATE : {"IDLE", "ACTIVE"}]
                   /\ reg'.PTR + reg'.LEN <= MaxLength
                   /\ mem' \in 0..received /\ RadioOK' /\ Phase(held)'
<1>15. CommandOK(held)' /\ Wanted(held)' /\ Waiting(held)'
  BY <1>3, <1>4 DEF CommandOK, Wanted, Waiting
<1>16. reg.PTR + reg.LEN <= MaxLength
  BY <1>2 DEF TypeOK
(* Where the command changes nothing at the radio.                         *)
<1>17. ASSUME UNCHANGED <<reg, mem>>
       PROVE  /\ reg' \in [PTR : Nat, LEN : Nat, TX_STATE : {"IDLE", "ACTIVE"}]
              /\ reg'.PTR + reg'.LEN <= MaxLength
              /\ mem' \in 0..received /\ RadioOK' /\ Idle' = Idle /\ Done' = Done /\ Begun' = Begun
  <2>1. RadioOK'
    BY <1>2, <1>4, <1>7, <1>17, RadioStays
  <2>2. Idle' = Idle /\ Done' = Done
    BY <1>4, <1>13, <1>17 DEF Idle, Done, Length
  <2>3. Begun' = Begun
    BY <2>2 DEF Begun
  <2> QED
    BY <1>6, <1>16, <1>17, <2>1, <2>2, <2>3
<1>18. ASSUME note.state = "QUERY_COMMON_CONFIG" PROVE Goal
  <2>1. UNCHANGED <<reg, mem>>
    BY <1>5, <1>18 DEF Handled
  <2>2. Idle' = Idle /\ faults'.reboots = faults.reboots
    BY <1>7, <1>17, <2>1
  <2>3. Starting'
    BY <1>3, <1>4, <1>18, <2>2 DEF Starting
  <2>4. Writing(held)' /\ Transmitting(held)' /\ Monitoring(held)'
    BY <1>4, <1>18 DEF Writing, Transmitting, Monitoring
  <2> QED
    BY <1>15, <1>17, <2>1, <2>3, <2>4 DEF Phase
<1>19. ASSUME note.state = "DISABLE_TRANSMIT" PROVE Goal
  <2>1. mem' = mem /\ (lost = "command" => reg' = reg)
        /\ (lost # "command" => reg' = [PTR |-> 0, LEN |-> 0, TX_STATE |-> "IDLE"])
    BY <1>5, <1>19 DEF Handled
  <2>2. Writing(held)' /\ Transmitting(held)' /\ Monitoring(held)'
    BY <1>4, <1>19 DEF Writing, Transmitting, Monitoring
  <2>3. CASE lost = "command"
    <3>1. Starting'
      BY <1>3, <1>4, <1>7, <1>12, <1>17, <1>19, <2>1, <2>3 DEF Starting
    <3> QED
      BY <1>15, <1>17, <2>1, <2>2, <2>3, <3>1 DEF Phase
  <2>4. CASE lost # "command"
    <3>1. Idle' /\ reg'.LEN = 0 /\ reg'.PTR = 0
      BY <2>1, <2>4 DEF Idle
    <3>2. reg' \in [PTR : Nat, LEN : Nat, TX_STATE : {"IDLE", "ACTIVE"}]
      BY <2>1, <2>4
    <3>3. RadioOK'
      BY <1>2, <1>4, <1>13, <2>1, <3>1 DEF RadioOK
    <3>4. Starting'
      BY <1>3, <1>4, <1>7, <1>19, <3>1 DEF Starting
    <3> QED
      BY <1>6, <1>15, <2>1, <2>2, <3>1, <3>2, <3>3, <3>4, DownConsts DEF Phase
  <2> QED
    BY <2>3, <2>4
<1>20. ASSUME note.state = "WRITE_RADIO_MEMORY" PROVE Goal
  <2>1. reg' = reg /\ mem' = IF lost = "command" THEN mem ELSE held
    BY <1>5, <1>20 DEF Handled
  <2>2. held = received /\ held > 0 /\ Idle /\ Follows(held) /\ note.length = Length(held)
    BY <1>3, <1>20 DEF Writing
  <2>3. Idle' /\ mem' \in Nat /\ mem' >= mem /\ mem' <= received
    BY <1>6, <2>1, <2>2 DEF Idle
  <2>4. RadioOK'
    <3>1. air # <<>> => LastByte.message <= mem'
      <4>1. HAVE air # <<>>
      <4>2. LastByte.message \in Nat /\ LastByte.message <= mem
        BY <1>2, <4>1, LastByteType DEF RadioOK
      <4> QED
        BY <1>6, <2>3, <4>2
    <3>2. reg'.LEN = 0
      BY <1>2, <2>1, <2>2 DEF RadioOK
    <3> QED
      BY <1>4, <1>13, <2>3, <3>1, <3>2 DEF RadioOK
  <2>5. Starting' /\ Transmitting(held)' /\ Monitoring(held)'
    BY <1>4, <1>20 DEF Starting, Transmitting, Monitoring
  <2>6. Writing(held)'
    BY <1>4, <1>12, <1>13, <1>20, <2>1, <2>2, <2>3 DEF Writing
  <2> QED
    BY <1>6, <1>15, <1>16, <2>1, <2>3, <2>4, <2>5, <2>6 DEF Phase
<1>21. ASSUME note.state = "START_TRANSMIT" PROVE Goal
  <2>1. mem' = mem /\ (lost = "command" => reg' = reg)
        /\ (lost # "command" => reg' = [PTR |-> 0, LEN |-> note.length, TX_STATE |-> "ACTIVE"])
    BY <1>5, <1>21 DEF Handled
  <2>2. /\ mem = received /\ mem > 0 /\ held \in {0, mem} /\ note.length = Length(mem)
        /\ Begun \/ Follows(mem)
        /\ faults.lost + faults.late = 0 => ~Begun
    BY <1>3, <1>4, <1>21 DEF Transmitting
  <2>3. Starting' /\ Writing(held)' /\ Monitoring(held)'
    BY <1>4, <1>21 DEF Starting, Writing, Monitoring
  <2>4. faults'.lost + faults'.late = 0 => lost = "no" /\ replies' # <<>>
    BY <1>7, <1>10
  <2>5. CASE lost = "command"
    <3>1. Begun' = Begun /\ ~Answered'
      BY <1>12, <1>17, <2>1, <2>5
    <3>2. Transmitting(held)'
      BY <1>4, <1>13, <2>1, <2>2, <2>4, <2>5, <3>1 DEF Transmitting
    <3> QED
      BY <1>15, <1>17, <2>1, <2>3, <2>5, <3>2 DEF Phase
  <2>6. CASE lost # "command"
    <3>1. /\ ~Idle' /\ reg'.PTR = 0 /\ reg'.LEN = Length(mem)
          /\ reg' = [PTR |-> 0, LEN |-> note.length, TX_STATE |-> "ACTIVE"]
      BY <2>1, <2>2, <2>6 DEF Idle
    <3>2. Length(mem) \in 1..MaxLength /\ Length(mem) \in Nat
      BY <1>6, LengthType
    <3>3. reg' \in [PTR : Nat, LEN : Nat, TX_STATE : {"IDLE", "ACTIVE"}]
      BY <2>2, <3>1, <3>2
    <3>4. Follows(mem) \/ Repeats(mem)
      <4>1. CASE ~Begun
        BY <2>2, <4>1
      <4>2. CASE Begun
        <5>1. faults.lost + faults.late > 0
          BY <1>7, <2>2, <4>2
        <5>2. CASE Done
          BY <5>1, <5>2 DEF Done, Repeats
        <5>3. CASE ~Idle
          BY <1>2, <5>1, <5>3 DEF RadioOK, Repeats
        <5> QED
          BY <4>2, <5>2, <5>3 DEF Begun
      <4> QED
        BY <4>1, <4>2
    <3>5. Follows(mem)' \/ Repeats(mem)'
      <4>1. /\ Follows(mem)' <=> Follows(mem)
            /\ Repeats(mem) => Repeats(mem)'
        <5>1. \A x : (x = mem => (Follows(x)' <=> Follows(mem))) /\ (x = mem /\ Repeats(mem) => Repeats(x)')
          BY <1>13
        <5> QED
          BY <1>4, <1>7, <1>13, <2>1 DEF Follows, Repeats, Last, Length
      <4> QED
        BY <3>4, <4>1
    <3>6. RadioOK'
      BY <1>2, <1>4, <1>13, <2>1, <3>1, <3>2, <3>5 DEF RadioOK, Length
    <3>7. Begun'
      BY <3>1 DEF Begun
    <3>8. Transmitting(held)'
      BY <1>4, <1>8, <1>12, <1>13, <1>21, <2>1, <2>2, <2>4, <3>7 DEF Transmitting, Length
    <3> QED
      BY <1>6, <1>15, <2>1, <2>3, <3>1, <3>2, <3>3, <3>6, <3>8 DEF Phase
  <2> QED
    BY <2>5, <2>6
<1>22. ASSUME note.state = "MONITOR_TRANSMIT" PROVE Goal
  <2>1. UNCHANGED <<reg, mem>>
    BY <1>5, <1>22 DEF Handled
  <2>2. Idle' = Idle /\ Begun' = Begun
    BY <1>17, <2>1
  <2>3. Starting' /\ Writing(held)' /\ Transmitting(held)'
    BY <1>4, <1>22 DEF Starting, Writing, Transmitting
  <2>4. Answered' /\ replies'[Len(replies')].data[2] = "IDLE" => Idle
    BY <1>8, <1>12, <1>22 DEF Idle
  <2>5. Monitoring(held)'
    BY <1>3, <1>4, <1>13, <1>22, <2>1, <2>2, <2>4 DEF Monitoring, Length
  <2> QED
    BY <1>15, <1>17, <2>1, <2>3, <2>5 DEF Phase
<1>23. Goal
  BY <1>4, <1>18, <1>19, <1>20, <1>21, <1>22
<1>24. TypeOK'
  BY <1>2, <1>4, <1>14, <1>23 DEF TypeOK
<1>25. Typed'
  BY <1>2, <1>4, <1>7, <1>23, <1>24 DEF Typed
<1>26. Framed'
  BY <1>2, <1>4, <1>7, <1>24, FramedStays
<1>27. Agreed(held)'
  BY <1>1, <1>4 DEF Agreed
<1> QED
  BY <1>1, <1>4, <1>11, <1>23, <1>25, <1>26, <1>27 DEF DownInv

LEMMA StutterStep ==
    ASSUME DownInv, UNCHANGED vars
    PROVE  DownInv'
<1>1. PICK held \in 0..received : Agreed(held) /\ Phase(held)
  BY DEF DownInv
<1>2. Typed /\ TypeOK /\ RepliesOK /\ RadioOK /\ Framed
  BY DEF DownInv, Typed
<1>3. UNCHANGED <<note, local, wanted, received, command, replies, reg, mem, air, faults>>
  BY DEF vars
<1>4. TypeOK' /\ Typed'
  BY <1>2, <1>3 DEF TypeOK, Typed
<1>5. RepliesOK'
  BY <1>2, <1>3 DEF RepliesOK, Current
<1>6. RadioOK' /\ Framed'
  BY <1>2, <1>3 DEF RadioOK, Framed, TypeOK, Idle, LastByte, Follows, Repeats, Last, Length
<1>7. Agreed(held)' /\ Phase(held)'
  BY <1>1, <1>3 DEF Agreed, Phase, CommandOK, Starting, Waiting, Writing, Transmitting, Monitoring,
     Wanted, Answered, Current, Idle, Begun, Done, LastByte, Follows, Last, Length
<1> QED
  BY <1>1, <1>3, <1>4, <1>5, <1>6, <1>7 DEF DownInv

LEMMA DownInvariant ==
    ASSUME Distinct
    PROVE  Spec => []DownInv
<1>1. DownInv /\ [Next]_vars => DownInv'
  BY ClipStep, RadioStep, TransmitStep, UpsetStep, RebootStep, StutterStep DEF Next
<1> QED
  BY <1>1, DownInit, PTL DEF Spec

(* What radio_downlink_clip puts on the air are the messages of its pipe,  *)
(* each to its end before the next one starts; a message starts again only *)
(* if a reply was lost or late, and one is left out or cut only by a       *)
(* reboot.                                                                 *)
THEOREM FramedHolds ==
    ASSUME Distinct
    PROVE  Spec => []Framed
<1>1. DownInv => Framed
  BY DEF DownInv
<1> QED
  BY <1>1, DownInvariant, PTL

(* No message is written over the one that is being transmitted: the clip  *)
(* writes to memory only when it has been told that the radio is idle, and *)
(* a repeated write finds the radio still so.                              *)
THEOREM MemoryStableHolds ==
    ASSUME Distinct
    PROVE  Spec => MemoryStable
<1>1. DownInv /\ [Next]_vars => [mem' # mem => reg.TX_STATE = "IDLE"]_vars
  <2> SUFFICES ASSUME DownInv, Next, mem' # mem PROVE Idle
    BY DEF Idle
  <2>1. RadioHandles
    BY DEF Next, DownlinkClip, Transmit, Upset, Reboot
  <2>2. PICK held \in 0..received : Phase(held) /\ Typed
    BY DEF DownInv
  <2>3. PICK lost \in {"no", "command", "reply"}, reply \in Answers : Handled(held, lost, reply)
    BY <2>1, <2>2, RadioHandling DEF Phase
  <2>4. note.state = "WRITE_RADIO_MEMORY"
    BY <2>3 DEF Handled
  <2> QED
    BY <2>2, <2>4 DEF Phase, Writing
<1> QED
  BY <1>1, DownInvariant, PTL DEF Spec, MemoryStable

-----------------------------------------------------------------------------
(* The clock.                                                              *)

(* CLOCK_REPLICAS: with an even number two offsets could tie.              *)
OddReplicas == NumReplicas % 2 = 1 /\ NumReplicas > 1

Acceptable == C!Right \cup {C!CLOCK_UNCALIBRATED}

AnswerOK == clockAnswer.state \in C!Reading => clockAnswer.offset \in Measured

OneAffected == \E x \in C!Clocks \cup {C!Voter} : affected \subseteq {x}

VoterOK == C!Voter \notin affected => clock_offset_adj_fast \in Acceptable

(***************************************************************************)
(* The replicas that are not affected hold one offset, or are on their way *)
(* from one to the next: those that had their turn hold after, the others  *)
(* before; and after is what the calibration that concludes says.          *)
(***************************************************************************)
Between(before, after) ==
    /\ \A r \in C!Clocks \ affected :
          clock_offset_adj_slow[r] = IF r < turn THEN after ELSE before
    /\ turn \in C!Clocks =>
          after = IF C!Concluded = "CLOCK_CALIBRATED" THEN C!adjustment(clockAnswer.offset)
                                                    ELSE before

InStep == \E before, after \in Acceptable : Between(before, after)

ClockInv == C!TypeOK /\ AnswerOK /\ OneAffected /\ VoterOK /\ InStep

-----------------------------------------------------------------------------
(* Facts about the replicas and their votes.                               *)

LEMMA CountIsCardinality == \A S : C!Cardinality(S) = Cardinality(S)
  BY DEF C!Cardinality, Cardinality

LEMMA ClocksFinite ==
    ASSUME C!ClockAssumption
    PROVE  /\ IsFiniteSet(C!Clocks) /\ Cardinality(C!Clocks) = NumReplicas
           /\ C!Voter \notin C!Clocks
           /\ \A r \in C!Clocks : r \in Int /\ r >= 0 /\ r < NumReplicas
<1>1. NumReplicas \in Nat /\ NumReplicas >= 1
  BY DEF C!ClockAssumption
<1>2. IsFiniteSet(C!Clocks) /\ Cardinality(C!Clocks) = NumReplicas
  BY <1>1, FS_Interval, 0 \in Int, NumReplicas - 1 \in Int DEF C!Clocks
<1> QED
  BY <1>1, <1>2 DEF C!Clocks, C!Voter

LEMMA MajorityType ==
    ASSUME C!ClockAssumption, OddReplicas
    PROVE  /\ NumReplicas \in Nat /\ C!CLOCK_REPLICA_MAJORITY \in Nat
           /\ C!CLOCK_REPLICA_MAJORITY >= 2
           /\ 2 * C!CLOCK_REPLICA_MAJORITY = NumReplicas + 1
  BY DEF C!ClockAssumption, OddReplicas, C!CLOCK_REPLICA_MAJORITY

(* Two sets of replicas that make up all of them: one is a majority.       *)
LEMMA OneIsMajority ==
    ASSUME C!ClockAssumption, OddReplicas,
           NEW S \in SUBSET C!Clocks, NEW T \in SUBSET C!Clocks, S \cup T = C!Clocks
    PROVE  \/ Cardinality(S) >= C!CLOCK_REPLICA_MAJORITY
           \/ Cardinality(T) >= C!CLOCK_REPLICA_MAJORITY
<1>1. IsFiniteSet(S) /\ IsFiniteSet(T) /\ IsFiniteSet(S \cap T)
  BY ClocksFinite, FS_Subset
<1>2. /\ Cardinality(S) \in Nat /\ Cardinality(T) \in Nat
      /\ Cardinality(S \cap T) \in Nat
  BY <1>1, FS_CardinalityType
<1>3. Cardinality(S \cup T) = Cardinality(S) + Cardinality(T) - Cardinality(S \cap T)
  BY <1>1, FS_Union
<1>4. Cardinality(S) + Cardinality(T) >= NumReplicas
  <2>1. Cardinality(S \cup T) = NumReplicas /\ NumReplicas \in Nat
    BY ClocksFinite, MajorityType
  <2> QED
    BY <1>2, <1>3, <2>1
<1> QED
  BY <1>2, <1>4, MajorityType

(* A majority has a replica that is not affected.                          *)
LEMMA MajorityHasUnaffected ==
    ASSUME C!ClockAssumption, OddReplicas, OneAffected, NEW S \in SUBSET C!Clocks,
           Cardinality(S) >= C!CLOCK_REPLICA_MAJORITY
    PROVE  \E r \in S : r \notin affected
<1>1. PICK x \in C!Clocks \cup {C!Voter} : affected \subseteq {x}
  BY DEF OneAffected
<1>2. SUFFICES ASSUME S \subseteq {x} PROVE FALSE
  BY <1>1
<1>3. Cardinality({x}) = 1 /\ IsFiniteSet({x})
  BY FS_Singleton
<1>4. Cardinality(S) <= 1 /\ Cardinality(S) \in Nat
  BY <1>2, <1>3, FS_Subset, FS_CardinalityType
<1> QED
  BY <1>4, MajorityType

(* The vote, at any moment: the heart of the argument.                     *)
LEMMA VoteAcceptable ==
    ASSUME C!ClockAssumption, OddReplicas, ClockInv
    PROVE  C!clock_offset_adj_vote \in Acceptable
<1>1. PICK before \in Acceptable, after \in Acceptable : Between(before, after)
  BY DEF ClockInv, InStep
<1>2. \A r \in C!Clocks \ affected : clock_offset_adj_slow[r] \in {before, after}
  BY <1>1 DEF Between
<1>3. \A x : C!Held(x) \in SUBSET C!Clocks
  BY DEF C!Held
<1>4. CASE \E x \in C!Offsets : Cardinality(C!Held(x)) >= C!CLOCK_REPLICA_MAJORITY
  <2>1. PICK x \in C!Offsets :
            /\ Cardinality(C!Held(x)) >= C!CLOCK_REPLICA_MAJORITY
            /\ C!clock_offset_adj_vote = x
    BY <1>4, CountIsCardinality DEF C!clock_offset_adj_vote
  <2>2. PICK r \in C!Held(x) : r \notin affected
    BY <2>1, <1>3, MajorityHasUnaffected DEF ClockInv
  <2>3. clock_offset_adj_slow[r] = x /\ r \in C!Clocks
    BY DEF C!Held
  <2> QED
    BY <2>1, <2>2, <2>3, <1>2
<1>5. CASE ~ \E x \in C!Offsets : Cardinality(C!Held(x)) >= C!CLOCK_REPLICA_MAJORITY
  <2>1. C!clock_offset_adj_vote = clock_offset_adj_fast
    BY <1>5, CountIsCardinality DEF C!clock_offset_adj_vote
  <2>2. SUFFICES ASSUME C!Voter \in affected PROVE FALSE
    BY <2>1 DEF ClockInv, VoterOK
  <2>3. affected \cap C!Clocks = {}
    BY <2>2, ClocksFinite DEF ClockInv, OneAffected
  <2>4. C!Held(before) \cup C!Held(after) = C!Clocks
    BY <1>2, <2>3 DEF C!Held
  <2>5. before \in C!Offsets /\ after \in C!Offsets
    BY DEF Acceptable, C!Offsets
  <2> QED
    BY <1>3, <1>5, <2>4, <2>5, OneIsMajority
<1> QED
  BY <1>4, <1>5

-----------------------------------------------------------------------------
(* The invariant.                                                          *)

LEMMA AcceptableIsOffset == Acceptable \subseteq C!Offsets /\ C!CLOCK_UNCALIBRATED \in Acceptable
  BY DEF Acceptable, C!Offsets

LEMMA InitClock == ASSUME C!ClockAssumption, C!Init PROVE ClockInv
<1>1. C!TypeOK
  BY DEF C!Init, C!TypeOK, C!NoAnswer, C!Offsets, C!ClockAssumption, C!Voter, C!CLOCK_UNCALIBRATED
<1>2. AnswerOK
  BY DEF C!Init, AnswerOK, C!NoAnswer, C!Reading
<1>3. OneAffected /\ VoterOK
  BY AcceptableIsOffset DEF C!Init, OneAffected, VoterOK
<1>4. Between(C!CLOCK_UNCALIBRATED, C!CLOCK_UNCALIBRATED)
  BY DEF C!Init, Between, C!Concluded, C!Received, C!NoAnswer, C!Reading
<1> QED
  BY <1>1, <1>2, <1>3, <1>4, AcceptableIsOffset DEF ClockInv, InStep

(* What a replica stores is a measured offset, or what it held.            *)
LEMMA ConfiguredType ==
    ASSUME ClockInv, NEW r \in C!Clocks
    PROVE  /\ C!Concluded = "CLOCK_CALIBRATED" => C!adjustment(clockAnswer.offset) \in C!Right
           /\ C!Configured(r) \in [C!Clocks -> C!Offsets]
           /\ \A q \in C!Clocks :
                 C!Configured(r)[q] = IF q = r /\ C!Concluded = "CLOCK_CALIBRATED"
                                    THEN C!adjustment(clockAnswer.offset)
                                    ELSE clock_offset_adj_slow[q]
<1>1. C!Concluded = "CLOCK_CALIBRATED" => clockAnswer.offset \in Measured
  BY DEF C!Concluded, C!Received, ClockInv, AnswerOK, C!TypeOK, C!Reading
<1>2. C!Concluded = "CLOCK_CALIBRATED" => C!adjustment(clockAnswer.offset) \in C!Right
  BY <1>1 DEF C!Right
<1>3. clock_offset_adj_slow \in [C!Clocks -> C!Offsets]
  BY DEF ClockInv, C!TypeOK
<1> QED
  BY <1>2, <1>3 DEF C!Configured, C!Offsets

LEMMA ProceededType ==
    ASSUME ClockInv PROVE C!Proceeded \in {"CLOCK_IDLE"} \cup C!Reading
  BY DEF ClockInv, C!TypeOK, C!Proceeded, C!Concluded, C!Received, C!Reading

LEMMA NextType ==
    ASSUME C!ClockAssumption, OddReplicas, ClockInv, [C!Next]_(C!vars)
    PROVE  C!TypeOK'
<1> USE DEF ClockInv
<1>a. NumReplicas \in Nat /\ MaxFaults \in Nat /\ C!Voter = NumReplicas
  BY DEF C!ClockAssumption, C!Voter
<1>v. C!clock_offset_adj_vote \in C!Offsets
  BY VoteAcceptable, AcceptableIsOffset
<1>f. ASSUME NEW x, C!Fault(x), x \in C!Clocks \cup {C!Voter}
      PROVE  clockFaults' \in 0..MaxFaults /\ affected' \subseteq C!Clocks \cup {C!Voter}
  BY <1>f, <1>a DEF C!Fault, C!TypeOK
<1>1. CASE C!clock_start_clip
  BY <1>1, <1>a, ConfiguredType, ProceededType, ClocksFinite
  DEF C!clock_start_clip, C!Advance, C!TypeOK
<1>2. CASE C!clock_voter_clip
  BY <1>2, <1>a, <1>v DEF C!clock_voter_clip, C!required, C!Mismatched, C!TypeOK
<1>3. CASE C!NewEpoch
  <2>1. clockAnswer' \in [state : {"CLOCK_IDLE"} \cup C!Reading, offset : Measured \cup {0}]
    BY <1>3 DEF C!NewEpoch, C!NoAnswer, C!CLOCK_UNCALIBRATED
  <2> QED
    BY <1>3, <1>a, <2>1 DEF C!NewEpoch, C!TypeOK
<1>4. CASE C!CutReplica
  <2>1. clockFaults' \in 0..MaxFaults /\ affected' \subseteq C!Clocks \cup {C!Voter}
    BY <1>4, <1>f DEF C!CutReplica
  <2> QED
    BY <1>4, <1>a, <2>1, ConfiguredType, ProceededType, ClocksFinite
    DEF C!CutReplica, C!Advance, C!TypeOK
<1>5. CASE C!CutVoter
  <2>1. clockFaults' \in 0..MaxFaults /\ affected' \subseteq C!Clocks \cup {C!Voter}
    BY <1>5, <1>f DEF C!CutVoter
  <2> QED
    BY <1>5, <1>a, <1>v, <2>1 DEF C!CutVoter, C!TypeOK
<1>6. CASE C!DamageVote
  <2>1. clockFaults' \in 0..MaxFaults /\ affected' \subseteq C!Clocks \cup {C!Voter}
    BY <1>6, <1>f DEF C!DamageVote
  <2> QED
    BY <1>6, <2>1 DEF C!DamageVote, C!TypeOK, C!Offsets
<1>7. CASE C!LoseAnswer
  BY <1>7, <1>a DEF C!LoseAnswer, C!TypeOK, C!NoAnswer, C!CLOCK_UNCALIBRATED
<1>8. ASSUME NEW r \in C!Clocks, C!DamageOffset(r) PROVE C!TypeOK'
  <2>1. clockFaults' \in 0..MaxFaults /\ affected' \subseteq C!Clocks \cup {C!Voter}
    BY <1>8, <1>f DEF C!DamageOffset
  <2>2. PICK x \in Damaged : clock_offset_adj_slow' = [clock_offset_adj_slow EXCEPT ![r] = x]
    BY <1>8 DEF C!DamageOffset
  <2>3. clock_offset_adj_slow' \in [C!Clocks -> C!Offsets]
    BY <2>2 DEF C!TypeOK, C!Offsets
  <2> QED
    BY <1>8, <2>1, <2>3 DEF C!DamageOffset, C!TypeOK
<1>9. CASE UNCHANGED C!vars
  BY <1>9 DEF C!vars, C!TypeOK
<1> QED
  BY <1>1, <1>2, <1>3, <1>4, <1>5, <1>6, <1>7, <1>8, <1>9 DEF C!Next

LEMMA NextAnswer ==
    ASSUME ClockInv, [C!Next]_(C!vars) PROVE AnswerOK'
<1> USE DEF ClockInv, AnswerOK
<1>1. CASE UNCHANGED clockAnswer
  BY <1>1
<1>2. CASE C!NewEpoch
  BY <1>2 DEF C!NewEpoch, C!NoAnswer, C!Reading
<1>3. CASE C!LoseAnswer
  BY <1>3 DEF C!LoseAnswer, C!NoAnswer, C!Reading
<1>4. ASSUME NEW r \in C!Clocks, C!DamageOffset(r) PROVE UNCHANGED clockAnswer
  BY <1>4 DEF C!DamageOffset
<1> QED
  BY <1>1, <1>2, <1>3, <1>4
  DEF C!Next, C!vars, C!clock_start_clip, C!clock_voter_clip, C!CutReplica, C!CutVoter, C!DamageVote

(* A fault strikes where the last one did, if that is not made good.       *)
LEMMA FaultAffects ==
    ASSUME C!ClockAssumption, OneAffected, VoterOK, NEW x \in C!Clocks \cup {C!Voter}, C!Fault(x)
    PROVE  /\ affected \subseteq {x} /\ affected' = {x} /\ OneAffected'
           /\ x \in C!Clocks /\ UNCHANGED clock_offset_adj_fast => VoterOK'
           /\ x = C!Voter => VoterOK' /\ affected' \cap C!Clocks = {} /\ affected \cap C!Clocks = {}
  BY ClocksFinite DEF C!Fault, OneAffected, VoterOK

LEMMA NextAffected ==
    ASSUME C!ClockAssumption, OddReplicas, ClockInv, [C!Next]_(C!vars)
    PROVE  OneAffected' /\ VoterOK'
<1> USE DEF ClockInv
<1>1. CASE C!clock_start_clip
  BY <1>1 DEF C!clock_start_clip, OneAffected, VoterOK
<1>2. CASE C!clock_voter_clip
  <2>1. clock_offset_adj_fast' \in Acceptable
    BY <1>2, VoteAcceptable DEF C!clock_voter_clip
  <2>2. affected' \subseteq affected
    BY <1>2 DEF C!clock_voter_clip
  <2> QED
    BY <2>1, <2>2 DEF OneAffected, VoterOK
<1>3. CASE C!NewEpoch
  BY <1>3 DEF C!NewEpoch, OneAffected, VoterOK
<1>4. CASE C!CutReplica
  BY <1>4, FaultAffects DEF C!CutReplica
<1>5. CASE C!CutVoter
  BY <1>5, FaultAffects DEF C!CutVoter
<1>6. CASE C!DamageVote
  BY <1>6, FaultAffects DEF C!DamageVote
<1>7. CASE C!LoseAnswer
  BY <1>7 DEF C!LoseAnswer, OneAffected, VoterOK
<1>8. ASSUME NEW r \in C!Clocks, C!DamageOffset(r) PROVE OneAffected' /\ VoterOK'
  BY <1>8, FaultAffects DEF C!DamageOffset
<1>9. CASE UNCHANGED C!vars
  BY <1>9 DEF C!vars, OneAffected, VoterOK
<1> QED
  BY <1>1, <1>2, <1>3, <1>4, <1>5, <1>6, <1>7, <1>8, <1>9 DEF C!Next

(* What the replicas hold is not touched and the turn stays.               *)
LEMMA InStepKept ==
    ASSUME InStep, C!Clocks \ affected' \subseteq C!Clocks \ affected,
           UNCHANGED <<turn, state, clockAnswer>>,
           \A r \in C!Clocks \ affected' : clock_offset_adj_slow'[r] = clock_offset_adj_slow[r]
    PROVE  InStep'
<1>1. PICK before \in Acceptable, after \in Acceptable : Between(before, after)
  BY DEF InStep
<1>2. Between(before, after)'
  BY <1>1 DEF Between, C!Concluded, C!Received
<1> QED
  BY <1>2 DEF InStep

(* The turn of a replica, which a fault may cut short: only then is it     *)
(* affected.                                                               *)
LEMMA InStepAdvance ==
    ASSUME C!ClockAssumption, ClockInv, turn \in C!Clocks, C!Advance(C!Proceeded),
           UNCHANGED clockAnswer,
           \/ /\ clock_offset_adj_slow' = C!Configured(turn)
              /\ C!Clocks \ affected' \subseteq C!Clocks \ affected
           \/ /\ clock_offset_adj_slow' \in {clock_offset_adj_slow, C!Configured(turn)}
              /\ C!Clocks \ affected' \subseteq (C!Clocks \ affected) \ {turn}
    PROVE  InStep'
<1>1. PICK before \in Acceptable, after \in Acceptable : Between(before, after)
  BY DEF ClockInv, InStep
<1>2. /\ turn' = turn + 1 /\ turn \in Int
      /\ turn' \in C!Clocks => state' = state
  BY ClocksFinite DEF C!Advance
<1>3. \A r \in C!Clocks \ affected' :
         clock_offset_adj_slow'[r] = IF r < turn + 1 THEN after ELSE before
  <2> SUFFICES ASSUME NEW r \in C!Clocks \ affected'
               PROVE  clock_offset_adj_slow'[r] = IF r < turn + 1 THEN after ELSE before
    OBVIOUS
  <2>1. r \in C!Clocks \ affected /\ r \in Int
    BY ClocksFinite
  <2>2. clock_offset_adj_slow[r] = IF r < turn THEN after ELSE before
    BY <1>1, <2>1 DEF Between
  <2>3. CASE r = turn
    <3>1. clock_offset_adj_slow' = C!Configured(turn)
      BY <2>3
    <3>2. C!Configured(turn)[r] = IF C!Concluded = "CLOCK_CALIBRATED"
                                THEN C!adjustment(clockAnswer.offset)
                                ELSE clock_offset_adj_slow[r]
      BY <2>3, ConfiguredType
    <3>3. clock_offset_adj_slow[r] = before
      BY <2>2, <2>3, <1>2
    <3> QED
      BY <3>1, <3>2, <3>3, <2>3, <1>1, <1>2 DEF Between
  <2>4. CASE r # turn
    <3>1. clock_offset_adj_slow'[r] = clock_offset_adj_slow[r]
      BY <2>1, <2>4, ConfiguredType
    <3> QED
      BY <3>1, <2>1, <2>2, <2>4, <1>2
  <2> QED
    BY <2>3, <2>4
<1>4. Between(before, after)'
  BY <1>1, <1>2, <1>3 DEF Between, C!Concluded, C!Received
<1> QED
  BY <1>4 DEF InStep

LEMMA NextInStep ==
    ASSUME C!ClockAssumption, OddReplicas, ClockInv, [C!Next]_(C!vars)
    PROVE  InStep'
<1>i. OneAffected /\ VoterOK /\ InStep
  BY DEF ClockInv
<1>1. CASE C!clock_start_clip
  BY <1>1, InStepAdvance DEF C!clock_start_clip
<1>2. CASE C!clock_voter_clip
  <2>1. PICK before \in Acceptable, after \in Acceptable : Between(before, after)
    BY <1>i DEF InStep
  <2>2. turn = C!Voter /\ turn' = C!Voter + 1 /\ UNCHANGED clock_offset_adj_slow
    BY <1>2 DEF C!clock_voter_clip
  <2>3. \A r \in C!Clocks : r < turn /\ r < turn'
    BY <2>2, ClocksFinite DEF C!Voter, C!ClockAssumption
  <2>4. turn' \notin C!Clocks
    BY <2>2, ClocksFinite DEF C!Voter, C!ClockAssumption
  <2>5. CASE C!Mismatched(C!clock_offset_adj_vote)
    <3>1. affected' = affected \ {C!Voter}
      BY <1>2, <2>5 DEF C!clock_voter_clip
    <3>2. C!Clocks \ affected' = C!Clocks \ affected
      BY <3>1, ClocksFinite
    <3>3. Between(before, after)'
      BY <2>1, <2>2, <2>3, <2>4, <3>2 DEF Between
    <3> QED
      BY <3>3 DEF InStep
  <2>6. CASE ~C!Mismatched(C!clock_offset_adj_vote)
    <3> DEFINE x == C!clock_offset_adj_vote
    <3>1. \A r \in C!Clocks : clock_offset_adj_slow[r] = x
      BY <2>6 DEF C!Mismatched
    <3>2. x \in Acceptable
      BY VoteAcceptable
    <3> HIDE DEF x
    <3>3. \A r \in C!Clocks \ affected' :
             clock_offset_adj_slow'[r] = IF r < turn' THEN x ELSE x
      BY <3>1, <2>2
    <3>4. \E b, a \in Acceptable :
             /\ \A r \in C!Clocks \ affected' :
                   clock_offset_adj_slow'[r] = IF r < turn' THEN a ELSE b
             /\ turn' \in C!Clocks => a = (IF C!Concluded = "CLOCK_CALIBRATED"
                                        THEN C!adjustment(clockAnswer.offset) ELSE b)'
      BY <3>2, <3>3, <2>4
    <3> QED
      BY <3>4, <2>4 DEF InStep, Between
  <2> QED
    BY <2>5, <2>6
<1>3. CASE C!NewEpoch
  <2>1. PICK before \in Acceptable, after \in Acceptable : Between(before, after)
    BY <1>i DEF InStep
  <2>2. /\ turn = C!Voter + 1 /\ turn' = 0
        /\ UNCHANGED <<clock_offset_adj_slow, state, affected>>
    BY <1>3 DEF C!NewEpoch
  <2>3. \A r \in C!Clocks : r < turn /\ ~(r < turn')
    BY <2>2, ClocksFinite DEF C!Voter, C!ClockAssumption
  <2>4. (C!Concluded = "CLOCK_CALIBRATED" => C!adjustment(clockAnswer.offset) \in Acceptable)'
    <3>1. AnswerOK' /\ state' \in {"CLOCK_IDLE"} \cup C!Reading
      BY <1>3, <2>2, NextAnswer DEF ClockInv, C!TypeOK, C!Next
    <3> QED
      BY <3>1 DEF C!Concluded, C!Received, AnswerOK, C!Reading, Acceptable, C!Right
  <2>5. \A r \in C!Clocks \ affected' : clock_offset_adj_slow'[r] = after
    BY <2>1, <2>2, <2>3 DEF Between
  <2>6. CASE C!Concluded' = "CLOCK_CALIBRATED"
    <3>1. C!adjustment(clockAnswer.offset)' \in Acceptable
      BY <2>4, <2>6
    <3>2. Between(after, C!adjustment(clockAnswer.offset))'
      BY <2>3, <2>5, <2>6 DEF Between
    <3> QED
      BY <3>1, <3>2 DEF InStep
  <2>7. CASE C!Concluded' # "CLOCK_CALIBRATED"
    <3>1. Between(after, after)'
      BY <2>3, <2>5, <2>7 DEF Between
    <3> QED
      BY <3>1 DEF InStep
  <2> QED
    BY <2>6, <2>7
<1>4. CASE C!CutReplica
  <2>1. C!Clocks \ affected' \subseteq (C!Clocks \ affected) \ {turn}
    BY <1>4, <1>i, FaultAffects DEF C!CutReplica
  <2> QED
    BY <1>4, <2>1, InStepAdvance DEF C!CutReplica
<1>5. CASE C!CutVoter
  <2>1. PICK before \in Acceptable, after \in Acceptable : Between(before, after)
    BY <1>i DEF InStep
  <2>2. turn = C!Voter /\ turn' = C!Voter + 1 /\ UNCHANGED clock_offset_adj_slow
    BY <1>5 DEF C!CutVoter
  <2>3. \A r \in C!Clocks : r < turn /\ r < turn'
    BY <2>2, ClocksFinite DEF C!Voter, C!ClockAssumption
  <2>4. turn' \notin C!Clocks
    BY <2>2, ClocksFinite DEF C!Voter, C!ClockAssumption
  <2>5. C!Clocks \ affected' = C!Clocks \ affected
    BY <1>5, <1>i, FaultAffects DEF C!CutVoter
  <2>6. Between(before, after)'
    BY <2>1, <2>2, <2>3, <2>4, <2>5 DEF Between
  <2> QED
    BY <2>6 DEF InStep
<1>6. CASE C!DamageVote
  <2>1. C!Clocks \ affected' = C!Clocks \ affected
    BY <1>6, <1>i, FaultAffects DEF C!DamageVote
  <2> QED
    BY <1>6, <1>i, <2>1, InStepKept DEF C!DamageVote
<1>7. CASE C!LoseAnswer
  <2>1. PICK before \in Acceptable, after \in Acceptable : Between(before, after)
    BY <1>i DEF InStep
  <2>2. /\ turn = 0 /\ clockAnswer' = C!NoAnswer
        /\ UNCHANGED <<turn, state, clock_offset_adj_slow, affected>>
    BY <1>7 DEF C!LoseAnswer
  <2>3. C!Concluded' # "CLOCK_CALIBRATED"
    BY <2>2 DEF ClockInv, C!TypeOK, C!Concluded, C!Received, C!NoAnswer, C!Reading
  <2>4. \A r \in C!Clocks : ~(r < turn)
    BY <2>2, ClocksFinite
  <2>5. Between(before, before)'
    BY <2>1, <2>2, <2>3, <2>4 DEF Between
  <2> QED
    BY <2>5 DEF InStep
<1>8. ASSUME NEW r \in C!Clocks, C!DamageOffset(r) PROVE InStep'
  <2>1. affected \subseteq {r} /\ affected' = {r}
    BY <1>8, <1>i, FaultAffects DEF C!DamageOffset
  <2>2. \A q \in C!Clocks : q # r => clock_offset_adj_slow'[q] = clock_offset_adj_slow[q]
    BY <1>8 DEF C!DamageOffset, ClockInv, C!TypeOK
  <2> QED
    BY <1>8, <1>i, <2>1, <2>2, InStepKept DEF C!DamageOffset
<1>9. CASE UNCHANGED C!vars
  BY <1>9, <1>i, InStepKept DEF C!vars
<1> QED
  BY <1>1, <1>2, <1>3, <1>4, <1>5, <1>6, <1>7, <1>8, <1>9 DEF C!Next

(* Whoever asks for the mission time, in whatever step of a calibration,   *)
(* gets an offset that was measured or learns that there is none: clock.h  *)
(* for any odd number of replicas, while what a fault has hit is made good *)
(* before the next one hits something else.                                *)
THEOREM MissionTime ==
    ASSUME C!ClockAssumption, OddReplicas
    PROVE  C!Spec => []C!MissionTimeRight
<1>1. C!Init => ClockInv
  BY InitClock
<1>2. ClockInv /\ [C!Next]_(C!vars) => ClockInv'
  <2> SUFFICES ASSUME ClockInv, [C!Next]_(C!vars) PROVE ClockInv'
    OBVIOUS
  <2>1. C!TypeOK' /\ AnswerOK' /\ OneAffected' /\ VoterOK' /\ InStep'
    BY NextType, NextAnswer, NextAffected, NextInStep
  <2> QED
    BY <2>1 DEF ClockInv
<1>3. ClockInv => C!MissionTimeRight
  BY VoteAcceptable DEF ClockInv, C!MissionTimeRight, Acceptable
<1> QED
  BY <1>1, <1>2, <1>3, PTL DEF C!Spec

-----------------------------------------------------------------------------
(***************************************************************************)
(* The magnetometer.  The invariant says what all replicas but one hold,   *)
(* since the buffers are voted on by nothing but what the replicas report; *)
(* when the readings that wait were taken, and when the instrument makes   *)
(* or made the next, relative to one another and to the last report; and   *)
(* that an answer that comes is to the request that the note stands for.   *)
(***************************************************************************)

(* Enough replicas that one can be outvoted.                               *)
Replicated == M!MagnetometerAssumption /\ Cardinality(Replicas) >= 3

-----------------------------------------------------------------------------
(* The inductive invariant.                                                *)

Readings == [time : Int, value : Int]
Buffers == [next_read : Int, next_write : Int, element : [0..ElementCount - 1 -> Readings]]
MagNotes == [should_be_powered : BOOLEAN, state : M!States, next_reading_time : Int,
          actual_reading_time : Int, check_latch_time : Int, last_telem_time : Int,
          earliest_time : Int]
Optional(s, S) == s = <<>> \/ (s = <<s[1]>> /\ s[1] \in S)

MagTyped ==
    /\ now \in 0..MaxTime /\ phase \in {"bus", "clip"}
    /\ Optional(magNote, MagNotes)
    /\ readings \in [Replicas -> Buffers]
    /\ failed \in [Replicas -> 0..2] /\ clock_is_calibrated \in BOOLEAN
    /\ request \in {"none", "power_on", "power_off", "latch", "read"}
    /\ Optional(answer, [latch : BOOLEAN, value : Int])
    /\ device \in [PowerEnabled : BOOLEAN, LatchSet : BOOLEAN, latched : Int, Snap : Int]
    /\ Optional(report, [earliest : Int, latest : Int, readings : Seq(Readings)])
    /\ report # <<>> => Len(report[1].readings) > 0
    /\ ground \in [latest : Int, time : Int, value : Int]

(* The epoch in which the clip ran last, and the end of the last report.   *)
Past == IF phase = "bus" THEN now ELSE now - 1
MagLast == IF report = <<>> THEN ground ELSE M!EndOf(report[1])

LastOK ==
    /\ phase = "clip" => report = <<>>
    /\ MagLast.time <= MagLast.latest /\ MagLast.latest <= M!mission(Past)
    /\ 0 <= MagLast.value /\ MagLast.value <= now
    /\ M!ReportsOrdered

Powered == {"MS_ACTIVE", "MS_LATCHING_ON"} \cup M!Latched

(* The instrument's last measurement, finished or not.                     *)
FieldRead(d) == IF d.LatchSet THEN d.latched ELSE d.Snap

DeviceOK ==
    /\ device.LatchSet => device.latched <= now /\ MagLast.value < device.latched
    /\ phase = "bus" => /\ answer = <<>> /\ magNote # <<>>
                        /\ request = M!RequestOf(magNote[1])

(* A measurement that was asked for is later than all that were reported   *)
(* or wait to be.                                                          *)
Fresh(q, last, d) == last.value < FieldRead(d) /\ \A i \in 1..Len(q) : q[i].value < FieldRead(d)

(* The readings that wait follow the last report, in order, and precede    *)
(* the measurement that is being made.                                     *)
QueueOK(n, q, t, past, last, d) ==
    /\ q \in Seq(Readings) /\ Len(q) <= ElementCount
    /\ \A i \in 1..Len(q) :
          /\ n.earliest_time <= q[i].time /\ q[i].time <= M!mission(past)
          /\ last.value < q[i].value /\ q[i].value <= t
          /\ M!mission(q[i].value) <= q[i].time
          /\ d.LatchSet => q[i].value < d.latched
    /\ \A i, j \in 1..Len(q) : i < j => q[i].time < q[j].time /\ q[i].value < q[j].value

(* The instrument is on while a measurement is asked for or made, and what *)
(* it will answer is fresh, and later than all that was stored.            *)
Pending(n, q, t, past, last, d, ph, ans) ==
    /\ n.state \in Powered => d.PowerEnabled
    /\ ph = "clip" /\ ans # <<>> /\ n.state = "MS_ACTIVATING" => d.PowerEnabled
    /\ ph = "clip" /\ ans # <<>> /\ n.state = "MS_LATCHING_ON" =>
          Fresh(q, last, d) /\ FieldRead(d) <= t
    /\ ans # <<>> /\ n.state = "MS_TAKING_READING" =>
          ans[1].latch = d.LatchSet /\ ans[1].value = d.Snap
    /\ n.state \in M!Latched =>
          /\ Fresh(q, last, d) /\ FieldRead(d) <= n.actual_reading_time
          /\ n.actual_reading_time <= past
          /\ n.earliest_time <= M!mission(n.actual_reading_time)
          /\ \A i \in 1..Len(q) : q[i].time < M!mission(n.actual_reading_time)

NoteIn(n, q, t, past, last, d, ph, ans) ==
    /\ last.latest < n.earliest_time /\ n.earliest_time <= M!mission(past + 1)
    /\ QueueOK(n, q, t, past, last, d) /\ Pending(n, q, t, past, last, d, ph, ans)
NoteOK(n, q) == NoteIn(n, q, now, Past, MagLast, device, phase, answer)

(* All replicas but one hold the same readings.                            *)
Holds(r, q) == M!Sound(readings[r]) /\ M!Contents(readings[r]) = q
Together ==
    magNote # <<>> =>
        \E odd \in Replicas, alike \in Replicas :
            LET q == M!Contents(readings[alike]) IN
            /\ \A r \in Replicas \ {odd} : Holds(r, q)
            /\ NoteOK(magNote[1], q)

MagInv == MagTyped /\ LastOK /\ DeviceOK /\ Together

-----------------------------------------------------------------------------
(* Arithmetic of indices that wrap.                                        *)

(* A number plus a multiple of the divisor has the same remainder, and of  *)
(* as many numbers in a row as the divisor no two have the same.           *)
LEMMA SameRemainder ==
    ASSUME NEW b \in Nat \ {0}, NEW x \in Int, NEW y \in Int, x % b = y % b
    PROVE  \E q \in Int : x - y = b * q
<1> DEFINE p == x \div b
           q == y \div b
<1>1. p \in Int /\ q \in Int /\ x = b * p + (x % b) /\ y = b * q + (y % b)
  OBVIOUS
<1>2. x % b \in Int
  OBVIOUS
<1> HIDE DEF p, q
<1>3. b * (p - q) = b * p - b * q /\ b * p \in Int /\ b * q \in Int
  BY <1>1
<1>4. x - y = b * (p - q) /\ p - q \in Int
  BY <1>1, <1>2, <1>3
<1> QED
  BY <1>4, Zenon

LEMMA NoMultipleBetween ==
    ASSUME NEW b \in Nat \ {0}, NEW q \in Int, 0 - b < b * q, b * q < b
    PROVE  b * q = 0
<1>1. CASE q >= 1
  BY <1>1
<1>2. CASE q <= -1
  BY <1>2
<1>3. CASE q = 0
  BY <1>3
<1> QED
  BY <1>1, <1>2, <1>3

LEMMA DistinctRemainders ==
    ASSUME NEW b \in Nat \ {0}, NEW x \in Int, NEW y \in Int, x - y < b, y - x < b,
           x % b = y % b
    PROVE  x = y
<1>1. PICK q \in Int : x - y = b * q
  BY SameRemainder
<1> DEFINE d == b * q
<1>2. d \in Int /\ x - y = d
  BY <1>1
<1>3. (0 - b < d /\ d < b) => d = 0
  BY NoMultipleBetween
<1> HIDE DEF d
<1> QED
  BY <1>2, <1>3

LEMMA PlusMultiple ==
    ASSUME NEW b \in Nat \ {0}, NEW n \in Int, n % b = 0, NEW x \in Int
    PROVE  (x + n) % b = x % b
<1> DEFINE p == n \div b
           q == x \div b
           r == x % b
           e == (x + n) \div b
           s == (x + n) % b
<1>1. p \in Int /\ n = b * p
  OBVIOUS
<1>2. q \in Int /\ r \in 0..b - 1 /\ x = b * q + r
  OBVIOUS
<1>3. x + n \in Int
  OBVIOUS
<1>4. e \in Int /\ s \in 0..b - 1 /\ x + n = b * e + s
  BY <1>3
<1> HIDE DEF p, q, r, e, s
<1> DEFINE d == b * (e - p - q)
<1>5. d = b * e - b * p - b * q /\ d \in Int /\ b * e \in Int /\ b * p \in Int /\ b * q \in Int
  BY <1>1, <1>2, <1>4
<1>6. d = r - s
  BY <1>1, <1>2, <1>4, <1>5
<1>7. (0 - b < d /\ d < b) => d = 0
  <2>1. e - p - q \in Int
    BY <1>1, <1>2, <1>4
  <2> QED
    BY <2>1, NoMultipleBetween
<1> HIDE DEF d
<1>8. r = s
  BY <1>2, <1>4, <1>5, <1>6, <1>7
<1> QED
  BY <1>8 DEF r, s

LEMMA Division ==
    ASSUME NEW b \in Nat \ {0}, NEW x \in Int
    PROVE  x % b \in 0..b - 1 /\ x \div b \in Int /\ x = b * (x \div b) + (x % b)
  OBVIOUS

LEMMA Remains ==
    ASSUME NEW b \in Nat \ {0}, NEW r \in 0..b - 1, NEW q \in Int, NEW x \in Int, x = r + b * q
    PROVE  x % b = r
<1> DEFINE n == b * q
<1>1. n \in Int /\ n % b = 0 /\ x = r + n
  OBVIOUS
<1> HIDE DEF n
<1>2. (r + n) % b = r % b
  BY <1>1, PlusMultiple, r \in Int
<1>3. r % b = r
  OBVIOUS
<1> QED
  BY <1>1, <1>2, <1>3

-----------------------------------------------------------------------------
(* The circular buffer, as a sequence.                                     *)

LEMMA MagConstants ==
    ASSUME Replicated
    PROVE
    /\ ElementCount \in Nat \ {0} /\ MaxPerMap \in Nat \ {0} /\ 2 * ElementCount \in Nat \ {0}
    /\ {ReadingDelay, LatchingDelay, TelemDelay, MeasurementDelay} \subseteq Nat \ {0}
    /\ {Offset, MaxTime, MaxUncalibrated, MaxTroubles} \subseteq Nat /\ CommandTimes \subseteq Nat
    /\ Displaced \subseteq Int /\ IsFiniteSet(Replicas)
<1>1. IsFiniteSet(Replicas)
  BY RadioDownlinkAssumption
<1> QED
  BY <1>1 DEF Replicated, M!MagnetometerAssumption, M!CircBufAssumption

LEMMA Available ==
    ASSUME Replicated, NEW c \in Buffers
    PROVE  /\ M!circ_buf_read_avail(c) \in 0..2 * ElementCount - 1
           /\ \E q \in Int : c.next_write = c.next_read + M!circ_buf_read_avail(c) + (2 * ElementCount) * q
<1> DEFINE b == 2 * ElementCount
           x == c.next_write - c.next_read + b
<1>1. b \in Nat \ {0} /\ x \in Int /\ c.next_write \in Int /\ c.next_read \in Int
  BY MagConstants DEF Buffers
<1>2. M!circ_buf_read_avail(c) = x % b
  BY DEF M!circ_buf_read_avail
<1>3. x = c.next_write - c.next_read + b
  OBVIOUS
<1> HIDE DEF b, x
<1> DEFINE r == x % b
           d == x \div b
<1>4. r \in 0..b - 1 /\ d \in Int /\ x = b * d + r
  BY <1>1, Division
<1> HIDE DEF r, d
<1>5. b * (d - 1) = b * d - b /\ b * d \in Int /\ d - 1 \in Int
  BY <1>1, <1>4
<1>6. c.next_write = c.next_read + r + b * (d - 1)
  <2>1. r \in Int /\ b \in Int
    BY <1>1, <1>4
  <2>2. \A m, l \in Int : l = m - b /\ x = m + r => c.next_write = c.next_read + r + l
    BY <1>1, <1>3, <2>1
  <2>3. b * d \in Int /\ b * (d - 1) \in Int /\ b * (d - 1) = b * d - b /\ x = b * d + r
    BY <1>4, <1>5, <2>1
  <2> QED
    BY <2>2, <2>3, Zenon
<1>7. M!circ_buf_read_avail(c) = r
  BY <1>2 DEF r
<1> QED
  BY <1>4, <1>5, <1>6, <1>7 DEF b

LEMMA AvailableIs ==
    ASSUME Replicated, NEW c \in Buffers, NEW n \in 0..2 * ElementCount - 1, NEW q \in Int,
           c.next_write = c.next_read + n + (2 * ElementCount) * q
    PROVE  M!circ_buf_read_avail(c) = n
<1> DEFINE b == 2 * ElementCount
           x == c.next_write - c.next_read + b
<1>1. b \in Nat \ {0} /\ x \in Int /\ c.next_write \in Int /\ c.next_read \in Int /\ n \in 0..b - 1
  <2>1. 2 * ElementCount \in Nat \ {0}
    BY MagConstants
  <2>2. c.next_write \in Int /\ c.next_read \in Int
    BY DEF Buffers
  <2>3. b \in Nat \ {0} /\ n \in 0..b - 1
    BY <2>1
  <2> HIDE DEF b
  <2> QED
    BY <2>2, <2>3
<1>2. M!circ_buf_read_avail(c) = x % b
  BY DEF M!circ_buf_read_avail
<1>3. c.next_write = c.next_read + n + b * q
  OBVIOUS
<1> HIDE DEF b
<1>4. b * (q + 1) = b * q + b /\ b * q \in Int
  BY <1>1
<1>5. x = n + b * (q + 1) /\ q + 1 \in Int
  BY <1>1, <1>3, <1>4
<1> HIDE DEF x
<1> QED
  BY <1>1, <1>2, <1>5, Remains

LEMMA ContentsType ==
    ASSUME Replicated, NEW c \in Buffers
    PROVE  /\ M!Contents(c) \in Seq(Readings) /\ Len(M!Contents(c)) = M!circ_buf_read_avail(c)
           /\ M!Sound(c) <=> Len(M!Contents(c)) <= ElementCount
           /\ \A i \in 1..M!circ_buf_read_avail(c) :
                 M!Contents(c)[i] = c.element[(c.next_read + i - 1) % ElementCount]
<1> DEFINE a == M!circ_buf_read_avail(c)
<1>1. a \in Nat
  BY Available, MagConstants
<1>2. \A i \in 1..a : c.element[(c.next_read + i - 1) % ElementCount] \in Readings
  <2> SUFFICES ASSUME NEW i \in 1..a PROVE c.element[(c.next_read + i - 1) % ElementCount] \in Readings
    OBVIOUS
  <2>1. c.next_read + i - 1 \in Int /\ ElementCount \in Nat \ {0}
    BY <1>1, MagConstants DEF Buffers
  <2>2. (c.next_read + i - 1) % ElementCount \in 0..ElementCount - 1
    BY <2>1
  <2> QED
    BY <2>2 DEF Buffers
<1>3. M!Contents(c) = [i \in 1..a |-> c.element[(c.next_read + i - 1) % ElementCount]]
  BY DEF M!Contents
<1> HIDE DEF a
<1>4. M!Contents(c) \in [1..a -> Readings]
  BY <1>2, <1>3
<1>5. M!Contents(c) \in Seq(Readings)
  BY <1>1, <1>4, SeqDef
<1>6. Len(M!Contents(c)) = a
  <2>1. /\ Len(M!Contents(c)) \in Nat /\ DOMAIN M!Contents(c) = 1..a
        /\ DOMAIN M!Contents(c) = 1..Len(M!Contents(c))
    BY <1>4, <1>5, LenProperties
  <2>2. \A i \in Int : i \in 1..Len(M!Contents(c)) <=> i \in 1..a
    BY <2>1
  <2>3. a <= Len(M!Contents(c)) /\ Len(M!Contents(c)) <= a
    BY <1>1, <2>1, <2>2
  <2>4. Len(M!Contents(c)) \in Int /\ a \in Int
    BY <1>1, <2>1
  <2> QED
    BY <2>3, <2>4
<1> QED
  BY <1>3, <1>5, <1>6 DEF M!Sound, a

LEMMA ResetEmpties ==
    ASSUME Replicated, NEW c \in Buffers
    PROVE  /\ M!circ_buf_reset(c) \in Buffers /\ M!circ_buf_read_avail(M!circ_buf_reset(c)) = 0
           /\ M!Sound(M!circ_buf_reset(c)) /\ M!Contents(M!circ_buf_reset(c)) = <<>>
<1> DEFINE d == M!circ_buf_reset(c)
<1>1. d \in Buffers /\ d.next_read = 0 /\ d.next_write = 0
  <2>1. d.next_read = 0 /\ d.next_write = 0 /\ d.element = c.element
    BY DEF M!circ_buf_reset, Buffers
  <2>2. d = [c EXCEPT !.next_read = 0, !.next_write = 0]
    BY DEF M!circ_buf_reset
  <2>3. c.element \in [0..ElementCount - 1 -> Readings]
    BY DEF Buffers
  <2> HIDE DEF d
  <2>4. d = [next_read |-> d.next_read, next_write |-> d.next_write, element |-> d.element]
    BY <2>2 DEF Buffers
  <2> QED
    BY <2>1, <2>3, <2>4 DEF Buffers
<1> HIDE DEF d
<1>2. M!circ_buf_read_avail(d) = 0
  <2>1. 0 \in 0..2 * ElementCount - 1 /\ (2 * ElementCount) * 0 = 0
    BY MagConstants
  <2>2. d.next_write = d.next_read + 0 + (2 * ElementCount) * 0
    BY <1>1, <2>1
  <2> QED
    BY <1>1, <2>1, <2>2, AvailableIs
<1>3. Len(M!Contents(d)) = 0 /\ M!Contents(d) \in Seq(Readings) /\ M!Sound(d)
  BY <1>1, <1>2, ContentsType, MagConstants
<1>4. M!Contents(d) = <<>>
  BY <1>3, EmptySeq
<1> QED
  BY <1>1, <1>2, <1>3, <1>4 DEF d

(* What is written comes after the rest, which stays as it is: there is    *)
(* room for it.                                                            *)
LEMMA WrittenAppends ==
    ASSUME Replicated, NEW c \in Buffers, NEW x \in Readings, M!circ_buf_read_avail(c) < ElementCount
    PROVE  /\ M!Written(c, x) \in Buffers /\ M!Sound(M!Written(c, x))
           /\ M!Contents(M!Written(c, x)) = Append(M!Contents(c), x)
<1> DEFINE d == M!Written(c, x)
           a == M!circ_buf_read_avail(c)
           k == c.next_write % ElementCount
<1>1. /\ ElementCount \in Nat \ {0} /\ c.next_write \in Int /\ c.next_read \in Int
      /\ a \in 0..ElementCount - 1 /\ k \in 0..ElementCount - 1
  <2>1. ElementCount \in Nat \ {0} /\ c.next_write \in Int /\ c.next_read \in Int
    BY MagConstants DEF Buffers
  <2>2. a \in 0..2 * ElementCount - 1
    BY Available
  <2> QED
    BY <2>1, <2>2
<1>2. /\ d.next_write = c.next_write + 1 /\ d.next_read = c.next_read
      /\ d.element = [c.element EXCEPT ![k] = x] /\ d \in Buffers
  <2> DEFINE y == c.next_write + 1
  <2>1. y \in Int /\ k \in 0..ElementCount - 1
    BY <1>1
  <2>2. d = [c EXCEPT !.element[k] = x, !.next_write = y]
    BY DEF M!Written
  <2> HIDE DEF d, k, y
  <2>3. d.next_write = y /\ d.next_read = c.next_read /\ d.element = [c.element EXCEPT ![k] = x]
    BY <2>1, <2>2 DEF Buffers
  <2>4. d \in Buffers
    <3>1. [c.element EXCEPT ![k] = x] \in [0..ElementCount - 1 -> Readings]
      BY <2>1 DEF Buffers
    <3>2. d = [next_read |-> d.next_read, next_write |-> d.next_write, element |-> d.element]
      BY <2>2 DEF Buffers
    <3>3. c.next_read \in Int
      BY DEF Buffers
    <3> QED
      BY <2>1, <2>3, <3>1, <3>2, <3>3 DEF Buffers
  <2> QED
    BY <2>3, <2>4 DEF y
<1> HIDE DEF d
<1>3. PICK q \in Int : c.next_write = c.next_read + a + (2 * ElementCount) * q
  BY Available
<1>4. M!circ_buf_read_avail(d) = a + 1
  <2> DEFINE n == (2 * ElementCount) * q
  <2>1. n \in Int
    BY <1>1
  <2> HIDE DEF n
  <2>2. d.next_write = d.next_read + (a + 1) + n
    BY <1>1, <1>2, <1>3, <2>1 DEF n
  <2>3. a + 1 \in 0..2 * ElementCount - 1
    BY <1>1
  <2> QED
    BY <1>2, <2>2, <2>3, AvailableIs DEF n
<1>5. M!Contents(c) \in Seq(Readings) /\ Len(M!Contents(c)) = a
      /\ M!Contents(d) \in Seq(Readings) /\ Len(M!Contents(d)) = a + 1
  BY <1>2, <1>4, ContentsType
<1>6. (c.next_read + (a + 1) - 1) % ElementCount = k
  <2> DEFINE n == (2 * ElementCount) * q
             e == ElementCount * (2 * q)
  <2>1. n = e /\ n \in Int /\ 2 * q \in Int
    BY <1>1
  <2>2. e % ElementCount = 0
    BY <1>1, <2>1
  <2>3. c.next_write = c.next_read + a + n
    BY <1>3
  <2> HIDE DEF n, e
  <2>4. ((c.next_read + a) + n) % ElementCount = (c.next_read + a) % ElementCount
    <3>1. c.next_read + a \in Int
      BY <1>1
    <3> QED
      BY <1>1, <2>1, <2>2, <3>1, PlusMultiple
  <2>5. c.next_read + (a + 1) - 1 = c.next_read + a /\ (c.next_read + a) + n = c.next_write
    BY <1>1, <2>1, <2>3
  <2> QED
    BY <2>4, <2>5
<1>7. \A i \in 1..a : (c.next_read + i - 1) % ElementCount \in 0..ElementCount - 1 \ {k}
  <2> SUFFICES ASSUME NEW i \in 1..a PROVE (c.next_read + i - 1) % ElementCount \in 0..ElementCount - 1 \ {k}
    OBVIOUS
  <2>1. c.next_read + i - 1 \in Int /\ c.next_read + (a + 1) - 1 \in Int
    BY <1>1
  <2>2. ASSUME (c.next_read + i - 1) % ElementCount = k PROVE FALSE
    <3>1. /\ (c.next_read + i - 1) - (c.next_read + (a + 1) - 1) < ElementCount
          /\ (c.next_read + (a + 1) - 1) - (c.next_read + i - 1) < ElementCount
      BY <1>1
    <3>2. (c.next_read + i - 1) % ElementCount = (c.next_read + (a + 1) - 1) % ElementCount
      BY <1>6, <2>2
    <3>3. c.next_read + i - 1 = c.next_read + (a + 1) - 1
      BY <1>1, <2>1, <3>1, <3>2, DistinctRemainders
    <3> QED
      BY <1>1, <3>3
  <2>3. (c.next_read + i - 1) % ElementCount \in 0..ElementCount - 1
    BY <1>1, <2>1
  <2> QED
    BY <2>2, <2>3
<1>8. \A i \in 1..a : M!Contents(d)[i] = M!Contents(c)[i]
  <2> SUFFICES ASSUME NEW i \in 1..a PROVE M!Contents(d)[i] = M!Contents(c)[i]
    OBVIOUS
  <2>1. i \in 1..M!circ_buf_read_avail(c) /\ i \in 1..M!circ_buf_read_avail(d)
    BY <1>1, <1>4
  <2>2. /\ M!Contents(c)[i] = c.element[(c.next_read + i - 1) % ElementCount]
        /\ M!Contents(d)[i] = d.element[(d.next_read + i - 1) % ElementCount]
    BY <1>2, <2>1, ContentsType
  <2> DEFINE j == (c.next_read + i - 1) % ElementCount
  <2>3. j \in 0..ElementCount - 1 /\ j # k
    BY <1>7
  <2> HIDE DEF j
  <2>4. [c.element EXCEPT ![k] = x][j] = c.element[j]
    BY <2>3 DEF Buffers
  <2> QED
    BY <1>2, <2>2, <2>4 DEF j
<1>9. M!Contents(d)[a + 1] = x
  <2>1. a + 1 \in 1..M!circ_buf_read_avail(d)
    BY <1>1, <1>4
  <2>2. M!Contents(d)[a + 1] = d.element[(d.next_read + (a + 1) - 1) % ElementCount]
    BY <1>2, <2>1, ContentsType
  <2>3. d.element[k] = x
    BY <1>1, <1>2 DEF Buffers
  <2> QED
    BY <1>2, <1>6, <2>2, <2>3
<1> HIDE DEF a, k
<1>10. M!Contents(d) = Append(M!Contents(c), x)
  <2> DEFINE s == Append(M!Contents(c), x)
  <2>1. /\ s \in Seq(Readings) /\ Len(s) = a + 1 /\ s[a + 1] = x
        /\ \A i \in 1..a : s[i] = M!Contents(c)[i]
    BY <1>5, AppendProperties
  <2>2. \A i \in 1..a + 1 : i \in 1..a \/ i = a + 1
    BY <1>1
  <2>3. \A i \in 1..a + 1 : M!Contents(d)[i] = s[i]
    BY <1>8, <1>9, <2>1, <2>2
  <2> HIDE DEF s
  <2>4. M!Contents(d) = s
    BY <1>5, <2>1, <2>3, SeqEqual
  <2> QED
    BY <2>4 DEF s
<1>11. M!Sound(d)
  BY <1>1, <1>4 DEF M!Sound
<1> QED
  BY <1>2, <1>10, <1>11 DEF d

(* What is read is the first part, and goes.                               *)
LEMMA ReadDoneDrops ==
    ASSUME Replicated, NEW c \in Buffers, M!Sound(c), NEW n \in 0..M!circ_buf_read_avail(c)
    PROVE  /\ M!circ_buf_read_done(c, n) \in Buffers /\ M!Sound(M!circ_buf_read_done(c, n))
           /\ Len(M!Contents(M!circ_buf_read_done(c, n))) = Len(M!Contents(c)) - n
           /\ M!Contents(M!circ_buf_read_done(c, n))
                 = [i \in 1..Len(M!Contents(c)) - n |-> M!Contents(c)[i + n]]
<1> DEFINE d == M!circ_buf_read_done(c, n)
           a == M!circ_buf_read_avail(c)
<1>1. /\ ElementCount \in Nat \ {0} /\ c.next_write \in Int /\ c.next_read \in Int
      /\ a \in 0..ElementCount /\ n \in 0..a
  <2>1. ElementCount \in Nat \ {0} /\ c.next_write \in Int /\ c.next_read \in Int
    BY MagConstants DEF Buffers
  <2>2. a \in 0..2 * ElementCount - 1 /\ a <= ElementCount
    BY Available DEF M!Sound
  <2> QED
    BY <2>1, <2>2
<1>2. /\ d.next_write = c.next_write /\ d.next_read = c.next_read + n
      /\ d.element = c.element /\ d \in Buffers
  <2>1. c.next_read + n \in Int
    BY <1>1
  <2> QED
    BY <1>1, <2>1 DEF M!circ_buf_read_done, Buffers
<1> HIDE DEF d
<1>3. PICK q \in Int : c.next_write = c.next_read + a + (2 * ElementCount) * q
  BY Available
<1>4. M!circ_buf_read_avail(d) = a - n
  <2> DEFINE m == (2 * ElementCount) * q
  <2>1. m \in Int
    BY <1>1
  <2> HIDE DEF m
  <2>2. d.next_write = d.next_read + (a - n) + m
    BY <1>1, <1>2, <1>3, <2>1 DEF m
  <2>3. a - n \in 0..2 * ElementCount - 1
    BY <1>1
  <2> QED
    BY <1>2, <2>2, <2>3, AvailableIs DEF m
<1>5. /\ M!Contents(c) \in Seq(Readings) /\ Len(M!Contents(c)) = a
      /\ M!Contents(d) \in Seq(Readings) /\ Len(M!Contents(d)) = a - n
  BY <1>2, <1>4, ContentsType
<1>6. \A i \in 1..a - n : M!Contents(d)[i] = M!Contents(c)[i + n]
  <2> SUFFICES ASSUME NEW i \in 1..a - n PROVE M!Contents(d)[i] = M!Contents(c)[i + n]
    OBVIOUS
  <2>1. i + n \in 1..M!circ_buf_read_avail(c) /\ i \in 1..M!circ_buf_read_avail(d)
    BY <1>1, <1>4
  <2>2. /\ M!Contents(c)[i + n] = c.element[(c.next_read + (i + n) - 1) % ElementCount]
        /\ M!Contents(d)[i] = d.element[(d.next_read + i - 1) % ElementCount]
    BY <1>2, <2>1, ContentsType
  <2>3. c.next_read + (i + n) - 1 = d.next_read + i - 1
    BY <1>1, <1>2
  <2> QED
    BY <1>2, <2>2, <2>3
<1>7. M!Contents(d) = [i \in 1..a - n |-> M!Contents(c)[i + n]]
  <2>1. M!Contents(d) = [i \in 1..Len(M!Contents(d)) |-> M!Contents(d)[i]]
    BY <1>5, SeqDef, LenProperties
  <2> QED
    BY <1>5, <1>6, <2>1
<1>8. M!Sound(d)
  BY <1>1, <1>4 DEF M!Sound
<1> QED
  BY <1>2, <1>5, <1>7, <1>8 DEF d

-----------------------------------------------------------------------------
(* What a replica makes of the readings q that it holds: those it holds    *)
(* when the answer was looked at, its note, its report, and what is left.  *)

Taking(q) ==
    IF magNote = <<>> THEN <<>>
    ELSE IF M!Taken /\ Len(q) < ElementCount THEN Append(q, M!Reading) ELSE q

Count(q) == IF Len(q) > MaxPerMap THEN MaxPerMap ELSE Len(q)
Until(n, q) ==
    IF Len(q) > MaxPerMap THEN q[MaxPerMap + 1].time - 1
    ELSE IF n.state \in M!Latched /\ M!mission(now) >= n.actual_reading_time
    THEN M!mission(n.actual_reading_time) - 1 ELSE M!mission(now)
Sends(n, q, can_send) == q # <<>> /\ M!IsDue(n) /\ can_send
NoteAfter(n, q, can_send) ==
    IF q = <<>> THEN [n EXCEPT !.last_telem_time = now]
    ELSE IF Sends(n, q, can_send)
    THEN [n EXCEPT !.last_telem_time = now, !.earliest_time = Until(n, q) + 1] ELSE n
ReportOf(n, q) ==
    [earliest |-> n.earliest_time, latest |-> Until(n, q), readings |-> SubSeq(q, 1, Count(q))]
ReportAfter(n, q, can_send) == IF Sends(n, q, can_send) THEN <<ReportOf(n, q)>> ELSE <<>>
Without(q, k) == [i \in 1..Len(q) - k |-> q[i + k]]
QueueAfter(n, q, can_send) == IF Sends(n, q, can_send) THEN Without(q, Count(q)) ELSE q

LEMMA NowType ==
    ASSUME Replicated, MagTyped PROVE now \in Int /\ 0 <= now /\ now <= MaxTime
  BY MagConstants DEF MagTyped

LEMMA FedType ==
    ASSUME Replicated, MagTyped
    PROVE  /\ M!Fed \in MagNotes /\ (magNote # <<>> => M!Fed = magNote[1])
           /\ (magNote = <<>> => M!Fed.state = "MS_UNKNOWN" /\ ~M!Taken)
<1>1. M!Blank \in MagNotes /\ M!Blank.state = "MS_UNKNOWN"
  <2>1. M!mission(now) \in Int
    BY NowType, MagConstants DEF M!mission
  <2> QED
    BY <2>1 DEF M!Blank, MagNotes, M!States
<1>2. magNote # <<>> => magNote[1] \in MagNotes
  BY DEF MagTyped, Optional
<1> QED
  BY <1>1, <1>2 DEF M!Fed, M!Taken

LEMMA ReadingType ==
    ASSUME Replicated, MagTyped, M!Taken
    PROVE  /\ M!Reading \in Readings /\ answer # <<>> /\ answer[1].value \in Int
           /\ M!Reading.time = M!mission(M!Fed.actual_reading_time) /\ M!Reading.value = answer[1].value
<1>1. answer # <<>> /\ answer[1].value \in Int
  BY DEF MagTyped, Optional, M!Taken
<1>2. M!mission(M!Fed.actual_reading_time) \in Int
  BY FedType, MagConstants DEF M!mission, MagNotes
<1> QED
  BY <1>1, <1>2 DEF M!Reading, Readings

LEMMA StoredIs ==
    ASSUME Replicated, MagTyped, NEW c \in Buffers, M!Sound(M!Kept(c))
    PROVE  /\ M!Stored(M!Kept(c)) \in Buffers /\ M!Sound(M!Stored(M!Kept(c)))
           /\ M!Contents(M!Stored(M!Kept(c))) = Taking(M!Contents(c))
<1>1. CASE magNote = <<>>
  <2>1. M!Kept(c) = M!circ_buf_reset(c) /\ ~M!Taken
    BY <1>1, FedType DEF M!Kept
  <2> QED
    BY <1>1, <2>1, ResetEmpties DEF M!Stored, Taking
<1>2. CASE magNote # <<>>
  <2>1. M!Kept(c) = c /\ Len(M!Contents(c)) = M!circ_buf_read_avail(c) /\ M!circ_buf_read_avail(c) \in Int
    BY <1>2, ContentsType, Available, MagConstants DEF M!Kept
  <2>2. M!HasRoom(c) <=> M!circ_buf_read_avail(c) < ElementCount
    BY <2>1, MagConstants DEF M!HasRoom, M!circ_buf_write_avail
  <2>3. CASE M!Taken /\ M!HasRoom(c)
    <3>1. M!Stored(c) = M!Written(c, M!Reading)
      BY <2>3 DEF M!Stored
    <3>2. Taking(M!Contents(c)) = Append(M!Contents(c), M!Reading)
      BY <1>2, <2>1, <2>2, <2>3 DEF Taking
    <3> QED
      BY <2>1, <2>2, <2>3, <3>1, <3>2, ReadingType, WrittenAppends
  <2>4. CASE ~(M!Taken /\ M!HasRoom(c))
    <3>1. M!Stored(c) = c
      BY <2>4 DEF M!Stored
    <3>2. Taking(M!Contents(c)) = M!Contents(c)
      BY <1>2, <2>1, <2>2, <2>4 DEF Taking
    <3> QED
      BY <2>1, <3>1, <3>2
  <2> QED
    BY <2>3, <2>4
<1> QED
  BY <1>1, <1>2

LEMMA ResultIs ==
    ASSUME Replicated, MagTyped, NEW c \in Buffers, M!Sound(M!Kept(c)), NEW cmd, NEW can_send \in BOOLEAN,
           NEW n, n = M!Controlled(cmd), NEW q, q = Taking(M!Contents(c))
    PROVE  /\ M!Result(c, cmd, can_send).note = NoteAfter(n, q, can_send)
           /\ M!Result(c, cmd, can_send).report = ReportAfter(n, q, can_send)
           /\ M!Result(c, cmd, can_send).buffer \in Buffers
           /\ M!Sound(M!Result(c, cmd, can_send).buffer)
           /\ M!Contents(M!Result(c, cmd, can_send).buffer) = QueueAfter(n, q, can_send)
<1> DEFINE b == M!Stored(M!Kept(c))
<1>1. b \in Buffers /\ M!Sound(b) /\ M!Contents(b) = q
  BY StoredIs
<1>2. M!Result(c, cmd, can_send) =
        CASE M!Nothing(b) -> [note |-> [n EXCEPT !.last_telem_time = now], buffer |-> b, report |-> <<>>]
          [] ~M!Nothing(b) /\ M!IsDue(n) /\ can_send ->
                [note |-> [n EXCEPT !.last_telem_time = now, !.earliest_time = M!LatestTime(n, b) + 1],
                 buffer |-> M!circ_buf_read_done(b, M!WriteCount(b)), report |-> <<M!Report(n, b)>>]
          [] OTHER -> [note |-> n, buffer |-> b, report |-> <<>>]
  BY DEF M!Result
<1> HIDE DEF b
<1>3. Len(q) = M!circ_buf_read_avail(b) /\ Len(q) \in Nat /\ q \in Seq(Readings)
  BY <1>1, ContentsType, LenProperties
<1>4. M!Nothing(b) <=> q = <<>>
  BY <1>3, EmptySeq DEF M!Nothing
<1>5. M!WriteCount(b) = Count(q) /\ Count(q) \in 0..Len(q)
  BY <1>3, MagConstants DEF M!WriteCount, Count
<1>6. M!LatestTime(n, b) = Until(n, q)
  BY <1>1, <1>3, MagConstants DEF M!LatestTime, Until
<1>7. M!Report(n, b) = ReportOf(n, q)
  BY <1>1, <1>5, <1>6 DEF M!Report, ReportOf
<1>8. CASE M!Nothing(b)
  BY <1>1, <1>2, <1>4, <1>8 DEF NoteAfter, ReportAfter, QueueAfter, Sends
<1>9. CASE ~M!Nothing(b) /\ M!IsDue(n) /\ can_send
  <2>1. Sends(n, q, can_send)
    BY <1>4, <1>9 DEF Sends
  <2>2. /\ M!Result(c, cmd, can_send).note
              = [n EXCEPT !.last_telem_time = now, !.earliest_time = Until(n, q) + 1]
        /\ M!Result(c, cmd, can_send).buffer = M!circ_buf_read_done(b, Count(q))
        /\ M!Result(c, cmd, can_send).report = <<ReportOf(n, q)>>
    BY <1>2, <1>5, <1>6, <1>7, <1>9
  <2>3. /\ M!circ_buf_read_done(b, Count(q)) \in Buffers /\ M!Sound(M!circ_buf_read_done(b, Count(q)))
        /\ M!Contents(M!circ_buf_read_done(b, Count(q))) = Without(q, Count(q))
    BY <1>1, <1>3, <1>5, ReadDoneDrops DEF Without
  <2> QED
    BY <1>4, <1>9, <2>1, <2>2, <2>3 DEF NoteAfter, ReportAfter, QueueAfter
<1>10. CASE ~M!Nothing(b) /\ ~(M!IsDue(n) /\ can_send)
  <2>1. ~Sends(n, q, can_send) /\ q # <<>>
    BY <1>4, <1>10 DEF Sends
  <2>2. M!Result(c, cmd, can_send) = [note |-> n, buffer |-> b, report |-> <<>>]
    BY <1>2, <1>10
  <2> QED
    BY <1>1, <2>1, <2>2 DEF NoteAfter, ReportAfter, QueueAfter
<1> QED
  BY <1>8, <1>9, <1>10

LEMMA PartialType ==
    ASSUME Replicated, MagTyped, NEW c \in Buffers, NEW cmd, NEW can_send \in BOOLEAN
    PROVE  M!Partial(c, cmd, can_send) \subseteq Buffers
<1>1. CASE M!Sound(M!Kept(c))
  <2>1. M!Stored(M!Kept(c)) \in Buffers /\ M!Result(c, cmd, can_send).buffer \in Buffers
    BY <1>1, StoredIs, ResultIs
  <2> QED
    BY <2>1, <1>1 DEF M!Partial
<1>2. CASE ~M!Sound(M!Kept(c))
  BY <1>2 DEF M!Partial
<1> QED
  BY <1>1, <1>2

-----------------------------------------------------------------------------
(* The replicas.                                                           *)

LEMMA CountsAlike == \A S : M!Cardinality(S) = Cardinality(S)
  BY DEF M!Cardinality, Cardinality

LEMMA Outvotes ==
    ASSUME Replicated, NEW odd \in Replicas
    PROVE  /\ Cardinality(Replicas) \in Nat /\ M!Majority \in Nat /\ M!Majority >= 2
           /\ IsFiniteSet(Replicas \ {odd}) /\ Cardinality(Replicas \ {odd}) >= M!Majority
           /\ \A x \in Replicas : \E r \in Replicas : r # odd /\ r # x
<1> DEFINE n == Cardinality(Replicas)
<1>1. n \in Nat /\ n >= 3
  BY MagConstants, FS_CardinalityType DEF Replicated
<1>2. IsFiniteSet(Replicas \ {odd}) /\ Cardinality(Replicas \ {odd}) = n - 1
  BY MagConstants, FS_RemoveElement
<1>3. M!Majority = 1 + n \div 2
  BY CountsAlike DEF M!Majority
<1> HIDE DEF n
<1>4. n \div 2 \in Int /\ 2 * (n \div 2) <= n /\ n \div 2 >= 1
  BY <1>1
<1>5. \A x \in Replicas : \E r \in Replicas : r # odd /\ r # x
  <2> SUFFICES ASSUME NEW x \in Replicas, \A r \in Replicas : r = odd \/ r = x PROVE FALSE
    OBVIOUS
  <2>1. Replicas \ {odd} \subseteq {x}
    OBVIOUS
  <2>2. Cardinality(Replicas \ {odd}) <= Cardinality({x}) /\ Cardinality({x}) = 1
    BY <2>1, FS_Subset, FS_Singleton
  <2> QED
    BY <1>1, <1>2, <2>2
<1> QED
  BY <1>1, <1>2, <1>3, <1>4, <1>5 DEF n

LEMMA AgreedIs ==
    ASSUME Replicated, NEW odd \in Replicas, NEW runs, runs \subseteq Replicas,
           Replicas \ {odd} \subseteq runs, NEW f, NEW x, \A r \in runs \ {odd} : f[r] = x
    PROVE  M!Agreed(f, runs) = <<x>>
<1> DEFINE Backers(y) == {r \in runs : f[r] = y}
<1>1. /\ M!Majority \in Nat /\ M!Majority >= 2
      /\ IsFiniteSet(Replicas \ {odd}) /\ Cardinality(Replicas \ {odd}) >= M!Majority
      /\ IsFiniteSet(runs)
  BY Outvotes, MagConstants, FS_Subset
<1>2. Cardinality(Backers(x)) >= M!Majority
  <2>1. Replicas \ {odd} \subseteq Backers(x) /\ Backers(x) \subseteq runs
    OBVIOUS
  <2>2. IsFiniteSet(Backers(x))
    BY <1>1, <2>1, FS_Subset
  <2>3. Cardinality(Replicas \ {odd}) <= Cardinality(Backers(x))
    BY <2>1, <2>2, FS_Subset
  <2>4. Cardinality(Backers(x)) \in Nat /\ Cardinality(Replicas \ {odd}) \in Nat
    BY <1>1, <2>2, FS_CardinalityType
  <2> HIDE DEF Backers
  <2> QED
    BY <1>1, <2>3, <2>4
<1>3. ASSUME NEW y, y # x PROVE ~(Cardinality(Backers(y)) >= M!Majority)
  <2>1. Backers(y) \subseteq {odd}
    BY <1>3
  <2>2. IsFiniteSet({odd}) /\ Cardinality({odd}) = 1
    BY FS_Singleton
  <2>3. Cardinality(Backers(y)) <= 1 /\ Cardinality(Backers(y)) \in Nat
    BY <2>1, <2>2, FS_Subset, FS_CardinalityType
  <2> HIDE DEF Backers
  <2> QED
    BY <1>1, <2>3
<1>4. PICK r \in runs : f[r] = x
  BY Outvotes
<1>5. M!Agreed(f, runs) =
        IF \E s \in runs : Cardinality(Backers(f[s])) >= M!Majority
        THEN <<f[CHOOSE s \in runs : Cardinality(Backers(f[s])) >= M!Majority]>> ELSE <<>>
  BY CountsAlike DEF M!Agreed
<1> HIDE DEF Backers
<1> DEFINE Wins(s) == Cardinality(Backers(f[s])) >= M!Majority
<1>6. \E s \in runs : Wins(s)
  BY <1>2, <1>4
<1>7. (CHOOSE s \in runs : Wins(s)) \in runs /\ Wins(CHOOSE s \in runs : Wins(s))
  BY <1>6
<1> DEFINE w == CHOOSE s \in runs : Wins(s)
<1>8. M!Agreed(f, runs) = <<f[w]>>
  BY <1>5, <1>6
<1>9. Wins(w)
  BY <1>7
<1> HIDE DEF w
<1>10. f[w] = x
  BY <1>3, <1>9
<1> QED
  BY <1>8, <1>10

LEMMA Alikes ==
    ASSUME Replicated, MagTyped, Together, magNote # <<>>, NEW x \in Replicas,
           \A s, t \in Replicas \ {x} : M!Sound(readings[s]) /\ M!Alike(s, t)
    PROVE  \E q : NoteOK(magNote[1], q) /\ \A r \in Replicas \ {x} : Holds(r, q)
<1>1. PICK odd \in Replicas, alike \in Replicas :
          /\ \A r \in Replicas \ {odd} : Holds(r, M!Contents(readings[alike]))
          /\ NoteOK(magNote[1], M!Contents(readings[alike]))
  BY DEF Together
<1> DEFINE q == M!Contents(readings[alike])
<1>2. PICK s \in Replicas : s # odd /\ s # x
  BY Outvotes
<1>3. M!Contents(readings[s]) = q
  BY <1>1, <1>2 DEF Holds
<1>4. ASSUME NEW r \in Replicas \ {x} PROVE Holds(r, q)
  <2>1. M!Sound(readings[r]) /\ M!Alike(r, s)
    BY <1>2
  <2> QED
    BY <1>3, <2>1 DEF M!Alike, Holds
<1> QED
  BY <1>1, <1>4

(* What a run does, whether a replica is cut short or not: most replicas   *)
(* hold the same readings before it, do the same, and hold the same after. *)
LEMMA RunEffect ==
    ASSUME Replicated, MagTyped, Together, NEW cut, NEW cmd, NEW can_send \in BOOLEAN,
           \/ cut = {}
           \/ \E x \in Replicas : /\ cut = {x}
                                  /\ \A s, t \in Replicas \ {x} : M!Sound(readings[s]) /\ M!Alike(s, t),
           M!Run(cut, cmd, can_send)
    PROVE  /\ readings' \in [Replicas -> Buffers]
           /\ \E odd \in Replicas : \E q :
                LET n == M!Controlled(cmd)
                    p == Taking(q) IN
                /\ magNote # <<>> => NoteOK(magNote[1], q)
                /\ magNote' = <<NoteAfter(n, p, can_send)>>
                /\ report' = ReportAfter(n, p, can_send)
                /\ \A r \in Replicas \ {odd} :
                      M!Sound(readings'[r]) /\ M!Contents(readings'[r]) = QueueAfter(n, p, can_send)
<1> DEFINE n == M!Controlled(cmd)
           runs == {r \in Replicas \ cut : M!Sound(M!Kept(readings[r]))}
           R(r) == M!Result(readings[r], cmd, can_send)
<1>1. PICK odd \in Replicas : \E q :
          cut \subseteq {odd}
          /\ (magNote # <<>> => NoteOK(magNote[1], q) /\ \A r \in Replicas \ {odd} : Holds(r, q))
  <2>1. CASE magNote = <<>>
    <3>1. Replicas # {}
      BY FS_EmptySet DEF Replicated
    <3> QED
      BY <2>1, <3>1
  <2>2. CASE magNote # <<>> /\ cut = {}
    BY <2>2 DEF Together
  <2>3. CASE magNote # <<>> /\ cut # {}
    BY <2>3, Alikes
  <2> QED
    BY <2>1, <2>2, <2>3
<1>2. PICK q : cut \subseteq {odd}
          /\ (magNote # <<>> => NoteOK(magNote[1], q) /\ \A r \in Replicas \ {odd} : Holds(r, q))
  BY <1>1
<1> DEFINE p == Taking(q)
<1>3. ASSUME NEW r \in Replicas
      PROVE  readings[r] \in Buffers /\ (magNote = <<>> => M!Sound(M!Kept(readings[r])))
             /\ (magNote # <<>> => M!Kept(readings[r]) = readings[r])
  <2>1. readings[r] \in Buffers
    BY DEF MagTyped
  <2> QED
    BY <2>1, ResetEmpties DEF M!Kept
<1>4. runs \subseteq Replicas /\ Replicas \ {odd} \subseteq runs
  BY <1>2, <1>3 DEF Holds
<1>5. ASSUME NEW r \in runs \ {odd}
      PROVE  /\ R(r).note = NoteAfter(n, p, can_send) /\ R(r).report = ReportAfter(n, p, can_send)
             /\ M!Sound(R(r).buffer) /\ M!Contents(R(r).buffer) = QueueAfter(n, p, can_send)
  <2>1. r \in Replicas /\ readings[r] \in Buffers /\ M!Sound(M!Kept(readings[r]))
    BY <1>3
  <2>2. Taking(M!Contents(readings[r])) = p
    BY <1>2 DEF Holds, Taking
  <2> HIDE DEF n, p, runs
  <2>3. n = M!Controlled(cmd)
    BY DEF n
  <2> QED
    BY <2>1, <2>2, <2>3, ResultIs
<1>6. ASSUME NEW r \in runs PROVE R(r).buffer \in Buffers
  <2>1. r \in Replicas /\ readings[r] \in Buffers /\ M!Sound(M!Kept(readings[r]))
    BY <1>3
  <2> QED
    BY <2>1, ResultIs
<1>7. PICK part :
          /\ \A r \in cut : part \in M!Partial(readings[r], cmd, can_send)
          /\ magNote' = M!Agreed([r \in runs |-> [s \in runs |-> R(s)][r].note], runs)
          /\ readings' = [r \in Replicas |->
                CASE r \in cut -> part [] r \in runs -> [s \in runs |-> R(s)][r].buffer
                  [] OTHER -> readings[r]]
          /\ \E sent \in {M!Agreed([r \in runs |-> [s \in runs |-> R(s)][r].report], runs)} :
                report' = IF sent = <<>> THEN <<>> ELSE sent[1]
  BY DEF M!Run
<1> DEFINE notes == [r \in runs |-> R(r).note]
           reports == [r \in runs |-> R(r).report]
<1>8. /\ magNote' = M!Agreed(notes, runs)
      /\ readings' = [r \in Replicas |->
            CASE r \in cut -> part [] r \in runs -> R(r).buffer [] OTHER -> readings[r]]
      /\ \E sent \in {M!Agreed(reports, runs)} : report' = IF sent = <<>> THEN <<>> ELSE sent[1]
  <2> HIDE DEF R, runs
  <2>1. [r \in runs |-> [s \in runs |-> R(s)][r].note] = notes
    OBVIOUS
  <2>2. [r \in runs |-> [s \in runs |-> R(s)][r].report] = reports
    OBVIOUS
  <2>3. \A r \in runs : [s \in runs |-> R(s)][r].buffer = R(r).buffer
    OBVIOUS
  <2> HIDE DEF notes, reports
  <2> QED
    BY <1>7, <2>1, <2>2, <2>3
<1>9. \A r \in runs \ {odd} : notes[r] = NoteAfter(n, p, can_send) /\ reports[r] = ReportAfter(n, p, can_send)
  <2> HIDE DEF R, runs, n, p
  <2> QED
    BY <1>5
<1>10. readings' \in [Replicas -> Buffers]
  <2>1. \A r \in cut : part \in Buffers
    BY <1>2, <1>3, <1>7, PartialType
  <2> HIDE DEF R, runs
  <2> QED
    BY <1>3, <1>6, <1>8, <2>1
<1>11. \A r \in Replicas \ {odd} : readings'[r] = R(r).buffer /\ r \in runs \ {odd}
  <2> HIDE DEF R, runs
  <2> QED
    BY <1>2, <1>4, <1>8
<1> HIDE DEF notes, reports, runs, R, n, p
<1>voted. ASSUME NEW f, NEW x, \A r \in runs \ {odd} : f[r] = x
          PROVE  M!Agreed(f, runs) = <<x>>
  BY <1>4, <1>voted, AgreedIs
<1>12. magNote' = <<NoteAfter(n, p, can_send)>>
  <2> DEFINE x == NoteAfter(n, p, can_send)
  <2>0. \A r \in runs \ {odd} : notes[r] = x
    BY <1>9
  <2> HIDE DEF x
  <2>1. M!Agreed(notes, runs) = <<x>>
    BY <1>voted, <2>0
  <2> USE DEF x
  <2> QED
    BY <1>8, <2>1
<1>13. report' = ReportAfter(n, p, can_send)
  <2> DEFINE x == ReportAfter(n, p, can_send)
  <2>0. \A r \in runs \ {odd} : reports[r] = x
    BY <1>9
  <2> HIDE DEF x
  <2>1. M!Agreed(reports, runs) = <<x>>
    BY <1>voted, <2>0
  <2> USE DEF x
  <2> QED
    BY <1>8, <2>1
<1>14. \A r \in Replicas \ {odd} :
          M!Sound(readings'[r]) /\ M!Contents(readings'[r]) = QueueAfter(n, p, can_send)
  BY <1>5, <1>11
<1> QED
  BY <1>2, <1>10, <1>12, <1>13, <1>14 DEF n, p

-----------------------------------------------------------------------------
(* The note, stage by stage.                                               *)

LEMMA CompletedIs ==
    ASSUME Replicated, NEW f \in MagNotes, f = M!Fed, now \in Int
    PROVE  LET n == M!Completed(f) IN
           /\ n \in MagNotes /\ n.earliest_time = f.earliest_time
           /\ n.state \in M!Latched =>
                \/ f.state \in M!Latched /\ ~M!Taken /\ n.actual_reading_time = f.actual_reading_time
                \/ f.state = "MS_LATCHING_ON" /\ answer # <<>> /\ n.actual_reading_time = now
           /\ n.state \in Powered => f.state \in Powered \/ (f.state = "MS_ACTIVATING" /\ answer # <<>>)
<1>1. now + LatchingDelay \in Int
  BY MagConstants
<1>2. CASE f.state = "MS_ACTIVATING" /\ answer # <<>>
  <2>1. M!Completed(f) = [f EXCEPT !.state = "MS_ACTIVE"]
    BY <1>2 DEF M!Completed, M!Taken
  <2> QED
    BY <1>2, <2>1 DEF MagNotes, M!States, M!Latched, Powered
<1>3. CASE f.state = "MS_DEACTIVATING" /\ answer # <<>>
  <2>1. M!Completed(f) = [f EXCEPT !.state = "MS_INACTIVE"]
    BY <1>3 DEF M!Completed, M!Taken
  <2> QED
    BY <1>3, <2>1 DEF MagNotes, M!States, M!Latched, Powered
<1>4. CASE f.state = "MS_LATCHING_ON" /\ answer # <<>>
  <2>1. M!Completed(f) = [f EXCEPT !.state = "MS_LATCHED_ON", !.actual_reading_time = now,
                                 !.check_latch_time = now + LatchingDelay]
    BY <1>4 DEF M!Completed, M!Taken
  <2> QED
    BY <1>1, <1>4, <2>1 DEF MagNotes, M!States, M!Latched, Powered
<1>5. CASE f.state = "MS_LATCHING_ON" /\ answer = <<>>
  BY <1>5 DEF M!Completed, MagNotes, M!States, M!Latched, Powered
<1>6. CASE M!Taken
  <2>1. f.state = "MS_TAKING_READING"
    BY <1>6 DEF M!Taken
  <2>2. M!Completed(f) = [f EXCEPT !.state = "MS_ACTIVE"]
    BY <1>6, <2>1 DEF M!Completed
  <2> QED
    BY <2>1, <2>2 DEF MagNotes, M!States, M!Latched, Powered
<1>7. CASE /\ ~M!Taken /\ f.state # "MS_LATCHING_ON"
           /\ ~(f.state \in {"MS_ACTIVATING", "MS_DEACTIVATING"} /\ answer # <<>>)
  BY <1>7 DEF M!Completed, M!Latched, Powered
<1> QED
  BY <1>2, <1>3, <1>4, <1>5, <1>6, <1>7

LEMMA DecidedIs ==
    ASSUME Replicated, NEW f \in MagNotes, now \in Int
    PROVE  LET n == M!Decided(f) IN
           /\ n \in MagNotes /\ n.earliest_time = f.earliest_time
           /\ n.actual_reading_time = f.actual_reading_time
           /\ n.state \in M!Latched => f.state \in M!Latched
           /\ n.state \in Powered => f.state \in Powered
<1>1. f.next_reading_time + ReadingDelay \in Int
  BY MagConstants DEF MagNotes
<1>2. CASE (f.state \in {"MS_INACTIVE", "MS_DEACTIVATING"} \/ M!Free(f)) /\ f.should_be_powered
  <2>1. M!Decided(f) = [f EXCEPT !.state = "MS_ACTIVATING"]
    BY <1>2 DEF M!Decided, M!Free
  <2> QED
    BY <1>2, <2>1 DEF MagNotes, M!States, M!Latched, Powered
<1>3. CASE (f.state \in {"MS_ACTIVATING", "MS_ACTIVE"} \/ M!Free(f)) /\ ~f.should_be_powered
  <2>1. M!Decided(f) = [f EXCEPT !.state = "MS_DEACTIVATING"]
    BY <1>3 DEF M!Decided, M!Free
  <2> QED
    BY <1>3, <2>1 DEF MagNotes, M!States, M!Latched, Powered
<1>4. CASE f.state = "MS_ACTIVE" /\ f.should_be_powered /\ now >= f.next_reading_time
  <2>1. M!Decided(f) = [f EXCEPT !.state = "MS_LATCHING_ON",
                                 !.next_reading_time = f.next_reading_time + ReadingDelay]
    BY <1>4 DEF M!Decided, M!Free
  <2> QED
    BY <1>1, <1>4, <2>1 DEF MagNotes, M!States, M!Latched, Powered
<1>5. CASE f.state = "MS_LATCHED_ON" /\ now >= f.check_latch_time
  BY <1>5 DEF M!Decided, MagNotes, M!States, M!Latched, Powered, M!Free
<1>6. CASE /\ ~((f.state \in {"MS_INACTIVE", "MS_DEACTIVATING"} \/ M!Free(f)) /\ f.should_be_powered)
           /\ ~((f.state \in {"MS_ACTIVATING", "MS_ACTIVE"} \/ M!Free(f)) /\ ~f.should_be_powered)
           /\ ~(f.state = "MS_ACTIVE" /\ f.should_be_powered /\ now >= f.next_reading_time)
           /\ ~(f.state = "MS_LATCHED_ON" /\ now >= f.check_latch_time)
  BY <1>6 DEF M!Decided
<1> QED
  BY <1>2, <1>3, <1>4, <1>5, <1>6

LEMMA ControlledIs ==
    ASSUME Replicated, MagTyped, NEW cmd
    PROVE  LET n == M!Controlled(cmd) IN
           /\ n \in MagNotes /\ n.earliest_time = M!Fed.earliest_time
           /\ n.state \in M!Latched =>
                \/ M!Fed.state \in M!Latched /\ ~M!Taken /\ n.actual_reading_time = M!Fed.actual_reading_time
                \/ M!Fed.state = "MS_LATCHING_ON" /\ answer # <<>> /\ n.actual_reading_time = now
           /\ n.state \in Powered => M!Fed.state \in Powered \/ (M!Fed.state = "MS_ACTIVATING" /\ answer # <<>>)
<1> DEFINE a == M!Completed(M!Fed)
           b == M!Ordered(a, cmd)
           c == M!Decided(b)
           n == M!Started(c)
<1>1. M!Fed \in MagNotes /\ now \in Int /\ now + ReadingDelay \in Int
  BY FedType, NowType, MagConstants
<1>2. /\ a \in MagNotes /\ a.earliest_time = M!Fed.earliest_time
      /\ a.state \in M!Latched =>
                \/ M!Fed.state \in M!Latched /\ ~M!Taken /\ a.actual_reading_time = M!Fed.actual_reading_time
                \/ M!Fed.state = "MS_LATCHING_ON" /\ answer # <<>> /\ a.actual_reading_time = now
      /\ a.state \in Powered => M!Fed.state \in Powered \/ (M!Fed.state = "MS_ACTIVATING" /\ answer # <<>>)
  BY <1>1, CompletedIs
<1> HIDE DEF a
<1>3. /\ b \in MagNotes /\ b.earliest_time = a.earliest_time /\ b.state = a.state
      /\ b.actual_reading_time = a.actual_reading_time
  BY <1>2 DEF M!Ordered, MagNotes
<1> HIDE DEF b
<1>4. /\ c \in MagNotes /\ c.earliest_time = b.earliest_time
      /\ c.actual_reading_time = b.actual_reading_time
      /\ c.state \in M!Latched => b.state \in M!Latched
      /\ c.state \in Powered => b.state \in Powered
  BY <1>1, <1>3, DecidedIs
<1> HIDE DEF c
<1>5. /\ n \in MagNotes /\ n.earliest_time = c.earliest_time /\ n.state = c.state
      /\ n.actual_reading_time = c.actual_reading_time
  BY <1>1, <1>4 DEF M!Started, MagNotes
<1>6. n = M!Controlled(cmd)
  BY DEF a, b, c, M!Controlled
<1> HIDE DEF n
<1> QED
  BY <1>2, <1>3, <1>4, <1>5, <1>6

-----------------------------------------------------------------------------
(* What most replicas hold before they report: the note n and readings q.  *)

MidOK(n, q) ==
    /\ n \in MagNotes /\ ground.latest < n.earliest_time /\ n.earliest_time <= M!mission(now)
    /\ q \in Seq(Readings) /\ Len(q) <= ElementCount
    /\ \A i \in 1..Len(q) :
          /\ n.earliest_time <= q[i].time /\ q[i].time <= M!mission(now)
          /\ ground.value < q[i].value /\ q[i].value <= now
          /\ M!mission(q[i].value) <= q[i].time
          /\ device.LatchSet => q[i].value < device.latched
    /\ \A i, j \in 1..Len(q) : i < j => q[i].time < q[j].time /\ q[i].value < q[j].value
    /\ n.state \in Powered => device.PowerEnabled
    /\ n.state \in M!Latched =>
          /\ ground.value < FieldRead(device) /\ \A i \in 1..Len(q) : q[i].value < FieldRead(device)
          /\ FieldRead(device) <= n.actual_reading_time /\ n.actual_reading_time <= now
          /\ n.earliest_time <= M!mission(n.actual_reading_time)
          /\ \A i \in 1..Len(q) : q[i].time < M!mission(n.actual_reading_time)

LEMMA LastIs == LastOK /\ phase = "clip" => MagLast = ground /\ Past = now - 1
  BY DEF LastOK, MagLast, Past

LEMMA ControlledOK ==
    ASSUME Replicated, MagTyped, LastOK, phase = "clip", NEW cmd, NEW q,
           magNote # <<>> => NoteOK(magNote[1], q)
    PROVE  MidOK(M!Controlled(cmd), Taking(q))
<1> DEFINE n == M!Controlled(cmd)
           p == Taking(q)
           f == M!Fed
<1>1. /\ n \in MagNotes /\ n.earliest_time = f.earliest_time
      /\ n.state \in M!Latched =>
           \/ f.state \in M!Latched /\ ~M!Taken /\ n.actual_reading_time = f.actual_reading_time
           \/ f.state = "MS_LATCHING_ON" /\ answer # <<>> /\ n.actual_reading_time = now
      /\ n.state \in Powered => f.state \in Powered \/ (f.state = "MS_ACTIVATING" /\ answer # <<>>)
  BY ControlledIs
<1>2. /\ now \in Int /\ 0 <= now /\ f \in MagNotes /\ Offset \in Int /\ ground.latest \in Int
      /\ ground.value \in Int /\ MagLast = ground /\ Past = now - 1 /\ ElementCount \in Int
  <2>1. now \in Int /\ 0 <= now
    BY NowType
  <2>2. f \in MagNotes
    BY FedType
  <2>3. Offset \in Nat /\ ElementCount \in Nat \ {0}
    BY MagConstants
  <2>4. ground.latest \in Int /\ ground.value \in Int
    BY DEF MagTyped
  <2>5. MagLast = ground /\ Past = now - 1
    BY LastIs
  <2> HIDE DEF n, p, f
  <2> QED
    BY <2>1, <2>2, <2>3, <2>4, <2>5
<1> HIDE DEF n
<1>3. CASE magNote = <<>>
  <2>1. p = <<>> /\ Len(p) = 0 /\ p \in Seq(Readings)
    BY <1>3, EmptySeq DEF Taking
  <2>2. f.earliest_time = M!mission(now) /\ f.state = "MS_UNKNOWN"
    BY <1>3 DEF M!Fed, M!Blank
  <2>3. n.state \notin Powered /\ n.state \notin M!Latched
    BY <1>1, <2>2 DEF Powered, M!Latched
  <2>4. ground.latest < M!mission(now)
    BY <1>2 DEF LastOK, M!mission
  <2>5. ElementCount \in Nat \ {0} /\ M!mission(now) \in Int
    BY <1>2, MagConstants DEF M!mission
  <2> HIDE DEF p, f
  <2> QED
    BY <1>1, <2>1, <2>2, <2>3, <2>4, <2>5 DEF MidOK, n, p
<1>4. CASE magNote # <<>>
  <2>1. f = magNote[1] /\ NoteOK(f, q)
    BY <1>4, FedType
  <2> HIDE DEF f
  <2>2. /\ q \in Seq(Readings) /\ Len(q) \in Nat /\ Len(q) <= ElementCount
        /\ \A i \in 1..Len(q) : q[i] \in Readings /\ q[i].time \in Int /\ q[i].value \in Int
    <3>1. q \in Seq(Readings) /\ Len(q) <= ElementCount
      BY <2>1 DEF NoteOK, NoteIn, QueueOK
    <3>2. \A i \in 1..Len(q) : q[i] \in Readings
      BY <3>1, ElementOfSeq
    <3> QED
      BY <3>1, <3>2, LenProperties DEF Readings
  <2>3. FieldRead(device) \in Int /\ device.latched \in Int /\ f.earliest_time \in Int
        /\ f.actual_reading_time \in Int
    BY <1>2 DEF MagTyped, FieldRead, MagNotes
  <2>4. ground.latest < f.earliest_time /\ f.earliest_time <= M!mission(now)
    BY <1>2, <2>1, <2>3 DEF NoteOK, NoteIn, M!mission
  <2>5. /\ \A i \in 1..Len(q) :
              /\ f.earliest_time <= q[i].time /\ q[i].time <= M!mission(now - 1)
              /\ ground.value < q[i].value /\ q[i].value <= now
              /\ M!mission(q[i].value) <= q[i].time
              /\ device.LatchSet => q[i].value < device.latched
        /\ \A i, j \in 1..Len(q) : i < j => q[i].time < q[j].time /\ q[i].value < q[j].value
    BY <1>2, <2>1 DEF NoteOK, NoteIn, QueueOK
  <2>6. \A i \in 1..Len(q) : q[i].time <= M!mission(now) /\ q[i].time < M!mission(now)
    <3>1. now \in Int /\ Offset \in Int
      BY <1>2
    <3>2. M!mission(now - 1) < M!mission(now) /\ M!mission(now - 1) \in Int /\ M!mission(now) \in Int
      BY <3>1 DEF M!mission
    <3>3. \A i \in 1..Len(q) : q[i].time \in Int /\ q[i].time <= M!mission(now - 1)
      BY <2>2, <2>5
    <3>4. \A t, a, b \in Int : t <= a /\ a < b => t <= b /\ t < b
      OBVIOUS
    <3> QED
      BY <3>2, <3>3, <3>4
  <2>7. /\ f.state \in {"MS_ACTIVE", "MS_LATCHING_ON"} \cup M!Latched => device.PowerEnabled
        /\ answer # <<>> /\ f.state = "MS_ACTIVATING" => device.PowerEnabled
        /\ answer # <<>> /\ f.state = "MS_LATCHING_ON" => Fresh(q, ground, device) /\ FieldRead(device) <= now
        /\ answer # <<>> /\ f.state = "MS_TAKING_READING" =>
              answer[1].latch = device.LatchSet /\ answer[1].value = device.Snap
        /\ f.state \in M!Latched =>
              /\ Fresh(q, ground, device) /\ FieldRead(device) <= f.actual_reading_time
              /\ f.actual_reading_time <= now - 1
              /\ f.earliest_time <= M!mission(f.actual_reading_time)
              /\ \A i \in 1..Len(q) : q[i].time < M!mission(f.actual_reading_time)
    <3>1. Pending(f, q, now, Past, MagLast, device, phase, answer)
      BY <2>1 DEF NoteOK, NoteIn
    <3>2. Past = now - 1 /\ MagLast = ground /\ phase = "clip"
      BY <1>2 DEF Past, MagLast
    <3>3. Pending(f, q, now, now - 1, ground, device, "clip", answer)
      BY <3>1, <3>2
    <3> QED
      BY <3>3 DEF Pending, Powered
  <2>8. n.state \in Powered => device.PowerEnabled
    BY <1>1, <2>7 DEF Powered
  <2>9. Fresh(q, ground, device) =>
            ground.value < FieldRead(device) /\ \A i \in 1..Len(q) : q[i].value < FieldRead(device)
    BY <1>2 DEF Fresh
  <2>10. n.state \in M!Latched => p = q
    <3>1. f.state = "MS_LATCHING_ON" => ~M!Taken
      BY DEF M!Taken, f
    <3> QED
      BY <1>1, <1>4, <3>1 DEF Taking
  <2>11. n.state \in M!Latched =>
          /\ ground.value < FieldRead(device) /\ \A i \in 1..Len(q) : q[i].value < FieldRead(device)
          /\ FieldRead(device) <= n.actual_reading_time /\ n.actual_reading_time <= now
          /\ f.earliest_time <= M!mission(n.actual_reading_time)
          /\ \A i \in 1..Len(q) : q[i].time < M!mission(n.actual_reading_time)
    <3>1. CASE f.state \in M!Latched /\ n.actual_reading_time = f.actual_reading_time
      BY <1>2, <2>3, <2>7, <2>9, <3>1
    <3>2. CASE f.state = "MS_LATCHING_ON" /\ answer # <<>> /\ n.actual_reading_time = now
      BY <1>2, <2>4, <2>6, <2>7, <2>9, <3>2
    <3> QED
      BY <1>1, <3>1, <3>2
  <2>12. CASE p = q
    <3> HIDE DEF p
    <3> QED
      BY <1>1, <2>2, <2>4, <2>5, <2>6, <2>8, <2>11, <2>12 DEF MidOK, n, p
  <2>13. CASE p # q
    <3>1. M!Taken /\ Len(q) < ElementCount /\ p = Append(q, M!Reading)
      BY <1>4, <2>13 DEF Taking
    <3>2. f.state = "MS_TAKING_READING" /\ answer # <<>> /\ ~answer[1].latch
      BY <3>1 DEF M!Taken, f
    <3>3. f.state \in M!Latched
      BY <3>2 DEF M!Latched
    <3>4. /\ M!Reading \in Readings /\ M!Reading.time = M!mission(f.actual_reading_time)
          /\ M!Reading.value = FieldRead(device) /\ ~device.LatchSet
      BY <2>7, <3>1, <3>2, ReadingType DEF f, FieldRead
    <3> DEFINE x == M!Reading
    <3>5. /\ x.time \in Int /\ x.value \in Int /\ f.earliest_time <= x.time /\ x.time <= M!mission(now)
          /\ ground.value < x.value /\ x.value <= now /\ M!mission(x.value) <= x.time
      BY <1>2, <2>3, <2>7, <2>9, <3>3, <3>4 DEF M!mission
    <3>6. \A i \in 1..Len(q) : q[i].time < x.time /\ q[i].value < x.value
      BY <2>7, <2>9, <3>3, <3>4
    <3>7. /\ p \in Seq(Readings) /\ Len(p) = Len(q) + 1 /\ Len(p) <= ElementCount
          /\ \A i \in 1..Len(q) : p[i] = q[i] /\ p[Len(p)] = x
      BY <1>2, <2>2, <3>1, <3>4, AppendProperties
    <3>8. p[Len(p)] = x
      BY <2>2, <3>1, <3>4, AppendProperties
    <3> HIDE DEF p, x
    <3>9. \A i \in 1..Len(p) : i \in 1..Len(q) \/ i = Len(p)
      BY <2>2, <3>7
    <3>10. \A i \in 1..Len(p) :
              /\ f.earliest_time <= p[i].time /\ p[i].time <= M!mission(now)
              /\ ground.value < p[i].value /\ p[i].value <= now
              /\ M!mission(p[i].value) <= p[i].time
      BY <2>5, <2>6, <3>5, <3>7, <3>8, <3>9
    <3>11. \A i, j \in 1..Len(p) : i < j => p[i].time < p[j].time /\ p[i].value < p[j].value
      <4> SUFFICES ASSUME NEW i \in 1..Len(p), NEW j \in 1..Len(p), i < j
                   PROVE  p[i].time < p[j].time /\ p[i].value < p[j].value
        OBVIOUS
      <4>1. i \in 1..Len(q)
        BY <2>2, <3>7
      <4>2. CASE j \in 1..Len(q)
        BY <2>5, <3>7, <4>1, <4>2
      <4>3. CASE j = Len(p)
        BY <3>6, <3>7, <3>8, <4>1, <4>3
      <4> QED
        BY <3>9, <4>2, <4>3
    <3>12. n.state \notin M!Latched
      BY <2>10, <2>13
    <3> QED
      BY <1>1, <2>4, <2>8, <3>4, <3>7, <3>10, <3>11, <3>12 DEF MidOK, n, p
  <2> QED
    BY <2>12, <2>13
<1> QED
  BY <1>3, <1>4

-----------------------------------------------------------------------------
(* The run: what is reported, and what most replicas hold after it.        *)

(* What a report leaves, and what it says.                                 *)
LEMMA ReportOK ==
    ASSUME Replicated, MagTyped, LastOK, phase = "clip", NEW n, NEW q, MidOK(n, q), q # <<>>
    PROVE  LET rep == ReportOf(n, q)
               rest == Without(q, Count(q))
               end == M!EndOf(rep) IN
           /\ Until(n, q) \in Int /\ rep.readings \in Seq(Readings) /\ Len(rep.readings) = Count(q)
           /\ Count(q) \in 1..Len(q) /\ \A j \in 1..Count(q) : rep.readings[j] = q[j]
           /\ end.latest = Until(n, q) /\ end.time = q[Count(q)].time /\ end.value = q[Count(q)].value
           /\ n.earliest_time <= Until(n, q) /\ Until(n, q) <= M!mission(now)
           /\ \A j \in 1..Count(q) : q[j].time <= Until(n, q)
           /\ rest \in Seq(Readings) /\ Len(rest) = Len(q) - Count(q)
           /\ \A j \in 1..Len(rest) : rest[j] = q[j + Count(q)] /\ Until(n, q) < rest[j].time
           /\ n.state \in M!Latched => Until(n, q) < M!mission(n.actual_reading_time)
<1> DEFINE k == Count(q)
           t == Until(n, q)
           rest == Without(q, k)
<1>1. /\ q \in Seq(Readings) /\ Len(q) \in Nat /\ Len(q) > 0
      /\ \A i \in 1..Len(q) : q[i] \in Readings /\ q[i].time \in Int /\ q[i].value \in Int
  <2>1. q \in Seq(Readings)
    BY DEF MidOK
  <2>2. \A i \in 1..Len(q) : q[i] \in Readings
    BY <2>1, ElementOfSeq
  <2>3. Len(q) \in Nat /\ Len(q) # 0
    BY <2>1, LenProperties, EmptySeq
  <2> QED
    BY <2>1, <2>2, <2>3 DEF Readings
<1>2. /\ now \in Int /\ 0 <= now /\ Offset \in Nat /\ MaxPerMap \in Nat \ {0}
      /\ n.earliest_time \in Int /\ n.actual_reading_time \in Int
      /\ ground.latest \in Int /\ ground.value \in Int
  BY NowType, MagConstants DEF MidOK, MagNotes, MagTyped
<1>3. k \in 1..Len(q) /\ (Len(q) > MaxPerMap => k = MaxPerMap) /\ (Len(q) <= MaxPerMap => k = Len(q))
  BY <1>1, <1>2 DEF Count
<1>4. /\ \A i \in 1..Len(q) : n.earliest_time <= q[i].time /\ q[i].time <= M!mission(now)
      /\ \A i, j \in 1..Len(q) : i < j => q[i].time < q[j].time
      /\ n.earliest_time <= M!mission(now)
      /\ n.state \in M!Latched =>
           /\ n.actual_reading_time <= now
           /\ n.earliest_time <= M!mission(n.actual_reading_time)
           /\ \A i \in 1..Len(q) : q[i].time < M!mission(n.actual_reading_time)
  BY DEF MidOK
<1> DEFINE rep == ReportOf(n, q)
<1>5. /\ rep.readings = SubSeq(q, 1, k) /\ rep.latest = t
  BY DEF ReportOf
<1>6. /\ rep.readings \in Seq(Readings) /\ Len(rep.readings) = k
      /\ \A j \in 1..k : rep.readings[j] = q[j]
  <2> HIDE DEF rep, k
  <2>1. SubSeq(q, 1, k) \in Seq(Readings) /\ Len(SubSeq(q, 1, k)) = k
        /\ \A j \in 1..k : SubSeq(q, 1, k)[j] = q[j]
    BY <1>1, <1>3, SubSeqProperties
  <2> QED
    BY <1>5, <2>1
<1>7. M!EndOf(rep).latest = t /\ M!EndOf(rep).time = q[k].time /\ M!EndOf(rep).value = q[k].value
  <2> HIDE DEF rep, k, t
  <2>1. rep.readings[Len(rep.readings)] = q[k]
    BY <1>3, <1>6
  <2> QED
    BY <1>5, <2>1 DEF M!EndOf
<1>8. rest \in Seq(Readings) /\ Len(rest) = Len(q) - k /\ \A j \in 1..Len(rest) : rest[j] = q[j + k]
  <2>1. rest = [i \in 1..Len(q) - k |-> q[i + k]]
    BY DEF Without
  <2> HIDE DEF rest, k
  <2>2. Len(q) - k \in Nat /\ \A i \in 1..Len(q) - k : q[i + k] \in Readings
    BY <1>1, <1>3
  <2> DEFINE m == Len(q) - k
  <2>3. rest \in [1..m -> Readings] /\ m \in Nat
    BY <2>1, <2>2
  <2>4. rest \in Seq(Readings)
    BY <2>3, SeqDef
  <2>5. Len(rest) \in Nat /\ DOMAIN rest = 1..Len(rest) /\ DOMAIN rest = 1..m
    BY <2>3, <2>4, LenProperties
  <2> HIDE DEF m
  <2>6. Len(rest) = m
    BY <2>3, <2>5
  <2> QED
    BY <2>1, <2>4, <2>6 DEF m
<1>9. /\ t \in Int /\ n.earliest_time <= t /\ t <= M!mission(now)
      /\ \A j \in 1..k : q[j].time <= t
      /\ \A j \in 1..Len(q) : j > k => t < q[j].time
      /\ n.state \in M!Latched => t < M!mission(n.actual_reading_time)
  <2>1. CASE Len(q) > MaxPerMap
    <3>1. t = q[k + 1].time - 1 /\ k + 1 \in 1..Len(q)
      BY <1>1, <1>2, <1>3, <2>1 DEF Until
    <3> HIDE DEF t, k
    <3>2. \A j \in 1..k : q[j].time < q[k + 1].time
      BY <1>1, <1>3, <1>4, <3>1
    <3>3. \A j \in 1..Len(q) : j > k => q[k + 1].time <= q[j].time
      BY <1>1, <1>3, <1>4, <3>1
    <3>4. n.earliest_time <= q[1].time /\ q[1].time < q[k + 1].time
      BY <1>1, <1>3, <1>4, <3>2
    <3>5. q[k + 1].time \in Int /\ q[k + 1].time <= M!mission(now) /\ M!mission(now) \in Int
      BY <1>1, <1>2, <1>4, <3>1 DEF M!mission
    <3>6. n.state \in M!Latched => q[k + 1].time < M!mission(n.actual_reading_time)
      BY <1>4, <3>1
    <3>7. M!mission(n.actual_reading_time) \in Int /\ q[1].time \in Int /\ \A j \in 1..k : q[j].time \in Int
      BY <1>1, <1>2, <1>3 DEF M!mission
    <3>8. t \in Int /\ n.earliest_time <= t /\ t <= M!mission(now)
      BY <1>2, <3>1, <3>4, <3>5, <3>7
    <3>9. \A j \in 1..k : q[j].time <= t
      BY <3>1, <3>2, <3>5, <3>7
    <3>10. \A j \in 1..Len(q) : j > k => t < q[j].time
      BY <1>1, <3>1, <3>3, <3>5
    <3>11. n.state \in M!Latched => t < M!mission(n.actual_reading_time)
      BY <3>1, <3>5, <3>6, <3>7
    <3> QED
      BY <3>8, <3>9, <3>10, <3>11
  <2>2. CASE Len(q) <= MaxPerMap /\ n.state \in M!Latched
    <3>1. M!mission(now) >= n.actual_reading_time
      BY <1>2, <1>4, <2>2 DEF M!mission
    <3>2. t = M!mission(n.actual_reading_time) - 1 /\ k = Len(q)
      BY <1>1, <1>2, <1>3, <2>2, <3>1 DEF Until
    <3> HIDE DEF t, k
    <3>3. M!mission(n.actual_reading_time) \in Int /\ M!mission(n.actual_reading_time) <= M!mission(now)
          /\ M!mission(now) \in Int
      BY <1>2, <1>4, <2>2 DEF M!mission
    <3>4. n.earliest_time <= q[1].time /\ q[1].time < M!mission(n.actual_reading_time) /\ q[1].time \in Int
      BY <1>1, <1>4, <2>2
    <3>5. \A j \in 1..k : q[j].time < M!mission(n.actual_reading_time) /\ q[j].time \in Int
      BY <1>1, <1>4, <2>2, <3>2
    <3>6. \A j \in 1..Len(q) : ~(j > k)
      BY <1>1, <3>2
    <3> QED
      BY <1>2, <3>2, <3>3, <3>4, <3>5, <3>6
  <2>3. CASE Len(q) <= MaxPerMap /\ n.state \notin M!Latched
    <3>1. t = M!mission(now) /\ k = Len(q) /\ M!mission(now) \in Int
      BY <1>1, <1>2, <1>3, <2>3 DEF Until, M!mission
    <3> HIDE DEF t, k
    <3> QED
      BY <1>1, <1>2, <1>4, <2>3, <3>1
  <2> QED
    BY <1>1, <1>2, <2>1, <2>2, <2>3
<1>10. \A j \in 1..Len(rest) : t < rest[j].time
  <2> HIDE DEF rest, k, t
  <2>1. \A j \in 1..Len(rest) : j + k \in 1..Len(q) /\ j + k > k
    BY <1>1, <1>3, <1>8
  <2> QED
    BY <1>8, <1>9, <2>1
<1> QED
  BY <1>3, <1>6, <1>7, <1>8, <1>9, <1>10

LEMMA SentOK ==
    ASSUME Replicated, MagTyped, LastOK, DeviceOK, phase = "clip", NEW n, NEW q, MidOK(n, q),
           NEW can_send \in BOOLEAN
    PROVE  LET m == NoteAfter(n, q, can_send)
               rest == QueueAfter(n, q, can_send)
               last == IF Sends(n, q, can_send) THEN M!EndOf(ReportOf(n, q)) ELSE ground IN
           /\ m \in MagNotes /\ m.state = n.state
           /\ NoteIn(m, rest, now, now, last, device, "bus", <<>>)
           /\ last.time <= last.latest /\ last.latest <= M!mission(now)
           /\ 0 <= last.value /\ last.value <= now
           /\ device.LatchSet => device.latched <= now /\ last.value < device.latched
<1> DEFINE m == NoteAfter(n, q, can_send)
           rest == QueueAfter(n, q, can_send)
           last == IF Sends(n, q, can_send) THEN M!EndOf(ReportOf(n, q)) ELSE ground
<1>1. /\ now \in Int /\ 0 <= now /\ Offset \in Nat /\ n \in MagNotes /\ n.earliest_time \in Int
      /\ n.actual_reading_time \in Int /\ ground.latest \in Int /\ ground.value \in Int
      /\ ground.time \in Int /\ FieldRead(device) \in Int /\ device.latched \in Int
      /\ MagLast = ground /\ Past = now - 1
  BY NowType, MagConstants, LastIs DEF MidOK, MagNotes, MagTyped, FieldRead
<1>2. /\ q \in Seq(Readings) /\ Len(q) \in Nat /\ Len(q) <= ElementCount /\ ElementCount \in Int
      /\ \A i \in 1..Len(q) : q[i] \in Readings /\ q[i].time \in Int /\ q[i].value \in Int
  <2>1. q \in Seq(Readings) /\ Len(q) <= ElementCount
    BY DEF MidOK
  <2>2. \A i \in 1..Len(q) : q[i] \in Readings
    BY <2>1, ElementOfSeq
  <2>3. \A x \in Readings : x.time \in Int /\ x.value \in Int
    BY DEF Readings
  <2>4. Len(q) \in Nat
    BY <2>1, LenProperties
  <2>5. ElementCount \in Int
    BY MagConstants
  <2> QED
    BY <2>1, <2>2, <2>3, <2>4, <2>5
<1>3. CASE ~Sends(n, q, can_send)
  <2>1. m \in MagNotes /\ m.state = n.state /\ m.earliest_time = n.earliest_time
        /\ m.actual_reading_time = n.actual_reading_time
    BY <1>1, <1>3 DEF NoteAfter, MagNotes
  <2>2. rest = q /\ last = ground
    BY <1>3 DEF QueueAfter
  <2>3. /\ ground.time <= ground.latest /\ ground.latest <= M!mission(now)
        /\ 0 <= ground.value /\ ground.value <= now
        /\ device.LatchSet => device.latched <= now /\ ground.value < device.latched
    BY <1>1 DEF LastOK, DeviceOK, M!mission
  <2>4. ground.latest < m.earliest_time /\ m.earliest_time <= M!mission(now + 1)
    BY <1>1, <2>1 DEF MidOK, M!mission
  <2> HIDE DEF m
  <2>5. QueueOK(m, q, now, now, ground, device)
    BY <1>1, <1>2, <2>1 DEF MidOK, QueueOK
  <2>6. Pending(m, q, now, now, ground, device, "bus", <<>>)
    <3>1. n.state \in M!Latched => Fresh(q, ground, device)
      BY DEF MidOK, Fresh
    <3> QED
      BY <2>1, <3>1 DEF MidOK, Pending
  <2> HIDE DEF rest, last
  <2> QED
    BY <2>1, <2>2, <2>3, <2>4, <2>5, <2>6 DEF NoteIn, m, rest, last
<1>4. CASE Sends(n, q, can_send)
  <2> DEFINE t == Until(n, q)
             k == Count(q)
             rep == ReportOf(n, q)
             w == Without(q, k)
  <2>1. q # <<>>
    BY <1>4 DEF Sends
  <2>2. /\ t \in Int /\ k \in 1..Len(q)
        /\ M!EndOf(rep).latest = t /\ M!EndOf(rep).time = q[k].time /\ M!EndOf(rep).value = q[k].value
        /\ n.earliest_time <= t /\ t <= M!mission(now)
        /\ \A j \in 1..k : q[j].time <= t
        /\ w \in Seq(Readings) /\ Len(w) = Len(q) - k
        /\ \A j \in 1..Len(w) : w[j] = q[j + k] /\ t < w[j].time
        /\ n.state \in M!Latched => t < M!mission(n.actual_reading_time)
    BY <2>1, ReportOK
  <2>3. m = [n EXCEPT !.last_telem_time = now, !.earliest_time = t + 1]
    BY <1>4, <2>1 DEF NoteAfter
  <2>4. rest = w /\ last = M!EndOf(rep)
    BY <1>4 DEF QueueAfter
  <2> HIDE DEF t, k, rep, w, rest, last, m
  <2>5. m \in MagNotes /\ m.state = n.state /\ m.earliest_time = t + 1
        /\ m.actual_reading_time = n.actual_reading_time
    <3> DEFINE u == t + 1
    <3>1. u \in Int /\ m = [n EXCEPT !.last_telem_time = now, !.earliest_time = u]
      BY <2>2, <2>3
    <3> HIDE DEF u
    <3>2. m \in MagNotes /\ m.state = n.state /\ m.earliest_time = u
          /\ m.actual_reading_time = n.actual_reading_time
      BY <1>1, <3>1 DEF MagNotes
    <3> QED
      BY <3>2 DEF u
  <2>6. last.latest = t /\ last.time = q[k].time /\ last.value = q[k].value
    BY <2>2, <2>4
  <2>7. /\ \A i \in 1..Len(q) :
              /\ ground.value < q[i].value /\ q[i].value <= now
              /\ q[i].time <= M!mission(now) /\ M!mission(q[i].value) <= q[i].time
              /\ device.LatchSet => q[i].value < device.latched
        /\ \A i, j \in 1..Len(q) : i < j => q[i].time < q[j].time /\ q[i].value < q[j].value
    BY DEF MidOK
  <2>8. /\ last.time <= last.latest /\ last.latest <= M!mission(now)
        /\ last.value <= now /\ 0 <= last.value
    <3>1. 0 <= ground.value
      BY <1>1 DEF LastOK
    <3>2. k \in 1..k /\ k \in 1..Len(q) /\ q[k].value \in Int /\ q[k].time \in Int
      BY <1>2, <2>2
    <3>3. q[k].time <= t /\ ground.value < q[k].value /\ q[k].value <= now
      BY <2>2, <2>7, <3>2
    <3> QED
      BY <1>1, <2>2, <2>6, <3>1, <3>2, <3>3
  <2>9. device.LatchSet => device.latched <= now /\ last.value < device.latched
    BY <1>1, <2>2, <2>6, <2>7 DEF DeviceOK
  <2>10. last.latest < m.earliest_time /\ m.earliest_time <= M!mission(now + 1)
    <3>1. t \in Int /\ t <= now + Offset /\ last.latest = t /\ m.earliest_time = t + 1
      BY <2>2, <2>5, <2>6 DEF M!mission
    <3> QED
      BY <1>1, <3>1 DEF M!mission
  <2>11. \A j \in 1..Len(w) : /\ j + k \in 1..Len(q) /\ k < j + k /\ w[j] = q[j + k]
                              /\ w[j].time \in Int /\ w[j].value \in Int
    <3>1. k \in Int /\ 1 <= k /\ Len(q) \in Int /\ Len(w) = Len(q) - k
      BY <1>2, <2>2
    <3>2. \A j \in 1..Len(w) : j + k \in 1..Len(q) /\ k < j + k
      BY <3>1
    <3>3. \A j \in 1..Len(w) : w[j] = q[j + k]
      BY <2>2
    <3>4. \A i \in 1..Len(q) : q[i].time \in Int /\ q[i].value \in Int
      BY <1>2
    <3> QED
      BY <3>2, <3>3, <3>4
  <2>12. QueueOK(m, w, now, now, last, device)
    <3>1. w \in Seq(Readings) /\ Len(w) <= ElementCount
      BY <1>2, <2>2
    <3>2. \A j \in 1..Len(w) : m.earliest_time <= w[j].time
      BY <2>2, <2>5, <2>11
    <3>3. \A j \in 1..Len(w) : last.value < w[j].value
      BY <2>2, <2>6, <2>7, <2>11
    <3>4. \A j \in 1..Len(w) :
              /\ w[j].time <= M!mission(now) /\ w[j].value <= now /\ M!mission(w[j].value) <= w[j].time
              /\ device.LatchSet => w[j].value < device.latched
      BY <2>7, <2>11
    <3>5. \A i, j \in 1..Len(w) : i < j => w[i].time < w[j].time /\ w[i].value < w[j].value
      <4> SUFFICES ASSUME NEW i \in 1..Len(w), NEW j \in 1..Len(w), i < j
                   PROVE  w[i].time < w[j].time /\ w[i].value < w[j].value
        OBVIOUS
      <4>1. i + k \in 1..Len(q) /\ j + k \in 1..Len(q) /\ i + k < j + k
        BY <2>2, <2>11
      <4> QED
        BY <2>7, <2>11, <4>1
    <3> QED
      BY <3>1, <3>2, <3>3, <3>4, <3>5 DEF QueueOK
  <2>13. Pending(m, w, now, now, last, device, "bus", <<>>)
    <3>1. n.state \in Powered => device.PowerEnabled
      BY DEF MidOK
    <3>2. ASSUME n.state \in M!Latched
          PROVE  /\ Fresh(w, last, device) /\ FieldRead(device) <= n.actual_reading_time
                 /\ n.actual_reading_time <= now
                 /\ m.earliest_time <= M!mission(n.actual_reading_time)
                 /\ \A i \in 1..Len(w) : w[i].time < M!mission(n.actual_reading_time)
      <4>1. /\ \A i \in 1..Len(q) : q[i].value < FieldRead(device)
            /\ FieldRead(device) <= n.actual_reading_time /\ n.actual_reading_time <= now
            /\ \A i \in 1..Len(q) : q[i].time < M!mission(n.actual_reading_time)
        BY <3>2 DEF MidOK
      <4>2. M!mission(n.actual_reading_time) \in Int
        BY <1>1 DEF M!mission
      <4>3. m.earliest_time <= M!mission(n.actual_reading_time)
        BY <2>2, <2>5, <3>2, <4>2
      <4>4. Fresh(w, last, device)
        BY <2>2, <2>6, <2>11, <4>1 DEF Fresh
      <4>5. \A i \in 1..Len(w) : w[i].time < M!mission(n.actual_reading_time)
        BY <2>11, <4>1
      <4> QED
        BY <4>1, <4>3, <4>4, <4>5
    <3> QED
      BY <2>5, <3>1, <3>2 DEF Pending
  <2> QED
    BY <2>4, <2>5, <2>8, <2>9, <2>10, <2>12, <2>13 DEF NoteIn, m, rest, last
<1> QED
  BY <1>3, <1>4

LEMMA OrderOK ==
    ASSUME Replicated, MagTyped, LastOK, phase = "clip", NEW n, NEW q, MidOK(n, q), q # <<>>
    PROVE  LET rep == ReportOf(n, q)
               all == <<[time |-> ground.time, value |-> ground.value]>> \o rep.readings IN
           /\ rep \in [earliest : Int, latest : Int, readings : Seq(Readings)]
           /\ Len(rep.readings) > 0
           /\ ground.latest < rep.earliest /\ rep.earliest <= rep.latest
           /\ \A j \in DOMAIN rep.readings : rep.readings[j].time \in rep.earliest..rep.latest
           /\ \A j \in 2..Len(all) :
                 all[j - 1].time < all[j].time /\ all[j - 1].value < all[j].value
                 /\ M!mission(all[j].value) <= all[j].time
<1> DEFINE rep == ReportOf(n, q)
           first == [time |-> ground.time, value |-> ground.value]
           all == <<first>> \o rep.readings
           k == Count(q)
           s == rep.readings
<1>1. /\ rep.latest \in Int /\ s \in Seq(Readings) /\ Len(s) = k
      /\ k \in 1..Len(q) /\ \A j \in 1..k : s[j] = q[j]
      /\ n.earliest_time <= rep.latest
      /\ \A j \in 1..k : q[j].time <= rep.latest
  <2>1. rep.latest = Until(n, q)
    BY DEF ReportOf
  <2> HIDE DEF rep, k, s
  <2> QED
    BY <2>1, ReportOK DEF rep, k, s
<1>2. /\ rep.earliest = n.earliest_time /\ n.earliest_time \in Int /\ ground.latest < n.earliest_time
      /\ ground.latest \in Int /\ ground.time \in Int /\ ground.value \in Int
      /\ Len(q) \in Nat /\ ground.time <= ground.latest
  <2>1. MagLast = ground
    BY LastIs
  <2> QED
    BY <2>1, LenProperties DEF ReportOf, MidOK, MagNotes, MagTyped, LastOK
<1>3. /\ \A i \in 1..Len(q) : /\ q[i].time \in Int /\ q[i].value \in Int
                              /\ n.earliest_time <= q[i].time /\ ground.value < q[i].value
                              /\ M!mission(q[i].value) <= q[i].time
      /\ \A i, j \in 1..Len(q) : i < j => q[i].time < q[j].time /\ q[i].value < q[j].value
  <2>1. \A i \in 1..Len(q) : q[i] \in Readings
    BY ElementOfSeq DEF MidOK
  <2> QED
    BY <2>1 DEF MidOK, Readings
<1>4. rep = [earliest |-> rep.earliest, latest |-> rep.latest, readings |-> s]
  BY DEF ReportOf
<1>5. first.time = ground.time /\ first.value = ground.value /\ first \in Readings
  BY <1>2 DEF Readings
<1> HIDE DEF rep, first, k, s
<1>6. /\ Len(all) = 1 + k /\ all[1] = first /\ \A j \in 2..Len(all) : all[j] = q[j - 1]
  <2>1. <<first>> \in Seq(Readings) /\ Len(<<first>>) = 1 /\ <<first>>[1] = first
    BY <1>5
  <2>2. /\ Len(all) = 1 + k
        /\ \A i \in 1..Len(all) : all[i] = IF i <= 1 THEN <<first>>[i] ELSE s[i - 1]
    BY <1>1, <2>1, ConcatProperties DEF s
  <2> HIDE DEF all
  <2>3. \A j \in 2..Len(all) : j \in 1..Len(all) /\ ~(j <= 1) /\ j - 1 \in 1..k
    BY <1>1, <1>2, <2>2
  <2>4. 1 \in 1..Len(all)
    BY <1>1, <1>2, <2>2
  <2>5. all[1] = <<first>>[1]
    BY <2>2, <2>4
  <2>6. \A j \in 2..Len(all) : all[j] = s[j - 1]
    BY <2>2, <2>3
  <2> QED
    BY <1>1, <2>1, <2>2, <2>3, <2>5, <2>6
<1> HIDE DEF all
<1>7. \A j \in 2..Len(all) :
          /\ j - 1 \in 1..Len(q) /\ (j = 2 => all[j - 1] = first)
          /\ (j # 2 => j - 2 \in 1..Len(q) /\ all[j - 1] = q[j - 2] /\ j - 2 < j - 1)
  <2> SUFFICES ASSUME NEW j \in 2..Len(all)
               PROVE  /\ j - 1 \in 1..Len(q) /\ (j = 2 => all[j - 1] = first)
                      /\ (j # 2 => j - 2 \in 1..Len(q) /\ all[j - 1] = q[j - 2] /\ j - 2 < j - 1)
    OBVIOUS
  <2>1. j \in Int /\ k \in Int /\ j <= 1 + k /\ 1 + k <= 1 + Len(q) /\ 2 <= j
    BY <1>1, <1>2, <1>6
  <2>2. CASE j = 2
    BY <1>2, <1>6, <2>1, <2>2
  <2>3. CASE j # 2
    <3>1. j - 1 \in 2..Len(all) /\ (j - 1) - 1 = j - 2
      BY <1>6, <2>1, <2>3
    <3> QED
      BY <1>2, <1>6, <2>1, <2>3, <3>1
  <2> QED
    BY <2>2, <2>3
<1>8. ASSUME NEW j \in 2..Len(all)
      PROVE  all[j - 1].time < all[j].time /\ all[j - 1].value < all[j].value
             /\ M!mission(all[j].value) <= all[j].time
  <2>1. all[j] = q[j - 1] /\ j - 1 \in 1..Len(q)
    BY <1>6, <1>7
  <2>2. CASE j = 2
    <3>1. all[j - 1] = first
      BY <1>7, <2>2
    <3> QED
      BY <1>2, <1>3, <1>5, <2>1, <3>1
  <2>3. CASE j # 2
    <3>1. j - 2 \in 1..Len(q) /\ all[j - 1] = q[j - 2] /\ j - 2 < j - 1
      BY <1>7, <2>3
    <3> QED
      BY <1>3, <2>1, <3>1
  <2> QED
    BY <2>2, <2>3
<1>9. \A j \in DOMAIN s : s[j].time \in rep.earliest..rep.latest
  <2>1. DOMAIN s = 1..k
    BY <1>1, LenProperties
  <2>2. \A j \in 1..k : j \in 1..Len(q)
    BY <1>1, <1>2
  <2> QED
    BY <1>1, <1>2, <1>3, <2>1, <2>2
<1>10. rep \in [earliest : Int, latest : Int, readings : Seq(Readings)]
  BY <1>1, <1>2, <1>4
<1> QED
  BY <1>1, <1>2, <1>8, <1>9, <1>10 DEF rep, all, first, s

LEMMA RequestType ==
    \A n \in MagNotes : M!RequestOf(n) \in {"none", "power_on", "power_off", "latch", "read"}
  BY DEF M!RequestOf, MagNotes

(* A run of the clip, whether a replica is cut short or not.               *)
LEMMA RunStep ==
    ASSUME Replicated, MagInv, NEW cut, NEW cmd, NEW can_send \in BOOLEAN,
           \/ cut = {}
           \/ \E x \in Replicas : /\ cut = {x}
                                  /\ \A s, t \in Replicas \ {x} : M!Sound(readings[s]) /\ M!Alike(s, t),
           M!Run(cut, cmd, can_send)
    PROVE  MagInv'
<1> USE DEF MagInv
<1>1. /\ phase = "clip" /\ phase' = "bus" /\ answer' = <<>>
      /\ UNCHANGED <<now, clock_is_calibrated, device, ground>>
      /\ request' = M!RequestOf(M!Controlled(cmd))
      /\ failed' \in [Replicas -> 0..2]
  BY DEF M!Run
<1>2. readings' \in [Replicas -> Buffers]
  BY RunEffect
<1> DEFINE n == M!Controlled(cmd)
<1>3. PICK odd \in Replicas : \E q :
          /\ magNote # <<>> => NoteOK(magNote[1], q)
          /\ magNote' = <<NoteAfter(n, Taking(q), can_send)>>
          /\ report' = ReportAfter(n, Taking(q), can_send)
          /\ \A r \in Replicas \ {odd} :
                M!Sound(readings'[r]) /\ M!Contents(readings'[r]) = QueueAfter(n, Taking(q), can_send)
  BY RunEffect
<1>4. PICK q :
          /\ magNote # <<>> => NoteOK(magNote[1], q)
          /\ magNote' = <<NoteAfter(n, Taking(q), can_send)>>
          /\ report' = ReportAfter(n, Taking(q), can_send)
          /\ \A r \in Replicas \ {odd} :
                M!Sound(readings'[r]) /\ M!Contents(readings'[r]) = QueueAfter(n, Taking(q), can_send)
  BY <1>3
<1>5. PICK p : p = Taking(q)
  OBVIOUS
<1>6. MidOK(n, p)
  BY <1>1, <1>4, <1>5, ControlledOK
<1>7. PICK m : m = NoteAfter(n, p, can_send)
  OBVIOUS
<1>8. PICK rest : rest = QueueAfter(n, p, can_send)
  OBVIOUS
<1>9. PICK last : last = IF Sends(n, p, can_send) THEN M!EndOf(ReportOf(n, p)) ELSE ground
  OBVIOUS
<1>10. /\ magNote' = <<m>> /\ report' = ReportAfter(n, p, can_send)
       /\ \A r \in Replicas \ {odd} : M!Sound(readings'[r]) /\ M!Contents(readings'[r]) = rest
  BY <1>4, <1>5, <1>7, <1>8
<1>11. /\ m \in MagNotes /\ m.state = n.state
       /\ NoteIn(m, rest, now, now, last, device, "bus", <<>>)
       /\ last.time <= last.latest /\ last.latest <= M!mission(now)
       /\ 0 <= last.value /\ last.value <= now
       /\ device.LatchSet => device.latched <= now /\ last.value < device.latched
  BY <1>1, <1>6, <1>7, <1>8, <1>9, SentOK
<1>12. n \in MagNotes
  BY <1>6 DEF MidOK
<1>13. n = M!Controlled(cmd)
  OBVIOUS
<1> HIDE DEF n
<1>14. M!RequestOf(m) = M!RequestOf(n)
  BY <1>11 DEF M!RequestOf
<1>15. Past' = now /\ MagLast' = last
       /\ M!ReportsOrdered' /\ Optional(report, [earliest : Int, latest : Int, readings : Seq(Readings)])'
       /\ (report # <<>> => Len(report[1].readings) > 0)'
  <2>1. Past' = now
    BY <1>1 DEF Past
  <2>2. CASE Sends(n, p, can_send)
    <3>1. PICK rep : rep = ReportOf(n, p)
      OBVIOUS
    <3>2. report' = <<rep>> /\ last = M!EndOf(rep) /\ p # <<>>
      BY <1>9, <1>10, <2>2, <3>1 DEF ReportAfter, Sends
    <3>3. MagLast' = last
      BY <3>2 DEF MagLast
    <3>4. LET all == <<[time |-> ground.time, value |-> ground.value]>> \o rep.readings IN
           /\ rep \in [earliest : Int, latest : Int, readings : Seq(Readings)]
           /\ Len(rep.readings) > 0
           /\ ground.latest < rep.earliest /\ rep.earliest <= rep.latest
           /\ \A j \in DOMAIN rep.readings : rep.readings[j].time \in rep.earliest..rep.latest
           /\ \A j \in 2..Len(all) :
                 all[j - 1].time < all[j].time /\ all[j - 1].value < all[j].value
                 /\ M!mission(all[j].value) <= all[j].time
      BY <1>1, <1>6, <3>1, <3>2, OrderOK
    <3>5. \A i \in DOMAIN report' : report'[i] = rep
      BY <3>2
    <3>6. M!ReportsOrdered'
      BY <1>1, <3>4, <3>5 DEF M!ReportsOrdered
    <3> QED
      BY <2>1, <3>2, <3>3, <3>4, <3>6 DEF Optional
  <2>3. CASE ~Sends(n, p, can_send)
    <3>1. report' = <<>> /\ last = ground
      BY <1>9, <1>10, <2>3 DEF ReportAfter
    <3>2. MagLast' = last
      BY <1>1, <3>1 DEF MagLast
    <3>3. M!ReportsOrdered'
      BY <3>1 DEF M!ReportsOrdered
    <3> QED
      BY <2>1, <3>1, <3>2, <3>3 DEF Optional
  <2> QED
    BY <2>2, <2>3
<1>16. MagTyped'
  <2>1. Optional(magNote, MagNotes)' /\ Optional(answer, [latch : BOOLEAN, value : Int])'
    BY <1>1, <1>10, <1>11 DEF Optional
  <2>2. request' \in {"none", "power_on", "power_off", "latch", "read"}
    BY <1>1, <1>12, <1>13, RequestType
  <2> QED
    BY <1>1, <1>2, <1>15, <2>1, <2>2 DEF MagTyped
<1>17. LastOK'
  BY <1>1, <1>11, <1>15 DEF LastOK
<1>18. DeviceOK'
  <2>1. request' = M!RequestOf(magNote'[1]) /\ magNote' # <<>>
    BY <1>1, <1>10, <1>13, <1>14
  <2> QED
    BY <1>1, <1>11, <1>15, <2>1 DEF DeviceOK
<1>19. Together'
  <2>1. PICK alike \in Replicas : alike # odd
    BY Outvotes
  <2>2. M!Contents(readings'[alike]) = rest
    BY <1>10, <2>1
  <2>3. \A r \in Replicas \ {odd} : Holds(r, M!Contents(readings[alike]))'
    BY <1>10, <2>2 DEF Holds
  <2>4. NoteOK(magNote[1], M!Contents(readings[alike]))'
    BY <1>1, <1>10, <1>11, <1>15, <2>2 DEF NoteOK
  <2> QED
    BY <2>3, <2>4 DEF Together
<1> QED
  BY <1>16, <1>17, <1>18, <1>19

-----------------------------------------------------------------------------
(* The instrument.                                                         *)

Devices == [PowerEnabled : BOOLEAN, LatchSet : BOOLEAN, latched : Int, Snap : Int]

LEMMA TimerIs ==
    ASSUME device \in Devices, now \in Int, NEW d \in M!AfterTimer(device, now + 1)
    PROVE  /\ d \in Devices /\ d.PowerEnabled = device.PowerEnabled /\ FieldRead(d) = FieldRead(device)
           /\ d.LatchSet => d = device
<1>1. M!Expired(device) \in Devices /\ ~M!Expired(device).LatchSet
      /\ M!Expired(device).PowerEnabled = device.PowerEnabled /\ M!Expired(device).Snap = device.latched
  BY DEF M!Expired, Devices
<1>2. CASE d = device
  BY <1>2
<1>3. CASE d # device
  <2>1. d = M!Expired(device) /\ device.LatchSet
    BY <1>3 DEF M!AfterTimer
  <2> QED
    BY <1>1, <2>1 DEF FieldRead
<1> QED
  BY <1>2, <1>3

LEMMA WriteIs ==
    ASSUME NEW d \in Devices, NEW t \in Int
    PROVE  LET e == M!AttemptWrite(d, t) IN
           /\ e \in Devices
           /\ e.LatchSet => (d.LatchSet /\ e.latched = d.latched) \/ e.latched = t
           /\ request # "power_off" => (d.PowerEnabled => e.PowerEnabled)
           /\ request = "power_on" => e.PowerEnabled
           /\ request \in {"none", "read"} => e = d
           /\ request = "latch" =>
                e = d \/ (~d.LatchSet /\ e.LatchSet /\ e.latched = t)
           /\ request = "latch" /\ d.PowerEnabled => e.LatchSet
<1>1. CASE request = "power_off" /\ d.PowerEnabled
  <2>1. M!AttemptWrite(d, t) = [d EXCEPT !.PowerEnabled = FALSE, !.LatchSet = FALSE, !.Snap = 0]
    BY <1>1 DEF M!AttemptWrite
  <2>2. M!AttemptWrite(d, t) \in Devices /\ ~M!AttemptWrite(d, t).LatchSet
    <3> DEFINE e == M!AttemptWrite(d, t)
    <3>1. /\ e = [[[d EXCEPT !.PowerEnabled = FALSE] EXCEPT !.LatchSet = FALSE] EXCEPT !.Snap = 0]
      BY <2>1
    <3> HIDE DEF e
    <3>2. [d EXCEPT !.PowerEnabled = FALSE] \in Devices
      BY DEF Devices
    <3>3. \A f \in Devices : /\ [f EXCEPT !.LatchSet = FALSE] \in Devices
                            /\ [f EXCEPT !.LatchSet = FALSE].LatchSet = FALSE
      BY DEF Devices
    <3>4. \A f \in Devices : /\ [f EXCEPT !.Snap = 0] \in Devices
                            /\ [f EXCEPT !.Snap = 0].LatchSet = f.LatchSet
      BY DEF Devices
    <3> QED
      BY <3>1, <3>2, <3>3, <3>4 DEF e
  <2> QED
    BY <1>1, <2>2
<1>2. CASE request = "power_on"
  BY <1>2 DEF M!AttemptWrite, Devices
<1>3. CASE request = "latch" /\ d.PowerEnabled /\ ~d.LatchSet
  <2>1. M!AttemptWrite(d, t) = [d EXCEPT !.LatchSet = TRUE, !.latched = t]
    BY <1>3 DEF M!AttemptWrite
  <2> QED
    BY <1>3, <2>1 DEF Devices
<1>4. CASE /\ ~(request = "power_off" /\ d.PowerEnabled) /\ request # "power_on"
           /\ ~(request = "latch" /\ d.PowerEnabled /\ ~d.LatchSet)
  BY <1>4 DEF M!AttemptWrite
<1> QED
  BY <1>1, <1>2, <1>3, <1>4

(* The request is carried out, or lost, or its answer is.                  *)
LEMMA BusStep == ASSUME Replicated, MagInv, M!Bus PROVE MagInv'
<1> USE DEF MagInv
<1>1. /\ phase = "bus" /\ now' = now + 1 /\ phase' = "clip" /\ now' \in 0..MaxTime
      /\ now \in Int /\ 0 <= now /\ Offset \in Nat
      /\ report' = <<>> /\ clock_is_calibrated' \in BOOLEAN
      /\ UNCHANGED <<magNote, readings, failed, request>>
  <2>1. phase = "bus" /\ now' = now + 1 /\ phase' = "clip" /\ now < MaxTime /\ report' = <<>>
        /\ UNCHANGED <<magNote, readings, failed, request>>
    BY DEF M!Bus
  <2>2. clock_is_calibrated' \in BOOLEAN
    <3>1. clock_is_calibrated' \in {now >= MaxUncalibrated \/ clock_is_calibrated, TRUE}
      BY DEF M!Bus
    <3>2. clock_is_calibrated \in BOOLEAN
      BY DEF MagTyped
    <3> QED
      BY <3>1, <3>2
  <2>3. now \in Int /\ 0 <= now /\ MaxTime \in Nat /\ Offset \in Nat
    BY NowType, MagConstants
  <2> QED
    BY <2>1, <2>2, <2>3
<1>2. PICK d \in M!AfterTimer(device, now + 1) :
          \/ /\ device' = M!AttemptWrite(d, now + 1)
             /\ answer' = (IF request = "none" THEN <<>> ELSE M!AttemptRead(d))
          \/ /\ device' \in {d, M!AttemptWrite(d, now + 1)}
             /\ answer' = <<>>
  BY DEF M!Bus
<1>3. device \in Devices
  BY DEF MagTyped, Devices
<1>4. /\ d \in Devices /\ d.PowerEnabled = device.PowerEnabled /\ FieldRead(d) = FieldRead(device)
      /\ d.LatchSet => d = device
  BY <1>1, <1>3, TimerIs
<1>5. PICK e : e = device'
  OBVIOUS
<1>6. PICK w : w = M!AttemptWrite(d, now + 1)
  OBVIOUS
<1>7. /\ w \in Devices
      /\ w.LatchSet => (d.LatchSet /\ w.latched = d.latched) \/ w.latched = now + 1
      /\ request # "power_off" => (d.PowerEnabled => w.PowerEnabled)
      /\ request = "power_on" => w.PowerEnabled
      /\ request \in {"none", "read"} => w = d
      /\ request = "latch" => w = d \/ (~d.LatchSet /\ w.LatchSet /\ w.latched = now + 1)
      /\ request = "latch" /\ d.PowerEnabled => w.LatchSet
  BY <1>1, <1>4, <1>6, WriteIs
<1>8. /\ e = w \/ (e = d /\ answer' = <<>>)
      /\ answer' # <<>> => answer' = <<[latch |-> d.LatchSet, value |-> d.Snap]>> /\ e = w
  BY <1>2, <1>5, <1>6 DEF M!AttemptRead
<1>9. /\ e \in Devices
      /\ e.LatchSet => (device.LatchSet /\ e.latched = device.latched) \/ e.latched = now + 1
      /\ request # "power_off" => (device.PowerEnabled => e.PowerEnabled)
      /\ request \in {"none", "read"} => e = d
  BY <1>4, <1>7, <1>8
<1>10. PICK last : last = MagLast
  OBVIOUS
<1>11. Past' = now /\ Past = now /\ MagLast' = last
  BY <1>1, <1>10 DEF Past, MagLast, M!Bus
<1>12. /\ last.latest \in Int /\ last.time \in Int /\ last.value \in Int
  <2>1. CASE report = <<>>
    BY <1>10, <2>1 DEF MagLast, MagTyped
  <2>2. CASE report # <<>>
    <3>1. /\ report[1].latest \in Int /\ report[1].readings \in Seq(Readings)
          /\ Len(report[1].readings) \in Nat /\ Len(report[1].readings) > 0
      BY <2>2, LenProperties DEF MagTyped, Optional
    <3>2. report[1].readings[Len(report[1].readings)] \in Readings
      BY <3>1, ElementOfSeq
    <3> QED
      BY <1>10, <2>2, <3>1, <3>2 DEF MagLast, M!EndOf, Readings
  <2> QED
    BY <2>1, <2>2
<1>13. MagTyped'
  <2>1. Optional(answer, [latch : BOOLEAN, value : Int])'
    BY <1>4, <1>8 DEF Optional, Devices
  <2>2. ground' \in [latest : Int, time : Int, value : Int]
    <3>1. ground' = MagLast
      BY DEF M!Bus, MagLast
    <3>2. CASE report = <<>>
      BY <3>1, <3>2 DEF MagLast, MagTyped
    <3>3. CASE report # <<>>
      <4>1. MagLast = [latest |-> last.latest, time |-> last.time, value |-> last.value]
        BY <1>10, <3>3 DEF MagLast, M!EndOf
      <4> QED
        BY <1>12, <3>1, <4>1
    <3> QED
      BY <3>2, <3>3
  <2>3. device' \in Devices
    BY <1>5, <1>9
  <2>4. Optional(report, [earliest : Int, latest : Int, readings : Seq(Readings)])'
        /\ Optional(magNote, MagNotes)' /\ (report # <<>> => Len(report[1].readings) > 0)'
    BY <1>1 DEF Optional, MagTyped
  <2> QED
    BY <1>1, <2>1, <2>2, <2>3, <2>4 DEF MagTyped, Devices
<1>14. LastOK'
  <2>1. M!ReportsOrdered'
    BY <1>1 DEF M!ReportsOrdered
  <2>2. last.time <= last.latest /\ last.latest <= M!mission(now) /\ 0 <= last.value /\ last.value <= now
    BY <1>10, <1>11 DEF LastOK
  <2> QED
    BY <1>1, <1>11, <1>12, <2>1, <2>2 DEF LastOK
<1>15. device.LatchSet => device.latched <= now /\ last.value < device.latched
  BY <1>10 DEF DeviceOK
<1>16. last.value <= now
  BY <1>10, <1>11 DEF LastOK
<1>17. DeviceOK'
  BY <1>1, <1>5, <1>9, <1>11, <1>12, <1>15, <1>16, <1>3 DEF DeviceOK, Devices
<1>18. Together'
  <2>1. PICK odd \in Replicas, alike \in Replicas :
            /\ \A r \in Replicas \ {odd} : Holds(r, M!Contents(readings[alike]))
            /\ NoteOK(magNote[1], M!Contents(readings[alike]))
    BY <1>1 DEF Together, DeviceOK
  <2>2. PICK q : q = M!Contents(readings[alike])
    OBVIOUS
  <2>3. PICK n : n = magNote[1]
    OBVIOUS
  <2>4. /\ NoteIn(n, q, now, now, last, device, "bus", <<>>) /\ request = M!RequestOf(n) /\ n \in MagNotes
    <3>1. answer = <<>> /\ magNote # <<>> /\ request = M!RequestOf(n)
      BY <1>1, <2>3 DEF DeviceOK
    <3>2. n \in MagNotes
      BY <2>3, <3>1 DEF MagTyped, Optional
    <3> QED
      BY <1>1, <1>10, <1>11, <2>1, <2>2, <2>3, <3>1, <3>2 DEF NoteOK
  <2>5. /\ q \in Seq(Readings) /\ Len(q) \in Nat
        /\ \A i \in 1..Len(q) : q[i].value \in Int
    <3>1. q \in Seq(Readings)
      BY <2>4 DEF NoteIn, QueueOK
    <3>2. \A i \in 1..Len(q) : q[i] \in Readings
      BY <3>1, ElementOfSeq
    <3> QED
      BY <3>1, <3>2, LenProperties DEF Readings
  <2>6. QueueOK(n, q, now + 1, now, last, e)
    <3>1. \A i \in 1..Len(q) : q[i].value <= now + 1
      BY <1>1, <2>4, <2>5 DEF NoteIn, QueueOK
    <3>2. e.LatchSet => \A i \in 1..Len(q) : q[i].value < e.latched
      BY <1>1, <1>9, <2>4, <2>5 DEF NoteIn, QueueOK
    <3> QED
      BY <2>4, <3>1, <3>2 DEF NoteIn, QueueOK
  <2>7. Pending(n, q, now + 1, now, last, e, "clip", answer')
    <3>1. /\ n.state = "MS_ACTIVATING" => request = "power_on"
          /\ n.state = "MS_LATCHING_ON" => request = "latch"
          /\ n.state = "MS_TAKING_READING" => request = "read"
          /\ n.state \in M!Latched => request \in {"none", "read"}
          /\ n.state \in Powered => request # "power_off"
      BY <2>4 DEF M!RequestOf, Powered, M!Latched, MagNotes
    <3>2. n.state \in Powered => e.PowerEnabled
      BY <1>9, <2>4, <3>1 DEF NoteIn, Pending
    <3>3. answer' # <<>> /\ n.state = "MS_ACTIVATING" => e.PowerEnabled
      BY <1>7, <1>8, <3>1
    <3>4. ASSUME answer' # <<>>, n.state = "MS_LATCHING_ON"
          PROVE  Fresh(q, last, e) /\ FieldRead(e) <= now + 1
      <4>1. e = w /\ request = "latch" /\ d.PowerEnabled
        BY <1>4, <1>8, <2>4, <3>1, <3>4 DEF NoteIn, Pending, Powered
      <4>2. e.LatchSet /\ FieldRead(e) = e.latched
        BY <1>7, <4>1 DEF FieldRead
      <4>3. (device.LatchSet /\ e.latched = device.latched) \/ e.latched = now + 1
        BY <1>9, <4>2
      <4>4. \A i \in 1..Len(q) : q[i].value < e.latched
        BY <2>6, <4>2 DEF QueueOK
      <4>5. last.value < e.latched /\ e.latched <= now + 1
        BY <1>1, <1>12, <1>15, <1>16, <4>3, <1>3 DEF Devices
      <4> QED
        BY <4>2, <4>4, <4>5 DEF Fresh
    <3>5. answer' # <<>> /\ n.state = "MS_TAKING_READING" =>
              answer'[1].latch = e.LatchSet /\ answer'[1].value = e.Snap
      BY <1>7, <1>8, <3>1
    <3>6. ASSUME n.state \in M!Latched
          PROVE  /\ Fresh(q, last, e) /\ FieldRead(e) <= n.actual_reading_time
                 /\ n.actual_reading_time <= now
                 /\ n.earliest_time <= M!mission(n.actual_reading_time)
                 /\ \A i \in 1..Len(q) : q[i].time < M!mission(n.actual_reading_time)
      <4>1. FieldRead(e) = FieldRead(device)
        BY <1>4, <1>9, <3>1, <3>6
      <4> QED
        BY <2>4, <3>6, <4>1 DEF NoteIn, Pending, Fresh
    <3> QED
      BY <3>2, <3>3, <3>4, <3>5, <3>6 DEF Pending
  <2>8. NoteIn(n, q, now + 1, now, last, e, "clip", answer')
    BY <2>4, <2>6, <2>7 DEF NoteIn
  <2>9. NoteOK(magNote[1], M!Contents(readings[alike]))'
    <3>1. magNote'[1] = n /\ M!Contents(readings'[alike]) = q
      BY <1>1, <2>2, <2>3
    <3> QED
      BY <1>1, <1>5, <1>11, <2>8, <3>1 DEF NoteOK
  <2>10. \A r \in Replicas \ {odd} : Holds(r, M!Contents(readings[alike]))'
    BY <1>1, <2>1 DEF Holds
  <2> QED
    BY <2>9, <2>10 DEF Together
<1> QED
  BY <1>13, <1>14, <1>17, <1>18

-----------------------------------------------------------------------------
(* The other steps, and the theorem.                                       *)

LEMMA DamageStep == ASSUME Replicated, MagInv, M!DamageBuffer PROVE MagInv'
<1> USE DEF MagInv
<1>1. PICK x \in Replicas, i \in Displaced :
          M!Fault(x) /\ readings' = [readings EXCEPT ![x].next_read = readings[x].next_write + i]
  BY DEF M!DamageBuffer
<1>2. UNCHANGED <<now, phase, magNote, failed, clock_is_calibrated, request, answer, device,
                  report, ground>>
  BY DEF M!DamageBuffer
<1>3. readings' \in [Replicas -> Buffers] /\ \A r \in Replicas \ {x} : readings'[r] = readings[r]
  <2>1. readings[x] \in Buffers /\ i \in Int /\ readings[x].next_write \in Int
    BY MagConstants DEF MagTyped, Buffers
  <2>2. readings[x].next_write + i \in Int
    BY <2>1
  <2> DEFINE c == [readings[x] EXCEPT !.next_read = readings[x].next_write + i]
  <2>3. c \in Buffers
    BY <2>1, <2>2 DEF Buffers
  <2>4. readings' = [readings EXCEPT ![x] = c]
    BY <1>1
  <2> HIDE DEF c
  <2> QED
    BY <2>3, <2>4 DEF MagTyped
<1>4. Past' = Past /\ MagLast' = MagLast
  BY <1>2 DEF Past, MagLast
<1>5. MagTyped'
  BY <1>2, <1>3 DEF MagTyped, Optional
<1>6. LastOK'
  BY <1>2, <1>4 DEF LastOK, M!ReportsOrdered
<1>7. DeviceOK'
  BY <1>2, <1>4 DEF DeviceOK
<1>8. Together'
  <2>1. CASE magNote = <<>>
    BY <1>2, <2>1 DEF Together
  <2>2. CASE magNote # <<>>
    <3>1. PICK q : NoteOK(magNote[1], q) /\ \A r \in Replicas \ {x} : Holds(r, q)
      BY <1>1, <2>2, Alikes DEF M!Fault
    <3>2. PICK alike \in Replicas : alike # x
      BY Outvotes
    <3>3. M!Contents(readings'[alike]) = q
      BY <1>3, <3>1, <3>2 DEF Holds
    <3>4. \A r \in Replicas \ {x} : Holds(r, M!Contents(readings[alike]))'
      BY <1>3, <3>1, <3>3 DEF Holds
    <3>5. NoteOK(magNote[1], M!Contents(readings[alike]))'
      BY <1>2, <1>4, <3>1, <3>3 DEF NoteOK
    <3> QED
      BY <3>4, <3>5 DEF Together
  <2> QED
    BY <2>1, <2>2
<1> QED
  BY <1>5, <1>6, <1>7, <1>8

LEMMA LoseStep == ASSUME MagInv, M!LoseNote PROVE MagInv'
<1> USE DEF MagInv
<1>1. /\ phase = "clip" /\ magNote' = <<>>
      /\ UNCHANGED <<now, phase, readings, failed, clock_is_calibrated, request, answer, device,
                     report, ground>>
  BY DEF M!LoseNote
<1>2. Past' = Past /\ MagLast' = MagLast
  BY <1>1 DEF Past, MagLast
<1>3. MagTyped'
  BY <1>1 DEF MagTyped, Optional
<1>4. LastOK'
  BY <1>1, <1>2 DEF LastOK, M!ReportsOrdered
<1>5. DeviceOK'
  BY <1>1, <1>2 DEF DeviceOK
<1>6. Together'
  BY <1>1 DEF Together
<1> QED
  BY <1>3, <1>4, <1>5, <1>6

LEMMA MagStutterStep == ASSUME MagInv, UNCHANGED M!vars PROVE MagInv'
<1> USE DEF MagInv, M!vars
<1>1. Past' = Past /\ MagLast' = MagLast
  BY DEF Past, MagLast
<1>2. MagTyped'
  BY DEF MagTyped, Optional
<1>3. LastOK'
  BY <1>1 DEF LastOK, M!ReportsOrdered
<1>4. DeviceOK'
  BY <1>1 DEF DeviceOK
<1>5. Together'
  BY <1>1 DEF Together, Holds, NoteOK
<1> QED
  BY <1>2, <1>3, <1>4, <1>5

LEMMA MagStep == Replicated /\ MagInv /\ [M!Next]_(M!vars) => MagInv'
<1> SUFFICES ASSUME Replicated, MagInv, [M!Next]_(M!vars) PROVE MagInv'
  OBVIOUS
<1>1. CASE M!Bus
  BY <1>1, BusStep
<1>2. CASE M!magnetometer_clip
  <2>1. PICK cmd \in {"none", "on", "off"} : M!Run({}, cmd, TRUE) \/ M!Run({}, cmd, FALSE)
    BY <1>2 DEF M!magnetometer_clip
  <2> QED
    BY <2>1, RunStep
<1>3. CASE M!CutReplica
  <2>1. PICK x \in Replicas : M!Fault(x) /\ M!Run({x}, "none", TRUE)
    BY <1>3 DEF M!CutReplica
  <2>2. \A s, t \in Replicas \ {x} : M!Sound(readings[s]) /\ M!Alike(s, t)
    BY <2>1 DEF M!Fault
  <2> QED
    BY <2>1, <2>2, RunStep
<1>4. CASE M!DamageBuffer
  BY <1>4, DamageStep
<1>5. CASE M!LoseNote
  BY <1>5, LoseStep
<1>6. CASE M!End \/ UNCHANGED M!vars
  BY <1>6, MagStutterStep DEF M!End
<1> QED
  BY <1>1, <1>2, <1>3, <1>4, <1>5, <1>6 DEF M!Next

LEMMA MagInit == Replicated /\ M!Init => MagInv
<1> SUFFICES ASSUME Replicated, M!Init PROVE MagInv
  OBVIOUS
<1>1. M!Empty(M!NoReading) \in Buffers
  BY DEF M!Empty, M!NoReading, Buffers, Readings
<1>2. MagLast = ground /\ Past = -1 /\ M!mission(-1) = Offset - 1 /\ Offset \in Nat /\ MaxTime \in Nat
  BY MagConstants DEF M!Init, MagLast, Past, M!mission
<1>3. MagTyped
  <2>1. readings \in [Replicas -> Buffers] /\ failed \in [Replicas -> 0..2]
    BY <1>1 DEF M!Init
  <2>2. now \in 0..MaxTime /\ magNote = <<>> /\ answer = <<>> /\ report = <<>>
    BY <1>2 DEF M!Init
  <2>3. /\ device \in [PowerEnabled : BOOLEAN, LatchSet : BOOLEAN, latched : Int, Snap : Int]
        /\ ground \in [latest : Int, time : Int, value : Int]
    BY DEF M!Init
  <2>4. Optional(magNote, MagNotes) /\ Optional(answer, [latch : BOOLEAN, value : Int])
        /\ Optional(report, [earliest : Int, latest : Int, readings : Seq(Readings)])
    BY <2>2 DEF Optional
  <2> QED
    BY <2>1, <2>2, <2>3, <2>4 DEF M!Init, MagTyped
<1>4. LastOK
  BY <1>2 DEF M!Init, LastOK, M!ReportsOrdered
<1>5. DeviceOK
  BY DEF M!Init, DeviceOK
<1>6. Together
  BY DEF M!Init, Together
<1> QED
  BY <1>3, <1>4, <1>5, <1>6 DEF MagInv

LEMMA TypeHolds == Replicated /\ MagInv => M!TypeOK /\ M!ReportsOrdered
<1> SUFFICES ASSUME Replicated, MagInv PROVE M!TypeOK /\ M!ReportsOrdered
  OBVIOUS
<1>1. \A i \in DOMAIN magNote : magNote[i].state \in M!States /\ magNote[i].should_be_powered \in BOOLEAN
  <2>1. CASE magNote = <<>>
    BY <2>1
  <2>2. CASE magNote # <<>>
    <3>1. magNote[1] \in MagNotes /\ DOMAIN magNote = {1}
      BY <2>2 DEF MagInv, MagTyped, Optional
    <3> QED
      BY <3>1 DEF MagNotes
  <2> QED
    BY <2>1, <2>2
<1>2. \A r \in Replicas : M!Sound(readings[r]) => Len(M!Contents(readings[r])) <= ElementCount
  BY ContentsType DEF MagInv, MagTyped
<1>3. Len(answer) <= 1 /\ Len(report) <= 1 /\ Len(magNote) <= 1
  <2>1. \A s : s = <<>> \/ s = <<s[1]>> => Len(s) <= 1
    OBVIOUS
  <2> QED
    BY <2>1 DEF MagInv, MagTyped, Optional
<1> QED
  BY <1>1, <1>2, <1>3 DEF M!TypeOK, MagInv, MagTyped, LastOK

(* Whatever happens to one replica, and whatever answers and notes are     *)
(* lost, the reports that reach the ground are in order: their windows do  *)
(* not overlap, every reading is in its window, and no measurement is      *)
(* reported twice.                                                         *)
THEOREM ReportsInOrder ==
    ASSUME Replicated
    PROVE  M!Spec => [](M!TypeOK /\ M!ReportsOrdered)
<1>1. M!Init => MagInv
  BY MagInit
<1>2. MagInv /\ [M!Next]_(M!vars) => MagInv'
  BY MagStep
<1>3. MagInv => M!TypeOK /\ M!ReportsOrdered
  BY TypeHolds
<1> QED
  BY <1>1, <1>2, <1>3, PTL DEF M!Spec

-----------------------------------------------------------------------------
(* The steps of the run.                                                   *)

LEMMA ClockRuns == MCSpec => C!Spec
<1>1. MCInit => C!Init
  BY DEF MCInit
<1>2. [MCNext]_<<vars, cvars, mvars, application>> => [C!Next]_(C!vars)
  BY DEF MCNext, cvars, C!vars
<1> QED
  BY <1>1, <1>2, PTL DEF MCSpec, C!Spec

(* Whatever the number of replicas, if it is odd, and whichever of them    *)
(* are cut or damaged within the bounds of the clock: an offset that       *)
(* clock.c gives out for the mission time is one that was measured.        *)
THEOREM MissionTimeInFlight ==
    ASSUME OddReplicas
    PROVE  MCSpec => []MCMissionTimeRight
<1>1. C!ClockAssumption
  BY MCFlightAssumption
<1>2. C!Spec => []C!MissionTimeRight
  BY <1>1, MissionTime
<1> QED
  BY <1>2, ClockRuns, PTL DEF MCMissionTimeRight

LEMMA DownlinkRuns == MCSpec => Spec
<1>1. MCInit => Init
  BY DEF MCInit
<1>2. [MCNext]_<<vars, cvars, mvars, application>> => [Next]_vars
  BY DEF MCNext
<1> QED
  BY <1>1, <1>2, PTL DEF MCSpec, Spec

(* The messages of the downlink are on the air whole and in order, however *)
(* many replies are lost or late, if their IDs tell them apart; and what   *)
(* is being transmitted is not written over.                               *)
THEOREM FramedInFlight ==
    ASSUME Distinct
    PROVE  MCSpec => []Framed /\ MemoryStable
  BY FramedHolds, MemoryStableHolds, DownlinkRuns, PTL

LEMMA MagnetometerRuns == MCSpec => M!Spec
<1>1. MCInit => M!Init
  BY DEF MCInit
<1>2. [MCNext]_<<vars, cvars, mvars, application>> => [M!Next]_(M!vars)
  BY DEF MCNext, mvars, M!vars
<1> QED
  BY <1>1, <1>2, PTL DEF MCSpec, M!Spec

(* The reports of the magnetometer follow one another, in order and        *)
(* without overlap, each reading in its window and none twice, whichever   *)
(* replica is cut short or finds its buffer damaged, and whichever answers *)
(* and notes are lost.                                                     *)
THEOREM ReportsOrderedInFlight == MCSpec => []MCReportsOrdered
<1>1. Replicated
  <2>1. Cardinality(Replicas) \in Nat /\ Cardinality(Replicas) > 2
    BY RadioDownlinkAssumption, FS_CardinalityType
  <2> QED
    BY <2>1, MCFlightAssumption DEF Replicated
<1>2. M!Spec => [](M!TypeOK /\ M!ReportsOrdered)
  BY <1>1, ReportsInOrder
<1> QED
  BY <1>2, MagnetometerRuns, PTL DEF MCReportsOrdered
=============================================================================
