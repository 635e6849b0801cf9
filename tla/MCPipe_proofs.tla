---------------------------- MODULE MCPipe_proofs ----------------------------
(***************************************************************************)
(* Theorems about what carries data.                                       *)
(*                                                                         *)
(* First Pipe, which MCPipe extends, for any number of receivers, any      *)
(* sizes of message and buffer, any flow limit and any consumer.           *)
(*                                                                         *)
(* What a receiver requests fits its buffer, and its commit never aborts,  *)
(* whatever is cut short.  If the receivers that are cut short, or have    *)
(* not caught up since, are no majority, the bytes that a receiver has not *)
(* read are the next ones of the stream, and no message is dropped.        *)
(*                                                                         *)
(* The argument is about who holds most.  The sender sends no more than a  *)
(* majority requested one epoch before.  Since then each receiver has      *)
(* taken and read on, so a request made for more room than another has     *)
(* could lose messages.  But all receivers are given the same batch and    *)
(* the same demand, so those that are not affected end an epoch with the   *)
(* same number of unread bytes, and no other receiver with more (Leading): *)
(* what they request suits all the others, and no majority is without one  *)
(* of them.                                                                *)
(*                                                                         *)
(* Then Switch, for any ports, routes and packets.  It folds switch_packet *)
(* over what arrived, so after each packet an outbound port has the first  *)
(* of those due at it so far, cut to what its duct carries (SwitchCarries).*)
(*                                                                         *)
(* And Router, for any devices and packets.  Each FIFO holds one packet,   *)
(* so a packet of a device never overtakes another of the same device on   *)
(* its way there and back (Ordered); and whoever could move a packet is    *)
(* told of it (DeviceTold, OutboxTold, InboxTold).                         *)
(***************************************************************************)
EXTENDS MCPipe, NaturalsInduction, WellFoundedInduction, SequenceTheorems, FiniteSetTheorems, TLAPS

(* The receiver replicas that may be affected are no majority.             *)
HealthyMajority == MaxFaulty <= NumReceivers \div 2

-----------------------------------------------------------------------------
(* The inductive invariant.  The first part holds whatever the number of   *)
(* replicas that are affected.                                             *)

Unread(r) == consumed[r] + fill_level(r)    \* the number of the byte after the unread ones
Arriving == Incoming(Len(dataflow))
Room(f) == Lesser((Capacity - f) \div MsgSize, MaxFlow)   \* what is requested with f bytes unread
Waiting(r) == turn < r \/ (turn = r /\ step = "start")

(* TypeOK, with the types of the functions; only in the turn of a receiver *)
(* is the clip on its way.                                                 *)
Typed ==
    /\ send_scratch \in Seq(Byte) /\ Len(send_scratch) <= SendCapacity
    /\ scratch \in [Receivers -> [0..Capacity - 1 -> Byte]]
    /\ scratch_avail \in [Receivers -> 0..Capacity] /\ scratch_offset \in [Receivers -> 0..Capacity]
    /\ \A r \in Receivers : scratch_offset[r] <= scratch_avail[r]
    /\ last_requested \in [Receivers -> 0..MaxFlow]
    /\ pressure \in [Receivers -> {Missing} \cup 0..MaxFlow]
    /\ turn \in SenderTurn..NumReceivers
    /\ step \in {"start", "prepared", "consumed"} /\ (turn \notin Receivers => step = "start")
    /\ available \in 0..MaxFlow /\ taken \in 0..MaxFlow
    /\ demand \in Nat \X {0, 1}
    /\ faulty \subseteq Receivers /\ lagging \subseteq Receivers
    /\ stalled \in 0..Patience
    /\ sent \in Byte /\ consumed \in [Receivers -> Byte]

(* The first n messages of the batch hold at most n times a message.       *)
Batched ==
    /\ dataflow \in Seq(Seq(Byte)) /\ Len(dataflow) <= MaxFlow
    /\ \A i \in 1..Len(dataflow) : Len(dataflow[i]) \in 1..MsgSize
    /\ \A n \in 0..Len(dataflow) : Incoming(n) \in Seq(Byte) /\ Len(Incoming(n)) <= MsgSize * n

(* A receiver requested no more than it has room for, when its turn comes. *)
Requested ==
    /\ \A r \in Receivers : last_requested[r] <= Room(0)
    /\ \A r \in Receivers : turn # r \/ step = "start" => last_requested[r] <= Room(fill_level(r))
    /\ step # "start" => available = 0 \/ taken = Len(dataflow)

Sound == Typed /\ Batched /\ Requested

(* The bytes of the sender are the next ones of the stream, and so is what *)
(* the batch adds to what a receiver has not read.                         *)
Numbered == \A i \in 1..Len(send_scratch) : send_scratch[i] = (sent + i - 1) % Bytes

Continues(r) ==
    /\ \A j \in 1..Len(Arriving) : Arriving[j] = (Unread(r) + j - 1) % Bytes
    /\ (Unread(r) + Len(Arriving)) % Bytes = sent

UpToDate ==
    \A r \in Receivers :
        IF turn \in Receivers /\ Waiting(r) THEN Continues(r) ELSE Unread(r) % Bytes = sent

(* There is room for all of the batch, and for what was requested.         *)
RoomForBatch ==
    /\ turn \in Receivers => \A r \in Receivers : Waiting(r) =>
            Len(dataflow) <= Room(fill_level(r))
    /\ step # "start" => taken = Len(dataflow)
RoomForRequests ==
    \A r \in Receivers :
        /\ pressure[r] <= Room(0)
        /\ turn # r \/ step = "start" => pressure[r] <= Room(fill_level(r))

(***************************************************************************)
(* No receiver holds more than one that is not affected, at the start of   *)
(* the epoch and at its end; what each will hold then is known before its  *)
(* turn.  So what those that are not affected request suits all the        *)
(* others, and they are too many to be outvoted.                           *)
(***************************************************************************)
Left(f) == f - Lesser(demand[1], IF f > demand[2] THEN f - demand[2] ELSE 0)
Final(r) ==
    IF turn = SenderTurn THEN fill_level(r)
    ELSE IF Waiting(r) THEN Left(fill_level(r) + Len(Arriving))
    ELSE IF turn = r /\ step = "prepared" THEN Left(fill_level(r)) ELSE fill_level(r)

Leading ==
    /\ turn = SenderTurn => faulty = {}
    /\ \A r \in Receivers \ (faulty \cup lagging) : \A q \in Receivers : Final(q) <= Final(r)
    /\ Cardinality(faulty \cup lagging) <= MaxFaulty

PipeInv == Sound /\ Numbered /\ UpToDate /\ Contiguous /\ RoomForBatch /\ RoomForRequests /\ Leading

-----------------------------------------------------------------------------
(* Induction over the natural numbers, and division.                       *)

LEMMA Least ==
    ASSUME NEW T, T \subseteq Nat, T # {}
    PROVE  \E x \in T : \A y \in T : x <= y
<1> DEFINE Less == {ss \in Nat \X Nat : ss[1] < ss[2]}
<1>1. OpToRel(<, Nat) = Less
  BY Zenon DEF OpToRel
<1>2. IsWellFoundedOn(Less, Nat)
  BY <1>1, NatLessThanWellFounded, Zenon
<1>3. \E x \in T : \A y \in T : ~(<<y, x>> \in Less)
  <2> HIDE DEF Less
  <2> QED
    BY <1>2, WFMin, Zenon
<1>4. PICK x \in T : \A y \in T : ~(<<y, x>> \in Less)
  BY <1>3
<1>5. ASSUME NEW y \in T PROVE x <= y
  <2>1. <<y, x>> \in Nat \X Nat /\ <<y, x>>[1] = y /\ <<y, x>>[2] = x
    OBVIOUS
  <2>2. ~(y < x)
    BY <1>4, <2>1
  <2>3. x \in Nat /\ y \in Nat
    OBVIOUS
  <2> QED
    BY <2>2, <2>3
<1> QED
  BY <1>5

LEMMA Induction ==
    ASSUME NEW T, 0 \in T, \A n \in Nat : n \in T => n + 1 \in T
    PROVE  Nat \subseteq T
<1> DEFINE U == {n \in Nat : n \notin T}
<1>1. ASSUME U # {} PROVE FALSE
  <2>1. PICK x \in U : \A y \in U : x <= y
    BY <1>1, Least
  <2>2. x \in Nat /\ x # 0
    BY <2>1
  <2>3. x - 1 \in Nat /\ x - 1 \notin U
    BY <2>1, <2>2
  <2> QED
    BY <2>1, <2>2, <2>3
<1> QED
  BY <1>1

LEMMA Division ==
    ASSUME NEW a \in Int, NEW b \in Nat \ {0}
    PROVE  /\ a \div b \in Int /\ a % b \in 0..b - 1
           /\ a = b * (a \div b) + (a % b)
  OBVIOUS

LEMMA Monotone ==
    ASSUME NEW b \in Nat \ {0}, NEW p \in Int, NEW q \in Int, p <= q
    PROVE  b * p <= b * q
  OBVIOUS

(* The remainder is what is left of a number between 0 and the divisor.    *)
LEMMA Remainder ==
    ASSUME NEW b \in Nat \ {0}, NEW a \in Int, NEW q \in Int, NEW r \in 0..b - 1,
           a = b * q + r
    PROVE  a \div b = q /\ a % b = r
<1> DEFINE d == a \div b
           m == a % b
<1>1. d \in Int /\ m \in 0..b - 1 /\ b * d + m = b * q + r
  BY Division
<1> HIDE DEF d, m
<1>2. b * d \in Int /\ b * q \in Int /\ b * (d + 1) = b * d + b /\ b * (q + 1) = b * q + b
  BY <1>1
<1>3. ~(d < q)
  <2>1. ASSUME d < q PROVE b * (d + 1) <= b * q
    <3>1. d + 1 <= q /\ d + 1 \in Int
      BY <1>1, <2>1
    <3> QED
      BY <3>1, Monotone
  <2> QED
    BY <1>1, <1>2, <2>1
<1>4. ~(q < d)
  <2>1. ASSUME q < d PROVE b * (q + 1) <= b * d
    <3>1. q + 1 <= d /\ q + 1 \in Int
      BY <1>1, <2>1
    <3> QED
      BY <3>1, <1>1, Monotone
  <2> QED
    BY <1>1, <1>2, <2>1
<1>5. d = q
  BY <1>1, <1>3, <1>4
<1>6. m = r
  BY <1>1, <1>2, <1>5
<1> QED
  BY <1>5, <1>6 DEF d, m

LEMMA RemainderOfSum ==
    ASSUME NEW b \in Nat \ {0}, NEW a \in Int, NEW c \in Int
    PROVE  ((a % b) + c) % b = (a + c) % b
<1> DEFINE m == a % b
           d == a \div b
           e == (m + c) \div b
           r == (m + c) % b
<1>1. m \in Int /\ d \in Int /\ a = b * d + m
  BY Division
<1>2. e \in Int /\ r \in 0..b - 1 /\ m + c = b * e + r
  BY <1>1, Division
<1> HIDE DEF m, d, e, r
<1>3. a + c = b * (d + e) + r /\ d + e \in Int /\ a + c \in Int
  <2>1. b * (d + e) = b * d + b * e /\ b * d \in Int /\ b * e \in Int
    BY <1>1, <1>2
  <2> QED
    BY <1>1, <1>2, <2>1
<1>4. (a + c) % b = r
  BY <1>2, <1>3, Remainder
<1> QED
  BY <1>4 DEF r, m

LEMMA QuotientMonotone ==
    ASSUME NEW b \in Nat \ {0}, NEW a \in Int, NEW c \in Int, a <= c
    PROVE  a \div b <= c \div b
<1> DEFINE p == a \div b
           q == c \div b
           r == a % b
           s == c % b
<1>1. p \in Int /\ q \in Int /\ r \in 0..b - 1 /\ s \in 0..b - 1 /\ a = b * p + r /\ c = b * q + s
  BY Division
<1> HIDE DEF p, q, r, s
<1>2. ~(q < p)
  <2>1. ASSUME q < p PROVE FALSE
    <3>1. q + 1 <= p /\ q + 1 \in Int
      BY <1>1, <2>1
    <3>2. b * (q + 1) <= b * p
      BY <1>1, <3>1, Monotone
    <3>3. b * (q + 1) = b * q + b /\ b * q \in Int /\ b * p \in Int
      BY <1>1
    <3> QED
      BY <1>1, <3>2, <3>3
  <2> QED
    BY <2>1
<1> QED
  BY <1>1, <1>2 DEF p, q

-----------------------------------------------------------------------------
(* FlattenSeq joins the pieces into which a sequence was cut.              *)

LEMMA FlattenJoins ==
    ASSUME NEW n \in Nat \ {0}, NEW pieces, NEW whole,
           Len(pieces) = n, whole = [i \in 1..n |-> whole[i]],
           whole[1] = pieces[1],
           \A i \in 2..n : whole[i] = whole[i - 1] \o pieces[i]
    PROVE  FlattenSeq(pieces) = whole[n]
<1> DEFINE Step(f) == [i \in 1..n |-> IF i = 1 THEN pieces[i] ELSE f[i - 1] \o pieces[i]]
           flatten == CHOOSE f : f = Step(f)
<1>1. whole = Step(whole)
  <2>1. \A i \in 1..n : whole[i] = IF i = 1 THEN pieces[i] ELSE whole[i - 1] \o pieces[i]
    <3>1. ASSUME NEW i \in 1..n, i # 1 PROVE whole[i] = whole[i - 1] \o pieces[i]
      <4>1. i \in 2..n
        BY <3>1
      <4> QED
        BY <4>1
    <3> QED
      BY <3>1
  <2> QED
    BY <2>1, Zenon
<1>2. flatten = Step(flatten)
  BY <1>1, Zenon
<1>3. FlattenSeq(pieces) = flatten[n]
  BY DEF FlattenSeq
<1> HIDE DEF flatten
<1> DEFINE T == {i \in Nat : i \in 1..n => flatten[i] = whole[i]}
<1>4. 0 \in T
  OBVIOUS
<1>5. ASSUME NEW i \in Nat, i \in T PROVE i + 1 \in T
  <2>1. CASE i = 0
    BY <1>2, <2>1
  <2>2. CASE i > 0 /\ i + 1 \in 1..n
    <3>1. i \in 1..n /\ (i + 1) - 1 = i /\ i + 1 # 1 /\ i + 1 \in 2..n
      BY <2>2
    <3>2. flatten[i + 1] = flatten[i] \o pieces[i + 1]
      BY <1>2, <2>2, <3>1
    <3>3. whole[i + 1] = whole[i] \o pieces[i + 1]
      BY <3>1
    <3>4. flatten[i] = whole[i]
      BY <1>5, <3>1
    <3>5. flatten[i + 1] = whole[i + 1]
      BY <3>2, <3>3, <3>4
    <3> QED
      BY <3>5
  <2>3. CASE i + 1 \notin 1..n
    BY <2>3
  <2> QED
    BY <2>1, <2>2, <2>3
<1>6. Nat \subseteq T
  <2> HIDE DEF T
  <2> QED
    BY <1>4, <1>5, Induction
<1>7. n \in T
  <2> HIDE DEF T
  <2> QED
    BY <1>6
<1>8. n \in 1..n
  OBVIOUS
<1>9. flatten[n] = whole[n]
  BY <1>7, <1>8
<1> QED
  BY <1>3, <1>9

-----------------------------------------------------------------------------
(* What a receiver requests.                                               *)

LEMMA RoomBounds ==
    ASSUME NEW f \in 0..Capacity
    PROVE  Room(f) \in 0..MaxFlow /\ MsgSize * Room(f) <= Capacity - f
<1> DEFINE d == (Capacity - f) \div MsgSize
           m == (Capacity - f) % MsgSize
<1>1. /\ MsgSize \in Nat \ {0} /\ Capacity \in Nat /\ MaxFlow \in Nat \ {0}
      /\ Capacity - f \in Int /\ Capacity - f >= 0
  BY PipeAssumption
<1>2. d \in Int /\ m \in 0..MsgSize - 1 /\ Capacity - f = MsgSize * d + m
  BY <1>1, Division
<1>3. 0 \div MsgSize <= d /\ 0 \div MsgSize = 0
  <2>1. 0 \in 0..MsgSize - 1 /\ 0 = MsgSize * 0 + 0
    BY <1>1
  <2>2. 0 \div MsgSize = 0
    BY <1>1, <2>1, Remainder
  <2> QED
    BY <1>1, <2>2, QuotientMonotone
<1> HIDE DEF d, m
<1>4. d >= 0
  BY <1>2, <1>3
<1>5. Room(f) = Lesser(d, MaxFlow)
  BY DEF Room, d
<1>6. Room(f) \in 0..MaxFlow /\ Room(f) <= d
  BY <1>1, <1>2, <1>4, <1>5 DEF Lesser
<1>7. MsgSize * Room(f) <= MsgSize * d
  BY <1>1, <1>2, <1>6, Monotone
<1>8. MsgSize * d \in Int /\ MsgSize * Room(f) \in Int
  BY <1>1, <1>2, <1>6
<1> QED
  BY <1>1, <1>2, <1>6, <1>7, <1>8

LEMMA RoomMonotone ==
    ASSUME NEW f \in 0..Capacity, NEW g \in 0..Capacity, f <= g
    PROVE  Room(g) <= Room(f)
<1> DEFINE d == (Capacity - f) \div MsgSize
           e == (Capacity - g) \div MsgSize
<1>1. MsgSize \in Nat \ {0} /\ Capacity \in Nat /\ MaxFlow \in Nat \ {0}
  BY PipeAssumption
<1>2. Capacity - f \in Int /\ Capacity - g \in Int /\ Capacity - g <= Capacity - f
  BY <1>1
<1>3. e <= d /\ e \in Int /\ d \in Int
  BY <1>1, <1>2, Division, QuotientMonotone
<1>4. Room(f) = Lesser(d, MaxFlow) /\ Room(g) = Lesser(e, MaxFlow)
  BY DEF Room
<1> HIDE DEF d, e
<1> QED
  BY <1>1, <1>3, <1>4 DEF Lesser

LEMMA Levels ==
    ASSUME Typed, NEW r \in Receivers
    PROVE  /\ fill_level(r) \in 0..Capacity /\ scratch_offset[r] \in 0..Capacity
           /\ scratch_avail[r] \in 0..Capacity
           /\ scratch_avail[r] = scratch_offset[r] + fill_level(r)
           /\ pipe_receiver_request_count(r) = Room(fill_level(r))
           /\ Room(fill_level(r)) \in 0..MaxFlow
           /\ MsgSize * Room(fill_level(r)) <= Capacity - fill_level(r)
<1>1. scratch_avail[r] \in 0..Capacity /\ scratch_offset[r] \in 0..Capacity
      /\ scratch_offset[r] <= scratch_avail[r] /\ Capacity \in Nat
  BY PipeAssumption DEF Typed
<1>2. fill_level(r) \in 0..Capacity /\ scratch_avail[r] = scratch_offset[r] + fill_level(r)
  BY <1>1 DEF fill_level
<1>3. pipe_receiver_request_count(r) = Room(fill_level(r))
  BY DEF pipe_receiver_request_count, Room
<1> QED
  BY <1>1, <1>2, <1>3, RoomBounds

-----------------------------------------------------------------------------
(* The messages cut from the buffer of the sender join to its beginning.   *)

End(k) == Lesser(k * MsgSize, Len(send_scratch))

LEMMA Ends ==
    ASSUME Typed, NEW k \in Nat \ {0}, k <= (Len(send_scratch) + MsgSize - 1) \div MsgSize
    PROVE  /\ End(k) \in Nat /\ End(k) <= Len(send_scratch) /\ End(k) <= k * MsgSize
           /\ End(k - 1) = (k - 1) * MsgSize /\ End(k - 1) \in Nat
           /\ End(k - 1) < End(k) /\ End(k) <= End(k - 1) + MsgSize
<1> DEFINE L == Len(send_scratch)
           full == (L + MsgSize - 1) \div MsgSize
           rest == (L + MsgSize - 1) % MsgSize
<1>1. MsgSize \in Nat \ {0} /\ L \in Nat
  BY PipeAssumption, LenProperties DEF Typed
<1>2. full \in Int /\ rest \in 0..MsgSize - 1 /\ L + MsgSize - 1 = MsgSize * full + rest
  BY <1>1, Division, L + MsgSize - 1 \in Int
<1>3. k <= full
  OBVIOUS
<1> HIDE DEF full, rest, L
<1>4. MsgSize * k <= MsgSize * full
  BY <1>1, <1>2, <1>3, Monotone
<1>5. /\ k * MsgSize = MsgSize * k /\ MsgSize * k \in Nat /\ MsgSize * full \in Int
      /\ (k - 1) * MsgSize = MsgSize * k - MsgSize
  BY <1>1, <1>2
<1>6. (k - 1) * MsgSize >= 0
  <2>1. MsgSize * 1 <= MsgSize * k
    BY <1>1, Monotone
  <2> QED
    BY <1>1, <1>5, <2>1
<1>7. (k - 1) * MsgSize < L
  BY <1>1, <1>2, <1>4, <1>5
<1>8. End(k) = Lesser(k * MsgSize, L) /\ End(k - 1) = Lesser((k - 1) * MsgSize, L)
  BY DEF End, L
<1>9. End(k - 1) = (k - 1) * MsgSize
  BY <1>1, <1>5, <1>6, <1>7, <1>8 DEF Lesser
<1>10. /\ End(k) \in Nat /\ End(k) <= L /\ End(k) <= k * MsgSize
       /\ (k - 1) * MsgSize < End(k)
       /\ End(k) <= (k - 1) * MsgSize + MsgSize
  BY <1>1, <1>5, <1>6, <1>7, <1>8 DEF Lesser
<1> QED
  BY <1>1, <1>5, <1>6, <1>9, <1>10 DEF L

LEMMA ChunkProperties ==
    ASSUME Typed, NEW k \in Nat \ {0}, k <= (Len(send_scratch) + MsgSize - 1) \div MsgSize
    PROVE  /\ Chunk(k) = SubSeq(send_scratch, End(k - 1) + 1, End(k))
           /\ Chunk(k) \in Seq(Byte) /\ Len(Chunk(k)) \in 1..MsgSize
<1>1. send_scratch \in Seq(Byte) /\ MsgSize \in Nat \ {0}
  BY PipeAssumption DEF Typed
<1>2. Chunk(k) = SubSeq(send_scratch, End(k - 1) + 1, End(k))
  BY Ends DEF Chunk, End
<1>3. End(k - 1) + 1 \in Nat /\ End(k) \in Nat /\ Len(send_scratch) \in Nat
      /\ End(k - 1) \in Nat /\ End(k - 1) + 1 <= End(k) /\ End(k) <= Len(send_scratch)
      /\ End(k) <= End(k - 1) + MsgSize
  BY <1>1, Ends, LenProperties
<1>4. \A i \in End(k - 1) + 1..End(k) : send_scratch[i] \in Byte
  BY <1>1, <1>3, ElementOfSeq
<1>5. /\ SubSeq(send_scratch, End(k - 1) + 1, End(k)) \in Seq(Byte)
      /\ Len(SubSeq(send_scratch, End(k - 1) + 1, End(k))) = End(k) - (End(k - 1) + 1) + 1
  BY <1>3, <1>4, SubSeqProperties
<1>6. End(k) - (End(k - 1) + 1) + 1 \in 1..MsgSize
  BY <1>1, <1>3
<1> QED
  BY <1>2, <1>5, <1>6

LEMMA ChunksJoin ==
    ASSUME Typed, NEW n \in Nat, n <= (Len(send_scratch) + MsgSize - 1) \div MsgSize,
           NEW batch, batch = [k \in 1..n |-> Chunk(k)]
    PROVE  /\ batch \in Seq(Seq(Byte)) /\ Len(batch) = n
           /\ \A k \in 1..n : Len(batch[k]) \in 1..MsgSize
           /\ \A m \in 0..n : FlattenSeq(SubSeq(batch, 1, m)) = SubSeq(send_scratch, 1, End(m))
<1>1. send_scratch \in Seq(Byte) /\ Len(send_scratch) \in Nat /\ MsgSize \in Nat \ {0}
  BY PipeAssumption, LenProperties DEF Typed
<1>2. (Len(send_scratch) + MsgSize - 1) \div MsgSize \in Int
  BY <1>1, Division
<1>3. ASSUME NEW k \in 1..n
      PROVE  /\ k \in Nat \ {0} /\ k <= (Len(send_scratch) + MsgSize - 1) \div MsgSize
             /\ batch[k] = Chunk(k)
             /\ batch[k] \in Seq(Byte) /\ Len(batch[k]) \in 1..MsgSize
  <2>1. k \in Nat \ {0} /\ k <= (Len(send_scratch) + MsgSize - 1) \div MsgSize
    BY <1>2
  <2>2. batch[k] = Chunk(k)
    OBVIOUS
  <2> QED
    BY <2>1, <2>2, ChunkProperties
<1>4. batch \in [1..n -> Seq(Byte)]
  BY <1>3
<1>5. batch \in Seq(Seq(Byte)) /\ Len(batch) = n
  BY <1>4
<1>6. ASSUME NEW m \in 0..n
      PROVE  FlattenSeq(SubSeq(batch, 1, m)) = SubSeq(send_scratch, 1, End(m))
  <2>1. CASE m = 0
    <3>1. SubSeq(batch, 1, 0) = <<>>
      BY SubSeqEmpty
    <3>2. FlattenSeq(<<>>) = <<>>
      BY DEF FlattenSeq
    <3>3. End(0) = 0
      BY <1>1 DEF End, Lesser
    <3>4. SubSeq(send_scratch, 1, 0) = <<>>
      BY SubSeqEmpty
    <3> QED
      BY <2>1, <3>1, <3>2, <3>3, <3>4
  <2>2. CASE m > 0
    <3> DEFINE pieces == SubSeq(batch, 1, m)
               whole == [k \in 1..m |-> SubSeq(send_scratch, 1, End(k))]
    <3>1. m \in Nat \ {0} /\ m \in 1..n
      BY <2>2
    <3>2. /\ pieces \in Seq(Seq(Byte)) /\ Len(pieces) = m
          /\ \A k \in 1..m : pieces[k] = batch[k]
      <4>1. \A k \in 1..m : batch[k] \in Seq(Byte)
        BY <1>3, <3>1
      <4>2. /\ pieces \in Seq(Seq(Byte)) /\ Len(pieces) = m - 1 + 1
            /\ \A k \in 1..m - 1 + 1 : pieces[k] = batch[1 + k - 1]
        BY <3>1, <1>4
      <4> QED
        BY <3>1, <4>2
    <3>3. ASSUME NEW k \in 1..m
          PROVE  /\ End(k) \in Nat /\ End(k) <= Len(send_scratch) /\ End(k - 1) \in Nat
                 /\ End(k - 1) < End(k)
                 /\ whole[k] = SubSeq(send_scratch, 1, End(k)) /\ whole[k] \in Seq(Byte)
                 /\ pieces[k] = SubSeq(send_scratch, End(k - 1) + 1, End(k))
      <4>1. k \in 1..n
        BY <3>1
      <4>2. k \in Nat \ {0} /\ k <= (Len(send_scratch) + MsgSize - 1) \div MsgSize
        BY <1>3, <4>1
      <4>3. /\ End(k) \in Nat /\ End(k) <= Len(send_scratch) /\ End(k - 1) \in Nat
            /\ End(k - 1) < End(k)
        BY <4>2, Ends
      <4>4. pieces[k] = SubSeq(send_scratch, End(k - 1) + 1, End(k))
        BY <1>3, <3>2, <4>1, <4>2, ChunkProperties
      <4>5. \A i \in 1..End(k) : send_scratch[i] \in Byte
        BY <1>1, <4>3, ElementOfSeq
      <4>6. SubSeq(send_scratch, 1, End(k)) \in Seq(Byte)
        BY <4>3, <4>5, SubSeqProperties, 1 \in Int, End(k) \in Int
      <4> QED
        BY <4>3, <4>4, <4>6
    <3>4. whole \in [1..m -> Seq(Byte)]
      BY <3>3
    <3>5. whole[1] = pieces[1]
      <4>1. 1 \in 1..m
        BY <3>1
      <4>2. End(1 - 1) + 1 = 1
        BY <1>1 DEF End, Lesser
      <4> QED
        BY <3>3, <4>1, <4>2
    <3>6. ASSUME NEW k \in 2..m PROVE whole[k] = whole[k - 1] \o pieces[k]
      <4>1. k \in 1..m /\ k - 1 \in 1..m
        BY <3>1
      <4>2. /\ End(k) \in Nat /\ End(k) <= Len(send_scratch) /\ End(k - 1) \in Nat
            /\ End(k - 1) < End(k)
        BY <3>3, <4>1
      <4>3. /\ 1 \in 1..Len(send_scratch) + 1
            /\ End(k - 1) \in 1 - 1..Len(send_scratch)
            /\ End(k) \in End(k - 1)..Len(send_scratch)
        BY <1>1, <4>2
      <4>4. SubSeq(send_scratch, 1, End(k - 1)) \o SubSeq(send_scratch, End(k - 1) + 1, End(k))
                = SubSeq(send_scratch, 1, End(k))
        BY <1>1, <4>3, ConcatAdjacentSubSeq
      <4>5. /\ whole[k] = SubSeq(send_scratch, 1, End(k))
            /\ whole[k - 1] = SubSeq(send_scratch, 1, End(k - 1))
            /\ pieces[k] = SubSeq(send_scratch, End(k - 1) + 1, End(k))
        BY <3>3, <4>1
      <4> QED
        BY <4>4, <4>5
    <3> HIDE DEF pieces, whole
    <3>7. FlattenSeq(pieces) = whole[m]
      <4>1. \A k \in 2..m : whole[k] = whole[k - 1] \o pieces[k]
        BY <3>6
      <4> QED
        BY <3>1, <3>2, <3>4, <3>5, <4>1, FlattenJoins
    <3>8. m \in 1..m
      BY <3>1
    <3> QED
      BY <3>3, <3>7, <3>8 DEF pieces
  <2> QED
    BY <2>1, <2>2
<1> QED
  BY <1>3, <1>5, <1>6
-----------------------------------------------------------------------------
(* What the actions do.                                                    *)

(* The flow is none, or what a majority of the replicas requested.         *)
LEMMA AllowedFlow ==
    /\ allowed_flow \in 0..MaxFlow
    /\ allowed_flow # 0 => Cardinality(Requesting(allowed_flow)) >= NumReceivers \div 2 + 1
<1> DEFINE agreed == {f \in 0..MaxFlow : Cardinality(Requesting(f)) >= NumReceivers \div 2 + 1}
<1>1. allowed_flow = IF agreed = {} THEN 0 ELSE CHOOSE f \in agreed : TRUE
  BY DEF allowed_flow
<1>2. CASE agreed = {}
  BY <1>1, <1>2, PipeAssumption
<1>3. CASE agreed # {}
  <2>1. (CHOOSE f \in agreed : TRUE) \in agreed
    BY <1>3
  <2>2. allowed_flow \in agreed
    BY <1>1, <1>3, <2>1
  <2> QED
    BY <2>2
<1> QED
  BY <1>2, <1>3

(* The buffer after its reception: what was unread, then what arrived.     *)
LEMMA PrepareEffect ==
    ASSUME Sound, NEW r \in Receivers, pipe_receiver_prepare(r),
           NEW n, n = Lesser(pipe_receiver_request_count(r), Len(dataflow)),
           NEW data, data = Incoming(n)
    PROVE  /\ n \in 0..Len(dataflow) /\ n \in 0..MaxFlow /\ n <= Room(fill_level(r))
           /\ data \in Seq(Byte) /\ Len(data) \in Nat
           /\ fill_level(r) + Len(data) <= Capacity
           /\ scratch' \in [Receivers -> [0..Capacity - 1 -> Byte]]
           /\ scratch_avail' \in [Receivers -> 0..Capacity]
           /\ scratch_offset' \in [Receivers -> 0..Capacity]
           /\ scratch_avail'[r] = scratch_offset'[r] + fill_level(r) + Len(data)
           /\ \A i \in 0..fill_level(r) - 1 :
                  scratch'[r][scratch_offset'[r] + i] = scratch[r][scratch_offset[r] + i]
           /\ \A j \in 1..Len(data) :
                  scratch'[r][scratch_offset'[r] + fill_level(r) + j - 1] = data[j]
           /\ \A q \in Receivers \ {r} :
                  /\ scratch'[q] = scratch[q] /\ scratch_avail'[q] = scratch_avail[q]
                  /\ scratch_offset'[q] = scratch_offset[q]
<1> DEFINE refills == pipe_receiver_request_count(r)
           moved == refills > 0 /\ must_relocate(r, refills)
           base == IF moved THEN fill_level(r) ELSE scratch_avail[r]
           buffer == IF moved THEN Relocated(r) ELSE scratch[r]
           offset == IF moved THEN 0 ELSE scratch_offset[r]
           filled == [i \in 0..Capacity - 1 |->
                         IF i \in base..base + Len(data) - 1 THEN data[i - base + 1] ELSE buffer[i]]
<1>1. /\ MsgSize \in Nat \ {0} /\ Capacity \in Nat /\ MaxFlow \in Nat \ {0}
  BY PipeAssumption
<1>2. Typed /\ Batched
  BY DEF Sound
<1>3. /\ fill_level(r) \in 0..Capacity /\ scratch_offset[r] \in 0..Capacity
      /\ scratch_avail[r] \in 0..Capacity
      /\ scratch_avail[r] = scratch_offset[r] + fill_level(r)
      /\ refills = Room(fill_level(r)) /\ refills \in 0..MaxFlow
      /\ MsgSize * refills <= Capacity - fill_level(r)
  BY <1>2, Levels
<1>4. Len(dataflow) \in 0..MaxFlow
  BY <1>2, LenProperties DEF Batched
<1>5. n \in 0..Len(dataflow) /\ n \in 0..MaxFlow /\ n <= refills
  BY <1>1, <1>3, <1>4 DEF Lesser
<1>6. data \in Seq(Byte) /\ Len(data) \in Nat
  BY <1>2, <1>5, LenProperties DEF Batched
<1> DEFINE asked == MsgSize * refills
<1>7. /\ asked \in Int /\ asked <= Capacity - fill_level(r) /\ Len(data) <= asked
      /\ (refills = 0 => asked = 0)
  <2>1. MsgSize * n <= MsgSize * refills /\ MsgSize * n \in Int /\ MsgSize * refills \in Int
    BY <1>1, <1>3, <1>5, Monotone
  <2>2. refills = 0 => MsgSize * refills = 0
    BY <1>1
  <2>3. Len(data) <= MsgSize * n
    BY <1>2, <1>5 DEF Batched
  <2> QED
    BY <1>3, <1>6, <2>1, <2>2, <2>3
<1>8. moved <=> refills > 0 /\ scratch_offset[r] > 0 /\ scratch_avail[r] + asked > Capacity
  BY DEF must_relocate
<1>9. scratch[r] \in [0..Capacity - 1 -> Byte]
  BY <1>2 DEF Typed
<1>10. /\ scratch' = [scratch EXCEPT ![r] = filled]
       /\ scratch_avail' = [scratch_avail EXCEPT ![r] = base + Len(data)]
       /\ scratch_offset' = [scratch_offset EXCEPT ![r] = offset]
  BY DEF pipe_receiver_prepare
<1>11. Relocated(r) = [i \in 0..Capacity - 1 |->
            IF i < fill_level(r) THEN scratch[r][scratch_offset[r] + i] ELSE scratch[r][i]]
  BY DEF Relocated
<1>12. buffer = IF moved THEN Relocated(r) ELSE scratch[r]
  OBVIOUS
<1>13. base = offset + fill_level(r) /\ base \in 0..Capacity /\ offset \in 0..Capacity
       /\ base + Len(data) <= Capacity /\ (moved => offset = 0)
       /\ (~moved => offset = scratch_offset[r])
  <2>1. CASE moved
    <3>1. base = fill_level(r) /\ offset = 0
      BY <2>1
    <3>2. fill_level(r) + Len(data) <= Capacity
      <4> HIDE DEF refills, asked
      <4> QED
        BY <1>1, <1>3, <1>6, <1>7
    <3> QED
      BY <1>1, <1>3, <2>1, <3>1, <3>2
  <2>2. CASE ~moved
    <3>1. base = scratch_avail[r] /\ offset = scratch_offset[r]
      BY <2>2
    <3>2. scratch_avail[r] + Len(data) <= Capacity
      <4>1. /\ refills \in Nat /\ scratch_offset[r] \in Nat /\ scratch_avail[r] \in 0..Capacity
            /\ fill_level(r) \in Nat /\ Capacity \in Nat /\ asked \in Int /\ Len(data) \in Nat
            /\ scratch_avail[r] = scratch_offset[r] + fill_level(r)
            /\ asked <= Capacity - fill_level(r) /\ Len(data) <= asked /\ (refills = 0 => asked = 0)
        <5> HIDE DEF refills, asked
        <5> QED
          BY <1>1, <1>3, <1>6, <1>7
      <4>2. ~(refills > 0) \/ ~(scratch_offset[r] > 0) \/ ~(scratch_avail[r] + asked > Capacity)
        BY <1>8, <2>2
      <4> HIDE DEF refills, moved, asked
      <4>3. CASE refills = 0
        BY <4>1, <4>3
      <4>4. CASE scratch_offset[r] = 0
        BY <4>1, <4>4
      <4>5. CASE scratch_avail[r] + asked <= Capacity
        BY <4>1, <4>5
      <4> QED
        BY <4>1, <4>2, <4>3, <4>4, <4>5
    <3> QED
      BY <1>3, <2>2, <3>1, <3>2
  <2> QED
    BY <2>1, <2>2
<1> HIDE DEF refills, asked, moved, base, offset, buffer
<1>14. ASSUME NEW i \in 0..Capacity - 1 PROVE buffer[i] \in Byte
  <2>1. CASE moved
    <3>1. buffer[i] = IF i < fill_level(r) THEN scratch[r][scratch_offset[r] + i] ELSE scratch[r][i]
      BY <1>11, <1>12, <2>1
    <3>2. i < fill_level(r) => scratch_offset[r] + i \in 0..Capacity - 1
      BY <1>1, <1>3
    <3> QED
      BY <1>9, <3>1, <3>2
  <2>2. CASE ~moved
    BY <1>9, <1>12, <2>2
  <2> QED
    BY <2>1, <2>2
<1>15. ASSUME NEW i \in base..base + Len(data) - 1 PROVE data[i - base + 1] \in Byte
  <2>1. i - base + 1 \in 1..Len(data)
    BY <1>6, <1>13
  <2> QED
    BY <1>6, <2>1, ElementOfSeq
<1>16. filled \in [0..Capacity - 1 -> Byte]
  BY <1>14, <1>15
<1>17. /\ scratch'[r] = filled /\ scratch_avail'[r] = base + Len(data) /\ scratch_offset'[r] = offset
       /\ scratch' \in [Receivers -> [0..Capacity - 1 -> Byte]]
       /\ \A q \in Receivers \ {r} : scratch'[q] = scratch[q]
  <2> HIDE DEF filled
  <2> QED
    BY <1>2, <1>10, <1>16 DEF Typed
<1>18. /\ scratch_avail' \in [Receivers -> 0..Capacity]
       /\ scratch_offset' \in [Receivers -> 0..Capacity]
       /\ \A q \in Receivers \ {r} : scratch_avail'[q] = scratch_avail[q]
                                     /\ scratch_offset'[q] = scratch_offset[q]
  <2>1. base + Len(data) \in 0..Capacity
    BY <1>1, <1>6, <1>13
  <2> QED
    BY <1>2, <1>10, <1>13, <2>1 DEF Typed
<1>19. ASSUME NEW i \in 0..fill_level(r) - 1
       PROVE  filled[offset + i] = scratch[r][scratch_offset[r] + i]
  <2>1. offset + i \in 0..Capacity - 1 /\ offset + i \notin base..base + Len(data) - 1
    <3>1. i \in Nat /\ i < fill_level(r) /\ fill_level(r) \in Nat
      BY <1>3
    <3>2. /\ offset \in Nat /\ base = offset + fill_level(r) /\ Capacity \in Nat
          /\ Len(data) \in Nat /\ base + Len(data) <= Capacity
      BY <1>1, <1>6, <1>13
    <3> QED
      BY <3>1, <3>2
  <2>2. filled[offset + i] = buffer[offset + i]
    BY <2>1
  <2>3. CASE moved
    <3>1. offset + i = i /\ i < fill_level(r)
      BY <1>3, <1>13, <2>3
    <3> QED
      BY <1>11, <1>12, <2>1, <2>2, <2>3, <3>1
  <2>4. CASE ~moved
    BY <1>12, <1>13, <2>2, <2>4
  <2> QED
    BY <2>3, <2>4
<1>20. ASSUME NEW j \in 1..Len(data) PROVE filled[offset + fill_level(r) + j - 1] = data[j]
  <2>1. j \in Nat /\ 1 <= j /\ j <= Len(data) /\ base \in Nat /\ Capacity \in Nat
    BY <1>1, <1>6, <1>13
  <2>2. base + j - 1 \in 0..Capacity - 1 /\ base + j - 1 \in base..base + Len(data) - 1
    BY <1>6, <1>13, <2>1
  <2>3. (base + j - 1) - base + 1 = j
    BY <2>1
  <2>4. offset + fill_level(r) + j - 1 = base + j - 1
    BY <1>13
  <2>5. filled[base + j - 1] = data[(base + j - 1) - base + 1]
    BY <2>2
  <2> QED
    BY <2>3, <2>4, <2>5
<1>21. scratch_avail'[r] = scratch_offset'[r] + fill_level(r) + Len(data)
  BY <1>13, <1>17
<1>22. fill_level(r) + Len(data) <= Capacity
  BY <1>1, <1>3, <1>6, <1>13
<1>23. /\ \A i \in 0..fill_level(r) - 1 :
              scratch'[r][scratch_offset'[r] + i] = scratch[r][scratch_offset[r] + i]
       /\ \A j \in 1..Len(data) :
              scratch'[r][scratch_offset'[r] + fill_level(r) + j - 1] = data[j]
  <2> HIDE DEF filled
  <2> QED
    BY <1>17, <1>19, <1>20
<1>24. n <= Room(fill_level(r))
  BY <1>3, <1>5
<1> HIDE DEF filled
<1> QED
  BY <1>5, <1>6, <1>17, <1>18, <1>21, <1>22, <1>23, <1>24

(* The consumer reads from the front.                                      *)
LEMMA ReadEffect ==
    ASSUME Typed, NEW r \in Receivers, pipe_receiver_read_byte(r)
    PROVE  /\ Reading(r) \in 0..fill_level(r)
           /\ scratch_offset' \in [Receivers -> 0..Capacity]
           /\ scratch_offset'[r] = scratch_offset[r] + Reading(r)
           /\ scratch_offset'[r] <= scratch_avail[r]
           /\ consumed' \in [Receivers -> Byte] /\ consumed'[r] = (consumed[r] + Reading(r)) % Bytes
           /\ \A q \in Receivers \ {r} : scratch_offset'[q] = scratch_offset[q]
                                        /\ consumed'[q] = consumed[q]
<1>1. /\ Capacity \in Nat /\ Bytes \in Nat \ {0}
      /\ fill_level(r) \in 0..Capacity /\ scratch_offset[r] \in 0..Capacity
      /\ scratch_avail[r] \in 0..Capacity
      /\ scratch_avail[r] = scratch_offset[r] + fill_level(r)
  BY Levels, PipeAssumption
<1>2. demand[1] \in Nat /\ demand[2] \in {0, 1}
  BY DEF Typed
<1>3. Reading(r) \in 0..fill_level(r)
  BY <1>1, <1>2 DEF Reading, Lesser
<1>4. scratch_offset[r] + Reading(r) \in 0..Capacity
      /\ scratch_offset[r] + Reading(r) <= scratch_avail[r]
  BY <1>1, <1>3
<1>5. consumed \in [Receivers -> Byte] /\ consumed[r] \in Int /\ Byte = 0..Bytes - 1
  BY <1>1 DEF Typed, Byte
<1>6. (consumed[r] + Reading(r)) % Bytes \in Byte
  BY <1>1, <1>3, <1>5, Division, consumed[r] + Reading(r) \in Int
<1>7. /\ scratch_offset' = [scratch_offset EXCEPT ![r] = @ + Reading(r)]
      /\ consumed' = [consumed EXCEPT ![r] = (@ + Reading(r)) % Bytes]
  BY DEF pipe_receiver_read_byte
<1>8. /\ scratch_offset' \in [Receivers -> 0..Capacity]
      /\ scratch_offset'[r] = scratch_offset[r] + Reading(r)
      /\ \A q \in Receivers \ {r} : scratch_offset'[q] = scratch_offset[q]
  BY <1>4, <1>7 DEF Typed
<1>9. /\ consumed' \in [Receivers -> Byte] /\ consumed'[r] = (consumed[r] + Reading(r)) % Bytes
      /\ \A q \in Receivers \ {r} : consumed'[q] = consumed[q]
  BY <1>5, <1>6, <1>7
<1> QED
  BY <1>3, <1>4, <1>8, <1>9

(* The batch is the beginning of what the sender holds.                    *)
LEMMA CommitEffect ==
    ASSUME Typed, pipe_sender_commit
    PROVE  /\ Batched' /\ Len(dataflow') <= allowed_flow
           /\ \E gone \in 0..Len(send_scratch) :
                 /\ Arriving' = SubSeq(send_scratch, 1, gone)
                 /\ send_scratch' = SubSeq(send_scratch, gone + 1, Len(send_scratch))
                 /\ sent' = (sent + gone) % Bytes
<1> DEFINE full == (Len(send_scratch) + MsgSize - 1) \div MsgSize
           n == Lesser(allowed_flow, full)
           gone == Lesser(n * MsgSize, Len(send_scratch))
<1>1. /\ MsgSize \in Nat \ {0} /\ MaxFlow \in Nat \ {0} /\ send_scratch \in Seq(Byte)
      /\ Len(send_scratch) \in Nat
  BY PipeAssumption, LenProperties DEF Typed
<1>2. full \in Nat
  <2>1. Len(send_scratch) + MsgSize - 1 \in Int /\ 0 <= Len(send_scratch) + MsgSize - 1
    BY <1>1
  <2>2. full \in Int /\ 0 \div MsgSize <= full
    BY <1>1, <2>1, Division, QuotientMonotone, 0 \in Int
  <2>3. 0 \in 0..MsgSize - 1 /\ 0 = MsgSize * 0 + 0
    BY <1>1
  <2>4. 0 \div MsgSize = 0
    BY <1>1, <2>3, Remainder
  <2> QED
    BY <2>2, <2>4
<1>3. allowed_flow \in 0..MaxFlow
  BY AllowedFlow
<1>4. /\ dataflow' = [k \in 1..n |-> Chunk(k)]
      /\ send_scratch' = SubSeq(send_scratch, gone + 1, Len(send_scratch))
      /\ sent' = (sent + gone) % Bytes
  BY DEF pipe_sender_commit
<1>5. gone = End(n)
  BY DEF End
<1> HIDE DEF full
<1>6. n \in Nat /\ n <= full /\ n <= allowed_flow /\ n <= MaxFlow
  BY <1>1, <1>2, <1>3 DEF Lesser
<1> HIDE DEF n
<1>7. /\ dataflow' \in Seq(Seq(Byte)) /\ Len(dataflow') = n
      /\ \A k \in 1..n : Len(dataflow'[k]) \in 1..MsgSize
      /\ \A m \in 0..n : FlattenSeq(SubSeq(dataflow', 1, m)) = SubSeq(send_scratch, 1, End(m))
  BY <1>4, <1>6, ChunksJoin DEF full
<1>8. ASSUME NEW m \in 0..n
      PROVE  /\ Incoming(m)' = SubSeq(send_scratch, 1, End(m))
             /\ End(m) \in 0..Len(send_scratch) /\ End(m) <= MsgSize * m
             /\ Incoming(m)' \in Seq(Byte) /\ Len(Incoming(m)') = End(m)
  <2>1. Incoming(m)' = SubSeq(send_scratch, 1, End(m))
    BY <1>7 DEF Incoming
  <2>2. m \in Nat /\ m * MsgSize = MsgSize * m /\ MsgSize * m \in Nat
    BY <1>1, <1>6
  <2>3. End(m) \in 0..Len(send_scratch) /\ End(m) <= MsgSize * m
    BY <1>1, <2>2 DEF End, Lesser
  <2>4. \A i \in 1..End(m) : send_scratch[i] \in Byte
    BY <1>1, <2>3, ElementOfSeq
  <2>5. /\ SubSeq(send_scratch, 1, End(m)) \in Seq(Byte)
        /\ Len(SubSeq(send_scratch, 1, End(m))) = IF 1 <= End(m) THEN End(m) - 1 + 1 ELSE 0
    BY <2>3, <2>4, SubSeqProperties, 1 \in Int, End(m) \in Int
  <2> QED
    BY <2>1, <2>3, <2>5
<1>9. Batched'
  <2>1. \A m \in 0..Len(dataflow') : Incoming(m)' \in Seq(Byte) /\ Len(Incoming(m)') <= MsgSize * m
    BY <1>7, <1>8
  <2> QED
    BY <1>6, <1>7, <2>1 DEF Batched
<1>10. Arriving' = SubSeq(send_scratch, 1, gone)
  <2>1. n \in 0..n
    BY <1>6
  <2>2. Arriving' = FlattenSeq(SubSeq(dataflow', 1, Len(dataflow')))
    BY DEF Arriving, Incoming
  <2> QED
    BY <1>5, <1>7, <2>1, <2>2
<1>11. gone \in 0..Len(send_scratch)
  BY <1>5, <1>6, <1>8
<1> HIDE DEF gone
<1> QED
  BY <1>4, <1>6, <1>7, <1>9, <1>10, <1>11

-----------------------------------------------------------------------------
(* The first part of the invariant.                                        *)

LEMMA ReceiverNumbers ==
    /\ NumReceivers \in Nat \ {0} /\ Receivers = 0..NumReceivers - 1
    /\ SenderTurn = -1 /\ SenderTurn \notin Receivers /\ NumReceivers \notin Receivers
    /\ \A r \in Receivers : r \in Int /\ r >= 0 /\ r < NumReceivers
<1>1. NumReceivers \in Nat \ {0}
  BY PipeAssumption
<1> QED
  BY <1>1 DEF Receivers, SenderTurn

LEMMA RoomAtStart ==
    /\ 0 \in 0..Capacity /\ Room(0) \in 0..MaxFlow
    /\ \A f \in 0..Capacity : Room(f) <= Room(0)
<1>1. 0 \in 0..Capacity
  BY PipeAssumption
<1>2. \A f \in 0..Capacity : 0 <= f
  OBVIOUS
<1> QED
  BY <1>1, <1>2, RoomBounds, RoomMonotone

LEMMA NothingIncoming == dataflow = <<>> => Incoming(0) = <<>> /\ Batched
<1> SUFFICES ASSUME dataflow = <<>> PROVE Incoming(0) = <<>> /\ Batched
  OBVIOUS
<1>1. SubSeq(<<>>, 1, 0) = <<>> /\ FlattenSeq(<<>>) = <<>>
  BY SubSeqEmpty DEF FlattenSeq
<1>2. Incoming(0) = <<>>
  BY <1>1 DEF Incoming
<1>3. Len(dataflow) = 0 /\ dataflow \in Seq(Seq(Byte)) /\ MaxFlow \in Nat \ {0} /\ MsgSize \in Nat
  BY PipeAssumption
<1>4. ASSUME NEW n \in 0..0 PROVE Incoming(n) \in Seq(Byte) /\ Len(Incoming(n)) <= MsgSize * n
  <2>1. <<>> \in Seq(Byte) /\ Len(<<>>) = 0 /\ MsgSize * 0 = 0 /\ n = 0
    BY <1>3
  <2>2. Incoming(n) = <<>>
    BY <1>2, <2>1
  <2>3. Incoming(n) \in Seq(Byte) /\ Len(Incoming(n)) = 0
    BY <2>1, <2>2
  <2>4. MsgSize * n = 0
    BY <2>1
  <2> QED
    BY <2>3, <2>4
<1> QED
  BY <1>2, <1>3, <1>4 DEF Batched

LEMMA SoundInit == Init => Sound
<1> SUFFICES ASSUME Init PROVE Sound
  OBVIOUS
<1>1. /\ Bytes \in Nat \ {0} /\ Capacity \in Nat /\ MaxFlow \in Nat \ {0} /\ SendCapacity \in Nat
      /\ Patience \in Nat /\ Demand \subseteq Nat /\ NumReceivers \in Nat \ {0}
  BY PipeAssumption
<1>2. 0 \in Byte /\ Blank \in [0..Capacity - 1 -> Byte]
  BY <1>1 DEF Byte, Blank
<1>3. demand \in Nat \X {0, 1}
  BY <1>1 DEF Init, Demands
<1>4. turn \in SenderTurn..NumReceivers
  BY <1>1 DEF Init, SenderTurn
<1>5. send_scratch \in Seq(Byte) /\ Len(send_scratch) <= SendCapacity
  BY <1>1 DEF Init
<1>6. Typed
  BY <1>1, <1>2, <1>3, <1>4, <1>5 DEF Typed, Init, Missing
<1>7. Batched
  BY NothingIncoming DEF Init
<1>8. \A r \in Receivers : last_requested[r] = 0 /\ Room(fill_level(r)) \in 0..MaxFlow
  BY <1>6, Levels DEF Init
<1>9. Requested
  BY <1>8, RoomAtStart DEF Requested, Init
<1> QED
  BY <1>6, <1>7, <1>9 DEF Sound

LEMMA SoundStep == Sound /\ [Next]_vars => Sound'
<1> SUFFICES ASSUME Sound, [Next]_vars PROVE Sound'
  OBVIOUS
<1>1. Typed /\ Batched /\ Requested
  BY DEF Sound
<1>2. /\ Bytes \in Nat \ {0} /\ Capacity \in Nat /\ MaxFlow \in Nat \ {0} /\ SendCapacity \in Nat
      /\ MsgSize \in Nat \ {0} /\ Patience \in Nat /\ Demand \subseteq Nat
      /\ NumReceivers \in Nat \ {0} /\ Byte = 0..Bytes - 1
  BY PipeAssumption DEF Byte
<1>3. sent \in Int /\ Len(send_scratch) \in Nat /\ send_scratch \in Seq(Byte) /\ turn \in Int
  BY <1>1, <1>2, LenProperties DEF Typed, SenderTurn
<1>4. CASE NewEpoch
  <2>1. demand' \in Nat \X {0, 1}
    BY <1>2, <1>4 DEF NewEpoch, Demands
  <2>2. turn' = SenderTurn /\ turn' \in SenderTurn..NumReceivers /\ turn \notin Receivers
    BY <1>2, <1>4, ReceiverNumbers DEF NewEpoch
  <2>3. lagging' \subseteq Receivers
    BY <1>4 DEF NewEpoch
  <2>4. Typed'
    BY <1>1, <1>4, <2>1, <2>2, <2>3 DEF Typed, NewEpoch, sender, receiver, ducts
  <2>5. Batched'
    BY <1>1, <1>4 DEF Batched, NewEpoch, ducts, Incoming
  <2>6. Requested'
    BY <1>1, <1>4, <2>2 DEF Requested, NewEpoch, ducts, receiver, fill_level
  <2> QED
    BY <2>4, <2>5, <2>6 DEF Sound
<1>5. CASE pipe_sender_write_byte
  <2>1. (sent + Len(send_scratch)) % Bytes \in Byte
    BY <1>2, <1>3, Division, sent + Len(send_scratch) \in Int
  <2>2. /\ Append(send_scratch, (sent + Len(send_scratch)) % Bytes) \in Seq(Byte)
        /\ Len(Append(send_scratch, (sent + Len(send_scratch)) % Bytes)) = Len(send_scratch) + 1
    BY <1>3, <2>1, AppendProperties
  <2>3. send_scratch' \in Seq(Byte) /\ Len(send_scratch') <= SendCapacity
    BY <1>2, <1>3, <1>5, <2>2 DEF pipe_sender_write_byte
  <2>4. Typed'
    BY <1>1, <1>5, <2>3 DEF Typed, pipe_sender_write_byte, receiver, ducts, clip
  <2>5. Batched'
    BY <1>1, <1>5 DEF Batched, pipe_sender_write_byte, ducts, Incoming
  <2>6. Requested'
    BY <1>1, <1>5 DEF Requested, pipe_sender_write_byte, ducts, receiver, clip, fill_level
  <2> QED
    BY <2>4, <2>5, <2>6 DEF Sound
<1>6. ASSUME turn = SenderTurn, EndTurn PROVE turn' = 0 /\ turn' \in SenderTurn..NumReceivers /\ step' = "start"
  BY <1>2, <1>6 DEF EndTurn, SenderTurn
<1>7. CASE pipe_sender_commit
  <2>1. turn' = 0 /\ turn' \in SenderTurn..NumReceivers /\ step' = "start"
    BY <1>6, <1>7 DEF pipe_sender_commit
  <2>2. Batched'
    BY <1>1, <1>7, CommitEffect
  <2>3. PICK gone \in 0..Len(send_scratch) :
            /\ send_scratch' = SubSeq(send_scratch, gone + 1, Len(send_scratch))
            /\ sent' = (sent + gone) % Bytes
    BY <1>1, <1>7, CommitEffect
  <2>4. sent' \in Byte
    BY <1>2, <1>3, <2>3, Division, sent + gone \in Int
  <2>5. send_scratch' \in Seq(Byte) /\ Len(send_scratch') <= SendCapacity
    <3>1. \A i \in gone + 1..Len(send_scratch) : send_scratch[i] \in Byte
      BY <1>3, ElementOfSeq
    <3>2. /\ SubSeq(send_scratch, gone + 1, Len(send_scratch)) \in Seq(Byte)
          /\ Len(SubSeq(send_scratch, gone + 1, Len(send_scratch)))
                = IF gone + 1 <= Len(send_scratch) THEN Len(send_scratch) - (gone + 1) + 1 ELSE 0
      BY <1>3, <3>1, SubSeqProperties, gone + 1 \in Int, Len(send_scratch) \in Int
    <3>3. Len(send_scratch) <= SendCapacity
      BY <1>1 DEF Typed
    <3> QED
      BY <1>2, <1>3, <2>3, <3>2, <3>3
  <2>6. stalled' \in 0..Patience
    BY <1>1, <1>2, <1>7 DEF Typed, pipe_sender_commit, Lesser
  <2>7. available' \in 0..MaxFlow /\ taken' \in 0..MaxFlow
    BY <1>2, <1>7 DEF pipe_sender_commit, EndTurn
  <2>8. pressure' \in [Receivers -> {Missing} \cup 0..MaxFlow]
    BY <1>7 DEF pipe_sender_commit
  <2>9. Typed'
    BY <1>1, <1>7, <2>1, <2>4, <2>5, <2>6, <2>7, <2>8 DEF Typed, pipe_sender_commit, receiver
  <2>10. Requested'
    BY <1>1, <1>7, <2>1, ReceiverNumbers DEF Requested, pipe_sender_commit, receiver, fill_level
  <2> QED
    BY <2>2, <2>9, <2>10 DEF Sound
<1>8. CASE SenderCut
  <2>1. turn' = 0 /\ turn' \in SenderTurn..NumReceivers /\ step' = "start"
    BY <1>6, <1>8 DEF SenderCut
  <2>2. send_scratch' \in Seq(Byte) /\ Len(send_scratch') <= SendCapacity
    BY <1>2, <1>8 DEF SenderCut
  <2>3. pressure' \in [Receivers -> {Missing} \cup 0..MaxFlow]
    BY <1>1, <1>8 DEF SenderCut, Typed
  <2>4. available' \in 0..MaxFlow /\ taken' \in 0..MaxFlow
    BY <1>2, <1>8 DEF SenderCut, EndTurn
  <2>5. Typed'
    BY <1>1, <1>8, <2>1, <2>2, <2>3, <2>4 DEF Typed, SenderCut, receiver
  <2>6. Batched'
    <3>1. (dataflow = <<>>)'
      BY <1>8 DEF SenderCut
    <3> QED
      BY <3>1, NothingIncoming, PTL
  <2>7. Requested'
    BY <1>1, <1>8, <2>1, ReceiverNumbers DEF Requested, SenderCut, receiver, fill_level
  <2> QED
    BY <2>5, <2>6, <2>7 DEF Sound
<1>9. ASSUME NEW r \in Receivers, turn = r, EndTurn
      PROVE  /\ turn' = r + 1 /\ turn' \in SenderTurn..NumReceivers /\ step' = "start"
             /\ available' = 0 /\ taken' = 0
  BY <1>2, <1>9, ReceiverNumbers DEF EndTurn
<1>10. ASSUME NEW r \in Receivers, pipe_receiver_prepare(r) PROVE Sound'
  <2> DEFINE n == Lesser(pipe_receiver_request_count(r), Len(dataflow))
             data == Incoming(n)
  <2>1. /\ n \in 0..Len(dataflow) /\ n \in 0..MaxFlow
        /\ scratch' \in [Receivers -> [0..Capacity - 1 -> Byte]]
        /\ scratch_avail' \in [Receivers -> 0..Capacity]
        /\ scratch_offset' \in [Receivers -> 0..Capacity]
        /\ scratch_avail'[r] = scratch_offset'[r] + fill_level(r) + Len(data) /\ Len(data) \in Nat
        /\ \A q \in Receivers \ {r} :
              scratch_avail'[q] = scratch_avail[q] /\ scratch_offset'[q] = scratch_offset[q]
    BY <1>10, PrepareEffect
  <2>2. /\ taken' = n /\ available' = last_requested[r] - Lesser(n, last_requested[r])
        /\ turn' = r /\ turn = r /\ step' = "prepared" /\ step = "start"
    BY <1>10 DEF pipe_receiver_prepare
  <2>3. fill_level(r) \in 0..Capacity /\ pipe_receiver_request_count(r) = Room(fill_level(r))
        /\ Room(fill_level(r)) \in 0..MaxFlow
    BY <1>1, Levels
  <2>4. last_requested[r] \in 0..MaxFlow /\ last_requested[r] <= Room(fill_level(r))
    BY <1>1, <2>2 DEF Typed, Requested
  <2>5. Len(dataflow) \in Nat
    BY <1>1, LenProperties DEF Batched
  <2>6. n = Lesser(Room(fill_level(r)), Len(dataflow))
    BY <2>3
  <2> HIDE DEF n, data
  <2>7. available' \in 0..MaxFlow /\ (available' = 0 \/ taken' = Len(dataflow))
    <3> DEFINE asked == last_requested[r]
               room == Room(fill_level(r))
               arrived == Len(dataflow)
    <3>1. /\ asked \in Nat /\ room \in Nat /\ arrived \in Nat /\ n \in Nat /\ MaxFlow \in Nat
          /\ asked <= MaxFlow /\ asked <= room
      BY <1>2, <2>1, <2>3, <2>4, <2>5
    <3>2. /\ n = IF room < arrived THEN room ELSE arrived
          /\ available' = asked - (IF n < asked THEN n ELSE asked)
      BY <2>2, <2>6, <3>1 DEF Lesser
    <3> HIDE DEF asked, room, arrived
    <3>3. CASE n < asked
      <4>1. available' = asked - n /\ n = arrived
        BY <3>1, <3>2, <3>3
      <4>2. available' \in 0..MaxFlow
        BY <3>1, <3>3, <4>1
      <4> QED
        BY <2>2, <4>1, <4>2 DEF arrived
    <3>4. CASE ~(n < asked)
      <4>1. available' = 0
        BY <3>1, <3>2, <3>4
      <4> QED
        BY <3>1, <4>1
    <3> QED
      BY <3>3, <3>4
  <2>8. \A q \in Receivers : scratch_offset'[q] <= scratch_avail'[q]
    <3>1. scratch_offset'[r] <= scratch_avail'[r]
      BY <2>1, <2>3
    <3> QED
      BY <1>1, <2>1, <3>1 DEF Typed
  <2>9. Typed'
    BY <1>1, <1>10, <2>1, <2>2, <2>7, <2>8 DEF Typed, pipe_receiver_prepare, sender, ducts
  <2>10. Batched'
    BY <1>1, <1>10 DEF Batched, pipe_receiver_prepare, ducts, Incoming
  <2>11. Requested'
    <3>1. last_requested' = last_requested /\ dataflow' = dataflow
      BY <1>10 DEF pipe_receiver_prepare, ducts
    <3>2. \A q \in Receivers \ {r} : fill_level(q)' = fill_level(q)
      BY <2>1 DEF fill_level
    <3> QED
      BY <1>1, <2>2, <2>7, <3>1, <3>2 DEF Requested
  <2> QED
    BY <2>9, <2>10, <2>11 DEF Sound
<1>11. ASSUME NEW r \in Receivers, pipe_receiver_read_byte(r) PROVE Sound'
  <2>1. /\ scratch_offset' \in [Receivers -> 0..Capacity] /\ scratch_offset'[r] <= scratch_avail[r]
        /\ consumed' \in [Receivers -> Byte]
        /\ \A q \in Receivers \ {r} : scratch_offset'[q] = scratch_offset[q]
    BY <1>1, <1>11, ReadEffect
  <2>2. turn' = r /\ turn = r /\ step' = "consumed" /\ step = "prepared"
    BY <1>11 DEF pipe_receiver_read_byte
  <2>3. \A q \in Receivers : scratch_offset'[q] <= scratch_avail[q]
    BY <1>1, <2>1 DEF Typed
  <2>4. Typed'
    BY <1>1, <1>11, <2>1, <2>2, <2>3 DEF Typed, pipe_receiver_read_byte, sender, ducts
  <2>5. Batched'
    BY <1>1, <1>11 DEF Batched, pipe_receiver_read_byte, ducts, Incoming
  <2>6. Requested'
    <3>1. /\ last_requested' = last_requested /\ dataflow' = dataflow /\ available' = available
          /\ taken' = taken
      BY <1>11 DEF pipe_receiver_read_byte, ducts
    <3>2. \A q \in Receivers \ {r} : fill_level(q)' = fill_level(q)
      BY <1>11, <2>1 DEF fill_level, pipe_receiver_read_byte
    <3>3. available = 0 \/ taken = Len(dataflow)
      BY <1>1, <2>2 DEF Requested
    <3> QED
      BY <1>1, <2>2, <3>1, <3>2, <3>3 DEF Requested
  <2> QED
    BY <2>4, <2>5, <2>6 DEF Sound
<1>12. ASSUME NEW r \in Receivers, pipe_receiver_commit(r) PROVE Sound'
  <2>1. /\ turn' = r + 1 /\ turn' \in SenderTurn..NumReceivers /\ step' = "start"
        /\ available' = 0 /\ taken' = 0 /\ turn = r
    BY <1>9, <1>12 DEF pipe_receiver_commit
  <2>2. /\ requested(r) \in 0..MaxFlow /\ requested(r) = Room(fill_level(r))
        /\ requested(r) <= Room(0)
    BY <1>1, Levels, RoomAtStart DEF requested
  <2>3. /\ last_requested' = [last_requested EXCEPT ![r] = requested(r)]
        /\ pressure' = [pressure EXCEPT ![r] = requested(r)]
    BY <1>12 DEF pipe_receiver_commit
  <2>4. /\ last_requested' \in [Receivers -> 0..MaxFlow]
        /\ pressure' \in [Receivers -> {Missing} \cup 0..MaxFlow]
        /\ \A q \in Receivers : last_requested'[q] = IF q = r THEN requested(r) ELSE last_requested[q]
    BY <1>1, <2>2, <2>3 DEF Typed
  <2>5. 0 \in 0..MaxFlow
    BY <1>2
  <2>6. Typed'
    BY <1>1, <1>12, <2>1, <2>4, <2>5 DEF Typed, pipe_receiver_commit, sender
  <2>7. Batched'
    BY <1>1, <1>12 DEF Batched, pipe_receiver_commit, Incoming
  <2>8. \A q \in Receivers : fill_level(q)' = fill_level(q)
    BY <1>12 DEF fill_level, pipe_receiver_commit
  <2>9. \A q \in Receivers : last_requested'[q] <= Room(fill_level(q)) /\ last_requested'[q] <= Room(0)
    <3>1. ASSUME NEW q \in Receivers, q # r PROVE last_requested[q] <= Room(fill_level(q))
      BY <1>1, <2>1, <3>1 DEF Requested
    <3>2. ASSUME NEW q \in Receivers PROVE last_requested[q] <= Room(0)
      BY <1>1 DEF Requested
    <3>3. requested(r) <= Room(fill_level(r))
      BY <2>2
    <3> QED
      BY <2>2, <2>4, <3>1, <3>2, <3>3
  <2>10. Requested'
    BY <2>1, <2>8, <2>9 DEF Requested
  <2> QED
    BY <2>6, <2>7, <2>10 DEF Sound
<1>13. ASSUME NEW r \in Receivers, ReceiverCut(r) PROVE Sound'
  <2>1. /\ turn' = r + 1 /\ turn' \in SenderTurn..NumReceivers /\ step' = "start"
        /\ available' = 0 /\ taken' = 0 /\ turn = r
    BY <1>9, <1>13 DEF ReceiverCut
  <2>2. /\ scratch_avail' = [scratch_avail EXCEPT ![r] = 0]
        /\ scratch_offset' = [scratch_offset EXCEPT ![r] = 0]
        /\ consumed' = [consumed EXCEPT ![r] = sent] /\ faulty' = faulty \cup {r}
        /\ last_requested' = last_requested
    BY <1>13 DEF ReceiverCut
  <2>3. /\ scratch_avail' \in [Receivers -> 0..Capacity] /\ scratch_offset' \in [Receivers -> 0..Capacity]
        /\ scratch_avail'[r] = 0 /\ scratch_offset'[r] = 0
        /\ \A q \in Receivers \ {r} : scratch_avail'[q] = scratch_avail[q]
                                     /\ scratch_offset'[q] = scratch_offset[q]
        /\ consumed' \in [Receivers -> Byte] /\ faulty' \subseteq Receivers
    BY <1>1, <1>2, <2>2 DEF Typed
  <2>4. 0 \in 0..MaxFlow /\ (\A q \in Receivers : scratch_offset'[q] <= scratch_avail'[q])
    <3>1. \A q \in Receivers : scratch_offset[q] <= scratch_avail[q]
      BY <1>1 DEF Typed
    <3>2. ASSUME NEW q \in Receivers PROVE scratch_offset'[q] <= scratch_avail'[q]
      BY <2>3, <3>1
    <3> QED
      BY <1>2, <3>2
  <2>5. Typed'
    BY <1>1, <1>13, <2>1, <2>3, <2>4 DEF Typed, ReceiverCut, sender, ducts
  <2>6. Batched'
    BY <1>1, <1>13 DEF Batched, ReceiverCut, ducts, Incoming
  <2>7. fill_level(r)' = 0 /\ (\A q \in Receivers \ {r} : fill_level(q)' = fill_level(q))
    BY <2>3 DEF fill_level
  <2>8. \A q \in Receivers : last_requested[q] <= Room(0)
                            /\ (q # r => last_requested[q] <= Room(fill_level(q)))
    BY <1>1, <2>1 DEF Requested
  <2>9. \A q \in Receivers : last_requested'[q] <= Room(fill_level(q)')
    BY <2>2, <2>7, <2>8
  <2>10. Requested'
    BY <2>1, <2>2, <2>8, <2>9 DEF Requested, Room
  <2> QED
    BY <2>5, <2>6, <2>10 DEF Sound
<1>14. CASE UNCHANGED vars
  <2>1. Typed'
    BY <1>1, <1>14 DEF Typed, vars, sender, receiver, ducts, clip
  <2>2. Batched'
    BY <1>1, <1>14 DEF Batched, vars, ducts, Incoming
  <2>3. Requested'
    BY <1>1, <1>14 DEF Requested, vars, receiver, ducts, clip, fill_level
  <2> QED
    BY <2>1, <2>2, <2>3 DEF Sound
<1> QED
  BY <1>4, <1>5, <1>7, <1>8, <1>10, <1>11, <1>12, <1>13, <1>14 DEF Next

LEMMA SoundInvariant == Spec => []Sound
  BY SoundInit, SoundStep, PTL DEF Spec

-----------------------------------------------------------------------------
(* What the receivers request, all of them have room for.                  *)

LEMMA ReceiversFinite ==
    /\ IsFiniteSet(Receivers)
    /\ \A S \in SUBSET Receivers : IsFiniteSet(S) /\ Cardinality(S) \in Nat
<1>1. IsFiniteSet(Receivers)
  BY ReceiverNumbers, FS_Interval, 0 \in Int, NumReceivers - 1 \in Int
<1> QED
  BY <1>1, FS_Subset, FS_CardinalityType

LEMMA MajorityLeads ==
    ASSUME Typed, Leading, HealthyMajority, allowed_flow # 0
    PROVE  \E r \in Receivers \ (faulty \cup lagging) : pressure[r] = allowed_flow
<1>1. Cardinality(Requesting(allowed_flow)) >= NumReceivers \div 2 + 1
  BY AllowedFlow
<1>2. /\ Requesting(allowed_flow) \subseteq Receivers /\ faulty \cup lagging \subseteq Receivers
      /\ \A r \in Requesting(allowed_flow) : pressure[r] = allowed_flow
  BY DEF Requesting, Typed
<1>3. ASSUME Requesting(allowed_flow) \subseteq faulty \cup lagging PROVE FALSE
  <2>1. IsFiniteSet(faulty \cup lagging) /\ Cardinality(faulty \cup lagging) \in Nat
        /\ Cardinality(Requesting(allowed_flow)) \in Nat
    BY <1>2, ReceiversFinite
  <2>2. Cardinality(Requesting(allowed_flow)) <= Cardinality(faulty \cup lagging)
    BY <1>3, <2>1, FS_Subset
  <2>3. Cardinality(faulty \cup lagging) <= NumReceivers \div 2
    BY <2>1, PipeAssumption DEF Leading, HealthyMajority
  <2>4. NumReceivers \div 2 \in Int
    BY PipeAssumption
  <2> QED
    BY <1>1, <2>1, <2>2, <2>3, <2>4
<1> QED
  BY <1>2, <1>3

LEMMA FlowFits ==
    ASSUME Typed, RoomForRequests, Leading, HealthyMajority, turn = SenderTurn, NEW r \in Receivers
    PROVE  allowed_flow <= Room(fill_level(r))
<1>1. fill_level(r) \in 0..Capacity /\ Room(fill_level(r)) \in 0..MaxFlow
  BY Levels
<1>2. CASE allowed_flow = 0
  BY <1>1, <1>2
<1>3. CASE allowed_flow # 0
  <2>1. PICK m \in Receivers \ (faulty \cup lagging) : pressure[m] = allowed_flow
    BY <1>3, MajorityLeads
  <2>2. fill_level(r) <= fill_level(m)
    BY <2>1 DEF Leading, Final
  <2>3. fill_level(m) \in 0..Capacity /\ Room(fill_level(m)) \in 0..MaxFlow
    BY Levels
  <2>4. Room(fill_level(m)) <= Room(fill_level(r))
    BY <1>1, <2>2, <2>3, RoomMonotone
  <2>5. turn # m
    BY ReceiverNumbers
  <2>6. allowed_flow <= Room(fill_level(m))
    BY <2>1, <2>5 DEF RoomForRequests
  <2>7. allowed_flow \in 0..MaxFlow
    BY AllowedFlow
  <2> QED
    BY <1>1, <2>3, <2>4, <2>6, <2>7
<1> QED
  BY <1>2, <1>3

-----------------------------------------------------------------------------
(* What is left after the consumer has read.                               *)

LEMMA LeftBounds ==
    ASSUME Typed, NEW f \in Nat
    PROVE  Left(f) \in 0..f /\ (\A g \in Nat : f <= g => Left(f) <= Left(g))
<1>1. demand[1] \in Nat /\ demand[2] \in {0, 1}
  BY DEF Typed
<1>2. Left(f) \in 0..f
  BY <1>1 DEF Left, Lesser
<1>3. ASSUME NEW g \in Nat, f <= g PROVE Left(f) <= Left(g)
  BY <1>1, <1>3 DEF Left, Lesser
<1> QED
  BY <1>2, <1>3

LEMMA FinalBounds ==
    ASSUME Sound, NEW r \in Receivers
    PROVE  Final(r) \in Nat /\ fill_level(r) \in Nat /\ Len(Arriving) \in Nat
<1>1. Typed /\ fill_level(r) \in Nat
  BY Levels DEF Sound
<1>2. Len(Arriving) \in Nat
  <2>1. Len(dataflow) \in 0..Len(dataflow)
    BY LenProperties DEF Sound, Batched
  <2> QED
    BY <2>1, LenProperties DEF Sound, Batched, Arriving
<1>3. Left(fill_level(r)) \in Nat /\ Left(fill_level(r) + Len(Arriving)) \in Nat
  BY <1>1, <1>2, LeftBounds
<1> QED
  BY <1>1, <1>2, <1>3 DEF Final

(* While r has its turn, those that wait are the ones after it; they are   *)
(* still when it ends.                                                     *)
LEMMA Turns ==
    ASSUME NEW r \in Receivers, turn = r, turn' \in {r, r + 1}, turn' = r + 1 => step' = "start",
           turn' = r => step' # "start"
    PROVE  /\ turn \in Receivers
           /\ \A q \in Receivers : Waiting(q)' <=> r < q
           /\ \A q \in Receivers \ {r} : Waiting(q) <=> r < q
           /\ Waiting(r) <=> step = "start"
           /\ turn' \notin Receivers => \A q \in Receivers : ~(r < q)
           /\ SenderTurn # turn /\ SenderTurn # turn'
<1>1. r \in Int /\ r >= 0 /\ r < NumReceivers /\ NumReceivers \in Nat /\ Receivers = 0..NumReceivers - 1
      /\ (\A q \in Receivers : q \in Int /\ q >= 0 /\ q < NumReceivers) /\ SenderTurn = -1
  BY ReceiverNumbers
<1>2. ASSUME NEW q \in Receivers PROVE Waiting(q)' <=> r < q
  <2>1. CASE turn' = r
    BY <1>1, <2>1 DEF Waiting
  <2>2. CASE turn' = r + 1
    BY <1>1, <2>2 DEF Waiting
  <2> QED
    BY <2>1, <2>2
<1>3. ASSUME NEW q \in Receivers, q # r PROVE Waiting(q) <=> r < q
  BY <1>1, <1>3 DEF Waiting
<1>4. Waiting(r) <=> step = "start"
  BY <1>1 DEF Waiting
<1>5. turn' \notin Receivers => \A q \in Receivers : ~(r < q)
  BY <1>1
<1> QED
  BY <1>1, <1>2, <1>3, <1>4, <1>5

(* A receiver that is not cut takes all that arrives.                      *)
LEMMA PrepareTakesAll ==
    ASSUME Sound, RoomForBatch, NEW r \in Receivers, pipe_receiver_prepare(r)
    PROVE  /\ taken' = Len(dataflow) /\ fill_level(r)' = fill_level(r) + Len(Arriving)
           /\ \A i \in 0..fill_level(r) - 1 :
                  scratch'[r][scratch_offset'[r] + i] = scratch[r][scratch_offset[r] + i]
           /\ \A j \in 1..Len(Arriving) :
                  scratch'[r][scratch_offset'[r] + fill_level(r) + j - 1] = Arriving[j]
           /\ \A q \in Receivers \ {r} :
                  /\ fill_level(q)' = fill_level(q)
                  /\ scratch'[q] = scratch[q] /\ scratch_offset'[q] = scratch_offset[q]
           /\ dataflow' = dataflow /\ Arriving' = Arriving
           /\ turn = r /\ turn' = r /\ step = "start" /\ step' = "prepared"
<1> DEFINE n == Lesser(pipe_receiver_request_count(r), Len(dataflow))
           data == Incoming(n)
<1>1. /\ turn = r /\ turn' = r /\ step = "start" /\ step' = "prepared" /\ taken' = n
      /\ dataflow' = dataflow
  BY DEF pipe_receiver_prepare, ducts
<1>2. /\ Len(data) \in Nat
      /\ scratch_avail'[r] = scratch_offset'[r] + fill_level(r) + Len(data)
      /\ scratch_offset'[r] \in 0..Capacity
      /\ \A i \in 0..fill_level(r) - 1 :
             scratch'[r][scratch_offset'[r] + i] = scratch[r][scratch_offset[r] + i]
      /\ \A j \in 1..Len(data) :
             scratch'[r][scratch_offset'[r] + fill_level(r) + j - 1] = data[j]
      /\ \A q \in Receivers \ {r} :
             /\ scratch'[q] = scratch[q] /\ scratch_avail'[q] = scratch_avail[q]
             /\ scratch_offset'[q] = scratch_offset[q]
  BY PrepareEffect
<1>3. n = Len(dataflow)
  <2>1. Typed /\ Len(dataflow) \in Nat
    BY LenProperties DEF Sound, Batched
  <2>2. /\ pipe_receiver_request_count(r) = Room(fill_level(r)) /\ Room(fill_level(r)) \in Nat
    BY <2>1, Levels
  <2>3. Len(dataflow) <= Room(fill_level(r))
    BY <1>1 DEF RoomForBatch, Waiting
  <2> QED
    BY <2>1, <2>2, <2>3 DEF Lesser
<1>4. data = Arriving
  BY <1>3 DEF Arriving
<1>5. fill_level(r) \in Nat
  BY Levels DEF Sound
<1> HIDE DEF n, data
<1>6. fill_level(r)' = fill_level(r) + Len(data)
  <2>1. scratch_offset'[r] \in Int
    BY <1>2
  <2> QED
    BY <1>2, <1>5, <2>1 DEF fill_level
<1>7. \A q \in Receivers \ {r} : fill_level(q)' = fill_level(q)
  BY <1>2 DEF fill_level
<1>8. Arriving' = Arriving
  BY <1>1 DEF Arriving, Incoming
<1> QED
  BY <1>1, <1>2, <1>3, <1>4, <1>6, <1>7, <1>8

(* The consumer leaves what it does not read.                              *)
LEMMA ReadLeaves ==
    ASSUME Typed, NEW r \in Receivers, pipe_receiver_read_byte(r)
    PROVE  /\ fill_level(r)' = fill_level(r) - Reading(r) /\ fill_level(r)' = Left(fill_level(r))
           /\ \A q \in Receivers \ {r} : fill_level(q)' = fill_level(q) /\ consumed'[q] = consumed[q]
           /\ Arriving' = Arriving
           /\ turn = r /\ turn' = r /\ step = "prepared" /\ step' = "consumed"
<1>1. turn = r /\ turn' = r /\ step = "prepared" /\ step' = "consumed" /\ dataflow' = dataflow
      /\ scratch_avail' = scratch_avail
  BY DEF pipe_receiver_read_byte, ducts
<1>2. /\ Reading(r) \in 0..fill_level(r) /\ scratch_offset'[r] = scratch_offset[r] + Reading(r)
      /\ \A q \in Receivers \ {r} : scratch_offset'[q] = scratch_offset[q]
                                   /\ consumed'[q] = consumed[q]
  BY ReadEffect
<1>3. /\ fill_level(r) \in 0..Capacity /\ scratch_offset[r] \in 0..Capacity
      /\ scratch_avail[r] \in 0..Capacity
      /\ scratch_avail[r] = scratch_offset[r] + fill_level(r)
  BY Levels
<1>4. fill_level(r)' = fill_level(r) - Reading(r)
  <2>1. fill_level(r)' = scratch_avail[r] - (scratch_offset[r] + Reading(r))
    BY <1>1, <1>2 DEF fill_level
  <2> QED
    BY <1>2, <1>3, <2>1
<1>5. Left(fill_level(r)) = fill_level(r) - Reading(r)
  BY DEF Left, Reading
<1>6. \A q \in Receivers \ {r} : fill_level(q)' = fill_level(q)
  BY <1>1, <1>2 DEF fill_level
<1>7. Arriving' = Arriving
  BY <1>1 DEF Arriving, Incoming
<1> QED
  BY <1>1, <1>2, <1>4, <1>5, <1>6, <1>7

(* What ends the turn of a receiver.                                       *)
LEMMA TurnEnds ==
    ASSUME Typed, NEW r \in Receivers, pipe_receiver_commit(r) \/ ReceiverCut(r)
    PROVE  /\ turn = r /\ turn' = r + 1 /\ step' = "start" /\ Arriving' = Arriving
           /\ \A q \in Receivers \ {r} : fill_level(q)' = fill_level(q) /\ consumed'[q] = consumed[q]
           /\ pipe_receiver_commit(r) =>
                  /\ fill_level(r)' = fill_level(r) /\ consumed' = consumed /\ step = "consumed"
           /\ ReceiverCut(r) => fill_level(r)' = 0 /\ consumed'[r] = sent
<1>1. turn = r /\ turn' = r + 1 /\ step' = "start" /\ dataflow' = dataflow
  BY DEF pipe_receiver_commit, ReceiverCut, EndTurn, ducts
<1>2. Arriving' = Arriving
  BY <1>1 DEF Arriving, Incoming
<1>3. ASSUME ReceiverCut(r)
      PROVE  /\ fill_level(r)' = 0 /\ consumed'[r] = sent
             /\ \A q \in Receivers \ {r} : fill_level(q)' = fill_level(q) /\ consumed'[q] = consumed[q]
  <2>1. /\ scratch_avail' = [scratch_avail EXCEPT ![r] = 0]
        /\ scratch_offset' = [scratch_offset EXCEPT ![r] = 0]
        /\ consumed' = [consumed EXCEPT ![r] = sent]
    BY <1>3 DEF ReceiverCut
  <2>2. /\ scratch_avail'[r] = 0 /\ scratch_offset'[r] = 0 /\ consumed'[r] = sent
        /\ \A q \in Receivers \ {r} : /\ scratch_avail'[q] = scratch_avail[q]
                                     /\ scratch_offset'[q] = scratch_offset[q]
                                     /\ consumed'[q] = consumed[q]
    BY <2>1 DEF Typed
  <2> QED
    BY <2>2 DEF fill_level
<1>4. ASSUME pipe_receiver_commit(r)
      PROVE  /\ \A q \in Receivers : fill_level(q)' = fill_level(q)
             /\ consumed' = consumed /\ step = "consumed"
  BY <1>4 DEF pipe_receiver_commit, fill_level
<1>5. \A q \in Receivers \ {r} : fill_level(q)' = fill_level(q) /\ consumed'[q] = consumed[q]
  BY <1>3, <1>4
<1> QED
  BY <1>1, <1>2, <1>3, <1>4, <1>5

-----------------------------------------------------------------------------
(* The second part of the invariant: the bytes are those of the stream.    *)

LEMMA NumberedStep == Sound /\ Numbered /\ [Next]_vars => Numbered'
<1> SUFFICES ASSUME Sound, Numbered, [Next]_vars PROVE Numbered'
  OBVIOUS
<1>1. Typed /\ Bytes \in Nat \ {0} /\ Byte = 0..Bytes - 1
  BY PipeAssumption DEF Sound, Byte
<1>2. sent \in Int /\ Len(send_scratch) \in Nat /\ send_scratch \in Seq(Byte)
  BY <1>1, LenProperties DEF Typed
<1>3. CASE pipe_sender_write_byte
  <2> DEFINE byte == (sent + Len(send_scratch)) % Bytes
  <2>1. byte \in Byte
    BY <1>1, <1>2, Division, sent + Len(send_scratch) \in Int
  <2>2. send_scratch' = Append(send_scratch, byte) /\ sent' = sent
    BY <1>3 DEF pipe_sender_write_byte
  <2>3. /\ Len(send_scratch') = Len(send_scratch) + 1
        /\ \A i \in 1..Len(send_scratch) : send_scratch'[i] = send_scratch[i]
        /\ send_scratch'[Len(send_scratch) + 1] = byte
    <3> HIDE DEF byte
    <3> QED
      BY <1>2, <2>1, <2>2, AppendProperties
  <2>4. ASSUME NEW i \in 1..Len(send_scratch') PROVE send_scratch'[i] = (sent + i - 1) % Bytes
    <3>1. CASE i \in 1..Len(send_scratch)
      BY <2>3, <3>1 DEF Numbered
    <3>2. CASE i = Len(send_scratch) + 1
      <4>1. sent + i - 1 = sent + Len(send_scratch)
        BY <1>2, <3>2
      <4> QED
        BY <2>3, <3>2, <4>1
    <3> QED
      BY <1>2, <2>3, <3>1, <3>2
  <2> QED
    BY <2>2, <2>4 DEF Numbered
<1>4. CASE pipe_sender_commit
  <2>1. PICK gone \in 0..Len(send_scratch) :
            /\ send_scratch' = SubSeq(send_scratch, gone + 1, Len(send_scratch))
            /\ sent' = (sent + gone) % Bytes
    BY <1>1, <1>4, CommitEffect
  <2>2. /\ Len(send_scratch') = Len(send_scratch) - gone
        /\ \A i \in 1..Len(send_scratch) - gone : send_scratch'[i] = send_scratch[gone + i]
    <3>1. \A i \in gone + 1..Len(send_scratch) : send_scratch[i] \in Byte
      BY <1>2, ElementOfSeq
    <3> QED
      BY <1>2, <2>1, <3>1
  <2>3. ASSUME NEW i \in 1..Len(send_scratch') PROVE send_scratch'[i] = (sent' + i - 1) % Bytes
    <3>1. /\ i \in Int /\ i - 1 \in Int /\ gone \in Int /\ gone + i \in 1..Len(send_scratch)
          /\ i \in 1..Len(send_scratch) - gone
      BY <1>2, <2>2
    <3>2. send_scratch'[i] = (sent + (gone + i) - 1) % Bytes
      BY <2>2, <3>1 DEF Numbered
    <3>3. (((sent + gone) % Bytes) + (i - 1)) % Bytes = ((sent + gone) + (i - 1)) % Bytes
      BY <1>1, <1>2, <3>1, RemainderOfSum, sent + gone \in Int
    <3>4. (sent + gone) + (i - 1) = sent + (gone + i) - 1
      BY <1>2, <3>1
    <3>5. sent' \in Int
      BY <1>1, <1>2, <2>1, <3>1, Division, sent + gone \in Int
    <3>6. sent' + i - 1 = sent' + (i - 1)
      BY <3>1, <3>5
    <3> QED
      BY <2>1, <3>2, <3>3, <3>4, <3>6
  <2> QED
    BY <2>3 DEF Numbered
<1>5. CASE SenderCut
  <2>1. send_scratch' = <<>>
    BY <1>5 DEF SenderCut
  <2> QED
    BY <2>1 DEF Numbered
<1>6. ASSUME UNCHANGED <<send_scratch, sent>> PROVE Numbered'
  BY <1>6 DEF Numbered
<1>7. CASE NewEpoch \/ UNCHANGED vars
  BY <1>6, <1>7 DEF NewEpoch, vars, sender
<1>8. CASE \E r \in Receivers : \/ pipe_receiver_prepare(r) \/ pipe_receiver_read_byte(r)
                                \/ pipe_receiver_commit(r) \/ ReceiverCut(r)
  BY <1>6, <1>8 DEF pipe_receiver_prepare, pipe_receiver_read_byte, pipe_receiver_commit,
                    ReceiverCut, sender
<1> QED
  BY <1>3, <1>4, <1>5, <1>7, <1>8 DEF Next

(* In the turn of r, the others stay up to date.                           *)
LEMMA OthersUpToDate ==
    ASSUME UpToDate, NEW r \in Receivers, turn = r, turn' \in {r, r + 1},
           turn' = r + 1 => step' = "start", turn' = r => step' # "start",
           Arriving' = Arriving, sent' = sent,
           \A q \in Receivers \ {r} : fill_level(q)' = fill_level(q) /\ consumed'[q] = consumed[q],
           Unread(r)' % Bytes = sent
    PROVE  UpToDate'
<1>1. /\ turn \in Receivers
      /\ \A q \in Receivers : Waiting(q)' <=> r < q
      /\ \A q \in Receivers \ {r} : Waiting(q) <=> r < q
      /\ turn' \notin Receivers => \A q \in Receivers : ~(r < q)
  BY Turns
<1>2. ASSUME NEW q \in Receivers
      PROVE  (IF turn \in Receivers /\ Waiting(q) THEN Continues(q) ELSE Unread(q) % Bytes = sent)'
  <2>1. CASE q = r
    <3>1. ~Waiting(r)'
      BY <1>1, ReceiverNumbers
    <3> QED
      BY <2>1, <3>1
  <2>2. CASE q # r
    <3>1. Unread(q)' = Unread(q)
      BY <2>2 DEF Unread
    <3>2. CASE r < q
      <4>1. Continues(q)
        BY <1>1, <2>2, <3>2 DEF UpToDate
      <4>2. Continues(q)'
        BY <3>1, <4>1 DEF Continues
      <4>3. turn' \in Receivers /\ Waiting(q)'
        BY <1>1, <3>2
      <4> QED
        BY <4>2, <4>3
    <3>3. CASE ~(r < q)
      <4>1. Unread(q) % Bytes = sent
        BY <1>1, <2>2, <3>3 DEF UpToDate
      <4>2. ~Waiting(q)'
        BY <1>1, <3>3
      <4> QED
        BY <3>1, <4>1, <4>2
    <3> QED
      BY <3>2, <3>3
  <2> QED
    BY <2>1, <2>2
<1> QED
  BY <1>2 DEF UpToDate
(* When the sender is done, what it sent follows what each has not read.   *)
LEMMA SenderContinues ==
    ASSUME Sound, Sound', Numbered, UpToDate, turn = SenderTurn, NEW r \in Receivers,
           NEW gone \in 0..Len(send_scratch),
           Arriving' = SubSeq(send_scratch, 1, gone), sent' = (sent + gone) % Bytes,
           Unread(r)' = Unread(r)
    PROVE  Continues(r)'
<1>1. Typed /\ Bytes \in Nat \ {0} /\ Byte = 0..Bytes - 1
  BY PipeAssumption DEF Sound, Byte
<1>2. sent \in Int /\ Len(send_scratch) \in Nat /\ send_scratch \in Seq(Byte) /\ gone \in Nat
  BY <1>1, LenProperties DEF Typed
<1>3. Unread(r) \in Int /\ Unread(r) % Bytes = sent
  <2>1. consumed \in [Receivers -> Byte]
    BY <1>1 DEF Typed
  <2>2. consumed[r] \in Int
    BY <1>1, <2>1
  <2>3. fill_level(r) \in 0..Capacity /\ Capacity \in Nat
    BY <1>1, Levels, PipeAssumption
  <2> QED
    BY <2>2, <2>3, ReceiverNumbers DEF UpToDate, Unread
<1>4. Len(Arriving') = gone /\ (\A j \in 1..gone : Arriving'[j] = send_scratch[j])
  <2>1. \A i \in 1..gone : send_scratch[i] \in Byte
    BY <1>2, ElementOfSeq
  <2>2. /\ Len(SubSeq(send_scratch, 1, gone)) = gone
        /\ \A j \in 1..gone : SubSeq(send_scratch, 1, gone)[j] = send_scratch[j]
    BY <1>2, <2>1
  <2> QED
    BY <2>2
<1> DEFINE u == Unread(r)
<1> HIDE DEF u
<1>5. u \in Int /\ u % Bytes = sent /\ Unread(r)' = u
  BY <1>3 DEF u
<1>6. ASSUME NEW j \in 1..gone PROVE Arriving'[j] = (u + j - 1) % Bytes
  <2>1. j \in Int /\ j - 1 \in Int /\ j \in 1..Len(send_scratch)
    BY <1>2
  <2>2. Arriving'[j] = (sent + j - 1) % Bytes
    BY <1>4, <2>1 DEF Numbered
  <2>3. ((u % Bytes) + (j - 1)) % Bytes = (u + (j - 1)) % Bytes
    BY <1>1, <1>5, <2>1, RemainderOfSum
  <2>4. sent + j - 1 = sent + (j - 1) /\ u + j - 1 = u + (j - 1)
    BY <1>2, <1>5, <2>1
  <2> QED
    BY <1>5, <2>2, <2>3, <2>4
<1>7. (u + gone) % Bytes = sent'
  <2>1. ((u % Bytes) + gone) % Bytes = (u + gone) % Bytes
    BY <1>1, <1>2, <1>5, RemainderOfSum, gone \in Int
  <2> QED
    BY <1>5, <2>1
<1> QED
  BY <1>4, <1>5, <1>6, <1>7 DEF Continues

LEMMA UpToDateStep ==
    Sound /\ Sound' /\ Numbered /\ UpToDate /\ RoomForBatch /\ [Next]_vars => UpToDate'
<1> SUFFICES ASSUME Sound, Sound', Numbered, UpToDate, RoomForBatch, [Next]_vars PROVE UpToDate'
  OBVIOUS
<1>1. Typed /\ Bytes \in Nat \ {0} /\ Byte = 0..Bytes - 1
  BY PipeAssumption DEF Sound, Byte
<1>2. /\ sent \in 0..Bytes - 1 /\ Len(send_scratch) \in Nat
      /\ \A r \in Receivers : consumed[r] \in Int /\ fill_level(r) \in Nat /\ Unread(r) \in Int
  <2>1. ASSUME NEW r \in Receivers PROVE consumed[r] \in Int /\ fill_level(r) \in Nat
    BY <1>1, Levels DEF Typed
  <2> QED
    BY <1>1, <2>1, LenProperties DEF Typed, Unread
<1>3. sent % Bytes = sent
  <2>1. sent \in Int /\ sent = Bytes * 0 + sent
    BY <1>1, <1>2
  <2> QED
    BY <1>1, <1>2, <2>1, Remainder
<1>4. CASE NewEpoch
  <2>1. turn \notin Receivers /\ turn' \notin Receivers
    BY <1>4, ReceiverNumbers DEF NewEpoch
  <2>2. \A r \in Receivers : Unread(r)' = Unread(r)
    BY <1>4 DEF NewEpoch, receiver, Unread, fill_level
  <2>3. sent' = sent
    BY <1>4 DEF NewEpoch
  <2> QED
    BY <2>1, <2>2, <2>3 DEF UpToDate
<1>5. CASE pipe_sender_write_byte
  <2>1. turn \notin Receivers /\ turn' = turn
    BY <1>5, ReceiverNumbers DEF pipe_sender_write_byte, clip
  <2>2. \A r \in Receivers : Unread(r)' = Unread(r)
    BY <1>5 DEF pipe_sender_write_byte, receiver, Unread, fill_level
  <2>3. sent' = sent
    BY <1>5 DEF pipe_sender_write_byte
  <2> QED
    BY <2>1, <2>2, <2>3 DEF UpToDate
<1>6. ASSUME EndTurn, turn = SenderTurn, \A r \in Receivers : Continues(r)' PROVE UpToDate'
  <2>1. turn' \in Receivers /\ (\A r \in Receivers : Waiting(r)')
    BY <1>6, ReceiverNumbers DEF EndTurn, Waiting
  <2> QED
    BY <1>6, <2>1 DEF UpToDate
<1>7. CASE pipe_sender_commit
  <2>1. PICK gone \in 0..Len(send_scratch) :
            Arriving' = SubSeq(send_scratch, 1, gone) /\ sent' = (sent + gone) % Bytes
    BY <1>1, <1>7, CommitEffect
  <2>2. EndTurn /\ turn = SenderTurn
    BY <1>7 DEF pipe_sender_commit
  <2>3. \A r \in Receivers : Unread(r)' = Unread(r)
    BY <1>7 DEF pipe_sender_commit, receiver, Unread, fill_level
  <2>4. \A r \in Receivers : Continues(r)'
    BY <2>1, <2>2, <2>3, SenderContinues
  <2> QED
    BY <1>6, <2>2, <2>4
<1>8. CASE SenderCut
  <2>1. 0 \in 0..Len(send_scratch)
    BY <1>2
  <2>2. Arriving' = SubSeq(send_scratch, 1, 0)
    <3>1. dataflow' = <<>>
      BY <1>8 DEF SenderCut
    <3>2. SubSeq(<<>>, 1, 0) = <<>> /\ FlattenSeq(<<>>) = <<>> /\ SubSeq(send_scratch, 1, 0) = <<>>
      BY SubSeqEmpty DEF FlattenSeq
    <3>3. Arriving' = FlattenSeq(SubSeq(dataflow', 1, Len(dataflow')))
      BY DEF Arriving, Incoming
    <3> QED
      BY <3>1, <3>2, <3>3
  <2>3. sent' = (sent + 0) % Bytes
    <3>1. sent' = sent /\ sent + 0 = sent
      BY <1>2, <1>8 DEF SenderCut
    <3> QED
      BY <1>3, <3>1
  <2>4. EndTurn /\ turn = SenderTurn
    BY <1>8 DEF SenderCut
  <2>5. \A r \in Receivers : Unread(r)' = Unread(r)
    BY <1>8 DEF SenderCut, receiver, Unread, fill_level
  <2>6. \A r \in Receivers : Continues(r)'
    BY <2>1, <2>2, <2>3, <2>4, <2>5, SenderContinues
  <2> QED
    BY <1>6, <2>4, <2>6
<1>9. ASSUME NEW r \in Receivers, pipe_receiver_prepare(r) PROVE UpToDate'
  <2>1. /\ fill_level(r)' = fill_level(r) + Len(Arriving) /\ Arriving' = Arriving
        /\ \A q \in Receivers \ {r} : fill_level(q)' = fill_level(q)
        /\ turn = r /\ turn' = r /\ step = "start" /\ step' = "prepared"
    BY <1>9, PrepareTakesAll
  <2>2. consumed' = consumed /\ sent' = sent
    BY <1>9 DEF pipe_receiver_prepare
  <2>3. (Unread(r) + Len(Arriving)) % Bytes = sent
    BY <2>1 DEF UpToDate, Waiting, Continues
  <2>4. Unread(r)' = Unread(r) + Len(Arriving)
    <3>1. Len(Arriving) \in Nat
      BY FinalBounds
    <3> QED
      BY <1>2, <2>1, <2>2, <3>1 DEF Unread
  <2>5. turn' # r + 1
    BY <2>1, ReceiverNumbers
  <2> QED
    BY <2>1, <2>2, <2>3, <2>4, <2>5, OthersUpToDate
<1>10. ASSUME NEW r \in Receivers, pipe_receiver_read_byte(r) PROVE UpToDate'
  <2>1. /\ fill_level(r)' = fill_level(r) - Reading(r) /\ Arriving' = Arriving
        /\ \A q \in Receivers \ {r} : fill_level(q)' = fill_level(q) /\ consumed'[q] = consumed[q]
        /\ turn = r /\ turn' = r /\ step = "prepared" /\ step' = "consumed"
    BY <1>1, <1>10, ReadLeaves
  <2>2. consumed'[r] = (consumed[r] + Reading(r)) % Bytes /\ Reading(r) \in 0..fill_level(r)
    BY <1>1, <1>10, ReadEffect
  <2>3. sent' = sent
    BY <1>10 DEF pipe_receiver_read_byte
  <2>4. Unread(r) % Bytes = sent
    BY <2>1, ReceiverNumbers DEF UpToDate, Waiting
  <2>5. /\ Reading(r) \in Int /\ consumed[r] \in Int /\ fill_level(r) \in Int
        /\ consumed[r] + Reading(r) \in Int /\ fill_level(r) - Reading(r) \in Int
        /\ (consumed[r] + Reading(r)) + (fill_level(r) - Reading(r)) = Unread(r)
    BY <1>2, <2>2 DEF Unread
  <2>6. (((consumed[r] + Reading(r)) % Bytes) + (fill_level(r) - Reading(r))) % Bytes = sent
    <3>1. (((consumed[r] + Reading(r)) % Bytes) + (fill_level(r) - Reading(r))) % Bytes
            = ((consumed[r] + Reading(r)) + (fill_level(r) - Reading(r))) % Bytes
      BY <1>1, <2>5, RemainderOfSum
    <3> QED
      BY <2>4, <2>5, <3>1
  <2>7. Unread(r)' % Bytes = sent
    BY <2>1, <2>2, <2>6 DEF Unread
  <2>8. turn' # r + 1
    BY <2>1, ReceiverNumbers
  <2> QED
    BY <2>1, <2>3, <2>7, <2>8, OthersUpToDate
<1>11. ASSUME NEW r \in Receivers, pipe_receiver_commit(r) PROVE UpToDate'
  <2>1. /\ Arriving' = Arriving /\ fill_level(r)' = fill_level(r) /\ consumed' = consumed
        /\ \A q \in Receivers \ {r} : fill_level(q)' = fill_level(q) /\ consumed'[q] = consumed[q]
        /\ turn = r /\ turn' = r + 1 /\ step' = "start" /\ step = "consumed"
    BY <1>1, <1>11, TurnEnds
  <2>2. sent' = sent
    BY <1>11 DEF pipe_receiver_commit
  <2>3. Unread(r)' = Unread(r) /\ Unread(r) % Bytes = sent
    BY <2>1, ReceiverNumbers DEF UpToDate, Waiting, Unread
  <2>4. turn' # r
    BY <2>1, ReceiverNumbers
  <2> QED
    BY <2>1, <2>2, <2>3, <2>4, OthersUpToDate
<1>12. ASSUME NEW r \in Receivers, ReceiverCut(r) PROVE UpToDate'
  <2>1. /\ Arriving' = Arriving /\ fill_level(r)' = 0 /\ consumed'[r] = sent
        /\ \A q \in Receivers \ {r} : fill_level(q)' = fill_level(q) /\ consumed'[q] = consumed[q]
        /\ turn = r /\ turn' = r + 1 /\ step' = "start"
    BY <1>1, <1>12, TurnEnds
  <2>2. sent' = sent
    BY <1>12 DEF ReceiverCut
  <2>3. Unread(r)' = sent
    BY <1>2, <2>1 DEF Unread
  <2>4. turn' # r
    BY <2>1, ReceiverNumbers
  <2> QED
    BY <1>3, <2>1, <2>2, <2>3, <2>4, OthersUpToDate
<1>13. CASE UNCHANGED vars
  <2>1. /\ turn' = turn /\ step' = step /\ sent' = sent /\ Arriving' = Arriving
        /\ \A r \in Receivers : Unread(r)' = Unread(r)
    BY <1>13 DEF vars, clip, ducts, receiver, Arriving, Incoming, Unread, fill_level
  <2>2. \A r \in Receivers : (Waiting(r)' <=> Waiting(r)) /\ (Continues(r)' <=> Continues(r))
    BY <2>1 DEF Waiting, Continues
  <2> QED
    BY <2>1, <2>2 DEF UpToDate
<1> QED
  BY <1>4, <1>5, <1>7, <1>8, <1>9, <1>10, <1>11, <1>12, <1>13 DEF Next

LEMMA ContiguousStep ==
    Sound /\ UpToDate /\ Contiguous /\ RoomForBatch /\ [Next]_vars => Contiguous'
<1> SUFFICES ASSUME Sound, UpToDate, Contiguous, RoomForBatch, [Next]_vars PROVE Contiguous'
  OBVIOUS
<1>1. Typed /\ Bytes \in Nat \ {0}
  BY PipeAssumption DEF Sound
<1>2. ASSUME NEW r \in Receivers
      PROVE  /\ fill_level(r) \in Nat /\ scratch_offset[r] \in Nat /\ consumed[r] \in Int
             /\ scratch_avail[r] \in Nat
  <2>1. fill_level(r) \in 0..Capacity /\ scratch_offset[r] \in 0..Capacity /\ scratch_avail[r] \in 0..Capacity
    BY <1>1, Levels
  <2>2. Capacity \in Nat /\ Byte \subseteq Int
    BY PipeAssumption DEF Byte
  <2>3. consumed[r] \in Byte
    BY <1>1 DEF Typed
  <2>4. consumed[r] \in Int
    BY <2>2, <2>3, Zenon
  <2>5. fill_level(r) \in Nat /\ scratch_offset[r] \in Nat /\ scratch_avail[r] \in Nat
    <3>1. Capacity \in Nat
      BY <2>2
    <3> QED
      BY <2>1, <3>1
  <2> QED
    BY <2>4, <2>5, Zenon
<1> DEFINE Holds(r) == \A i \in 0..fill_level(r) - 1 :
                           scratch[r][scratch_offset[r] + i] = (consumed[r] + i) % Bytes
<1>3. \A r \in Receivers : Holds(r)
  BY DEF Contiguous
<1>4. (\A r \in Receivers : Holds(r)') => Contiguous'
  BY DEF Contiguous
<1>5. ASSUME NEW q \in Receivers, scratch'[q] = scratch[q], scratch_offset'[q] = scratch_offset[q],
             fill_level(q)' = fill_level(q), consumed'[q] = consumed[q]
      PROVE  Holds(q)'
  BY <1>3, <1>5
<1>6. ASSUME UNCHANGED <<scratch, scratch_offset, scratch_avail, consumed>> PROVE Contiguous'
  BY <1>6 DEF Contiguous, fill_level
<1>7. CASE NewEpoch \/ pipe_sender_write_byte \/ pipe_sender_commit \/ SenderCut \/ UNCHANGED vars
  BY <1>6, <1>7 DEF NewEpoch, pipe_sender_write_byte, pipe_sender_commit, SenderCut, vars, receiver
<1>8. ASSUME NEW r \in Receivers, pipe_receiver_commit(r) PROVE Contiguous'
  BY <1>6, <1>8 DEF pipe_receiver_commit
<1>9. ASSUME NEW r \in Receivers, pipe_receiver_prepare(r) PROVE Contiguous'
  <2>1. /\ fill_level(r)' = fill_level(r) + Len(Arriving)
        /\ \A i \in 0..fill_level(r) - 1 :
               scratch'[r][scratch_offset'[r] + i] = scratch[r][scratch_offset[r] + i]
        /\ \A j \in 1..Len(Arriving) :
               scratch'[r][scratch_offset'[r] + fill_level(r) + j - 1] = Arriving[j]
        /\ \A q \in Receivers \ {r} :
               /\ fill_level(q)' = fill_level(q)
               /\ scratch'[q] = scratch[q] /\ scratch_offset'[q] = scratch_offset[q]
        /\ turn = r /\ step = "start"
    BY <1>9, PrepareTakesAll
  <2>2. consumed' = consumed
    BY <1>9 DEF pipe_receiver_prepare
  <2>3. \A j \in 1..Len(Arriving) : Arriving[j] = (Unread(r) + j - 1) % Bytes
    BY <2>1 DEF UpToDate, Waiting, Continues
  <2>4. Len(Arriving) \in Nat /\ fill_level(r) \in Nat /\ consumed[r] \in Int
    BY <1>2, FinalBounds
  <2>5. scratch_offset'[r] \in Int
    BY <1>1, <1>9, PrepareEffect
  <2>6. ASSUME NEW i \in 0..fill_level(r)' - 1
        PROVE  scratch'[r][scratch_offset'[r] + i] = (consumed[r] + i) % Bytes
    <3>1. CASE i \in 0..fill_level(r) - 1
      BY <1>3, <2>1, <3>1
    <3>2. CASE i \notin 0..fill_level(r) - 1
      <4>1. i - fill_level(r) + 1 \in 1..Len(Arriving) /\ i \in Int
        BY <2>1, <2>4, <3>2
      <4>2. scratch'[r][scratch_offset'[r] + fill_level(r) + (i - fill_level(r) + 1) - 1]
                = (Unread(r) + (i - fill_level(r) + 1) - 1) % Bytes
        BY <2>1, <2>3, <4>1
      <4>3. /\ scratch_offset'[r] + fill_level(r) + (i - fill_level(r) + 1) - 1 = scratch_offset'[r] + i
            /\ Unread(r) + (i - fill_level(r) + 1) - 1 = consumed[r] + i
        BY <2>4, <2>5, <4>1 DEF Unread
      <4> QED
        BY <4>2, <4>3
    <3> QED
      BY <3>1, <3>2
  <2>7. ASSUME NEW q \in Receivers PROVE Holds(q)'
    <3>1. CASE q = r
      BY <2>2, <2>6, <3>1
    <3>2. CASE q # r
      BY <1>5, <2>1, <2>2, <3>2
    <3> QED
      BY <3>1, <3>2
  <2> QED
    BY <1>4, <2>7
<1>10. ASSUME NEW r \in Receivers, pipe_receiver_read_byte(r) PROVE Contiguous'
  <2>1. /\ fill_level(r)' = fill_level(r) - Reading(r)
        /\ \A q \in Receivers \ {r} : fill_level(q)' = fill_level(q) /\ consumed'[q] = consumed[q]
    BY <1>1, <1>10, ReadLeaves
  <2>2. /\ consumed'[r] = (consumed[r] + Reading(r)) % Bytes /\ Reading(r) \in 0..fill_level(r)
        /\ scratch_offset'[r] = scratch_offset[r] + Reading(r)
        /\ \A q \in Receivers \ {r} : scratch_offset'[q] = scratch_offset[q]
    BY <1>1, <1>10, ReadEffect
  <2>3. scratch' = scratch
    BY <1>10 DEF pipe_receiver_read_byte
  <2>4. fill_level(r) \in Nat /\ Reading(r) \in Nat /\ scratch_offset[r] \in Nat /\ consumed[r] \in Int
    BY <1>2, <2>2
  <2>5. ASSUME NEW i \in 0..fill_level(r)' - 1
        PROVE  scratch'[r][scratch_offset'[r] + i] = (consumed'[r] + i) % Bytes
    <3>1. Reading(r) + i \in 0..fill_level(r) - 1 /\ i \in Int
      BY <2>1, <2>4
    <3>2. scratch[r][scratch_offset[r] + (Reading(r) + i)] = (consumed[r] + (Reading(r) + i)) % Bytes
      BY <1>3, <3>1
    <3>3. (((consumed[r] + Reading(r)) % Bytes) + i) % Bytes = ((consumed[r] + Reading(r)) + i) % Bytes
      BY <1>1, <2>4, <3>1, RemainderOfSum, consumed[r] + Reading(r) \in Int
    <3>4. /\ (consumed[r] + Reading(r)) + i = consumed[r] + (Reading(r) + i)
          /\ (scratch_offset[r] + Reading(r)) + i = scratch_offset[r] + (Reading(r) + i)
      BY <2>4, <3>1
    <3> QED
      BY <2>2, <2>3, <3>2, <3>3, <3>4
  <2>6. ASSUME NEW q \in Receivers PROVE Holds(q)'
    <3>1. CASE q = r
      BY <2>5, <3>1
    <3>2. CASE q # r
      BY <1>5, <2>1, <2>2, <2>3, <3>2
    <3> QED
      BY <3>1, <3>2
  <2> QED
    BY <1>4, <2>6
<1>11. ASSUME NEW r \in Receivers, ReceiverCut(r) PROVE Contiguous'
  <2>1. /\ fill_level(r)' = 0
        /\ \A q \in Receivers \ {r} : fill_level(q)' = fill_level(q) /\ consumed'[q] = consumed[q]
    BY <1>1, <1>11, TurnEnds
  <2>2. scratch' = scratch /\ (\A q \in Receivers \ {r} : scratch_offset'[q] = scratch_offset[q])
    BY <1>1, <1>11 DEF ReceiverCut, Typed
  <2>3. ASSUME NEW q \in Receivers PROVE Holds(q)'
    <3>1. CASE q = r
      BY <2>1, <3>1
    <3>2. CASE q # r
      BY <1>5, <2>1, <2>2, <3>2
    <3> QED
      BY <3>1, <3>2
  <2> QED
    BY <1>4, <2>3
<1> QED
  BY <1>7, <1>8, <1>9, <1>10, <1>11 DEF Next

-----------------------------------------------------------------------------
(* The third part: there is room for all that is sent.                     *)

LEMMA RoomStep ==
    HealthyMajority /\ Sound /\ Sound' /\ RoomForBatch /\ RoomForRequests /\ Leading /\ [Next]_vars
        => RoomForBatch' /\ RoomForRequests'
<1> SUFFICES ASSUME HealthyMajority, Sound, Sound', RoomForBatch, RoomForRequests, Leading, [Next]_vars
             PROVE  RoomForBatch' /\ RoomForRequests'
  OBVIOUS
<1>1. Typed /\ Len(dataflow) \in Nat
  BY LenProperties DEF Sound, Batched
<1>2. \A r \in Receivers : fill_level(r) \in 0..Capacity /\ Room(fill_level(r)) \in Nat
  BY <1>1, Levels
<1>3. \A f : Room(f)' = Room(f)
  BY DEF Room
<1>4. CASE NewEpoch
  <2>1. /\ turn' \notin Receivers /\ step' = step /\ step = "start" /\ turn \notin Receivers
        /\ \A r \in Receivers : turn # r
    BY <1>1, <1>4, ReceiverNumbers DEF NewEpoch, Typed
  <2>2. pressure' = pressure /\ (\A r \in Receivers : fill_level(r)' = fill_level(r))
    BY <1>4 DEF NewEpoch, receiver, ducts, fill_level
  <2>3. RoomForBatch'
    BY <2>1 DEF RoomForBatch
  <2>4. RoomForRequests'
    BY <1>3, <2>1, <2>2 DEF RoomForRequests
  <2> QED
    BY <2>3, <2>4
<1>5. ASSUME UNCHANGED <<receiver, ducts, clip>> PROVE RoomForBatch' /\ RoomForRequests'
  <2>1. /\ turn' = turn /\ step' = step /\ taken' = taken /\ dataflow' = dataflow /\ pressure' = pressure
        /\ \A r \in Receivers : fill_level(r)' = fill_level(r)
    BY <1>5 DEF receiver, ducts, clip, fill_level
  <2>2. \A r \in Receivers : Waiting(r)' <=> Waiting(r)
    BY <2>1 DEF Waiting
  <2>3. RoomForBatch'
    BY <1>3, <2>1, <2>2 DEF RoomForBatch
  <2>4. RoomForRequests'
    BY <1>3, <2>1 DEF RoomForRequests
  <2> QED
    BY <2>3, <2>4
<1>6. CASE pipe_sender_write_byte \/ UNCHANGED vars
  BY <1>5, <1>6 DEF pipe_sender_write_byte, vars
<1>7. ASSUME turn = SenderTurn, EndTurn, UNCHANGED receiver,
             \A r \in Receivers : Len(dataflow') <= Room(fill_level(r)),
             \A r \in Receivers : pressure'[r] \in {Missing, pressure[r]}
      PROVE  RoomForBatch' /\ RoomForRequests'
  <2>1. step' = "start" /\ (\A r \in Receivers : fill_level(r)' = fill_level(r) /\ turn # r)
    BY <1>7, ReceiverNumbers DEF EndTurn, receiver, fill_level
  <2>2. RoomForBatch'
    BY <1>3, <1>7, <2>1 DEF RoomForBatch
  <2>3. ASSUME NEW r \in Receivers
        PROVE  pressure'[r] <= Room(0) /\ pressure'[r] <= Room(fill_level(r))
    <3>1. CASE pressure'[r] = Missing
      BY <1>2, <3>1, RoomAtStart DEF Missing
    <3>2. CASE pressure'[r] = pressure[r]
      BY <2>1, <3>2 DEF RoomForRequests
    <3> QED
      BY <1>7, <3>1, <3>2
  <2>4. RoomForRequests'
    BY <1>3, <2>1, <2>3 DEF RoomForRequests
  <2> QED
    BY <2>2, <2>4
<1>8. CASE pipe_sender_commit
  <2>1. turn = SenderTurn /\ EndTurn /\ UNCHANGED receiver
        /\ pressure' = [r \in Receivers |-> Missing]
    BY <1>8 DEF pipe_sender_commit
  <2>2. ASSUME NEW r \in Receivers PROVE Len(dataflow') <= Room(fill_level(r))
    <3>1. Len(dataflow') <= allowed_flow /\ Len(dataflow') \in Nat /\ allowed_flow \in 0..MaxFlow
      BY <1>1, <1>8, CommitEffect, AllowedFlow, LenProperties DEF Batched
    <3>2. allowed_flow <= Room(fill_level(r))
      BY <1>1, <2>1, FlowFits
    <3> QED
      BY <1>2, <3>1, <3>2
  <2>3. \A r \in Receivers : pressure'[r] \in {Missing, pressure[r]}
    BY <2>1
  <2> QED
    BY <1>7, <2>1, <2>2, <2>3
<1>9. CASE SenderCut
  <2>1. turn = SenderTurn /\ EndTurn /\ UNCHANGED receiver /\ dataflow' = <<>>
        /\ (pressure' = [r \in Receivers |-> Missing] \/ pressure' = pressure)
    BY <1>9 DEF SenderCut
  <2>2. \A r \in Receivers : Len(dataflow') <= Room(fill_level(r))
    BY <1>2, <2>1
  <2>3. \A r \in Receivers : pressure'[r] \in {Missing, pressure[r]}
    BY <2>1
  <2> QED
    BY <1>7, <2>1, <2>2, <2>3
<1>10. ASSUME NEW r \in Receivers, pipe_receiver_prepare(r) PROVE RoomForBatch' /\ RoomForRequests'
  <2>1. /\ taken' = Len(dataflow) /\ dataflow' = dataflow
        /\ \A q \in Receivers \ {r} : fill_level(q)' = fill_level(q)
        /\ turn = r /\ turn' = r /\ step = "start" /\ step' = "prepared"
    BY <1>10, PrepareTakesAll
  <2>2. pressure' = pressure /\ turn' # r + 1
    BY <1>10, <2>1, ReceiverNumbers DEF pipe_receiver_prepare, ducts
  <2>3. /\ turn \in Receivers
        /\ \A q \in Receivers : Waiting(q)' => q # r /\ Waiting(q)
    BY <2>1, <2>2, Turns, ReceiverNumbers
  <2>4. RoomForBatch'
    BY <1>3, <2>1, <2>3 DEF RoomForBatch
  <2>5. RoomForRequests'
    BY <1>3, <2>1, <2>2 DEF RoomForRequests
  <2> QED
    BY <2>4, <2>5
<1>11. ASSUME NEW r \in Receivers, pipe_receiver_read_byte(r) PROVE RoomForBatch' /\ RoomForRequests'
  <2>1. /\ \A q \in Receivers \ {r} : fill_level(q)' = fill_level(q)
        /\ turn = r /\ turn' = r /\ step = "prepared" /\ step' = "consumed"
    BY <1>1, <1>11, ReadLeaves
  <2>2. /\ pressure' = pressure /\ dataflow' = dataflow /\ taken' = taken /\ turn' # r + 1
    BY <1>11, <2>1, ReceiverNumbers DEF pipe_receiver_read_byte, ducts
  <2>3. /\ turn \in Receivers
        /\ \A q \in Receivers : Waiting(q)' => q # r /\ Waiting(q)
    BY <2>1, <2>2, Turns, ReceiverNumbers
  <2>4. RoomForBatch'
    BY <1>3, <2>1, <2>2, <2>3 DEF RoomForBatch
  <2>5. RoomForRequests'
    BY <1>3, <2>1, <2>2 DEF RoomForRequests
  <2> QED
    BY <2>4, <2>5
<1>12. ASSUME NEW r \in Receivers, pipe_receiver_commit(r) \/ ReceiverCut(r)
       PROVE  RoomForBatch' /\ RoomForRequests'
  <2>1. /\ turn = r /\ turn' = r + 1 /\ step' = "start"
        /\ \A q \in Receivers \ {r} : fill_level(q)' = fill_level(q)
        /\ pipe_receiver_commit(r) => fill_level(r)' = fill_level(r)
        /\ ReceiverCut(r) => fill_level(r)' = 0
    BY <1>1, <1>12, TurnEnds
  <2>2. dataflow' = dataflow /\ turn' # r
    BY <1>12, <2>1, ReceiverNumbers DEF pipe_receiver_commit, ReceiverCut, ducts
  <2>3. /\ turn \in Receivers
        /\ \A q \in Receivers : Waiting(q)' => q # r /\ Waiting(q)
    BY <2>1, <2>2, Turns, ReceiverNumbers
  <2>4. RoomForBatch'
    BY <1>3, <2>1, <2>2, <2>3 DEF RoomForBatch
  <2>5. \A q \in Receivers \ {r} : pressure'[q] = pressure[q]
    <3>1. CASE pipe_receiver_commit(r)
      BY <1>1, <3>1 DEF pipe_receiver_commit, Typed
    <3>2. CASE ReceiverCut(r)
      BY <3>2 DEF ReceiverCut, ducts
    <3> QED
      BY <1>12, <3>1, <3>2
  <2>6. pressure'[r] <= Room(0) /\ pressure'[r] <= Room(fill_level(r)')
    <3>1. CASE pipe_receiver_commit(r)
      <4>1. pressure'[r] = pipe_receiver_request_count(r)
        BY <1>1, <3>1 DEF pipe_receiver_commit, requested, Typed
      <4> QED
        BY <1>1, <1>2, <2>1, <3>1, <4>1, Levels, RoomAtStart
    <3>2. CASE ReceiverCut(r)
      <4>1. pressure' = pressure
        BY <3>2 DEF ReceiverCut, ducts
      <4> QED
        BY <2>1, <3>2, <4>1 DEF RoomForRequests
    <3> QED
      BY <1>12, <3>1, <3>2
  <2>7. RoomForRequests'
    <3>1. ASSUME NEW q \in Receivers
          PROVE  pressure'[q] <= Room(0) /\ pressure'[q] <= Room(fill_level(q)')
      BY <2>1, <2>5, <2>6 DEF RoomForRequests
    <3> QED
      BY <1>3, <3>1 DEF RoomForRequests
  <2> QED
    BY <2>4, <2>7
<1> QED
  BY <1>4, <1>6, <1>8, <1>9, <1>10, <1>11, <1>12 DEF Next
-----------------------------------------------------------------------------
(* The fourth part: who holds most.                                        *)

LEMMA FinalOfOthers ==
    ASSUME NEW r \in Receivers, turn = r, turn' \in {r, r + 1}, turn' = r + 1 => step' = "start",
           turn' = r => step' # "start", Arriving' = Arriving, demand' = demand,
           NEW q \in Receivers \ {r}, fill_level(q)' = fill_level(q)
    PROVE  Final(q)' = Final(q)
<1>1. /\ Waiting(q)' <=> r < q
      /\ Waiting(q) <=> r < q
      /\ SenderTurn # turn /\ SenderTurn # turn'
  BY Turns
<1>2. (turn # q /\ ~(turn' = q /\ step' = "prepared")) \/ Waiting(q)'
  BY <1>1, ReceiverNumbers
<1>3. \A f : Left(f)' = Left(f)
  BY DEF Left
<1>4. CASE r < q
  <2>1. Final(q) = Left(fill_level(q) + Len(Arriving))
    BY <1>1, <1>4 DEF Final
  <2>2. Final(q)' = Left(fill_level(q) + Len(Arriving))'
    BY <1>1, <1>4 DEF Final
  <2>3. Left(fill_level(q) + Len(Arriving))' = Left(fill_level(q) + Len(Arriving))
    BY DEF Left
  <2> QED
    BY <2>1, <2>2, <2>3
<1>5. CASE ~(r < q)
  <2>1. Final(q) = fill_level(q)
    BY <1>1, <1>5 DEF Final
  <2>2. Final(q)' = fill_level(q)'
    BY <1>1, <1>2, <1>5 DEF Final
  <2> QED
    BY <2>1, <2>2
<1> QED
  BY <1>4, <1>5

LEMMA LeadingStep == Sound /\ Sound' /\ RoomForBatch /\ Leading /\ [Next]_vars => Leading'
<1> SUFFICES ASSUME Sound, Sound', RoomForBatch, Leading, [Next]_vars PROVE Leading'
  OBVIOUS
<1>1. Typed /\ faulty \subseteq Receivers /\ lagging \subseteq Receivers
  BY DEF Sound, Typed
<1>2. \A r \in Receivers : Final(r) \in Nat /\ fill_level(r) \in Nat
  BY FinalBounds
<1>3. CASE NewEpoch
  <2>1. /\ turn = NumReceivers /\ turn' = SenderTurn /\ faulty' = {}
        /\ lagging' = {r \in Receivers : Behind(r)}
        /\ \A r \in Receivers : fill_level(r)' = fill_level(r)
    BY <1>3 DEF NewEpoch, receiver, fill_level
  <2>2. \A r \in Receivers : Final(r) = fill_level(r) /\ Final(r)' = fill_level(r)
    BY <2>1, ReceiverNumbers DEF Final, Waiting
  <2>3. lagging' \subseteq faulty \cup lagging
    <3>1. ASSUME NEW r \in Receivers, Behind(r) PROVE r \in faulty \cup lagging
      <4>1. PICK q \in Receivers : fill_level(q) > fill_level(r)
        BY <3>1 DEF Behind
      <4>2. ~(Final(q) <= Final(r))
        BY <1>2, <2>2, <4>1
      <4> QED
        BY <4>2 DEF Leading
    <3> QED
      BY <2>1, <3>1
  <2>4. Cardinality(faulty' \cup lagging') <= MaxFaulty
    <3>1. faulty' \cup lagging' = lagging'
      BY <2>1
    <3>2. /\ IsFiniteSet(faulty \cup lagging) /\ Cardinality(faulty \cup lagging) \in Nat
          /\ Cardinality(lagging') \in Nat
      BY <1>1, <2>1, ReceiversFinite
    <3>3. Cardinality(lagging') <= Cardinality(faulty \cup lagging)
      BY <2>3, <3>2, FS_Subset
    <3>4. Cardinality(faulty \cup lagging) <= MaxFaulty /\ MaxFaulty \in Nat
      BY PipeAssumption DEF Leading
    <3> QED
      BY <3>1, <3>2, <3>3, <3>4
  <2>5. ASSUME NEW r \in Receivers \ (faulty' \cup lagging'), NEW q \in Receivers
        PROVE  Final(q)' <= Final(r)'
    <3>1. ~(fill_level(q) > fill_level(r))
      BY <2>1 DEF Behind
    <3> QED
      BY <1>2, <2>2, <3>1
  <2> QED
    BY <2>1, <2>4, <2>5 DEF Leading
<1>4. ASSUME turn' = turn, step' = step, faulty' = faulty, lagging' = lagging,
             \A r \in Receivers : Final(r)' = Final(r)
      PROVE  Leading'
  BY <1>4 DEF Leading
<1>5. CASE pipe_sender_write_byte
  <2>1. /\ turn = SenderTurn /\ turn' = turn /\ step' = step
        /\ faulty' = faulty /\ lagging' = lagging
        /\ \A r \in Receivers : fill_level(r)' = fill_level(r)
    BY <1>5 DEF pipe_sender_write_byte, receiver, clip, fill_level
  <2>2. \A r \in Receivers : Final(r)' = Final(r)
    BY <2>1 DEF Final
  <2> QED
    BY <1>4, <2>1, <2>2
<1>6. CASE pipe_sender_commit \/ SenderCut
  <2>1. /\ turn = SenderTurn /\ EndTurn /\ demand' = demand
        /\ faulty' = faulty /\ lagging' = lagging
        /\ \A r \in Receivers : fill_level(r)' = fill_level(r)
    BY <1>6 DEF pipe_sender_commit, SenderCut, receiver, fill_level
  <2>2. turn' = 0 /\ step' = "start" /\ turn' # SenderTurn
    BY <2>1, ReceiverNumbers DEF EndTurn
  <2>3. \A r \in Receivers : Waiting(r)'
    BY <2>2, ReceiverNumbers DEF Waiting
  <2> DEFINE new == Len(Arriving')
  <2>4. new \in Nat
    <3>1. Len(dataflow') \in 0..Len(dataflow')
      BY LenProperties DEF Sound, Batched
    <3> QED
      BY <3>1, LenProperties DEF Sound, Batched, Arriving
  <2> HIDE DEF new
  <2>5. \A r \in Receivers : Final(r) = fill_level(r) /\ Final(r)' = Left(fill_level(r) + new)
    <3>1. ASSUME NEW r \in Receivers PROVE Final(r)' = Left(fill_level(r) + new)
      <4>1. Final(r)' = Left(fill_level(r) + Len(Arriving))'
        BY <2>2, <2>3 DEF Final
      <4>2. Left(fill_level(r) + Len(Arriving))' = Left(fill_level(r)' + new)
        BY <2>1 DEF Left, new
      <4> QED
        BY <2>1, <4>1, <4>2
    <3> QED
      BY <2>1, <3>1 DEF Final
  <2>6. ASSUME NEW r \in Receivers \ (faulty \cup lagging), NEW q \in Receivers
        PROVE  Final(q)' <= Final(r)'
    <3>1. fill_level(q) <= fill_level(r)
      BY <2>5 DEF Leading
    <3>2. fill_level(q) + new \in Nat /\ fill_level(r) + new \in Nat
          /\ fill_level(q) + new <= fill_level(r) + new
      BY <1>2, <2>4, <3>1
    <3> QED
      BY <1>1, <2>5, <3>2, LeftBounds
  <2> QED
    BY <2>1, <2>2, <2>6 DEF Leading
<1>7. ASSUME NEW r \in Receivers, pipe_receiver_prepare(r) PROVE Leading'
  <2>1. /\ fill_level(r)' = fill_level(r) + Len(Arriving) /\ Arriving' = Arriving
        /\ \A q \in Receivers \ {r} : fill_level(q)' = fill_level(q)
        /\ turn = r /\ turn' = r /\ step = "start" /\ step' = "prepared"
    BY <1>7, PrepareTakesAll
  <2>2. /\ demand' = demand /\ faulty' = faulty /\ lagging' = lagging /\ turn' # r + 1
    BY <1>7, <2>1, ReceiverNumbers DEF pipe_receiver_prepare
  <2>3. \A q \in Receivers \ {r} : Final(q)' = Final(q)
    BY <2>1, <2>2, FinalOfOthers
  <2>4. Waiting(r) /\ ~Waiting(r)' /\ turn # SenderTurn /\ turn' # SenderTurn
    BY <2>1, ReceiverNumbers DEF Waiting
  <2>5. Final(r) = Left(fill_level(r) + Len(Arriving))
    BY <2>4 DEF Final
  <2>6. Final(r)' = Left(fill_level(r))'
    BY <2>1, <2>4 DEF Final
  <2>7. Left(fill_level(r))' = Left(fill_level(r) + Len(Arriving))
    BY <2>1, <2>2 DEF Left
  <2>8. \A q \in Receivers : Final(q)' = Final(q)
    BY <2>3, <2>5, <2>6, <2>7
  <2> QED
    BY <2>1, <2>2, <2>4, <2>8 DEF Leading
<1>8. ASSUME NEW r \in Receivers, pipe_receiver_read_byte(r) PROVE Leading'
  <2>1. /\ fill_level(r)' = Left(fill_level(r)) /\ Arriving' = Arriving
        /\ \A q \in Receivers \ {r} : fill_level(q)' = fill_level(q)
        /\ turn = r /\ turn' = r /\ step = "prepared" /\ step' = "consumed"
    BY <1>1, <1>8, ReadLeaves
  <2>2. /\ demand' = demand /\ faulty' = faulty /\ lagging' = lagging /\ turn' # r + 1
    BY <1>8, <2>1, ReceiverNumbers DEF pipe_receiver_read_byte
  <2>3. \A q \in Receivers \ {r} : Final(q)' = Final(q)
    BY <2>1, <2>2, FinalOfOthers
  <2>4. ~Waiting(r) /\ ~Waiting(r)' /\ turn # SenderTurn /\ turn' # SenderTurn
    BY <2>1, ReceiverNumbers DEF Waiting
  <2>5. Final(r) = Left(fill_level(r)) /\ Final(r)' = fill_level(r)'
    BY <2>1, <2>4 DEF Final
  <2>6. \A q \in Receivers : Final(q)' = Final(q)
    BY <2>1, <2>3, <2>5
  <2> QED
    BY <2>1, <2>2, <2>4, <2>6 DEF Leading
<1>9. ASSUME NEW r \in Receivers, pipe_receiver_commit(r) \/ ReceiverCut(r) PROVE Leading'
  <2>1. /\ turn = r /\ turn' = r + 1 /\ step' = "start" /\ Arriving' = Arriving
        /\ \A q \in Receivers \ {r} : fill_level(q)' = fill_level(q)
        /\ pipe_receiver_commit(r) => fill_level(r)' = fill_level(r) /\ step = "consumed"
        /\ ReceiverCut(r) => fill_level(r)' = 0
    BY <1>1, <1>9, TurnEnds
  <2>2. /\ demand' = demand /\ lagging' = lagging /\ turn' # r
    BY <1>9, <2>1, ReceiverNumbers DEF pipe_receiver_commit, ReceiverCut
  <2>3. \A q \in Receivers \ {r} : Final(q)' = Final(q)
    BY <2>1, <2>2, FinalOfOthers
  <2>4. ~Waiting(r)' /\ turn # SenderTurn /\ turn' # SenderTurn /\ turn' # r
    BY <2>1, ReceiverNumbers DEF Waiting
  <2>5. Final(r)' = fill_level(r)'
    BY <2>4 DEF Final
  <2>6. CASE pipe_receiver_commit(r)
    <3>1. ~Waiting(r)
      BY <2>1, <2>6, ReceiverNumbers DEF Waiting
    <3>2. Final(r) = fill_level(r)
      BY <2>1, <2>4, <2>6, <3>1 DEF Final
    <3>3. \A q \in Receivers : Final(q)' = Final(q)
      BY <2>1, <2>3, <2>5, <2>6, <3>2
    <3>4. faulty' = faulty
      BY <2>6 DEF pipe_receiver_commit
    <3> QED
      BY <2>2, <2>4, <3>3, <3>4 DEF Leading
  <2>7. CASE ReceiverCut(r)
    <3>1. faulty' = faulty \cup {r} /\ Cardinality(faulty \cup lagging \cup {r}) <= MaxFaulty
      BY <2>7 DEF ReceiverCut
    <3>2. Cardinality(faulty' \cup lagging') <= MaxFaulty
      <4>1. faulty' \cup lagging' = faulty \cup lagging \cup {r}
        BY <2>2, <3>1
      <4> QED
        BY <3>1, <4>1
    <3>3. Final(r)' = 0
      BY <2>1, <2>5, <2>7
    <3>4. ASSUME NEW m \in Receivers \ (faulty' \cup lagging'), NEW q \in Receivers
          PROVE  Final(q)' <= Final(m)'
      <4>1. m \in Receivers \ (faulty \cup lagging) /\ m # r
        BY <2>2, <3>1
      <4>2. Final(m)' = Final(m) /\ Final(m) \in Nat /\ Final(q) <= Final(m)
        BY <1>2, <2>3, <4>1 DEF Leading
      <4>3. CASE q = r
        BY <3>3, <4>2, <4>3
      <4>4. CASE q # r
        BY <2>3, <4>2, <4>4
      <4> QED
        BY <4>3, <4>4
    <3> QED
      BY <2>4, <3>2, <3>4 DEF Leading
  <2> QED
    BY <1>9, <2>6, <2>7
<1>10. CASE UNCHANGED vars
  <2>1. /\ turn' = turn /\ step' = step /\ faulty' = faulty /\ lagging' = lagging
        /\ Arriving' = Arriving /\ demand' = demand
        /\ \A r \in Receivers : fill_level(r)' = fill_level(r)
    BY <1>10 DEF vars, clip, ducts, receiver, Arriving, Incoming, fill_level
  <2>2. \A r \in Receivers : Final(r)' = Final(r)
    BY <2>1 DEF Final, Waiting, Left
  <2> QED
    BY <1>4, <2>1, <2>2
<1> QED
  BY <1>3, <1>5, <1>6, <1>7, <1>8, <1>9, <1>10 DEF Next
-----------------------------------------------------------------------------
(* The theorems.                                                           *)

LEMMA PipeInit == Init => PipeInv
<1> SUFFICES ASSUME Init PROVE PipeInv
  OBVIOUS
<1>1. Sound /\ Typed
  BY SoundInit DEF Sound
<1>2. /\ turn = SenderTurn /\ step = "start" /\ send_scratch = <<>> /\ faulty = {} /\ lagging = {}
      /\ sent = 0 /\ turn \notin Receivers /\ (\A r \in Receivers : turn # r)
  BY ReceiverNumbers DEF Init
<1>3. \A r \in Receivers : fill_level(r) = 0 /\ consumed[r] = 0 /\ pressure[r] = Missing
  BY DEF Init, fill_level
<1>4. \A r \in Receivers : Room(fill_level(r)) \in 0..MaxFlow
  BY <1>1, Levels
<1>5. Numbered
  BY <1>2 DEF Numbered
<1>6. UpToDate
  <2>1. 0 % Bytes = 0
    <3>1. Bytes \in Nat \ {0} /\ 0 \in 0..Bytes - 1 /\ 0 = Bytes * 0 + 0
      BY PipeAssumption
    <3> QED
      BY <3>1, Remainder
  <2>2. \A r \in Receivers : Unread(r) = 0
    BY <1>3 DEF Unread
  <2> QED
    BY <1>2, <2>1, <2>2 DEF UpToDate
<1>7. Contiguous
  BY <1>3 DEF Contiguous
<1>8. RoomForBatch
  BY <1>2 DEF RoomForBatch
<1>9. RoomForRequests
  <2>1. ASSUME NEW r \in Receivers PROVE pressure[r] <= Room(0) /\ pressure[r] <= Room(fill_level(r))
    BY <1>3, <1>4, RoomAtStart DEF Missing
  <2> QED
    BY <2>1 DEF RoomForRequests
<1>10. Leading
  <2>1. Cardinality(faulty \cup lagging) <= MaxFaulty
    <3>1. Cardinality({}) = 0 /\ MaxFaulty \in Nat
      BY FS_EmptySet, PipeAssumption
    <3> QED
      BY <1>2, <3>1
  <2>2. \A r \in Receivers : Final(r) = 0
    BY <1>2, <1>3 DEF Final
  <2> QED
    BY <1>2, <2>1, <2>2 DEF Leading
<1> QED
  BY <1>1, <1>5, <1>6, <1>7, <1>8, <1>9, <1>10 DEF PipeInv

LEMMA PipeStep == HealthyMajority /\ PipeInv /\ [Next]_vars => PipeInv'
<1> SUFFICES ASSUME HealthyMajority, PipeInv, [Next]_vars PROVE PipeInv'
  OBVIOUS
<1>1. Sound /\ Numbered /\ UpToDate /\ Contiguous /\ RoomForBatch /\ RoomForRequests /\ Leading
  BY DEF PipeInv
<1>2. Sound'
  BY <1>1, SoundStep
<1>3. Numbered'
  BY <1>1, NumberedStep
<1>4. UpToDate'
  BY <1>1, <1>2, UpToDateStep
<1>5. Contiguous'
  BY <1>1, ContiguousStep
<1>6. RoomForBatch' /\ RoomForRequests'
  BY <1>1, <1>2, RoomStep
<1>7. Leading'
  BY <1>1, <1>2, LeadingStep
<1> QED
  BY <1>2, <1>3, <1>4, <1>5, <1>6, <1>7 DEF PipeInv

LEMMA PipeInvariant == HealthyMajority /\ Spec => []PipeInv
<1>1. HealthyMajority => (Spec => []PipeInv)
  <2> SUFFICES ASSUME HealthyMajority PROVE Spec => []PipeInv
    OBVIOUS
  <2>1. PipeInv /\ [Next]_vars => PipeInv'
    BY PipeStep
  <2> QED
    BY <2>1, PipeInit, PTL DEF Spec
<1> QED
  BY <1>1

LEMMA SoundMeans == Sound => TypeOK /\ Fits /\ NeverAborts
<1> SUFFICES ASSUME Sound PROVE TypeOK /\ Fits /\ NeverAborts
  OBVIOUS
<1>1. Typed /\ Batched /\ Requested
  BY DEF Sound
<1>2. TypeOK
  <2>1. \A r \in Receivers : 0 <= scratch_offset[r] /\ scratch_offset[r] <= scratch_avail[r]
                             /\ scratch_avail[r] <= Capacity
    BY <1>1, PipeAssumption DEF Typed
  <2> QED
    BY <1>1, <2>1 DEF TypeOK, Typed, Batched
<1>3. Fits
  <2> SUFFICES ASSUME turn \in Receivers, pipe_receiver_request_count(turn) > 0
               PROVE  (IF must_relocate(turn, pipe_receiver_request_count(turn))
                       THEN fill_level(turn) ELSE scratch_avail[turn])
                          + MsgSize * pipe_receiver_request_count(turn) <= Capacity
    BY DEF Fits
  <2> DEFINE asked == MsgSize * pipe_receiver_request_count(turn)
  <2>1. /\ fill_level(turn) \in Nat /\ scratch_offset[turn] \in Nat /\ Capacity \in Nat
        /\ scratch_avail[turn] \in Nat /\ scratch_avail[turn] = scratch_offset[turn] + fill_level(turn)
        /\ asked <= Capacity - fill_level(turn)
    BY <1>1, Levels, PipeAssumption
  <2>2. asked \in Int
    <3>1. pipe_receiver_request_count(turn) \in Int /\ MsgSize \in Int
      BY <1>1, Levels, PipeAssumption
    <3> QED
      BY <3>1
  <2>3. must_relocate(turn, pipe_receiver_request_count(turn))
            <=> scratch_offset[turn] > 0 /\ scratch_avail[turn] + asked > Capacity
    BY DEF must_relocate
  <2> HIDE DEF asked
  <2>4. (IF must_relocate(turn, pipe_receiver_request_count(turn))
         THEN fill_level(turn) ELSE scratch_avail[turn]) + asked <= Capacity
    BY <2>1, <2>2, <2>3
  <2> QED
    BY <2>4 DEF asked
<1>4. NeverAborts
  <2>1. step = "consumed" => available = 0 \/ taken = Len(dataflow)
    BY <1>1 DEF Requested
  <2>2. Len(dataflow) \in Int /\ available \in Int
    BY <1>1, LenProperties, PipeAssumption DEF Typed, Batched
  <2> QED
    BY <2>1, <2>2 DEF NeverAborts, Unprocessed
<1> QED
  BY <1>2, <1>3, <1>4

(* Whatever number of the replicas is cut short, and however often: what   *)
(* was requested fits the buffer of a receiver when its turn comes         *)
(* (pipe_receiver_prepare), and its commit never finds messages that were  *)
(* requested and not taken, so that pipe_receive_commit does not abort.    *)
THEOREM RequestsFit == Spec => [](TypeOK /\ Fits /\ NeverAborts)
  BY SoundInvariant, SoundMeans, PTL

(* While the receivers that are cut short, or have not caught up since,    *)
(* are no majority, the unread bytes of every receiver are the next ones   *)
(* of the stream.                                                          *)
THEOREM StreamOrder ==
    ASSUME HealthyMajority
    PROVE  Spec => []Contiguous
<1>1. PipeInv => Contiguous
  BY DEF PipeInv
<1> QED
  BY <1>1, PipeInvariant, PTL

(* Then, too, between epochs every receiver has taken every byte sent: the *)
(* flow that a majority agrees on exceeds the room of none.                *)
THEOREM NoneDropped ==
    ASSUME HealthyMajority
    PROVE  Spec => []NothingDropped
<1>1. PipeInv => NothingDropped
  BY ReceiverNumbers DEF PipeInv, UpToDate, NothingDropped, Unread
<1> QED
  BY <1>1, PipeInvariant, PTL

(* So it is in what the run checks, for any values of its constants: the   *)
(* other instances do not touch the variables of this one.                 *)
THEOREM StreamOrderHere ==
    ASSUME HealthyMajority
    PROVE  MCSpec => []MCContiguous
<1>1. MCInit => Init
  BY DEF MCInit
<1>2. [MCNext]_<<vars, vars2, svars, rvars, instance>> => [Next]_vars
  BY DEF MCNext
<1>3. MCSpec => Spec
  BY <1>1, <1>2, PTL DEF MCSpec, Spec
<1>4. (TypeOK /\ Fits /\ NeverAborts) /\ Contiguous /\ NothingDropped => MCContiguous
  BY DEF MCContiguous
<1> QED
  BY <1>3, <1>4, RequestsFit, StreamOrder, NoneDropped, PTL
-----------------------------------------------------------------------------
(* What a fold over a sequence gives, one element after the other.         *)

Top(t) == CHOOSE x \in t : \A y \in t : x >= y

LEMMA TopIs ==
    ASSUME NEW n \in Nat, NEW t \in SUBSET (1..n), n \in t
    PROVE  Top(t) = n
<1>1. \A y \in t : n >= y
  OBVIOUS
<1>2. Top(t) \in t /\ \A y \in t : Top(t) >= y
  BY <1>1 DEF Top
<1>3. Top(t) \in 1..n /\ Top(t) >= n
  BY <1>2
<1> QED
  BY <1>3

LEMMA TopOf ==
    ASSUME NEW n \in Nat, NEW t \in SUBSET (1..n), t # {}
    PROVE  Top(t) \in t
<1> DEFINE T == {m \in Nat : t \subseteq 1..m => Top(t) \in t}
<1>1. 0 \in T
  <2>1. 1..0 = {}
    OBVIOUS
  <2>2. ~(t \subseteq 1..0)
    BY <2>1
  <2> QED
    BY <2>2
<1>2. ASSUME NEW m \in Nat, m \in T PROVE m + 1 \in T
  <2> SUFFICES ASSUME t \subseteq 1..m + 1 PROVE Top(t) \in t
    OBVIOUS
  <2>1. CASE m + 1 \in t
    <3>1. m + 1 \in Nat /\ t \in SUBSET (1..m + 1)
      OBVIOUS
    <3> QED
      BY <2>1, <3>1, TopIs
  <2>2. CASE m + 1 \notin t
    <3>1. t \subseteq 1..m
      BY <2>2
    <3> QED
      BY <1>2, <3>1
  <2> QED
    BY <2>1, <2>2
<1>3. n \in T
  <2> HIDE DEF T
  <2> QED
    BY <1>1, <1>2, Induction
<1> QED
  BY <1>3

(* The folds of all sets of places: the function that FoldLeft applies.    *)
Combine(St, X) == [St \X X -> St]
FoldsOf(n, St, base, s, put) ==
    {f \in [SUBSET (1..n) -> St] : \A t \in SUBSET (1..n) :
        f[t] = IF t = {} THEN base ELSE put[<<f[t \ {Top(t)}], s[Top(t)]>>]}

LEMMA FoldsExist ==
    ASSUME NEW n \in Nat, NEW St, NEW base \in St, NEW X, NEW s, \A i \in 1..n : s[i] \in X,
           NEW put \in Combine(St, X)
    PROVE  FoldsOf(n, St, base, s, put) # {}
<1>0. put \in [St \X X -> St]
  BY DEF Combine
<1> DEFINE Folds(m, f) == \A t \in SUBSET (1..m) :
                              f[t] = IF t = {} THEN base ELSE put[<<f[t \ {Top(t)}], s[Top(t)]>>]
           T == {m \in Nat : m <= n => \E f \in [SUBSET (1..m) -> St] : Folds(m, f)}
<1>1. 0 \in T
  <2> DEFINE f == [t \in SUBSET (1..0) |-> base]
  <2>1. SUBSET (1..0) = {{}}
    OBVIOUS
  <2>2. f \in [SUBSET (1..0) -> St] /\ Folds(0, f)
    BY <2>1
  <2> QED
    BY <2>2
<1>2. ASSUME NEW m \in Nat, m \in T PROVE m + 1 \in T
  <2> SUFFICES ASSUME m + 1 <= n PROVE \E g \in [SUBSET (1..m + 1) -> St] : Folds(m + 1, g)
    <3>1. m + 1 \in Nat
      OBVIOUS
    <3> QED
      BY <3>1, Zenon
  <2>1. PICK f \in [SUBSET (1..m) -> St] : Folds(m, f)
    <3>1. m <= n
      OBVIOUS
    <3> QED
      BY <1>2, <3>1
  <2>2. s[m + 1] \in X
    OBVIOUS
  <2> DEFINE g == [t \in SUBSET (1..m + 1) |->
                      IF m + 1 \in t THEN put[<<f[t \ {m + 1}], s[m + 1]>>] ELSE f[t]]
  <2>3. ASSUME NEW t \in SUBSET (1..m + 1), m + 1 \in t
        PROVE  t # {} /\ t \ {m + 1} \in SUBSET (1..m) /\ t \ {m + 1} \in SUBSET (1..m + 1) /\ Top(t) = m + 1
    <3>1. t \ {m + 1} \in SUBSET (1..m) /\ m + 1 \in Nat
      OBVIOUS
    <3> QED
      BY <2>3, <3>1, TopIs
  <2>4. ASSUME NEW t \in SUBSET (1..m + 1), m + 1 \notin t
        PROVE  t \in SUBSET (1..m) /\ t \ {Top(t)} \in SUBSET (1..m) /\ t \ {Top(t)} \in SUBSET (1..m + 1)
                   /\ m + 1 \notin t \ {Top(t)}
    <3>1. t \in SUBSET (1..m)
      BY <2>4
    <3> QED
      BY <2>4, <3>1
  <2>5. g \in [SUBSET (1..m + 1) -> St]
    <3>1. ASSUME NEW t \in SUBSET (1..m + 1) PROVE g[t] \in St
      <4>1. CASE m + 1 \in t
        <5>1. f[t \ {m + 1}] \in St
          BY <2>3, <4>1
        <5>2. <<f[t \ {m + 1}], s[m + 1]>> \in St \X X
          BY <2>2, <5>1
        <5>3. g[t] = put[<<f[t \ {m + 1}], s[m + 1]>>]
          BY <4>1
        <5> QED
          BY <1>0, <5>2, <5>3
      <4>2. CASE m + 1 \notin t
        BY <2>4, <4>2
      <4> QED
        BY <4>1, <4>2
    <3> QED
      BY <3>1
  <2>6. ASSUME NEW t \in SUBSET (1..m + 1)
        PROVE  g[t] = IF t = {} THEN base ELSE put[<<g[t \ {Top(t)}], s[Top(t)]>>]
    <3>1. CASE m + 1 \in t
      <4>1. g[t] = put[<<f[t \ {m + 1}], s[m + 1]>>]
        BY <3>1
      <4>2. g[t \ {m + 1}] = f[t \ {m + 1}]
        BY <2>3, <3>1
      <4>3. t # {} /\ Top(t) = m + 1
        BY <2>3, <3>1
      <4> HIDE DEF g
      <4> QED
        BY <4>1, <4>2, <4>3
    <3>2. CASE m + 1 \notin t
      <4>1. g[t] = f[t]
        BY <3>2
      <4>2. g[t \ {Top(t)}] = f[t \ {Top(t)}]
        BY <2>4, <3>2
      <4>3. f[t] = IF t = {} THEN base ELSE put[<<f[t \ {Top(t)}], s[Top(t)]>>]
        BY <2>1, <2>4, <3>2
      <4> HIDE DEF g
      <4> QED
        BY <4>1, <4>2, <4>3
    <3> QED
      BY <3>1, <3>2
  <2> HIDE DEF g
  <2> QED
    BY <2>5, <2>6
<1>3. n \in T
  <2> HIDE DEF T
  <2> QED
    BY <1>1, <1>2, Induction
<1>4. n <= n
  OBVIOUS
<1>5. PICK f \in [SUBSET (1..n) -> St] : Folds(n, f)
  BY <1>3, <1>4, Zenon
<1> QED
  BY <1>5 DEF FoldsOf

(* Along the first places it takes one element more at a time.             *)
LEMMA FoldsAlong ==
    ASSUME NEW n \in Nat, NEW m \in 1..n
    PROVE  /\ 1..m \in SUBSET (1..n) /\ 1..m # {} /\ Top(1..m) = m
           /\ (1..m) \ {Top(1..m)} = 1..m - 1
<1>1. 1..m \in SUBSET (1..m) /\ m \in 1..m /\ m \in Nat /\ 1..m \in SUBSET (1..n)
  OBVIOUS
<1>2. Top(1..m) = m
  BY <1>1, TopIs
<1> QED
  BY <1>1, <1>2

-----------------------------------------------------------------------------
(* The switch.  Its packets are not empty, as they begin with an address.  *)

Out == [Switch!Ports -> Seq(Seq(Nat))]
Addressed == Seq(Nat) \ {<<>>}

LEMMA SwitchConstants ==
    /\ LastPort \in Nat /\ Inbound \subseteq Switch!Ports /\ Outbound \subseteq Switch!Ports
    /\ \A address \in DOMAIN routing_table :
          routing_table[address] \in [enabled: BOOLEAN, pop: BOOLEAN, port: Switch!Ports]
    /\ PortFlow \in [Switch!Ports -> Nat] /\ PortSize \in [Switch!Ports -> Nat] /\ MaxLength \in Nat
    /\ Switch!Ports = 1..LastPort
  BY CarrierAssumption DEF Switch!SwitchAssumption, Switch!Ports, Switch!SWITCH_PORT_BASE

LEMMA PoppedType ==
    ASSUME NEW packet \in Addressed
    PROVE  Switch!Popped(packet) \in Seq(Nat)
<1>1. packet \in Seq(Nat) /\ Tail(packet) \in Seq(Nat)
  BY DEF Addressed
<1> QED
  BY <1>1 DEF Switch!Popped

(* switch_packet puts a packet last in the duct of the port that could     *)
(* send it on, if there is room; else it drops it.                         *)
LEMMA SwitchPacket ==
    ASSUME NEW out \in Out, NEW packet \in Addressed
    PROVE  LET next == Switch!switch_packet(out, packet)
           IN  /\ next \in Out
               /\ \A p \in Outbound :
                     next[p] = IF Switch!Deliverable(packet, p) /\ Len(out[p]) < PortFlow[p]
                               THEN Append(out[p], Switch!Popped(packet)) ELSE out[p]
<1> DEFINE route == Switch!Route(Head(packet))
           data == Switch!Popped(packet)
           next == Switch!switch_packet(out, packet)
<1>1. data \in Seq(Nat) /\ Len(data) \in Nat /\ (data # <<>> <=> Len(data) # 0)
  BY PoppedType, EmptySeq
<1>2. next = IF ~route.enabled \/ route.port \notin Outbound THEN out
             ELSE Switch!Checked(out, route.port, data)
  BY DEF Switch!switch_packet, Switch!Popped
<1>3. \A p : Switch!Deliverable(packet, p) <=> route.enabled /\ route.port = p /\ Len(data) \in 1..PortSize[p]
  BY DEF Switch!Deliverable
<1>4. PortSize \in [Switch!Ports -> Nat] /\ PortFlow \in [Switch!Ports -> Nat] /\ Outbound \subseteq Switch!Ports
  BY SwitchConstants
<1> HIDE DEF data, route, next
<1>5. CASE ~route.enabled \/ route.port \notin Outbound
  BY <1>2, <1>3, <1>5 DEF next, data
<1>6. CASE ~(~route.enabled \/ route.port \notin Outbound)
  <2>1. route.port \in Switch!Ports /\ PortSize[route.port] \in Nat /\ out[route.port] \in Seq(Seq(Nat))
    BY <1>4, <1>6 DEF Out
  <2>2. Switch!Deliverable(packet, route.port) <=> data # <<>> /\ Len(data) <= PortSize[route.port]
    BY <1>1, <1>3, <1>6, <2>1
  <2>3. next = IF Len(out[route.port]) < PortFlow[route.port] /\ Switch!Deliverable(packet, route.port)
               THEN [out EXCEPT ![route.port] = Append(out[route.port], data)] ELSE out
    BY <1>2, <1>6, <2>2 DEF Switch!Checked
  <2>4. Append(out[route.port], data) \in Seq(Seq(Nat))
    BY <1>1, <2>1, AppendProperties
  <2>5. next \in Out
    BY <2>1, <2>3, <2>4 DEF Out
  <2>6. ASSUME NEW p \in Outbound
        PROVE  next[p] = IF Switch!Deliverable(packet, p) /\ Len(out[p]) < PortFlow[p]
                         THEN Append(out[p], data) ELSE out[p]
    <3>1. p \in Switch!Ports
      BY <1>4
    <3>2. CASE p = route.port
      BY <2>3, <3>1, <3>2 DEF Out
    <3>3. CASE p # route.port
      <4>1. ~Switch!Deliverable(packet, p)
        BY <1>3, <3>3
      <4>2. next[p] = out[p]
        BY <2>3, <3>1, <3>3 DEF Out
      <4> QED
        BY <4>1, <4>2
    <3> QED
      BY <3>2, <3>3
  <2> QED
    BY <2>5, <2>6 DEF next, data
<1> QED
  BY <1>5, <1>6

LEMMA SwitchFolds ==
    ASSUME NEW s \in Seq(Addressed)
    PROVE  \E F \in [0..Len(s) -> Out] :
              /\ F[0] = Switch!Nothing
              /\ \A i \in 1..Len(s) : F[i] = Switch!switch_packet(F[i - 1], s[i])
              /\ Switch!FoldLeft(Switch!switch_packet, Switch!Nothing, s) = F[Len(s)]
<1> DEFINE n == Len(s)
           base == Switch!Nothing
           put == [z \in Out \X Addressed |-> Switch!switch_packet(z[1], z[2])]
           Body(f) == [t \in SUBSET (DOMAIN s) |->
                         IF t = {} THEN base ELSE Switch!switch_packet(f[t \ {Top(t)}], s[Top(t)])]
           fold == CHOOSE f : f = Body(f)
<1>1. n \in Nat /\ DOMAIN s = 1..n /\ \A i \in 1..n : s[i] \in Addressed
  BY LenProperties, ElementOfSeq
<1>2. base \in Out
  BY SwitchConstants DEF Switch!Nothing, Out
<1>3. put \in [Out \X Addressed -> Out]
  BY SwitchPacket
<1>4. PICK g \in [SUBSET (1..n) -> Out] : \A t \in SUBSET (1..n) :
              g[t] = IF t = {} THEN base ELSE put[<<g[t \ {Top(t)}], s[Top(t)]>>]
  <2>1. n \in Nat /\ \A i \in 1..n : s[i] \in Addressed
    BY <1>1
  <2>2. put \in Combine(Out, Addressed)
    BY <1>3 DEF Combine
  <2> HIDE DEF n, put, base
  <2>3. FoldsOf(n, Out, base, s, put) # {}
    BY <2>1, <1>2, <2>2, FoldsExist, Zenon
  <2> QED
    BY <2>3 DEF FoldsOf
<1>5. g = Body(g)
  <2>1. ASSUME NEW t \in SUBSET (1..n), t # {} PROVE Top(t) \in 1..n
    <3>1. Top(t) \in t
      BY <1>1, <2>1, TopOf
    <3> QED
      BY <3>1
  <2>2. ASSUME NEW t \in SUBSET (1..n), t # {}
        PROVE  put[<<g[t \ {Top(t)}], s[Top(t)]>>] = Switch!switch_packet(g[t \ {Top(t)}], s[Top(t)])
    <3>1. g[t \ {Top(t)}] \in Out /\ s[Top(t)] \in Addressed
      BY <1>1, <2>1, <2>2
    <3> QED
      BY <3>1
  <2>3. ASSUME NEW t \in SUBSET (1..n)
        PROVE  g[t] = IF t = {} THEN base ELSE Switch!switch_packet(g[t \ {Top(t)}], s[Top(t)])
    <3> HIDE DEF put
    <3> QED
      BY <1>4, <2>2
  <2> HIDE DEF n, put, base
  <2> QED
    BY <1>1, <2>3
<1>6. fold = Body(fold)
  <2> HIDE DEF Body
  <2> QED
    BY <1>5
<1>7. Switch!FoldLeft(Switch!switch_packet, Switch!Nothing, s) = fold[1..n]
  BY <1>1 DEF Switch!FoldLeft, Switch!MapThenFoldSet, Switch!Max, Top
<1> DEFINE F == [i \in 0..n |-> fold[1..i]]
<1>8. \A i \in 0..n : F[i] = fold[1..i]
  <2> HIDE DEF fold
  <2> QED
    OBVIOUS
<1> HIDE DEF F
<1>9. F[0] = base
  <2>1. 1..0 = {} /\ {} \in SUBSET (DOMAIN s) /\ 0 \in 0..n
    BY <1>1
  <2>2. Body(fold)[{}] = base
    <3> HIDE DEF fold, base
    <3> QED
      BY <2>1
  <2> HIDE DEF base, fold, Body
  <2> QED
    BY <1>6, <1>8, <2>1, <2>2
<1>10. \A i \in 1..n : F[i] = Switch!switch_packet(F[i - 1], s[i])
  <2> SUFFICES ASSUME NEW i \in 1..n PROVE F[i] = Switch!switch_packet(F[i - 1], s[i])
    OBVIOUS
  <2>1. 1..i \in SUBSET (DOMAIN s) /\ 1..i # {} /\ Top(1..i) = i /\ (1..i) \ {Top(1..i)} = 1..i - 1
    BY <1>1, FoldsAlong
  <2>2. i \in 0..n /\ i - 1 \in 0..n
    BY <1>1
  <2>3. Body(fold)[1..i] = Switch!switch_packet(fold[1..i - 1], s[i])
    <3> HIDE DEF fold, base
    <3> QED
      BY <2>1
  <2> HIDE DEF base, n, fold, Body
  <2> QED
    BY <1>6, <1>8, <2>2, <2>3
<1>11. F \in [0..n -> Out]
  <2> DEFINE T == {m \in Nat : m <= n => F[m] \in Out}
  <2>1. 0 \in T
    BY <1>2, <1>9
  <2>2. ASSUME NEW m \in Nat, m \in T PROVE m + 1 \in T
    <3> SUFFICES ASSUME m + 1 <= n PROVE F[m + 1] \in Out
      OBVIOUS
    <3>1. m + 1 \in 1..n /\ m <= n /\ (m + 1) - 1 = m
      BY <1>1
    <3>2. F[m] \in Out /\ s[m + 1] \in Addressed /\ F[m + 1] = Switch!switch_packet(F[m], s[m + 1])
      BY <1>1, <1>10, <2>2, <3>1
    <3> QED
      BY <3>2, SwitchPacket
  <2>3. Nat \subseteq T
    <3> HIDE DEF T
    <3> QED
      BY <2>1, <2>2, Induction
  <2>4. \A m \in 0..n : F[m] \in Out
    BY <1>1, <2>3
  <2>5. F = [m \in 0..n |-> F[m]]
    BY DEF F
  <2> QED
    BY <2>4, <2>5
<1>12. F[n] = fold[1..n]
  <2> HIDE DEF fold
  <2> QED
    BY <1>1, <1>8
<1> HIDE DEF fold, base
<1>13. Switch!FoldLeft(Switch!switch_packet, Switch!Nothing, s) = F[n]
  BY <1>7, <1>12
<1> QED
  BY <1>9, <1>10, <1>11, <1>13 DEF base
-----------------------------------------------------------------------------
(* The sequences flattened so far, one more at a time.                     *)
Flattens(F, msgs, S) ==
    /\ F \in [0..Len(msgs) -> Seq(S)] /\ F[0] = <<>>
    /\ \A i \in 1..Len(msgs) : F[i] = F[i - 1] \o msgs[i]

LEMMA FlattenIs ==
    ASSUME NEW S, NEW msgs \in Seq(Seq(S)), NEW F, Flattens(F, msgs, S)
    PROVE  FlattenSeq(msgs) = F[Len(msgs)]
<1>1. /\ Len(msgs) \in Nat /\ F \in [0..Len(msgs) -> Seq(S)] /\ F[0] = <<>>
      /\ \A i \in 1..Len(msgs) : F[i] = F[i - 1] \o msgs[i]
  BY LenProperties DEF Flattens
<1>2. CASE Len(msgs) = 0
  <2>1. msgs = <<>>
    BY <1>2, EmptySeq
  <2>2. FlattenSeq(<<>>) = <<>>
    BY DEF FlattenSeq
  <2> QED
    BY <1>1, <1>2, <2>1, <2>2
<1>3. CASE Len(msgs) > 0
  <2> DEFINE n == Len(msgs)
             joined == [i \in 1..n |-> F[i]]
  <2>1. n \in Nat \ {0}
    BY <1>1, <1>3
  <2>2. joined = [i \in 1..n |-> joined[i]]
    OBVIOUS
  <2>3. joined[1] = msgs[1]
    <3>1. 1 \in 1..n /\ msgs[1] \in Seq(S)
      BY <2>1, ElementOfSeq
    <3>2. F[1] = F[1 - 1] \o msgs[1]
      BY <1>1, <3>1, Zenon
    <3>3. F[1] = <<>> \o msgs[1]
      <4>1. 1 - 1 = 0
        OBVIOUS
      <4> QED
        BY <1>1, <3>2, <4>1, Zenon
    <3>4. <<>> \o msgs[1] = msgs[1]
      BY <3>1, ConcatEmptySeq
    <3> QED
      BY <3>1, <3>3, <3>4
  <2>4. ASSUME NEW i \in 2..n PROVE joined[i] = joined[i - 1] \o msgs[i]
    <3>1. i \in 1..n /\ i - 1 \in 1..n
      BY <2>1
    <3>2. F[i] = F[i - 1] \o msgs[i]
      BY <1>1, <3>1
    <3> QED
      BY <3>1, <3>2
  <2>5. Len(msgs) = n /\ joined[n] = F[n]
    BY <2>1
  <2> HIDE DEF joined, n
  <2>6. FlattenSeq(msgs) = joined[n]
    BY <2>1, <2>2, <2>3, <2>4, <2>5, FlattenJoins
  <2> QED
    BY <2>5, <2>6
<1> QED
  BY <1>1, <1>2, <1>3

LEMMA FlattenExists ==
    ASSUME NEW S, NEW msgs \in Seq(Seq(S))
    PROVE  \E F : Flattens(F, msgs, S)
<1> DEFINE T == {m \in Nat : m <= Len(msgs) => \E F \in [0..m -> Seq(S)] :
                      F[0] = <<>> /\ \A i \in 1..m : F[i] = F[i - 1] \o msgs[i]}
<1>1. Len(msgs) \in Nat
  BY LenProperties
<1>2. 0 \in T
  <2> DEFINE F == [i \in 0..0 |-> <<>>]
  <2>1. F \in [0..0 -> Seq(S)] /\ F[0] = <<>> /\ \A i \in 1..0 : F[i] = F[i - 1] \o msgs[i]
    BY EmptySeq
  <2> QED
    BY <2>1
<1>3. ASSUME NEW m \in Nat, m \in T PROVE m + 1 \in T
  <2> SUFFICES ASSUME m + 1 <= Len(msgs)
               PROVE  \E F \in [0..m + 1 -> Seq(S)] :
                         F[0] = <<>> /\ \A i \in 1..m + 1 : F[i] = F[i - 1] \o msgs[i]
    <3>1. m + 1 \in Nat
      OBVIOUS
    <3> QED
      BY <3>1, Zenon
  <2>1. m <= Len(msgs) /\ m + 1 \in 1..Len(msgs)
    BY <1>1
  <2>2. PICK F \in [0..m -> Seq(S)] : F[0] = <<>> /\ \A i \in 1..m : F[i] = F[i - 1] \o msgs[i]
    BY <1>3, <2>1
  <2>3. F[m] \in Seq(S) /\ msgs[m + 1] \in Seq(S)
    BY <2>1, ElementOfSeq
  <2>4. F[m] \o msgs[m + 1] \in Seq(S)
    BY <2>3, ConcatProperties
  <2> DEFINE G == [i \in 0..m + 1 |-> IF i = m + 1 THEN F[m] \o msgs[m + 1] ELSE F[i]]
  <2>5. G \in [0..m + 1 -> Seq(S)]
    <3>1. ASSUME NEW i \in 0..m + 1 PROVE G[i] \in Seq(S)
      <4>1. CASE i = m + 1
        BY <2>4, <4>1
      <4>2. CASE i # m + 1
        <5>1. i \in 0..m
          BY <4>2
        <5> QED
          BY <4>2, <5>1
      <4> QED
        BY <4>1, <4>2
    <3> QED
      BY <3>1
  <2>6. G[0] = <<>>
    BY <2>2
  <2>7. ASSUME NEW i \in 1..m + 1 PROVE G[i] = G[i - 1] \o msgs[i]
    <3>1. i - 1 \in 0..m /\ G[i - 1] = F[i - 1]
      OBVIOUS
    <3>2. CASE i = m + 1
      <4>1. i - 1 = m /\ m + 1 \in 0..m + 1
        BY <3>2
      <4>2. G[m + 1] = F[m] \o msgs[m + 1]
        BY <4>1
      <4> HIDE DEF G
      <4> QED
        BY <3>1, <3>2, <4>1, <4>2, Zenon
    <3>3. CASE i # m + 1
      <4>1. i \in 1..m /\ i \in 0..m + 1
        BY <3>3
      <4> QED
        BY <2>2, <3>1, <3>3, <4>1
    <3> QED
      BY <3>2, <3>3
  <2> HIDE DEF G
  <2> QED
    BY <2>5, <2>6, <2>7
<1>4. Len(msgs) \in T
  <2> HIDE DEF T
  <2> QED
    BY <1>1, <1>2, <1>3, Induction
<1>5. Len(msgs) <= Len(msgs)
  BY <1>1
<1> QED
  BY <1>4, <1>5, Zenon DEF Flattens

LEMMA FlattenType ==
    ASSUME NEW S, NEW msgs \in Seq(Seq(S))
    PROVE  FlattenSeq(msgs) \in Seq(S)
<1>1. PICK F : Flattens(F, msgs, S)
  BY FlattenExists
<1>2. FlattenSeq(msgs) = F[Len(msgs)] /\ Len(msgs) \in Nat
  BY <1>1, FlattenIs, LenProperties
<1> QED
  BY <1>1, <1>2 DEF Flattens

-----------------------------------------------------------------------------
(* The packets due at a port, of those that arrived so far.                *)
Dues(D, s, p) ==
    /\ D \in [0..Len(s) -> Seq(Addressed)] /\ D[0] = <<>>
    /\ \A i \in 1..Len(s) :
          D[i] = IF Switch!Deliverable(s[i], p) THEN Append(D[i - 1], s[i]) ELSE D[i - 1]

LEMMA DuesExist ==
    ASSUME NEW s \in Seq(Addressed), NEW p
    PROVE  \E D : Dues(D, s, p)
<1> DEFINE Grows(D, i) == D[i] = IF Switch!Deliverable(s[i], p) THEN Append(D[i - 1], s[i]) ELSE D[i - 1]
           T == {m \in Nat : m <= Len(s) => \E D \in [0..m -> Seq(Addressed)] :
                      D[0] = <<>> /\ \A i \in 1..m : Grows(D, i)}
<1>1. Len(s) \in Nat
  BY LenProperties
<1>2. 0 \in T
  <2> DEFINE D == [i \in 0..0 |-> <<>>]
  <2>1. D \in [0..0 -> Seq(Addressed)] /\ D[0] = <<>> /\ \A i \in 1..0 : Grows(D, i)
    BY EmptySeq
  <2> QED
    BY <2>1
<1>3. ASSUME NEW m \in Nat, m \in T PROVE m + 1 \in T
  <2> SUFFICES ASSUME m + 1 <= Len(s)
               PROVE  \E D \in [0..m + 1 -> Seq(Addressed)] : D[0] = <<>> /\ \A i \in 1..m + 1 : Grows(D, i)
    <3>1. m + 1 \in Nat
      OBVIOUS
    <3> QED
      BY <3>1, Zenon
  <2>1. m <= Len(s) /\ m + 1 \in 1..Len(s)
    BY <1>1
  <2>2. PICK D \in [0..m -> Seq(Addressed)] : D[0] = <<>> /\ \A i \in 1..m : Grows(D, i)
    BY <1>3, <2>1
  <2> DEFINE last == IF Switch!Deliverable(s[m + 1], p) THEN Append(D[m], s[m + 1]) ELSE D[m]
  <2>3. last \in Seq(Addressed)
    <3>1. D[m] \in Seq(Addressed) /\ s[m + 1] \in Addressed
      BY <2>1, ElementOfSeq
    <3> QED
      BY <3>1, AppendProperties
  <2> DEFINE G == [i \in 0..m + 1 |-> IF i = m + 1 THEN last ELSE D[i]]
  <2>4. last = IF Switch!Deliverable(s[m + 1], p) THEN Append(D[m], s[m + 1]) ELSE D[m]
    OBVIOUS
  <2> HIDE DEF last
  <2>5. G \in [0..m + 1 -> Seq(Addressed)]
    <3>1. ASSUME NEW i \in 0..m + 1 PROVE G[i] \in Seq(Addressed)
      <4>1. CASE i = m + 1
        BY <2>3, <4>1
      <4>2. CASE i # m + 1
        <5>1. i \in 0..m
          BY <4>2
        <5> QED
          BY <4>2, <5>1
      <4> QED
        BY <4>1, <4>2
    <3> QED
      BY <3>1
  <2>6. G[0] = <<>>
    BY <2>2
  <2>7. ASSUME NEW i \in 1..m + 1 PROVE Grows(G, i)
    <3>1. i - 1 \in 0..m /\ G[i - 1] = D[i - 1]
      OBVIOUS
    <3>2. CASE i = m + 1
      <4>1. i - 1 = m /\ m + 1 \in 0..m + 1
        BY <3>2
      <4>2. G[m + 1] = last
        BY <4>1
      <4> HIDE DEF G
      <4> QED
        BY <2>4, <3>1, <3>2, <4>1, <4>2, Zenon
    <3>3. CASE i # m + 1
      <4>1. i \in 1..m /\ i \in 0..m + 1
        BY <3>3
      <4>2. G[i] = D[i]
        BY <3>3, <4>1
      <4> HIDE DEF G
      <4> QED
        BY <2>2, <3>1, <4>1, <4>2
    <3> QED
      BY <3>2, <3>3
  <2> HIDE DEF G, Grows
  <2> QED
    BY <2>5, <2>6, <2>7
<1>4. Len(s) \in T
  <2> HIDE DEF T
  <2> QED
    BY <1>1, <1>2, <1>3, Induction
<1>5. Len(s) <= Len(s)
  BY <1>1
<1> QED
  BY <1>4, <1>5, Zenon DEF Dues

LEMMA DueIs ==
    ASSUME NEW D, NEW p, Switch!Arrivals \in Seq(Addressed), Dues(D, Switch!Arrivals, p)
    PROVE  Switch!Due(p) = D[Len(Switch!Arrivals)]
<1> DEFINE s == Switch!Arrivals
           n == Len(s)
           Body(f) == [i \in 0..n |->
                         IF i = 0 THEN <<>>
                         ELSE IF Switch!Deliverable(s[i], p) THEN Append(f[i - 1], s[i]) ELSE f[i - 1]]
           due == CHOOSE f : f = Body(f)
<1>1. n \in Nat
  BY LenProperties
<1>2. /\ D \in [0..n -> Seq(Addressed)] /\ D[0] = <<>>
      /\ \A i \in 1..n : D[i] = IF Switch!Deliverable(s[i], p) THEN Append(D[i - 1], s[i]) ELSE D[i - 1]
  BY DEF Dues
<1>3. Switch!Due(p) = due[n]
  BY DEF Switch!Due
<1> HIDE DEF s, n
<1>4. D = Body(D)
  <2>1. ASSUME NEW i \in 0..n
        PROVE  D[i] = IF i = 0 THEN <<>>
                      ELSE IF Switch!Deliverable(s[i], p) THEN Append(D[i - 1], s[i]) ELSE D[i - 1]
    <3>1. CASE i = 0
      BY <1>2, <3>1
    <3>2. CASE i # 0
      <4>1. i \in 1..n
        BY <1>1, <3>2
      <4> QED
        BY <1>2, <3>2, <4>1, Zenon
    <3> QED
      BY <3>1, <3>2
  <2>2. D = [i \in 0..n |-> D[i]]
    BY <1>2
  <2> QED
    BY <2>1, <2>2, Zenon
<1>5. due = Body(due)
  <2> HIDE DEF Body
  <2> QED
    BY <1>4
<1> HIDE DEF due
<1> DEFINE T == {m \in Nat : m <= n => due[m] = D[m]}
<1>6. 0 \in T
  <2>1. 0 \in 0..n
    BY <1>1
  <2>2. due[0] = <<>>
    BY <1>5, <2>1
  <2> QED
    BY <1>2, <2>2
<1>7. ASSUME NEW m \in Nat, m \in T PROVE m + 1 \in T
  <2> SUFFICES ASSUME m + 1 <= n PROVE due[m + 1] = D[m + 1]
    OBVIOUS
  <2>1. m + 1 \in 1..n /\ m + 1 \in 0..n /\ (m + 1) - 1 = m /\ m + 1 # 0 /\ m <= n
    BY <1>1
  <2>2. due[m + 1] = IF Switch!Deliverable(s[m + 1], p) THEN Append(due[(m + 1) - 1], s[m + 1]) ELSE due[(m + 1) - 1]
    BY <1>5, <2>1
  <2>3. D[m + 1] = IF Switch!Deliverable(s[m + 1], p) THEN Append(D[(m + 1) - 1], s[m + 1]) ELSE D[(m + 1) - 1]
    BY <1>2, <2>1, Zenon
  <2>4. due[m] = D[m]
    BY <1>7, <2>1
  <2> HIDE DEF Body
  <2> QED
    BY <2>1, <2>2, <2>3, <2>4
<1>8. n \in T
  <2> HIDE DEF T
  <2> QED
    BY <1>1, <1>6, <1>7, Induction
<1>9. due[n] = D[n]
  BY <1>1, <1>8
<1> QED
  BY <1>3, <1>9 DEF n, s

(* As many of them as the duct of the port carries.                        *)
Carried(due, m) == [j \in 1..Switch!Min({m, Len(due)}) |-> Switch!Popped(due[j])]

LEMMA MinOfTwo ==
    ASSUME NEW a \in Nat, NEW b \in Nat
    PROVE  Switch!Min({a, b}) = IF a <= b THEN a ELSE b
<1>1. \E x \in {a, b} : \A y \in {a, b} : x <= y
  OBVIOUS
<1>2. Switch!Min({a, b}) \in {a, b} /\ \A y \in {a, b} : Switch!Min({a, b}) <= y
  BY <1>1 DEF Switch!Min
<1> QED
  BY <1>2

LEMMA CarriedNone ==
    ASSUME NEW due, NEW m, Switch!Min({m, Len(due)}) = 0
    PROVE  Carried(due, m) = <<>>
<1> DEFINE lot == [j \in 1..0 |-> Switch!Popped(due[j])]
<1>1. Carried(due, m) = lot
  BY Zenon DEF Carried
<1>2. lot \in Seq(Nat) /\ Len(lot) = 0
  OBVIOUS
<1> HIDE DEF lot
<1> QED
  BY <1>1, <1>2, EmptySeq

LEMMA CarriedMore ==
    ASSUME NEW due \in Seq(Addressed), NEW x \in Addressed, NEW m \in Nat
    PROVE  Carried(Append(due, x), m) = IF Len(Carried(due, m)) < m
                                        THEN Append(Carried(due, m), Switch!Popped(x)) ELSE Carried(due, m)
<1> DEFINE n == Len(due)
           more == Append(due, x)
<1>1. n \in Nat /\ Len(more) = n + 1 /\ more[n + 1] = x /\ \A j \in 1..n : more[j] = due[j]
  BY AppendProperties, LenProperties
<1> HIDE DEF n, more
<1>2. Switch!Min({m, n}) = (IF m <= n THEN m ELSE n) /\ Switch!Min({m, n + 1}) = (IF m <= n + 1 THEN m ELSE n + 1)
  BY <1>1, MinOfTwo
<1> DEFINE lot == Carried(due, m)
<1>3. lot = [j \in 1..Switch!Min({m, n}) |-> Switch!Popped(due[j])]
  BY DEF Carried, n
<1>4. Carried(more, m) = [j \in 1..Switch!Min({m, n + 1}) |-> Switch!Popped(more[j])]
  BY <1>1 DEF Carried
<1>5. CASE m <= n
  <2>1. lot = [j \in 1..m |-> Switch!Popped(due[j])] /\ Carried(more, m) = [j \in 1..m |-> Switch!Popped(more[j])]
    BY <1>1, <1>2, <1>3, <1>4, <1>5
  <2>2. Len(lot) = m
    BY <2>1
  <2>3. \A j \in 1..m : more[j] = due[j]
    BY <1>1, <1>5
  <2> HIDE DEF lot
  <2>4. Carried(more, m) = lot
    BY <2>1, <2>3
  <2> QED
    BY <2>2, <2>4 DEF lot, more
<1>6. CASE n < m
  <2>1. lot = [j \in 1..n |-> Switch!Popped(due[j])] /\ Carried(more, m) = [j \in 1..n + 1 |-> Switch!Popped(more[j])]
    BY <1>1, <1>2, <1>3, <1>4, <1>6
  <2>2. Len(lot) = n
    BY <1>1, <2>1
  <2>3. \A j \in 1..n : Switch!Popped(due[j]) \in Seq(Nat)
    <3>1. \A j \in 1..n : due[j] \in Addressed
      BY ElementOfSeq DEF n
    <3> QED
      BY <3>1, PoppedType
  <2>4. lot \in Seq(Seq(Nat)) /\ Switch!Popped(x) \in Seq(Nat)
    BY <1>1, <2>1, <2>3, PoppedType
  <2> HIDE DEF lot
  <2> DEFINE longer == Append(lot, Switch!Popped(x))
  <2>5. /\ longer \in Seq(Seq(Nat)) /\ Len(longer) = n + 1 /\ longer[n + 1] = Switch!Popped(x)
        /\ \A j \in 1..n : longer[j] = lot[j]
    BY <2>2, <2>4, AppendProperties
  <2> HIDE DEF longer
  <2>6. longer = [j \in 1..n + 1 |-> longer[j]]
    BY <2>5, LenProperties
  <2>7. ASSUME NEW j \in 1..n + 1 PROVE longer[j] = Switch!Popped(more[j])
    <3>1. CASE j = n + 1
      BY <1>1, <2>5, <3>1
    <3>2. CASE j # n + 1
      <4>1. j \in 1..n
        BY <1>1, <3>2
      <4> QED
        BY <1>1, <2>1, <2>5, <4>1
    <3> QED
      BY <3>1, <3>2
  <2>8. Carried(more, m) = longer
    BY <2>1, <2>6, <2>7, Zenon
  <2> QED
    BY <1>6, <2>2, <2>8 DEF longer, lot, more
<1> QED
  BY <1>1, <1>5, <1>6

LEMMA SwitchCarries ==
    ASSUME NEW s \in Seq(Addressed), NEW p \in Outbound, NEW D, Dues(D, s, p)
    PROVE  Switch!FoldLeft(Switch!switch_packet, Switch!Nothing, s)[p] = Carried(D[Len(s)], PortFlow[p])
<1> DEFINE n == Len(s)
           m == PortFlow[p]
<1>1. n \in Nat /\ \A i \in 1..n : s[i] \in Addressed
  BY LenProperties, ElementOfSeq
<1>2. p \in Switch!Ports /\ m \in Nat
  BY SwitchConstants
<1>3. PICK F \in [0..n -> Out] :
         /\ F[0] = Switch!Nothing
         /\ \A i \in 1..n : F[i] = Switch!switch_packet(F[i - 1], s[i])
         /\ Switch!FoldLeft(Switch!switch_packet, Switch!Nothing, s) = F[n]
  BY SwitchFolds
<1>4. /\ D \in [0..n -> Seq(Addressed)] /\ D[0] = <<>>
      /\ \A i \in 1..n : D[i] = IF Switch!Deliverable(s[i], p) THEN Append(D[i - 1], s[i]) ELSE D[i - 1]
  BY DEF Dues
<1> HIDE DEF n, m
<1> DEFINE T == {i \in Nat : i <= n => F[i][p] = Carried(D[i], m)}
<1>5. 0 \in T
  <2>1. F[0][p] = <<>>
    BY <1>2, <1>3 DEF Switch!Nothing
  <2>2. Switch!Min({m, Len(<<>>)}) = 0
    <3>1. Len(<<>>) = 0 /\ 0 \in Nat
      OBVIOUS
    <3> QED
      BY <1>2, <3>1, MinOfTwo
  <2>3. Carried(<<>>, m) = <<>>
    BY <2>2, CarriedNone
  <2> QED
    BY <1>4, <2>1, <2>3
<1>6. ASSUME NEW i \in Nat, i \in T PROVE i + 1 \in T
  <2> SUFFICES ASSUME i + 1 <= n PROVE F[i + 1][p] = Carried(D[i + 1], m)
    OBVIOUS
  <2>1. i + 1 \in 1..n /\ i \in 0..n /\ (i + 1) - 1 = i /\ i <= n
    BY <1>1
  <2>2. F[i] \in Out /\ s[i + 1] \in Addressed /\ D[i] \in Seq(Addressed)
    BY <1>1, <1>3, <1>4, <2>1
  <2>3. F[i + 1] = Switch!switch_packet(F[i], s[i + 1])
    BY <1>3, <2>1
  <2>4. D[i + 1] = IF Switch!Deliverable(s[i + 1], p) THEN Append(D[i], s[i + 1]) ELSE D[i]
    <3>1. D[i + 1] = IF Switch!Deliverable(s[i + 1], p) THEN Append(D[(i + 1) - 1], s[i + 1]) ELSE D[(i + 1) - 1]
      BY <1>4, <2>1, Zenon
    <3> QED
      BY <2>1, <3>1
  <2>5. F[i + 1][p] = IF Switch!Deliverable(s[i + 1], p) /\ Len(F[i][p]) < m
                      THEN Append(F[i][p], Switch!Popped(s[i + 1])) ELSE F[i][p]
    BY <2>2, <2>3, SwitchPacket DEF m
  <2>6. F[i][p] = Carried(D[i], m)
    BY <1>6, <2>1
  <2>7. Carried(Append(D[i], s[i + 1]), m) = IF Len(Carried(D[i], m)) < m
                      THEN Append(Carried(D[i], m), Switch!Popped(s[i + 1])) ELSE Carried(D[i], m)
    BY <1>2, <2>2, CarriedMore
  <2>8. CASE Switch!Deliverable(s[i + 1], p)
    BY <2>4, <2>5, <2>6, <2>7, <2>8
  <2>9. CASE ~Switch!Deliverable(s[i + 1], p)
    BY <2>4, <2>5, <2>6, <2>9
  <2> QED
    BY <2>8, <2>9
<1>7. n \in T
  <2> HIDE DEF T
  <2> QED
    BY <1>1, <1>5, <1>6, Induction
<1>8. F[n][p] = Carried(D[n], m)
  BY <1>1, <1>7
<1> QED
  BY <1>3, <1>8 DEF n, m

-----------------------------------------------------------------------------
(* What is in the inbound boxes.                                           *)
Loaded == inbound \in [Switch!Ports -> Seq(Addressed)]

LEMMA ArrivalsType ==
    ASSUME Loaded
    PROVE  Switch!Arrivals \in Seq(Addressed)
<1>1. LastPort \in Nat /\ Switch!Ports = 1..LastPort
  BY SwitchConstants
<1> DEFINE boxes == [p \in Switch!Ports |-> inbound[p]]
<1>2. boxes \in Seq(Seq(Addressed))
  BY <1>1 DEF Loaded
<1>3. FlattenSeq(boxes) \in Seq(Addressed)
  <2> HIDE DEF boxes
  <2> QED
    BY <1>2, FlattenType
<1>4. Switch!Arrivals = FlattenSeq(boxes)
  BY DEF Switch!Arrivals, Switch!FlattenSeq, FlattenSeq
<1> QED
  BY <1>3, <1>4

LEMMA PacketsType == Switch!Packets \subseteq Addressed
<1> SUFFICES ASSUME NEW packet \in Switch!Packets PROVE packet \in Addressed
  OBVIOUS
<1>1. PICK destination \in Switch!Destinations, n \in 0..MaxLength - 1 :
         packet = Switch!Packet(destination, n)
  BY DEF Switch!Packets
<1>2. destination \in Nat /\ n \in Nat
  BY SwitchConstants DEF Switch!Destinations, Switch!SWITCH_ROUTE_BASE
<1>3. <<destination>> \in Seq(Nat) /\ Len(<<destination>>) = 1 /\ [i \in 1..n |-> 0] \in Seq(Nat)
  BY <1>2
<1>4. packet \in Seq(Nat) /\ Len(packet) = 1 + Len([i \in 1..n |-> 0]) /\ Len([i \in 1..n |-> 0]) \in Nat
  BY <1>1, <1>3, ConcatProperties, LenProperties DEF Switch!Packet
<1>5. Len(packet) # 0
  BY <1>4
<1>6. packet # <<>>
  BY <1>5
<1> QED
  BY <1>4, <1>6 DEF Addressed

LEMMA NothingLoaded == Switch!Nothing \in [Switch!Ports -> Seq(Addressed)]
  BY EmptySeq DEF Switch!Nothing

LEMMA LoadedInit ==
    ASSUME MCInit
    PROVE  Loaded
  BY NothingLoaded DEF MCInit, Switch!Init, Loaded

LEMMA LoadedNext ==
    ASSUME Loaded, [MCNext]_<<vars, vars2, svars, rvars, instance>>
    PROVE  Loaded'
<1>1. CASE UNCHANGED svars
  BY <1>1 DEF svars, Loaded
<1>2. CASE Switch!switch_io_clip
  BY <1>2, NothingLoaded DEF Switch!switch_io_clip, Loaded
<1>3. CASE Switch!Sends
  <2>1. PICK p \in Inbound, packet \in Switch!Packets : inbound' = [inbound EXCEPT ![p] = Append(@, packet)]
    BY <1>3 DEF Switch!Sends
  <2>2. p \in Switch!Ports /\ packet \in Addressed
    BY SwitchConstants, PacketsType
  <2>3. Append(inbound[p], packet) \in Seq(Addressed)
    BY <2>2, AppendProperties DEF Loaded
  <2> QED
    BY <2>1, <2>2, <2>3 DEF Loaded
<1>4. UNCHANGED svars \/ Switch!switch_io_clip \/ Switch!Sends
  BY DEF MCNext, Switch!Next
<1> QED
  BY <1>1, <1>2, <1>3, <1>4

LEMMA RoutedNow ==
    ASSUME Loaded, Switch!switch_io_clip, NEW p \in Outbound
    PROVE  outbound'[p] = [i \in 1..Switch!Min({PortFlow[p], Len(Switch!Due(p))}) |->
                             Switch!Popped(Switch!Due(p)[i])]
<1>1. Switch!Arrivals \in Seq(Addressed)
  BY ArrivalsType
<1>2. PICK D : Dues(D, Switch!Arrivals, p)
  BY <1>1, DuesExist
<1>3. Switch!Due(p) = D[Len(Switch!Arrivals)]
  BY <1>1, <1>2, DueIs
<1>4. outbound' = Switch!FoldLeft(Switch!switch_packet, Switch!Nothing, Switch!Arrivals)
  BY DEF Switch!switch_io_clip
<1>5. outbound'[p] = Carried(Switch!Due(p), PortFlow[p])
  BY <1>1, <1>2, <1>3, <1>4, SwitchCarries
<1> QED
  BY <1>5 DEF Carried

(* Whatever the ports, the routes and the sizes of the boxes, and whatever *)
(* the clips send: an outbound port of the switch gets, in every epoch,    *)
(* the first of the packets that arrived for it and could be sent on, as   *)
(* many as its duct carries, whole and in the order of their arrival.      *)
THEOREM SwitchRoutes == MCSpec => MCRouted
<1>1. MCInit => Loaded
  BY LoadedInit
<1>2. Loaded /\ [MCNext]_<<vars, vars2, svars, rvars, instance>> => Loaded'
  BY LoadedNext
<1>3. Loaded => (Switch!switch_io_clip => \A p \in Outbound :
          outbound'[p] = [i \in 1..Switch!Min({PortFlow[p], Len(Switch!Due(p))}) |->
                            Switch!Popped(Switch!Due(p)[i])])
  BY RoutedNow
<1> QED
  BY <1>1, <1>2, <1>3, PTL DEF MCSpec, MCRouted, Switch!Routed

-----------------------------------------------------------------------------
(* The router.  Who is where: what comes from the flight computer goes to  *)
(* a device, and what comes from a device to the flight computer.          *)

Held == {packet \in Router!Packets : packet.to # Router!Nobody} \cup {Router!NoPacket}
Kept == Router!Packets \cup {Router!NoPacket}

Networks == [fifo : [Router!Ports -> Held], sending : [Router!Ports -> Router!Ports \cup {Router!Nobody}],
             outbox : Kept, inbox : Kept, pending : SUBSET Router!Events]

LEMMA RouterConstants ==
    /\ Router!Ports = Devices \cup {Router!FCE} /\ Router!FCE \notin Devices /\ Router!FCE \in Nat
    /\ Router!Nobody \notin Router!Ports /\ Router!Ports \subseteq Nat
    /\ IsFiniteSet(Devices) /\ MaxPackets \in Nat
    /\ Router!NoPacket.to = Router!Nobody /\ Router!NoPacket \notin Router!Packets
<1>1. /\ Router!Ports = Devices \cup {Router!FCE} /\ Router!FCE \notin Devices /\ Router!FCE \in Nat
      /\ Router!Nobody \notin Router!Ports /\ Router!Ports \subseteq Nat /\ MaxPackets \in Nat
  BY CarrierAssumption DEF Router!RouterAssumption, Router!Ports, Router!FCE, Router!Nobody
<1>2. IsFiniteSet(Devices)
  BY CarrierAssumption DEF Router!RouterAssumption, Router!IsFiniteSet, IsFiniteSet
<1>3. Router!NoPacket.to = Router!Nobody /\ Router!NoPacket.number = 0
  BY DEF Router!NoPacket
<1>4. Router!NoPacket \notin Router!Packets
  BY <1>3 DEF Router!Packets
<1> QED
  BY <1>1, <1>2, <1>3, <1>4

LEMMA RouterEvents ==
    /\ \A p \in Router!Ports : <<"fifo", p>> \in Router!Events /\ <<"mux", p>> \in Router!Events
    /\ <<"outbox", Router!FCE>> \in Router!Events /\ <<"inbox", Router!FCE>> \in Router!Events
  BY DEF Router!Events

Shaped(n) ==
    /\ n \in Networks
    /\ n.outbox.to # Router!FCE
    /\ n.fifo[Router!FCE].to # Router!FCE
    /\ \A d \in Devices : n.fifo[d] # Router!NoPacket => n.fifo[d].to = Router!FCE

(* Where the multiplexers point.                                           *)
Led(n) ==
    /\ \A d \in Devices : n.sending[d] = IF n.fifo[Router!FCE].to = d THEN Router!FCE ELSE Router!Nobody
    /\ IF n.sending[Router!FCE] = Router!Nobody THEN \A d \in Devices : n.fifo[d] = Router!NoPacket
       ELSE n.sending[Router!FCE] \in Devices /\ n.fifo[n.sending[Router!FCE]] # Router!NoPacket

(* Who is about to be told.                                                *)
DeviceTold(n, d) ==
    Router!HasPacketAvailable(n, d) /\ Router!CanAcceptPacket(n, d)
        => <<"fifo", d>> \in n.pending \/ <<"mux", d>> \in n.pending
OutboxTold(n) ==
    n.outbox # Router!NoPacket /\ Router!CanAcceptPacket(n, Router!FCE)
        => <<"fifo", Router!FCE>> \in n.pending \/ <<"outbox", Router!FCE>> \in n.pending
InboxTold(n) ==
    Router!HasPacketAvailable(n, Router!FCE) /\ n.inbox = Router!NoPacket
        => <<"mux", Router!FCE>> \in n.pending \/ <<"inbox", Router!FCE>> \in n.pending

(* What a device was asked, in which order: what it has answered, what is  *)
(* on its way back, and what is on its way to it.                          *)
AnsweredBefore(s, a, d, k) == \A i \in DOMAIN a : s[a[i]].to = d => a[i] < k
InboxBefore(n, s, a, d, k) ==
    /\ AnsweredBefore(s, a, d, k)
    /\ n.inbox # Router!NoPacket /\ s[n.inbox.number].to = d => n.inbox.number < k
DeviceBefore(n, s, a, d, k) ==
    /\ InboxBefore(n, s, a, d, k)
    /\ n.fifo[d] # Router!NoPacket => n.fifo[d].number < k
FifoBefore(n, s, a, d, k) ==
    /\ DeviceBefore(n, s, a, d, k)
    /\ n.fifo[Router!FCE].to = d => n.fifo[Router!FCE].number < k

(* Every packet is one of those sent, by the number it has.                *)
Known(n, s, a) ==
    /\ \A i \in DOMAIN a : a[i] \in DOMAIN s
    /\ n.inbox # Router!NoPacket => n.inbox.number \in DOMAIN s
    /\ \A d \in Devices : n.fifo[d] # Router!NoPacket
          => n.fifo[d].number \in DOMAIN s /\ s[n.fifo[d].number].to = d
    /\ n.fifo[Router!FCE] # Router!NoPacket
          => /\ n.fifo[Router!FCE].number \in DOMAIN s
             /\ s[n.fifo[Router!FCE].number].to = n.fifo[Router!FCE].to
    /\ n.outbox # Router!NoPacket
          => n.outbox.number \in DOMAIN s /\ s[n.outbox.number].to = n.outbox.to

Ordered(n, s, a) ==
    /\ n.inbox # Router!NoPacket => AnsweredBefore(s, a, s[n.inbox.number].to, n.inbox.number)
    /\ \A d \in Devices : n.fifo[d] # Router!NoPacket => InboxBefore(n, s, a, d, n.fifo[d].number)
    /\ n.fifo[Router!FCE].to \in Devices
          => DeviceBefore(n, s, a, n.fifo[Router!FCE].to, n.fifo[Router!FCE].number)
    /\ n.outbox.to \in Devices => FifoBefore(n, s, a, n.outbox.to, n.outbox.number)
    /\ \A i, j \in DOMAIN a : i < j /\ s[a[i]].to = s[a[j]].to => a[i] < a[j]

Right(n, s, a) == Shaped(n) /\ Led(n) /\ Known(n, s, a) /\ Ordered(n, s, a)

RouterInv ==
    /\ Right(net, fceSent, answered)
    /\ \A d \in Devices : DeviceTold(net, d)
    /\ OutboxTold(net) /\ InboxTold(net)
    /\ fceSent \in Seq(Router!Packets) /\ Len(fceSent) <= MaxPackets
    /\ answered \in Seq(1..MaxPackets)

LEMMA HeldOr ==
    /\ \A packet \in Held : packet = Router!NoPacket \/ (packet.to \in Router!Ports /\ packet \in Router!Packets)
    /\ \A packet \in Kept : packet = Router!NoPacket \/ packet \in Router!Packets
    /\ Held \subseteq Kept
  BY DEF Held, Kept, Router!Packets

-----------------------------------------------------------------------------
(* What a step does to a network of the right shape.                       *)

(* A packet that waits at the node of the flight computer goes into the    *)
(* FIFO of the router, and the multiplexer of the device is free.          *)
LEMMA PumpOutEffect ==
    ASSUME NEW n, Shaped(n), Led(n)
    PROVE  LET next == Router!PumpOut(n)
               d    == n.outbox.to
           IN  \/ next = n /\ (n.outbox = Router!NoPacket \/ n.fifo[Router!FCE] # Router!NoPacket)
               \/ /\ n.outbox # Router!NoPacket /\ d = Router!Nobody
                  /\ next = [n EXCEPT !.outbox = Router!NoPacket]
               \/ /\ n.outbox # Router!NoPacket /\ n.fifo[Router!FCE] = Router!NoPacket /\ d \in Devices
                  /\ next = [n EXCEPT !.outbox = Router!NoPacket, !.fifo[Router!FCE] = n.outbox,
                                      !.sending[d] = Router!FCE, !.pending = @ \cup {<<"mux", d>>}]
<1> DEFINE d == n.outbox.to
           emptied == [n EXCEPT !.outbox = Router!NoPacket]
<1>1. n \in Networks /\ emptied \in Networks /\ emptied.sending = n.sending
  BY DEF Shaped, Networks, Kept
<1>2. CASE n.outbox = Router!NoPacket \/ n.fifo[Router!FCE] # Router!NoPacket
  BY <1>2 DEF Router!PumpOut, Router!CanAcceptPacket
<1>3. CASE n.outbox # Router!NoPacket /\ n.fifo[Router!FCE] = Router!NoPacket
  <2>1. Router!PumpOut(n) = Router!SendPacket(emptied, Router!FCE, n.outbox)
    BY <1>3 DEF Router!PumpOut, Router!CanAcceptPacket
  <2>2. d \in Devices \cup {Router!Nobody}
    BY <1>1, <1>3, HeldOr, RouterConstants DEF Shaped, Networks, Kept, Router!Packets
  <2>3. CASE d = Router!Nobody
    BY <1>3, <2>1, <2>3 DEF Router!SendPacket
  <2>4. CASE d \in Devices
    <3>1. d # Router!Nobody /\ emptied.sending[d] = Router!Nobody
      BY <1>1, <1>3, <2>4, RouterConstants DEF Led
    <3>2. Router!PumpOut(n) = [[emptied EXCEPT !.fifo[Router!FCE] = n.outbox]
                                  EXCEPT !.sending[d] = Router!FCE, !.pending = @ \cup {<<"mux", d>>}]
      BY <2>1, <3>1 DEF Router!SendPacket
    <3> QED
      BY <1>1, <1>3, <2>4, <3>2 DEF Networks
  <2> QED
    BY <2>2, <2>3, <2>4
<1> QED
  BY <1>2, <1>3

(* A device takes a packet from the FIFO of the flight computer; after     *)
(* that nobody has any for it.                                             *)
LEMMA ProcessedEffect ==
    ASSUME NEW n, Shaped(n), Led(n), NEW d \in Devices
    PROVE  LET next   == Router!Processed(n, d)
               packet == n.fifo[Router!FCE]
           IN  \/ next = n /\ (n.sending[d] = Router!Nobody \/ n.fifo[d] # Router!NoPacket)
               \/ /\ packet # Router!NoPacket /\ packet.to = d /\ n.fifo[d] = Router!NoPacket
                  /\ \/ next = [n EXCEPT !.fifo[Router!FCE] = Router!NoPacket, !.sending[d] = Router!Nobody,
                                         !.pending = @ \cup {<<"fifo", Router!FCE>>}]
                     \/ /\ n.sending[Router!FCE] # Router!Nobody
                        /\ next = [n EXCEPT !.fifo = [@ EXCEPT ![Router!FCE] = Router!NoPacket,
                                                               ![d] = [packet EXCEPT !.to = Router!FCE]],
                                            !.sending[d] = Router!Nobody,
                                            !.pending = @ \cup {<<"fifo", Router!FCE>>}]
                     \/ /\ n.sending[Router!FCE] = Router!Nobody
                        /\ next = [n EXCEPT !.fifo = [@ EXCEPT ![Router!FCE] = Router!NoPacket,
                                                               ![d] = [packet EXCEPT !.to = Router!FCE]],
                                            !.sending = [@ EXCEPT ![d] = Router!Nobody, ![Router!FCE] = d],
                                            !.pending = @ \cup {<<"fifo", Router!FCE>>, <<"mux", Router!FCE>>}]
<1> DEFINE packet == n.fifo[Router!FCE]
           after  == [n EXCEPT !.fifo[Router!FCE] = Router!NoPacket, !.sending[d] = Router!Nobody,
                               !.pending = @ \cup {<<"fifo", Router!FCE>>}]
<1>1. /\ n \in Networks /\ Router!FCE # d /\ Router!FCE # Router!Nobody
      /\ {d, Router!FCE} \subseteq Router!Ports
  BY RouterConstants DEF Shaped
<1>2. CASE n.sending[d] = Router!Nobody \/ n.fifo[d] # Router!NoPacket
  BY <1>2 DEF Router!Processed, Router!HasPacketAvailable, Router!CanAcceptPacket
<1>3. CASE ~(n.sending[d] = Router!Nobody \/ n.fifo[d] # Router!NoPacket)
  <2>1. n.sending[d] = Router!FCE /\ packet.to = d /\ packet # Router!NoPacket /\ n.fifo[d] = Router!NoPacket
    BY <1>1, <1>3, RouterConstants DEF Led
  <2>2. {f \in Router!Ports \ {Router!FCE} : n.fifo[f] # Router!NoPacket /\ n.fifo[f].to = d} = {}
    BY <1>1, RouterConstants DEF Shaped
  <2>3. Router!AfterReceive(n, d) = after
    BY <2>1, <2>2 DEF Router!AfterReceive
  <2>4. Router!Processed(n, d) = IF packet.valid THEN Router!SendPacket(after, d, [packet EXCEPT !.to = Router!FCE])
                                 ELSE after
    BY <1>3, <2>1, <2>3 DEF Router!Processed, Router!HasPacketAvailable, Router!CanAcceptPacket, Router!Received
  <2> DEFINE answer == [packet EXCEPT !.to = Router!FCE]
  <2>5. answer.to = Router!FCE
    BY <1>1, <2>1, HeldOr, RouterConstants DEF Networks, Router!Packets
  <2>6. after.sending[Router!FCE] = n.sending[Router!FCE]
    BY <1>1 DEF Networks
  <2> HIDE DEF answer
  <2>7. CASE ~packet.valid
    BY <2>1, <2>4, <2>7
  <2>8. CASE packet.valid
    <3>1. Router!Processed(n, d) =
            IF n.sending[Router!FCE] # Router!Nobody THEN [after EXCEPT !.fifo[d] = answer]
            ELSE [[after EXCEPT !.fifo[d] = answer]
                    EXCEPT !.sending[Router!FCE] = d, !.pending = @ \cup {<<"mux", Router!FCE>>}]
      BY <1>1, <2>4, <2>5, <2>6, <2>8 DEF Router!SendPacket, answer
    <3>2. CASE n.sending[Router!FCE] # Router!Nobody
      <4>1. [after EXCEPT !.fifo[d] = answer] =
              [n EXCEPT !.fifo = [@ EXCEPT ![Router!FCE] = Router!NoPacket, ![d] = answer],
                        !.sending[d] = Router!Nobody, !.pending = @ \cup {<<"fifo", Router!FCE>>}]
        BY <1>1 DEF Networks
      <4> QED
        BY <2>1, <3>1, <3>2, <4>1 DEF answer
    <3>3. CASE n.sending[Router!FCE] = Router!Nobody
      <4>1. [[after EXCEPT !.fifo[d] = answer]
               EXCEPT !.sending[Router!FCE] = d, !.pending = @ \cup {<<"mux", Router!FCE>>}] =
              [n EXCEPT !.fifo = [@ EXCEPT ![Router!FCE] = Router!NoPacket, ![d] = answer],
                        !.sending = [@ EXCEPT ![d] = Router!Nobody, ![Router!FCE] = d],
                        !.pending = @ \cup {<<"fifo", Router!FCE>>, <<"mux", Router!FCE>>}]
        BY <1>1 DEF Networks
      <4> QED
        BY <2>1, <3>1, <3>3, <4>1 DEF answer
    <3> QED
      BY <3>2, <3>3
  <2> QED
    BY <2>7, <2>8
<1> QED
  BY <1>2, <1>3

LEMMA PumpOutKeeps ==
    ASSUME NEW n, NEW s, NEW a, Right(n, s, a), \A d \in Devices : DeviceTold(n, d), InboxTold(n)
    PROVE  LET next == Router!PumpOut(n)
           IN  /\ Right(next, s, a)
               /\ \A d \in Devices : DeviceTold(next, d)
               /\ OutboxTold(next) /\ InboxTold(next)
<1> DEFINE next == Router!PumpOut(n)
           d == n.outbox.to
<1>1. Shaped(n) /\ Led(n) /\ Known(n, s, a) /\ Ordered(n, s, a) /\ n \in Networks
  BY DEF Right, Shaped
<1>2. CASE next = n /\ (n.outbox = Router!NoPacket \/ n.fifo[Router!FCE] # Router!NoPacket)
  BY <1>2 DEF OutboxTold, Router!CanAcceptPacket
<1>3. CASE /\ n.outbox # Router!NoPacket /\ d = Router!Nobody
           /\ next = [n EXCEPT !.outbox = Router!NoPacket]
  <2> HIDE DEF next, d
  <2>1. /\ next \in Networks /\ next.outbox = Router!NoPacket /\ next.fifo = n.fifo
        /\ next.sending = n.sending /\ next.inbox = n.inbox /\ next.pending = n.pending
    BY <1>1, <1>3 DEF Networks, Kept
  <2>2. next.outbox.to = Router!Nobody /\ Router!Nobody \notin Devices /\ Router!Nobody # Router!FCE
    BY <2>1, RouterConstants
  <2>3. Shaped(next)
    BY <1>1, <2>1, <2>2 DEF Shaped
  <2>4. Led(next)
    BY <1>1, <2>1 DEF Led
  <2>5. Known(next, s, a)
    BY <1>1, <2>1 DEF Known
  <2>6. Ordered(next, s, a)
    BY <1>1, <2>1, <2>2 DEF Ordered, InboxBefore, DeviceBefore
  <2>7. /\ \A e \in Devices : DeviceTold(next, e)
        /\ OutboxTold(next) /\ InboxTold(next)
    BY <2>1 DEF DeviceTold, OutboxTold, InboxTold, Router!CanAcceptPacket, Router!HasPacketAvailable
  <2> QED
    BY <2>3, <2>4, <2>5, <2>6, <2>7 DEF Right, next
<1>4. CASE /\ n.outbox # Router!NoPacket /\ n.fifo[Router!FCE] = Router!NoPacket /\ d \in Devices
           /\ next = [n EXCEPT !.outbox = Router!NoPacket, !.fifo[Router!FCE] = n.outbox,
                               !.sending[d] = Router!FCE, !.pending = @ \cup {<<"mux", d>>}]
  <2> HIDE DEF next
  <2>1. Router!FCE \notin Devices /\ Router!FCE \in Router!Ports /\ d \in Router!Ports /\ d # Router!Nobody
    BY <1>4, RouterConstants
  <2>2. n.outbox \in Held /\ Router!NoPacket \in Kept /\ <<"mux", d>> \in Router!Events
    BY <1>1, <1>4, <2>1, RouterEvents DEF Networks, Kept, Held
  <2>3. next \in Networks
    BY <1>1, <1>4, <2>1, <2>2 DEF Networks
  <2>4. /\ next.outbox = Router!NoPacket /\ next.inbox = n.inbox
        /\ next.fifo[Router!FCE] = n.outbox /\ \A e \in Devices : next.fifo[e] = n.fifo[e]
        /\ next.sending[d] = Router!FCE
        /\ \A e \in Router!Ports \ {d} : next.sending[e] = n.sending[e]
        /\ next.pending = n.pending \cup {<<"mux", d>>}
    BY <1>1, <1>4, <2>1, RouterConstants DEF Networks
  <2>5. next.outbox.to = Router!Nobody /\ Router!Nobody \notin Devices /\ Router!Nobody # Router!FCE
        /\ next.fifo[Router!FCE].to = d /\ n.fifo[Router!FCE].to = Router!Nobody
    BY <1>4, <2>4, RouterConstants
  <2>6. next.sending[Router!FCE] = n.sending[Router!FCE]
    BY <1>4, <2>1, <2>4
  <2>7. Shaped(next)
    BY <1>1, <1>4, <2>1, <2>3, <2>4, <2>5 DEF Shaped
  <2>8. Led(next)
    BY <1>1, <1>4, <2>1, <2>4, <2>5, <2>6, RouterConstants DEF Led
  <2>9. Known(next, s, a)
    BY <1>1, <1>4, <2>4, <2>5 DEF Known
  <2>10. Ordered(next, s, a)
    BY <1>1, <1>4, <2>1, <2>4, <2>5 DEF Ordered, InboxBefore, DeviceBefore, FifoBefore
  <2>11. ASSUME NEW e \in Devices PROVE DeviceTold(next, e)
    BY <1>1, <2>4, RouterConstants DEF DeviceTold, Router!CanAcceptPacket, Router!HasPacketAvailable
  <2>12. OutboxTold(next) /\ InboxTold(next)
    BY <2>4, <2>6 DEF OutboxTold, InboxTold, Router!HasPacketAvailable
  <2> QED
    BY <2>7, <2>8, <2>9, <2>10, <2>11, <2>12 DEF Right, next
<1>5. \/ next = n /\ (n.outbox = Router!NoPacket \/ n.fifo[Router!FCE] # Router!NoPacket)
      \/ /\ n.outbox # Router!NoPacket /\ d = Router!Nobody
         /\ next = [n EXCEPT !.outbox = Router!NoPacket]
      \/ /\ n.outbox # Router!NoPacket /\ n.fifo[Router!FCE] = Router!NoPacket /\ d \in Devices
         /\ next = [n EXCEPT !.outbox = Router!NoPacket, !.fifo[Router!FCE] = n.outbox,
                             !.sending[d] = Router!FCE, !.pending = @ \cup {<<"mux", d>>}]
  BY <1>1, PumpOutEffect
<1> QED
  BY <1>2, <1>3, <1>4, <1>5

LEMMA ProcessedKeeps ==
    ASSUME NEW n, NEW s, NEW a, Right(n, s, a), NEW d \in Devices,
           \A e \in Devices \ {d} : DeviceTold(n, e), OutboxTold(n), InboxTold(n)
    PROVE  LET next == Router!Processed(n, d)
           IN  /\ Right(next, s, a)
               /\ \A e \in Devices : DeviceTold(next, e)
               /\ OutboxTold(next) /\ InboxTold(next)
               /\ Router!Processed(next, d) = next
<1> DEFINE next == Router!Processed(n, d)
           packet == n.fifo[Router!FCE]
           answer == [packet EXCEPT !.to = Router!FCE]
<1>1. Shaped(n) /\ Led(n) /\ Known(n, s, a) /\ Ordered(n, s, a) /\ n \in Networks
  BY DEF Right, Shaped
<1>2. Router!FCE \notin Devices /\ Router!FCE \in Router!Ports /\ d \in Router!Ports /\ Devices \subseteq Router!Ports
      /\ Router!Nobody \notin Router!Ports /\ Router!NoPacket.to = Router!Nobody
  BY RouterConstants
<1>3. next.sending[d] = Router!Nobody \/ next.fifo[d] # Router!NoPacket => Router!Processed(next, d) = next
  <2> HIDE DEF next
  <2> QED
    BY DEF Router!Processed, Router!HasPacketAvailable, Router!CanAcceptPacket
<1>4. CASE next = n /\ (n.sending[d] = Router!Nobody \/ n.fifo[d] # Router!NoPacket)
  <2> HIDE DEF next
  <2>1. DeviceTold(n, d)
    BY <1>4 DEF DeviceTold, Router!HasPacketAvailable, Router!CanAcceptPacket
  <2> QED
    BY <1>3, <1>4, <2>1 DEF next
<1>5. ASSUME packet # Router!NoPacket, packet.to = d, n.fifo[d] = Router!NoPacket,
             next.outbox = n.outbox, next.inbox = n.inbox,
             next.fifo[Router!FCE] = Router!NoPacket,
             \A e \in Devices \ {d} : next.fifo[e] = n.fifo[e],
             next.sending[d] = Router!Nobody,
             \A e \in Devices \ {d} : next.sending[e] = n.sending[e],
             \A e \in n.pending : e \in next.pending,
             <<"fifo", Router!FCE>> \in next.pending,
             next \in Networks,
             \/ next.fifo[d] = Router!NoPacket /\ next.sending[Router!FCE] = n.sending[Router!FCE]
             \/ /\ next.fifo[d] = answer
                /\ IF n.sending[Router!FCE] # Router!Nobody THEN next.sending[Router!FCE] = n.sending[Router!FCE]
                   ELSE next.sending[Router!FCE] = d /\ <<"mux", Router!FCE>> \in next.pending
      PROVE  /\ Right(next, s, a)
             /\ \A e \in Devices : DeviceTold(next, e)
             /\ OutboxTold(next) /\ InboxTold(next)
             /\ Router!Processed(next, d) = next
  <2> HIDE DEF next
  <2>1. packet \in Router!Packets
    BY <1>1, <1>2, <1>5, HeldOr DEF Networks
  <2>2. answer \in Router!Packets /\ answer.to = Router!FCE /\ answer.number = packet.number /\ answer # Router!NoPacket
    BY <1>2, <2>1, RouterConstants DEF Router!Packets
  <2> HIDE DEF answer, packet
  <2>3. Shaped(next)
    BY <1>1, <1>2, <1>5, <2>2 DEF Shaped
  <2>4. Led(next)
    <3>1. \A e \in Devices \ {d} : n.sending[e] = Router!Nobody
      BY <1>1, <1>5 DEF Led, packet
    <3>2. \A e \in Devices : next.sending[e] = Router!Nobody
      BY <1>5, <3>1
    <3>3. \A e \in Devices : e # Router!Nobody
      BY <1>2
    <3>4. IF next.sending[Router!FCE] = Router!Nobody THEN \A e \in Devices : next.fifo[e] = Router!NoPacket
          ELSE next.sending[Router!FCE] \in Devices /\ next.fifo[next.sending[Router!FCE]] # Router!NoPacket
      BY <1>1, <1>2, <1>5, <2>2 DEF Led
    <3> QED
      BY <1>2, <1>5, <3>2, <3>3, <3>4 DEF Led
  <2>5. Known(next, s, a)
    BY <1>1, <1>2, <1>5, <2>2 DEF Known, packet
  <2>6. Ordered(next, s, a)
    <3>1. DeviceBefore(n, s, a, d, packet.number)
      BY <1>1, <1>5 DEF Ordered, packet
    <3>2. ASSUME NEW e \in Devices, next.fifo[e] # Router!NoPacket PROVE InboxBefore(next, s, a, e, next.fifo[e].number)
      <4>1. CASE e = d
        BY <1>5, <2>2, <3>1, <3>2, <4>1 DEF DeviceBefore, InboxBefore
      <4>2. CASE e # d
        BY <1>1, <1>5, <3>2, <4>2 DEF Ordered, InboxBefore
      <4> QED
        BY <4>1, <4>2
    <3>3. ASSUME n.outbox.to \in Devices PROVE FifoBefore(next, s, a, n.outbox.to, n.outbox.number)
      <4>1. FifoBefore(n, s, a, n.outbox.to, n.outbox.number)
        BY <1>1, <3>3 DEF Ordered
      <4>2. next.fifo[Router!FCE].to # n.outbox.to
        BY <1>2, <1>5, <3>3
      <4>3. CASE n.outbox.to = d
        <5>1. packet.number < n.outbox.number
          BY <1>5, <4>1, <4>3 DEF FifoBefore, packet
        <5> QED
          BY <1>5, <2>2, <4>1, <4>2, <4>3, <5>1 DEF FifoBefore, DeviceBefore, InboxBefore
      <4>4. CASE n.outbox.to # d
        BY <1>5, <3>3, <4>1, <4>2, <4>4 DEF FifoBefore, DeviceBefore, InboxBefore
      <4> QED
        BY <4>3, <4>4
    <3>4. next.fifo[Router!FCE].to \notin Devices
      BY <1>2, <1>5
    <3> QED
      BY <1>1, <1>5, <3>2, <3>3, <3>4 DEF Ordered
  <2>7. ASSUME NEW e \in Devices PROVE DeviceTold(next, e)
    <3>1. CASE e = d
      BY <1>5, <3>1 DEF DeviceTold, Router!HasPacketAvailable
    <3>2. CASE e # d
      BY <1>5, <3>2 DEF DeviceTold, Router!HasPacketAvailable, Router!CanAcceptPacket
    <3> QED
      BY <3>1, <3>2
  <2>8. OutboxTold(next) /\ InboxTold(next)
    BY <1>5 DEF OutboxTold, InboxTold, Router!HasPacketAvailable
  <2> QED
    BY <1>3, <1>5, <2>3, <2>4, <2>5, <2>6, <2>7, <2>8 DEF Right
<1> DEFINE gone == [n EXCEPT !.fifo[Router!FCE] = Router!NoPacket, !.sending[d] = Router!Nobody,
                             !.pending = @ \cup {<<"fifo", Router!FCE>>}]
           stored == [n EXCEPT !.fifo = [@ EXCEPT ![Router!FCE] = Router!NoPacket, ![d] = answer],
                               !.sending[d] = Router!Nobody, !.pending = @ \cup {<<"fifo", Router!FCE>>}]
           sentOn == [n EXCEPT !.fifo = [@ EXCEPT ![Router!FCE] = Router!NoPacket, ![d] = answer],
                               !.sending = [@ EXCEPT ![d] = Router!Nobody, ![Router!FCE] = d],
                               !.pending = @ \cup {<<"fifo", Router!FCE>>, <<"mux", Router!FCE>>}]
<1>6. packet # Router!NoPacket => answer \in Held
  <2>1. packet # Router!NoPacket => packet \in Router!Packets
    BY <1>1, <1>2, HeldOr DEF Networks
  <2>2. packet \in Router!Packets => answer \in Router!Packets /\ answer.to = Router!FCE
    BY <1>2 DEF Router!Packets
  <2> QED
    BY <1>2, <2>1, <2>2 DEF Held
<1>7. /\ Router!NoPacket \in Held /\ <<"fifo", Router!FCE>> \in Router!Events /\ <<"mux", Router!FCE>> \in Router!Events
  BY <1>2, RouterEvents DEF Held
<1> HIDE DEF answer, next
<1>8. CASE /\ packet # Router!NoPacket /\ packet.to = d /\ n.fifo[d] = Router!NoPacket
           /\ next = gone
  <2>1. next \in Networks
    BY <1>1, <1>2, <1>7, <1>8 DEF Networks
  <2>2. /\ next.outbox = n.outbox /\ next.inbox = n.inbox
        /\ next.fifo[Router!FCE] = Router!NoPacket /\ \A e \in Devices : next.fifo[e] = n.fifo[e]
        /\ next.sending[d] = Router!Nobody
        /\ \A e \in Router!Ports \ {d} : next.sending[e] = n.sending[e]
        /\ next.pending = n.pending \cup {<<"fifo", Router!FCE>>}
    BY <1>1, <1>2, <1>8 DEF Networks
  <2> HIDE DEF packet
  <2> QED
    BY <1>2, <1>5, <1>8, <2>1, <2>2 DEF next
<1>9. CASE /\ packet # Router!NoPacket /\ packet.to = d /\ n.fifo[d] = Router!NoPacket
           /\ n.sending[Router!FCE] # Router!Nobody /\ next = stored
  <2>1. next \in Networks
    BY <1>1, <1>2, <1>6, <1>7, <1>9 DEF Networks
  <2>2. /\ next.outbox = n.outbox /\ next.inbox = n.inbox
        /\ next.fifo[Router!FCE] = Router!NoPacket /\ \A e \in Devices \ {d} : next.fifo[e] = n.fifo[e]
        /\ next.fifo[d] = answer
        /\ next.sending[d] = Router!Nobody
        /\ \A e \in Router!Ports \ {d} : next.sending[e] = n.sending[e]
        /\ next.pending = n.pending \cup {<<"fifo", Router!FCE>>}
    BY <1>1, <1>2, <1>9 DEF Networks
  <2> HIDE DEF packet
  <2> QED
    BY <1>2, <1>5, <1>9, <2>1, <2>2 DEF next
<1>10. CASE /\ packet # Router!NoPacket /\ packet.to = d /\ n.fifo[d] = Router!NoPacket
            /\ n.sending[Router!FCE] = Router!Nobody /\ next = sentOn
  <2>1. next \in Networks
    BY <1>1, <1>2, <1>6, <1>7, <1>10 DEF Networks
  <2>2. /\ next.outbox = n.outbox /\ next.inbox = n.inbox
        /\ next.fifo[Router!FCE] = Router!NoPacket /\ \A e \in Devices \ {d} : next.fifo[e] = n.fifo[e]
        /\ next.fifo[d] = answer
        /\ next.sending[d] = Router!Nobody /\ next.sending[Router!FCE] = d
        /\ \A e \in Devices \ {d} : next.sending[e] = n.sending[e]
        /\ next.pending = n.pending \cup {<<"fifo", Router!FCE>>, <<"mux", Router!FCE>>}
    BY <1>1, <1>2, <1>10 DEF Networks
  <2> HIDE DEF packet
  <2> QED
    BY <1>2, <1>5, <1>10, <2>1, <2>2 DEF next
<1>11. \/ next = n /\ (n.sending[d] = Router!Nobody \/ n.fifo[d] # Router!NoPacket)
       \/ /\ packet # Router!NoPacket /\ packet.to = d /\ n.fifo[d] = Router!NoPacket
          /\ \/ next = gone
             \/ n.sending[Router!FCE] # Router!Nobody /\ next = stored
             \/ n.sending[Router!FCE] = Router!Nobody /\ next = sentOn
  BY <1>1, ProcessedEffect DEF answer, next
<1> HIDE DEF packet, gone, stored, sentOn
<1> QED
  BY <1>4, <1>8, <1>9, <1>10, <1>11 DEF next

LEMMA PumpInKeeps ==
    ASSUME NEW n, NEW s, NEW a, Right(n, s, a), \A d \in Devices : DeviceTold(n, d), OutboxTold(n)
    PROVE  LET next == Router!PumpIn(n)
           IN  /\ Right(next, s, a)
               /\ \A d \in Devices : DeviceTold(next, d)
               /\ OutboxTold(next) /\ InboxTold(next)
<1> DEFINE next == Router!PumpIn(n)
           e == n.sending[Router!FCE]
           waiting == {f \in Router!Ports \ {e} : n.fifo[f] # Router!NoPacket /\ n.fifo[f].to = Router!FCE}
           first == CHOOSE f \in waiting : \A g \in waiting : f <= g
           follows == IF waiting = {} THEN Router!Nobody ELSE first
<1>1. Shaped(n) /\ Led(n) /\ Known(n, s, a) /\ Ordered(n, s, a) /\ n \in Networks
  BY DEF Right, Shaped
<1>2. Router!FCE \notin Devices /\ Router!FCE \in Router!Ports /\ Devices \subseteq Router!Ports
      /\ Router!Ports = Devices \cup {Router!FCE} /\ Router!Ports \subseteq Nat
      /\ Router!Nobody \notin Router!Ports /\ Router!NoPacket.to = Router!Nobody
  BY RouterConstants
<1>3. CASE e = Router!Nobody \/ n.inbox # Router!NoPacket
  <2>1. next = n
    BY <1>3 DEF Router!PumpIn, Router!HasPacketAvailable
  <2> HIDE DEF next
  <2>2. InboxTold(n)
    BY <1>3 DEF InboxTold, Router!HasPacketAvailable
  <2> QED
    BY <2>1, <2>2 DEF next
<1>4. CASE e # Router!Nobody /\ n.inbox = Router!NoPacket
  <2>1. e \in Devices /\ n.fifo[e] # Router!NoPacket /\ e # Router!FCE /\ e \in Router!Ports
    BY <1>1, <1>2, <1>4 DEF Led
  <2>2. next = [n EXCEPT !.fifo[e] = Router!NoPacket, !.sending[Router!FCE] = follows,
                         !.pending = @ \cup {<<"fifo", e>>}, !.inbox = n.fifo[e]]
    <3>1. next = [Router!AfterReceive(n, Router!FCE) EXCEPT !.inbox = n.fifo[e]]
      BY <1>4 DEF Router!PumpIn, Router!HasPacketAvailable, Router!Received
    <3>2. Router!AfterReceive(n, Router!FCE) =
            [n EXCEPT !.fifo[e] = Router!NoPacket, !.sending[Router!FCE] = follows,
                      !.pending = @ \cup {<<"fifo", e>>}]
      BY Zenon DEF Router!AfterReceive
    <3> HIDE DEF follows, next, e
    <3> QED
      BY <1>1, <3>1, <3>2 DEF Networks
  <2>3. waiting = {f \in Devices \ {e} : n.fifo[f] # Router!NoPacket}
    <3>1. n.fifo[Router!FCE].to # Router!FCE
      BY <1>1 DEF Shaped
    <3>2. \A d \in Devices : n.fifo[d] # Router!NoPacket => n.fifo[d].to = Router!FCE
      BY <1>1 DEF Shaped
    <3> HIDE DEF e
    <3> QED
      BY <1>2, <3>1, <3>2
  <2>4. IF follows = Router!Nobody THEN \A f \in Devices \ {e} : n.fifo[f] = Router!NoPacket
        ELSE follows \in Devices \ {e} /\ n.fifo[follows] # Router!NoPacket
    <3>1. CASE waiting = {}
      <4>1. follows = Router!Nobody
        BY <3>1
      <4> HIDE DEF follows, waiting, e
      <4> QED
        BY <2>3, <3>1, <4>1
    <3>2. CASE waiting # {}
      <4>1. waiting \subseteq Nat
        BY <1>2
      <4> HIDE DEF waiting, e
      <4>2. \E f \in waiting : \A g \in waiting : f <= g
        BY <3>2, <4>1, Least
      <4>3. first \in waiting
        BY <4>2
      <4>4. follows = first
        BY <3>2
      <4> HIDE DEF follows, first
      <4> QED
        BY <1>2, <2>3, <4>3, <4>4
    <3> QED
      BY <3>1, <3>2
  <2> HIDE DEF next, follows, waiting, first
  <2>5. follows \in Router!Ports \cup {Router!Nobody} /\ follows # Router!FCE /\ follows # e
    BY <1>2, <2>1, <2>4
  <2>6. Router!NoPacket \in Held /\ n.fifo[e] \in Kept /\ <<"fifo", e>> \in Router!Events
    BY <1>1, <2>1, HeldOr, RouterEvents DEF Networks, Held
  <2> HIDE DEF e
  <2>7. next \in Networks
    BY <1>1, <2>1, <2>2, <2>5, <2>6 DEF Networks
  <2>8. /\ next.outbox = n.outbox /\ next.inbox = n.fifo[e]
        /\ next.fifo[e] = Router!NoPacket /\ \A p \in Router!Ports \ {e} : next.fifo[p] = n.fifo[p]
        /\ next.sending[Router!FCE] = follows
        /\ \A d \in Devices : next.sending[d] = n.sending[d]
        /\ next.pending = n.pending \cup {<<"fifo", e>>}
    BY <1>1, <1>2, <2>1, <2>2 DEF Networks
  <2>9. next.fifo[Router!FCE] = n.fifo[Router!FCE]
    BY <1>2, <2>1, <2>8
  <2>10. Shaped(next)
    BY <1>1, <1>2, <2>1, <2>7, <2>8, <2>9 DEF Shaped
  <2>11. Led(next)
    <3>1. \A d \in Devices : next.sending[d] = IF next.fifo[Router!FCE].to = d THEN Router!FCE ELSE Router!Nobody
      BY <1>1, <2>8, <2>9 DEF Led
    <3>2. CASE follows = Router!Nobody
      <4>1. \A d \in Devices : next.fifo[d] = Router!NoPacket
        BY <1>2, <2>4, <2>8, <3>2
      <4> QED
        BY <2>8, <3>1, <3>2, <4>1 DEF Led
    <3>3. CASE follows # Router!Nobody
      <4>1. follows \in Devices /\ next.fifo[follows] # Router!NoPacket
        BY <1>2, <2>4, <2>8, <3>3
      <4> QED
        BY <2>8, <3>1, <3>3, <4>1 DEF Led
    <3> QED
      BY <3>2, <3>3
  <2>12. Known(next, s, a)
    BY <1>1, <1>2, <2>1, <2>8, <2>9 DEF Known
  <2>13. s[next.inbox.number].to = e
    BY <1>1, <2>1, <2>8 DEF Known
  <2>14. Ordered(next, s, a)
    <3>1. InboxBefore(n, s, a, e, next.inbox.number)
      BY <1>1, <2>1, <2>8 DEF Ordered
    <3>2. ASSUME NEW d \in Devices, next.fifo[d] # Router!NoPacket PROVE InboxBefore(next, s, a, d, next.fifo[d].number)
      <4>1. d # e /\ next.fifo[d] = n.fifo[d]
        BY <1>2, <2>8, <3>2
      <4>2. InboxBefore(n, s, a, d, next.fifo[d].number)
        BY <1>1, <3>2, <4>1 DEF Ordered
      <4> QED
        BY <2>13, <4>1, <4>2 DEF InboxBefore
    <3>3. ASSUME NEW d \in Devices, NEW k, DeviceBefore(n, s, a, d, k) PROVE DeviceBefore(next, s, a, d, k)
      <4>1. CASE d = e
        BY <2>1, <2>8, <3>3, <4>1 DEF DeviceBefore, InboxBefore
      <4>2. CASE d # e
        BY <1>2, <2>8, <2>13, <3>3, <4>2 DEF DeviceBefore, InboxBefore
      <4> QED
        BY <4>1, <4>2
    <3>4. n.fifo[Router!FCE].to \in Devices
             => DeviceBefore(next, s, a, n.fifo[Router!FCE].to, n.fifo[Router!FCE].number)
      BY <1>1, <3>3 DEF Ordered
    <3>5. n.outbox.to \in Devices => FifoBefore(next, s, a, n.outbox.to, n.outbox.number)
      BY <1>1, <2>9, <3>3 DEF Ordered, FifoBefore
    <3>6. AnsweredBefore(s, a, s[next.inbox.number].to, next.inbox.number)
      BY <2>13, <3>1 DEF InboxBefore
    <3> QED
      BY <1>1, <2>8, <2>9, <3>2, <3>4, <3>5, <3>6 DEF Ordered
  <2>15. ASSUME NEW d \in Devices PROVE DeviceTold(next, d)
    <3>1. CASE d = e
      BY <2>8, <3>1 DEF DeviceTold
    <3>2. CASE d # e
      BY <1>2, <2>8, <3>2 DEF DeviceTold, Router!HasPacketAvailable, Router!CanAcceptPacket
    <3> QED
      BY <3>1, <3>2
  <2>16. OutboxTold(next) /\ InboxTold(next)
    BY <2>1, <2>8, <2>9 DEF OutboxTold, InboxTold, Router!CanAcceptPacket
  <2> QED
    BY <2>10, <2>11, <2>12, <2>14, <2>15, <2>16 DEF Right, next
<1> QED
  BY <1>3, <1>4

-----------------------------------------------------------------------------
(* The loop of processPackets does in its first turn what there is to do.  *)
LEMMA OneTurn ==
    ASSUME NEW n, NEW d, Router!Processed(Router!Processed(n, d), d) = Router!Processed(n, d)
    PROVE  Router!processPackets(n, d) = Router!Processed(n, d)
<1> DEFINE m == Router!Cardinality(Router!Ports)
           seq == [number \in 1..m |-> number]
           after == Router!Processed(n, d)
           Body(f) == [t \in SUBSET (DOMAIN seq) |->
                         IF t = {} THEN n ELSE Router!Processed(f[t \ {Top(t)}], d)]
           fold == CHOOSE f : f = Body(f)
           known == [t \in SUBSET (DOMAIN seq) |-> IF t = {} THEN n ELSE after]
<1>1. m \in Nat /\ m >= 1
  <2>1. IsFiniteSet(Router!Ports) /\ Router!FCE \in Router!Ports
    BY RouterConstants, FS_AddElement
  <2>2. Cardinality(Router!Ports) \in Nat /\ Cardinality(Router!Ports) # 0
    BY <2>1, FS_CardinalityType, FS_EmptySet
  <2>3. m = Cardinality(Router!Ports)
    BY DEF Router!Cardinality, Cardinality
  <2> HIDE DEF m
  <2> QED
    BY <2>2, <2>3
<1>2. DOMAIN seq = 1..m
  OBVIOUS
<1>3. Router!processPackets(n, d) = fold[1..m]
  BY <1>2 DEF Router!processPackets, Router!FoldLeft, Router!MapThenFoldSet, Router!Max, Top
<1> HIDE DEF m, seq
<1>4. known = Body(known)
  <2>1. ASSUME NEW t \in SUBSET (1..m), t # {}
        PROVE  t \ {Top(t)} \in SUBSET (1..m) /\ Router!Processed(known[t \ {Top(t)}], d) = after
    <3>1. known[t \ {Top(t)}] = n \/ known[t \ {Top(t)}] = after
      BY <1>2
    <3>2. Router!Processed(n, d) = after /\ Router!Processed(after, d) = after
      OBVIOUS
    <3> HIDE DEF known, after
    <3> QED
      BY <3>1, <3>2
  <2>2. \A t \in SUBSET (1..m) : known[t] = IF t = {} THEN n ELSE after
    BY <1>2
  <2>3. known = [t \in SUBSET (1..m) |-> known[t]]
    BY <1>2
  <2> HIDE DEF known, after
  <2>4. \A t \in SUBSET (1..m) : known[t] = IF t = {} THEN n ELSE Router!Processed(known[t \ {Top(t)}], d)
    BY <2>1, <2>2
  <2> QED
    BY <1>2, <2>3, <2>4, Zenon
<1>5. fold = Body(fold)
  <2> HIDE DEF Body
  <2> QED
    BY <1>4
<1> HIDE DEF fold, known
<1> DEFINE T == {i \in Nat : i <= m => fold[1..i] = IF i = 0 THEN n ELSE after}
<1>6. 0 \in T
  <2>1. 1..0 = {} /\ {} \in SUBSET (DOMAIN seq)
    OBVIOUS
  <2>2. Body(fold)[{}] = n
    BY <2>1
  <2> HIDE DEF Body
  <2>3. fold[1..0] = n
    BY <1>5, <2>1, <2>2
  <2> QED
    BY <2>3
<1>7. ASSUME NEW i \in Nat, i \in T PROVE i + 1 \in T
  <2> SUFFICES ASSUME i + 1 <= m PROVE fold[1..i + 1] = after
    OBVIOUS
  <2>1. i + 1 \in 1..m /\ (i + 1) - 1 = i /\ i <= m
    BY <1>1
  <2>2. 1..i + 1 \in SUBSET (DOMAIN seq) /\ 1..i + 1 # {} /\ (1..i + 1) \ {Top(1..i + 1)} = 1..i
    BY <1>1, <1>2, <2>1, FoldsAlong
  <2>3. Body(fold)[1..i + 1] = Router!Processed(fold[1..i], d)
    BY <2>2
  <2>4. fold[1..i] = n \/ fold[1..i] = after
    BY <1>7, <2>1
  <2>5. Router!Processed(n, d) = after /\ Router!Processed(after, d) = after
    OBVIOUS
  <2> HIDE DEF Body, after
  <2> QED
    BY <1>5, <2>3, <2>4, <2>5
<1>8. m \in T
  <2> HIDE DEF T
  <2> QED
    BY <1>1, <1>6, <1>7, Induction
<1> HIDE DEF after
<1>9. fold[1..m] = after
  BY <1>1, <1>8
<1> QED
  BY <1>3, <1>9 DEF after

-----------------------------------------------------------------------------
(* The steps of the router and of the flight computer.                     *)

LEMMA SubscriberKeeps ==
    ASSUME RouterInv, NEW event \in net.pending
    PROVE  LET next == Router!Subscriber([net EXCEPT !.pending = @ \ {event}], event)
           IN  /\ Right(next, fceSent, answered)
               /\ \A d \in Devices : DeviceTold(next, d)
               /\ OutboxTold(next) /\ InboxTold(next)
<1> DEFINE n == [net EXCEPT !.pending = @ \ {event}]
           next == Router!Subscriber(n, event)
<1>1. /\ Right(net, fceSent, answered) /\ \A d \in Devices : DeviceTold(net, d)
      /\ OutboxTold(net) /\ InboxTold(net) /\ net \in Networks /\ event \in Router!Events
  BY DEF RouterInv, Right, Shaped, Networks
<1>2. /\ n \in Networks /\ n.fifo = net.fifo /\ n.sending = net.sending /\ n.outbox = net.outbox
      /\ n.inbox = net.inbox /\ n.pending = net.pending \ {event}
  BY <1>1 DEF Networks
<1> HIDE DEF n
<1>3. Right(n, fceSent, answered)
  <2>1. Shaped(n)
    BY <1>1, <1>2 DEF Right, Shaped
  <2>2. Led(n)
    BY <1>1, <1>2 DEF Right, Led
  <2>3. Known(n, fceSent, answered)
    BY <1>1, <1>2 DEF Right, Known
  <2>4. Ordered(n, fceSent, answered)
    BY <1>1, <1>2 DEF Right, Ordered, InboxBefore, DeviceBefore, FifoBefore
  <2> QED
    BY <2>1, <2>2, <2>3, <2>4 DEF Right
<1>4. Router!Ports = Devices \cup {Router!FCE} /\ Router!FCE \notin Devices
  BY RouterConstants
<1>5. ASSUME NEW d \in Devices, event # <<"fifo", d>>, event # <<"mux", d>> PROVE DeviceTold(n, d)
  BY <1>1, <1>2, <1>5 DEF DeviceTold, Router!HasPacketAvailable, Router!CanAcceptPacket
<1>6. ASSUME event # <<"fifo", Router!FCE>>, event # <<"outbox", Router!FCE>> PROVE OutboxTold(n)
  BY <1>1, <1>2, <1>6 DEF OutboxTold, Router!CanAcceptPacket
<1>7. ASSUME event # <<"mux", Router!FCE>>, event # <<"inbox", Router!FCE>> PROVE InboxTold(n)
  BY <1>1, <1>2, <1>7 DEF InboxTold, Router!HasPacketAvailable
<1>8. \/ \E d \in Devices : event = <<"fifo", d>> \/ event = <<"mux", d>>
      \/ event = <<"fifo", Router!FCE>> \/ event = <<"outbox", Router!FCE>>
      \/ event = <<"mux", Router!FCE>> \/ event = <<"inbox", Router!FCE>>
  BY <1>1, <1>4 DEF Router!Events
<1>9. ASSUME NEW d \in Devices, event = <<"fifo", d>> \/ event = <<"mux", d>>
      PROVE  /\ Right(next, fceSent, answered)
             /\ \A e \in Devices : DeviceTold(next, e)
             /\ OutboxTold(next) /\ InboxTold(next)
  <2>1. event[2] = d /\ d # Router!FCE
    BY <1>4, <1>9
  <2>2. next = Router!processPackets(n, d)
    BY <2>1 DEF Router!Subscriber
  <2>3. (\A e \in Devices \ {d} : DeviceTold(n, e)) /\ OutboxTold(n) /\ InboxTold(n)
    <3>1. \A p : p # d => event # <<"fifo", p>> /\ event # <<"mux", p>>
      BY <1>9
    <3>2. event # <<"outbox", Router!FCE>> /\ event # <<"inbox", Router!FCE>>
      BY <1>9
    <3> QED
      BY <1>5, <1>6, <1>7, <2>1, <3>1, <3>2
  <2> HIDE DEF next
  <2>4. /\ Right(Router!Processed(n, d), fceSent, answered)
        /\ \A e \in Devices : DeviceTold(Router!Processed(n, d), e)
        /\ OutboxTold(Router!Processed(n, d)) /\ InboxTold(Router!Processed(n, d))
        /\ Router!Processed(Router!Processed(n, d), d) = Router!Processed(n, d)
    BY <1>3, <2>3, ProcessedKeeps
  <2>5. next = Router!Processed(n, d)
    BY <2>2, <2>4, OneTurn
  <2> QED
    BY <2>4, <2>5
<1>10. ASSUME event = <<"fifo", Router!FCE>> \/ event = <<"outbox", Router!FCE>>
       PROVE  /\ Right(next, fceSent, answered)
              /\ \A e \in Devices : DeviceTold(next, e)
              /\ OutboxTold(next) /\ InboxTold(next)
  <2>1. event[2] = Router!FCE /\ event[1] \in {"outbox", "fifo"}
    BY <1>10
  <2>2. next = Router!PumpOut(n)
    BY <2>1 DEF Router!Subscriber
  <2>3. (\A d \in Devices : DeviceTold(n, d)) /\ InboxTold(n)
    <3>1. \A d \in Devices : event # <<"fifo", d>> /\ event # <<"mux", d>>
      BY <1>4, <1>10
    <3>2. event # <<"mux", Router!FCE>> /\ event # <<"inbox", Router!FCE>>
      BY <1>10
    <3> QED
      BY <1>5, <1>7, <3>1, <3>2
  <2> HIDE DEF next
  <2> QED
    BY <1>3, <2>2, <2>3, PumpOutKeeps
<1>11. ASSUME event = <<"mux", Router!FCE>> \/ event = <<"inbox", Router!FCE>>
       PROVE  /\ Right(next, fceSent, answered)
              /\ \A e \in Devices : DeviceTold(next, e)
              /\ OutboxTold(next) /\ InboxTold(next)
  <2>1. event[2] = Router!FCE /\ event[1] \notin {"outbox", "fifo"}
    BY <1>11
  <2>2. next = Router!PumpIn(n)
    BY <2>1 DEF Router!Subscriber
  <2>3. (\A d \in Devices : DeviceTold(n, d)) /\ OutboxTold(n)
    <3>1. \A d \in Devices : event # <<"fifo", d>> /\ event # <<"mux", d>>
      BY <1>4, <1>11
    <3>2. event # <<"fifo", Router!FCE>> /\ event # <<"outbox", Router!FCE>>
      BY <1>11
    <3> QED
      BY <1>5, <1>6, <3>1, <3>2
  <2> HIDE DEF next
  <2> QED
    BY <1>3, <2>2, <2>3, PumpInKeeps
<1> HIDE DEF next
<1>12. /\ Right(next, fceSent, answered)
       /\ \A d \in Devices : DeviceTold(next, d)
       /\ OutboxTold(next) /\ InboxTold(next)
  BY <1>8, <1>9, <1>10, <1>11
<1> QED
  BY <1>12 DEF next, n

LEMMA RouterInit ==
    ASSUME MCInit
    PROVE  RouterInv
<1>1. Router!Init /\ Router!FCE \in Router!Ports /\ Devices \subseteq Router!Ports /\ Router!FCE # Router!Nobody
      /\ Router!Nobody \notin Devices /\ Router!NoPacket.to = Router!Nobody /\ MaxPackets \in Nat
  BY RouterConstants DEF MCInit
<1>2. /\ net = [fifo    |-> [p \in Router!Ports |-> Router!NoPacket],
                sending |-> [p \in Router!Ports |-> Router!Nobody],
                outbox  |-> Router!NoPacket, inbox |-> Router!NoPacket, pending |-> Router!Events]
      /\ fceSent = <<>> /\ answered = <<>>
  BY <1>1 DEF Router!Init
<1>3. net \in Networks
  BY <1>2 DEF Networks, Held, Kept
<1>4. /\ \A p \in Router!Ports : net.fifo[p] = Router!NoPacket /\ net.sending[p] = Router!Nobody
      /\ net.outbox = Router!NoPacket /\ net.inbox = Router!NoPacket
      /\ DOMAIN answered = {} /\ Len(fceSent) = 0
  BY <1>2
<1>5. Shaped(net)
  BY <1>1, <1>3, <1>4 DEF Shaped
<1>6. Led(net)
  BY <1>1, <1>4 DEF Led
<1>7. Known(net, fceSent, answered)
  BY <1>1, <1>4 DEF Known
<1>8. Ordered(net, fceSent, answered)
  BY <1>1, <1>4 DEF Ordered
<1>9. /\ \A d \in Devices : DeviceTold(net, d)
      /\ OutboxTold(net) /\ InboxTold(net)
  BY <1>1, <1>4 DEF DeviceTold, OutboxTold, InboxTold, Router!HasPacketAvailable
<1>10. fceSent \in Seq(Router!Packets) /\ answered \in Seq(1..MaxPackets)
  BY <1>2, EmptySeq
<1> QED
  BY <1>1, <1>4, <1>5, <1>6, <1>7, <1>8, <1>9, <1>10 DEF RouterInv, Right

LEMMA FceSendsKeeps ==
    ASSUME RouterInv, Router!FceSends
    PROVE  RouterInv'
<1>1. /\ Shaped(net) /\ Led(net) /\ Known(net, fceSent, answered) /\ Ordered(net, fceSent, answered) /\ net \in Networks
      /\ \A d \in Devices : DeviceTold(net, d)
      /\ OutboxTold(net) /\ InboxTold(net)
      /\ fceSent \in Seq(Router!Packets) /\ answered \in Seq(1..MaxPackets) /\ MaxPackets \in Nat
  BY RouterConstants DEF RouterInv, Right, Shaped
<1> DEFINE k == Len(fceSent) + 1
<1>2. PICK to \in Devices \cup {Router!Nobody}, valid \in BOOLEAN :
        LET packet == [to |-> to, number |-> k, valid |-> valid]
        IN /\ net' = [net EXCEPT !.outbox = packet, !.pending = @ \cup {<<"outbox", Router!FCE>>}]
           /\ fceSent' = Append(fceSent, packet)
  BY DEF Router!FceSends
<1> DEFINE packet == [to |-> to, number |-> k, valid |-> valid]
<1>3. Len(fceSent) \in Nat /\ k \in 1..MaxPackets /\ net.outbox = Router!NoPacket /\ answered' = answered
  BY <1>1, LenProperties DEF Router!FceSends
<1>4. Router!Ports = Devices \cup {Router!FCE} /\ Router!FCE \notin Devices /\ Router!Nobody \notin Router!Ports
      /\ Router!NoPacket.to = Router!Nobody
  BY RouterConstants
<1>5. packet \in Router!Packets /\ packet.to = to /\ packet.number = k
  BY <1>3, <1>4 DEF Router!Packets
<1> HIDE DEF packet
<1>6. /\ fceSent' \in Seq(Router!Packets) /\ Len(fceSent') = k /\ fceSent'[k] = packet
      /\ DOMAIN fceSent = 1..k - 1 /\ DOMAIN fceSent' = 1..k
      /\ \A i \in 1..k - 1 : fceSent'[i] = fceSent[i]
  BY <1>1, <1>2, <1>3, <1>5, AppendProperties, LenProperties DEF packet
<1> HIDE DEF k
<1>7. k \in Nat /\ DOMAIN fceSent \subseteq DOMAIN fceSent' /\ k \in DOMAIN fceSent'
      /\ \A i \in DOMAIN fceSent : fceSent'[i] = fceSent[i] /\ i < k
  BY <1>3, <1>6
<1>8. net' = [net EXCEPT !.outbox = packet, !.pending = @ \cup {<<"outbox", Router!FCE>>}]
  BY <1>2 DEF packet
<1>9. net' \in Networks
  BY <1>1, <1>5, <1>8, RouterEvents DEF Networks, Kept
<1>10. /\ net'.fifo = net.fifo /\ net'.sending = net.sending /\ net'.inbox = net.inbox /\ net'.outbox = packet
       /\ net'.pending = net.pending \cup {<<"outbox", Router!FCE>>}
  BY <1>1, <1>8 DEF Networks
<1>11. Shaped(net')
  BY <1>1, <1>4, <1>5, <1>9, <1>10 DEF Shaped
<1>12. Led(net')
  BY <1>1, <1>10 DEF Led
<1>13. Known(net', fceSent', answered')
  BY <1>1, <1>3, <1>5, <1>6, <1>7, <1>10 DEF Known
<1>14. Ordered(net', fceSent', answered')
  <2>1. ASSUME NEW d, NEW i PROVE AnsweredBefore(fceSent, answered, d, i) <=> AnsweredBefore(fceSent', answered', d, i)
    BY <1>1, <1>3, <1>7 DEF AnsweredBefore, Known
  <2>2. net.inbox # Router!NoPacket => fceSent'[net.inbox.number].to = fceSent[net.inbox.number].to
    BY <1>1, <1>7 DEF Known
  <2>3. ASSUME NEW d, NEW i, InboxBefore(net, fceSent, answered, d, i)
        PROVE  InboxBefore(net', fceSent', answered', d, i)
    BY <1>10, <2>1, <2>2, <2>3 DEF InboxBefore
  <2>4. ASSUME NEW d, NEW i, DeviceBefore(net, fceSent, answered, d, i)
        PROVE  DeviceBefore(net', fceSent', answered', d, i)
    BY <1>10, <2>3, <2>4 DEF DeviceBefore
  <2>5. ASSUME to \in Devices PROVE FifoBefore(net', fceSent', answered', to, k)
    <3>1. AnsweredBefore(fceSent', answered', to, k)
      BY <1>1, <1>3, <1>7 DEF AnsweredBefore, Known
    <3>2. net.fifo[Router!FCE].to = to => net.fifo[Router!FCE] # Router!NoPacket
      BY <1>4, <2>5
    <3> QED
      BY <1>1, <1>7, <1>10, <2>5, <3>1, <3>2 DEF Known, FifoBefore, DeviceBefore, InboxBefore
  <2>6. ASSUME NEW i \in DOMAIN answered', NEW j \in DOMAIN answered', i < j,
               fceSent'[answered'[i]].to = fceSent'[answered'[j]].to
        PROVE  answered'[i] < answered'[j]
    BY <1>1, <1>3, <1>7, <2>6 DEF Known, Ordered
  <2>7. net'.inbox # Router!NoPacket => AnsweredBefore(fceSent', answered', fceSent'[net'.inbox.number].to, net'.inbox.number)
    BY <1>1, <1>10, <2>1, <2>2 DEF Ordered
  <2>8. \A d \in Devices : net'.fifo[d] # Router!NoPacket => InboxBefore(net', fceSent', answered', d, net'.fifo[d].number)
    BY <1>1, <1>10, <2>3 DEF Ordered
  <2>9. net'.fifo[Router!FCE].to \in Devices
          => DeviceBefore(net', fceSent', answered', net'.fifo[Router!FCE].to, net'.fifo[Router!FCE].number)
    BY <1>1, <1>10, <2>4 DEF Ordered
  <2>10. net'.outbox.to \in Devices => FifoBefore(net', fceSent', answered', net'.outbox.to, net'.outbox.number)
    BY <1>5, <1>10, <2>5
  <2> QED
    BY <2>6, <2>7, <2>8, <2>9, <2>10 DEF Ordered
<1>15. /\ \A d \in Devices : DeviceTold(net', d)
       /\ OutboxTold(net') /\ InboxTold(net')
  BY <1>1, <1>10 DEF DeviceTold, OutboxTold, InboxTold, Router!HasPacketAvailable, Router!CanAcceptPacket
<1>16. /\ fceSent' \in Seq(Router!Packets) /\ Len(fceSent') <= MaxPackets /\ answered' \in Seq(1..MaxPackets)
  BY <1>1, <1>3, <1>6
<1> QED
  BY <1>11, <1>12, <1>13, <1>14, <1>15, <1>16 DEF RouterInv, Right

LEMMA FceReceivesKeeps ==
    ASSUME RouterInv, Router!FceReceives
    PROVE  RouterInv'
<1>1. /\ Shaped(net) /\ Led(net) /\ Known(net, fceSent, answered) /\ Ordered(net, fceSent, answered) /\ net \in Networks
      /\ \A d \in Devices : DeviceTold(net, d)
      /\ OutboxTold(net) /\ InboxTold(net)
      /\ fceSent \in Seq(Router!Packets) /\ Len(fceSent) <= MaxPackets
      /\ answered \in Seq(1..MaxPackets) /\ MaxPackets \in Nat
  BY RouterConstants DEF RouterInv, Right, Shaped
<1> DEFINE k == net.inbox.number
           m == Len(answered)
<1>2. /\ net.inbox # Router!NoPacket /\ fceSent' = fceSent /\ answered' = Append(answered, k)
      /\ net' = [net EXCEPT !.inbox = Router!NoPacket, !.pending = @ \cup {<<"inbox", Router!FCE>>}]
  BY DEF Router!FceReceives
<1>3. k \in DOMAIN fceSent /\ k \in 1..MaxPackets /\ m \in Nat
  <2>1. k \in DOMAIN fceSent
    BY <1>1, <1>2 DEF Known
  <2>2. DOMAIN fceSent = 1..Len(fceSent) /\ Len(fceSent) \in Nat /\ m \in Nat
    BY <1>1, LenProperties
  <2> HIDE DEF k, m
  <2> QED
    BY <1>1, <2>1, <2>2
<1>4. /\ answered' \in Seq(1..MaxPackets) /\ DOMAIN answered = 1..m /\ DOMAIN answered' = 1..m + 1
      /\ answered'[m + 1] = k /\ \A i \in 1..m : answered'[i] = answered[i]
  BY <1>1, <1>2, <1>3, AppendProperties, LenProperties
<1>5. net' \in Networks
  BY <1>1, <1>2, RouterEvents DEF Networks, Kept
<1>6. /\ net'.fifo = net.fifo /\ net'.sending = net.sending /\ net'.outbox = net.outbox
      /\ net'.inbox = Router!NoPacket
      /\ net'.pending = net.pending \cup {<<"inbox", Router!FCE>>}
  BY <1>1, <1>2 DEF Networks
<1> HIDE DEF k, m
<1>7. Shaped(net')
  BY <1>1, <1>5, <1>6 DEF Shaped
<1>8. Led(net')
  BY <1>1, <1>6 DEF Led
<1>9. \A i \in DOMAIN answered' : (i \in DOMAIN answered /\ answered'[i] = answered[i]) \/ (i = m + 1 /\ answered'[i] = k)
  <2> SUFFICES ASSUME NEW i \in 1..m + 1, i \notin 1..m PROVE i = m + 1
    BY <1>4
  <2> QED
    BY <1>3
<1>10. Known(net', fceSent', answered')
  BY <1>1, <1>2, <1>3, <1>6, <1>9 DEF Known
<1>11. Ordered(net', fceSent', answered')
  <2>1. ASSUME NEW d, NEW i, InboxBefore(net, fceSent, answered, d, i)
        PROVE  InboxBefore(net', fceSent', answered', d, i)
    <3>1. AnsweredBefore(fceSent, answered, d, i) /\ (fceSent[k].to = d => k < i)
      BY <1>2, <2>1 DEF InboxBefore, k
    <3>2. AnsweredBefore(fceSent', answered', d, i)
      BY <1>2, <1>9, <3>1 DEF AnsweredBefore
    <3> QED
      BY <1>6, <3>2 DEF InboxBefore
  <2>2. ASSUME NEW d, NEW i, DeviceBefore(net, fceSent, answered, d, i)
        PROVE  DeviceBefore(net', fceSent', answered', d, i)
    BY <1>6, <2>1, <2>2 DEF DeviceBefore
  <2>3. ASSUME NEW d, NEW i, FifoBefore(net, fceSent, answered, d, i)
        PROVE  FifoBefore(net', fceSent', answered', d, i)
    BY <1>6, <2>2, <2>3 DEF FifoBefore
  <2>4. ASSUME NEW i \in DOMAIN answered', NEW j \in DOMAIN answered', i < j,
               fceSent'[answered'[i]].to = fceSent'[answered'[j]].to
        PROVE  answered'[i] < answered'[j]
    <3>1. i \in DOMAIN answered /\ answered'[i] = answered[i]
      BY <1>3, <1>4, <2>4
    <3>2. CASE j \in DOMAIN answered /\ answered'[j] = answered[j]
      BY <1>1, <1>2, <2>4, <3>1, <3>2 DEF Ordered
    <3>3. CASE answered'[j] = k
      <4>1. AnsweredBefore(fceSent, answered, fceSent[k].to, k)
        BY <1>1, <1>2 DEF Ordered, k
      <4> QED
        BY <1>2, <2>4, <3>1, <3>3, <4>1 DEF AnsweredBefore
    <3> QED
      BY <1>9, <3>2, <3>3
  <2>5. \A d \in Devices : net'.fifo[d] # Router!NoPacket => InboxBefore(net', fceSent', answered', d, net'.fifo[d].number)
    BY <1>1, <1>6, <2>1 DEF Ordered
  <2>6. net'.fifo[Router!FCE].to \in Devices
          => DeviceBefore(net', fceSent', answered', net'.fifo[Router!FCE].to, net'.fifo[Router!FCE].number)
    BY <1>1, <1>6, <2>2 DEF Ordered
  <2>7. net'.outbox.to \in Devices => FifoBefore(net', fceSent', answered', net'.outbox.to, net'.outbox.number)
    BY <1>1, <1>6, <2>3 DEF Ordered
  <2> QED
    BY <1>6, <2>4, <2>5, <2>6, <2>7 DEF Ordered
<1>12. /\ \A d \in Devices : DeviceTold(net', d)
       /\ OutboxTold(net') /\ InboxTold(net')
  BY <1>1, <1>6 DEF DeviceTold, OutboxTold, InboxTold, Router!HasPacketAvailable, Router!CanAcceptPacket
<1> QED
  BY <1>1, <1>2, <1>4, <1>7, <1>8, <1>10, <1>11, <1>12 DEF RouterInv, Right

LEMMA RouterNext ==
    ASSUME RouterInv, [MCNext]_<<vars, vars2, svars, rvars, instance>>
    PROVE  RouterInv'
<1>1. ASSUME UNCHANGED <<net, fceSent, answered>> PROVE RouterInv'
  <2>1. Right(net', fceSent', answered') <=> Right(net, fceSent, answered)
    BY <1>1
  <2>2. /\ \A d \in Devices : DeviceTold(net', d)
        /\ OutboxTold(net') /\ InboxTold(net')
    BY <1>1 DEF RouterInv
  <2> QED
    BY <1>1, <2>1, <2>2 DEF RouterInv
<1>2. CASE Router!Dispatch
  <2>1. PICK event \in net.pending :
          /\ net' = Router!Subscriber([net EXCEPT !.pending = @ \ {event}], event)
          /\ UNCHANGED <<fceSent, answered>>
    BY <1>2 DEF Router!Dispatch
  <2>2. /\ Right(net', fceSent, answered)
        /\ \A d \in Devices : DeviceTold(net', d)
        /\ OutboxTold(net') /\ InboxTold(net')
    BY <2>1, SubscriberKeeps
  <2> QED
    BY <2>1, <2>2 DEF RouterInv
<1>3. CASE Router!FceSends
  BY <1>3, FceSendsKeeps
<1>4. CASE Router!FceReceives
  BY <1>4, FceReceivesKeeps
<1>5. \/ UNCHANGED <<net, fceSent, answered>>
      \/ Router!Dispatch \/ Router!FceSends \/ Router!FceReceives
  BY DEF MCNext, rvars, Router!Next, Router!Quiet, Router!vars
<1> QED
  BY <1>1, <1>2, <1>3, <1>4, <1>5

LEMMA RouterMeans ==
    ASSUME RouterInv
    PROVE  MCInOrder
<1>1. /\ Shaped(net) /\ Led(net) /\ Ordered(net, fceSent, answered) /\ net \in Networks
      /\ \A d \in Devices : DeviceTold(net, d)
      /\ OutboxTold(net) /\ InboxTold(net)
      /\ fceSent \in Seq(Router!Packets) /\ answered \in Seq(1..MaxPackets)
  BY DEF RouterInv, Right, Shaped
<1>2. Router!Ports = Devices \cup {Router!FCE} /\ Router!FCE \notin Devices /\ Router!Nobody \notin Router!Ports
      /\ Router!NoPacket.to = Router!Nobody
  BY RouterConstants
<1>3. Router!TypeOK
  BY <1>1 DEF Router!TypeOK, Networks, Held, Kept
<1>4. Router!Coherent
  <2> SUFFICES ASSUME NEW p \in Router!Ports
               PROVE  LET waiting == {f \in Router!Ports : net.fifo[f] # Router!NoPacket /\ net.fifo[f].to = p}
                      IN IF waiting = {} THEN net.sending[p] = Router!Nobody ELSE net.sending[p] \in waiting
    BY DEF Router!Coherent
  <2> DEFINE waiting == {f \in Router!Ports : net.fifo[f] # Router!NoPacket /\ net.fifo[f].to = p}
  <2>1. CASE p = Router!FCE
    <3>1. \A f : f \in waiting <=> f \in Devices /\ net.fifo[f] # Router!NoPacket
      BY <1>1, <1>2, <2>1 DEF Shaped
    <3>2. CASE net.sending[p] = Router!Nobody
      <4>1. waiting = {}
        BY <1>1, <2>1, <3>1, <3>2 DEF Led
      <4> QED
        BY <3>2, <4>1
    <3>3. CASE net.sending[p] # Router!Nobody
      <4>1. net.sending[p] \in waiting
        BY <1>1, <2>1, <3>1, <3>3 DEF Led
      <4> QED
        BY <4>1
    <3> QED
      BY <3>2, <3>3
  <2>2. CASE p \in Devices
    <3>1. \A f : f \in waiting <=> f = Router!FCE /\ net.fifo[Router!FCE].to = p
      BY <1>1, <1>2, <2>2 DEF Shaped
    <3>2. net.sending[p] = IF net.fifo[Router!FCE].to = p THEN Router!FCE ELSE Router!Nobody
      BY <1>1, <2>2 DEF Led
    <3> QED
      BY <3>1, <3>2
  <2> QED
    BY <1>2, <2>1, <2>2
<1>5. Router!Told
  <2>1. ASSUME NEW p \in Devices, Router!HasPacketAvailable(net, p), Router!CanAcceptPacket(net, p)
        PROVE  {<<"fifo", p>>, <<"mux", p>>} \cap net.pending # {}
    BY <1>1, <2>1 DEF DeviceTold
  <2>2. ASSUME net.outbox # Router!NoPacket, Router!CanAcceptPacket(net, Router!FCE)
        PROVE  {<<"fifo", Router!FCE>>, <<"outbox", Router!FCE>>} \cap net.pending # {}
    BY <1>1, <2>2 DEF OutboxTold
  <2>3. ASSUME Router!HasPacketAvailable(net, Router!FCE), net.inbox = Router!NoPacket
        PROVE  {<<"mux", Router!FCE>>, <<"inbox", Router!FCE>>} \cap net.pending # {}
    BY <1>1, <2>3 DEF InboxTold
  <2> QED
    BY <2>1, <2>2, <2>3 DEF Router!Told
<1>6. Router!InOrder
  BY <1>1 DEF Ordered, Router!InOrder
<1> QED
  BY <1>3, <1>4, <1>5, <1>6 DEF MCInOrder, Router!Awake

(* Whatever the devices and the packets, and in whatever order the events  *)
(* come: in the router no packet is where nobody looks or will be told of  *)
(* it, the panics are unreachable, and the answers of a device come in the *)
(* order of the packets that were sent to it, each once.                   *)
THEOREM RouterInOrder == MCSpec => []MCInOrder
<1>1. MCInit => RouterInv
  BY RouterInit
<1>2. RouterInv /\ [MCNext]_<<vars, vars2, svars, rvars, instance>> => RouterInv'
  BY RouterNext
<1>3. RouterInv => MCInOrder
  BY RouterMeans
<1> QED
  BY <1>1, <1>2, <1>3, PTL DEF MCSpec
=============================================================================
