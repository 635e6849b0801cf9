------------------------------- MODULE Telemetry -------------------------------
(***************************************************************************)
(* The telemetry system, src/fsw/flight/telemetry.c, with the encoder of   *)
(* src/fsw/flight/comm.c and the pipe_sender_t behind it.                  *)
(*                                                                         *)
(* Once an epoch the applications offer telemetry: asynchronous messages   *)
(* over ducts, which nothing holds back, and synchronous ones over a pipe, *)
(* whose flow the telemetry clips grant.  Then each replica of the clip    *)
(* encodes what it got into its own scratch buffer, counts what did not    *)
(* fit, and sends one message from the front of the buffer to the radio,   *)
(* which takes what a majority of the replicas sent.  A replica that is    *)
(* restarted clears its buffers while the others keep theirs.              *)
(*                                                                         *)
(* Offers and votes are those of the ducts.  A unit stands for the bytes   *)
(* of a packet that are sent or reserved together.                         *)
(***************************************************************************)
EXTENDS Integers, Sequences, SequencesExt, FiniteSets

CONSTANTS
    NumReplicas,        \* TELEMETRY_REPLICAS
    AsyncFlow,          \* asynchronous messages in an epoch
    SyncFlow,           \* max_flow of the synchronous endpoint
    Units,              \* Units[kind]: length of an encoded packet
    Overhead,           \* what comm_enc_encode reserves beyond that
    Capacity,           \* scratch_capacity of the pipe_sender_t
    MsgSize,            \* pipe_message_size of the downlink pipe
    MaxAsync, MaxSync,  \* bound: messages offered
    MaxTroubles         \* bound: cuts and turns not taken

Kinds == {"async", "sync", "drop"}

TelemetryAssumption ==
    /\ NumReplicas \in Nat \ {0} /\ AsyncFlow \in Nat /\ SyncFlow \in Nat \ {0}
    /\ Units \in [Kinds -> Nat \ {0}] /\ Overhead \in Nat
    /\ \A kind \in Kinds : Units[kind] + Overhead <= Capacity     \* asserted by pipe_sender_reserve
    /\ MsgSize \in Nat \ {0}
    /\ MaxAsync \in Nat /\ MaxSync \in Nat /\ MaxTroubles \in Nat

Replicas == 0..NumReplicas - 1
Majority(S) == 2 * Cardinality(S) > NumReplicas
Missing == -1
OFFER == -1              \* the turn of the applications
RADIO == NumReplicas     \* and of the radio

VARIABLES
    scratch,            \* scratch[r]: the units in r's encoder
    buffered,           \* buffered[r]: what r's circular buffer holds
    async_dropped,      \* async_dropped[r]
    last_requested,     \* last_requested[r] of the synchronous endpoint's pipe
    pressure,           \* pressure[r]: the flow that r granted in this epoch
    indicated,          \* indicated[r]: r told the watchdog ok in this epoch
    restarting,         \* the replicas that start their next turn anew
    async, sync,        \* what the ducts hold in this epoch
    credit,             \* messages that the radio takes in this epoch
    downlink,           \* downlink[r]: the message r sent to the radio, <<>> for none
    turn,               \* OFFER, a replica, or RADIO
    offered, reported,  \* how many asynchronous, synchronous messages there have been
    stream,             \* the units that the radio got
    struck,             \* the replica that something happened to, until it is in step again
    troubles

replica == <<scratch, buffered, async_dropped, last_requested>>
ghosts == <<offered, reported, stream>>
vars == <<replica, pressure, indicated, restarting, async, sync, credit, downlink, turn,
          ghosts, struck, troubles>>

Packet == [kind: Kinds, number: 1..MaxAsync + MaxSync]
Async(n) == [kind |-> "async", number |-> n]
Sync(n) == [kind |-> "sync", number |-> n]
Dropped(n) == [kind |-> "drop", number |-> n]

Encoded(packet) == [k \in 1..Units[packet.kind] |-> [packet |-> packet, part |-> k]]
Unit == [packet: Packet, part: 1..Capacity]

TypeOK ==
    /\ \A r \in Replicas :
          /\ scratch[r] \in Seq(Unit) /\ Len(scratch[r]) <= Capacity
          /\ buffered[r] \in Seq(Packet) /\ Len(buffered[r]) <= SyncFlow
          /\ downlink[r] \in Seq(Unit) /\ Len(downlink[r]) <= MsgSize
    /\ async_dropped \in [Replicas -> 0..MaxAsync]
    /\ last_requested \in [Replicas -> 0..SyncFlow]
    /\ pressure \in [Replicas -> {Missing} \cup 0..SyncFlow]
    /\ indicated \in [Replicas -> BOOLEAN]
    /\ restarting \subseteq struck /\ struck \subseteq Replicas
    /\ async \in Seq(Packet) /\ sync \in Seq(Packet) /\ credit \in {0, 1}
    /\ turn \in OFFER..RADIO
    /\ offered \in 0..MaxAsync /\ reported \in 0..MaxSync /\ stream \in Seq(Unit)
    /\ troubles \in 0..MaxTroubles

Nowhere == [r \in Replicas |-> <<>>]

Init ==
    /\ scratch = Nowhere /\ buffered = Nowhere
    /\ async_dropped = [r \in Replicas |-> 0] /\ last_requested = [r \in Replicas |-> 0]
    /\ pressure = [r \in Replicas |-> Missing] /\ indicated = [r \in Replicas |-> FALSE]
    /\ restarting = {} /\ async = <<>> /\ sync = <<>> /\ credit = 0
    /\ downlink = Nowhere /\ turn = OFFER
    /\ offered = 0 /\ reported = 0 /\ stream = <<>> /\ struck = {} /\ troubles = 0

-----------------------------------------------------------------------------
(* The flow that a majority of the replicas granted in the epoch before.   *)
allowed_flow ==
    LET agreed == {f \in 1..SyncFlow : Majority({r \in Replicas : pressure[r] = f})}
    IN  IF agreed = {} THEN 0 ELSE CHOOSE f \in agreed : TRUE

(* The applications offer telemetry; the synchronous ones ask              *)
(* telemetry_can_send before.                                              *)
Offer ==
    /\ turn = OFFER /\ turn' = 0
    /\ \E n \in 0..AsyncFlow, k \in 0..allowed_flow :
          /\ offered + n <= MaxAsync /\ reported + k <= MaxSync
          /\ async' = [i \in 1..n |-> Async(offered + i)] /\ offered' = offered + n
          /\ sync' = [i \in 1..k |-> Sync(reported + i)] /\ reported' = reported + k
    /\ credit' \in {0, 1}
    /\ pressure' = [r \in Replicas |-> Missing] /\ indicated' = [r \in Replicas |-> FALSE]
    /\ UNCHANGED <<replica, restarting, downlink, stream, struck, troubles>>

(***************************************************************************)
(* The stages of a pump, on a record m of what it changes.  A packet is    *)
(* encoded whole or not at all.                                            *)
(***************************************************************************)
Fits(m, packet) == Len(m.scratch) + Units[packet.kind] + Overhead <= Capacity
comm_enc_encode(m, packet) == [m EXCEPT !.scratch = @ \o Encoded(packet)]

Started(r) ==
    [scratch  |-> IF r \in restarting THEN <<>> ELSE scratch[r],
     buffered |-> IF r \in restarting THEN <<>> ELSE buffered[r],
     dropped  |-> async_dropped[r],
     ok       |-> FALSE]

Bug_ReportsDropped(m) ==
    IF m.dropped = 0 THEN m
    ELSE [(IF Fits(m, Dropped(m.dropped)) THEN comm_enc_encode(m, Dropped(m.dropped)) ELSE m) EXCEPT !.dropped = 0]
ReportsDropped(m) ==
    IF m.dropped > 0 /\ Fits(m, Dropped(m.dropped))
    THEN [comm_enc_encode(m, Dropped(m.dropped)) EXCEPT !.dropped = 0]
    ELSE m

(* The first count asynchronous messages are encoded or dropped.           *)
SendsAsync(m, count) ==
    LET after[k \in 0..count] ==
            IF k = 0 THEN m
            ELSE IF Fits(after[k - 1], async[k])
            THEN [comm_enc_encode(after[k - 1], async[k]) EXCEPT !.ok = TRUE]
            ELSE [after[k - 1] EXCEPT !.dropped = @ + 1]
    IN  after[count]

(* What there is no room for is lost when the pipe's transaction ends.     *)
room(m) == SyncFlow - Len(m.buffered)
Pulls(m) == [m EXCEPT !.buffered = @ \o SubSeq(sync, 1, IF Len(sync) < room(m) THEN Len(sync) ELSE room(m))]

SendsSync(m) ==
    LET after[k \in 0..SyncFlow] ==
            IF k = 0 THEN m
            ELSE LET b == after[k - 1]
                 IN  IF b.buffered # <<>> /\ Fits(b, Head(b.buffered))
                     THEN [comm_enc_encode(b, Head(b.buffered)) EXCEPT !.buffered = Tail(@)]
                     ELSE b
    IN  after[SyncFlow]

(* pipe_receive_commit aborts the clip on a message it asked for and left. *)
Aborts(r) == last_requested[r] > 0 /\ Len(sync) > room(Started(r))

(* pipe_sender_commit, for a pipe of one message per epoch.                *)
Bug_Chunk(m) == IF Len(m.scratch) < MsgSize THEN 0 ELSE MsgSize
Chunk(m) == IF Len(m.scratch) < MsgSize THEN Len(m.scratch) ELSE MsgSize

NextTurn == turn' = turn + 1

Keeps(r, m) ==
    /\ scratch' = [scratch EXCEPT ![r] = m.scratch]
    /\ buffered' = [buffered EXCEPT ![r] = m.buffered]
    /\ async_dropped' = [async_dropped EXCEPT ![r] = m.dropped]

Grants(r, m) ==
    /\ last_requested' = [last_requested EXCEPT ![r] = room(m)]
    /\ pressure' = [pressure EXCEPT ![r] = room(m)]

Sends(r, m) ==
    /\ Keeps(r, [m EXCEPT !.scratch = SubSeq(@, credit * Chunk(m) + 1, Len(@))])
    /\ downlink' = [downlink EXCEPT ![r] = SubSeq(m.scratch, 1, credit * Chunk(m))]

Pumped(r) == SendsSync(Pulls(SendsAsync(ReportsDropped(Started(r)), Len(async))))

telemetry_pump(r) ==
    /\ turn = r /\ NextTurn /\ ~Aborts(r)
    /\ \E m \in {Pumped(r)} :
          Sends(r, m) /\ Grants(r, m) /\ indicated' = [indicated EXCEPT ![r] = m.ok]
    /\ restarting' = restarting \ {r}
    /\ UNCHANGED <<async, sync, credit, ghosts, struck, troubles>>

(* Troubles come to one replica at a time.                                 *)
Strikes(r) ==
    /\ struck \subseteq {r} /\ struck' = {r}
    /\ troubles < MaxTroubles /\ troubles' = troubles + 1
    /\ restarting' = restarting \cup {r}

(* The clip is cut anywhere: in the first two stages, after them, after it *)
(* has granted its flow, or at its very end.                               *)
Cut(r) ==
    /\ turn = r /\ NextTurn /\ Strikes(r)
    /\ \/ /\ \E m \in {Started(r)} \cup {SendsAsync(ReportsDropped(Started(r)), k) : k \in 0..Len(async)} :
                Keeps(r, m)
          /\ UNCHANGED <<last_requested, pressure, indicated, downlink>>
       \/ \E m \in {Pumped(r)} :
             /\ Keeps(r, m) /\ indicated' = [indicated EXCEPT ![r] = m.ok]
             /\ Grants(r, m) \/ UNCHANGED <<last_requested, pressure>>
             /\ UNCHANGED downlink
       \/ \E m \in {Pumped(r)} :
             Sends(r, m) /\ Grants(r, m) /\ indicated' = [indicated EXCEPT ![r] = m.ok]
    /\ UNCHANGED <<async, sync, credit, ghosts>>

(* A clip that waits for the scrubber misses a turn.                       *)
SkipTurn(r) ==
    /\ turn = r /\ NextTurn /\ r \in restarting /\ Strikes(r)
    /\ UNCHANGED <<replica, pressure, indicated, async, sync, credit, downlink, ghosts>>

InStep ==
    /\ restarting = {}
    /\ \A r, q \in Replicas :
          /\ scratch[r] = scratch[q] /\ buffered[r] = buffered[q]
          /\ async_dropped[r] = async_dropped[q] /\ last_requested[r] = last_requested[q]

(* The radio takes what a majority sent, and the epoch ends.               *)
Radio ==
    /\ turn = RADIO /\ turn' = OFFER
    /\ stream' = LET agreed == {r \in Replicas : Majority({q \in Replicas : downlink[q] = downlink[r]})}
                 IN  IF agreed = {} THEN stream ELSE stream \o downlink[CHOOSE r \in agreed : TRUE]
    /\ downlink' = Nowhere /\ async' = <<>> /\ sync' = <<>> /\ credit' = 0
    /\ struck' = IF InStep THEN {} ELSE struck
    /\ UNCHANGED <<replica, pressure, indicated, restarting, offered, reported, troubles>>

Next ==
    \/ Offer \/ Radio
    \/ \E r \in Replicas : telemetry_pump(r) \/ Cut(r) \/ SkipTurn(r)

Turns == Offer \/ Radio \/ \E r \in Replicas : telemetry_pump(r)
Granted == Offer /\ credit' = 1

Spec == Init /\ [][Next]_vars
FairSpec == Spec /\ WF_vars(Turns) /\ SF_vars(Granted)

-----------------------------------------------------------------------------
(* The whole packets at the start of a sequence of units.                  *)
Packets(units) ==
    LET starts == SelectSeq(units, LAMBDA u : u.part = 1)
    IN  [i \in DOMAIN starts |-> starts[i].packet]
Whole(units) == units = FlattenSeq([i \in DOMAIN Packets(units) |-> Encoded(Packets(units)[i])])

Of(packets, kind) == SelectSeq(packets, LAMBDA p : p.kind = kind)
Total(packets) == FoldLeft(LAMBDA n, p : n + p.number, 0, packets)

(***************************************************************************)
(* Between epochs, and whatever happens to one replica (telemetry.c:87-98  *)
(* clears its buffers only): what is on the ground and still in the        *)
(* buffers of the others are whole packets; every asynchronous message     *)
(* that was offered is in there, in order, or is counted in a report of    *)
(* dropped telemetry or by the counter for the next one (telemetry.c:103,  *)
(* :161); and every synchronous message is in there or in the circular     *)
(* buffer, once and in order.                                              *)
(***************************************************************************)
Accounted ==
    turn = OFFER => \A r \in Replicas \ struck :
        \E packets \in {Packets(stream \o scratch[r])} :
            LET heard == Of(packets, "async")
            IN  /\ Whole(stream \o scratch[r])
                /\ \A i, j \in DOMAIN heard : i < j => heard[i].number < heard[j].number
                /\ Len(heard) + Total(Of(packets, "drop")) + async_dropped[r] = offered
                /\ Of(packets, "sync") \o buffered[r] = [n \in 1..reported |-> Sync(n)]

(***************************************************************************)
(* When the load ends, all buffers run dry, what was dropped is reported,  *)
(* and a restarted replica is in step with the others again, if the radio  *)
(* goes on to grant it messages (telemetry.c:118-122, pipebuf.c:18-30).    *)
(***************************************************************************)
Drains ==
    []<>(InStep /\ \A r \in Replicas : scratch[r] = <<>> /\ buffered[r] = <<>> /\ async_dropped[r] = 0)
=============================================================================
