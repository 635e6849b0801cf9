-------------------------------- MODULE Duct --------------------------------
(***************************************************************************)
(* The redundant communication duct of src/fsw/synch/duct.c.               *)
(*                                                                         *)
(* A duct carries at most max_flow messages per scheduling epoch from a    *)
(* component that runs as several replicas to another one, in one          *)
(* direction only: each sender replica writes its own row of               *)
(* message_buffer and announces a count to every receiver in flow_status;  *)
(* each receiver votes on every index and hands over what a majority of    *)
(* the senders wrote.                                                      *)
(*                                                                         *)
(* The replicas are clips of a static cyclic schedule, so exactly one of   *)
(* them runs at any time: turn names it.  A clip may be cut short          *)
(* anywhere in its turn (assertion, overrun, a restart that waits for the  *)
(* scrubber) and starts its next turn from the top.  The messages a        *)
(* healthy sender replica produces are a function of its inputs, hence     *)
(* the same in all healthy replicas: intent is that sequence.              *)
(***************************************************************************)
EXTENDS Integers, Sequences, FiniteSets

CONSTANTS
    SenderReplicas,     \* duct_t.sender_replicas
    ReceiverReplicas,   \* duct_t.receiver_replicas
    MaxFlow,            \* duct_t.max_flow
    SenderFirst,        \* TRUE for DUCT_SENDER_FIRST, FALSE for DUCT_RECEIVER_FIRST
    Msg,                \* entries whose size is within [1, message_size]
    Malformed,          \* an entry whose size is not
    MaxFaulty,          \* sender replicas that may deviate in one epoch
    WildWrites          \* whether a deviating sender may also damage its row at random

ASSUME DuctAssumption ==
    /\ SenderReplicas \in 1..4 /\ ReceiverReplicas \in 1..4
    /\ MaxFlow \in 1..254
    /\ SenderFirst \in BOOLEAN /\ WildWrites \in BOOLEAN
    /\ Malformed \notin Msg
    /\ MaxFaulty \in 0..SenderReplicas

DUCT_MISSING_FLOW == 255

Senders   == 0..SenderReplicas - 1
Receivers == 0..ReceiverReplicas - 1
Index     == 0..MaxFlow - 1
Entry     == Msg \cup {Malformed}
FlowIndex == 0..255                \* duct_flow_index is a uint8_t
Batch     == UNION {[1..n -> Msg] : n \in 0..MaxFlow}
NoMessage == <<>>                  \* duct_receive_message returned 0

(***************************************************************************)
(* Turn t in Senders is sender replica t; SenderReplicas + r is receiver   *)
(* replica r; BetweenEpochs is the point where the inputs of the sending   *)
(* component change.                                                       *)
(***************************************************************************)
BetweenEpochs == SenderReplicas + ReceiverReplicas
NoTxn == [mode |-> "INVALID", flow_current |-> DUCT_MISSING_FLOW, flagged |-> {}]

VARIABLES
    flow_status,        \* flow_status[s][r]: count announced by s to r, or DUCT_MISSING_FLOW
    message_buffer,     \* message_buffer[s][i]: entry i of the row of sender replica s
    turn,               \* the replica whose clip is scheduled
    txn,                \* the transaction of the running clip (on its stack)
    intent,             \* what a healthy sender replica sends in this epoch
    faulty,             \* sender replicas that have deviated in this epoch
    got,                \* got[r]: messages handed to receiver r in this epoch
    completed,          \* receivers whose transaction of this epoch committed
    was_completed,      \* ... and of the epoch before
    torn                \* whether a sender was cut while it announced its counts

vars == <<flow_status, message_buffer, turn, txn, intent, faulty, got,
          completed, was_completed, torn>>

TypeOK ==
    /\ flow_status \in [Senders -> [Receivers -> FlowIndex]]
    /\ message_buffer \in [Senders -> [Index -> Entry]]
    /\ turn \in 0..BetweenEpochs
    /\ txn \in [mode: {"INVALID", "SEND", "RECV"},
                flow_current: 0..MaxFlow \cup {DUCT_MISSING_FLOW},
                flagged: SUBSET (Senders \cup Receivers)]
    /\ intent \in Batch
    /\ faulty \subseteq Senders
    /\ got \in [Receivers -> Seq(Msg)]
    /\ completed \subseteq Receivers
    /\ was_completed \subseteq Receivers
    /\ torn \in BOOLEAN

(***************************************************************************)
(* DUCT_REGISTER: the static initialisers.  Under DUCT_RECEIVER_FIRST the  *)
(* first epoch begins with the receivers, who find that every sender sent  *)
(* an empty batch.                                                         *)
(***************************************************************************)
Init ==
    /\ flow_status = [s \in Senders |-> [r \in Receivers |->
                        IF SenderFirst THEN DUCT_MISSING_FLOW ELSE 0]]
    /\ message_buffer = [s \in Senders |-> [i \in Index |-> Malformed]]
    /\ turn = IF SenderFirst THEN BetweenEpochs ELSE SenderReplicas
    /\ txn = NoTxn
    /\ intent = <<>>
    /\ faulty = {}
    /\ got = [r \in Receivers |-> <<>>]
    /\ completed = IF SenderFirst THEN Receivers ELSE {}
    /\ was_completed = Receivers
    /\ torn = FALSE

EndTurn == turn' = turn + 1 /\ txn' = NoTxn

(* The sending component's inputs of the next epoch arrive.                *)
NewEpoch ==
    /\ turn = BetweenEpochs
    /\ turn' = 0
    /\ intent' \in Batch
    /\ faulty' = {}
    /\ got' = [r \in Receivers |-> <<>>]
    /\ completed' = {}
    /\ was_completed' = completed
    /\ torn' = FALSE
    /\ UNCHANGED <<flow_status, message_buffer, txn>>

-----------------------------------------------------------------------------
(* Sender replica s.                                                       *)

(* A replica of the sender deviates from the intended batch from now on:   *)
(* its own computation diverged, which is one of the tolerated faults.     *)
MayFault(s) == s \in faulty \/ Cardinality(faulty) < MaxFaulty

duct_send_prepare(s) ==
    /\ turn = s /\ txn.mode = "INVALID"
    /\ txn' = [mode |-> "SEND", flow_current |-> 0,
               flagged |-> {r \in Receivers : flow_status[s][r] # DUCT_MISSING_FLOW}]
    /\ \/ UNCHANGED faulty
       \/ MayFault(s) /\ faulty' = faulty \cup {s}
    /\ UNCHANGED <<flow_status, message_buffer, turn, intent, got, completed,
                   was_completed, torn>>

duct_send_allowed == txn.flow_current < MaxFlow

duct_send_message(s, m) ==
    /\ turn = s /\ txn.mode = "SEND"
    /\ duct_send_allowed
    /\ \/ s \in faulty
       \/ txn.flow_current < Len(intent) /\ m = intent[txn.flow_current + 1]
    /\ message_buffer' = [message_buffer EXCEPT ![s][txn.flow_current] = m]
    /\ txn' = [txn EXCEPT !.flow_current = @ + 1]
    /\ UNCHANGED <<flow_status, turn, intent, faulty, got, completed,
                   was_completed, torn>>

(* The counts s announces: the same one to every receiver, one by one.     *)
Bug_announce(s) ==
    [flow_status EXCEPT ![s] = [r \in Receivers |->
        IF r = ReceiverReplicas - 1 THEN @[r] ELSE txn.flow_current]]
announce(s) ==
    [flow_status EXCEPT ![s] = [r \in Receivers |-> txn.flow_current]]

duct_send_commit(s) ==
    /\ turn = s /\ txn.mode = "SEND"
    /\ s \in faulty \/ txn.flow_current = Len(intent)
    /\ flow_status' = announce(s)
    /\ EndTurn
    /\ UNCHANGED <<message_buffer, intent, faulty, got, completed, was_completed, torn>>

(* The clip is cut short between two of those stores: the receivers from   *)
(* number k on keep the count they had.                                    *)
CutAnnouncement(s) ==
    /\ turn = s /\ txn.mode = "SEND" /\ MayFault(s)
    /\ s \in faulty \/ txn.flow_current = Len(intent)
    /\ \E k \in Receivers \ {0} :
          flow_status' = [flow_status EXCEPT ![s] = [r \in Receivers |->
                            IF r < k THEN announce(s)[s][r] ELSE flow_status[s][r]]]
    /\ faulty' = faulty \cup {s} /\ torn' = TRUE
    /\ EndTurn
    /\ UNCHANGED <<message_buffer, intent, got, completed, was_completed>>

(* Memory of replica s is damaged, at any time of the epoch: any count (an  *)
(* out-of-range one included) and any entry in its own row.                *)
CorruptRow(s) ==
    /\ WildWrites /\ turn < BetweenEpochs /\ MayFault(s)
    /\ \E f \in [Receivers -> {0, MaxFlow, MaxFlow + 1, DUCT_MISSING_FLOW}],
          b \in [Index -> Entry] :
            /\ flow_status' = [flow_status EXCEPT ![s] = f]
            /\ message_buffer' = [message_buffer EXCEPT ![s] = b]
    /\ faulty' = faulty \cup {s}
    /\ UNCHANGED <<turn, txn, intent, got, completed, was_completed, torn>>

-----------------------------------------------------------------------------
(* Receiver replica r.                                                     *)

Bug_Absent(s, r) ==
    flow_status[s][r] = DUCT_MISSING_FLOW \/ flow_status[s][r] >= MaxFlow
Absent(s, r) ==
    flow_status[s][r] = DUCT_MISSING_FLOW \/ flow_status[s][r] > MaxFlow

duct_receive_prepare(r) ==
    /\ turn = SenderReplicas + r /\ txn.mode = "INVALID"
    /\ txn' = [mode |-> "RECV", flow_current |-> 0,
               flagged |-> {s \in Senders : Absent(s, r)}]
    /\ flow_status' = [s \in Senders |->
                         IF Absent(s, r) THEN [flow_status[s] EXCEPT ![r] = 0]
                                         ELSE flow_status[s]]
    /\ UNCHANGED <<message_buffer, turn, intent, faulty, got, completed,
                   was_completed, torn>>

Bug_majority_threshold == SenderReplicas \div 2
majority_threshold == SenderReplicas \div 2 + 1

Bug_check_message(s, r, i) ==
    ~Absent(s, r) /\ message_buffer[s][i] # Malformed
duct_check_message(s, r, i) ==
    /\ ~Absent(s, r)
    /\ i < flow_status[s][r]
    /\ message_buffer[s][i] # Malformed

(* The candidate and every later replica that wrote the same entry.        *)
Voters(c, r, i) ==
    {s \in Senders : /\ s >= c
                     /\ duct_check_message(s, r, i)
                     /\ message_buffer[s][i] = message_buffer[c][i]}

Winners(r, i) ==
    {c \in Senders : /\ duct_check_message(c, r, i)
                     /\ Cardinality(Voters(c, r, i)) >= majority_threshold}

(* Candidates are tried from replica 0 on.                                 *)
Lowest(W) == CHOOSE c \in W : \A d \in W : c <= d

(* duct_receive_message without its effect on the transaction: <<m>>, or   *)
(* NoMessage.                                                              *)
Vote(r, i) ==
    IF i = MaxFlow \/ Winners(r, i) = {}
    THEN NoMessage
    ELSE <<message_buffer[Lowest(Winners(r, i))][i]>>

duct_receive_message(r) ==
    /\ turn = SenderReplicas + r /\ txn.mode = "RECV"
    /\ Vote(r, txn.flow_current) # NoMessage
    /\ got' = [got EXCEPT ![r] = Append(@, Vote(r, txn.flow_current)[1])]
    /\ txn' = [txn EXCEPT !.flow_current = @ + 1]
    /\ UNCHANGED <<flow_status, message_buffer, turn, intent, faulty, completed,
                   was_completed, torn>>

(* The counts for r are cleared, those of the senders below k at least.    *)
cleared(k, r) ==
    [s \in Senders |-> IF s < k THEN [flow_status[s] EXCEPT ![r] = DUCT_MISSING_FLOW]
                                ELSE flow_status[s]]

(* A receiver that commits with a message left over malfunctions: its clip *)
(* restarts and the counts stay as they were.                              *)
duct_receive_commit(r) ==
    /\ turn = SenderReplicas + r /\ txn.mode = "RECV"
    /\ IF Vote(r, txn.flow_current) # NoMessage
       THEN UNCHANGED <<flow_status, completed>>
       ELSE /\ flow_status' = cleared(SenderReplicas, r)
            /\ completed' = completed \cup {r}
    /\ EndTurn
    /\ UNCHANGED <<message_buffer, intent, faulty, got, was_completed, torn>>

(* The clip is cut short while it clears the counts.                       *)
CutClearing(r) ==
    /\ turn = SenderReplicas + r /\ txn.mode = "RECV"
    /\ Vote(r, txn.flow_current) = NoMessage
    /\ \E k \in Senders \ {0} : flow_status' = cleared(k, r)
    /\ EndTurn
    /\ UNCHANGED <<message_buffer, intent, faulty, got, completed, was_completed, torn>>

-----------------------------------------------------------------------------
(* The running clip is cut short, or never gets to its transaction.        *)
Cut ==
    /\ turn < BetweenEpochs
    /\ IF turn \in Senders
       THEN MayFault(turn) /\ faulty' = faulty \cup {turn}
       ELSE UNCHANGED faulty
    /\ EndTurn
    /\ UNCHANGED <<flow_status, message_buffer, intent, got, completed, was_completed, torn>>

SendStep(s) ==
    \/ duct_send_prepare(s)
    \/ \E m \in Msg : duct_send_message(s, m)
    \/ duct_send_commit(s)
    \/ CutAnnouncement(s)
    \/ CorruptRow(s)

ReceiveStep(r) ==
    \/ duct_receive_prepare(r)
    \/ duct_receive_message(r)
    \/ duct_receive_commit(r)
    \/ CutClearing(r)

Next ==
    \/ NewEpoch
    \/ \E s \in Senders : SendStep(s)
    \/ \E r \in Receivers : ReceiveStep(r)
    \/ Cut

Spec == Init /\ [][Next]_vars

-----------------------------------------------------------------------------
(* What a duct is for.                                                     *)

(* The fault hypothesis under which a duct is a reliable channel.          *)
HealthyMajority == SenderReplicas - MaxFaulty >= majority_threshold

IsPrefixOf(s, t) == Len(s) <= Len(t) /\ \A i \in 1..Len(s) : s[i] = t[i]

(* While fewer than a majority of the sender replicas deviate, a receiver  *)
(* is only ever handed the messages the healthy senders meant to send, in  *)
(* their order and without a gap (not a stale, torn or forged one), and a  *)
(* receiver whose transaction commits was handed all of them.              *)
DeliversIntent ==
    /\ \A r \in Receivers : IsPrefixOf(got[r], intent)
    /\ \A r \in completed : got[r] = intent

(* Two receiver replicas that both commit in this epoch and both committed *)
(* in the last one were handed the same messages, however many senders     *)
(* were cut short or diverged, but that one of them may stop earlier where *)
(* a sender was cut while it announced: senders cannot make the receiver   *)
(* replicas hear different things.                                         *)
Agreement ==
    \A r1, r2 \in completed \cap was_completed :
        /\ IsPrefixOf(got[r1], got[r2]) \/ IsPrefixOf(got[r2], got[r1])
        /\ ~torn => got[r1] = got[r2]

(* Neither side accuses the other wrongly: a receiver flags only senders   *)
(* that deviated in this epoch, and a sender that was not damaged flags    *)
(* only receivers that did not commit in the last one.                     *)
NoFalseAlarm ==
    /\ TypeOK
    /\ txn.mode = "RECV" => txn.flagged \subseteq faulty
    /\ txn.mode = "SEND" => txn.flagged \cap was_completed = {}

(* With a healthy majority of senders in each epoch, the duct is the       *)
(* single-copy mailbox of DuctAbs.                                         *)
Mailbox == INSTANCE DuctAbs WITH
    Readers <- Receivers, Data <- Msg, Capacity <- MaxFlow,
    batch <- intent, taken <- got, finished <- completed

ImplementsMailbox == Mailbox!Spec
=============================================================================
