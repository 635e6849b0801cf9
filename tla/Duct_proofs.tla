---------------------------- MODULE Duct_proofs -----------------------------
(***************************************************************************)
(* Theorems about Duct, for any number of replicas, any flow limit and any *)
(* set of messages: type correctness; delivery of the intended batch when  *)
(* a majority of the senders of each epoch is healthy; the mailbox         *)
(* refinement; no false alarms, and agreement of the receivers, whatever   *)
(* the senders do.                                                         *)
(***************************************************************************)
EXTENDS Duct, FiniteSetTheorems, SequenceTheorems, TLAPS

USE DEF DUCT_MISSING_FLOW

(***************************************************************************)
(* The transaction is open only in the turn of the clip it belongs to, and *)
(* its count is a count.                                                   *)
(***************************************************************************)
TxnOK ==
    /\ txn.mode = "SEND" => turn \in Senders /\ txn.flow_current \in 0..MaxFlow
    /\ txn.mode = "RECV" => /\ turn \in SenderReplicas..BetweenEpochs - 1
                            /\ txn.flow_current \in 0..MaxFlow

-----------------------------------------------------------------------------
(* Facts about the voting operators.                                       *)

LEMMA SendersFinite ==
    /\ IsFiniteSet(Senders)
    /\ Cardinality(Senders) = SenderReplicas
<1>1. SenderReplicas \in Nat /\ SenderReplicas >= 1
  BY DuctAssumption
<1> QED
  BY <1>1, FS_Interval, 0 \in Int, SenderReplicas - 1 \in Int DEF Senders

(* A nonempty set of replica numbers has a least element.                  *)
LEMMA LeastReplica ==
    ASSUME NEW W \in SUBSET (0..3), W # {}
    PROVE  \E c \in W : \A d \in W : c <= d
<1>1. CASE 0 \in W
  BY <1>1
<1>2. CASE 0 \notin W /\ 1 \in W
  BY <1>2
<1>3. CASE 0 \notin W /\ 1 \notin W /\ 2 \in W
  BY <1>3
<1>4. CASE 3 \in W /\ 0 \notin W /\ 1 \notin W /\ 2 \notin W
  BY <1>4
<1>5. 0 \in W \/ 1 \in W \/ 2 \in W \/ 3 \in W
  <2>1. PICK x \in W : TRUE
    OBVIOUS
  <2>2. x = 0 \/ x = 1 \/ x = 2 \/ x = 3
    BY <2>1
  <2> QED
    BY <2>1, <2>2
<1> QED
  BY <1>1, <1>2, <1>3, <1>4, <1>5

(* What a vote returns is a well-formed entry of some sender's row.        *)
LEMMA VoteType ==
    ASSUME TypeOK, NEW r \in Receivers, NEW i \in 0..MaxFlow,
           Vote(r, i) # NoMessage
    PROVE  \E c \in Winners(r, i) : /\ Vote(r, i) = <<message_buffer[c][i]>>
                                    /\ i \in Index
                                    /\ message_buffer[c][i] \in Msg
<1> DEFINE W == Winners(r, i)
<1>1. i # MaxFlow /\ W # {}
  BY DEF Vote
<1>2. i \in Index
  BY <1>1, DuctAssumption DEF Index
<1>3. W \subseteq 0..3
  BY DuctAssumption DEF Winners, Senders
<1>4. \E c \in W : \A d \in W : c <= d
  BY <1>1, <1>3, LeastReplica
<1>5. PICK c \in W : c = Lowest(W)
  BY <1>4 DEF Lowest
<1>6. Vote(r, i) = <<message_buffer[c][i]>>
  BY <1>1, <1>5 DEF Vote
<1>7. message_buffer[c][i] \in Msg
  <2>1. c \in Senders /\ message_buffer[c][i] # Malformed
    BY DEF Winners, duct_check_message
  <2> QED
    BY <2>1, <1>2 DEF TypeOK, Entry
<1> QED
  BY <1>2, <1>6, <1>7

(* A batch is a sequence of at most MaxFlow messages.                      *)
LEMMA BatchIsSeq ==
    ASSUME NEW b \in Batch
    PROVE  b \in Seq(Msg) /\ Len(b) \in 0..MaxFlow /\ DOMAIN b = 1..Len(b)
<1>1. PICK n \in 0..MaxFlow : b \in [1..n -> Msg]
  BY DEF Batch
<1>2. n \in Nat
  BY DuctAssumption
<1>3. b \in Seq(Msg)
  BY <1>1, <1>2
<1>4. Len(b) = n
  BY <1>1, <1>2, <1>3, LenProperties
<1> QED
  BY <1>1, <1>3, <1>4

(* DUCT_MAX_FLOW keeps every legal count apart from DUCT_MISSING_FLOW.      *)
LEMMA FlowIsNotMissing ==
    ASSUME NEW n \in 0..MaxFlow
    PROVE  n # DUCT_MISSING_FLOW /\ ~(n > MaxFlow)
BY DuctAssumption

-----------------------------------------------------------------------------
(* Type correctness.                                                       *)

TypeInv == TypeOK /\ TxnOK

LEMMA InitTypeInv == Init => TypeInv
<1> SUFFICES ASSUME Init PROVE TypeInv
  OBVIOUS
<1> USE DuctAssumption
<1>1. <<>> \in Batch /\ <<>> \in Seq(Msg)
  BY DEF Batch
<1>2. txn = NoTxn /\ txn.mode = "INVALID" /\ txn.flagged = {}
  BY DEF Init, NoTxn
<1>3. flow_status \in [Senders -> [Receivers -> FlowIndex]]
  BY DEF Init, FlowIndex
<1>4. message_buffer \in [Senders -> [Index -> Entry]]
  BY DEF Init, Entry
<1>5. turn \in 0..BetweenEpochs
  BY DEF Init, BetweenEpochs
<1>6. txn \in [mode: {"INVALID", "SEND", "RECV"},
              flow_current: 0..MaxFlow \cup {DUCT_MISSING_FLOW},
              flagged: SUBSET (Senders \cup Receivers)]
  BY <1>2 DEF NoTxn
<1> QED
  BY <1>1, <1>2, <1>3, <1>4, <1>5, <1>6 DEF TypeInv, TypeOK, TxnOK, Init

LEMMA NextTypeInv == TypeInv /\ [Next]_vars => TypeInv'
<1> SUFFICES ASSUME TypeInv, [Next]_vars PROVE TypeInv'
  OBVIOUS
<1> USE DuctAssumption DEF TypeInv, TypeOK, TxnOK
<1>1. CASE NewEpoch
  <2>1. turn' \in 0..BetweenEpochs /\ txn' = txn /\ txn.mode \notin {"SEND", "RECV"}
    BY <1>1 DEF NewEpoch, BetweenEpochs, Senders
  <2>2. /\ intent' \in Batch
        /\ faulty' \subseteq Senders /\ completed' \subseteq Receivers
        /\ was_completed' \subseteq Receivers /\ torn' \in BOOLEAN
    BY <1>1 DEF NewEpoch
  <2>5. got' \in [Receivers -> Seq(Msg)]
    <3>1. got' = [r \in Receivers |-> <<>>] /\ <<>> \in Seq(Msg)
      BY <1>1 DEF NewEpoch
    <3> QED
      BY <3>1
  <2>3. /\ flow_status' \in [Senders -> [Receivers -> FlowIndex]]
        /\ message_buffer' \in [Senders -> [Index -> Entry]]
        /\ txn' \in [mode: {"INVALID", "SEND", "RECV"},
                    flow_current: 0..MaxFlow \cup {DUCT_MISSING_FLOW},
                    flagged: SUBSET (Senders \cup Receivers)]
    BY <1>1, <2>1 DEF NewEpoch
  <2>4. TxnOK'
    BY <2>1
  <2> QED
    BY <2>1, <2>2, <2>3, <2>4, <2>5
<1>2. ASSUME NEW s \in Senders, SendStep(s) PROVE TypeInv'
  <2>1. CASE duct_send_prepare(s)
    <3>1. txn' \in [mode: {"INVALID", "SEND", "RECV"},
                   flow_current: 0..MaxFlow \cup {DUCT_MISSING_FLOW},
                   flagged: SUBSET (Senders \cup Receivers)]
      BY <2>1 DEF duct_send_prepare
    <3>2. TxnOK'
      BY <2>1 DEF duct_send_prepare
    <3>3. faulty' \subseteq Senders
      <4>1. faulty' = faulty \/ faulty' = faulty \cup {s}
        BY <2>1 DEF duct_send_prepare
      <4> QED
        BY <4>1
    <3> QED
      BY <2>1, <3>1, <3>2, <3>3 DEF duct_send_prepare
  <2>2. ASSUME NEW m \in Msg, duct_send_message(s, m) PROVE TypeInv'
    <3>0. txn.flow_current \in 0..MaxFlow /\ txn.flow_current < MaxFlow
      BY <2>2 DEF duct_send_message, duct_send_allowed
    <3>1. txn.flow_current \in Index /\ txn.flow_current + 1 \in 0..MaxFlow
      <4> HIDE DEF TypeInv, TypeOK, TxnOK
      <4> QED
        BY <3>0 DEF Index
    <3>2. message_buffer' \in [Senders -> [Index -> Entry]]
      BY <2>2, <3>1 DEF duct_send_message, Entry
    <3> QED
      BY <2>2, <3>1, <3>2 DEF duct_send_message
  <2>3. CASE duct_send_commit(s)
    <3>0. txn.flow_current \in 0..MaxFlow
      BY <2>3 DEF duct_send_commit
    <3>1. txn.flow_current \in FlowIndex
      <4> HIDE DEF TypeInv, TypeOK, TxnOK
      <4> QED
        BY <3>0 DEF FlowIndex
    <3>2. flow_status' \in [Senders -> [Receivers -> FlowIndex]]
      BY <2>3, <3>1 DEF duct_send_commit, announce
    <3>3. turn' \in 0..BetweenEpochs /\ txn' = NoTxn
      BY <2>3 DEF duct_send_commit, EndTurn, Senders, BetweenEpochs
    <3> QED
      BY <2>3, <3>2, <3>3 DEF duct_send_commit, NoTxn
  <2>4. CASE CorruptRow(s)
    <3>1. PICK f \in [Receivers -> {0, MaxFlow, MaxFlow + 1, DUCT_MISSING_FLOW}],
               b \in [Index -> Entry] :
                 /\ flow_status' = [flow_status EXCEPT ![s] = f]
                 /\ message_buffer' = [message_buffer EXCEPT ![s] = b]
      BY <2>4 DEF CorruptRow
    <3>2. f \in [Receivers -> FlowIndex]
      <4>1. {0, MaxFlow, MaxFlow + 1, DUCT_MISSING_FLOW} \subseteq FlowIndex
        <5> HIDE DEF TypeInv, TypeOK, TxnOK
        <5> QED
          BY DEF FlowIndex
      <4> HIDE DEF TypeInv, TypeOK, TxnOK, FlowIndex
      <4> QED
        BY <4>1
    <3> QED
      BY <2>4, <3>1, <3>2 DEF CorruptRow
  <2>5. CASE CutAnnouncement(s)
    <3>1. PICK k \in Receivers \ {0} :
             flow_status' = [flow_status EXCEPT ![s] = [r \in Receivers |->
                               IF r < k THEN announce(s)[s][r] ELSE flow_status[s][r]]]
      BY <2>5 DEF CutAnnouncement
    <3>2. txn.flow_current \in FlowIndex
      <4>1. txn.flow_current \in 0..MaxFlow
        BY <2>5 DEF CutAnnouncement
      <4> HIDE DEF TypeInv, TypeOK, TxnOK
      <4> QED
        BY <4>1 DEF FlowIndex
    <3>3. \A r \in Receivers : announce(s)[s][r] \in FlowIndex
      BY <3>2 DEF announce
    <3>4. flow_status' \in [Senders -> [Receivers -> FlowIndex]]
      BY <3>1, <3>3
    <3>5. turn' \in 0..BetweenEpochs /\ txn' = NoTxn
      BY <2>5 DEF CutAnnouncement, EndTurn, Senders, BetweenEpochs
    <3> QED
      BY <2>5, <3>4, <3>5 DEF CutAnnouncement, NoTxn
  <2> QED
    BY <1>2, <2>1, <2>2, <2>3, <2>4, <2>5 DEF SendStep
<1>3. ASSUME NEW r \in Receivers, ReceiveStep(r) PROVE TypeInv'
  <2>0. 0 \in FlowIndex /\ DUCT_MISSING_FLOW \in FlowIndex
    BY DEF FlowIndex
  <2>c. ASSUME NEW k PROVE cleared(k, r) \in [Senders -> [Receivers -> FlowIndex]]
    <3>1. ASSUME NEW s \in Senders
          PROVE  [flow_status[s] EXCEPT ![r] = DUCT_MISSING_FLOW] \in [Receivers -> FlowIndex]
      BY <2>0
    <3> QED
      BY <3>1 DEF cleared
  <2>1. CASE duct_receive_prepare(r)
    <3>1. flow_status' \in [Senders -> [Receivers -> FlowIndex]]
      BY <2>0, <2>1 DEF duct_receive_prepare
    <3>2. turn \in SenderReplicas..BetweenEpochs - 1
      BY <2>1 DEF duct_receive_prepare, Receivers, BetweenEpochs
    <3> QED
      BY <2>1, <3>1, <3>2 DEF duct_receive_prepare
  <2>2. CASE duct_receive_message(r)
    <3> DEFINE i == txn.flow_current
    <3>1. i \in 0..MaxFlow
      BY <2>2 DEF duct_receive_message
    <3>2. PICK c \in Winners(r, i) : /\ Vote(r, i) = <<message_buffer[c][i]>>
                                     /\ i \in Index
                                     /\ message_buffer[c][i] \in Msg
      <4>1. TypeOK /\ Vote(r, i) # NoMessage
        BY <2>2 DEF duct_receive_message
      <4> HIDE DEF i, TypeOK
      <4> QED
        BY <3>1, <4>1, VoteType
    <3>3. got' \in [Receivers -> Seq(Msg)]
      <4>1. Append(got[r], message_buffer[c][i]) \in Seq(Msg)
        BY <3>2
      <4>2. got' = [got EXCEPT ![r] = Append(got[r], message_buffer[c][i])]
        BY <2>2, <3>2 DEF duct_receive_message
      <4> QED
        BY <4>1, <4>2
    <3>4. i + 1 \in 0..MaxFlow
      BY <3>2 DEF Index
    <3> QED
      BY <2>2, <3>3, <3>4 DEF duct_receive_message
  <2>3. CASE duct_receive_commit(r)
    <3>1. flow_status' \in [Senders -> [Receivers -> FlowIndex]]
      BY <2>3, <2>c DEF duct_receive_commit
    <3>2. completed' \subseteq Receivers
      BY <2>3 DEF duct_receive_commit
    <3>3. turn' \in 0..BetweenEpochs /\ txn' = NoTxn
      BY <2>3 DEF duct_receive_commit, EndTurn, Receivers, BetweenEpochs
    <3> QED
      BY <2>3, <3>1, <3>2, <3>3 DEF duct_receive_commit, NoTxn
  <2>4. CASE CutClearing(r)
    <3>1. flow_status' \in [Senders -> [Receivers -> FlowIndex]]
      BY <2>4, <2>c DEF CutClearing
    <3>2. turn' \in 0..BetweenEpochs /\ txn' = NoTxn
      BY <2>4 DEF CutClearing, EndTurn, Receivers, BetweenEpochs
    <3> QED
      BY <2>4, <3>1, <3>2 DEF CutClearing, NoTxn
  <2> QED
    BY <1>3, <2>1, <2>2, <2>3, <2>4 DEF ReceiveStep
<1>4. CASE Cut
  <2>1. turn' \in 0..BetweenEpochs /\ txn' = NoTxn
    BY <1>4 DEF Cut, EndTurn, BetweenEpochs
  <2> QED
    BY <1>4, <2>1 DEF Cut, NoTxn
<1>5. CASE UNCHANGED vars
  BY <1>5 DEF vars
<1> QED
  BY <1>1, <1>2, <1>3, <1>4, <1>5 DEF Next

(* In every run, the counts are counts or DUCT_MISSING_FLOW, an open       *)
(* transaction never exceeds max_flow (the assertions of                   *)
(* duct_send_message and duct_receive_message), and a receiver is handed   *)
(* well-formed messages only.                                              *)
THEOREM TypeCorrect == Spec => []TypeOK
<1>1. TypeInv => TypeOK
  BY DEF TypeInv
<1> QED
  BY <1>1, InitTypeInv, NextTypeInv, PTL DEF Spec

-----------------------------------------------------------------------------
(* Delivery.  The inductive invariant follows the turns: a healthy sender  *)
(* whose turn is over has the whole batch in its row and its length as its *)
(* count for every receiver yet to run; one in its turn has the prefix it  *)
(* has written; a receiver in its turn holds as many messages as its       *)
(* transaction has counted.                                                *)

Healthy == Senders \ faulty

RowsOK ==
    \A s \in Healthy :
        /\ s < turn => \A i \in 1..Len(intent) : message_buffer[s][i - 1] = intent[i]
        /\ turn = s /\ txn.mode = "SEND" =>
              /\ txn.flow_current <= Len(intent)
              /\ \A i \in 1..txn.flow_current : message_buffer[s][i - 1] = intent[i]

CountsOK ==
    \A s \in Healthy, r \in Receivers :
        s < turn /\ turn <= SenderReplicas + r => flow_status[s][r] = Len(intent)

GotOK ==
    \A r \in Receivers :
        /\ IsPrefixOf(got[r], intent)
        /\ turn < SenderReplicas + r => got[r] = <<>>
        /\ turn = SenderReplicas + r =>
              Len(got[r]) = IF txn.mode = "RECV" THEN txn.flow_current ELSE 0

CompletedOK ==
    \A r \in completed : got[r] = intent /\ SenderReplicas + r < turn

DeliveryInv ==
    /\ Cardinality(faulty) <= MaxFaulty
    /\ RowsOK /\ CountsOK /\ GotOK /\ CompletedOK

(* The healthy senders are a majority.                                     *)
LEMMA HealthyAreMajority ==
    ASSUME TypeInv, Cardinality(faulty) <= MaxFaulty, HealthyMajority
    PROVE  /\ IsFiniteSet(Healthy)
           /\ Cardinality(Healthy) \in Nat
           /\ Cardinality(Healthy) >= majority_threshold
<1>1. IsFiniteSet(Senders) /\ Cardinality(Senders) = SenderReplicas
  BY SendersFinite
<1>2. faulty \subseteq Senders
  BY DEF TypeInv, TypeOK
<1>3. IsFiniteSet(faulty) /\ Cardinality(faulty) \in Nat
  BY <1>1, <1>2, FS_Subset, FS_CardinalityType
<1>4. Senders \cap faulty = faulty
  BY <1>2
<1>5. IsFiniteSet(Healthy) /\ Cardinality(Healthy) = SenderReplicas - Cardinality(faulty)
  BY <1>1, <1>4, FS_Difference DEF Healthy
<1>6. Cardinality(Healthy) \in Nat
  BY <1>5, FS_CardinalityType
<1>7. SenderReplicas \in Int /\ MaxFaulty \in Int /\ majority_threshold \in Int
  BY DuctAssumption DEF majority_threshold
<1> QED
  BY <1>3, <1>5, <1>6, <1>7 DEF HealthyMajority

(* Any two majorities of the senders share a replica.                      *)
LEMMA MajoritiesMeet ==
    ASSUME NEW S \in SUBSET Senders, NEW T \in SUBSET Senders,
           Cardinality(S) >= majority_threshold,
           Cardinality(T) >= majority_threshold
    PROVE  S \cap T # {}
<1>1. IsFiniteSet(Senders) /\ Cardinality(Senders) = SenderReplicas
  BY SendersFinite
<1>2. Cardinality(S) \in Nat /\ Cardinality(T) \in Nat
  BY <1>1, FS_Subset, FS_CardinalityType
<1>3. Cardinality(S) + Cardinality(T) > SenderReplicas
  BY <1>2, DuctAssumption DEF majority_threshold
<1> QED
  BY <1>1, <1>3, FS_MajoritiesIntersect

(* In the turn of receiver r, the vote on an index of the batch returns    *)
(* that message, and the vote past its end returns nothing: the heart of   *)
(* the argument.                                                           *)
LEMMA HealthyVote ==
    ASSUME TypeInv, DeliveryInv, HealthyMajority,
           NEW r \in Receivers, turn = SenderReplicas + r,
           NEW i \in 0..MaxFlow, i <= Len(intent)
    PROVE  Vote(r, i) = IF i < Len(intent) THEN <<intent[i + 1]>> ELSE NoMessage
<1>0. /\ intent \in Seq(Msg) /\ Len(intent) \in 0..MaxFlow
      /\ \A k \in 1..Len(intent) : intent[k] \in Msg
  BY BatchIsSeq, ElementOfSeq DEF TypeInv, TypeOK
<1>1. /\ Cardinality(Healthy) >= majority_threshold
      /\ IsFiniteSet(Healthy) /\ Cardinality(Healthy) \in Nat
  BY HealthyAreMajority DEF DeliveryInv
<1>2. \A s \in Healthy : s \in Senders /\ s < turn /\ flow_status[s][r] = Len(intent)
  <2>1. \A s \in Senders : s < turn
    BY DuctAssumption DEF Senders, Receivers
  <2>2. turn <= SenderReplicas + r
    BY DuctAssumption DEF Receivers
  <2> QED
    BY <2>1, <2>2 DEF Healthy, DeliveryInv, CountsOK
<1>3. \A s \in Healthy : ~Absent(s, r)
  BY <1>0, <1>2, DuctAssumption DEF Absent
(* A winner's voters meet the healthy senders.                             *)
<1>4. ASSUME NEW c \in Winners(r, i)
      PROVE  /\ i < Len(intent)
             /\ message_buffer[c][i] = intent[i + 1]
  <2>1. Voters(c, r, i) \subseteq Senders /\ Healthy \subseteq Senders
    BY DEF Voters, Healthy
  <2>2. Cardinality(Voters(c, r, i)) >= majority_threshold
    BY DEF Winners
  <2>3. PICK s \in Senders : s \in Voters(c, r, i) /\ s \in Healthy
    BY <2>1, <2>2, <1>1, MajoritiesMeet
  <2>4. i < flow_status[s][r] /\ message_buffer[s][i] = message_buffer[c][i]
    BY <2>3 DEF Voters, duct_check_message
  <2>5. i < Len(intent)
    BY <2>3, <2>4, <1>2
  <2>6. message_buffer[s][i] = intent[i + 1]
    <3>1. \A k \in 1..Len(intent) : message_buffer[s][k - 1] = intent[k]
      BY <2>3, <1>2 DEF DeliveryInv, RowsOK
    <3>2. i + 1 \in 1..Len(intent) /\ (i + 1) - 1 = i
      BY <2>5, <1>0
    <3> QED
      BY <3>1, <3>2
  <2> QED
    BY <2>4, <2>5, <2>6
<1>5. CASE i = Len(intent)
  <2>1. Winners(r, i) = {}
    BY <1>4, <1>5, <1>0
  <2> QED
    BY <2>1, <1>5, <1>0 DEF Vote
(* All the healthy senders vote for the lowest of them.                    *)
<1>6. CASE i < Len(intent)
  <2>1. i # MaxFlow /\ i + 1 \in 1..Len(intent) /\ (i + 1) - 1 = i
    BY <1>6, <1>0
  <2>2. \A s \in Healthy : /\ duct_check_message(s, r, i)
                           /\ message_buffer[s][i] = intent[i + 1]
    <3> TAKE s \in Healthy
    <3>1. message_buffer[s][i] = intent[i + 1]
      <4>1. \A k \in 1..Len(intent) : message_buffer[s][k - 1] = intent[k]
        BY <1>2 DEF DeliveryInv, RowsOK
      <4> QED
        BY <4>1, <2>1
    <3>2. message_buffer[s][i] # Malformed
      BY <3>1, <2>1, <1>0, DuctAssumption
    <3> QED
      BY <3>1, <3>2, <1>2, <1>3, <1>6 DEF duct_check_message
  <2>3. \E c \in Healthy : \A d \in Healthy : c <= d
    <3>1. Healthy # {}
      <4>1. majority_threshold >= 1 /\ majority_threshold \in Int
        BY DuctAssumption DEF majority_threshold
      <4> QED
        BY <4>1, <1>1, FS_EmptySet
    <3>2. Healthy \subseteq 0..3
      BY DuctAssumption DEF Healthy, Senders
    <3> QED
      BY <3>1, <3>2, LeastReplica
  <2>4. PICK c \in Healthy : \A d \in Healthy : c <= d
    BY <2>3
  <2>5. Healthy \subseteq Voters(c, r, i)
    <3>1. \A s \in Healthy : s >= c
      BY <2>4, <1>2, DuctAssumption DEF Senders
    <3> QED
      BY <3>1, <2>2, <2>4, <1>2 DEF Voters
  <2>6. Cardinality(Voters(c, r, i)) >= majority_threshold
    <3>1. IsFiniteSet(Voters(c, r, i))
      BY SendersFinite, FS_Subset, Voters(c, r, i) \in SUBSET Senders DEF Voters
    <3>2. Cardinality(Healthy) <= Cardinality(Voters(c, r, i))
      BY <3>1, <2>5, FS_Subset
    <3>3. Cardinality(Voters(c, r, i)) \in Nat /\ majority_threshold \in Int
      BY <3>1, FS_CardinalityType, DuctAssumption DEF majority_threshold
    <3> QED
      BY <3>2, <3>3, <1>1
  <2>7. c \in Winners(r, i)
    BY <2>2, <2>4, <2>6, <1>2 DEF Winners
  <2>8. Winners(r, i) \subseteq 0..3
    BY DuctAssumption DEF Winners, Senders
  <2>9. PICK w \in Winners(r, i) : w = Lowest(Winners(r, i))
    BY <2>7, <2>8, LeastReplica DEF Lowest
  <2>10. Vote(r, i) = <<message_buffer[w][i]>>
    BY <2>1, <2>7, <2>9 DEF Vote
  <2> QED
    BY <2>10, <1>4, <1>6
<1> QED
  BY <1>0, <1>5, <1>6

LEMMA InitCounts == ASSUME Init PROVE CountsOK
<1> USE DuctAssumption
<1> SUFFICES ASSUME NEW s \in Senders, NEW r \in Receivers, turn <= SenderReplicas + r
             PROVE  flow_status[s][r] = Len(intent)
  BY DEF CountsOK, Healthy
<1>1. ~SenderFirst
  BY DEF Init, Receivers, BetweenEpochs
<1>2. flow_status[s][r] = 0 /\ intent = <<>>
  BY <1>1 DEF Init
<1> QED
  BY <1>2

LEMMA InitDelivery == Init => DeliveryInv
<1> SUFFICES ASSUME Init PROVE DeliveryInv
  OBVIOUS
<1> USE DuctAssumption
<1>1. Len(intent) = 0 /\ \A r \in Receivers : got[r] = <<>>
  BY DEF Init
<1>2. Cardinality(faulty) <= MaxFaulty
  BY FS_EmptySet DEF Init
<1>3. RowsOK
  BY <1>1 DEF Init, RowsOK, NoTxn
<1>4. CountsOK
  BY InitCounts
<1>5. GotOK
  BY <1>1 DEF Init, GotOK, NoTxn, IsPrefixOf
<1>6. CompletedOK
  BY <1>1 DEF Init, CompletedOK, Receivers, BetweenEpochs
<1> QED
  BY <1>2, <1>3, <1>4, <1>5, <1>6 DEF DeliveryInv

(* A replica deviates: the fault bound holds and nothing is asked of it    *)
(* any more.                                                               *)
LEMMA OneMoreFault ==
    ASSUME TypeInv, Cardinality(faulty) <= MaxFaulty, NEW s \in Senders, MayFault(s)
    PROVE  Cardinality(faulty \cup {s}) <= MaxFaulty
<1>1. IsFiniteSet(faulty)
  BY SendersFinite, FS_Subset DEF TypeInv, TypeOK
<1>2. Cardinality(faulty) \in Nat /\ MaxFaulty \in Int
  BY <1>1, FS_CardinalityType, DuctAssumption
<1>3. CASE s \in faulty
  <2>1. faulty \cup {s} = faulty
    BY <1>3
  <2> QED
    BY <2>1
<1>4. CASE s \notin faulty
  <2>1. Cardinality(faulty \cup {s}) = Cardinality(faulty) + 1
    BY <1>1, <1>4, FS_AddElement
  <2>2. Cardinality(faulty) < MaxFaulty
    BY <1>4 DEF MayFault
  <2> QED
    BY <2>1, <2>2, <1>2
<1> QED
  BY <1>3, <1>4

(* The end of a turn in which counts, rows and receipts did not change.    *)
LEMMA EndTurnDelivery ==
    ASSUME TypeInv, DeliveryInv, EndTurn, turn < BetweenEpochs,
           UNCHANGED <<intent, got>>,
           Healthy' \subseteq Healthy, Cardinality(faulty') <= MaxFaulty,
           RowsOK', CountsOK', CompletedOK'
    PROVE  DeliveryInv'
<1>1. turn \in Int /\ txn'.mode = "INVALID" /\ turn' = turn + 1
  BY DEF EndTurn, NoTxn, TypeInv, TypeOK
<1>2. GotOK'
  <2> SUFFICES ASSUME NEW r \in Receivers
               PROVE  /\ IsPrefixOf(got[r], intent)
                      /\ turn + 1 < SenderReplicas + r => got[r] = <<>>
                      /\ turn + 1 = SenderReplicas + r => Len(got[r]) = 0
    BY <1>1 DEF GotOK
  <2>1. r \in Int /\ SenderReplicas \in Int
    BY DuctAssumption DEF Receivers
  <2>2. turn < SenderReplicas + r => got[r] = <<>>
    BY DEF DeliveryInv, GotOK
  <2> QED
    BY <1>1, <2>1, <2>2 DEF DeliveryInv, GotOK
<1> QED
  BY <1>2 DEF DeliveryInv

LEMMA NextDelivery ==
    ASSUME HealthyMajority, TypeInv, DeliveryInv, [Next]_vars
    PROVE  DeliveryInv'
<1> USE DuctAssumption
<1>t. /\ turn \in 0..BetweenEpochs /\ BetweenEpochs = SenderReplicas + ReceiverReplicas
      /\ SenderReplicas \in 1..4 /\ ReceiverReplicas \in 1..4
  BY DEF TypeInv, TypeOK, BetweenEpochs
<1>i. /\ intent \in Seq(Msg) /\ Len(intent) \in 0..MaxFlow
      /\ \A k \in 1..Len(intent) : intent[k] \in Msg
  BY BatchIsSeq, ElementOfSeq DEF TypeInv, TypeOK
<1>f. Cardinality(faulty) <= MaxFaulty
  BY DEF DeliveryInv
<1>1. CASE NewEpoch
  <2>1. turn' = 0 /\ txn'.mode = "INVALID"
    <3>1. txn.mode # "SEND" /\ txn.mode # "RECV"
      BY <1>1, <1>t DEF NewEpoch, TypeInv, TxnOK, Senders
    <3> QED
      BY <1>1, <3>1 DEF NewEpoch, TypeInv, TypeOK
  <2>2. faulty' = {} /\ completed' = {} /\ \A r \in Receivers : got'[r] = <<>>
    BY <1>1 DEF NewEpoch
  <2>3. RowsOK' /\ CountsOK'
    BY <2>1 DEF RowsOK, CountsOK, Healthy, Senders
  <2>4. GotOK'
    <3>1. Len(intent') \in Nat
      BY <1>1, BatchIsSeq DEF NewEpoch
    <3> QED
      BY <2>1, <2>2, <3>1 DEF GotOK, IsPrefixOf
  <2> QED
    BY <2>2, <2>3, <2>4, FS_EmptySet DEF DeliveryInv, CompletedOK
<1>2. ASSUME NEW s \in Senders, SendStep(s) PROVE DeliveryInv'
  <2>s. s \in Int /\ s >= 0 /\ s < SenderReplicas
    BY DEF Senders
  <2>1. CASE duct_send_prepare(s)
    <3>1. /\ turn = s /\ turn' = turn /\ txn'.flow_current = 0
          /\ UNCHANGED <<flow_status, message_buffer, intent, got, completed>>
          /\ txn.mode = "INVALID" /\ txn'.mode = "SEND"
      BY <2>1 DEF duct_send_prepare
    <3>2. faulty' = faulty \/ (MayFault(s) /\ faulty' = faulty \cup {s})
      BY <2>1 DEF duct_send_prepare
    <3>3. Cardinality(faulty') <= MaxFaulty /\ Healthy' \subseteq Healthy
      BY <3>2, <1>f, OneMoreFault DEF Healthy
    <3>4. RowsOK'
      BY <3>1, <3>3, <1>i DEF RowsOK, DeliveryInv
    <3>5. CountsOK'
      BY <3>1, <3>3 DEF CountsOK, DeliveryInv
    <3>6. GotOK' /\ CompletedOK'
      BY <3>1 DEF GotOK, CompletedOK, DeliveryInv
    <3> QED
      BY <3>3, <3>4, <3>5, <3>6 DEF DeliveryInv
  <2>2. ASSUME NEW m \in Msg, duct_send_message(s, m) PROVE DeliveryInv'
    <3> DEFINE n == txn.flow_current
    <3>1. /\ turn = s /\ turn' = turn
          /\ UNCHANGED <<flow_status, intent, faulty, got, completed>>
          /\ txn.mode = "SEND" /\ txn'.mode = "SEND" /\ txn'.flow_current = n + 1
          /\ message_buffer' = [message_buffer EXCEPT ![s][n] = m]
          /\ s \in faulty \/ (n < Len(intent) /\ m = intent[n + 1])
      BY <2>2 DEF duct_send_message, TypeInv, TypeOK
    <3>2. n \in Index /\ n \in Nat
      <4>1. n \in 0..MaxFlow /\ n < MaxFlow
        BY <2>2 DEF duct_send_message, duct_send_allowed, TypeInv, TxnOK
      <4> QED
        BY <4>1 DEF Index
    <3>3. \A t \in Senders : t # s => message_buffer'[t] = message_buffer[t]
      BY <3>1 DEF TypeInv, TypeOK
    <3>4. \A i \in Index : message_buffer'[s][i] = IF i = n THEN m ELSE message_buffer[s][i]
      BY <3>1, <3>2 DEF TypeInv, TypeOK
    <3>5. RowsOK'
      <4> SUFFICES ASSUME NEW t \in Senders, t \notin faulty
                   PROVE  /\ t < turn => \A i \in 1..Len(intent) :
                                              message_buffer'[t][i - 1] = intent[i]
                          /\ turn = t => /\ n + 1 <= Len(intent)
                                         /\ \A i \in 1..n + 1 :
                                               message_buffer'[t][i - 1] = intent[i]
        BY <3>1 DEF RowsOK, Healthy
      <4>1. CASE t # s
        BY <4>1, <3>1, <3>3 DEF DeliveryInv, RowsOK, Healthy
      <4>2. CASE t = s
        <5>1. n < Len(intent) /\ m = intent[n + 1]
          BY <4>2, <3>1
        <5>2. \A i \in 1..n : message_buffer[s][i - 1] = intent[i]
          BY <4>2, <3>1 DEF DeliveryInv, RowsOK, Healthy
        <5>3. ASSUME NEW i \in 1..n + 1 PROVE message_buffer'[s][i - 1] = intent[i]
          <6>1. i - 1 \in Index
            BY <3>2 DEF Index
          <6>2. CASE i = n + 1
            BY <6>1, <6>2, <5>1, <3>4, <3>2
          <6>3. CASE i \in 1..n
            BY <6>1, <6>3, <5>2, <3>4, <3>2
          <6> QED
            BY <6>2, <6>3, <3>2
        <5> QED
          BY <4>2, <5>1, <5>3, <3>1, <3>2, <1>i, <2>s
      <4> QED
        BY <4>1, <4>2
    <3>6. CountsOK' /\ CompletedOK'
      BY <3>1 DEF CountsOK, CompletedOK, Healthy, DeliveryInv
    <3>7. GotOK'
      BY <3>1 DEF GotOK, DeliveryInv
    <3> QED
      BY <3>1, <3>5, <3>6, <3>7, <1>f DEF DeliveryInv
  <2>3. CASE duct_send_commit(s)
    <3>1. /\ turn = s /\ EndTurn /\ turn' = s + 1
          /\ UNCHANGED <<message_buffer, intent, faulty, got, completed>>
          /\ txn.mode = "SEND"
          /\ s \in faulty \/ txn.flow_current = Len(intent)
          /\ txn'.mode = "INVALID"
      BY <2>3 DEF duct_send_commit, EndTurn, NoTxn
    <3>2. \A t \in Senders, r \in Receivers :
             flow_status'[t][r] = IF t = s THEN txn.flow_current ELSE flow_status[t][r]
      BY <2>3 DEF duct_send_commit, announce, TypeInv, TypeOK
    <3>3. RowsOK'
      <4> SUFFICES ASSUME NEW t \in Healthy, t < s + 1, NEW i \in 1..Len(intent)
                   PROVE  message_buffer[t][i - 1] = intent[i]
        BY <3>1 DEF RowsOK, Healthy
      <4>1. CASE t = s
        <5>1. txn.flow_current = Len(intent) /\ turn = t /\ txn.mode = "SEND"
          BY <4>1, <3>1 DEF Healthy
        <5>2. \A k \in 1..txn.flow_current : message_buffer[t][k - 1] = intent[k]
          BY <5>1 DEF DeliveryInv, RowsOK
        <5> QED
          BY <5>1, <5>2
      <4>2. CASE t # s
        <5>1. t < turn
          BY <4>2, <2>s, <3>1 DEF Healthy, Senders
        <5> QED
          BY <5>1 DEF DeliveryInv, RowsOK
      <4> QED
        BY <4>1, <4>2
    <3>4. CountsOK'
      <4> SUFFICES ASSUME NEW t \in Senders, t \notin faulty, NEW r \in Receivers,
                          t < s + 1
                   PROVE  flow_status'[t][r] = Len(intent)
        BY <3>1 DEF CountsOK, Healthy
      <4>1. CASE t = s
        BY <4>1, <3>1, <3>2
      <4>2. CASE t # s
        <5>1. t < turn /\ turn <= SenderReplicas + r
          BY <4>2, <2>s, <3>1 DEF Senders, Receivers
        <5> QED
          BY <5>1, <4>2, <3>2 DEF DeliveryInv, CountsOK, Healthy
      <4> QED
        BY <4>1, <4>2
    <3>5. CompletedOK'
      BY <3>1, <2>s DEF DeliveryInv, CompletedOK, TypeInv, TypeOK, Receivers
    <3> QED
      <4>1. turn < BetweenEpochs /\ Healthy' = Healthy /\ Cardinality(faulty') <= MaxFaulty
        BY <3>1, <2>s, <1>t, <1>f DEF Healthy
      <4> QED
        BY <3>1, <3>3, <3>4, <3>5, <4>1, EndTurnDelivery
  <2>4. CASE CorruptRow(s)
    <3>1. PICK f \in [Receivers -> {0, MaxFlow, MaxFlow + 1, DUCT_MISSING_FLOW}],
               b \in [Index -> Entry] :
                 /\ flow_status' = [flow_status EXCEPT ![s] = f]
                 /\ message_buffer' = [message_buffer EXCEPT ![s] = b]
      BY <2>4 DEF CorruptRow
    <3>2. /\ MayFault(s) /\ faulty' = faulty \cup {s}
          /\ UNCHANGED <<turn, txn, intent, got, completed>>
      BY <2>4 DEF CorruptRow
    <3>3. \A t \in Healthy' : /\ t \in Healthy
                              /\ flow_status'[t] = flow_status[t]
                              /\ message_buffer'[t] = message_buffer[t]
      BY <3>1, <3>2 DEF Healthy, TypeInv, TypeOK
    <3>4. RowsOK'
      BY <3>2, <3>3 DEF DeliveryInv, RowsOK
    <3>5. CountsOK'
      BY <3>2, <3>3 DEF DeliveryInv, CountsOK
    <3>6. GotOK' /\ CompletedOK'
      BY <3>2 DEF DeliveryInv, GotOK, CompletedOK
    <3> QED
      BY <3>2, <3>4, <3>5, <3>6, <1>f, OneMoreFault DEF DeliveryInv
  <2>5. CASE CutAnnouncement(s)
    <3>1. /\ turn = s /\ EndTurn /\ turn' = s + 1 /\ txn'.mode = "INVALID"
          /\ MayFault(s) /\ faulty' = faulty \cup {s}
          /\ UNCHANGED <<message_buffer, intent, got, completed>>
      BY <2>5 DEF CutAnnouncement, EndTurn, NoTxn
    <3>2. \A t \in Healthy' : /\ t \in Healthy /\ flow_status'[t] = flow_status[t]
                              /\ (t < turn' => t < turn)
      BY <3>1, <2>5, <2>s DEF CutAnnouncement, Healthy, Senders, TypeInv, TypeOK
    <3>3. RowsOK'
      BY <3>1, <3>2 DEF DeliveryInv, RowsOK
    <3>4. CountsOK'
      <4> SUFFICES ASSUME NEW t \in Healthy', NEW q \in Receivers,
                          t < s + 1, s + 1 <= SenderReplicas + q
                   PROVE  flow_status'[t][q] = Len(intent)
        BY <3>1 DEF CountsOK
      <4>1. t \in Healthy /\ t < turn /\ turn <= SenderReplicas + q
        BY <3>1, <3>2, <2>s DEF Receivers
      <4> QED
        BY <4>1, <3>2 DEF DeliveryInv, CountsOK
    <3>5. CompletedOK'
      BY <3>1, <2>s DEF DeliveryInv, CompletedOK, TypeInv, TypeOK, Receivers
    <3> QED
      <4>1. turn < BetweenEpochs /\ Healthy' \subseteq Healthy /\ Cardinality(faulty') <= MaxFaulty
        BY <3>1, <3>2, <2>s, <1>t, <1>f, OneMoreFault
      <4> QED
        BY <3>1, <3>3, <3>4, <3>5, <4>1, EndTurnDelivery
  <2> QED
    BY <1>2, <2>1, <2>2, <2>3, <2>4, <2>5 DEF SendStep
<1>3. ASSUME NEW r \in Receivers, ReceiveStep(r) PROVE DeliveryInv'
  <2>r. r \in Int /\ r >= 0 /\ r < ReceiverReplicas
    BY DEF Receivers
  <2>q. \A q \in Receivers : q \in Int /\ q >= 0
    BY DEF Receivers
  <2>v. ASSUME turn = SenderReplicas + r, txn.mode = "RECV"
        PROVE  /\ txn.flow_current \in 0..MaxFlow /\ txn.flow_current <= Len(intent)
               /\ Len(got[r]) = txn.flow_current
               /\ Vote(r, txn.flow_current) =
                     IF txn.flow_current < Len(intent)
                     THEN <<intent[txn.flow_current + 1]>> ELSE NoMessage
    <3>1. txn.flow_current \in 0..MaxFlow
      BY <2>v DEF TypeInv, TxnOK
    <3>2. Len(got[r]) = txn.flow_current /\ Len(got[r]) <= Len(intent)
      BY <2>v DEF DeliveryInv, GotOK, IsPrefixOf
    <3> QED
      BY <2>v, <3>1, <3>2, HealthyVote
  <2>1. CASE duct_receive_prepare(r)
    <3>1. /\ turn = SenderReplicas + r /\ turn' = turn
          /\ txn.mode = "INVALID" /\ txn'.mode = "RECV" /\ txn'.flow_current = 0
          /\ UNCHANGED <<message_buffer, intent, faulty, got, completed>>
      BY <2>1 DEF duct_receive_prepare
    <3>2. \A t \in Healthy, q \in Receivers :
             turn <= SenderReplicas + q => flow_status'[t][q] = flow_status[t][q]
      <4> SUFFICES ASSUME NEW t \in Healthy, NEW q \in Receivers
                   PROVE  flow_status'[t][q] = flow_status[t][q]
        OBVIOUS
      <4>1. t \in Senders /\ t < turn /\ turn <= SenderReplicas + r
        BY <3>1, <2>r, <1>t DEF Healthy, Senders
      <4>2. flow_status[t][r] = Len(intent)
        BY <4>1 DEF DeliveryInv, CountsOK
      <4>3. ~Absent(t, r)
        BY <4>2, <1>i, FlowIsNotMissing DEF Absent
      <4> QED
        BY <4>1, <4>3, <2>1 DEF duct_receive_prepare
    <3>3. RowsOK'
      BY <3>1 DEF DeliveryInv, RowsOK, Healthy
    <3>4. CountsOK'
      BY <3>1, <3>2 DEF DeliveryInv, CountsOK, Healthy
    <3>5. CompletedOK'
      BY <3>1 DEF DeliveryInv, CompletedOK
    <3>6. GotOK'
      <4>1. \A q \in Receivers : turn = SenderReplicas + q => Len(got[q]) = 0
        BY <3>1 DEF DeliveryInv, GotOK
      <4> QED
        BY <4>1, <3>1 DEF DeliveryInv, GotOK
    <3> QED
      BY <3>1, <3>3, <3>4, <3>5, <3>6, <1>f DEF DeliveryInv
  <2>2. CASE duct_receive_message(r)
    <3> DEFINE n == txn.flow_current
    <3>1. /\ turn = SenderReplicas + r /\ turn' = turn /\ txn.mode = "RECV"
          /\ txn'.mode = "RECV" /\ txn'.flow_current = n + 1
          /\ UNCHANGED <<flow_status, message_buffer, intent, faulty, completed>>
          /\ Vote(r, n) # NoMessage
          /\ got' = [got EXCEPT ![r] = Append(got[r], Vote(r, n)[1])]
      BY <2>2 DEF duct_receive_message, TypeInv, TypeOK
    <3>2. n \in Nat /\ n < Len(intent) /\ Len(got[r]) = n /\ Vote(r, n) = <<intent[n + 1]>>
      BY <3>1, <2>v
    <3>3. got[r] \in Seq(Msg) /\ intent[n + 1] \in Msg
      BY <3>2, <1>i DEF TypeInv, TypeOK
    <3>4. got'[r] = Append(got[r], intent[n + 1]) /\ \A q \in Receivers : q # r => got'[q] = got[q]
      BY <3>1, <3>2 DEF TypeInv, TypeOK
    <3>5. /\ Len(got'[r]) = n + 1
          /\ \A k \in 1..n + 1 : got'[r][k] = IF k = n + 1 THEN intent[n + 1] ELSE got[r][k]
      BY <3>2, <3>3, <3>4, AppendProperties
    <3>6. IsPrefixOf(got'[r], intent)
      <4>1. \A k \in 1..n : got[r][k] = intent[k]
        BY <3>2 DEF DeliveryInv, GotOK, IsPrefixOf
      <4> QED
        BY <4>1, <3>2, <3>5, <1>i DEF IsPrefixOf
    <3>7. GotOK'
      <4> SUFFICES ASSUME NEW q \in Receivers
                   PROVE  /\ IsPrefixOf(got'[q], intent)
                          /\ turn < SenderReplicas + q => got'[q] = <<>>
                          /\ turn = SenderReplicas + q => Len(got'[q]) = n + 1
        BY <3>1 DEF GotOK
      <4>1. CASE q = r
        BY <4>1, <3>1, <3>5, <3>6, <1>t, <2>r
      <4>2. CASE q # r
        BY <4>2, <3>1, <3>4, <1>t, <2>r, <2>q DEF DeliveryInv, GotOK
      <4> QED
        BY <4>1, <4>2
    <3>8. RowsOK' /\ CountsOK'
      BY <3>1 DEF DeliveryInv, RowsOK, CountsOK, Healthy
    <3>9. CompletedOK'
      <4> SUFFICES ASSUME NEW q \in completed PROVE got'[q] = intent /\ SenderReplicas + q < turn
        BY <3>1 DEF CompletedOK
      <4>1. q \in Receivers /\ got[q] = intent /\ SenderReplicas + q < turn
        BY DEF DeliveryInv, CompletedOK, TypeInv, TypeOK
      <4>2. q # r
        BY <4>1, <3>1, <1>t, <2>r
      <4> QED
        BY <4>1, <4>2, <3>4
    <3> QED
      BY <3>1, <3>7, <3>8, <3>9, <1>f DEF DeliveryInv
  <2>3. CASE duct_receive_commit(r)
    <3>1. /\ turn = SenderReplicas + r /\ txn.mode = "RECV" /\ EndTurn
          /\ turn' = turn + 1 /\ txn'.mode = "INVALID"
          /\ UNCHANGED <<message_buffer, intent, faulty, got>>
      BY <2>3 DEF duct_receive_commit, EndTurn, NoTxn
    <3>2. RowsOK'
      <4>1. \A t \in Healthy : t < turn
        BY <3>1, <1>t, <2>r DEF Healthy, Senders
      <4> QED
        BY <3>1, <4>1 DEF DeliveryInv, RowsOK, Healthy
    <3>3. \A t \in Senders, q \in Receivers : q # r => flow_status'[t][q] = flow_status[t][q]
      BY <2>3 DEF duct_receive_commit, cleared, TypeInv, TypeOK
    <3>4. CountsOK'
      <4> SUFFICES ASSUME NEW t \in Healthy, NEW q \in Receivers, turn + 1 <= SenderReplicas + q
                   PROVE  flow_status'[t][q] = Len(intent)
        BY <3>1 DEF CountsOK, Healthy
      <4>1. t \in Senders /\ t < turn /\ turn <= SenderReplicas + q /\ q # r
        BY <3>1, <1>t, <2>r, <2>q DEF Healthy, Senders
      <4> QED
        BY <4>1, <3>3 DEF DeliveryInv, CountsOK
    <3>5. CompletedOK'
      <4> SUFFICES ASSUME NEW q \in completed'
                   PROVE  got[q] = intent /\ SenderReplicas + q < turn + 1
        BY <3>1 DEF CompletedOK
      <4>1. CASE q \in completed
        <5>1. got[q] = intent /\ SenderReplicas + q < turn /\ q \in Receivers
          BY <4>1 DEF DeliveryInv, CompletedOK, TypeInv, TypeOK
        <5> QED
          BY <5>1, <1>t, <2>q
      <4>2. CASE q \notin completed
        <5>1. q = r /\ Vote(r, txn.flow_current) = NoMessage
          BY <4>2, <2>3 DEF duct_receive_commit
        <5>2. txn.flow_current = Len(intent) /\ Len(got[r]) = Len(intent)
          BY <5>1, <3>1, <2>v, <1>i DEF NoMessage
        <5>3. got[r] \in Seq(Msg) /\ \A k \in 1..Len(got[r]) : got[r][k] = intent[k]
          BY DEF DeliveryInv, GotOK, IsPrefixOf, TypeInv, TypeOK
        <5>4. got[r] = intent
          BY <5>2, <5>3, <1>i, SeqEqual
        <5> QED
          BY <5>1, <5>4, <3>1, <1>t, <2>r
      <4> QED
        BY <4>1, <4>2
    <3> QED
      <4>1. turn < BetweenEpochs /\ Healthy' = Healthy /\ Cardinality(faulty') <= MaxFaulty
        BY <3>1, <2>r, <1>t, <1>f DEF Healthy
      <4> QED
        BY <3>1, <3>2, <3>4, <3>5, <4>1, EndTurnDelivery
  <2>4. CASE CutClearing(r)
    <3>1. /\ turn = SenderReplicas + r /\ EndTurn /\ turn' = turn + 1
          /\ txn'.mode = "INVALID"
          /\ UNCHANGED <<message_buffer, intent, faulty, got, completed>>
      BY <2>4 DEF CutClearing, EndTurn, NoTxn
    <3>2. \A t \in Senders, q \in Receivers : q # r => flow_status'[t][q] = flow_status[t][q]
      BY <2>4 DEF CutClearing, cleared, TypeInv, TypeOK
    <3>3. RowsOK'
      <4>1. \A t \in Healthy : t < turn
        BY <3>1, <1>t, <2>r DEF Healthy, Senders
      <4> QED
        BY <3>1, <4>1 DEF DeliveryInv, RowsOK, Healthy
    <3>4. CountsOK'
      <4> SUFFICES ASSUME NEW t \in Healthy, NEW q \in Receivers, turn + 1 <= SenderReplicas + q
                   PROVE  flow_status'[t][q] = Len(intent)
        BY <3>1 DEF CountsOK, Healthy
      <4>1. t \in Senders /\ t < turn /\ turn <= SenderReplicas + q /\ q # r
        BY <3>1, <1>t, <2>r, <2>q DEF Healthy, Senders
      <4> QED
        BY <4>1, <3>2 DEF DeliveryInv, CountsOK
    <3>5. CompletedOK'
      <4> SUFFICES ASSUME NEW q \in completed
                   PROVE  got[q] = intent /\ SenderReplicas + q < turn + 1
        BY <3>1 DEF CompletedOK
      <4>1. got[q] = intent /\ SenderReplicas + q < turn /\ q \in Receivers
        BY DEF DeliveryInv, CompletedOK, TypeInv, TypeOK
      <4> QED
        BY <4>1, <1>t, <2>q
    <3> QED
      <4>1. turn < BetweenEpochs /\ Healthy' = Healthy /\ Cardinality(faulty') <= MaxFaulty
        BY <3>1, <2>r, <1>t, <1>f DEF Healthy
      <4> QED
        BY <3>1, <3>3, <3>4, <3>5, <4>1, EndTurnDelivery
  <2> QED
    BY <1>3, <2>1, <2>2, <2>3, <2>4 DEF ReceiveStep
<1>4. CASE Cut
  <2>1. /\ turn < BetweenEpochs /\ EndTurn /\ turn' = turn + 1 /\ txn'.mode = "INVALID"
        /\ UNCHANGED <<flow_status, message_buffer, intent, got, completed>>
    BY <1>4 DEF Cut, EndTurn, NoTxn
  <2>2. /\ Healthy' \subseteq Healthy /\ turn \notin Healthy'
        /\ Cardinality(faulty') <= MaxFaulty
    <3>1. CASE turn \in Senders
      BY <3>1, <1>4, <1>f, OneMoreFault DEF Cut, Healthy
    <3>2. CASE turn \notin Senders
      BY <3>2, <1>4, <1>f DEF Cut, Healthy
    <3> QED
      BY <3>1, <3>2
  <2>3. \A t \in Healthy' : t \in Healthy /\ t \in Int /\ (t < turn + 1 => t < turn)
    BY <2>2, <1>t DEF Healthy, Senders
  <2>4. RowsOK'
    BY <2>1, <2>3 DEF DeliveryInv, RowsOK
  <2>5. CountsOK'
    <3> SUFFICES ASSUME NEW t \in Healthy', NEW q \in Receivers,
                        t < turn + 1, turn + 1 <= SenderReplicas + q
                 PROVE  flow_status[t][q] = Len(intent)
      BY <2>1 DEF CountsOK
    <3>1. t \in Healthy /\ t < turn /\ turn <= SenderReplicas + q
      BY <2>3, <1>t DEF Receivers
    <3> QED
      BY <3>1 DEF DeliveryInv, CountsOK
  <2>6. CompletedOK'
    <3> SUFFICES ASSUME NEW q \in completed
                 PROVE  got[q] = intent /\ SenderReplicas + q < turn + 1
      BY <2>1 DEF CompletedOK
    <3>1. got[q] = intent /\ SenderReplicas + q < turn /\ q \in Receivers
      BY DEF DeliveryInv, CompletedOK, TypeInv, TypeOK
    <3> QED
      BY <3>1, <1>t DEF Receivers
  <2> QED
    BY <2>1, <2>2, <2>4, <2>5, <2>6, EndTurnDelivery
<1>5. CASE UNCHANGED vars
  BY <1>5 DEF vars, DeliveryInv, RowsOK, CountsOK, GotOK, CompletedOK, Healthy
<1> QED
  BY <1>1, <1>2, <1>3, <1>4, <1>5 DEF Next

(* As long as a majority of the sender replicas does not deviate in an     *)
(* epoch, no receiver is ever handed a stale, torn or forged message, and  *)
(* one that commits got the whole batch: duct.c for every number of        *)
(* replicas it admits, every flow limit and both polarities.               *)
THEOREM Delivery ==
    ASSUME HealthyMajority
    PROVE  Spec => []DeliversIntent
<1>1. Init => TypeInv /\ DeliveryInv
  BY InitTypeInv, InitDelivery
<1>2. TypeInv /\ DeliveryInv /\ [Next]_vars => (TypeInv /\ DeliveryInv)'
  BY NextTypeInv, NextDelivery
<1>3. DeliveryInv => DeliversIntent
  BY DEF DeliveryInv, GotOK, CompletedOK, DeliversIntent
<1> QED
  BY <1>1, <1>2, <1>3, PTL DEF Spec

(* Under the same hypothesis the duct implements the single-copy mailbox:  *)
(* the voting, the replication and the cut turns are invisible.            *)
THEOREM Refinement ==
    ASSUME HealthyMajority
    PROVE  Spec => ImplementsMailbox
<1>1. Init => Mailbox!Init
  BY DEF Init, Mailbox!Init
<1>2. ASSUME TypeInv, DeliveryInv, [Next]_vars
      PROVE  [Mailbox!Next]_<<intent, got, completed>>
  <2> USE <1>2, DuctAssumption
  <2>1. CASE NewEpoch
    <3>1. Mailbox!Batches = Batch
      BY DEF Batch, Mailbox!Batches
    <3> QED
      BY <2>1, <3>1 DEF NewEpoch, Mailbox!Next, Mailbox!Post
  <2>2. ASSUME NEW s \in Senders, SendStep(s)
        PROVE  UNCHANGED <<intent, got, completed>>
    BY <2>2 DEF SendStep, duct_send_prepare, duct_send_message, duct_send_commit,
                CutAnnouncement, CorruptRow
  <2>3. ASSUME NEW r \in Receivers, ReceiveStep(r)
        PROVE  [Mailbox!Next]_<<intent, got, completed>>
    <3>1. CASE duct_receive_prepare(r)
      BY <3>1 DEF duct_receive_prepare
    <3> DEFINE n == txn.flow_current
    <3>v. ASSUME turn = SenderReplicas + r, txn.mode = "RECV"
          PROVE  /\ n \in 0..MaxFlow /\ n <= Len(intent) /\ Len(got[r]) = n
                 /\ Vote(r, n) = IF n < Len(intent) THEN <<intent[n + 1]>> ELSE NoMessage
                 /\ r \notin completed
      <4>1. n \in 0..MaxFlow
        BY <3>v DEF TypeInv, TxnOK
      <4>2. Len(got[r]) = n /\ Len(got[r]) <= Len(intent)
        BY <3>v DEF DeliveryInv, GotOK, IsPrefixOf
      <4>3. r \notin completed
        BY <3>v DEF DeliveryInv, CompletedOK, Receivers
      <4> QED
        BY <3>v, <4>1, <4>2, <4>3, HealthyVote
    <3>2. CASE duct_receive_message(r)
      <4>1. /\ turn = SenderReplicas + r /\ txn.mode = "RECV" /\ Vote(r, n) # NoMessage
            /\ got' = [got EXCEPT ![r] = Append(got[r], Vote(r, n)[1])]
            /\ UNCHANGED <<intent, completed>>
        BY <3>2 DEF duct_receive_message, TypeInv, TypeOK
      <4>2. r \notin completed /\ Len(got[r]) = n /\ n < Len(intent)
            /\ Vote(r, n) = <<intent[n + 1]>>
        BY <4>1, <3>v
      <4>3. got' = [got EXCEPT ![r] = Append(got[r], intent[Len(got[r]) + 1])]
        BY <4>1, <4>2
      <4>4. Mailbox!Take(r)
        BY <4>1, <4>2, <4>3 DEF Mailbox!Take, TypeInv, TypeOK
      <4> QED
        BY <4>4 DEF Mailbox!Next
    <3>3. CASE duct_receive_commit(r)
      <4>1. turn = SenderReplicas + r /\ txn.mode = "RECV" /\ UNCHANGED <<intent, got>>
        BY <3>3 DEF duct_receive_commit
      <4>2. CASE Vote(r, n) # NoMessage
        BY <4>1, <4>2, <3>3 DEF duct_receive_commit
      <4>3. CASE Vote(r, n) = NoMessage
        <5>1. Len(got[r]) = Len(intent) /\ r \notin completed
          <6>1. Len(intent) \in Nat
            BY BatchIsSeq DEF TypeInv, TypeOK
          <6> QED
            BY <4>1, <4>3, <3>v, <6>1 DEF NoMessage
        <5>2. got[r] \in Seq(Msg) /\ intent \in Seq(Msg)
          BY BatchIsSeq DEF TypeInv, TypeOK
        <5>3. \A k \in 1..Len(got[r]) : got[r][k] = intent[k]
          BY DEF DeliveryInv, GotOK, IsPrefixOf
        <5>4. got[r] = intent
          BY <5>1, <5>2, <5>3, SeqEqual
        <5>5. completed' = completed \cup {r}
          BY <4>3, <3>3 DEF duct_receive_commit
        <5> QED
          BY <4>1, <5>1, <5>4, <5>5 DEF Mailbox!Next, Mailbox!Finish
      <4> QED
        BY <4>2, <4>3
    <3>4. CASE CutClearing(r)
      BY <3>4 DEF CutClearing
    <3> QED
      BY <2>3, <3>1, <3>2, <3>3, <3>4 DEF ReceiveStep
  <2>4. CASE Cut
    BY <2>4 DEF Cut
  <2>5. CASE UNCHANGED vars
    BY <2>5 DEF vars
  <2> QED
    BY <1>2, <2>1, <2>2, <2>3, <2>4, <2>5 DEF Next
<1>3. Init => TypeInv /\ DeliveryInv
  BY InitTypeInv, InitDelivery
<1>4. TypeInv /\ DeliveryInv /\ [Next]_vars => (TypeInv /\ DeliveryInv)'
  BY NextTypeInv, NextDelivery
<1> QED
  BY <1>1, <1>2, <1>3, <1>4, PTL DEF Spec, ImplementsMailbox, Mailbox!Spec

-----------------------------------------------------------------------------
(* False alarms.  No majority is needed: the counts of the healthy senders *)
(* are right whatever the others do, and the count for a receiver that     *)
(* committed stays cleared until its sender's next turn.                   *)

ClearedOK ==
    \A s \in Senders, r \in Receivers :
        /\ r \in completed => SenderReplicas + r < turn
        /\ \/ r \in completed
           \/ r \in was_completed /\ turn <= s
           => flow_status[s][r] = DUCT_MISSING_FLOW

FlaggedOK ==
    /\ txn.mode = "RECV" => txn.flagged \subseteq faulty
    /\ txn.mode = "SEND" => txn.flagged \cap was_completed = {}

AlarmInv == CountsOK /\ ClearedOK /\ FlaggedOK

LEMMA InitAlarm == Init => AlarmInv
<1> SUFFICES ASSUME Init PROVE AlarmInv
  OBVIOUS
<1> USE DuctAssumption
<1>1. CountsOK
  BY InitCounts
<1>2. ClearedOK
  BY DEF Init, ClearedOK, Senders, Receivers, BetweenEpochs
<1>3. FlaggedOK
  BY DEF Init, FlaggedOK, NoTxn
<1> QED
  BY <1>1, <1>2, <1>3 DEF AlarmInv

LEMMA NextAlarm ==
    ASSUME ~WildWrites, TypeInv, AlarmInv, [Next]_vars
    PROVE  AlarmInv'
<1> USE DuctAssumption
<1>t. /\ turn \in 0..BetweenEpochs /\ BetweenEpochs = SenderReplicas + ReceiverReplicas
      /\ SenderReplicas \in 1..4 /\ ReceiverReplicas \in 1..4
      /\ faulty \subseteq Senders
      /\ completed \subseteq Receivers /\ was_completed \subseteq Receivers
  BY DEF TypeInv, TypeOK, BetweenEpochs
<1>n. /\ \A s \in Senders : s \in Int /\ s >= 0 /\ s < SenderReplicas
      /\ \A r \in Receivers : r \in Int /\ r >= 0 /\ r < ReceiverReplicas
  BY DEF Senders, Receivers
<1>1. CASE NewEpoch
  <2>1. /\ turn = BetweenEpochs /\ turn' = 0 /\ UNCHANGED flow_status
        /\ txn' = txn /\ txn.mode = "INVALID"
        /\ completed' = {} /\ was_completed' = completed
    <3>1. turn = BetweenEpochs /\ txn.mode # "SEND" /\ txn.mode # "RECV"
      BY <1>1, <1>t DEF NewEpoch, TypeInv, TxnOK, Senders
    <3> QED
      BY <1>1, <3>1 DEF NewEpoch, TypeInv, TypeOK
  <2>2. CountsOK'
    BY <2>1, <1>n DEF CountsOK, Healthy
  <2>3. ClearedOK'
    BY <2>1 DEF AlarmInv, ClearedOK
  <2> QED
    BY <2>1, <2>2, <2>3 DEF AlarmInv, FlaggedOK
<1>2. ASSUME NEW s \in Senders, SendStep(s) PROVE AlarmInv'
  <2>s. turn = s => completed = {}
    BY <1>n, <1>t DEF AlarmInv, ClearedOK
  <2>1. CASE duct_send_prepare(s)
    <3>1. /\ turn = s /\ txn'.mode = "SEND"
          /\ txn'.flagged = {r \in Receivers : flow_status[s][r] # DUCT_MISSING_FLOW}
          /\ Healthy' \subseteq Healthy
          /\ UNCHANGED <<flow_status, turn, intent, completed, was_completed>>
      BY <2>1 DEF duct_send_prepare, Healthy
    <3>2. txn'.flagged \cap was_completed = {}
      BY <3>1, <1>n DEF AlarmInv, ClearedOK
    <3> QED
      BY <3>1, <3>2 DEF AlarmInv, CountsOK, ClearedOK, FlaggedOK
  <2>2. ASSUME NEW m \in Msg, duct_send_message(s, m) PROVE AlarmInv'
    <3>1. /\ txn'.mode = txn.mode /\ txn'.flagged = txn.flagged
          /\ UNCHANGED <<flow_status, turn, intent, faulty, completed, was_completed>>
      BY <2>2 DEF duct_send_message, TypeInv, TypeOK
    <3> QED
      BY <3>1 DEF AlarmInv, CountsOK, ClearedOK, FlaggedOK, Healthy
  <2>3. CASE duct_send_commit(s)
    <3>1. /\ turn = s /\ turn' = s + 1 /\ txn'.mode = "INVALID"
          /\ s \in faulty \/ txn.flow_current = Len(intent)
          /\ UNCHANGED <<intent, faulty, completed, was_completed>>
      BY <2>3 DEF duct_send_commit, EndTurn, NoTxn
    <3>2. \A t \in Senders, r \in Receivers :
             flow_status'[t][r] = IF t = s THEN txn.flow_current ELSE flow_status[t][r]
      BY <2>3 DEF duct_send_commit, announce, TypeInv, TypeOK
    <3>3. CountsOK'
      BY <3>1, <3>2, <1>n, <1>t DEF AlarmInv, CountsOK, Healthy
    <3>4. ClearedOK'
      <4> SUFFICES ASSUME NEW t \in Senders, NEW r \in Receivers,
                          r \notin completed, r \in was_completed, s + 1 <= t
                   PROVE  flow_status'[t][r] = DUCT_MISSING_FLOW
        BY <3>1, <2>s DEF ClearedOK
      <4>1. t # s /\ turn <= t
        BY <3>1, <1>n
      <4> QED
        BY <4>1, <3>2 DEF AlarmInv, ClearedOK
    <3> QED
      BY <3>1, <3>3, <3>4 DEF AlarmInv, FlaggedOK
  <2>4. CASE CutAnnouncement(s)
    <3>1. /\ turn = s /\ turn' = s + 1 /\ txn'.mode = "INVALID"
          /\ Healthy' = Healthy \ {s}
          /\ UNCHANGED <<intent, completed, was_completed>>
      BY <2>4 DEF CutAnnouncement, EndTurn, NoTxn, Healthy
    <3>2. \A t \in Senders : t # s => flow_status'[t] = flow_status[t]
      BY <2>4 DEF CutAnnouncement, TypeInv, TypeOK
    <3>3. CountsOK'
      <4> SUFFICES ASSUME NEW t \in Healthy, t # s, NEW r \in Receivers,
                          t < s + 1, s + 1 <= SenderReplicas + r
                   PROVE  flow_status'[t][r] = Len(intent)
        BY <3>1 DEF CountsOK
      <4>1. t \in Senders /\ t < turn /\ turn <= SenderReplicas + r
        BY <3>1, <1>n DEF Healthy
      <4> QED
        BY <4>1, <3>2 DEF AlarmInv, CountsOK
    <3>4. ClearedOK'
      <4> SUFFICES ASSUME NEW t \in Senders, NEW r \in Receivers,
                          r \notin completed, r \in was_completed, s + 1 <= t
                   PROVE  flow_status'[t][r] = DUCT_MISSING_FLOW
        BY <3>1, <2>s DEF ClearedOK
      <4>1. t # s /\ turn <= t
        BY <3>1, <1>n
      <4> QED
        BY <4>1, <3>2 DEF AlarmInv, ClearedOK
    <3> QED
      BY <3>1, <3>3, <3>4 DEF AlarmInv, FlaggedOK
  <2>5. ~CorruptRow(s)
    BY DEF CorruptRow
  <2> QED
    BY <1>2, <2>1, <2>2, <2>3, <2>4, <2>5 DEF SendStep
<1>3. ASSUME NEW r \in Receivers, ReceiveStep(r) PROVE AlarmInv'
  <2>1. CASE duct_receive_prepare(r)
    <3>1. /\ turn = SenderReplicas + r /\ txn'.mode = "RECV"
          /\ txn'.flagged = {s \in Senders : Absent(s, r)}
          /\ UNCHANGED <<turn, intent, faulty, completed, was_completed>>
      BY <2>1 DEF duct_receive_prepare
    <3>2. \A s \in Healthy : flow_status[s][r] = Len(intent) /\ ~Absent(s, r)
      <4> SUFFICES ASSUME NEW s \in Healthy
                   PROVE  flow_status[s][r] = Len(intent) /\ ~Absent(s, r)
        OBVIOUS
      <4>1. s < turn /\ turn <= SenderReplicas + r
        BY <3>1, <1>n, <1>t DEF Healthy
      <4>2. flow_status[s][r] = Len(intent)
        BY <4>1 DEF AlarmInv, CountsOK
      <4>3. Len(intent) \in 0..MaxFlow
        BY BatchIsSeq DEF TypeInv, TypeOK
      <4> QED
        BY <4>2, <4>3, FlowIsNotMissing DEF Absent
    <3>3. \A s \in Senders, q \in Receivers :
             flow_status'[s][q] = IF Absent(s, r) /\ q = r THEN 0 ELSE flow_status[s][q]
      BY <2>1 DEF duct_receive_prepare, TypeInv, TypeOK
    <3>4. CountsOK'
      BY <3>1, <3>2, <3>3 DEF AlarmInv, CountsOK, Healthy
    <3>5. ClearedOK'
      <4>1. r \notin completed /\ \A s \in Senders : ~(turn <= s)
        BY <3>1, <1>n, <1>t DEF AlarmInv, ClearedOK, Senders
      <4> QED
        BY <3>1, <3>3, <4>1 DEF AlarmInv, ClearedOK
    <3>6. txn'.flagged \subseteq faulty
      BY <3>1, <3>2 DEF Healthy
    <3> QED
      BY <3>1, <3>4, <3>5, <3>6 DEF AlarmInv, FlaggedOK
  <2>2. CASE duct_receive_message(r)
    <3>1. /\ txn'.mode = txn.mode /\ txn'.flagged = txn.flagged
          /\ UNCHANGED <<flow_status, turn, intent, faulty, completed, was_completed>>
      BY <2>2 DEF duct_receive_message, TypeInv, TypeOK
    <3> QED
      BY <3>1 DEF AlarmInv, CountsOK, ClearedOK, FlaggedOK, Healthy
  <2>3. CASE duct_receive_commit(r)
    <3>1. /\ turn = SenderReplicas + r /\ turn' = turn + 1 /\ txn'.mode = "INVALID"
          /\ UNCHANGED <<intent, faulty, was_completed>>
      BY <2>3 DEF duct_receive_commit, EndTurn, NoTxn
    <3>2. \/ UNCHANGED <<flow_status, completed>>
          \/ /\ completed' = completed \cup {r}
             /\ \A s \in Senders, q \in Receivers :
                   flow_status'[s][q] = IF q = r THEN DUCT_MISSING_FLOW ELSE flow_status[s][q]
      BY <2>3, <1>n DEF duct_receive_commit, cleared, TypeInv, TypeOK
    <3>3. CountsOK'
      <4> SUFFICES ASSUME NEW s \in Healthy, NEW q \in Receivers,
                          s < turn + 1, turn + 1 <= SenderReplicas + q
                   PROVE  flow_status'[s][q] = Len(intent)
        BY <3>1 DEF CountsOK, Healthy
      <4>1. s \in Senders /\ s < turn /\ turn <= SenderReplicas + q /\ q # r
        BY <3>1, <1>n, <1>t DEF Healthy
      <4> QED
        BY <4>1, <3>2 DEF AlarmInv, CountsOK
    <3>4. ClearedOK'
      <4> SUFFICES ASSUME NEW s \in Senders, NEW q \in Receivers
                   PROVE  /\ q \in completed' => SenderReplicas + q < turn + 1
                          /\ q \in completed' => flow_status'[s][q] = DUCT_MISSING_FLOW
        BY <3>1, <1>n, <1>t DEF ClearedOK
      <4>1. q \in completed => /\ SenderReplicas + q < turn
                               /\ flow_status[s][q] = DUCT_MISSING_FLOW
        BY DEF AlarmInv, ClearedOK
      <4> QED
        BY <4>1, <3>1, <3>2, <1>n, <1>t
    <3> QED
      BY <3>1, <3>3, <3>4 DEF AlarmInv, FlaggedOK
  <2>4. CASE CutClearing(r)
    <3>1. /\ turn = SenderReplicas + r /\ turn' = turn + 1 /\ txn'.mode = "INVALID"
          /\ UNCHANGED <<intent, faulty, completed, was_completed>>
      BY <2>4 DEF CutClearing, EndTurn, NoTxn
    <3>2. \A s \in Senders, q \in Receivers :
             \/ flow_status'[s][q] = flow_status[s][q]
             \/ q = r /\ flow_status'[s][q] = DUCT_MISSING_FLOW
      BY <2>4 DEF CutClearing, cleared, TypeInv, TypeOK
    <3>3. CountsOK'
      <4> SUFFICES ASSUME NEW s \in Healthy, NEW q \in Receivers,
                          s < turn + 1, turn + 1 <= SenderReplicas + q
                   PROVE  flow_status'[s][q] = Len(intent)
        BY <3>1 DEF CountsOK, Healthy
      <4>1. s \in Senders /\ s < turn /\ turn <= SenderReplicas + q /\ q # r
        BY <3>1, <1>n, <1>t DEF Healthy
      <4> QED
        BY <4>1, <3>2 DEF AlarmInv, CountsOK
    <3>4. ClearedOK'
      <4> SUFFICES ASSUME NEW s \in Senders, NEW q \in Receivers, q \in completed
                   PROVE  /\ SenderReplicas + q < turn + 1
                          /\ flow_status'[s][q] = DUCT_MISSING_FLOW
        BY <3>1, <1>n, <1>t DEF ClearedOK
      <4>1. SenderReplicas + q < turn /\ flow_status[s][q] = DUCT_MISSING_FLOW
        BY DEF AlarmInv, ClearedOK
      <4> QED
        BY <4>1, <3>2, <1>n, <1>t
    <3> QED
      BY <3>1, <3>3, <3>4 DEF AlarmInv, FlaggedOK
  <2> QED
    BY <1>3, <2>1, <2>2, <2>3, <2>4 DEF ReceiveStep
<1>4. CASE Cut
  <2>1. /\ turn < BetweenEpochs /\ turn' = turn + 1 /\ txn'.mode = "INVALID"
        /\ UNCHANGED <<flow_status, intent, completed, was_completed>>
    BY <1>4 DEF Cut, EndTurn, NoTxn
  <2>2. Healthy' \subseteq Healthy /\ turn \notin Healthy'
    BY <1>4 DEF Cut, Healthy
  <2>3. CountsOK'
    <3> SUFFICES ASSUME NEW s \in Healthy', NEW q \in Receivers,
                        s < turn + 1, turn + 1 <= SenderReplicas + q
                 PROVE  flow_status[s][q] = Len(intent)
      BY <2>1 DEF CountsOK
    <3>1. s \in Healthy /\ s \in Senders /\ s # turn
      BY <2>2 DEF Healthy
    <3>2. s < turn /\ turn <= SenderReplicas + q
      BY <3>1, <1>n, <1>t
    <3> QED
      BY <3>1, <3>2 DEF AlarmInv, CountsOK
  <2>4. ClearedOK'
    BY <2>1, <1>n, <1>t DEF AlarmInv, ClearedOK
  <2> QED
    BY <2>1, <2>3, <2>4 DEF AlarmInv, FlaggedOK
<1>5. CASE UNCHANGED vars
  BY <1>5 DEF vars, AlarmInv, CountsOK, ClearedOK, FlaggedOK, Healthy
<1> QED
  BY <1>1, <1>2, <1>3, <1>4, <1>5 DEF Next

(* However many replicas deviate or are cut short, a receiver flags only   *)
(* senders that did, and a sender only receivers that did not commit in    *)
(* the epoch before: duct.c's two malfunction reports, as long as no row   *)
(* is overwritten at random after its receivers have run.                  *)
THEOREM FalseAlarms ==
    ASSUME ~WildWrites
    PROVE  Spec => []NoFalseAlarm
<1>1. Init => TypeInv /\ AlarmInv
  BY InitTypeInv, InitAlarm
<1>2. TypeInv /\ AlarmInv /\ [Next]_vars => (TypeInv /\ AlarmInv)'
  BY NextTypeInv, NextAlarm
<1>3. TypeInv /\ AlarmInv => NoFalseAlarm
  BY DEF TypeInv, AlarmInv, FlaggedOK, NoFalseAlarm
<1> QED
  BY <1>1, <1>2, <1>3, PTL DEF Spec

-----------------------------------------------------------------------------
(* Agreement.  Nothing is asked of the senders: any two messages handed    *)
(* over at one index are in the rows of a common sender, and receivers for *)
(* whom the counts are the same hold the same votes.                       *)

(* What receiver r makes of the count of sender s.                         *)
Count(s, r) == IF Absent(s, r) THEN 0 ELSE flow_status[s][r]

(* The votes of r are the messages of g, in order; and then there is none. *)
Heard(r, g) == \A i \in 1..Len(g) : Vote(r, i - 1) = <<g[i]>>
HeardAll(r, g) == Heard(r, g) /\ Vote(r, Len(g)) = NoMessage

Supporters(m, i) == {s \in Senders : message_buffer[s][i] = m}

FreshOK ==
    \A r \in Receivers :
        /\ turn < SenderReplicas + r => got[r] = <<>>
        /\ turn = SenderReplicas + r =>
              Len(got[r]) = IF txn.mode = "RECV" THEN txn.flow_current ELSE 0

SupportedOK ==
    \A r \in Receivers : \A i \in 1..Len(got[r]) :
        Cardinality(Supporters(got[r][i], i - 1)) >= majority_threshold

HeardOK ==
    \A r \in Receivers :
        turn = SenderReplicas + r /\ txn.mode = "RECV" => Heard(r, got[r])

(* Receivers who started even and have yet to run see the same counts, ... *)
SameCountsOK ==
    ~torn => \A r1, r2 \in was_completed :
                turn <= SenderReplicas + r1 /\ turn <= SenderReplicas + r2
                   => \A s \in Senders : Count(s, r1) = Count(s, r2)

(* ... so they have yet to hear what the others already did.               *)
YetToHearOK ==
    ~torn => \A r1 \in completed \cap was_completed, r2 \in was_completed :
                turn <= SenderReplicas + r2 => HeardAll(r2, got[r1])

EqualOK == ~torn => \A r1, r2 \in completed \cap was_completed : got[r1] = got[r2]

AgreeInv ==
    FreshOK /\ SupportedOK /\ HeardOK /\ SameCountsOK /\ YetToHearOK /\ EqualOK

(* A vote depends on the rows and on what the receiver makes of the counts *)
(* only.                                                                   *)
LEMMA VoteFromCounts ==
    ASSUME NEW r1, NEW r2, NEW i \in Nat,
           \A s \in Senders : Count(s, r1) = Count(s, r2)
    PROVE  Vote(r1, i) = Vote(r2, i)
<1>1. \A s \in Senders : duct_check_message(s, r1, i) <=> duct_check_message(s, r2, i)
  BY DEF Count, duct_check_message
<1>2. \A c \in Senders : Voters(c, r1, i) = Voters(c, r2, i)
  BY <1>1 DEF Voters
<1>3. Winners(r1, i) = Winners(r2, i)
  BY <1>1, <1>2 DEF Winners
<1> QED
  BY <1>3 DEF Vote

LEMMA VoteKept ==
    ASSUME NEW r, NEW i \in Nat, UNCHANGED message_buffer,
           \A s \in Senders : Count(s, r)' = Count(s, r)
    PROVE  Vote(r, i)' = Vote(r, i)
<1>1. \A s \in Senders : duct_check_message(s, r, i)' <=> duct_check_message(s, r, i)
  BY DEF Count, duct_check_message
<1>2. \A c \in Senders : Voters(c, r, i)' = Voters(c, r, i)
  BY <1>1 DEF Voters
<1>3. Winners(r, i)' = Winners(r, i)
  BY <1>1, <1>2 DEF Winners
<1> QED
  BY <1>3 DEF Vote

LEMMA VoteUnchanged ==
    ASSUME UNCHANGED <<flow_status, message_buffer>>
    PROVE  \A r, i : Vote(r, i)' = Vote(r, i)
BY DEF Vote, Winners, Voters, duct_check_message, Absent

LEMMA HeardKept ==
    ASSUME NEW r, NEW g \in Seq(Msg), UNCHANGED message_buffer,
           \A s \in Senders : Count(s, r)' = Count(s, r)
    PROVE  /\ Heard(r, g)' <=> Heard(r, g)
           /\ HeardAll(r, g)' <=> HeardAll(r, g)
<1>1. Len(g) \in Nat /\ \A i \in 1..Len(g) : i - 1 \in Nat
  OBVIOUS
<1>2. \A i \in 1..Len(g) : Vote(r, i - 1)' = Vote(r, i - 1)
  BY <1>1, VoteKept
<1>3. Vote(r, Len(g))' = Vote(r, Len(g))
  BY <1>1, VoteKept
<1> QED
  BY <1>2, <1>3 DEF Heard, HeardAll

(* A sequence is determined by having been heard to its end.               *)
LEMMA HeardAllUnique ==
    ASSUME NEW r, NEW g \in Seq(Msg), NEW h \in Seq(Msg),
           HeardAll(r, g), HeardAll(r, h)
    PROVE  g = h
<1>1. ASSUME NEW x \in Seq(Msg), NEW y \in Seq(Msg), HeardAll(r, x), HeardAll(r, y)
      PROVE  ~(Len(x) < Len(y))
  <2> SUFFICES ASSUME Len(x) < Len(y) PROVE FALSE
    OBVIOUS
  <2>1. Len(x) + 1 \in 1..Len(y) /\ (Len(x) + 1) - 1 = Len(x)
    OBVIOUS
  <2>2. Vote(r, Len(x)) = <<y[Len(x) + 1]>>
    BY <1>1, <2>1 DEF HeardAll, Heard
  <2> QED
    BY <1>1, <2>2 DEF HeardAll, NoMessage
<1>2. Len(g) = Len(h)
  BY <1>1
<1>3. \A i \in 1..Len(g) : g[i] = h[i]
  <2> TAKE i \in 1..Len(g)
  <2>1. Vote(r, i - 1) = <<g[i]>> /\ Vote(r, i - 1) = <<h[i]>>
    BY <1>2 DEF HeardAll, Heard
  <2> QED
    BY <2>1
<1> QED
  BY <1>2, <1>3, SeqEqual

(* Nothing was handed over and no receiver is at work.                     *)
LEMMA NothingHeard ==
    ASSUME \A r \in Receivers : got[r] = <<>>, txn.mode # "RECV", completed = {},
           SameCountsOK
    PROVE  AgreeInv
BY DEF AgreeInv, FreshOK, SupportedOK, HeardOK, YetToHearOK, EqualOK

LEMMA InitAgree == Init => AgreeInv
<1> SUFFICES ASSUME Init PROVE AgreeInv
  OBVIOUS
<1> USE DuctAssumption
<1>1. /\ \A r \in Receivers : got[r] = <<>>
      /\ txn.mode # "RECV"
      /\ SenderFirst => turn = BetweenEpochs
      /\ ~SenderFirst => completed = {}
      /\ completed \subseteq Receivers /\ was_completed = Receivers
  BY DEF Init, NoTxn
<1>2. SameCountsOK
  <2>1. \A r1, r2 \in Receivers, s \in Senders : flow_status[s][r1] = flow_status[s][r2]
    BY DEF Init
  <2> QED
    BY <1>1, <2>1 DEF SameCountsOK, Count, Absent
<1>3. FreshOK /\ SupportedOK /\ HeardOK
  BY <1>1 DEF FreshOK, SupportedOK, HeardOK
<1>4. YetToHearOK
  <2>1. ASSUME SenderFirst, NEW r \in Receivers PROVE ~(turn <= SenderReplicas + r)
    BY <1>1, <2>1 DEF BetweenEpochs, Receivers
  <2> QED
    BY <1>1, <2>1 DEF YetToHearOK
<1>5. EqualOK
  BY <1>1 DEF EqualOK
<1> QED
  BY <1>2, <1>3, <1>4, <1>5 DEF AgreeInv

(* The message a receiver takes has the support of a majority.             *)
LEMMA VoteSupported ==
    ASSUME TypeInv, NEW r \in Receivers, NEW i \in 0..MaxFlow, Vote(r, i) # NoMessage
    PROVE  \E m \in Msg : /\ Vote(r, i) = <<m>>
                          /\ Cardinality(Supporters(m, i)) >= majority_threshold
<1>1. PICK c \in Winners(r, i) : /\ Vote(r, i) = <<message_buffer[c][i]>>
                                 /\ message_buffer[c][i] \in Msg
  BY VoteType DEF TypeInv
<1> DEFINE m == message_buffer[c][i]
<1>2. Voters(c, r, i) \subseteq Supporters(m, i) /\ Supporters(m, i) \subseteq Senders
  BY DEF Voters, Supporters
<1>3. /\ IsFiniteSet(Supporters(m, i))
      /\ Cardinality(Voters(c, r, i)) <= Cardinality(Supporters(m, i))
  BY <1>2, SendersFinite, FS_Subset
<1>4. Cardinality(Voters(c, r, i)) >= majority_threshold
  BY DEF Winners
<1>5. /\ Cardinality(Voters(c, r, i)) \in Nat /\ Cardinality(Supporters(m, i)) \in Nat
      /\ majority_threshold \in Int
  BY <1>2, <1>3, FS_Subset, FS_CardinalityType, DuctAssumption DEF majority_threshold
<1> QED
  BY <1>1, <1>3, <1>4, <1>5

(* Senders run while nothing has been handed over: only the counts matter. *)
LEMMA SendAgree ==
    ASSUME ~WildWrites, TypeInv, AlarmInv, AgreeInv, NEW s \in Senders, SendStep(s)
    PROVE  AgreeInv'
<1> USE DuctAssumption
<1>n. /\ \A q \in Senders : q \in Int /\ q >= 0 /\ q < SenderReplicas
      /\ \A q \in Receivers : q \in Int /\ q >= 0 /\ q < ReceiverReplicas
  BY DEF Senders, Receivers
<1>1. ~CorruptRow(s)
  BY DEF CorruptRow
<1>2. /\ turn = s /\ UNCHANGED <<got, completed, was_completed>>
      /\ turn' \in {s, s + 1} /\ txn'.mode # "RECV"
  BY <1>1 DEF SendStep, duct_send_prepare, duct_send_message, duct_send_commit,
              CutAnnouncement, EndTurn, NoTxn, TypeInv, TypeOK
<1>3. (\A r \in Receivers : got[r] = <<>>) /\ completed = {}
  BY <1>2, <1>n DEF AgreeInv, FreshOK, AlarmInv, ClearedOK, TypeInv, TypeOK
<1>4. \A q \in Receivers : turn <= SenderReplicas + q
  BY <1>2, <1>n
<1>5. was_completed \subseteq Receivers
  BY DEF TypeInv, TypeOK
<1>6. SameCountsOK'
  <2>1. CASE UNCHANGED <<flow_status, turn, torn>>
    BY <2>1, <1>2 DEF AgreeInv, SameCountsOK, Count, Absent
  <2>2. CASE duct_send_commit(s)
    <3>1. UNCHANGED torn
      BY <2>2 DEF duct_send_commit
    <3>2. \A t \in Senders, r \in Receivers :
             flow_status'[t][r] = IF t = s THEN txn.flow_current ELSE flow_status[t][r]
      BY <2>2 DEF duct_send_commit, announce, TypeInv, TypeOK
    <3>3. \A t \in Senders, r \in Receivers : t # s => Count(t, r)' = Count(t, r)
      BY <3>2 DEF Count, Absent
    <3>4. \A r1, r2 \in Receivers : Count(s, r1)' = Count(s, r2)'
      BY <3>2 DEF Count, Absent
    <3>5. ~torn => \A r1, r2 \in was_completed, t \in Senders : Count(t, r1) = Count(t, r2)
      BY <1>4, <1>5 DEF AgreeInv, SameCountsOK
    <3> QED
      BY <3>1, <3>3, <3>4, <3>5, <1>2, <1>5 DEF SameCountsOK
  <2>3. CASE CutAnnouncement(s)
    BY <2>3 DEF CutAnnouncement, SameCountsOK
  <2> QED
    BY <2>1, <2>2, <2>3, <1>1 DEF SendStep, duct_send_prepare, duct_send_message
<1> QED
  BY <1>2, <1>3, <1>6
     DEF AgreeInv, FreshOK, SupportedOK, HeardOK, YetToHearOK, EqualOK

(* The turn of receiver r ends: for the others, nothing changed.           *)
LEMMA ReceiverDone ==
    ASSUME TypeInv, AgreeInv, NEW r \in Receivers,
           turn = SenderReplicas + r, turn' = turn + 1, txn'.mode = "INVALID",
           UNCHANGED <<message_buffer, got, was_completed, torn>>,
           \A s \in Senders, q \in Receivers : q # r => Count(s, q)' = Count(s, q),
           \/ completed' = completed
           \/ completed' = completed \cup {r} /\ HeardAll(r, got[r])
    PROVE  AgreeInv'
<1> USE DuctAssumption
<1>n. \A q \in Receivers : q \in Int /\ q >= 0 /\ q < ReceiverReplicas
  BY DEF Receivers
<1>g. /\ \A q \in Receivers : got[q] \in Seq(Msg)
      /\ completed \subseteq Receivers /\ was_completed \subseteq Receivers
  BY DEF TypeInv, TypeOK
<1>l. \A q \in Receivers : turn' <= SenderReplicas + q => q # r /\ turn <= SenderReplicas + q
  BY <1>n
<1>1. FreshOK'
  BY <1>n DEF AgreeInv, FreshOK
<1>2. SupportedOK'
  BY DEF AgreeInv, SupportedOK, Supporters
<1>3. HeardOK'
  BY DEF HeardOK
<1>4. SameCountsOK'
  BY <1>l, <1>g DEF AgreeInv, SameCountsOK
(* What r took to the end, those that have yet to run will hear.           *)
<1>5. YetToHearOK'
  <2> SUFFICES ASSUME ~torn, NEW r1 \in completed' \cap was_completed,
                      NEW r2 \in was_completed, turn' <= SenderReplicas + r2
               PROVE  HeardAll(r2, got[r1])'
    BY DEF YetToHearOK
  <2>1. r1 \in Receivers /\ r2 \in Receivers /\ r2 # r /\ turn <= SenderReplicas + r2
    BY <1>l, <1>g
  <2>2. HeardAll(r2, got[r1])
    <3>1. CASE r1 \in completed
      BY <3>1, <2>1 DEF AgreeInv, YetToHearOK
    <3>2. CASE r1 = r /\ HeardAll(r, got[r])
      <4>1. \A s \in Senders : Count(s, r) = Count(s, r2)
        BY <3>2, <2>1 DEF AgreeInv, SameCountsOK
      <4>2. Len(got[r]) \in Nat /\ \A i \in 1..Len(got[r]) : i - 1 \in Nat
        BY <1>g
      <4>3. /\ \A i \in 1..Len(got[r]) : Vote(r2, i - 1) = Vote(r, i - 1)
            /\ Vote(r2, Len(got[r])) = Vote(r, Len(got[r]))
        BY <4>1, <4>2, VoteFromCounts
      <4> QED
        BY <3>2, <4>3 DEF HeardAll, Heard
    <3> QED
      BY <3>1, <3>2
  <2>3. \A g \in Seq(Msg) : HeardAll(r2, g)' <=> HeardAll(r2, g)
    BY <2>1, HeardKept
  <2>4. HeardAll(r2, got[r1])' <=> HeardAll(r2, got[r1])
    BY <2>3, <2>1, <1>g DEF HeardAll, Heard
  <2> QED
    BY <2>2, <2>4
(* What r took, the others took, for r had yet to hear that.               *)
<1>6. EqualOK'
  <2>1. ASSUME ~torn, NEW q \in completed \cap was_completed,
               r \in was_completed, HeardAll(r, got[r])
        PROVE  got[q] = got[r]
    <3>1. HeardAll(r, got[q])
      BY <2>1, <1>n DEF AgreeInv, YetToHearOK
    <3> QED
      BY <2>1, <3>1, <1>g, HeardAllUnique
  <2> QED
    BY <2>1 DEF AgreeInv, EqualOK
<1> QED
  BY <1>1, <1>2, <1>3, <1>4, <1>5, <1>6 DEF AgreeInv

LEMMA ReceiveAgree ==
    ASSUME TypeInv, AlarmInv, AgreeInv, NEW r \in Receivers, ReceiveStep(r)
    PROVE  AgreeInv'
<1> USE DuctAssumption
<1>n. /\ \A q \in Senders : q \in Int /\ q >= 0 /\ q < SenderReplicas
      /\ \A q \in Receivers : q \in Int /\ q >= 0 /\ q < ReceiverReplicas
  BY DEF Senders, Receivers
<1>g. /\ \A q \in Receivers : got[q] \in Seq(Msg)
      /\ completed \subseteq Receivers /\ was_completed \subseteq Receivers
  BY DEF TypeInv, TypeOK
<1>1. CASE duct_receive_prepare(r)
  <2>1. /\ turn = SenderReplicas + r /\ turn' = turn
        /\ txn.mode = "INVALID" /\ txn'.mode = "RECV" /\ txn'.flow_current = 0
        /\ UNCHANGED <<message_buffer, got, completed, was_completed, torn>>
    BY <1>1 DEF duct_receive_prepare
  <2>2. \A s \in Senders, q \in Receivers :
           flow_status'[s][q] = IF Absent(s, r) /\ q = r THEN 0 ELSE flow_status[s][q]
    BY <1>1 DEF duct_receive_prepare, TypeInv, TypeOK
  <2>3. \A s \in Senders, q \in Receivers : Count(s, q)' = Count(s, q)
    BY <2>2 DEF Count, Absent
  <2>4. Len(got[r]) = 0
    BY <2>1 DEF AgreeInv, FreshOK
  <2>5. FreshOK'
    BY <2>1, <2>4, <1>n DEF AgreeInv, FreshOK
  <2>6. SupportedOK'
    BY <2>1 DEF AgreeInv, SupportedOK, Supporters
  <2>7. HeardOK'
    BY <2>1, <2>4, <1>n DEF HeardOK, Heard
  <2>8. SameCountsOK'
    BY <2>1, <2>3, <1>g DEF AgreeInv, SameCountsOK
  <2>9. YetToHearOK'
    <3> SUFFICES ASSUME ~torn, NEW r1 \in completed \cap was_completed,
                        NEW r2 \in was_completed, turn <= SenderReplicas + r2
                 PROVE  HeardAll(r2, got[r1])'
      BY <2>1 DEF YetToHearOK
    <3>1. HeardAll(r2, got[r1])
      BY DEF AgreeInv, YetToHearOK
    <3>2. \A g \in Seq(Msg) : HeardAll(r2, g)' <=> HeardAll(r2, g)
      BY <2>1, <2>3, <1>g, HeardKept
    <3>3. HeardAll(r2, got[r1])' <=> HeardAll(r2, got[r1])
      BY <2>1, <3>2, <1>g DEF HeardAll, Heard
    <3> QED
      BY <3>1, <3>3
  <2>10. EqualOK'
    BY <2>1 DEF AgreeInv, EqualOK
  <2> QED
    BY <2>5, <2>6, <2>7, <2>8, <2>9, <2>10 DEF AgreeInv
<1>2. CASE duct_receive_message(r)
  <2> DEFINE n == txn.flow_current
  <2>1. /\ turn = SenderReplicas + r /\ turn' = turn
        /\ txn.mode = "RECV" /\ txn'.mode = "RECV" /\ txn'.flow_current = n + 1
        /\ Vote(r, n) # NoMessage
        /\ got' = [got EXCEPT ![r] = Append(got[r], Vote(r, n)[1])]
        /\ UNCHANGED <<flow_status, message_buffer, completed, was_completed, torn>>
    BY <1>2 DEF duct_receive_message, TypeInv, TypeOK
  <2>2. n \in 0..MaxFlow /\ Len(got[r]) = n
    BY <2>1 DEF AgreeInv, FreshOK, TypeInv, TxnOK
  <2>3. PICK m \in Msg : /\ Vote(r, n) = <<m>>
                         /\ Cardinality(Supporters(m, n)) >= majority_threshold
    BY <2>1, <2>2, VoteSupported
  <2>4. /\ \A q \in Receivers : q # r => got'[q] = got[q]
        /\ got'[r] = Append(got[r], m)
    BY <2>1, <2>3, <1>g DEF TypeInv, TypeOK
  <2>5. /\ Len(got'[r]) = n + 1 /\ got'[r][n + 1] = m
        /\ \A i \in 1..n : got'[r][i] = got[r][i]
    BY <2>2, <2>4, <1>g
  <2>6. r \notin completed
    BY <2>1, <1>n DEF AlarmInv, ClearedOK, Senders
  <2>v. \A q, i : Vote(q, i)' = Vote(q, i)
    BY <2>1, VoteUnchanged
  <2>7. FreshOK'
    BY <2>1, <2>2, <2>4, <2>5, <1>n DEF AgreeInv, FreshOK
  <2>8. SupportedOK'
    <3> SUFFICES ASSUME NEW q \in Receivers, NEW i \in 1..Len(got'[q])
                 PROVE  Cardinality(Supporters(got'[q][i], i - 1)) >= majority_threshold
      BY <2>1 DEF SupportedOK, Supporters
    <3>1. CASE q # r \/ i \in 1..n
      BY <3>1, <2>2, <2>4, <2>5 DEF AgreeInv, SupportedOK
    <3>2. CASE q = r /\ i = n + 1
      BY <3>2, <2>2, <2>3, <2>5
    <3> QED
      BY <3>1, <3>2, <2>2, <2>5
  <2>9. HeardOK'
    <3>1. Heard(r, got[r])
      BY <2>1 DEF AgreeInv, HeardOK
    <3>2. \A i \in 1..n + 1 : Vote(r, i - 1) = <<got'[r][i]>>
      <4> TAKE i \in 1..n + 1
      <4>1. CASE i \in 1..n
        BY <4>1, <3>1, <2>2, <2>5 DEF Heard
      <4>2. CASE i = n + 1
        BY <4>2, <2>2, <2>3, <2>5
      <4> QED
        BY <4>1, <4>2, <2>2
    <3>3. Heard(r, got[r])'
      BY <3>2, <2>5, <2>v DEF Heard
    <3> QED
      BY <3>3, <2>1, <1>n DEF HeardOK
  <2>10. SameCountsOK'
    BY <2>1 DEF AgreeInv, SameCountsOK, Count, Absent
  <2>11. YetToHearOK'
    <3> SUFFICES ASSUME ~torn, NEW r1 \in completed \cap was_completed,
                        NEW r2 \in was_completed, turn <= SenderReplicas + r2
                 PROVE  HeardAll(r2, got[r1])'
      BY <2>1 DEF YetToHearOK
    <3>1. HeardAll(r2, got[r1]) /\ got'[r1] = got[r1]
      BY <2>4, <2>6, <1>g DEF AgreeInv, YetToHearOK
    <3> QED
      BY <3>1, <2>v DEF HeardAll, Heard
  <2>12. EqualOK'
    BY <2>1, <2>4, <2>6, <1>g DEF AgreeInv, EqualOK
  <2> QED
    BY <2>7, <2>8, <2>9, <2>10, <2>11, <2>12 DEF AgreeInv
<1>3. CASE duct_receive_commit(r)
  <2>1. /\ turn = SenderReplicas + r /\ turn' = turn + 1 /\ txn'.mode = "INVALID"
        /\ txn.mode = "RECV"
        /\ UNCHANGED <<message_buffer, got, was_completed, torn>>
    BY <1>3 DEF duct_receive_commit, EndTurn, NoTxn
  <2>2. \/ UNCHANGED <<flow_status, completed>>
        \/ /\ completed' = completed \cup {r} /\ Vote(r, txn.flow_current) = NoMessage
           /\ \A s \in Senders, q \in Receivers :
                 q # r => flow_status'[s][q] = flow_status[s][q]
    <3>1. CASE Vote(r, txn.flow_current) # NoMessage
      BY <1>3, <3>1 DEF duct_receive_commit
    <3>2. CASE Vote(r, txn.flow_current) = NoMessage
      <4>1. completed' = completed \cup {r} /\ flow_status' = cleared(SenderReplicas, r)
        BY <1>3, <3>2 DEF duct_receive_commit
      <4> QED
        BY <3>2, <4>1 DEF cleared, TypeInv, TypeOK
    <3> QED
      BY <3>1, <3>2
  <2>3. \A s \in Senders, q \in Receivers : q # r => Count(s, q)' = Count(s, q)
    BY <2>2 DEF Count, Absent
  <2>4. Vote(r, txn.flow_current) = NoMessage => HeardAll(r, got[r])
    BY <2>1 DEF AgreeInv, FreshOK, HeardOK, HeardAll
  <2> QED
    BY <2>1, <2>2, <2>3, <2>4, ReceiverDone
<1>4. CASE CutClearing(r)
  <2>1. /\ turn = SenderReplicas + r /\ turn' = turn + 1 /\ txn'.mode = "INVALID"
        /\ UNCHANGED <<message_buffer, got, completed, was_completed, torn>>
    BY <1>4 DEF CutClearing, EndTurn, NoTxn
  <2>2. \A s \in Senders, q \in Receivers : q # r => flow_status'[s][q] = flow_status[s][q]
    BY <1>4 DEF CutClearing, cleared, TypeInv, TypeOK
  <2>3. \A s \in Senders, q \in Receivers : q # r => Count(s, q)' = Count(s, q)
    BY <2>2 DEF Count, Absent
  <2> QED
    BY <2>1, <2>3, ReceiverDone
<1> QED
  BY <1>1, <1>2, <1>3, <1>4 DEF ReceiveStep

LEMMA NextAgree ==
    ASSUME ~WildWrites, TypeInv, AlarmInv, AgreeInv, [Next]_vars
    PROVE  AgreeInv'
<1> USE DuctAssumption
<1>t. /\ turn \in 0..BetweenEpochs /\ BetweenEpochs = SenderReplicas + ReceiverReplicas
      /\ completed \subseteq Receivers /\ was_completed \subseteq Receivers
      /\ \A q \in Receivers : got[q] \in Seq(Msg)
  BY DEF TypeInv, TypeOK, BetweenEpochs
<1>n. /\ \A q \in Senders : q \in Int /\ q >= 0 /\ q < SenderReplicas
      /\ \A q \in Receivers : q \in Int /\ q >= 0 /\ q < ReceiverReplicas
  BY DEF Senders, Receivers
<1>1. CASE NewEpoch
  <2>1. /\ turn' = 0 /\ txn'.mode # "RECV" /\ completed' = {}
        /\ was_completed' = completed /\ UNCHANGED flow_status
        /\ \A r \in Receivers : got'[r] = <<>>
    <3>1. turn = BetweenEpochs /\ UNCHANGED txn
      BY <1>1 DEF NewEpoch
    <3>2. txn.mode # "RECV"
      BY <3>1, <1>t DEF TypeInv, TxnOK
    <3> QED
      BY <1>1, <3>1, <3>2 DEF NewEpoch
  <2>2. \A s \in Senders, r \in completed : flow_status[s][r] = DUCT_MISSING_FLOW
    BY <1>t DEF AlarmInv, ClearedOK
  <2>3. SameCountsOK'
    BY <2>1, <2>2 DEF SameCountsOK, Count, Absent
  <2> QED
    BY <2>1, <2>3
       DEF AgreeInv, FreshOK, SupportedOK, HeardOK, YetToHearOK, EqualOK
<1>2. ASSUME NEW s \in Senders, SendStep(s) PROVE AgreeInv'
  BY <1>2, SendAgree
<1>3. ASSUME NEW r \in Receivers, ReceiveStep(r) PROVE AgreeInv'
  BY <1>3, ReceiveAgree
<1>4. CASE Cut
  <2>1. /\ turn < BetweenEpochs /\ turn' = turn + 1 /\ txn'.mode = "INVALID"
        /\ UNCHANGED <<flow_status, message_buffer, got, completed, was_completed, torn>>
    BY <1>4 DEF Cut, EndTurn, NoTxn
  <2>2. CASE turn \in Senders
    <3>1. completed = {} /\ \A r \in Receivers : got[r] = <<>>
      BY <2>2, <1>n, <1>t DEF AgreeInv, FreshOK, AlarmInv, ClearedOK
    <3>2. \A q \in was_completed : turn <= SenderReplicas + q
      BY <2>2, <1>n, <1>t
    <3>3. SameCountsOK'
      BY <2>1, <3>2 DEF AgreeInv, SameCountsOK, Count, Absent
    <3> QED
      BY <2>1, <3>1, <3>3
         DEF AgreeInv, FreshOK, SupportedOK, HeardOK, YetToHearOK, EqualOK
  <2>3. CASE turn \notin Senders
    <3>1. PICK r \in Receivers : turn = SenderReplicas + r
      <4>1. turn - SenderReplicas \in Receivers
        BY <2>1, <2>3, <1>t DEF Senders, Receivers
      <4> QED
        BY <4>1, <1>t
    <3>2. \A s \in Senders, q \in Receivers : Count(s, q)' = Count(s, q)
      BY <2>1 DEF Count, Absent
    <3> QED
      BY <2>1, <3>1, <3>2, ReceiverDone
  <2> QED
    BY <2>2, <2>3
<1>5. CASE UNCHANGED vars
  <2>1. \A q, i : Vote(q, i)' = Vote(q, i)
    BY <1>5, VoteUnchanged DEF vars
  <2> QED
    BY <1>5, <2>1
       DEF vars, AgreeInv, FreshOK, SupportedOK, HeardOK, SameCountsOK, YetToHearOK,
           EqualOK, Heard, HeardAll, Supporters, Count, Absent
<1> QED
  BY <1>1, <1>2, <1>3, <1>4, <1>5 DEF Next

(* Two majorities share a sender, whose row has one entry at each index.   *)
LEMMA AgreeImplies == TypeInv /\ AgreeInv => Agreement
<1> SUFFICES ASSUME TypeInv, AgreeInv,
                    NEW r1 \in completed \cap was_completed,
                    NEW r2 \in completed \cap was_completed
             PROVE  IsPrefixOf(got[r1], got[r2]) \/ IsPrefixOf(got[r2], got[r1])
  BY DEF AgreeInv, EqualOK, Agreement
<1>1. /\ r1 \in Receivers /\ r2 \in Receivers
      /\ Len(got[r1]) \in Nat /\ Len(got[r2]) \in Nat
  BY DEF TypeInv, TypeOK
<1>2. ASSUME NEW i \in 1..Len(got[r1]), i \in 1..Len(got[r2])
      PROVE  got[r1][i] = got[r2][i]
  <2> DEFINE S(r) == Supporters(got[r][i], i - 1)
  <2>1. /\ Cardinality(S(r1)) >= majority_threshold
        /\ Cardinality(S(r2)) >= majority_threshold
    BY <1>1, <1>2 DEF AgreeInv, SupportedOK
  <2>2. S(r1) \subseteq Senders /\ S(r2) \subseteq Senders
    BY DEF Supporters
  <2>3. PICK s : s \in S(r1) /\ s \in S(r2)
    <3> HIDE DEF S
    <3> QED
      BY <2>1, <2>2, MajoritiesMeet
  <2> QED
    BY <2>3 DEF Supporters
<1>3. CASE Len(got[r1]) <= Len(got[r2])
  BY <1>1, <1>2, <1>3 DEF IsPrefixOf
<1>4. CASE Len(got[r2]) <= Len(got[r1])
  BY <1>1, <1>2, <1>4 DEF IsPrefixOf
<1> QED
  BY <1>1, <1>3, <1>4

(* The receiver replicas of a duct agree, although all the senders may     *)
(* diverge or be cut anywhere: the senders cannot make two receivers who   *)
(* keep step hear different things (duct_receive_message's vote and the    *)
(* counts of duct_send_commit, which every receiver gets alike).           *)
THEOREM ReceiversAgree ==
    ASSUME ~WildWrites
    PROVE  Spec => []Agreement
<1>1. Init => TypeInv /\ AlarmInv /\ AgreeInv
  BY InitTypeInv, InitAlarm, InitAgree
<1>2. TypeInv /\ AlarmInv /\ AgreeInv /\ [Next]_vars => (TypeInv /\ AlarmInv /\ AgreeInv)'
  BY NextTypeInv, NextAlarm, NextAgree
<1> QED
  BY <1>1, <1>2, AgreeImplies, PTL DEF Spec
=============================================================================
