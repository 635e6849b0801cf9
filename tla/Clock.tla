-------------------------------- MODULE Clock --------------------------------
(***************************************************************************)
(* How the flight software knows the mission time: src/fsw/flight/clock.c  *)
(* and clock.h.  The replicas of clock_start_clip run in lockstep, as      *)
(* their notepad has it; each keeps an offset of its own in memory that no *)
(* notepad protects, clock_offset_adj_slow.  The voter keeps the offset    *)
(* that most of them hold in clock_offset_adj_fast, and asks for another   *)
(* calibration as soon as one of them differs.  Whoever needs the mission  *)
(* time votes for himself, and falls back to the fast offset.              *)
(*                                                                         *)
(* The clock on the bus answers a command in the next epoch, or the answer *)
(* is lost; and what it says, less the local time, varies a little.        *)
(***************************************************************************)
EXTENDS Integers, FiniteSets

CONSTANTS
    NumReplicas,    \* CLOCK_REPLICAS
    Measured,       \* what received_timestamp - network_timestamp may be
    Damaged,        \* what damage may make of an offset
    MaxFaults       \* clips cut, offsets damaged, answers lost

ClockAssumption ==
    /\ NumReplicas \in Nat \ {0} /\ Measured \subseteq Int /\ Damaged \subseteq Int
    /\ MaxFaults \in Nat

CLOCK_UNCALIBRATED == 0
Clocks == 0..NumReplicas - 1
Voter    == NumReplicas
CLOCK_REPLICA_MAJORITY == 1 + NumReplicas \div 2

VARIABLES
    turn,       \* the replica to run, Voter, or Voter + 1
    state,      \* the notepad of the replicas
    answer,     \* what the clock answered: [state, offset], or nothing yet
    clock_offset_adj_slow, clock_offset_adj_fast, clock_calibration_required,
    faults,     \* how many there have been
    affected    \* what a fault has hit that is not made good yet

vars == <<turn, state, answer, clock_offset_adj_slow, clock_offset_adj_fast,
          clock_calibration_required, faults, affected>>

NoAnswer == [state |-> "CLOCK_IDLE", offset |-> CLOCK_UNCALIBRATED]
Reading  == {"CLOCK_READ_MAGIC_NUMBER", "CLOCK_READ_CURRENT_TIME"}

(* clock_configure: 0 is kept for a clock that is not calibrated.          *)
adjustment(offset) == IF offset = CLOCK_UNCALIBRATED THEN offset + 1 ELSE offset

Right   == {adjustment(offset) : offset \in Measured}
Offsets == Right \cup Damaged \cup {CLOCK_UNCALIBRATED}

TypeOK ==
    /\ turn \in 0..Voter + 1 /\ state \in {"CLOCK_IDLE"} \cup Reading
    /\ answer \in [state : {"CLOCK_IDLE"} \cup Reading, offset : Measured \cup {0}]
    /\ clock_offset_adj_slow \in [Clocks -> Offsets]
    /\ clock_offset_adj_fast \in Offsets /\ clock_calibration_required \in BOOLEAN
    /\ faults \in 0..MaxFaults /\ affected \subseteq Clocks \cup {Voter}

Init ==
    /\ turn = 0 /\ state = "CLOCK_IDLE" /\ answer = NoAnswer
    /\ clock_offset_adj_slow = [r \in Clocks |-> CLOCK_UNCALIBRATED]
    /\ clock_offset_adj_fast = CLOCK_UNCALIBRATED /\ clock_calibration_required = TRUE
    /\ faults = 0 /\ affected = {}

-----------------------------------------------------------------------------
(* Votes.                                                                  *)

(* clock_offset_adj_vote: the offset of a majority, or else the fast one.  *)
Held(x) == {r \in Clocks : clock_offset_adj_slow[r] = x}
Bug_vote == clock_offset_adj_slow[0]
clock_offset_adj_vote ==
    IF \E x \in Offsets : Cardinality(Held(x)) >= CLOCK_REPLICA_MAJORITY
    THEN CHOOSE x \in Offsets : Cardinality(Held(x)) >= CLOCK_REPLICA_MAJORITY
    ELSE clock_offset_adj_fast

clock_is_calibrated == clock_offset_adj_vote # CLOCK_UNCALIBRATED

-----------------------------------------------------------------------------
(* The clips.                                                              *)

(* clock_start_clip in the last replica leaves the notepad for the next    *)
(* epoch: a state that was answered is left, and one that wants nothing    *)
(* more starts over when a calibration is required.                        *)
Received == answer.state = state /\ state \in Reading
Concluded ==
    IF ~Received THEN state
    ELSE IF state = "CLOCK_READ_MAGIC_NUMBER" THEN "CLOCK_READ_CURRENT_TIME"
    ELSE "CLOCK_CALIBRATED"
Proceeded ==
    IF Concluded = "CLOCK_IDLE" /\ clock_calibration_required THEN "CLOCK_READ_MAGIC_NUMBER"
    ELSE IF Concluded = "CLOCK_CALIBRATED" THEN "CLOCK_IDLE"
    ELSE Concluded

Configured(r) ==
    IF Concluded = "CLOCK_CALIBRATED"
    THEN [clock_offset_adj_slow EXCEPT ![r] = adjustment(answer.offset)]
    ELSE clock_offset_adj_slow

Advance(proceeded) ==
    /\ turn' = turn + 1
    /\ state' = IF turn + 1 = Voter THEN proceeded ELSE state

clock_start_clip ==
    /\ turn \in Clocks
    /\ clock_offset_adj_slow' = Configured(turn)
    /\ Advance(Proceeded)
    /\ UNCHANGED <<answer, clock_offset_adj_fast, clock_calibration_required, faults, affected>>

Mismatched(x) == \E r \in Clocks : clock_offset_adj_slow[r] # x

Bug_required(x) == x = CLOCK_UNCALIBRATED
required(x) == x = CLOCK_UNCALIBRATED \/ Mismatched(x)

clock_voter_clip ==
    /\ turn = Voter
    /\ clock_offset_adj_fast' = clock_offset_adj_vote
    /\ clock_calibration_required' = required(clock_offset_adj_vote)
    /\ turn' = turn + 1
    /\ affected' = IF Mismatched(clock_offset_adj_vote) THEN affected \ {Voter} ELSE {}
    /\ UNCHANGED <<state, answer, clock_offset_adj_slow, faults>>

(* The next epoch, with the answer to the command of this one, if it is    *)
(* not lost.                                                               *)
NewEpoch ==
    /\ turn = Voter + 1 /\ turn' = 0
    /\ IF state \in Reading THEN \E offset \in Measured : answer' = [state |-> state, offset |-> offset]
       ELSE answer' = NoAnswer
    /\ UNCHANGED <<state, clock_offset_adj_slow, clock_offset_adj_fast,
                   clock_calibration_required, faults, affected>>

-----------------------------------------------------------------------------
(* Faults.  What is affected is one replica, or the voter and what it      *)
(* stores, until that is made good.                                        *)

Fault(x) ==
    /\ faults < MaxFaults /\ affected \subseteq {x}
    /\ faults' = faults + 1 /\ affected' = {x}

(* A replica is cut short before it stores its offset, or after.           *)
CutReplica ==
    /\ turn \in Clocks /\ Fault(turn)
    /\ clock_offset_adj_slow' \in {clock_offset_adj_slow, Configured(turn)}
    /\ Advance(Proceeded)
    /\ UNCHANGED <<answer, clock_offset_adj_fast, clock_calibration_required>>

(* The voter is cut short before it stores either result, or after one.    *)
CutVoter ==
    /\ turn = Voter /\ Fault(Voter)
    /\ clock_offset_adj_fast' \in {clock_offset_adj_fast, clock_offset_adj_vote}
    /\ turn' = turn + 1
    /\ UNCHANGED <<state, answer, clock_offset_adj_slow, clock_calibration_required>>

DamageOffset(r) ==
    /\ Fault(r)
    /\ \E x \in Damaged : clock_offset_adj_slow' = [clock_offset_adj_slow EXCEPT ![r] = x]
    /\ UNCHANGED <<turn, state, answer, clock_offset_adj_fast, clock_calibration_required>>

(* Damage to the flag between two replicas has the effect of damage before *)
(* all of them, or after.                                                  *)
DamageVote ==
    /\ turn \in {0, Voter, Voter + 1} /\ Fault(Voter)
    /\ \/ clock_offset_adj_fast' \in Damaged /\ UNCHANGED clock_calibration_required
       \/ UNCHANGED clock_offset_adj_fast
          /\ clock_calibration_required' = ~clock_calibration_required
    /\ UNCHANGED <<turn, state, answer, clock_offset_adj_slow>>

LoseAnswer ==
    /\ turn = 0 /\ answer # NoAnswer /\ faults < MaxFaults
    /\ answer' = NoAnswer /\ faults' = faults + 1
    /\ UNCHANGED <<turn, state, clock_offset_adj_slow, clock_offset_adj_fast,
                   clock_calibration_required, affected>>

Next ==
    \/ clock_start_clip \/ clock_voter_clip \/ NewEpoch
    \/ CutReplica \/ CutVoter \/ DamageVote \/ LoseAnswer
    \/ \E r \in Clocks : DamageOffset(r)

Spec == Init /\ [][Next]_vars

(* The schedule gives every clip its turn; faults are finitely many.       *)
FairSpec == Spec /\ WF_vars(clock_start_clip \/ clock_voter_clip \/ NewEpoch)

-----------------------------------------------------------------------------
(* What the calibration is for.                                            *)

(* Whoever asks for the mission time at any moment gets an offset that was *)
(* measured, or learns that there is none yet: not half of a calibration,  *)
(* and not what one fault has made of an offset.                           *)
MissionTimeRight == TypeOK /\ clock_offset_adj_vote \in Right \cup {CLOCK_UNCALIBRATED}

(* Once an epoch has ended in which the time is known, it is never unknown *)
(* again.                                                                  *)
StaysCalibrated ==
    [](turn = Voter + 1 /\ clock_is_calibrated => []clock_is_calibrated)

(* In the end all replicas hold the same offset, that of a calibration.    *)
Calibrates ==
    <>[](\E x \in Right : clock_offset_adj_fast = x /\ \A r \in Clocks : clock_offset_adj_slow[r] = x)
=============================================================================
