------------------------------ MODULE MCNotepad -----------------------------
(***************************************************************************)
(* Replicas that vote.  One of three systems is chosen at the start and    *)
(* then runs by itself: replicas with a notepad that start blank, a        *)
(* minority of which may be damaged; over variables of its own, replicas   *)
(* whose memory may hold anything at the start and any of which may be cut *)
(* short; and the voters of the watchdog, which have no notepad.  The      *)
(* component with the notepad is a counter that wraps, so that states of   *)
(* successive cycles differ.  Notepad is instantiated with its theorems,   *)
(* which MCNotepad_proofs cites; it also has those of Watchdog.            *)
(***************************************************************************)
EXTENDS Notepad

CONSTANTS Modulus, NumVoters, Aspects, Timeout, Words, Period, EarlyOffset, MaxMissed

MCState == 0..Modulus - 1
MCCompute(v, i) == (v + i + 1) % Modulus

VARIABLES
    instance,   \* "damage", "anything" or "watchdog"
    flip_states2, mutable_state2, turn2, updating2, input2, read2, faulty2, group2,
    parity2, lagging2, quiet2,
    watchTurn, well, silent, age, votes, asked, now, deadline, greet, watchFaulty, missed, stopped

vars2 == <<flip_states2, mutable_state2, turn2, updating2, input2, read2, faulty2,
           group2, parity2, lagging2, quiet2>>
wvars == <<watchTurn, well, silent, age, votes, asked, now, deadline, greet, watchFaulty, missed,
           stopped>>

Parity(v, i) == (v + i + 1) % 2

Anything == INSTANCE Notepad_proofs WITH
    State <- {0, 1}, Compute <- Parity, Input <- {0},
    MaxFaulty <- NumReplicas, AnyMemory <- TRUE, Damage <- FALSE,
    flip_states <- flip_states2, mutable_state <- mutable_state2, turn <- turn2,
    updating <- updating2, input <- input2, read <- read2, faulty <- faulty2,
    group <- group2, parity <- parity2, lagging <- lagging2, quiet <- quiet2

W == INSTANCE Watchdog WITH turn <- watchTurn, faulty <- watchFaulty
ASSUME MCNotepadAssumption == W!WatchdogAssumption

(* The variables of an instance that does not run.                         *)
Parked ==
    /\ flip_states2 = [r \in Replicas |-> NOTEPAD_UNINITIALIZED]
    /\ mutable_state2 = [r \in Replicas |-> [f \in {0, 1} |-> Zeroed]]
    /\ turn2 = 0 /\ updating2 = FALSE /\ input2 = 0
    /\ read2 = [r \in Replicas |-> NotRun]
    /\ faulty2 = {} /\ lagging2 = {} /\ group2 = Zeroed /\ parity2 = 1 /\ quiet2 = 0

MCInit ==
    /\ Init /\ W!Init
    /\ \/ instance = "damage" /\ Parked /\ now = 0
       \/ instance = "anything" /\ input = 0 /\ Anything!Init /\ now = 0
       \/ instance = "watchdog" /\ input = 0 /\ Parked

MCNext ==
    /\ UNCHANGED instance
    /\ \/ instance = "damage" /\ Next /\ UNCHANGED <<vars2, wvars>>
       \/ instance = "anything" /\ Anything!Next /\ UNCHANGED <<vars, wvars>>
       \/ instance = "watchdog" /\ W!Next /\ UNCHANGED <<vars, vars2>>

MCSpec == MCInit /\ [][MCNext]_<<vars, vars2, wvars, instance>>

(* Two quiet cycles bring the replicas in step again, after the damage of  *)
(* a minority; and they make all agree from any contents of the memory.    *)
MCResynchronises == Resynchronises /\ (instance = "anything" => Anything!SelfStabilises)

(* The machine is reset for an aspect that is overdue, and only for one.   *)
MCResetIfOverdue == W!NoNeedlessReset /\ W!SilenceStops

(* The device is fed only while no aspect is overdue.                      *)
MCFedIfWell == W!FedIfWell
=============================================================================
