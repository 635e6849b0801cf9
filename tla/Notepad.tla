------------------------------- MODULE Notepad ------------------------------
(***************************************************************************)
(* The voting state notepad of src/fsw/synch/notepad.c: the mutable state  *)
(* of a component that runs as several replicas.                           *)
(*                                                                         *)
(* Each replica owns two regions and a flip byte that says which of them   *)
(* it wrote last.  Once per scheduling cycle, in order, each replica calls *)
(* notepad_feedforward: it votes on which region holds the state of the    *)
(* last cycle, votes on that state, copies the winner into its other       *)
(* region and sets its flip byte; the caller then updates the copy in      *)
(* place until its clip ends.  A clip may be cut short before the call     *)
(* (the replica skips the cycle), or after it (the copy is not updated).   *)
(* The update is a function of the state and of the inputs of the cycle,   *)
(* the same for all replicas.                                              *)
(***************************************************************************)
EXTENDS Integers, FiniteSets

CONSTANTS
    NumReplicas,        \* notepad_ref_t.num_replicas
    State,              \* values of the component's state
    Zeroed,             \* the state after memset(.., 0, ..)
    Input,              \* inputs of the component in one cycle
    Compute(_, _),      \* the component: state and input to next state
    MaxFaulty,          \* replicas that may be faulty or out of step at once
    AnyMemory,          \* whether memory may hold anything at the start
    Damage              \* whether the memory of a faulty replica is damaged too

ASSUME NotepadAssumption ==
    /\ NumReplicas \in Nat \ {0}
    /\ Zeroed \in State
    /\ \A v \in State, i \in Input : Compute(v, i) \in State
    /\ MaxFaulty \in 0..NumReplicas
    /\ AnyMemory \in BOOLEAN /\ Damage \in BOOLEAN

NOTEPAD_UNINITIALIZED == 255

Replicas == 0..NumReplicas - 1
FlipByte == {0, 1, 2, NOTEPAD_UNINITIALIZED}      \* 2 stands for the other invalid bytes
QuietBound == 3                                   \* bound on the quiet counter

VARIABLES
    flip_states,        \* flip_states[r], a byte
    mutable_state,      \* mutable_state[r][f]: region f of replica r
    turn,               \* the replica whose clip is scheduled; NumReplicas between cycles
    updating,           \* notepad_feedforward has returned in this turn
    input,              \* inputs of this cycle
    read,               \* read[r]: what notepad_feedforward returned to r this cycle
    faulty,             \* replicas cut short or damaged in this cycle
    group,              \* the state a fault-free component had after the last cycle
    parity,             \* the region a fault-free replica wrote in the last cycle
    lagging,            \* replicas that were out of step at the end of the last cycle
    quiet               \* fault-free cycles in a row, up to QuietBound

memory == <<flip_states, mutable_state>>
ghosts == <<group, parity, lagging, quiet>>
vars   == <<memory, turn, updating, input, read, faulty, ghosts>>

NotRun == [value |-> Zeroed, valid |-> FALSE, ran |-> FALSE]

TypeOK ==
    /\ flip_states \in [Replicas -> FlipByte]
    /\ mutable_state \in [Replicas -> [{0, 1} -> State]]
    /\ turn \in 0..NumReplicas
    /\ updating \in BOOLEAN
    /\ input \in Input
    /\ read \in [Replicas -> [value: State, valid: BOOLEAN, ran: BOOLEAN]]
    /\ faulty \subseteq Replicas /\ lagging \subseteq Replicas
    /\ group \in State /\ parity \in {0, 1}
    /\ quiet \in 0..QuietBound

(* NOTEPAD_REGISTER: the static initialisers, or whatever the memory holds. *)
Init ==
    /\ IF AnyMemory
       THEN /\ flip_states \in [Replicas -> FlipByte]
            /\ mutable_state \in [Replicas -> [{0, 1} -> State]]
       ELSE /\ flip_states = [r \in Replicas |-> NOTEPAD_UNINITIALIZED]
            /\ mutable_state = [r \in Replicas |-> [f \in {0, 1} |-> Zeroed]]
    /\ turn = 0 /\ updating = FALSE
    /\ input \in Input
    /\ read = [r \in Replicas |-> NotRun]
    /\ faulty = {} /\ lagging = {}
    /\ group = Zeroed /\ parity = 1
    /\ quiet = 0

-----------------------------------------------------------------------------
(* The votes, as replica r sees memory.                                    *)

Bug_majority == NumReplicas \div 2
majority == 1 + NumReplicas \div 2

(* The flip bit of replica i as r counts it: one that runs before r is     *)
(* taken to have flipped already.                                          *)
Bug_flip_as_seen(i, r) == flip_states[i] % 2
flip_as_seen(i, r) ==
    IF i < r THEN 1 - (flip_states[i] % 2) ELSE flip_states[i] % 2

Bug_vote_flip(r) == IF flip_states[r] = NOTEPAD_UNINITIALIZED
                    THEN NOTEPAD_UNINITIALIZED ELSE flip_states[r] % 2
notepad_vote_flip(r) ==
    IF flip_states[r] = NOTEPAD_UNINITIALIZED
    THEN NOTEPAD_UNINITIALIZED
    ELSE IF Cardinality({i \in Replicas : flip_as_seen(i, r) = 1}) >= majority
         THEN 1 ELSE 0

(* Candidates with a majority among themselves and the later replicas.     *)
Agreeing(c, f) ==
    {i \in Replicas : i >= c /\ mutable_state[i][f] = mutable_state[c][f]}

Populating(f) ==
    {c \in 0..NumReplicas - majority : Cardinality(Agreeing(c, f)) >= majority}

notepad_vote_best(f) ==
    IF f = NOTEPAD_UNINITIALIZED \/ Populating(f) = {}
    THEN [value |-> Zeroed, valid |-> FALSE, ran |-> TRUE]
    ELSE [value |-> mutable_state[CHOOSE c \in Populating(f) :
                                      \A d \in Populating(f) : c <= d][f],
          valid |-> TRUE, ran |-> TRUE]

(* !flip_read, with NOTEPAD_UNINITIALIZED mapped to 0.                     *)
flip_write(r) == IF notepad_vote_flip(r) = 0 THEN 1 ELSE 0

-----------------------------------------------------------------------------
(* One turn.                                                               *)

notepad_feedforward(r) ==
    /\ turn = r /\ ~updating
    /\ LET got == notepad_vote_best(notepad_vote_flip(r))
           w   == flip_write(r)
       IN /\ mutable_state' = [mutable_state EXCEPT ![r][w] = got.value]
          /\ flip_states' = [flip_states EXCEPT ![r] = w]
          /\ read' = [read EXCEPT ![r] = got]
    /\ updating' = TRUE
    /\ UNCHANGED <<turn, input, faulty, ghosts>>

(* The component computes its next state in the region it was given.       *)
Update(r) ==
    /\ turn = r /\ updating
    /\ mutable_state' = [mutable_state EXCEPT ![r][flip_states[r]] = Compute(@, input)]
    /\ turn' = turn + 1 /\ updating' = FALSE
    /\ UNCHANGED <<flip_states, input, read, faulty, ghosts>>

-----------------------------------------------------------------------------
(* Faults, and the clock of cycles.                                        *)

(* Another replica fails only while, together with those that failed in    *)
(* this cycle or have not caught up since an earlier one, at most          *)
(* MaxFaulty are affected.                                                 *)
MayFault(r) == Cardinality(faulty \cup lagging \cup {r}) <= MaxFaulty

Cut ==
    /\ turn < NumReplicas /\ MayFault(turn)
    /\ faulty' = faulty \cup {turn}
    /\ turn' = turn + 1 /\ updating' = FALSE
    /\ UNCHANGED <<memory, input, read, ghosts>>

Corrupt(r) ==
    /\ Damage /\ MayFault(r) /\ ~updating
    /\ \E b \in FlipByte, v \in [{0, 1} -> State] :
          /\ flip_states' = [flip_states EXCEPT ![r] = b]
          /\ mutable_state' = [mutable_state EXCEPT ![r] = v]
    /\ faulty' = faulty \cup {r}
    /\ UNCHANGED <<turn, updating, input, read, ghosts>>

OutOfStep(r) ==
    \/ flip_states[r] # parity'
    \/ mutable_state[r][parity'] # group'

NewCycle ==
    /\ turn = NumReplicas
    /\ turn' = 0
    /\ input' \in Input
    /\ group' = Compute(group, input)
    /\ parity' = 1 - parity
    /\ lagging' = {r \in Replicas : OutOfStep(r)}
    /\ quiet' = IF faulty # {} THEN 0
                ELSE IF quiet < QuietBound THEN quiet + 1 ELSE quiet
    /\ faulty' = {}
    /\ read' = [r \in Replicas |-> NotRun]
    /\ UNCHANGED <<memory, updating>>

Next ==
    \/ \E r \in Replicas : notepad_feedforward(r) \/ Update(r) \/ Corrupt(r)
    \/ Cut
    \/ NewCycle

Spec == Init /\ [][Next]_vars

-----------------------------------------------------------------------------
(* What a notepad is for.                                                  *)

(* While the replicas that are faulty or still out of step are a minority, *)
(* every replica that was in step and runs is handed exactly the state a   *)
(* fault-free component would have: no cut or damaged replica makes        *)
(* another one lose, repeat or invent a cycle.                             *)
Lockstep ==
    \A r \in Replicas \ (faulty \cup lagging) :
        read[r].ran => read[r].value = group

(* A replica that fell out of step is back in step at the latest two       *)
(* fault-free turns later: replicas re-synchronise by themselves.          *)
Resynchronises == turn = 0 /\ quiet >= 2 => lagging = {}

(* From any contents of the memory whatsoever, and whatever fails, two     *)
(* fault-free cycles in a row leave all replicas with the same flip byte   *)
(* and the same state.                                                     *)
SelfStabilises ==
    turn = 0 /\ ~updating /\ faulty = {} /\ quiet >= 2 =>
        \A r, q \in Replicas :
            /\ flip_states[r] = flip_states[q] /\ flip_states[r] \in {0, 1}
            /\ mutable_state[r][flip_states[r]] = mutable_state[q][flip_states[q]]

(* Once a replica has its state back from its peers it is never told that  *)
(* the state is lost: with a minority affected, notepad_feedforward says   *)
(* invalid only to a replica that never started or lost its flip byte.     *)
InvalidOnlyIfBlank ==
    [][\A r \in Replicas :
          /\ read'[r].ran /\ ~read[r].ran /\ ~read'[r].valid
          /\ r \notin faulty
          => flip_states[r] = NOTEPAD_UNINITIALIZED]_vars
=============================================================================
