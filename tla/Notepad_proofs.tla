---------------------------- MODULE Notepad_proofs ----------------------------
(***************************************************************************)
(* Theorems about Notepad, for any number of replicas, any component and   *)
(* any memory damage, if the replicas that are faulty or out of step are   *)
(* always a minority and memory is initialised: type correctness; the      *)
(* others stay in lockstep; an invalid state is handed only to a replica   *)
(* that is blank; and two quiet cycles bring every replica back.           *)
(***************************************************************************)
EXTENDS Notepad, FiniteSetTheorems, WellFoundedInduction, TLAPS

Minority == 2 * MaxFaulty < NumReplicas /\ ~AnyMemory

Sound == Replicas \ (faulty \cup lagging)
Few == Cardinality(faulty \cup lagging) <= MaxFaulty

(* What replica r is like before, in and after its turn: it holds the      *)
(* state of the last cycle in the region of that cycle's parity, or is     *)
(* blank in the very first cycle; it has copied that state to its other    *)
(* region; it has updated the copy.                                        *)
Before(r) ==
    /\ \/ flip_states[r] = parity
       \/ flip_states[r] = NOTEPAD_UNINITIALIZED /\ parity = 1 /\ group = Zeroed
    /\ ~read[r].ran
Copied(r)  == flip_states[r] = 1 - parity /\ mutable_state[r][1 - parity] = group
Updated(r) == flip_states[r] = 1 - parity /\ mutable_state[r][1 - parity] = Compute(group, input)
Obedient(r) == read[r].ran => read[r].value = group

HasRun(r) == r < turn
Running(r) == r = turn /\ updating
Waits(r) == ~HasRun(r) /\ ~Running(r)

InLockstep(r) ==
    /\ mutable_state[r][parity] = group
    /\ Waits(r) => Before(r)
    /\ Running(r) => Copied(r)
    /\ HasRun(r) => Updated(r)
    /\ Obedient(r)

(* Replicas that did not fail in this cycle leave the blank state in their *)
(* turn; in the cycle after a quiet one they also catch up.                *)
Recovering(r) ==
    /\ HasRun(r) \/ Running(r) \/ quiet >= 1 => flip_states[r] # NOTEPAD_UNINITIALIZED
    /\ quiet >= 1 /\ Running(r) => Copied(r)
    /\ quiet >= 1 /\ HasRun(r) => Updated(r)

IInv ==
    /\ TypeOK
    /\ updating => turn \in Replicas
    /\ Few
    /\ \A r \in Sound : InLockstep(r)
    /\ \A r \in Replicas \ faulty : Recovering(r)
    /\ quiet >= 2 => lagging = {}

-----------------------------------------------------------------------------
(* Counting.                                                               *)

(* A nonempty set of natural numbers has a least element.                  *)
LEMMA LeastNatural ==
    ASSUME NEW W \in SUBSET Nat, W # {}
    PROVE  \E c \in W : \A d \in W : c <= d
<1> DEFINE R == OpToRel(<, Nat)
<1>1. IsWellFoundedOn(R, Nat)
  BY NatLessThanWellFounded DEF OpToRel
<1>2. PICK x \in W : \A y \in W : ~(<<y, x>> \in R)
  <2> HIDE DEF R
  <2> QED
    BY <1>1, WFMin
<1>3. \A y \in W : ~(y < x)
  BY <1>2 DEF OpToRel
<1> QED
  BY <1>3

(* The replicas are finitely many, and so is any part of them.             *)
LEMMA ReplicasFinite ==
    /\ IsFiniteSet(Replicas) /\ Cardinality(Replicas) = NumReplicas
    /\ NumReplicas \in Nat /\ NumReplicas >= 1
    /\ \A W \in SUBSET Replicas : IsFiniteSet(W) /\ Cardinality(W) \in Nat
<1>1. NumReplicas \in Nat /\ NumReplicas >= 1
  BY NotepadAssumption
<1>2. IsFiniteSet(Replicas) /\ Cardinality(Replicas) = NumReplicas
  BY <1>1, FS_Interval, 0 \in Int, NumReplicas - 1 \in Int DEF Replicas
<1> QED
  BY <1>1, <1>2, FS_Subset, FS_CardinalityType

(* More than half of the replicas are sound.                               *)
LEMMA SoundMajority ==
    ASSUME TypeOK, Few, Minority
    PROVE  /\ Sound \subseteq Replicas
           /\ Cardinality(Sound) \in Nat /\ Cardinality(Sound) >= majority
           /\ majority \in Nat /\ 2 * majority > NumReplicas
<1> DEFINE bad == faulty \cup lagging
<1>1. bad \subseteq Replicas
  BY DEF TypeOK
<1>2. Cardinality(Sound) = Cardinality(Replicas) - Cardinality(Replicas \cap bad)
  BY ReplicasFinite, FS_Difference DEF Sound
<1>3. Replicas \cap bad = bad
  BY <1>1
<1>4. Cardinality(bad) <= MaxFaulty /\ MaxFaulty \in Nat /\ 2 * MaxFaulty < NumReplicas
  BY NotepadAssumption, ReplicasFinite DEF Few, Minority
<1>5. Cardinality(bad) \in Nat
  BY <1>1, ReplicasFinite
<1>6. Cardinality(Sound) = NumReplicas - Cardinality(bad)
  BY <1>2, <1>3, ReplicasFinite
<1>7. Sound \subseteq Replicas
  BY DEF Sound
<1> QED
  <2> HIDE DEF bad
  <2> QED
    BY <1>4, <1>5, <1>6, <1>7, ReplicasFinite DEF majority

(* Two majorities have a member in common.                                 *)
LEMMA Overlap ==
    ASSUME TypeOK, Few, Minority,
           NEW W \in SUBSET Replicas, Cardinality(W) >= majority
    PROVE  W \cap Sound # {}
<1>1. Cardinality(W) \in Nat
  BY ReplicasFinite
<1>2. Cardinality(W) + Cardinality(Sound) > Cardinality(Replicas)
  BY <1>1, SoundMajority, ReplicasFinite
<1> QED
  BY <1>2, SoundMajority, ReplicasFinite, FS_MajoritiesIntersect

-----------------------------------------------------------------------------
(* What the votes return.                                                  *)

(* Whatever a replica takes the others' flip bits for, the sound ones tell *)
(* it the parity of the last cycle.                                        *)
LEMMA SoundFlips ==
    ASSUME IInv, NEW r \in Replicas, turn = r, ~updating, NEW i \in Sound
    PROVE  flip_as_seen(i, r) = parity
<1>1. i \in Replicas /\ InLockstep(i) /\ parity \in {0, 1} /\ r \in Int /\ i \in Int
  BY ReplicasFinite DEF IInv, Sound, TypeOK, Replicas
<1>2. CASE i < r
  <2>1. flip_states[i] = 1 - parity
    BY <1>1, <1>2 DEF InLockstep, HasRun, Updated
  <2> QED
    BY <1>1, <1>2, <2>1 DEF flip_as_seen
<1>3. CASE ~(i < r)
  <2>1. Before(i)
    BY <1>1, <1>3 DEF InLockstep, HasRun, Running, Waits
  <2>2. flip_states[i] = parity \/ (flip_states[i] = 255 /\ parity = 1)
    BY <2>1 DEF Before, NOTEPAD_UNINITIALIZED
  <2> QED
    BY <1>1, <1>3, <2>2 DEF flip_as_seen
<1> QED
  BY <1>2, <1>3

(* So the vote on the flip bits is that parity (notepad.c:64-75).          *)
LEMMA FlipVote ==
    ASSUME IInv, Minority, NEW r \in Replicas, turn = r, ~updating,
           flip_states[r] # NOTEPAD_UNINITIALIZED
    PROVE  notepad_vote_flip(r) = parity
<1> DEFINE ones == {i \in Replicas : flip_as_seen(i, r) = 1}
<1>1. TypeOK /\ Few /\ parity \in {0, 1}
  BY DEF IInv, TypeOK
<1>2. \A i \in Sound : flip_as_seen(i, r) = parity
  BY SoundFlips
<1>3. ones \subseteq Replicas /\ Cardinality(ones) \in Nat
  BY ReplicasFinite
<1>4. CASE parity = 1
  <2>1. Sound \subseteq ones
    BY <1>1, <1>2, <1>4, SoundMajority
  <2>2. Cardinality(Sound) <= Cardinality(ones)
    BY <1>3, <2>1, ReplicasFinite, FS_Subset
  <2>3. Cardinality(ones) >= majority
    BY <1>1, <1>3, <2>2, SoundMajority
  <2> QED
    BY <1>4, <2>3 DEF notepad_vote_flip
<1>5. CASE parity = 0
  <2>1. ones \cap Sound = {}
    BY <1>2, <1>5
  <2>2. ~(Cardinality(ones) >= majority)
    BY <1>1, <1>3, <2>1, Overlap
  <2> QED
    BY <1>5, <2>2 DEF notepad_vote_flip
<1> QED
  BY <1>1, <1>4, <1>5

(* The region of that parity holds the group's state.                      *)
LEMMA BestVote ==
    ASSUME IInv, Minority
    PROVE  notepad_vote_best(parity) = [value |-> group, valid |-> TRUE, ran |-> TRUE]
<1>1. TypeOK /\ Few /\ parity \in {0, 1}
  BY DEF IInv, TypeOK
<1>2. Sound \subseteq Replicas /\ Cardinality(Sound) >= majority /\ majority \in Nat
      /\ Cardinality(Sound) \in Nat /\ majority >= 1
  BY <1>1, SoundMajority, ReplicasFinite
<1>3. \A i \in Sound : mutable_state[i][parity] = group
  BY DEF IInv, InLockstep
<1>4. Sound # {}
  BY <1>2, FS_EmptySet
<1>5. Sound \subseteq Nat
  BY <1>2, ReplicasFinite DEF Replicas
<1>6. PICK c0 \in Sound : \A d \in Sound : c0 <= d
  BY <1>4, <1>5, LeastNatural
<1>7. c0 \in Populating(parity)
  <2>1. Sound \subseteq Agreeing(c0, parity) /\ Agreeing(c0, parity) \subseteq Replicas
    BY <1>2, <1>3, <1>5, <1>6 DEF Agreeing
  <2>2. Cardinality(Agreeing(c0, parity)) >= majority
    <3>1. Cardinality(Sound) <= Cardinality(Agreeing(c0, parity))
      BY <2>1, ReplicasFinite, FS_Subset
    <3>2. Cardinality(Agreeing(c0, parity)) \in Nat
      BY <2>1, ReplicasFinite
    <3> QED
      BY <1>2, <3>1, <3>2
  <2>3. c0 \in 0..NumReplicas - majority
    <3>1. c0 \in Nat /\ c0 <= NumReplicas - 1
      BY <1>2, <1>5, <1>6, ReplicasFinite DEF Replicas
    <3>2. Sound \subseteq c0..(NumReplicas - 1)
      BY <1>2, <1>5, <1>6, <3>1, ReplicasFinite DEF Replicas
    <3>3. IsFiniteSet(c0..(NumReplicas - 1)) /\ Cardinality(c0..(NumReplicas - 1)) = NumReplicas - c0
      <4>1. c0 \in Int /\ NumReplicas - 1 \in Int /\ ~(c0 > NumReplicas - 1)
        BY <3>1, ReplicasFinite
      <4>2. IsFiniteSet(c0..(NumReplicas - 1)) /\ Cardinality(c0..(NumReplicas - 1)) = (NumReplicas - 1) - c0 + 1
        BY <4>1, FS_Interval
      <4> QED
        BY <3>1, <4>2, ReplicasFinite
    <3>4. Cardinality(Sound) <= NumReplicas - c0
      BY <3>2, <3>3, FS_Subset
    <3> QED
      BY <1>2, <3>1, <3>4, ReplicasFinite
  <2> QED
    BY <2>2, <2>3 DEF Populating
<1>8. Populating(parity) \subseteq Nat
  BY <1>2, ReplicasFinite DEF Populating
<1> DEFINE c == CHOOSE c \in Populating(parity) : \A d \in Populating(parity) : c <= d
<1>9. c \in Populating(parity)
  <2>1. \E x \in Populating(parity) : \A d \in Populating(parity) : x <= d
    BY <1>7, <1>8, LeastNatural
  <2> QED
    BY <2>1
<1>10. mutable_state[c][parity] = group
  <2> HIDE DEF c
  <2>1. Cardinality(Agreeing(c, parity)) >= majority /\ Agreeing(c, parity) \subseteq Replicas
    BY <1>9 DEF Populating, Agreeing
  <2>2. Agreeing(c, parity) \cap Sound # {}
    BY <1>1, <2>1, Overlap
  <2> QED
    BY <1>3, <2>2 DEF Agreeing
<1>11. parity # NOTEPAD_UNINITIALIZED /\ Populating(parity) # {}
  BY <1>1, <1>7 DEF NOTEPAD_UNINITIALIZED
<1> QED
  BY <1>10, <1>11 DEF notepad_vote_best

(* So a replica that is not blank is handed the group's state, and to put  *)
(* it in the other region.                                                 *)
LEMMA Handed ==
    ASSUME IInv, Minority, NEW r \in Replicas, turn = r, ~updating,
           flip_states[r] # NOTEPAD_UNINITIALIZED
    PROVE  /\ notepad_vote_best(notepad_vote_flip(r)) = [value |-> group, valid |-> TRUE, ran |-> TRUE]
           /\ flip_write(r) = 1 - parity
<1>1. notepad_vote_flip(r) = parity /\ parity \in {0, 1}
  BY FlipVote DEF IInv, TypeOK
<1> QED
  BY <1>1, BestVote DEF flip_write

(* A sound one in its turn is, even if it is blank.                        *)
LEMMA SoundHanded ==
    ASSUME IInv, Minority, NEW r \in Sound, turn = r, ~updating
    PROVE  /\ notepad_vote_best(notepad_vote_flip(r)).value = group
           /\ flip_write(r) = 1 - parity
<1>1. r \in Replicas /\ InLockstep(r) /\ r \in Int
  BY ReplicasFinite DEF IInv, Sound, Replicas
<1>2. CASE flip_states[r] # NOTEPAD_UNINITIALIZED
  BY <1>1, <1>2, Handed
<1>3. CASE flip_states[r] = NOTEPAD_UNINITIALIZED
  <2>1. Before(r)
    BY <1>1 DEF InLockstep, Waits, HasRun, Running
  <2>2. parity = 1 /\ group = Zeroed
    BY <1>3, <2>1 DEF Before, IInv, TypeOK, NOTEPAD_UNINITIALIZED
  <2>3. notepad_vote_flip(r) = NOTEPAD_UNINITIALIZED
    BY <1>3 DEF notepad_vote_flip
  <2> QED
    BY <2>2, <2>3 DEF notepad_vote_best, flip_write, NOTEPAD_UNINITIALIZED
<1> QED
  BY <1>2, <1>3

-----------------------------------------------------------------------------
(* Type correctness.                                                       *)

(* What the provers need to know of each variable and constant.            *)
LEMMA Types ==
    ASSUME TypeOK
    PROVE  /\ parity \in {0, 1} /\ 1 - parity \in {0, 1} /\ group \in State
           /\ Zeroed \in State /\ Compute(group, input) \in State
           /\ turn \in Nat /\ NumReplicas \in Nat /\ Replicas \subseteq Nat
BY NotepadAssumption, ReplicasFinite DEF TypeOK, Replicas

(* Initially every replica's memory is of its type.                        *)
LEMMA InitTypeOK == Init => TypeOK
<1> SUFFICES ASSUME Init PROVE TypeOK
  OBVIOUS
<1>1. Zeroed \in State /\ NumReplicas \in Nat
  BY NotepadAssumption
<1>2. flip_states \in [Replicas -> FlipByte]
  BY DEF Init, FlipByte
<1>3. mutable_state \in [Replicas -> [{0, 1} -> State]]
  BY <1>1 DEF Init
<1>4. read \in [Replicas -> [value: State, valid: BOOLEAN, ran: BOOLEAN]]
  BY <1>1 DEF Init, NotRun
<1>5. turn \in 0..NumReplicas /\ parity \in {0, 1} /\ quiet \in 0..QuietBound
  BY <1>1 DEF Init, QuietBound
<1>6. updating \in BOOLEAN
  BY DEF Init
<1> QED
  BY <1>1, <1>2, <1>3, <1>4, <1>5, <1>6 DEF Init, TypeOK

(* What is handed to a replica is a state.                                 *)
LEMMA VoteType ==
    ASSUME TypeOK, NEW r \in Replicas
    PROVE  /\ notepad_vote_best(notepad_vote_flip(r)) \in [value: State, valid: BOOLEAN, ran: BOOLEAN]
           /\ flip_write(r) \in {0, 1}
           /\ notepad_vote_best(notepad_vote_flip(r)).ran
<1>1. notepad_vote_flip(r) \in {0, 1, NOTEPAD_UNINITIALIZED}
  BY DEF notepad_vote_flip
<1>2. ASSUME NEW f \in {0, 1}, Populating(f) # {}
      PROVE  mutable_state[CHOOSE c \in Populating(f) : \A d \in Populating(f) : c <= d][f] \in State
  <2>1. majority \in Nat /\ majority >= 1
    BY ReplicasFinite DEF majority
  <2>2. Populating(f) \subseteq Nat /\ Populating(f) \subseteq Replicas
    BY <2>1, ReplicasFinite DEF Populating, Replicas
  <2>3. \E x \in Populating(f) : \A d \in Populating(f) : x <= d
    BY <1>2, <2>2, LeastNatural
  <2>4. (CHOOSE c \in Populating(f) : \A d \in Populating(f) : c <= d) \in Replicas
    BY <2>2, <2>3
  <2> QED
    BY <2>4 DEF TypeOK
<1>3. Zeroed \in State
  BY NotepadAssumption
<1> QED
  BY <1>1, <1>2, <1>3 DEF notepad_vote_best, flip_write

(* And every step keeps it so.                                             *)
LEMMA NextTypeOK == TypeOK /\ [Next]_vars => TypeOK'
<1> SUFFICES ASSUME TypeOK, [Next]_vars PROVE TypeOK'
  OBVIOUS
<1>0. NumReplicas \in Nat /\ Replicas \subseteq Nat
  BY Types
<1>1. ASSUME NEW r \in Replicas, notepad_feedforward(r)
      PROVE  TypeOK'
  <2>1. /\ flip_write(r) \in {0, 1}
        /\ notepad_vote_best(notepad_vote_flip(r)) \in [value: State, valid: BOOLEAN, ran: BOOLEAN]
        /\ notepad_vote_best(notepad_vote_flip(r)).value \in State
    BY VoteType
  <2> DEFINE got == notepad_vote_best(notepad_vote_flip(r))
             w == flip_write(r)
  <2>2. /\ mutable_state' = [mutable_state EXCEPT ![r][w] = got.value]
        /\ flip_states' = [flip_states EXCEPT ![r] = w]
        /\ read' = [read EXCEPT ![r] = got]
        /\ updating' = TRUE
        /\ UNCHANGED <<turn, input, faulty, ghosts>>
    BY <1>1 DEF notepad_feedforward
  <2> HIDE DEF got, w
  <2>3. got \in [value: State, valid: BOOLEAN, ran: BOOLEAN] /\ got.value \in State /\ w \in {0, 1}
    BY <2>1 DEF got, w
  <2>4. mutable_state' \in [Replicas -> [{0, 1} -> State]]
    BY <2>2, <2>3 DEF TypeOK
  <2>5. flip_states' \in [Replicas -> FlipByte]
    BY <2>2, <2>3 DEF TypeOK, FlipByte
  <2>6. read' \in [Replicas -> [value: State, valid: BOOLEAN, ran: BOOLEAN]]
    BY <2>2, <2>3 DEF TypeOK
  <2> QED
    BY <2>2, <2>4, <2>5, <2>6 DEF TypeOK, ghosts
<1>2. ASSUME NEW r \in Replicas, Update(r)
      PROVE  TypeOK'
  <2>1. mutable_state' \in [Replicas -> [{0, 1} -> State]]
    <3>1. \A v \in State : Compute(v, input) \in State
      BY NotepadAssumption DEF TypeOK
    <3> DEFINE f == flip_states[r]
    <3>2. mutable_state' = [mutable_state EXCEPT ![r][f] = Compute(mutable_state[r][f], input)]
      BY <1>2 DEF Update
    <3> HIDE DEF f
    <3>3. f \in {0, 1} => Compute(mutable_state[r][f], input) \in State
      BY <3>1 DEF TypeOK
    <3> QED
      BY <3>2, <3>3 DEF TypeOK
  <2>2. turn' \in 0..NumReplicas
    BY <1>0, <1>2 DEF Update, Replicas, TypeOK
  <2> QED
    BY <1>2, <2>1, <2>2 DEF Update, TypeOK, ghosts
<1>3. ASSUME NEW r \in Replicas, Corrupt(r)
      PROVE  TypeOK'
  BY <1>3 DEF Corrupt, TypeOK, ghosts
<1>4. CASE Cut
  <2>1. turn' \in 0..NumReplicas /\ turn \in Replicas
    BY <1>0, <1>4 DEF Cut, TypeOK, Replicas
  <2> QED
    BY <1>4, <2>1 DEF Cut, TypeOK, memory, ghosts
<1>5. CASE NewCycle
  <2>1. group' \in State /\ parity' \in {0, 1}
    BY <1>5, Types DEF NewCycle
  <2>2. quiet' \in 0..QuietBound
    BY <1>5 DEF NewCycle, TypeOK, QuietBound
  <2>3. read' \in [Replicas -> [value: State, valid: BOOLEAN, ran: BOOLEAN]]
    BY <1>5, NotepadAssumption DEF NewCycle, NotRun
  <2>4. turn' \in 0..NumReplicas /\ lagging' \subseteq Replicas /\ faulty' \subseteq Replicas
    BY <1>0, <1>5 DEF NewCycle
  <2> QED
    BY <1>5, <2>1, <2>2, <2>3, <2>4 DEF NewCycle, TypeOK, memory
<1>6. CASE UNCHANGED vars
  BY <1>6 DEF vars, memory, ghosts, TypeOK
<1> QED
  BY <1>1, <1>2, <1>3, <1>4, <1>5, <1>6 DEF Next

(* Everything a replica keeps, hands on or is handed stays of its type.    *)
THEOREM TypeCorrect == Spec => []TypeOK
<1> QED
  BY InitTypeOK, NextTypeOK, PTL DEF Spec

-----------------------------------------------------------------------------
(* The inductive invariant, step by step.                                  *)

(* Initially every replica is in step with the others.                     *)
LEMMA InitIInv == Minority /\ Init => IInv
<1> SUFFICES ASSUME Minority, Init PROVE IInv
  OBVIOUS
<1>1. TypeOK
  BY InitTypeOK
<1>2. Few
  BY FS_EmptySet, NotepadAssumption DEF Init, Few
<1>3. ASSUME NEW r \in Replicas PROVE InLockstep(r) /\ Recovering(r)
  <2>1. Waits(r) /\ ~HasRun(r) /\ ~Running(r)
    BY <1>1, <1>3, Types DEF Init, Waits, HasRun, Running, Replicas
  <2>2. mutable_state[r][parity] = group /\ ~(quiet >= 1) /\ ~read[r].ran
    BY <1>3 DEF Init, Minority, NotRun
  <2>3. flip_states[r] = NOTEPAD_UNINITIALIZED /\ parity = 1 /\ group = Zeroed
    BY <1>3 DEF Init, Minority
  <2> QED
    BY <2>1, <2>2, <2>3 DEF InLockstep, Recovering, Before, Obedient
<1> QED
  BY <1>1, <1>2, <1>3 DEF IInv, Init, Sound

(* The replica in its turn copies what the vote returns.                   *)
LEMMA CopyStep ==
    ASSUME IInv, Minority, NEW r \in Replicas, notepad_feedforward(r)
    PROVE  IInv'
<1> DEFINE got == notepad_vote_best(notepad_vote_flip(r))
           w == flip_write(r)
<1>1. TypeOK /\ TypeOK'
  BY NextTypeOK DEF IInv, Next
<1>2. /\ turn = r /\ ~updating /\ updating' = TRUE
      /\ mutable_state' = [mutable_state EXCEPT ![r][w] = got.value]
      /\ flip_states' = [flip_states EXCEPT ![r] = w]
      /\ read' = [read EXCEPT ![r] = got]
  BY DEF notepad_feedforward
<1>3. UNCHANGED <<turn, input, faulty, group, parity, lagging, quiet>>
  BY DEF notepad_feedforward, ghosts
<1>4. r \in Sound => got.value = group /\ w = 1 - parity
  BY <1>2, SoundHanded
<1>5. flip_states[r] # NOTEPAD_UNINITIALIZED => got.value = group /\ w = 1 - parity
  BY <1>2, Handed
<1>6. w \in {0, 1} /\ parity \in {0, 1}
  BY <1>1, VoteType, Types
<1> HIDE DEF got, w
<1>7. flip_states'[r] = w /\ mutable_state'[r][w] = got.value /\ read'[r] = got
  BY <1>1, <1>2, <1>6 DEF TypeOK
<1>8. w = 1 - parity => mutable_state'[r][parity] = mutable_state[r][parity]
  BY <1>1, <1>2, <1>6 DEF TypeOK
<1>9. \A q \in Replicas : q # r =>
          flip_states'[q] = flip_states[q] /\ mutable_state'[q] = mutable_state[q] /\ read'[q] = read[q]
  BY <1>1, <1>2, <1>6 DEF TypeOK
<1>10. \A q \in Replicas : q # r =>
          /\ HasRun(q)' = HasRun(q) /\ Running(q)' = FALSE /\ Running(q) = FALSE
          /\ Waits(q)' = Waits(q)
  BY <1>2, <1>3 DEF HasRun, Running, Waits
<1>11. Running(r)' = TRUE /\ HasRun(r)' = FALSE /\ Waits(r)' = FALSE
  BY <1>1, <1>2, <1>3, Types DEF HasRun, Running, Waits, Replicas
<1>12. ASSUME NEW q \in Sound' PROVE InLockstep(q)'
  <2>1. q \in Sound /\ q \in Replicas /\ InLockstep(q)
    BY <1>3 DEF Sound, IInv
  <2>2. CASE q = r
    BY <1>3, <1>4, <1>6, <1>7, <1>8, <1>11, <2>1, <2>2 DEF InLockstep, Copied, Obedient
  <2>3. CASE q # r
    <3>1. Before(q) => Before(q)'
      BY <1>3, <1>9, <2>1, <2>3 DEF Before
    <3>2. Updated(q) => Updated(q)'
      BY <1>3, <1>9, <2>1, <2>3 DEF Updated
    <3> QED
      BY <1>3, <1>9, <1>10, <2>1, <2>3, <3>1, <3>2 DEF InLockstep, Obedient
  <2> QED
    BY <2>2, <2>3
<1>13. ASSUME NEW q \in Replicas \ faulty' PROVE Recovering(q)'
  <2>1. q \in Replicas /\ Recovering(q)
    BY <1>3 DEF IInv
  <2>2. CASE q = r
    <3>1. flip_states'[r] # NOTEPAD_UNINITIALIZED
      BY <1>6, <1>7 DEF NOTEPAD_UNINITIALIZED
    <3>2. quiet >= 1 => Copied(r)'
      BY <1>3, <1>5, <1>7, <2>1, <2>2 DEF Recovering, Copied
    <3> QED
      BY <1>3, <1>11, <2>2, <3>1, <3>2 DEF Recovering
  <2>3. CASE q # r
    <3>1. Updated(q) => Updated(q)'
      BY <1>3, <1>9, <2>1, <2>3 DEF Updated
    <3> QED
      BY <1>3, <1>9, <1>10, <2>1, <2>3, <3>1 DEF Recovering
  <2> QED
    BY <2>2, <2>3
<1> QED
  BY <1>1, <1>2, <1>3, <1>12, <1>13 DEF IInv, Few

(* The component updates the copy in place.                                *)
LEMMA UpdateStep ==
    ASSUME IInv, Minority, NEW r \in Replicas, Update(r)
    PROVE  IInv'
<1> DEFINE f == flip_states[r]
<1>1. TypeOK /\ TypeOK'
  BY NextTypeOK DEF IInv, Next
<1>2. /\ turn = r /\ updating /\ updating' = FALSE /\ turn' = turn + 1
      /\ mutable_state' = [mutable_state EXCEPT ![r][f] = Compute(mutable_state[r][f], input)]
  BY DEF Update
<1>3. UNCHANGED <<flip_states, input, read, faulty, group, parity, lagging, quiet>>
  BY DEF Update, ghosts
<1>4. turn \in Nat /\ parity \in {0, 1} /\ Replicas \subseteq Nat
  BY <1>1, Types
<1>5. Copied(r) => Updated(r)' /\ mutable_state'[r][parity] = mutable_state[r][parity]
  <2> SUFFICES ASSUME Copied(r)
               PROVE  Updated(r)' /\ mutable_state'[r][parity] = mutable_state[r][parity]
    OBVIOUS
  <2>1. f = 1 - parity /\ f \in {0, 1} /\ f # parity /\ mutable_state[r][f] = group
    BY <1>4 DEF Copied
  <2> HIDE DEF f
  <2>2. mutable_state'[r][f] = Compute(group, input) /\ mutable_state'[r][parity] = mutable_state[r][parity]
    BY <1>1, <1>2, <1>4, <2>1 DEF TypeOK
  <2> QED
    BY <1>3, <2>1, <2>2 DEF Updated, Copied
<1>6. \A q \in Replicas : q # r => mutable_state'[q] = mutable_state[q]
  <2> HIDE DEF f
  <2> QED
    BY <1>1, <1>2 DEF TypeOK
<1>7. \A q \in Replicas : q # r =>
          /\ HasRun(q)' = HasRun(q) /\ Running(q)' = FALSE /\ Running(q) = FALSE
          /\ Waits(q)' = Waits(q)
  BY <1>2, <1>3, <1>4 DEF HasRun, Running, Waits
<1>8. HasRun(r)' = TRUE /\ Running(r)' = FALSE /\ Waits(r)' = FALSE /\ Running(r) = TRUE
  BY <1>2, <1>4 DEF HasRun, Running, Waits
<1>9. ASSUME NEW q \in Sound' PROVE InLockstep(q)'
  <2>1. q \in Sound /\ q \in Replicas /\ InLockstep(q)
    BY <1>3 DEF Sound, IInv
  <2>2. CASE q = r
    BY <1>3, <1>5, <1>8, <2>1, <2>2 DEF InLockstep, Obedient
  <2>3. CASE q # r
    <3>1. (Before(q) => Before(q)') /\ (Updated(q) => Updated(q)')
      BY <1>3, <1>6, <2>1, <2>3 DEF Before, Updated
    <3> QED
      BY <1>3, <1>6, <1>7, <2>1, <2>3, <3>1 DEF InLockstep, Obedient
  <2> QED
    BY <2>2, <2>3
<1>10. ASSUME NEW q \in Replicas \ faulty' PROVE Recovering(q)'
  <2>1. q \in Replicas /\ Recovering(q)
    BY <1>3 DEF IInv
  <2>2. CASE q = r
    BY <1>3, <1>5, <1>8, <2>1, <2>2 DEF Recovering
  <2>3. CASE q # r
    <3>1. Updated(q) => Updated(q)'
      BY <1>3, <1>6, <2>1, <2>3 DEF Updated
    <3> QED
      BY <1>3, <1>6, <1>7, <2>1, <2>3, <3>1 DEF Recovering
  <2> QED
    BY <2>2, <2>3
<1> QED
  BY <1>1, <1>2, <1>3, <1>9, <1>10 DEF IInv, Few

(* A replica whose memory is damaged is no longer among the sound.         *)
LEMMA CorruptStep ==
    ASSUME IInv, Minority, NEW r \in Replicas, Corrupt(r)
    PROVE  IInv'
<1>1. TypeOK /\ TypeOK'
  BY NextTypeOK DEF IInv, Next
<1>2. /\ ~updating /\ faulty' = faulty \cup {r}
      /\ UNCHANGED <<turn, updating, input, read, group, parity, lagging, quiet>>
  BY DEF Corrupt, ghosts
<1>3. \A q \in Replicas : q # r =>
          flip_states'[q] = flip_states[q] /\ mutable_state'[q] = mutable_state[q] /\ read'[q] = read[q]
  BY <1>1 DEF Corrupt, TypeOK
<1>4. Few'
  <2>1. faulty' \cup lagging' = faulty \cup lagging \cup {r}
    BY <1>2
  <2> QED
    BY <2>1 DEF Corrupt, MayFault, Few
<1>5. \A q \in Replicas : HasRun(q)' = HasRun(q) /\ Running(q)' = Running(q) /\ Waits(q)' = Waits(q)
  BY <1>2 DEF HasRun, Running, Waits
<1>6. ASSUME NEW q \in Replicas, q # r
      PROVE  /\ Before(q) => Before(q)'
             /\ Copied(q) => Copied(q)'
             /\ Updated(q) => Updated(q)'
             /\ Obedient(q) => Obedient(q)'
  BY <1>2, <1>3, <1>6 DEF Before, Copied, Updated, Obedient
<1>7. ASSUME NEW q \in Sound' PROVE InLockstep(q)'
  <2>1. q \in Sound /\ q \in Replicas /\ q # r /\ InLockstep(q)
    BY <1>2 DEF Sound, IInv
  <2> QED
    BY <1>2, <1>3, <1>5, <1>6, <2>1 DEF InLockstep
<1>8. ASSUME NEW q \in Replicas \ faulty' PROVE Recovering(q)'
  <2>1. q \in Replicas /\ q # r /\ Recovering(q)
    BY <1>2 DEF IInv
  <2> QED
    BY <1>2, <1>3, <1>5, <1>6, <2>1 DEF Recovering
<1> QED
  BY <1>1, <1>2, <1>4, <1>7, <1>8 DEF IInv

(* Nor is one that is cut short, before its copy or before its update.     *)
LEMMA CutStep ==
    ASSUME IInv, Minority, Cut
    PROVE  IInv'
<1>1. TypeOK /\ TypeOK'
  BY NextTypeOK DEF IInv, Next
<1>2. /\ turn' = turn + 1 /\ updating' = FALSE /\ faulty' = faulty \cup {turn}
      /\ UNCHANGED <<flip_states, mutable_state, input, read, group, parity, lagging, quiet>>
  BY DEF Cut, memory, ghosts
<1>3. Few'
  <2>1. faulty' \cup lagging' = faulty \cup lagging \cup {turn}
    BY <1>2
  <2> QED
    BY <2>1 DEF Cut, MayFault, Few
<1>4. turn \in Nat /\ Replicas \subseteq Nat
  BY <1>1, Types
<1>5. \A q \in Replicas : q # turn =>
          /\ HasRun(q)' = HasRun(q) /\ Running(q)' = FALSE /\ Running(q) = FALSE
          /\ Waits(q)' = Waits(q)
  BY <1>2, <1>4 DEF HasRun, Running, Waits
<1>6. ASSUME NEW q \in Replicas
      PROVE  Before(q)' = Before(q) /\ Updated(q)' = Updated(q) /\ Obedient(q)' = Obedient(q)
  BY <1>2 DEF Before, Updated, Obedient
<1>7. ASSUME NEW q \in Sound' PROVE InLockstep(q)'
  <2>1. q \in Sound /\ q \in Replicas /\ q # turn /\ InLockstep(q)
    BY <1>2 DEF Sound, IInv
  <2> QED
    BY <1>2, <1>5, <1>6, <2>1 DEF InLockstep
<1>8. ASSUME NEW q \in Replicas \ faulty' PROVE Recovering(q)'
  <2>1. q \in Replicas /\ q # turn /\ Recovering(q)
    BY <1>2 DEF IInv
  <2> QED
    BY <1>2, <1>5, <1>6, <2>1 DEF Recovering
<1> QED
  BY <1>1, <1>2, <1>3, <1>7, <1>8 DEF IInv

(* At the end of a cycle those that are sound are in step, and after two   *)
(* quiet cycles all are.                                                   *)
LEMMA CycleStep ==
    ASSUME IInv, Minority, NewCycle
    PROVE  IInv'
<1>1. TypeOK /\ TypeOK'
  BY NextTypeOK DEF IInv, Next
<1>2. /\ turn = NumReplicas /\ turn' = 0 /\ updating' = updating /\ faulty' = {}
      /\ group' = Compute(group, input) /\ parity' = 1 - parity
      /\ lagging' = {r \in Replicas : OutOfStep(r)}
      /\ read' = [r \in Replicas |-> NotRun]
      /\ UNCHANGED <<flip_states, mutable_state>>
  BY DEF NewCycle, memory
<1>3. /\ quiet \in Nat
      /\ quiet' >= 1 => faulty = {}
      /\ quiet' >= 2 => quiet >= 1
  <2>1. quiet' = IF faulty # {} THEN 0 ELSE IF quiet < QuietBound THEN quiet + 1 ELSE quiet
    BY DEF NewCycle
  <2>2. quiet \in Nat
    BY <1>1 DEF TypeOK, QuietBound
  <2> QED
    BY <2>1, <2>2 DEF QuietBound
<1>4. ~updating /\ \A q \in Replicas : HasRun(q) /\ ~Running(q)
  BY <1>1, <1>2, Types DEF IInv, Replicas, HasRun, Running
<1>5. \A q \in Replicas : ~HasRun(q)' /\ ~Running(q)'
  BY <1>1, <1>2, <1>4, Types DEF HasRun, Running
<1>6. ASSUME NEW q \in Replicas, Updated(q)
      PROVE  ~OutOfStep(q)
  BY <1>2, <1>6 DEF Updated, OutOfStep
<1>7. Few'
  <2>1. lagging' \subseteq faulty \cup lagging
    <3>1. \A q \in Sound : Updated(q)
      BY <1>4 DEF IInv, InLockstep, Sound
    <3> QED
      BY <1>2, <1>6, <3>1 DEF Sound
  <2>2. faulty' \cup lagging' \subseteq faulty \cup lagging /\ faulty \cup lagging \subseteq Replicas
    BY <1>1, <1>2, <2>1 DEF TypeOK
  <2>3. Cardinality(faulty' \cup lagging') <= Cardinality(faulty \cup lagging)
    BY <2>2, ReplicasFinite, FS_Subset
  <2>4. Cardinality(faulty' \cup lagging') \in Nat /\ Cardinality(faulty \cup lagging) \in Nat
    BY <2>2, ReplicasFinite
  <2> QED
    BY <2>3, <2>4, NotepadAssumption, ReplicasFinite DEF IInv, Few
<1>8. ASSUME NEW q \in Sound' PROVE InLockstep(q)'
  <2>1. q \in Replicas /\ ~OutOfStep(q)
    BY <1>2 DEF Sound
  <2>2. flip_states'[q] = parity' /\ mutable_state'[q][parity'] = group'
    BY <1>2, <2>1 DEF OutOfStep
  <2>3. ~read'[q].ran
    BY <1>2, <2>1 DEF NotRun
  <2> QED
    BY <1>5, <2>1, <2>2, <2>3 DEF InLockstep, Before, Obedient
<1>9. ASSUME NEW q \in Replicas \ faulty' PROVE Recovering(q)'
  <2>1. quiet' >= 1 => flip_states'[q] # NOTEPAD_UNINITIALIZED
    BY <1>2, <1>3, <1>4 DEF IInv, Recovering
  <2> QED
    BY <1>5, <2>1 DEF Recovering
<1>10. quiet' >= 2 => lagging' = {}
  <2> SUFFICES ASSUME quiet' >= 2 PROVE lagging' = {}
    OBVIOUS
  <2>1. quiet >= 1 /\ faulty = {}
    <3>1. quiet' \in Nat
      BY <1>1 DEF TypeOK, QuietBound
    <3> QED
      BY <1>3, <3>1
  <2>2. \A q \in Replicas : Updated(q)
    BY <1>4, <2>1 DEF IInv, Recovering
  <2> QED
    BY <1>2, <1>6, <2>2
<1> QED
  BY <1>1, <1>2, <1>4, <1>7, <1>8, <1>9, <1>10 DEF IInv

(* Every step is one of those.                                             *)
LEMMA NextIInv == Minority /\ IInv /\ [Next]_vars => IInv'
<1> SUFFICES ASSUME Minority, IInv, [Next]_vars PROVE IInv'
  OBVIOUS
<1>1. CASE UNCHANGED vars
  BY <1>1 DEF vars, memory, ghosts, IInv, TypeOK, Few, Sound, InLockstep, Recovering, Before, Copied,
              Updated, Obedient, HasRun, Running, Waits
<1> QED
  BY <1>1, CopyStep, UpdateStep, CorruptStep, CutStep, CycleStep DEF Next

(* So the invariant holds throughout.                                      *)
LEMMA Invariance ==
    ASSUME Minority
    PROVE  Spec => []IInv
<1>1. Init => IInv
  BY InitIInv
<1>2. IInv /\ [Next]_vars => IInv'
  BY NextIInv
<1> QED
  BY <1>1, <1>2, PTL DEF Spec

-----------------------------------------------------------------------------
(* While less than half of the replicas are cut, damaged or out of step,   *)
(* every other one is handed, in every cycle, exactly the state that a     *)
(* component without faults would have (notepad.c:64-108).                 *)
THEOREM LockstepHolds ==
    ASSUME Minority
    PROVE  Spec => []Lockstep
<1>1. IInv => Lockstep
  BY DEF IInv, Sound, InLockstep, Obedient, Lockstep
<1> QED
  BY <1>1, Invariance, PTL

(* Under the same hypothesis notepad_feedforward says that the state is    *)
(* lost only to a replica whose flip byte is blank.                        *)
THEOREM InvalidOnlyIfBlankHolds ==
    ASSUME Minority
    PROVE  Spec => InvalidOnlyIfBlank
<1>1. ASSUME IInv, [Next]_vars, NEW r \in Replicas, read'[r].ran, ~read[r].ran, ~read'[r].valid
      PROVE  flip_states[r] = NOTEPAD_UNINITIALIZED
  <2> SUFFICES ASSUME flip_states[r] # NOTEPAD_UNINITIALIZED PROVE FALSE
    OBVIOUS
  <2> USE <1>1
  <2>1. CASE \E q \in Replicas : notepad_feedforward(q)
    <3>1. PICK q \in Replicas : notepad_feedforward(q)
      BY <2>1
    <3>2. q = r
      BY <3>1 DEF notepad_feedforward, IInv, TypeOK
    <3>3. notepad_vote_best(notepad_vote_flip(r)) = [value |-> group, valid |-> TRUE, ran |-> TRUE]
      BY <3>1, <3>2, Handed DEF notepad_feedforward
    <3>4. read'[r] = notepad_vote_best(notepad_vote_flip(r))
      BY <3>1, <3>2 DEF notepad_feedforward, IInv, TypeOK
    <3> QED
      BY <3>3, <3>4
  <2>2. CASE NewCycle
    BY <2>2 DEF NewCycle, NotRun
  <2>3. CASE UNCHANGED read
    BY <2>3
  <2> QED
    BY <2>1, <2>2, <2>3 DEF Next, Update, Corrupt, Cut, vars
<1>2. IInv /\ [Next]_vars =>
        [\A r \in Replicas :
          /\ read'[r].ran /\ ~read[r].ran /\ ~read'[r].valid
          /\ r \notin faulty
          => flip_states[r] = NOTEPAD_UNINITIALIZED]_vars
  BY <1>1
<1> QED
  BY <1>2, Invariance, PTL DEF Spec, InvalidOnlyIfBlank

(* And a replica that fell out of step is back after two quiet cycles.     *)
THEOREM ResynchronisesHolds ==
    ASSUME Minority
    PROVE  Spec => []Resynchronises
<1>1. IInv => Resynchronises
  BY DEF IInv, Resynchronises
<1> QED
  BY <1>1, Invariance, PTL

-----------------------------------------------------------------------------
(* Stabilisation, without any hypothesis on the faults.  In a cycle that   *)
(* follows a quiet one no flip byte is blank, so that every replica votes, *)
(* and each that ran counts for the vote it gave: the first vote is that   *)
(* of all.  All read one region and write the other.                       *)

Ran(r) == HasRun(r) \/ Running(r)

NoBlank == faulty = {} =>
    \A r \in Replicas : quiet >= 1 \/ Ran(r) => flip_states[r] \in {0, 1}

Ones == {i \in Replicas : (IF Ran(i) THEN 1 - flip_states[i] ELSE flip_states[i]) = 1}
Elected == IF Cardinality(Ones) >= majority THEN 1 ELSE 0

Given == notepad_vote_best(Elected).value

Unanimous == quiet >= 1 /\ faulty = {} =>
    \A r \in Replicas :
        /\ Ran(r) => flip_states[r] = 1 - Elected
        /\ Running(r) => mutable_state[r][1 - Elected] = Given
        /\ HasRun(r) => mutable_state[r][1 - Elected] = Compute(Given, input)

StableInv ==
    /\ TypeOK /\ (updating => turn \in Replicas)
    /\ NoBlank /\ Unanimous /\ SelfStabilises

Least(S) == CHOOSE c \in S : \A d \in S : c <= d

(* The vote on the states of a region depends on that region only.         *)
LEMMA BestKept ==
    ASSUME NEW f \in {0, 1}, \A i \in Replicas : mutable_state'[i][f] = mutable_state[i][f]
    PROVE  notepad_vote_best(f)' = notepad_vote_best(f)
<1>1. \A c \in 0..NumReplicas - majority : c \in Replicas
  BY ReplicasFinite DEF majority, Replicas
<1>2. \A c \in Replicas : Agreeing(c, f)' = Agreeing(c, f)
  BY DEF Agreeing
<1>3. Populating(f)' = Populating(f) /\ Populating(f) \subseteq Replicas
  BY <1>1, <1>2 DEF Populating
<1>4. \A c \in Populating(f) : c \in Nat
  BY <1>3, ReplicasFinite DEF Replicas
<1>5. Populating(f) # {} => Least(Populating(f)) \in Replicas
  <2>1. HAVE Populating(f) # {}
  <2>2. \E c \in Populating(f) : \A d \in Populating(f) : c <= d
    BY <1>4, <2>1, LeastNatural
  <2> QED
    BY <1>3, <2>2 DEF Least
<1>6. f # NOTEPAD_UNINITIALIZED
  BY DEF NOTEPAD_UNINITIALIZED
<1>7. notepad_vote_best(f) =
        IF Populating(f) = {} THEN [value |-> Zeroed, valid |-> FALSE, ran |-> TRUE]
        ELSE [value |-> mutable_state[Least(Populating(f))][f], valid |-> TRUE, ran |-> TRUE]
  BY <1>6 DEF notepad_vote_best, Least
<1>8. notepad_vote_best(f)' =
        IF Populating(f)' = {} THEN [value |-> Zeroed, valid |-> FALSE, ran |-> TRUE]
        ELSE [value |-> mutable_state'[Least(Populating(f)')][f], valid |-> TRUE, ran |-> TRUE]
  BY <1>6 DEF notepad_vote_best, Least
<1>9. CASE Populating(f) = {}
  BY <1>3, <1>7, <1>8, <1>9
<1>10. CASE Populating(f) # {}
  <2> DEFINE c == Least(Populating(f))
  <2>1. Least(Populating(f)') = c
    BY <1>3
  <2>2. c \in Replicas
    BY <1>5, <1>10
  <2>3. mutable_state'[c][f] = mutable_state[c][f]
    BY <2>2
  <2> QED
    BY <1>3, <1>7, <1>8, <1>10, <2>1, <2>3
<1> QED
  BY <1>9, <1>10

LEMMA ElectedBit == Elected \in {0, 1} /\ 1 - Elected \in {0, 1} /\ Elected # 1 - Elected
  BY DEF Elected

LEMMA VotesElected ==
    ASSUME StableInv, quiet >= 1, faulty = {}, NEW r \in Replicas, turn = r, ~updating
    PROVE  notepad_vote_flip(r) = Elected /\ flip_write(r) = 1 - Elected
<1>1. \A i \in Replicas : flip_states[i] \in {0, 1} /\ (Ran(i) <=> i < r)
  BY DEF StableInv, NoBlank, Ran, HasRun, Running
<1>2. \A i \in Replicas : flip_states[i] % 2 = flip_states[i]
  BY <1>1
<1>3. {i \in Replicas : flip_as_seen(i, r) = 1} = Ones
  BY <1>1, <1>2 DEF flip_as_seen, Ones
<1>4. flip_states[r] # NOTEPAD_UNINITIALIZED
  BY <1>1 DEF NOTEPAD_UNINITIALIZED
<1>5. notepad_vote_flip(r) = Elected
  BY <1>3, <1>4 DEF notepad_vote_flip, Elected
<1> QED
  BY <1>5, ElectedBit DEF flip_write

LEMMA InitStable == Init => StableInv
<1> SUFFICES ASSUME Init PROVE StableInv
  OBVIOUS
<1>1. TypeOK
  BY InitTypeOK
<1>2. turn = 0 /\ ~updating /\ quiet = 0 /\ \A r \in Replicas : ~Ran(r)
  BY ReplicasFinite DEF Init, Ran, HasRun, Running, Replicas
<1> QED
  BY <1>1, <1>2 DEF StableInv, NoBlank, Unanimous, SelfStabilises

LEMMA CopyStable ==
    ASSUME StableInv, NEW r \in Replicas, notepad_feedforward(r)
    PROVE  StableInv'
<1>1. TypeOK'
  BY NextTypeOK DEF Next, StableInv
<1> DEFINE got == notepad_vote_best(notepad_vote_flip(r))
           w == flip_write(r)
<1>2. /\ turn = r /\ ~updating /\ updating' = TRUE
      /\ mutable_state' = [mutable_state EXCEPT ![r][w] = got.value]
      /\ flip_states' = [flip_states EXCEPT ![r] = w]
      /\ UNCHANGED <<turn, input, faulty, group, parity, lagging, quiet>>
  BY DEF notepad_feedforward, ghosts
<1>3. w \in {0, 1}
  BY DEF flip_write
<1> HIDE DEF got, w
<1>4. /\ \A i \in Replicas \ {r} : /\ flip_states'[i] = flip_states[i]
                                  /\ mutable_state'[i] = mutable_state[i]
      /\ flip_states'[r] = w
      /\ mutable_state'[r][w] = got.value
      /\ \A f \in {0, 1} \ {w} : mutable_state'[r][f] = mutable_state[r][f]
  BY <1>2, <1>3 DEF StableInv, TypeOK
<1>5. /\ \A i \in Replicas \ {r} : Ran(i)' = Ran(i)
      /\ \A i \in Replicas : (HasRun(i)' <=> HasRun(i)) /\ (Running(i)' <=> i = r) /\ ~Running(i)
      /\ Ran(r)' /\ ~Ran(r) /\ ~HasRun(r)
  BY <1>2, ReplicasFinite DEF Ran, HasRun, Running, Replicas
<1>6. NoBlank'
  BY <1>2, <1>3, <1>4, <1>5 DEF StableInv, NoBlank
<1>7. SelfStabilises'
  BY <1>2 DEF SelfStabilises
<1>8. CASE quiet >= 1 /\ faulty = {}
  <2>1. notepad_vote_flip(r) = Elected /\ w = 1 - Elected /\ got = notepad_vote_best(Elected)
    BY <1>2, <1>8, VotesElected DEF w, got
  <2>2. \A i \in Replicas : mutable_state'[i][Elected] = mutable_state[i][Elected]
    BY <1>4, <2>1, ElectedBit
  <2>3. Elected' = Elected
    <3>1. Ones' \ {r} = Ones \ {r} /\ (r \in Ones' <=> Elected = 1)
      BY <1>4, <1>5, <2>1, ElectedBit DEF Ones
    <3>2. /\ Elected = 1 => Ones \subseteq Ones'
          /\ Elected = 0 => Ones' \subseteq Ones
      BY <3>1
    <3>3. /\ IsFiniteSet(Ones) /\ IsFiniteSet(Ones')
          /\ Cardinality(Ones) \in Nat /\ Cardinality(Ones') \in Nat
      <4>1. Ones \in SUBSET Replicas /\ Ones' \in SUBSET Replicas
        BY DEF Ones
      <4> QED
        BY <4>1, ReplicasFinite
    <3>4. /\ Elected = 1 => Cardinality(Ones) <= Cardinality(Ones')
          /\ Elected = 0 => Cardinality(Ones') <= Cardinality(Ones)
      BY <3>2, <3>3, FS_Subset
    <3>5. majority \in Nat
      BY ReplicasFinite DEF majority
    <3> QED
      BY <3>3, <3>4, <3>5 DEF Elected
  <2>4. Given' = Given
    <3>1. notepad_vote_best(Elected)' = notepad_vote_best(Elected)
      <4> DEFINE f == Elected
      <4>1. f \in {0, 1} /\ \A i \in Replicas : mutable_state'[i][f] = mutable_state[i][f]
        BY <2>2, ElectedBit
      <4>2. PICK x \in {0, 1} : x = Elected
        BY ElectedBit
      <4>3. notepad_vote_best(x)' = notepad_vote_best(x)
        BY <4>2, <2>2, BestKept
      <4> QED
        BY <2>3, <4>2, <4>3
    <3> QED
      BY <2>3, <3>1 DEF Given
  <2>5. Unanimous'
    BY <1>2, <1>4, <1>5, <1>8, <2>1, <2>3, <2>4 DEF StableInv, Unanimous, Given, Ran
  <2> QED
    BY <1>1, <1>2, <1>6, <1>7, <2>5 DEF StableInv
<1>9. CASE ~(quiet >= 1 /\ faulty = {})
  BY <1>1, <1>2, <1>6, <1>7, <1>9 DEF StableInv, Unanimous
<1> QED
  BY <1>8, <1>9

LEMMA UpdateStable ==
    ASSUME StableInv, NEW r \in Replicas, Update(r)
    PROVE  StableInv'
<1>1. TypeOK'
  BY NextTypeOK DEF Next, StableInv
<1> DEFINE w == flip_states[r]
           v == Compute(mutable_state[r][w], input)
<1>2. /\ turn = r /\ updating /\ turn' = turn + 1 /\ ~updating'
      /\ mutable_state' = [mutable_state EXCEPT ![r][w] = v]
      /\ UNCHANGED <<flip_states, input, faulty, group, parity, lagging, quiet>>
  BY DEF Update, ghosts
<1> HIDE DEF w, v
<1>3. r \in Nat /\ turn' # 0 /\ \A i \in Replicas : i \in Nat
  BY <1>2, ReplicasFinite DEF Replicas
<1>4. \A i \in Replicas : /\ (Ran(i)' <=> Ran(i)) /\ ~Running(i)'
                         /\ (HasRun(i)' <=> HasRun(i) \/ i = r)
                         /\ (Running(i) <=> i = r)
  BY <1>2, <1>3 DEF Ran, HasRun, Running
<1>5. NoBlank'
  BY <1>2, <1>4 DEF StableInv, NoBlank
<1>6. SelfStabilises'
  BY <1>3 DEF SelfStabilises
<1>7. CASE quiet >= 1 /\ faulty = {}
  <2>1. Ones' = Ones /\ Elected' = Elected
    BY <1>2, <1>4 DEF Ones, Elected
  <2>2. w = 1 - Elected /\ mutable_state[r][1 - Elected] = Given
    BY <1>2, <1>4, <1>7 DEF w, StableInv, Unanimous, Ran
  <2>3. v = Compute(Given, input)
    BY <2>2 DEF v
  <2>4. /\ mutable_state'[r][1 - Elected] = v
        /\ mutable_state'[r][Elected] = mutable_state[r][Elected]
        /\ \A i \in Replicas \ {r} : mutable_state'[i] = mutable_state[i]
    BY <1>2, <2>2, ElectedBit DEF StableInv, TypeOK
  <2>5. Given' = Given
    <3>1. PICK x \in {0, 1} : x = Elected
      BY ElectedBit
    <3>2. \A i \in Replicas : mutable_state'[i][x] = mutable_state[i][x]
      BY <2>4, <3>1
    <3>3. notepad_vote_best(x)' = notepad_vote_best(x)
      BY <3>2, BestKept
    <3> QED
      BY <2>1, <3>1, <3>3 DEF Given
  <2>6. Unanimous'
    BY <1>2, <1>4, <1>7, <2>1, <2>3, <2>4, <2>5 DEF StableInv, Unanimous, Ran
  <2> QED
    BY <1>1, <1>2, <1>5, <1>6, <2>6 DEF StableInv
<1>8. CASE ~(quiet >= 1 /\ faulty = {})
  BY <1>1, <1>2, <1>5, <1>6, <1>8 DEF StableInv, Unanimous
<1> QED
  BY <1>7, <1>8

(* A fault ends the quiet cycles.                                          *)
LEMMA FaultStable ==
    ASSUME StableInv, Cut \/ \E r \in Replicas : Corrupt(r)
    PROVE  StableInv'
<1>1. TypeOK'
  BY NextTypeOK DEF Next, StableInv
<1>2. faulty' # {}
  BY DEF Cut, Corrupt
<1>3. updating' => turn' \in Replicas
  BY DEF Cut, Corrupt, StableInv
<1> QED
  BY <1>1, <1>2, <1>3 DEF StableInv, NoBlank, Unanimous, SelfStabilises

LEMMA CycleStable ==
    ASSUME StableInv, NewCycle
    PROVE  StableInv'
<1>1. TypeOK'
  BY NextTypeOK DEF Next, StableInv
<1>2. /\ turn = NumReplicas /\ turn' = 0 /\ UNCHANGED <<flip_states, mutable_state, updating>>
      /\ quiet' = IF faulty # {} THEN 0 ELSE IF quiet < QuietBound THEN quiet + 1 ELSE quiet
  BY DEF NewCycle, memory
<1>3. \A i \in Replicas : HasRun(i) /\ Ran(i)
  BY <1>2, ReplicasFinite DEF HasRun, Ran, Replicas
<1>4. ~updating /\ ~updating'
  BY <1>2, ReplicasFinite DEF StableInv, Replicas
<1>5. \A i \in Replicas : ~HasRun(i)' /\ ~Running(i)' /\ ~Ran(i)'
  BY <1>2, <1>4, ReplicasFinite DEF HasRun, Running, Ran, Replicas
<1>6. quiet \in Nat /\ (quiet' >= 1 => faulty = {}) /\ (quiet' >= 2 => faulty = {} /\ quiet >= 1)
  BY <1>2 DEF StableInv, TypeOK, QuietBound
<1>7. NoBlank'
  BY <1>2, <1>3, <1>5, <1>6 DEF StableInv, NoBlank
<1>8. Unanimous'
  BY <1>5 DEF Unanimous, Ran
<1>9. SelfStabilises'
  <2>1. SUFFICES ASSUME quiet >= 1, faulty = {}
                 PROVE  \A r, q \in Replicas :
                          /\ flip_states[r] = flip_states[q] /\ flip_states[r] \in {0, 1}
                          /\ mutable_state[r][flip_states[r]] = mutable_state[q][flip_states[q]]
    BY <1>2, <1>6 DEF SelfStabilises
  <2>2. \A r \in Replicas : /\ flip_states[r] = 1 - Elected
                           /\ mutable_state[r][1 - Elected] = Compute(Given, input)
    BY <1>3, <2>1 DEF StableInv, Unanimous
  <2> QED
    BY <2>2, ElectedBit
<1> QED
  BY <1>1, <1>4, <1>7, <1>8, <1>9 DEF StableInv

(* From any contents of the memory, whatever the damage and whichever      *)
(* replicas are cut, even all of them: two cycles of notepad_feedforward   *)
(* without a fault make the replicas agree on flip byte and state.         *)
THEOREM SelfStabilisesHolds == Spec => []SelfStabilises
<1>1. StableInv /\ [Next]_vars => StableInv'
  <2> SUFFICES ASSUME StableInv, [Next]_vars PROVE StableInv'
    OBVIOUS
  <2>1. CASE \E r \in Replicas : notepad_feedforward(r)
    BY <2>1, CopyStable
  <2>2. CASE \E r \in Replicas : Update(r)
    BY <2>2, UpdateStable
  <2>3. CASE Cut \/ \E r \in Replicas : Corrupt(r)
    BY <2>3, FaultStable
  <2>4. CASE NewCycle
    BY <2>4, CycleStable
  <2>5. CASE UNCHANGED vars
    <3>1. UNCHANGED <<flip_states, mutable_state, turn, updating, input, read, faulty, group,
                      parity, lagging, quiet>>
      BY <2>5 DEF vars, memory, ghosts
    <3>2. /\ \A r \in Replicas : /\ HasRun(r)' = HasRun(r) /\ Running(r)' = Running(r)
                                /\ Ran(r)' = Ran(r)
          /\ Elected' = Elected
      BY <3>1 DEF HasRun, Running, Ran, Ones, Elected
    <3>3. Given' = Given
      <4>1. PICK x \in {0, 1} : x = Elected
        BY ElectedBit
      <4>2. notepad_vote_best(x)' = notepad_vote_best(x)
        BY <3>1, BestKept
      <4> QED
        BY <3>2, <4>1, <4>2 DEF Given
    <3>4. TypeOK' /\ NoBlank' /\ SelfStabilises'
      BY <3>1, <3>2 DEF StableInv, TypeOK, NoBlank, SelfStabilises
    <3>5. Unanimous'
      BY <3>1, <3>2, <3>3 DEF StableInv, Unanimous
    <3> QED
      BY <3>1, <3>4, <3>5 DEF StableInv
  <2> QED
    BY <2>1, <2>2, <2>3, <2>4, <2>5 DEF Next
<1>2. StableInv => SelfStabilises
  BY DEF StableInv
<1> QED
  BY <1>1, <1>2, InitStable, PTL DEF Spec
=============================================================================
