-------------------------------- MODULE MCDuct --------------------------------
(***************************************************************************)
(* Three instances of Duct, each under the faults that its properties      *)
(* bear, one of which is chosen at the start and then runs by itself:      *)
(* cuts, with two receivers and two messages in an epoch, over the         *)
(* variables of Duct; damage to the memory of one sender, and senders that *)
(* all diverge, over variables of their own.  Duct is instantiated with    *)
(* its theorems, which MCDuct_proofs cites.                                *)
(***************************************************************************)
EXTENDS Duct, TLC

CONSTANTS a, b

VARIABLES
    instance,   \* "cuts", "damage" or "divergence"
    flow_status2, message_buffer2, turn2, txn2, intent2, faulty2, got2, completed2,
    was_completed2, torn2

vars2 == <<flow_status2, message_buffer2, turn2, txn2, intent2, faulty2, got2, completed2,
           was_completed2, torn2>>

(* Names the instance over the variables of Duct.  It also matters to TLC, *)
(* which takes the constant definitions of Duct to be the same in all      *)
(* instances unless Duct itself is among the modules that are instantiated.*)
Cuts == INSTANCE Duct

Damage == INSTANCE Duct_proofs WITH
    ReceiverReplicas <- 1, MaxFlow <- 1, SenderFirst <- TRUE, WildWrites <- TRUE,
    flow_status <- flow_status2, message_buffer <- message_buffer2, turn <- turn2,
    txn <- txn2, intent <- intent2, faulty <- faulty2, got <- got2,
    completed <- completed2, was_completed <- was_completed2, torn <- torn2

Divergence == INSTANCE Duct_proofs WITH
    MaxFlow <- 1, SenderFirst <- TRUE, MaxFaulty <- SenderReplicas,
    flow_status <- flow_status2, message_buffer <- message_buffer2, turn <- turn2,
    txn <- txn2, intent <- intent2, faulty <- faulty2, got <- got2,
    completed <- completed2, was_completed <- was_completed2, torn <- torn2

MCMsg == {a, b}

(* Messages are only compared, and no property is a liveness property.     *)
MCSymmetry == Permutations(MCMsg)

MCInit ==
    /\ Init
    /\ \/ instance \in {"cuts", "divergence"} /\ Divergence!Init
       \/ instance = "damage" /\ Damage!Init

MCNext ==
    /\ UNCHANGED instance
    /\ \/ instance = "cuts" /\ Next /\ UNCHANGED vars2
       \/ instance = "damage" /\ Damage!Next /\ UNCHANGED vars
       \/ instance = "divergence" /\ Divergence!Next /\ UNCHANGED vars

MCSpec == MCInit /\ [][MCNext]_<<vars, vars2, instance>>

(* A receiver is handed what was intended in spite of damage to the row    *)
(* and the counts of one sender, at any time; and the receivers agree      *)
(* although all the senders may diverge or be cut.                         *)
FaultsTolerated ==
    /\ instance = "damage" => Damage!DeliversIntent
    /\ instance = "divergence" => Divergence!Agreement
=============================================================================
