---------------------------- MODULE MCDuct_proofs ----------------------------
(***************************************************************************)
(* The theorems of Duct at the two further instances of MCDuct, for any    *)
(* number of senders: damage to the memory of a minority of them, and      *)
(* divergence of them all.                                                 *)
(***************************************************************************)
EXTENDS MCDuct, TLAPS

-----------------------------------------------------------------------------
(* The instance that was chosen runs, and no other.                        *)

LEMMA DamageRuns == MCSpec => (instance = "damage" => Damage!Spec)
<1>1. MCInit => (instance = "damage" => Damage!Init)
  BY DEF MCInit
<1>2. instance = "damage" /\ [MCNext]_<<vars, vars2, instance>>
          => [Damage!Next]_(Damage!vars)
  BY DEF MCNext, vars2, Damage!vars
<1>3. [MCNext]_<<vars, vars2, instance>>
          => ((instance = "damage")' <=> instance = "damage")
  BY DEF MCNext
<1> QED
  BY <1>1, <1>2, <1>3, PTL DEF MCSpec, Damage!Spec

LEMMA DivergenceRuns == MCSpec => (instance = "divergence" => Divergence!Spec)
<1>1. MCInit => (instance = "divergence" => Divergence!Init)
  BY DEF MCInit
<1>2. instance = "divergence" /\ [MCNext]_<<vars, vars2, instance>>
          => [Divergence!Next]_(Divergence!vars)
  BY DEF MCNext, vars2, Divergence!vars
<1>3. [MCNext]_<<vars, vars2, instance>>
          => ((instance = "divergence")' <=> instance = "divergence")
  BY DEF MCNext
<1> QED
  BY <1>1, <1>2, <1>3, PTL DEF MCSpec, Divergence!Spec

LEMMA InstanceStays ==
    MCSpec => /\ ~(instance = "damage") => []~(instance = "damage")
              /\ ~(instance = "divergence") => []~(instance = "divergence")
<1>1. [MCNext]_<<vars, vars2, instance>>
          => /\ (instance = "damage")' <=> instance = "damage"
             /\ (instance = "divergence")' <=> instance = "divergence"
  BY DEF MCNext
<1> QED
  BY <1>1, PTL DEF MCSpec

-----------------------------------------------------------------------------
(* The constants of the instances are some that duct.h admits.             *)

LEMMA DamageAdmitted == Damage!DuctAssumption
<1>1. /\ 1 \in 1..4 /\ 1 \in 1..254 /\ TRUE \in BOOLEAN
      /\ SenderReplicas \in 1..4 /\ Malformed \notin Msg /\ MaxFaulty \in 0..SenderReplicas
  BY DuctAssumption
<1> QED
  BY <1>1 DEF Damage!DuctAssumption

LEMMA DivergenceAdmitted == Divergence!DuctAssumption
<1>1. /\ 1 \in 1..254 /\ TRUE \in BOOLEAN /\ SenderReplicas \in 0..SenderReplicas
      /\ SenderReplicas \in 1..4 /\ ReceiverReplicas \in 1..4 /\ Malformed \notin Msg
      /\ WildWrites \in BOOLEAN
  BY DuctAssumption
<1> QED
  BY <1>1 DEF Divergence!DuctAssumption

(* A receiver is handed what was intended although the rows of a minority  *)
(* of the senders are overwritten at any time (the vote of                *)
(* duct_receive_message); and the receivers agree although every sender    *)
(* diverges or is cut.                                                     *)
THEOREM ToleratesFaults ==
    ASSUME HealthyMajority, ~WildWrites
    PROVE  MCSpec => []FaultsTolerated
<1>1. Damage!HealthyMajority
  BY DEF HealthyMajority, Damage!HealthyMajority, majority_threshold, Damage!majority_threshold
<1>2. Damage!Spec => []Damage!DeliversIntent
  BY <1>1, DamageAdmitted, Damage!Delivery
<1>3. Divergence!Spec => []Divergence!Agreement
  BY DivergenceAdmitted, Divergence!ReceiversAgree
<1> QED
  BY <1>2, <1>3, DamageRuns, DivergenceRuns, InstanceStays, PTL DEF FaultsTolerated
=============================================================================
