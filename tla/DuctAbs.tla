------------------------------ MODULE DuctAbs -------------------------------
(***************************************************************************)
(* What a duct promises: a single-copy mailbox.  Every epoch one batch of  *)
(* at most Capacity messages is posted; each reader takes its messages in  *)
(* order, may give up at any point, and finishes only when nothing is      *)
(* left.  What was not taken when the next batch is posted is lost.        *)
(***************************************************************************)
EXTENDS Naturals, Sequences

CONSTANTS Readers, Data, Capacity

VARIABLES batch, taken, finished

Batches == UNION {[1..n -> Data] : n \in 0..Capacity}

Init ==
    /\ batch = <<>>
    /\ taken = [r \in Readers |-> <<>>]
    /\ finished \in {{}, Readers}

Post ==
    /\ batch' \in Batches
    /\ taken' = [r \in Readers |-> <<>>]
    /\ finished' = {}

Take(r) ==
    /\ r \notin finished
    /\ Len(taken[r]) < Len(batch)
    /\ taken' = [taken EXCEPT ![r] = Append(@, batch[Len(@) + 1])]
    /\ UNCHANGED <<batch, finished>>

Finish(r) ==
    /\ r \notin finished
    /\ taken[r] = batch
    /\ finished' = finished \cup {r}
    /\ UNCHANGED <<batch, taken>>

Next == Post \/ \E r \in Readers : Take(r) \/ Finish(r)

Spec == Init /\ [][Next]_<<batch, taken, finished>>
=============================================================================
