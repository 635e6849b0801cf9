------------------------------ MODULE MCExchange ------------------------------
(***************************************************************************)
(* Three instances of ExchangeLink: a link that loses nothing, with        *)
(* packets both ways and a reboot of the flight computer; one that loses   *)
(* nothing, but on which more symbols may arrive in a cycle than the       *)
(* receive limit admits, and are tossed; and one in which the flight side  *)
(* loses up to three receive cycles, under fairness.                       *)
(***************************************************************************)
EXTENDS ExchangeLink

VARIABLE instance

Lossy == INSTANCE ExchangeLink WITH
    BufferRuns <- 1, TxRoom <- 2, FwPackets <- 0, SimPackets <- 1,
    UpRoom <- 1, DownRoom <- 0, MaxLosses <- 3, MaxReboots <- 0

Bursts == INSTANCE ExchangeLink WITH
    BufferRuns <- 1, TxRoom <- 2, FwPackets <- 0, SimPackets <- 1,
    UpRoom <- 3, MaxReboots <- 0

MCInit ==
    \/ instance = "link" /\ Init
    \/ instance = "bursts" /\ Bursts!Init
    \/ instance = "lossy" /\ Lossy!Init

MCNext ==
    /\ \/ instance = "link" /\ Next
       \/ instance = "bursts" /\ Bursts!Next
       \/ instance = "lossy" /\ Lossy!Next
    /\ UNCHANGED instance

(* The fairness of FairSpec, for the lossy link.                           *)
IsLossy == instance = "lossy"

MCSpec ==
    /\ MCInit /\ [][MCNext]_<<vars, instance>>
    /\ WF_vars(IsLossy /\ Lossy!TxClip) /\ WF_vars(IsLossy /\ Lossy!RxClip)
    /\ SF_vars(IsLossy /\ Lossy!RxClip /\ uplink' = <<>>)
    /\ WF_vars(IsLossy /\ Lossy!SimReceive) /\ WF_vars(IsLossy /\ Lossy!SimWrite)
    /\ WF_vars(IsLossy /\ Lossy!SimDeliver)
    /\ SF_vars(IsLossy /\ Lossy!SimHeartbeat) /\ SF_vars(IsLossy /\ Lossy!SimPrimary)
    /\ SF_vars(IsLossy /\ Lossy!SimSecondary)

(* Without a loss the sides agree.                                         *)
MCSidesAgree == IsLossy \/ SidesAgree

(* A lost packet is noticed, by the keep-alive if by nothing else.         *)
MCLossNoticed ==
    IsLossy /\ exc.exc_state = "OPERATING" /\ exc.pkts_rcvd # ex.PktsSent
        ~> exc.exc_state # "OPERATING" \/ exc.pkts_rcvd = ex.PktsSent
=============================================================================
