---------------------------- MODULE MCRadioUplink ----------------------------
(***************************************************************************)
(* Two instances of RadioUplink: a short stream with late replies and a    *)
(* reboot at any point, and a long one without either, in which the halves *)
(* of the radio's memory are filled, read and handed back several times.   *)
(***************************************************************************)
EXTENDS RadioUplink

VARIABLE instance

Long == INSTANCE RadioUplink WITH
    Half <- 10, MaxBytes <- 30, MaxLate <- 0, MaxStalls <- 2, MaxReboots <- 0

MCInit ==
    \/ instance = "faulty" /\ Init
    \/ instance = "long" /\ Long!Init

MCNext ==
    /\ \/ instance = "faulty" /\ Next
       \/ instance = "long" /\ Long!Next
    /\ UNCHANGED instance

MCSpec == MCInit /\ [][MCNext]_<<vars, instance>>

(* The bytes of either instance are passed on once and in order, and no    *)
(* assertion of the clip about the registers fails (radio_up.c:66-102).    *)
MCStreamIntact ==
    /\ RegistersCoherent
    /\ IF instance = "long" THEN Long!TypeOK /\ Long!StreamIntact ELSE TypeOK /\ StreamIntact

(* A clip whose replies are in time, and whose pipe takes what it reads    *)
(* but for two epochs, keeps up with the radio.                          *)
MCKeepsUp == instance = "long" => Long!KeepsUp
=============================================================================
