------------------------------- MODULE MCFlight -------------------------------
(***************************************************************************)
(* Three applications of the flight software that command a device over    *)
(* the bus and keep part of their state outside their notepads: the        *)
(* downlink of the radio, the calibration of the clock, the magnetometer.  *)
(* They do not depend on one another but for what goes over the pipes and  *)
(* ducts, which other modules are about: one of them is chosen at the      *)
(* start and then runs by itself.  MCFlight_proofs has theorems about them.*)
(***************************************************************************)
EXTENDS RadioDownlink

CONSTANTS
    NumReplicas, Measured, Damaged, MaxFaults,
    ElementCount, MaxPerMap, ReadingDelay, LatchingDelay, TelemDelay, MeasurementDelay,
    Offset, Displaced, MaxTime, MaxUncalibrated, MaxTroubles, CommandTimes

VARIABLES
    application,    \* "downlink", "clock" or "magnetometer"
    turn, state, clockAnswer, clock_offset_adj_slow, clock_offset_adj_fast,
    clock_calibration_required, clockFaults, affected,
    now, phase, magNote, readings, failed, clock_is_calibrated, request, answer, device,
    report, ground, owed, told, commanded, grace, troubles

C == INSTANCE Clock WITH answer <- clockAnswer, faults <- clockFaults
M == INSTANCE Magnetometer WITH note <- magNote

ASSUME MCFlightAssumption == C!ClockAssumption /\ M!MagnetometerAssumption

cvars == <<turn, state, clockAnswer, clock_offset_adj_slow, clock_offset_adj_fast,
           clock_calibration_required, clockFaults, affected>>
mvars == <<now, phase, magNote, readings, failed, clock_is_calibrated, request, answer, device,
           report, ground, owed, told, commanded, grace, troubles>>

Is(name) == application = name

MCInit == application \in {"downlink", "clock", "magnetometer"} /\ Init /\ C!Init /\ M!Init

MCNext ==
    /\ UNCHANGED application
    /\ \/ Is("downlink") /\ Next /\ UNCHANGED <<cvars, mvars>>
       \/ Is("clock") /\ C!Next /\ UNCHANGED <<vars, mvars>>
       \/ Is("magnetometer") /\ M!Next /\ UNCHANGED <<vars, cvars>>

(* The fairness of the FairSpec of the downlink and of the clock.          *)
MCSpec ==
    /\ MCInit /\ [][MCNext]_<<vars, cvars, mvars, application>>
    /\ WF_vars(Is("downlink") /\ DownlinkClip)
    /\ WF_vars(Is("downlink") /\ RadioHandles)
    /\ WF_vars(Is("downlink") /\ Transmit)
    /\ WF_cvars(Is("clock") /\ (C!clock_start_clip \/ C!clock_voter_clip \/ C!NewEpoch))

(* A message is transmitted to its end, from memory that does not change   *)
(* meanwhile.                                                              *)
MCTransmits == MemoryStable /\ Transmitted

(* The mission time is right or unknown.                                   *)
MCMissionTimeRight == C!MissionTimeRight

(* A clock that was calibrated at the end of an epoch stays so, and the    *)
(* replicas come to hold one offset.                                       *)
MCCalibrates == Is("clock") => C!StaysCalibrated /\ C!Calibrates

(* The reports of the magnetometer are in order.                           *)
MCReportsOrdered == M!TypeOK /\ M!ReportsOrdered

(* No reading is lost with one replica, and the magnetometer is on when it *)
(* was commanded to be.                                                    *)
MCNothingMissed == M!NothingMissed /\ M!PowerObeyed
=============================================================================
