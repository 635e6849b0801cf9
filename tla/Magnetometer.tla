----------------------------- MODULE Magnetometer -----------------------------
(***************************************************************************)
(* The magnetometer: the clip src/fsw/flight/magnetometer.c, its replicas, *)
(* the instrument src/sim/spacecraft/magnetometer/mag.go, and the reports  *)
(* that reach the ground.  The replicas share what their notepad keeps,    *)
(* but each has a circular buffer of its own for the readings that wait    *)
(* for the next report, and no notepad votes on that: a replica that was   *)
(* cut short while the others stored a reading sends another report than   *)
(* they do, until all buffers are emptied.                                 *)
(*                                                                         *)
(* Time is counted in epochs.  What a clip commands in one epoch reaches   *)
(* the instrument at the start of the next, before the clips run again, or *)
(* it is lost, or its answer is.                                           *)
(***************************************************************************)
EXTENDS CircBuf, FiniteSets

CONSTANTS
    Replicas,       \* MAGNETOMETER_REPLICAS of them
    MaxPerMap,      \* TLM_MAX_MAG_READINGS_PER_MAP
    ReadingDelay, LatchingDelay,    \* READING_DELAY_NS, LATCHING_DELAY_NS
    TelemDelay,                     \* the 5.5 seconds between two reports
    MeasurementDelay,               \* the instrument's
    Offset,         \* the mission time less the local time
    Displaced,      \* where damage may leave next_read, less next_write
    MaxTime, MaxUncalibrated,   \* epochs, and those before the clock is calibrated
    MaxTroubles,
    CommandTimes    \* the epochs in which a command may come

(* The mission clock is never behind the local clock.                      *)
MagnetometerAssumption ==
    /\ CircBufAssumption /\ IsFiniteSet(Replicas)
    /\ {MaxPerMap, ReadingDelay, LatchingDelay, TelemDelay, MeasurementDelay} \subseteq Nat \ {0}
    /\ {Offset, MaxTime, MaxUncalibrated, MaxTroubles} \cup CommandTimes \subseteq Nat
    /\ Displaced \subseteq Int

VARIABLES
    now, phase,     \* the epoch, and who acts in it: "bus" or "clip"
    note,           \* what the notepad votes: <<>> if it is not valid
    readings,       \* the circular buffer of each replica
    failed,         \* how often in a row each replica failed on its buffer, up to twice
    clock_is_calibrated,
    request, answer,\* to the instrument and from it; <<>> if there is no answer
    device,         \* the instrument
    report,         \* what reached the ground in this epoch: <<>> or one report
    ground,         \* the end of the report before: [latest, time, value]
    owed,           \* the readings taken and not yet reported
    told,           \* the last change of power the ground was told of
    commanded, grace,   \* what was last commanded, and how long it may take
    troubles        \* how many faults, losses and stalls there were

vars == <<now, phase, note, readings, failed, clock_is_calibrated, request, answer, device,
          report, ground, owed, told, commanded, grace, troubles>>

Majority == 1 + Cardinality(Replicas) \div 2
mission(t) == t + Offset
NoReading  == [time |-> 0, value |-> 0]

States == {"MS_UNKNOWN", "MS_INACTIVE", "MS_ACTIVATING", "MS_ACTIVE", "MS_LATCHING_ON",
           "MS_LATCHED_ON", "MS_TAKING_READING", "MS_DEACTIVATING"}
Latched  == {"MS_LATCHED_ON", "MS_TAKING_READING"}

TypeOK ==
    /\ now \in 0..MaxTime /\ phase \in {"bus", "clip"}
    /\ \A i \in DOMAIN note : note[i].state \in States /\ note[i].should_be_powered \in BOOLEAN
    /\ \A r \in Replicas : Sound(readings[r]) => Len(Contents(readings[r])) <= ElementCount
    /\ failed \in [Replicas -> 0..2] /\ clock_is_calibrated \in BOOLEAN
    /\ request \in {"none", "power_on", "power_off", "latch", "read"}
    /\ Len(answer) <= 1 /\ Len(report) <= 1 /\ Len(note) <= 1
    /\ device.PowerEnabled \in BOOLEAN /\ device.LatchSet \in BOOLEAN

Init ==
    /\ now = 0 /\ phase = "clip" /\ note = <<>> /\ failed = [r \in Replicas |-> 0]
    /\ readings = [r \in Replicas |-> Empty(NoReading)]
    /\ clock_is_calibrated = FALSE /\ request = "none" /\ answer = <<>>
    /\ device = [PowerEnabled |-> FALSE, LatchSet |-> FALSE, latched |-> 0, Snap |-> 0]
    /\ report = <<>> /\ ground = [latest |-> -1, time |-> -1, value |-> 0]
    /\ owed = <<>> /\ told = FALSE /\ commanded = FALSE /\ grace = 0
    /\ troubles = 0

-----------------------------------------------------------------------------
(* The instrument.  A measurement is known by the time it was made.        *)

(* The timer of a latch, which may be about to expire as a request comes.  *)
Expired(d) == [d EXCEPT !.LatchSet = FALSE, !.Snap = d.latched]
AfterTimer(d, t) ==
    IF ~d.LatchSet \/ t < d.latched + MeasurementDelay THEN {d}
    ELSE IF t = d.latched + MeasurementDelay THEN {d, Expired(d)}
    ELSE {Expired(d)}

AttemptWrite(d, t) ==
    CASE request = "power_off" /\ d.PowerEnabled ->
            [d EXCEPT !.PowerEnabled = FALSE, !.LatchSet = FALSE, !.Snap = 0]
      [] request = "power_on" -> [d EXCEPT !.PowerEnabled = TRUE]
      [] request = "latch" /\ d.PowerEnabled /\ ~d.LatchSet ->
            [d EXCEPT !.LatchSet = TRUE, !.latched = t]
      [] OTHER -> d

AttemptRead(d) == <<[latch |-> d.LatchSet, value |-> d.Snap]>>

Trouble == troubles < MaxTroubles /\ troubles' = troubles + 1

(* The time that a command may take: that of a reading, and one epoch more *)
(* for everything that is lost.                                            *)
Response == LatchingDelay + MeasurementDelay + 4

(* The next epoch begins: the request is carried out and answered, and the *)
(* report of the last epoch is history.                                    *)
EndOf(rep) ==
    LET last == rep.readings[Len(rep.readings)] IN
    [latest |-> rep.latest, time |-> last.time, value |-> last.value]

Bus ==
    /\ phase = "bus" /\ now < MaxTime
    /\ now' = now + 1 /\ phase' = "clip"
    /\ clock_is_calibrated' \in {now >= MaxUncalibrated \/ clock_is_calibrated, TRUE}
    /\ report' = <<>> /\ ground' = (IF report = <<>> THEN ground ELSE EndOf(report[1]))
    /\ \E d \in AfterTimer(device, now + 1) :
          \/ /\ device' = AttemptWrite(d, now + 1)
             /\ answer' = (IF request = "none" THEN <<>> ELSE AttemptRead(d))
             /\ grace' = (IF clock_is_calibrated /\ grace > 0 THEN grace - 1 ELSE grace)
             /\ UNCHANGED troubles
          \/ /\ request # "none" /\ Trouble
             /\ device' \in {d, AttemptWrite(d, now + 1)}
             /\ answer' = <<>>
             /\ UNCHANGED grace
    /\ UNCHANGED <<note, readings, failed, request, owed, told, commanded>>

-----------------------------------------------------------------------------
(* magnetometer_clip, stage by stage: what becomes of the note and of the  *)
(* buffer of one replica.                                                  *)

(* The note, or what it is reset to.                                       *)
Blank == [should_be_powered |-> FALSE, state |-> "MS_UNKNOWN", next_reading_time |-> 0,
          actual_reading_time |-> 0, check_latch_time |-> 0, last_telem_time |-> 0,
          earliest_time |-> mission(now)]
Fed == IF note = <<>> THEN Blank ELSE note[1]
Kept(c) == IF note = <<>> THEN circ_buf_reset(c) ELSE c

(* What was commanded in the last epoch is complete when it is answered.   *)
Taken == Fed.state = "MS_TAKING_READING" /\ answer # <<>> /\ ~answer[1].latch
Reading == [time |-> mission(Fed.actual_reading_time), value |-> answer[1].value]

Completed(n) ==
    CASE n.state = "MS_ACTIVATING" /\ answer # <<>>   -> [n EXCEPT !.state = "MS_ACTIVE"]
      [] n.state = "MS_DEACTIVATING" /\ answer # <<>> -> [n EXCEPT !.state = "MS_INACTIVE"]
      [] n.state = "MS_LATCHING_ON" /\ answer # <<>>  ->
            [n EXCEPT !.state = "MS_LATCHED_ON", !.actual_reading_time = now,
                      !.check_latch_time = now + LatchingDelay]
      [] n.state = "MS_LATCHING_ON" /\ answer = <<>>  -> [n EXCEPT !.actual_reading_time = 0]
      [] Taken -> [n EXCEPT !.state = "MS_ACTIVE"]
      [] OTHER -> n

HasRoom(c) == circ_buf_write_avail(c) > 0
Stored(c) == IF Taken /\ HasRoom(c) THEN Written(c, Reading) ELSE c

Ordered(n, command) ==
    IF command \in {"on", "off"} THEN [n EXCEPT !.should_be_powered = command = "on"] ELSE n

(* What to do next.                                                        *)
Free(n) == n.state = "MS_UNKNOWN" /\ clock_is_calibrated
Decided(n) ==
    CASE (n.state \in {"MS_INACTIVE", "MS_DEACTIVATING"} \/ Free(n)) /\ n.should_be_powered ->
            [n EXCEPT !.state = "MS_ACTIVATING"]
      [] (n.state \in {"MS_ACTIVATING", "MS_ACTIVE"} \/ Free(n)) /\ ~n.should_be_powered ->
            [n EXCEPT !.state = "MS_DEACTIVATING"]
      [] n.state = "MS_ACTIVE" /\ n.should_be_powered /\ now >= n.next_reading_time ->
            [n EXCEPT !.state = "MS_LATCHING_ON", !.next_reading_time = n.next_reading_time + ReadingDelay]
      [] n.state = "MS_LATCHED_ON" /\ now >= n.check_latch_time ->
            [n EXCEPT !.state = "MS_TAKING_READING"]
      [] OTHER -> n

Started(n) ==
    IF n.state = "MS_ACTIVATING" THEN [n EXCEPT !.next_reading_time = now + ReadingDelay] ELSE n
RequestOf(n) ==
    CASE n.state = "MS_ACTIVATING"     -> "power_on"
      [] n.state = "MS_DEACTIVATING"   -> "power_off"
      [] n.state = "MS_LATCHING_ON"    -> "latch"
      [] n.state = "MS_TAKING_READING" -> "read"
      [] OTHER -> "none"

Controlled(command) == Started(Decided(Ordered(Completed(Fed), command)))

(* A report covers the time since the last one, up to a reading that has   *)
(* to wait for the next: because this report is full, or because it is     *)
(* still being taken.                                                      *)
WriteCount(c) == IF circ_buf_read_avail(c) > MaxPerMap THEN MaxPerMap ELSE circ_buf_read_avail(c)
Bug_LatestTime(n, c) ==
    IF circ_buf_read_avail(c) > MaxPerMap THEN Contents(c)[MaxPerMap + 1].time - 1 ELSE mission(now)
LatestTime(n, c) ==
    CASE circ_buf_read_avail(c) > MaxPerMap -> Contents(c)[MaxPerMap + 1].time - 1
      [] circ_buf_read_avail(c) <= MaxPerMap /\ n.state \in Latched
         /\ mission(now) >= n.actual_reading_time -> mission(n.actual_reading_time) - 1
      [] OTHER -> mission(now)
Report(n, c) ==
    [earliest |-> n.earliest_time, latest |-> LatestTime(n, c),
     readings |-> SubSeq(Contents(c), 1, WriteCount(c))]

Nothing(c) == circ_buf_read_avail(c) = 0
IsDue(n) == now >= n.last_telem_time + TelemDelay

(* All of it: the note, the buffer and the report of a replica that has    *)
(* this buffer, when it runs to its end.                                   *)
Result(c, command, can_send) ==
    LET n == Controlled(command)
        b == Stored(Kept(c)) IN
    CASE Nothing(b) -> [note |-> [n EXCEPT !.last_telem_time = now], buffer |-> b, report |-> <<>>]
      [] ~Nothing(b) /\ IsDue(n) /\ can_send ->
            [note |-> [n EXCEPT !.last_telem_time = now, !.earliest_time = LatestTime(n, b) + 1],
             buffer |-> circ_buf_read_done(b, WriteCount(b)), report |-> <<Report(n, b)>>]
      [] OTHER -> [note |-> n, buffer |-> b, report |-> <<>>]

-----------------------------------------------------------------------------
(* One epoch of all the replicas.  They agree on what most of them do.     *)

Agreed(result, runs) ==
    LET Backers(x) == {r \in runs : result[r] = x} IN
    IF \E r \in runs : Cardinality(Backers(result[r])) >= Majority
    THEN <<result[CHOOSE r \in runs : Cardinality(Backers(result[r])) >= Majority]>> ELSE <<>>

(* What a run that is cut short leaves in the buffer.                      *)
Partial(c, command, can_send) ==
    IF Sound(Kept(c)) THEN {c, Stored(Kept(c)), Result(c, command, can_send).buffer} ELSE {c}

(* The readings that have to be reported: what most replicas had room for, *)
(* if they remember it, until it is.                                       *)
In(x, sent) == \E i \in DOMAIN sent : \E j \in DOMAIN sent[i].readings : sent[i].readings[j] = x
Owed(sent) ==
    LET room == {r \in Replicas : Sound(Kept(readings[r])) /\ HasRoom(Kept(readings[r]))}
        old == IF note = <<>> THEN <<>> ELSE owed
        all == IF Taken /\ Cardinality(room) >= Majority THEN Append(old, Reading) ELSE old IN
    SelectSeq(all, LAMBDA x : ~In(x, sent))

Run(cut, command, can_send) ==
    LET runs == {r \in Replicas \ cut : Sound(Kept(readings[r]))} IN
    /\ phase = "clip" /\ phase' = "bus"
    /\ \E result \in {[r \in runs |-> Result(readings[r], command, can_send)]},
          part \in IF cut = {} THEN {NoReading}
                  ELSE UNION {Partial(readings[r], command, can_send) : r \in cut} :
          /\ \A r \in cut : part \in Partial(readings[r], command, can_send)
          /\ note' = Agreed([r \in runs |-> result[r].note], runs)
          /\ readings' = [r \in Replicas |->
                CASE r \in cut -> part [] r \in runs -> result[r].buffer [] OTHER -> readings[r]]
          /\ \E sent \in {Agreed([r \in runs |-> result[r].report], runs)} :
                report' = IF sent = <<>> THEN <<>> ELSE sent[1]
    /\ failed' = [r \in Replicas |-> IF r \in runs \cup cut THEN 0 ELSE IF failed[r] = 0 THEN 1 ELSE 2]
    /\ request' = RequestOf(Controlled(command))
    /\ owed' = Owed(report')
    /\ told' = CASE Fed.state = "MS_ACTIVATING" /\ answer # <<>> -> TRUE
                 [] Fed.state = "MS_DEACTIVATING" /\ answer # <<>> -> FALSE
                 [] OTHER -> told
    /\ commanded' = (IF command \in {"on", "off"} THEN command = "on" ELSE commanded)
    /\ grace' = (IF command \in {"on", "off"} THEN Response ELSE grace)
    /\ answer' = <<>>
    /\ UNCHANGED <<now, clock_is_calibrated, device, ground>>

(* What the ground commands, and whether there is room for a report.       *)
magnetometer_clip ==
    \E command \in {"none", "on", "off"} :
        /\ command = "none" \/ now \in CommandTimes
        /\ \/ Run({}, command, TRUE) /\ UNCHANGED troubles
           \/ owed # <<>> /\ Run({}, command, FALSE) /\ Trouble

-----------------------------------------------------------------------------
(* Faults.  While one replica differs from the others, none of those is    *)
(* hit.                                                                    *)

Alike(s, t) == Contents(readings[s]) = Contents(readings[t])
Fault(r) ==
    /\ phase = "clip" /\ Trouble
    /\ \A s, t \in Replicas \ {r} : Sound(readings[s]) /\ Alike(s, t)

CutReplica == \E r \in Replicas : Fault(r) /\ Run({r}, "none", TRUE)

DamageBuffer ==
    /\ \E r \in Replicas : Fault(r) /\ \E i \in Displaced :
          readings' = [readings EXCEPT ![r].next_read = readings[r].next_write + i]
    /\ UNCHANGED <<now, phase, note, failed, clock_is_calibrated, request, answer, device,
                   report, ground, owed, told, commanded, grace>>

(* Two replicas lose their notes at once, and the others are outvoted.     *)
LoseNote ==
    /\ phase = "clip" /\ note # <<>> /\ Trouble
    /\ note' = <<>> /\ commanded' = FALSE /\ grace' = Response
    /\ UNCHANGED <<now, phase, readings, failed, clock_is_calibrated, request, answer, device,
                   report, ground, owed, told>>

(* The bound on time is reached.                                           *)
End == phase = "bus" /\ now = MaxTime /\ UNCHANGED vars

Next == Bus \/ magnetometer_clip \/ CutReplica \/ DamageBuffer \/ LoseNote \/ End

Spec == Init /\ [][Next]_vars

-----------------------------------------------------------------------------
(* What the reports are for.                                               *)

(* ReqOrderedMagReadings of sim/verifier: the windows of two reports       *)
(* follow one another without overlap, every reading is in its window, and *)
(* readings come in order.  None is made of a measurement that has been    *)
(* reported before, or of none.                                            *)
ReportsOrdered ==
    \A i \in DOMAIN report :
        LET rep == report[i]
            all == <<[time |-> ground.time, value |-> ground.value]>> \o rep.readings IN
        /\ ground.latest < rep.earliest /\ rep.earliest <= rep.latest
        /\ \A j \in DOMAIN rep.readings : rep.readings[j].time \in rep.earliest..rep.latest
        /\ \A j \in 2..Len(all) :
              all[j - 1].time < all[j].time /\ all[j - 1].value < all[j].value
              /\ mission(all[j].value) <= all[j].time

(* Whatever happens to one replica, what was read from the instrument is   *)
(* held by most of them until it is reported, and it is reported within    *)
(* the time that takes: a reading is missing only if the buffers were full.*)
Batches == (ElementCount + MaxPerMap - 1) \div MaxPerMap
NothingMissed ==
    phase = "bus" =>
        /\ note # <<>> /\ Cardinality({r \in Replicas : Contents(readings[r]) = owed}) >= Majority
        /\ \A i \in DOMAIN owed :
              mission(now) <= owed[i].time + Batches * TelemDelay + troubles + 4

(* The instrument is switched as commanded, within the time a reading      *)
(* takes and the answers that are lost, and stays so; and while the clip   *)
(* believes to know whether it is on, it is right, and so is the ground.   *)
PowerObeyed ==
    /\ phase = "bus" /\ note # <<>> =>
         /\ note[1].state = "MS_INACTIVE" => ~told /\ ~device.PowerEnabled
         /\ note[1].state \in Latched \cup {"MS_ACTIVE", "MS_LATCHING_ON"} => told /\ device.PowerEnabled
    /\ clock_is_calibrated /\ grace = 0 =>
         device.PowerEnabled = commanded

(* The requirements ask for the time at which a reading was really taken.  *)
TimesTrue == \A i \in DOMAIN report : \A j \in DOMAIN report[i].readings :
    report[i].readings[j].time = mission(report[i].readings[j].value)

(* "function to call on clip/task restart, to ensure that the circular     *)
(* buffer is in a safe state", says circular.h of circ_buf_reset: a clip   *)
(* that failed on its buffer does not fail on it again when it restarts.   *)
SafeOnRestart == \A r \in Replicas : failed[r] <= 1
=============================================================================
