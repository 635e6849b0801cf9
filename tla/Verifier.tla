------------------------------- MODULE Verifier -------------------------------
(***************************************************************************)
(* The verifier of requirements, src/sim/verifier/verifier.go, with the    *)
(* tracker of events that it searches.  It hears of commands, telemetry    *)
(* and what the magnetometer does, judges some requirements at once and    *)
(* sets timers to judge others later.  Broken says of the whole history    *)
(* what each requirement asks within the windows that the verifier takes,  *)
(* which are not always those of requirements.go.                          *)
(*                                                                         *)
(* The spacecraft does anything at all, one event after another.  Ticks    *)
(* stand for the times of the requirements, in proportion where it         *)
(* matters; a reading is known by its time, and times are the same that    *)
(* differ by less than MaxMagMeasTimeVariance.                             *)
(***************************************************************************)
EXTENDS Integers, SequencesExt

CONSTANTS
    Receipt, Complete, MagComplete,     \* 100, 200 and 300 ms: within these a command is answered
    SetPower,                           \* 200 ms: within this it takes effect
    Every, Jitter, Spacing,             \* 100, 5 and 95 ms: of measurements
    Recent, Buffered,                   \* 20 and 100 ms: from telemetry's timestamp to its arrival
    HeartbeatEvery, InitClock,          \* 150 ms, 1 s (verifier.go:501)
    Batch, Downlink, Retry, Period,     \* 5, 10, 1 and 1 s
    Interval, OnAir,                    \* the least between two commands; of a command
    Offers                              \* [kinds, number, until]: what a history may be

VerifierAssumption ==
    /\ {Receipt, Complete, MagComplete, SetPower, Every, Jitter, Spacing, Recent, Buffered, HeartbeatEvery,
        InitClock, Batch, Downlink, Retry, Period, Interval, OnAir} \subseteq Nat \ {0}
    /\ \A o \in Offers : {o.number, o.until} \subseteq Nat

VARIABLES
    now,
    offer,          \* the kinds of events of this history, how many, and its end
    Events,         \* the tracker's
    errorCount,     \* TelemetryByteErrors and TelemetryPacketErrors
    checks,         \* the timers that will judge a requirement
    failed,         \* the requirements that failed
    panicked,
    errorAt         \* a ghost: when the errors were told of, or -1

vars == <<now, offer, Events, errorCount, checks, failed, panicked, errorAt>>

-----------------------------------------------------------------------------
(* The tracker.                                                            *)

search(s, from, until) == SelectSeq(s, LAMBDA e : from <= e.at /\ e.at < until)
Kind(s, kind) == SelectSeq(s, LAMBDA e : e.event = kind)
Telemetry(s, kind) == SelectSeq(s, LAMBDA e : e.event = "downlink" /\ e.tlm.tlm = kind)
Powered(s) == LET changes == Kind(s, "power") IN changes # <<>> /\ Last(changes).powered

Tlm(kind, command) == [tlm |-> kind, cid |-> command.cid, of |-> command.send]

-----------------------------------------------------------------------------
(* The checks that are set, and what they find when their timer fires: the *)
(* verdict, whether the verifier panics, and the checks set next.          *)

One(req, interval, wanted) ==
    [check |-> "one", req |-> req, start |-> now, at |-> now + interval, wanted |-> wanted]

Verdict(req, ok) == [failed |-> IF ok THEN {} ELSE {req}, panicked |-> FALSE, next |-> {}]
Panic == [failed |-> {}, panicked |-> TRUE, next |-> {}]
Later(c) == [failed |-> {}, panicked |-> FALSE, next |-> {c}]

Wanted(c, e) ==
    \/ e.event = "downlink" /\ e.tlm = c.wanted /\ e.remote >= c.start /\ e.remote < c.at
    \/ e.event = "power" /\ [powered |-> e.powered] = c.wanted
CheckOne(c) ==
    Verdict(c.req, 1 = Len(SelectSeq(search(Events, c.start, c.at), LAMBDA e : Wanted(c, e))))

(* ReqCollectMagReadings: a measurement at about every poll, and if there  *)
(* is none, a change of power since the last one.                          *)
Bug_MeasuredAt(readings, pollAt) == pollAt
MeasuredAt(readings, pollAt) == IF Len(readings) = 1 THEN readings[1].at ELSE pollAt
CheckCollect(c) ==
    LET readings == Kind(search(Events, c.at - 2 * Jitter, c.at), "measure")
        until    == MeasuredAt(readings, c.at)
        changes  == SelectSeq(Kind(search(Events, c.lastReading, until), "power"),
                              LAMBDA e : e.at # c.since)
    IN IF changes # <<>> /\ changes[1].powered THEN Panic
       ELSE IF Len(readings) # 1 THEN Verdict("ReqCollectMagReadings", Len(changes) = 1)
       ELSE IF changes # <<>> THEN Verdict("ReqCollectMagReadings", FALSE)
       ELSE Later([c EXCEPT !.at = c.at + Every, !.lastReading = until])

(* ReqDownlinkMagReadings: a packet holds the measurement, or there is one *)
(* that begins no earlier.                                                 *)
CheckDownlink(c) ==
    LET packets(until) == ToSet(Telemetry(search(Events, c.measured, until), "readings"))
    IN IF \E e \in packets(c.measured + Downlink) : c.measured \in ToSet(e.tlm.times)
       THEN Verdict("ReqDownlinkMagReadings", TRUE)
       ELSE IF \E e \in packets(now) : e.tlm.from >= c.measured
       THEN Verdict("ReqDownlinkMagReadings", FALSE)
       ELSE Later([c EXCEPT !.at = c.at + Retry])

CheckHeartbeat(c) ==
    LET beats == Telemetry(Events, "heartbeat")
    IN Verdict("ReqHeartbeat", beats # <<>> /\ Last(beats).at > c.since)

CheckErrors(c) ==
    [Verdict("ReqNoTelemErrs", errorCount = c.count) EXCEPT
       !.next = {[c EXCEPT !.at = c.at + Period, !.count = errorCount]}]

Judge(c) ==
    CASE c.check = "one"       -> CheckOne(c)
      [] c.check = "collect"   -> CheckCollect(c)
      [] c.check = "downlink"  -> CheckDownlink(c)
      [] c.check = "heartbeat" -> CheckHeartbeat(c)
      [] c.check = "errors"    -> CheckErrors(c)

(* A timer fires; no check depends on another, and their order is fixed.   *)
Due == {c \in checks : c.at <= now}

CheckReq ==
    /\ ~panicked
    /\ Due # {}
    /\ \E c \in {CHOOSE d \in Due : TRUE} : \E j \in {Judge(c)} :
          /\ failed' = failed \cup j.failed
          /\ panicked' = j.panicked
          /\ checks' = (checks \ {c}) \cup j.next
    /\ UNCHANGED <<now, offer, Events, errorCount, errorAt>>

-----------------------------------------------------------------------------
(* What the verifier hears of.  Judged(e, new, bad, panic): event e sets   *)
(* the checks new, the requirements bad fail, or the verifier panics.      *)

Judged(e, new, bad, panic) ==
    /\ Len(Events) < offer.number /\ Events' = Append(Events, e)
    /\ checks' = checks \cup new
    /\ failed' = failed \cup bad
    /\ panicked' = panic
    /\ UNCHANGED <<now, offer, errorCount, errorAt>>

FailedIf(bad, req) == IF bad THEN {req} ELSE {}

OnCommandUplink(command) ==
    LET before == SelectSeq(Events, LAMBDA e : e.at <= command.send)
        power  == command.cid = "on"
    IN Judged([event |-> "uplink", at |-> now, command |-> command],
              {One("ReqReceipt", Receipt, Tlm("received", command))}
              \cup (IF command.cid = "ping"
                    THEN {One("ReqCompletePing", Complete, Tlm("completed", command)),
                          One("ReqPingPong", Complete, Tlm("pong", command))}
                    ELSE {One("ReqMagSetPwrComplete", MagComplete, Tlm("completed", command))})
              \cup (IF command.cid # "ping" /\ Powered(before) # power
                    THEN {One("ReqMagSetPwr", SetPower, [powered |-> power])} ELSE {}),
              {}, FALSE)

Uplinks(window, tlm) ==
    SelectSeq(Kind(search(Events, now - window, now), "uplink"), LAMBDA e :
                 e.command.cid = tlm.cid /\ e.command.send = tlm.of)

(* The verdicts on a packet of readings.                                   *)
OnReadings(tlm, remote) ==
    LET packets  == Telemetry(Events, "readings")
        last     == Last(packets)
        told     == <<IF packets = <<>> THEN 0 ELSE Last(last.tlm.times)>> \o tlm.times
        inOrder  ==
            /\ (IF packets = <<>> THEN 0 ELSE last.tlm.until) < tlm.from /\ tlm.from <= tlm.until
            /\ \A i \in DOMAIN tlm.times :
                  /\ tlm.from <= tlm.times[i] /\ tlm.times[i] <= tlm.until
                  /\ told[i + 1] >= told[i] + Spacing
        measured == Kind(search(Events, tlm.times[1], Last(tlm.times) + 1), "measure")
    IN FailedIf(~inOrder, "ReqOrderedMagReadings")
       \cup FailedIf(packets # <<>> /\ (now < last.at + Batch \/ remote < last.remote + Batch),
                     "ReqBatchedMagReadings")
       \cup FailedIf(inOrder /\ [i \in DOMAIN measured |-> measured[i].at] # tlm.times,
                     "ReqCorrectMagReadings")

OnTelemetryDownlink(tlm, remote, success) ==
    LET e           == [event |-> "downlink", at |-> now, remote |-> remote, tlm |-> tlm, success |-> success]
        before      == Kind(Events, "downlink")
        flexibility == IF remote < Head(Append(before, e)).at THEN Buffered ELSE Recent
        uplinks     == CASE tlm.tlm = "received"  -> Uplinks(Receipt, tlm)
                         [] tlm.tlm = "completed" -> Uplinks(MagComplete, tlm)
                         [] OTHER                 -> <<>>
    IN Judged(e,
         IF tlm.tlm \in {"calibrated", "heartbeat"}
         THEN {[check |-> "heartbeat", at |-> now + HeartbeatEvery, since |-> now]} ELSE {},
         FailedIf(before # <<>> /\ Last(before).remote > remote, "ReqTelemOrdered")
         \cup FailedIf(~(now < remote + flexibility /\ remote < now), "ReqTelemRecent")
         \cup FailedIf(tlm.tlm = "received" /\ uplinks = <<>>, "ReqCmdRecvExpected")
         \cup FailedIf(tlm.tlm = "completed" /\ uplinks = <<>>, "ReqCmdCompleteExpected")
         \cup FailedIf(tlm.tlm = "completed" /\ ~success, "ReqCmdSuccess")
         \cup (IF tlm.tlm = "readings" THEN OnReadings(tlm, remote) ELSE {}),
         (before # <<>> /\ Last(before).at = now) \/ Len(uplinks) > 1)

(* A change of power is commanded by the last such command, unless that    *)
(* has been carried out before.                                            *)
Commanded(powered) ==
    LET commands == SelectSeq(Kind(search(Events, now - SetPower, now), "uplink"),
                              LAMBDA u : u.command.cid = IF powered THEN "on" ELSE "off")
    IN /\ commands # <<>>
       /\ \A e \in ToSet(Kind(search(Events, Last(commands).at, now), "power")) : e.powered # powered

OnSetMagnetometerPower(powered) ==
    Judged([event |-> "power", at |-> now, powered |-> powered],
           IF powered
           THEN {[check |-> "collect", at |-> now + Every + Jitter, since |-> now, lastReading |-> now]}
           ELSE {},
           FailedIf(~Commanded(powered), "ReqUnchangedPwr"),
           powered = Powered(Events))

OnMeasureMagnetometer ==
    Judged([event |-> "measure", at |-> now],
           {[check |-> "downlink", at |-> now + Retry, measured |-> now]}, {}, ~Powered(Events))

OnTelemetryErrors ==
    /\ errorCount' = errorCount + 1 /\ errorAt' = now
    /\ UNCHANGED <<now, offer, Events, checks, failed, panicked>>

-----------------------------------------------------------------------------
(* The spacecraft and the mission.                                         *)

Happens(kind) == ~panicked /\ kind \in offer.kinds
Since(kind, interval) == \A e \in ToSet(Kind(Events, kind)) : e.at + interval <= now
Commands == {e.command : e \in ToSet(Kind(Events, "uplink"))}

(* Commands as the generator makes them, reported when off the air.        *)
Uplink ==
    \E cid \in {"ping", "on", "off"} :
       /\ Happens(cid) /\ Since("uplink", Interval)
       /\ OnCommandUplink([cid |-> cid, send |-> now - OnAir])

(* One packet of telemetry at a time, an answer to a command that was sent *)
(* or to another one, or a packet that answers nothing.                    *)
Answers == {Tlm(kind, c) : kind \in {"received", "completed", "pong"},
                           c \in Commands \cup {[cid |-> "ping", send |-> -1]}}

TelemetryArrives ==
    /\ Since("downlink", 1)
    /\ \E remote \in {now - 1, now - 3} :
          \/ /\ Happens("answer")
             /\ \E tlm \in Answers, success \in BOOLEAN :
                   /\ success \/ (tlm.tlm = "completed" /\ remote = now - 1)
                   /\ OnTelemetryDownlink(tlm, remote, success)
          \/ \E kind \in {"calibrated", "heartbeat"} :
                Happens(kind) /\ OnTelemetryDownlink([tlm |-> kind], remote, TRUE)

(* A packet of readings: of the measurements from the last packet on.  It  *)
(* may begin late or too early, end early, leave one out or have it wrong. *)
Flawed(times, flaw, i) ==
    CASE flaw = "omitted" -> RemoveAt(times, i)
      [] flaw = "wrong"   -> [times EXCEPT ![i] = @ + 1]
      [] OTHER            -> times

ReadingsArrive ==
    /\ Happens("readings") /\ Since("downlink", 1)
    /\ \E packets \in {Telemetry(Events, "readings")},
          flaw \in {"none", "late", "again", "early", "omitted", "wrong"} :
       \E from \in {(IF packets = <<>> THEN 0 ELSE Last(packets).tlm.until)
                      + (CASE flaw = "late" -> Every [] flaw = "again" -> 0 [] OTHER -> 1)},
          until \in {IF flaw = "early" THEN now - Every ELSE now - 1} :
       \E held \in {Kind(search(Events, from, until + 1), "measure")} :
       \E i \in DOMAIN held : \E times \in {Flawed([j \in DOMAIN held |-> held[j].at], flaw, i)} :
          /\ times # <<>>
          /\ OnTelemetryDownlink([tlm |-> "readings", from |-> from, until |-> until, times |-> times],
                                 now - 1, TRUE)

TelemetryErrors == Happens("errors") /\ errorCount = 0 /\ OnTelemetryErrors

SetMagnetometerPower ==
    Happens("power") /\ Since("power", 1) /\ OnSetMagnetometerPower(~Powered(Events))

MeasureMagnetometer ==
    Happens("measure") /\ Powered(Events) /\ Since("measure", 1) /\ OnMeasureMagnetometer

Advance ==
    /\ ~panicked /\ now < offer.until
    /\ Due = {}
    /\ now' = now + 1
    /\ UNCHANGED <<offer, Events, errorCount, checks, failed, panicked, errorAt>>

(* The history ends.                                                       *)
Ended == now = offer.until /\ Due = {} /\ UNCHANGED vars

-----------------------------------------------------------------------------
Init ==
    /\ now = 0 /\ offer \in Offers /\ Events = <<>> /\ errorCount = 0
    /\ checks = {[check |-> "errors", at |-> Period, count |-> 0],
                 One("ReqInitClock", InitClock, [tlm |-> "calibrated"])}
    /\ failed = {} /\ panicked = FALSE /\ errorAt = -1

Next ==
    \/ CheckReq \/ Uplink \/ TelemetryArrives \/ ReadingsArrive \/ TelemetryErrors
    \/ SetMagnetometerPower \/ MeasureMagnetometer \/ Advance

Spec == Init /\ [][Next]_vars

-----------------------------------------------------------------------------
(***************************************************************************)
(* What the requirements ask, within the verifier's windows.  Where they   *)
(* and requirements.go differ, the window is the verifier's:               *)
(*   ReqInitClock            1 s (verifier.go:501), not 5 s (:21)          *)
(*   ReqTelemRecent          100 ms for a packet from before the first     *)
(*                           downlink (verifier.go:158-161), not 20 ms     *)
(*                           (:83)                                         *)
(*   ReqCorrectMagReadings   from the first reading to the last            *)
(*                           (verifier.go:259-267), not the range of the   *)
(*                           metadata (:69-71)                             *)
(*   ReqDownlinkMagReadings  once a packet has passed over the reading     *)
(*                           (verifier.go:449-462), not after 10 s (:59)   *)
(***************************************************************************)

All(kind)   == ToSet(Kind(Events, kind))
Told(kind)  == ToSet(Telemetry(Events, kind))
Within(e, start, interval) == start <= e.at /\ e.at < start + interval
Expired(start, interval) == start + interval <= now

(* Answered once, from the receive point on.                               *)
Answered(u, kind, interval) ==
    \E d \in Told(kind) :
        \A e \in Told(kind) : e = d <=>
            e.tlm = Tlm(kind, u.command) /\ Within(e, u.at, interval) /\ e.remote >= u.at

Unanswered(cids, kind, interval) ==
    \E u \in All("uplink") :
        u.command.cid \in cids /\ Expired(u.at, interval) /\ ~Answered(u, kind, interval)

(* An answer without a command.                                            *)
Unexpected(kind, interval) ==
    \E d \in Told(kind) : \A u \in All("uplink") :
        ~(Tlm(kind, u.command) = d.tlm /\ u.at < d.at /\ d.at <= u.at + interval)

PoweredAt(time) == Powered(SelectSeq(Events, LAMBDA e : e.at <= time))
Changes(powered) == {p \in All("power") : p.powered = powered}

(* A command was to change the power, when it was sent and when it was     *)
(* received, and did not; or it was to change it at either time, and did   *)
(* not once.                                                               *)
NotSet(sure) ==
    \E u \in All("uplink"), powered \in BOOLEAN :
        /\ u.command.cid = IF powered THEN "on" ELSE "off"
        /\ Expired(u.at, SetPower)
        /\ LET differs == {PoweredAt(t) # powered : t \in {u.command.send, u.at - 1}}
           IN IF sure THEN differs = {TRUE} ELSE TRUE \in differs
        /\ LET times == Cardinality({p \in Changes(powered) : Within(p, u.at, SetPower)})
           IN IF sure THEN times = 0 ELSE times # 1

(* Each change of power is due to a command that no other change is due to.*)
Uncommanded ==
    \E p \in All("power") : ~\E u \in All("uplink") :
        /\ u.command.cid = IF p.powered THEN "on" ELSE "off"
        /\ u.at < p.at /\ p.at <= u.at + SetPower
        /\ ~\E q \in Changes(p.powered) : u.at <= q.at /\ q.at < p.at

(* The magnetometer was on for long enough but not measured once; or it    *)
(* was off for so short a time that no poll can tell.                      *)
Flickers ==
    \E q \in Changes(FALSE), p \in Changes(TRUE) : q.at < p.at /\ p.at <= q.at + Every + 2 * Jitter
Uncollected(sure) ==
    \/ ~sure /\ Flickers
    \/ \E p \in Changes(TRUE), k \in 1..offer.until :
           LET poll == p.at + k * Every IN
           /\ Expired(poll, Jitter)
           /\ ~\E q \in Changes(FALSE) : p.at <= q.at /\ q.at < poll + Jitter
           /\ ~\E m \in All("measure") :
                 \A n \in All("measure") : n = m <=> Within(n, poll - Jitter, 2 * Jitter)

Packets == Telemetry(Events, "readings")

OutOfOrder ==
    LET told   == <<0>> \o FlattenSeq([i \in DOMAIN Packets |-> Packets[i].tlm.times])
        bounds == <<0>> \o [i \in DOMAIN Packets |-> Packets[i].tlm.until]
    IN \/ \E i \in 1..Len(told) - 1 : told[i + 1] < told[i] + Spacing
       \/ \E i \in DOMAIN Packets : LET tlm == Packets[i].tlm IN
             \/ ~(bounds[i] < tlm.from /\ tlm.from <= tlm.until)
             \/ \E t \in ToSet(tlm.times) : t < tlm.from \/ tlm.until < t

(* Readings are those taken from the first to the last of the packet.      *)
Incorrect ==
    \E d \in ToSet(Packets) :
        ToSet(d.tlm.times) #
            {m.at : m \in {n \in All("measure") : Head(d.tlm.times) <= n.at /\ n.at <= Last(d.tlm.times)}}

(* A reading is not downlinked in time.  The verifier's window stays open  *)
(* until a packet has passed over the reading.                             *)
NotDownlinked(sure) ==
    \E m \in All("measure") :
        /\ ~\E d \in ToSet(Packets) : Within(d, m.at, Downlink) /\ m.at \in ToSet(d.tlm.times)
        /\ sure => /\ Expired(m.at, Downlink)
                   /\ \E d \in ToSet(Packets) : m.at <= d.tlm.from /\ Expired(d.at, Retry)

(* No heartbeat for too long, the last instant included if it is sure.     *)
NoHeartbeat(sure) ==
    \E d \in Told("calibrated") \cup Told("heartbeat") :
        /\ Expired(d.at, HeartbeatEvery)
        /\ ~\E b \in Told("heartbeat") :
              d.at < b.at /\ b.at < d.at + HeartbeatEvery + IF sure THEN 1 ELSE 0

(* The requirements that the history breaks within the verifier's windows: *)
(* those that it surely breaks, or those that may be held against it.      *)
Broken(sure) ==
    LET downlinks == Kind(Events, "downlink")
        broken ==
         [ReqInitClock |->
             /\ Expired(0, InitClock)
             /\ ~\E d \in Told("calibrated") :
                   \A e \in Told("calibrated") : e = d <=> Within(e, 0, InitClock) /\ e.remote >= 0,
          ReqReceipt |-> Unanswered({"ping", "on", "off"}, "received", Receipt),
          ReqCompletePing |-> Unanswered({"ping"}, "completed", Complete),
          ReqPingPong |-> Unanswered({"ping"}, "pong", Complete),
          ReqMagSetPwrComplete |-> Unanswered({"on", "off"}, "completed", MagComplete),
          ReqCmdRecvExpected |-> Unexpected("received", Receipt),
          ReqCmdCompleteExpected |-> Unexpected("completed", MagComplete),
          ReqCmdSuccess |-> \E d \in Told("completed") : ~d.success,
          ReqMagSetPwr |-> NotSet(sure),
          ReqUnchangedPwr |-> Uncommanded,
          ReqCollectMagReadings |-> Uncollected(sure),
          ReqDownlinkMagReadings |-> NotDownlinked(sure) \/ (~sure /\ OutOfOrder),
          ReqOrderedMagReadings |-> OutOfOrder,
          ReqCorrectMagReadings |-> Incorrect /\ ~(sure /\ OutOfOrder),
          ReqBatchedMagReadings |->
             \E i \in 2..Len(Packets) :
                \/ Packets[i].at < Packets[i - 1].at + Batch
                \/ Packets[i].remote < Packets[i - 1].remote + Batch,
          ReqNoTelemErrs |-> errorAt # -1 /\ (sure => Expired(errorAt, Period)),
          ReqTelemOrdered |->
             \E i, j \in DOMAIN downlinks : i < j /\ downlinks[i].remote > downlinks[j].remote,
          ReqTelemRecent |->
             \E d \in ToSet(downlinks) :
                \/ d.remote >= d.at
                \/ d.at >= d.remote + IF d.remote < Head(downlinks).at THEN Buffered ELSE Recent,
          ReqHeartbeat |-> NoHeartbeat(sure)]
    IN {req \in DOMAIN broken : broken[req]}

(***************************************************************************)
(* The verdicts are right by the verifier's own windows: a requirement     *)
(* that has failed is broken within them, now and for the rest of the      *)
(* history, and one that is broken within them has failed when the timers  *)
(* have fired (checkReq and the timers, verifier.go:22-80 and :337-465);   *)
(* and the verifier does not panic.                                        *)
(***************************************************************************)
VerdictsInWindows ==
    /\ ~panicked
    /\ failed \subseteq Broken(FALSE)
    /\ Due = {} => Broken(TRUE) \subseteq failed
===============================================================================
