-------------------------------- MODULE MCGround ------------------------------
(***************************************************************************)
(* What connects the flight software with the ground: the uplink of the    *)
(* radio, with the instances of MCRadioUplink, the command system, and the *)
(* telemetry system; on the other side of the air the receiver of          *)
(* telemetry, the generator of commands, and the verifier that hears of    *)
(* both; and the codec of the link on which the radio is reached.  One of  *)
(* them is chosen at the start and then runs by itself.                    *)
(***************************************************************************)
EXTENDS MCRadioUplink

CONSTANTS ParamSize, TxCapacity, Runs, Params, Rooms, Noise, MaxSent, MaxErrors, MaxResets,
          NumReplicas, AsyncFlow, SyncFlow, DownlinkScratch, MsgSize, MaxAsync, MaxSync, MaxTroubles,
          UplinkScratch, UplinkSize, Portions, MaxContent,
          ByteDuration, MinPacket, MaxMessage, Delays, Lengths, MaxCommands

VARIABLES
    part,       \* "radio", "telemetry", "command", "receiver", "generator", "verifier" or "codec"
    encoder, buffered, async_dropped, granted, grants, indicated, tlmRestarting, async, sync, credit,
    downlink, tlmTurn, offered, reported, stream, tlmStruck, tlmTroubles,
    uplink, message, scratch, in_progress, decode_buffer, last_requested, pressure, passed, told,
    has_outstanding_reply, restarting, cmdTurn, due, answers, struck, troubles,
    packets, next, downlinkState, region, txReg, update, timer, taken, heard, errors, panic, rxTroubles,
    now, schedule,
    generated, pendingCmd, lastPacket, generate, complete, reports,
    offer, Events, errorCount, checks, failedReqs, panicked, errorAt,
    sender, encoded, tx_buffer, line, synch, chars, raw, decoded, simDecoded, symErrors, resets

MCUnits == [async |-> 1, drop |-> 1, sync |-> 2]

T == INSTANCE Telemetry WITH
        Units <- MCUnits, Overhead <- 1, Capacity <- DownlinkScratch,
        scratch <- encoder, last_requested <- granted, pressure <- grants,
        restarting <- tlmRestarting, turn <- tlmTurn, struck <- tlmStruck, troubles <- tlmTroubles

(* The contents of a ping, of a ping of a wrong length and of a command    *)
(* that nobody takes; two of them look like delimiters.                    *)
Ping == <<"escape">>
Odd == <<"3">>
Unknown == <<"a", "2">>
MCCommand ==
    [c \in {Ping, Odd, Unknown} |-> CASE c = Ping -> "ping" [] c = Odd -> "odd" [] OTHER -> "unknown"]

Sop == <<"escape", "2">>
Eop == <<"escape", "3">>
Packet(body) == Sop \o body \o Eop
PingPacket == Packet(<<"escape", "1">>)

(* What may precede a ping: valid packets, one that is too long, one that  *)
(* is not valid, one without an end, an end, half an escape sequence.      *)
Pieces == {PingPacket, Packet(Odd), Packet(Unknown), Packet(<<"a", "a", "a">>), Sop \o <<"a">>, Eop, <<"escape">>}
MCStreams ==
    {first \o second \o PingPacket : first \in {PingPacket, <<"escape">>}, second \in Pieces}
    \cup {Packet(Odd) \o Packet(Unknown) \o Packet(<<"a">>) \o PingPacket}

C == INSTANCE Command WITH
        Streams <- MCStreams, Command <- MCCommand, Capacity <- UplinkScratch, MsgSize <- UplinkSize,
        turn <- cmdTurn

(* Packets whose contents look like delimiters.                            *)
MCPacketStreams == {<<<<255, 34>>, <<51, 255>>>>}

G == INSTANCE GroundReceiver WITH
        Streams <- MCPacketStreams, MaxTroubles <- 1,
        downlink <- downlinkState, message <- region, reg <- txReg, troubles <- rxTroubles

S == INSTANCE CommandGenerator

(* What the histories of the verifier are made of.  100 ms are two ticks   *)
(* or three.                                                               *)
MCOffers ==
    {[kinds |-> {"ping", "answer"}, number |-> 3, until |-> 5],
     [kinds |-> {"on", "answer"}, number |-> 2, until |-> 6],
     [kinds |-> {"calibrated", "heartbeat"}, number |-> 3, until |-> 8],
     [kinds |-> {"calibrated", "errors"}, number |-> 2, until |-> 10],
     [kinds |-> {"on", "off", "power"}, number |-> 4, until |-> 8],
     [kinds |-> {"power", "measure"}, number |-> 5, until |-> 9],
     [kinds |-> {"power", "measure", "readings"}, number |-> 5, until |-> 7]}

V == INSTANCE Verifier WITH
        Receipt <- 2, Complete <- 3, MagComplete <- 4, SetPower <- 4,
        Every <- 3, Jitter <- 1, Spacing <- 2, Recent <- 3, Buffered <- 4,
        HeartbeatEvery <- 3, InitClock <- 5, Batch <- 3, Downlink <- 5, Retry <- 2, Period <- 5,
        Interval <- 4, OnAir <- 1, Offers <- MCOffers, failed <- failedReqs

MCData == {<<65>>, <<135, 65>>}     \* 135 is FWC_ESCAPE_SYM
MCParams == {<<65, 135>>}

L == INSTANCE Codec WITH sent <- encoded, errors <- symErrors

ASSUME L!CodecAssumption
ASSUME T!TelemetryAssumption /\ C!CommandAssumption
ASSUME G!GroundReceiverAssumption /\ S!CommandGeneratorAssumption /\ V!VerifierAssumption

tvars == <<encoder, buffered, async_dropped, granted, grants, indicated, tlmRestarting, async, sync,
           credit, downlink, tlmTurn, offered, reported, stream, tlmStruck, tlmTroubles>>
cvars == <<uplink, message, scratch, in_progress, decode_buffer, last_requested, pressure, passed, told,
           has_outstanding_reply, restarting, cmdTurn, due, answers, struck, troubles>>

avars == <<now, schedule>>
gvars == <<packets, next, downlinkState, region, txReg, update, timer, taken, heard, errors, panic,
           rxTroubles>>
svars == <<generated, pendingCmd, lastPacket, generate, complete, reports>>
lvars == <<sender, encoded, tx_buffer, line, synch, chars, raw, decoded, simDecoded, symErrors, resets>>
vvars == <<offer, Events, errorCount, checks, failedReqs, panicked, errorAt>>

Is(name) == part = name

(* The variables of a part that does not run.                              *)
TelemetryIdle ==
    /\ encoder = 0 /\ buffered = 0 /\ async_dropped = 0 /\ granted = 0 /\ grants = 0
    /\ indicated = 0 /\ tlmRestarting = {0} /\ async = 0 /\ sync = 0 /\ credit = 0
    /\ downlink = 0 /\ tlmTurn = 0 /\ offered = 0 /\ reported = 0 /\ stream = 0
    /\ tlmStruck = 0 /\ tlmTroubles = 0

CommandIdle ==
    /\ uplink = 0 /\ message = 0 /\ scratch = 0 /\ in_progress = 0 /\ decode_buffer = 0
    /\ last_requested = 0 /\ pressure = 0 /\ passed = 0 /\ told = 0
    /\ has_outstanding_reply = 0 /\ restarting = 0 /\ cmdTurn = 0 /\ due = 0 /\ answers = 0
    /\ struck = 0 /\ troubles = 0

ReceiverIdle ==
    /\ packets = 0 /\ next = 0 /\ downlinkState = 0 /\ region = 0 /\ txReg = 0 /\ update = 0
    /\ timer = 0 /\ taken = 0 /\ heard = 0 /\ errors = 0 /\ panic = 0 /\ rxTroubles = 0

GeneratorIdle ==
    /\ generated = 0 /\ pendingCmd = 0 /\ lastPacket = 0 /\ generate = 0 /\ complete = 0
    /\ reports = 0

VerifierIdle ==
    /\ offer = 0 /\ Events = 0 /\ errorCount = 0 /\ checks = 0 /\ failedReqs = 0 /\ panicked = 0
    /\ errorAt = 0

CodecIdle ==
    /\ sender = 0 /\ encoded = 0 /\ tx_buffer = 0 /\ line = 0 /\ synch = 0 /\ chars = 0 /\ raw = 0
    /\ decoded = 0 /\ simDecoded = 0 /\ symErrors = 0 /\ resets = 0

GroundInit ==
    /\ part \in {"radio", "telemetry", "command", "receiver", "generator", "verifier", "codec"}
    /\ IF Is("codec") THEN L!Init ELSE CodecIdle
    /\ IF Is("radio") THEN MCInit ELSE Init /\ instance = "faulty"
    /\ IF Is("telemetry") THEN T!Init ELSE TelemetryIdle
    /\ IF Is("command") THEN C!Init ELSE CommandIdle
    /\ IF Is("receiver") THEN G!Init ELSE ReceiverIdle
    /\ IF Is("generator") THEN S!Init ELSE GeneratorIdle
    /\ IF Is("verifier") THEN V!Init ELSE VerifierIdle
    /\ now = 0 /\ schedule = <<>>

GroundNext ==
    /\ UNCHANGED part
    /\ \/ /\ \/ Is("radio") /\ MCNext /\ UNCHANGED <<tvars, cvars>>
             \/ Is("telemetry") /\ T!Next /\ UNCHANGED <<vars, instance, cvars>>
             \/ Is("command") /\ C!Next /\ UNCHANGED <<vars, instance, tvars>>
          /\ UNCHANGED <<avars, gvars, svars, vvars, lvars>>
       \/ Is("codec") /\ L!Next /\ UNCHANGED <<vars, instance, tvars, cvars, avars, gvars, svars, vvars>>
       \/ /\ \/ Is("receiver") /\ G!Next /\ UNCHANGED <<svars, vvars>>
             \/ Is("generator") /\ S!Next /\ UNCHANGED <<gvars, vvars>>
             \/ Is("verifier") /\ V!Next /\ UNCHANGED <<schedule, gvars, svars>>
          /\ UNCHANGED <<vars, instance, tvars, cvars, lvars>>
       \/ /\ (Is("receiver") /\ G!Ended) \/ (Is("generator") /\ S!Ended) \/ (Is("verifier") /\ V!Ended)
          /\ UNCHANGED <<vars, instance, tvars, cvars, avars, gvars, svars, vvars, lvars>>

(* The fairness of the FairSpec of Telemetry and of Command.               *)
GroundSpec ==
    /\ GroundInit /\ [][GroundNext]_<<vars, instance, tvars, cvars, avars, gvars, svars, vvars, lvars, part>>
    /\ WF_tvars(Is("telemetry") /\ T!Turns) /\ SF_tvars(Is("telemetry") /\ T!Granted)
    /\ WF_cvars(Is("command") /\ C!Turns) /\ SF_cvars(Is("command") /\ C!Arrives)

(* No telemetry gets lost unaccounted for.                                 *)
MCAccounted == Is("telemetry") => T!TypeOK /\ T!Accounted

(* Each command is answered once, in full and in order.                    *)
MCAnswered == Is("command") => C!TypeOK /\ C!Answered

(* The buffers of telemetry run dry when the load ends, and all commands   *)
(* are answered.                                                           *)
MCSettles == (Is("telemetry") => T!Drains) /\ (Is("command") => C!AllAnswered)

(* Without trouble the ground hears each packet, once, in order and at     *)
(* once; and never hears one that was not on the air.                      *)
MCHears == Is("receiver") => G!TypeOK /\ G!HearsAll /\ G!HearsOnly

(* Each command that was sent is reported, once and in order.              *)
MCReported == Is("generator") => S!Reported

(* A requirement fails if the history breaks it within the windows that    *)
(* the verifier takes, and only then.                                      *)
MCVerdictsInWindows == Is("verifier") => V!VerdictsInWindows

(* What is encoded is what is decoded, however it is cut.                  *)
MCRoundTrip == Is("codec") => L!RoundTrip

(* After an error both decoders read alike again.                          *)
MCReadAlike == Is("codec") => L!ReadAlike
=============================================================================
