------------------------------- MODULE Command ---------------------------------
(***************************************************************************)
(* The command system: the decoder of src/fsw/flight/comm.c on the         *)
(* pipe_receiver_t of src/fsw/synch/pipebuf.c, the command clip of         *)
(* src/fsw/flight/command.c, and the pingback application of               *)
(* src/fsw/flight/pingback.c, which answers one of the commands.           *)
(*                                                                         *)
(* The bytes of the uplink come in messages cut anywhere.  Each replica of *)
(* the command clip decodes at most one command an epoch and leaves the    *)
(* rest in its buffer; what counts is what a majority of the replicas      *)
(* passes on or reports, by the votes of the ducts.                        *)
(*                                                                         *)
(* A byte is one of a few.  The bytes of a packet between its delimiters,  *)
(* with their escapes undone, are its content; whether that is long        *)
(* enough, has the magic number and the right CRC, and which command it    *)
(* then is, is given for each content.                                     *)
(***************************************************************************)
EXTENDS Integers, Sequences, SequencesExt, FiniteSets

CONSTANTS
    NumReplicas,        \* COMMAND_REPLICAS and PINGBACK_REPLICAS
    Streams,            \* what the radio may come to receive, sequences of bytes
    Command,            \* [content -> kind], for the contents that are valid packets
    Capacity,           \* scratch_capacity of the pipe_receiver_t
    MsgSize,            \* pipe_message_size of the uplink pipe
    Portions,           \* how much of it the radio may have received by its turn
    MaxContent,         \* size of decode_buffer
    MaxTroubles         \* bound: cuts and turns not taken

ESCAPE == "escape"      \* BYTE_ESCAPE
ESC_ESCAPE == "1"       \* BYTE_ESC_ESCAPE
ESC_SOP == "2"          \* BYTE_ESC_SOP
ESC_EOP == "3"          \* BYTE_ESC_EOP

(* Kinds of commands: pings of the right and of another length, and those  *)
(* that no endpoint takes, for their cid or because they are too long.     *)
Kinds == {"ping", "odd", "unknown"}

CommandAssumption ==
    /\ NumReplicas \in Nat \ {0}
    /\ \A content \in DOMAIN Command : Command[content] \in Kinds /\ Len(content) <= MaxContent
    /\ MsgSize \in Nat \ {0} /\ 2 * MsgSize <= Capacity     \* asserted by pipe_receiver_request_count
    /\ Portions \subseteq 0..MsgSize /\ 1 \in Portions
    /\ MaxContent \in Nat /\ MaxTroubles \in Nat

Replicas == 0..NumReplicas - 1
Majority(S) == 2 * Cardinality(S) > NumReplicas
RADIO == -1                 \* the turn of the radio
PINGBACK == NumReplicas     \* and of the pingback replicas
None == <<>>
Only(S) == CHOOSE x \in S : TRUE

VARIABLES
    uplink,                 \* the bytes that the radio has not passed on yet
    message,                \* the message in the uplink pipe, or None
    scratch,                \* scratch[r]: the bytes that r has not decoded yet
    in_progress,            \* decode_in_progress[r]
    decode_buffer,          \* decode_buffer[r], up to decode_offset
    last_requested,         \* last_requested[r] of the uplink pipe
    pressure,               \* pressure[r]: r asked for a message in this epoch
    passed,                 \* passed[r]: the content in r's message to pingback, or None
    told,                   \* told[r]: r's messages to telemetry
    has_outstanding_reply,  \* has_outstanding_reply[p], of the pingback replicas
    restarting, turn,
    due,                    \* the answers to the commands in the whole uplink
    answers,                \* what telemetry got from the command clip and pingback
    struck,                 \* the replica that something happened to, until it is in step again
    troubles

decoder == <<scratch, in_progress, decode_buffer>>
outputs == <<pressure, passed, told>>
vars == <<uplink, message, decoder, last_requested, outputs, has_outstanding_reply, restarting, turn,
          due, answers, struck, troubles>>

(* The symbol at the start of a sequence of bytes, comm_dec_next_symbol.  *)
HasSymbol(bytes) == bytes # <<>> /\ (Head(bytes) = ESCAPE => Len(bytes) >= 2)

SymbolLength(bytes) == IF Head(bytes) = ESCAPE THEN 2 ELSE 1

Symbol(bytes) ==
    IF Head(bytes) # ESCAPE THEN Head(bytes)
    ELSE CASE bytes[2] = ESC_ESCAPE -> ESCAPE
           [] bytes[2] = ESC_SOP    -> "PACKET_START"
           [] bytes[2] = ESC_EOP    -> "PACKET_END"
           [] OTHER                 -> "ERROR"

IsData(symbol) == symbol \notin {"PACKET_START", "PACKET_END", "ERROR"}

(* Long enough, with the magic number and the right CRC.                   *)
comm_packet_decode(content) == content \in DOMAIN Command

(* The replies that a replica of pingback_clip sends.                      *)
Replies(content) ==
    IF content = None THEN <<>>
    ELSE IF Command[content] = "ping" THEN <<<<"pong", content>>, <<"completed", content>>>>
    ELSE <<<<"not_recognized", content>>>>

(***************************************************************************)
(* The commands in a whole stream, however it is cut: symbol i ends a      *)
(* packet that started at symbol opened[i - 1], if that is not 0.          *)
(***************************************************************************)
SymbolsOf(bytes) ==
    LET from[i \in 1..Len(bytes) + 1] ==
            IF i > Len(bytes) \/ ~HasSymbol(SubSeq(bytes, i, Len(bytes))) THEN <<>>
            ELSE LET rest == SubSeq(bytes, i, Len(bytes))
                 IN  <<Symbol(rest)>> \o from[i + SymbolLength(rest)]
    IN  from[1]

CommandsOf(symbols) ==
    LET opened[i \in 0..Len(symbols)] ==
            IF i = 0 THEN 0
            ELSE Only({IF o = 0 THEN IF symbols[i] = "PACKET_START" THEN i ELSE 0
                       ELSE IF IsData(symbols[i]) /\ i - o <= MaxContent THEN o ELSE 0 : o \in {opened[i - 1]}})
        packet(i) == SubSeq(symbols, opened[i - 1] + 1, i - 1)
        Ends(i) == symbols[i] = "PACKET_END" /\ opened[i - 1] # 0 /\ comm_packet_decode(packet(i))
        ends == SelectSeq([i \in DOMAIN symbols |-> i], Ends)
    IN  [k \in DOMAIN ends |-> packet(ends[k])]

(* What a command is to be answered with.                                  *)
Due(content) ==
    <<<<"received", content>>>>
    \o IF Command[content] = "unknown" THEN <<<<"not_recognized", content>>>> ELSE Replies(content)

AnswersTo(bytes) ==
    LET commands == CommandsOf(SymbolsOf(bytes))
    IN  FlattenSeq([k \in DOMAIN commands |-> Due(commands[k])])

Answer == {"received", "not_recognized", "pong", "completed"} \X DOMAIN Command

Nowhere == [r \in Replicas |-> None]
Never == [r \in Replicas |-> FALSE]

TypeOK ==
    /\ Len(message) <= MsgSize /\ due \in Seq(Answer)
    /\ \A r \in Replicas : Len(scratch[r]) <= Capacity /\ Len(decode_buffer[r]) <= MaxContent
    /\ in_progress \in [Replicas -> BOOLEAN]
    /\ last_requested \in [Replicas -> {0, 1}] /\ pressure \in [Replicas -> {0, 1}]
    /\ passed \in [Replicas -> DOMAIN Command \cup {None}]
    /\ \A r \in Replicas : told[r] \in Seq(Answer) /\ Len(told[r]) <= 2     \* COMMAND_MAX_TELEM_PER_EPOCH
    /\ has_outstanding_reply \in [Replicas -> BOOLEAN]
    /\ restarting \subseteq struck /\ struck \subseteq Replicas /\ turn \in RADIO..PINGBACK
    /\ answers \in Seq(Answer) /\ troubles \in 0..MaxTroubles

Init ==
    /\ uplink \in Streams /\ due = AnswersTo(uplink) /\ message = None
    /\ scratch = Nowhere /\ in_progress = Never /\ decode_buffer = Nowhere
    /\ last_requested = [r \in Replicas |-> 0] /\ pressure = [r \in Replicas |-> 0]
    /\ passed = Nowhere /\ told = Nowhere /\ has_outstanding_reply = Never
    /\ restarting = {} /\ turn = RADIO /\ answers = <<>> /\ struck = {} /\ troubles = 0

(* What a majority of the replicas has put into a duct.                    *)
Voted(duct, nothing) ==
    LET agreed == {r \in Replicas : Majority({q \in Replicas : duct[q] = duct[r]})}
    IN  IF agreed = {} THEN nothing ELSE duct[CHOOSE r \in agreed : TRUE]

-----------------------------------------------------------------------------
InStep ==
    /\ restarting = {}
    /\ \A r, q \in Replicas :
          /\ scratch[r] = scratch[q] /\ in_progress[r] = in_progress[q]
          /\ decode_buffer[r] = decode_buffer[q] /\ last_requested[r] = last_requested[q]

(* The radio passes on what it has received by now, if it may.             *)
Radio ==
    /\ turn = RADIO /\ turn' = 0
    /\ \E n \in Portions :
          /\ n <= Len(uplink) /\ (n > 0 => Voted(pressure, 0) = 1)
          /\ message' = SubSeq(uplink, 1, n) /\ uplink' = SubSeq(uplink, n + 1, Len(uplink))
    /\ pressure' = [r \in Replicas |-> 0]
    /\ struck' = IF InStep THEN {} ELSE struck
    /\ UNCHANGED <<decoder, last_requested, passed, told, has_outstanding_reply, restarting, due,
                   answers, troubles>>

(* pipe_receiver_request_count, for a pipe of one message per epoch.       *)
request_count(bytes) == IF Capacity - Len(bytes) >= MsgSize THEN 1 ELSE 0

(***************************************************************************)
(* comm_dec_decode, on a record d of the state of a decoder: one symbol    *)
(* after the other, until a valid packet ends or no whole symbol is left.  *)
(***************************************************************************)
(* What a decoder makes of a symbol that it has taken.                     *)
Takes(d, symbol) ==
    IF ~d.open THEN IF symbol = "PACKET_START" THEN [d EXCEPT !.open = TRUE, !.content = <<>>] ELSE d
    ELSE IF IsData(symbol) /\ Len(d.content) < MaxContent THEN [d EXCEPT !.content = Append(@, symbol)]
    ELSE [d EXCEPT !.open = FALSE, !.success = symbol = "PACKET_END" /\ comm_packet_decode(d.content)]

(* The next symbol is taken off and decoded.                               *)
Advances(d) == Takes([d EXCEPT !.bytes = SubSeq(@, SymbolLength(@) + 1, Len(@))], Symbol(d.bytes))

Bug_Decoded(d) ==
    LET after[k \in 0..Len(d.bytes)] ==
            IF k = 0 THEN d
            ELSE Only({IF ~b.success /\ HasSymbol(b.bytes) THEN Advances(b) ELSE b : b \in {after[k - 1]}})
    IN  [after[Len(d.bytes)] EXCEPT !.bytes = <<>>]
Decoded(d) ==
    LET after[k \in 0..Len(d.bytes)] ==
            IF k = 0 THEN d
            ELSE Only({IF ~b.success /\ HasSymbol(b.bytes) THEN Advances(b) ELSE b : b \in {after[k - 1]}})
    IN  after[Len(d.bytes)]

(* pipe_receiver_prepare, after comm_dec_reset in a clip that restarts.    *)
Prepared(r) ==
    LET kept == IF r \in restarting THEN <<>> ELSE scratch[r]
    IN  [bytes   |-> IF request_count(kept) = 1 THEN kept \o message ELSE kept,
         open    |-> r \notin restarting /\ in_progress[r],
         content |-> IF r \in restarting THEN <<>> ELSE decode_buffer[r],
         success |-> FALSE]

(* pipe_receive_commit aborts the clip on a message it asked for and left. *)
Aborts(r) == last_requested[r] > 0 /\ message # None /\ r \notin restarting /\ request_count(scratch[r]) = 0

Keeps(r, d) ==
    /\ scratch' = [scratch EXCEPT ![r] = d.bytes]
    /\ in_progress' = [in_progress EXCEPT ![r] = d.open]
    /\ decode_buffer' = [decode_buffer EXCEPT ![r] = d.content]

ForPingback(d) == IF d.success /\ Command[d.content] # "unknown" THEN d.content ELSE None

ToTelemetry(d) ==
    IF ~d.success THEN <<>>
    ELSE <<<<"received", d.content>>>>
         \o IF Command[d.content] = "unknown" THEN <<<<"not_recognized", d.content>>>> ELSE <<>>

(* The commits of a turn, of which a clip that is cut makes the first few. *)
Passes(r, d) == passed' = [passed EXCEPT ![r] = ForPingback(d)]
Tells(r, d) == told' = [told EXCEPT ![r] = ToTelemetry(d)]
Asks(r, d) ==
    /\ last_requested' = [last_requested EXCEPT ![r] = request_count(d.bytes)]
    /\ pressure' = [pressure EXCEPT ![r] = request_count(d.bytes)]

command_execution_clip(r) ==
    /\ turn = r /\ turn' = turn + 1 /\ ~Aborts(r)
    /\ \E d \in {Decoded(Prepared(r))} : Keeps(r, d) /\ Passes(r, d) /\ Tells(r, d) /\ Asks(r, d)
    /\ restarting' = restarting \ {r}
    /\ UNCHANGED <<uplink, message, has_outstanding_reply, due, answers, struck, troubles>>

(* Troubles come to one replica at a time.                                 *)
Strikes(r) ==
    /\ struck \subseteq {r} /\ struck' = {r}
    /\ troubles < MaxTroubles /\ troubles' = troubles + 1
    /\ restarting' = restarting \cup {r}

Cut(r) ==
    /\ turn = r /\ turn' = turn + 1 /\ Strikes(r)
    /\ \E d \in {Decoded(Prepared(r))} :
          /\ Keeps(r, d)
          /\ \/ UNCHANGED <<passed, told, last_requested, pressure>>
             \/ Passes(r, d) /\ UNCHANGED <<told, last_requested, pressure>>
             \/ Passes(r, d) /\ Tells(r, d) /\ UNCHANGED <<last_requested, pressure>>
             \/ Passes(r, d) /\ Tells(r, d) /\ Asks(r, d)
    /\ UNCHANGED <<uplink, message, has_outstanding_reply, due, answers>>

(* A clip that waits for the scrubber misses a turn.                       *)
SkipTurn(r) ==
    /\ turn = r /\ turn' = turn + 1 /\ r \in restarting /\ Strikes(r)
    /\ UNCHANGED <<uplink, message, decoder, last_requested, outputs, has_outstanding_reply, due, answers>>

-----------------------------------------------------------------------------
(***************************************************************************)
(* The pingback replicas, one of which may be cut after command_receive    *)
(* and before command_reply, and the end of the epoch: telemetry takes the *)
(* messages of the command clip and then those of pingback.                *)
(***************************************************************************)
command_receive == Voted(passed, None)

pingback_clip ==
    /\ turn = PINGBACK /\ turn' = RADIO
    /\ LET content == command_receive
       IN  /\ \E cut \in SUBSET Replicas :
                 /\ Majority(Replicas \ cut)
                 /\ has_outstanding_reply' =
                       [p \in Replicas |-> IF content = None THEN has_outstanding_reply[p] ELSE p \in cut]
           /\ answers' = answers \o Voted(told, <<>>) \o Replies(content)
    /\ passed' = Nowhere /\ told' = Nowhere /\ message' = None
    /\ UNCHANGED <<uplink, decoder, last_requested, pressure, restarting, due, struck, troubles>>

Next ==
    \/ Radio \/ pingback_clip
    \/ \E r \in Replicas : command_execution_clip(r) \/ Cut(r) \/ SkipTurn(r)

Turns == Radio \/ pingback_clip \/ \E r \in Replicas : command_execution_clip(r)
Arrives == Radio /\ message' # None

Spec == Init /\ [][Next]_vars
FairSpec == Spec /\ WF_vars(Turns) /\ SF_vars(Arrives)

-----------------------------------------------------------------------------
(***************************************************************************)
(* The commands that stand in the stream are answered in order, each once  *)
(* and in full, and nothing else is: however the stream is cut into        *)
(* messages, however many commands come at once (command.c:21), and        *)
(* whatever happens to one replica of each clip (command.c:13-15).         *)
(***************************************************************************)
Answered == turn = RADIO => IsPrefix(answers, due)

(* And they all are answered in the end, if the radio passes them on.      *)
AllAnswered == <>(turn = RADIO /\ answers = due)
=============================================================================
