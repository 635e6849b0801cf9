-------------------------------- MODULE Codec --------------------------------
(***************************************************************************)
(* The bytes of a FakeWire link: the encoder and the decoder of the flight *)
(* software (src/fsw/bus/codec.c), those of the simulator (src/sim/        *)
(* fakewire/codec), and the injector of I/O errors between them            *)
(* (src/sim/timesync/integrate/injector.go).  One side sends, and both     *)
(* decoders read what arrives, cut into chunks anywhere: the flight        *)
(* decoder by whole chunks, once an epoch, with the part of its state that *)
(* the replicas vote on kept in between.                                   *)
(*                                                                         *)
(* An item is [c |-> control character, p |-> its parameter], or one data  *)
(* byte p if c is FWC_NONE.  Timestamps are left out.                      *)
(***************************************************************************)
EXTENDS Integers, SequencesExt

CONSTANTS
    ParamSize,      \* sizeof(uint32_t), the bytes of a parameter
    TxCapacity,     \* fwe->tx_capacity
    Runs,           \* runs of bytes sent as data
    Params,         \* parameters sent
    Rooms,          \* what data_max_len may be, 0 for no buffer
    Noise,          \* bytes an injected error may put on the line
    MaxSent,        \* bound on the items sent
    MaxErrors,      \* errors injected
    MaxResets       \* calls of fakewire_dec_reset

FWC_NONE == 0
FWC_HANDSHAKE_1  == 128
FWC_HANDSHAKE_2  == 129
FWC_START_PACKET == 130
FWC_END_PACKET   == 131
FWC_ERROR_PACKET == 132
FWC_FLOW_CONTROL == 133
FWC_KEEP_ALIVE   == 134
FWC_ESCAPE_SYM   == 135
FWC_CODEC_ERROR  == FWC_ESCAPE_SYM

fakewire_is_special(b) == b \in FWC_HANDSHAKE_1..FWC_ESCAPE_SYM
fakewire_is_parametrized(c) ==
    c \in {FWC_HANDSHAKE_1, FWC_HANDSHAKE_2, FWC_FLOW_CONTROL, FWC_KEEP_ALIVE}

CodecAssumption ==
    /\ ParamSize \in Nat \ {0} /\ TxCapacity \in Nat \ {0}
    /\ Runs \subseteq Seq(0..255) \ {<<>>}
    /\ Params \subseteq [1..ParamSize -> 0..255]
    /\ Noise \subseteq 0..255 /\ Rooms \subseteq Nat
    /\ MaxSent \in Nat /\ MaxErrors \in Nat /\ MaxResets \in Nat

VARIABLES
    sender,         \* which side sends: "flight" or "simulator"
    sent,           \* the items it has encoded
    tx_buffer,      \* the flight encoder's bytes of this cycle
    line,           \* the bytes under way
    synch,          \* the flight decoder's fw_decoder_synch_t
    chars,          \* the simulator's Decoder, with what MakeDecoder keeps
    raw,            \* the bytes received since the decoders last started afresh
    decoded,        \* and the items that the flight decoder made of them,
    simDecoded,     \* and the simulator's
    errors, resets

vars == <<sender, sent, tx_buffer, line, synch, chars, raw, decoded, simDecoded, errors, resets>>

Item(c, p) == [c |-> c, p |-> p]
Ctrl(c) == Item(c, <<>>)
DataItems(bytes) == [i \in DOMAIN bytes |-> Item(FWC_NONE, <<bytes[i]>>)]

-----------------------------------------------------------------------------
(* Encoding, alike on both sides.                                          *)

Flip(b) == IF (b \div 16) % 2 = 0 THEN b + 16 ELSE b - 16       \* b ^ 0x10

EncodeDataBytes(bytes) ==
    FlattenSeq([i \in DOMAIN bytes |-> IF fakewire_is_special(bytes[i])
                                       THEN <<FWC_ESCAPE_SYM, Flip(bytes[i])>>
                                       ELSE <<bytes[i]>>])
EncodeCtrlChar(c, p) == <<c>> \o EncodeDataBytes(p)

(* How many of the bytes the flight encoder still has room for.            *)
fakewire_enc_encode_data(bytes) ==
    Max({n \in 0..Len(bytes) :
            Len(tx_buffer) + Len(EncodeDataBytes(SubSeq(bytes, 1, n))) <= TxCapacity})

(* Room for a parameter is reserved as if all of it were to be escaped.    *)
ctrl_room(c) ==
    Len(tx_buffer) + (IF fakewire_is_parametrized(c) THEN 1 + 2 * ParamSize ELSE 1) <= TxCapacity

-----------------------------------------------------------------------------
(* The flight decoder: d is its synch part, which is kept from one epoch   *)
(* to the next, with rx, the bytes of the chunk still to be read.          *)

fakewire_dec_reset ==
    [recv_in_escape |-> FALSE, recv_current |-> FWC_NONE, recv_param |-> <<>>, rx |-> <<>>]

Bug_fakewire_dec_prepare(s, chunk) == [s EXCEPT !.rx = chunk, !.recv_in_escape = FALSE]
fakewire_dec_prepare(s, chunk) == [s EXCEPT !.rx = chunk]

Decoded(found, d, ctrl, data) == [found |-> found, d |-> d, ctrl |-> ctrl, data |-> data]

(* Data goes on to the end of the chunk or of the buffer of size max, or   *)
(* to a control character, which is left for the next call.                *)
RECURSIVE fakewire_dec_internal_decode(_, _, _)
fakewire_dec_internal_decode(d, max, data) ==
    LET byte    == Head(d.rx)
        after   == [d EXCEPT !.rx = Tail(@), !.recv_in_escape = FALSE]
        control == \/ ~d.recv_in_escape /\ fakewire_is_special(byte) /\ byte # FWC_ESCAPE_SYM
                   \/ d.recv_in_escape /\ ~fakewire_is_special(Flip(byte))
        put     == Append(data, IF d.recv_in_escape THEN Flip(byte) ELSE byte)
    IN CASE d.rx = <<>> -> Decoded(data # <<>>, d, FWC_NONE, data)
         [] d.rx # <<>> /\ control ->
              IF data # <<>> THEN Decoded(TRUE, d, FWC_NONE, data)
              ELSE IF d.recv_in_escape      \* the byte is read again, unescaped
              THEN Decoded(TRUE, [d EXCEPT !.recv_in_escape = FALSE], FWC_ESCAPE_SYM, <<>>)
              ELSE Decoded(TRUE, after, byte, <<>>)
         [] d.rx # <<>> /\ ~d.recv_in_escape /\ byte = FWC_ESCAPE_SYM ->
              fakewire_dec_internal_decode([after EXCEPT !.recv_in_escape = TRUE], max, data)
         [] OTHER ->
              IF Len(put) = max THEN Decoded(TRUE, after, FWC_NONE, put)
              ELSE fakewire_dec_internal_decode(after, max, put)

(* One call: the items it hands over, none if the chunk is used up.        *)
RECURSIVE Parameter(_)
Parameter(d) ==
    LET sub   == fakewire_dec_internal_decode(d, ParamSize - Len(d.recv_param), <<>>)
        param == d.recv_param \o sub.data
        idle  == [sub.d EXCEPT !.recv_current = FWC_NONE]
    IN IF ~sub.found THEN [d |-> sub.d, items |-> <<>>]
       ELSE IF sub.ctrl # FWC_NONE THEN [d |-> idle, items |-> <<Ctrl(FWC_CODEC_ERROR)>>]
       ELSE IF Len(param) = ParamSize
       THEN [d |-> [idle EXCEPT !.recv_param = <<>>], items |-> <<Item(d.recv_current, param)>>]
       ELSE Parameter([sub.d EXCEPT !.recv_param = param])

Bug_fakewire_dec_decode(d, max) ==
    LET ent == fakewire_dec_internal_decode(d, max, <<>>) IN
    IF d.recv_current # FWC_NONE THEN Parameter(d)
    ELSE IF fakewire_is_parametrized(ent.ctrl)
    THEN Parameter([ent.d EXCEPT !.recv_current = ent.ctrl])
    ELSE [d |-> ent.d,
          items |-> IF ent.ctrl = FWC_NONE THEN DataItems(ent.data) ELSE <<Ctrl(ent.ctrl)>>]
fakewire_dec_decode(d, max) ==
    LET ent == fakewire_dec_internal_decode(d, max, <<>>) IN
    IF d.recv_current # FWC_NONE THEN Parameter(d)
    ELSE IF fakewire_is_parametrized(ent.ctrl)
    THEN Parameter([ent.d EXCEPT !.recv_current = ent.ctrl, !.recv_param = <<>>])
    ELSE [d |-> ent.d,
          items |-> IF ent.ctrl = FWC_NONE THEN DataItems(ent.data) ELSE <<Ctrl(ent.ctrl)>>]

(* What the exchange makes of a chunk: it calls until nothing comes.       *)
RECURSIVE Drain(_, _, _)
Drain(d, max, items) ==
    LET ent == fakewire_dec_decode(d, max)
    IN IF ent.items = <<>> THEN [d |-> ent.d, items |-> items]
       ELSE Drain(ent.d, max, items \o ent.items)

-----------------------------------------------------------------------------
(* The simulator's decoder.  Each chunk is read to its end; runs of data   *)
(* are passed on before a control character and at the end.                *)

MakeDecoder == [inEscape |-> FALSE, pendingCtrl |-> FWC_NONE, recvParam |-> <<>>,
                lrData |-> <<>>, out |-> <<>>]

readData(s) ==
    LET all == s.recvParam \o s.lrData
        read == [s EXCEPT !.lrData = <<>>]
    IN IF s.pendingCtrl = FWC_NONE THEN [read EXCEPT !.out = @ \o DataItems(s.lrData)]
       ELSE IF Len(all) < ParamSize THEN [read EXCEPT !.recvParam = all]
       ELSE [read EXCEPT
               !.out = Append(@, Item(s.pendingCtrl, SubSeq(all, 1, ParamSize)))
                       \o DataItems(SubSeq(all, ParamSize + 1, Len(all))),
               !.pendingCtrl = FWC_NONE, !.recvParam = <<>>]

readCtrl(s, c) ==
    LET cut == IF s.pendingCtrl = FWC_NONE THEN s
               ELSE [s EXCEPT !.out = Append(@, Ctrl(FWC_CODEC_ERROR)), !.pendingCtrl = FWC_NONE]
    IN IF fakewire_is_parametrized(c)
       THEN [cut EXCEPT !.pendingCtrl = c, !.recvParam = <<>>]
       ELSE [cut EXCEPT !.out = Append(@, Ctrl(c))]

writeCtrl(s, c) == readCtrl(IF s.lrData = <<>> THEN s ELSE readData(s), c)

Unescaped(s, b) ==
    IF b = FWC_ESCAPE_SYM THEN [s EXCEPT !.inEscape = TRUE]
    ELSE IF fakewire_is_special(b) THEN writeCtrl(s, b)
    ELSE [s EXCEPT !.lrData = Append(@, b)]

DecodeByte(s, b) ==
    LET plain == [s EXCEPT !.inEscape = FALSE]
    IN IF ~s.inEscape THEN Unescaped(s, b)
       ELSE IF fakewire_is_special(Flip(b)) THEN [plain EXCEPT !.lrData = Append(@, Flip(b))]
       ELSE Unescaped(writeCtrl(plain, FWC_ESCAPE_SYM), b)

Decode(s, bytes) ==
    LET end == FoldLeft(DecodeByte, s, bytes)
    IN IF end.lrData = <<>> THEN end ELSE readData(end)

-----------------------------------------------------------------------------
Init ==
    /\ sender \in {"flight", "simulator"}
    /\ sent = <<>> /\ tx_buffer = <<>> /\ line = <<>>
    /\ synch = fakewire_dec_reset /\ chars = MakeDecoder
    /\ raw = <<>> /\ decoded = <<>> /\ simDecoded = <<>>
    /\ errors = 0 /\ resets = 0

Receiving == <<synch, chars, raw, decoded, simDecoded, resets>>

(* The simulator writes a control character or a packet's bytes.           *)
Parameters(c) == IF fakewire_is_parametrized(c) THEN Params ELSE {<<>>}
Sendable == {FWC_START_PACKET, FWC_FLOW_CONTROL}

Sent(items) == Len(sent) + Len(items) <= MaxSent /\ sent' = sent \o items

SimCtrl ==
    /\ sender = "simulator"
    /\ \E c \in Sendable : \E p \in Parameters(c) :
          Sent(<<Item(c, p)>>) /\ line' = line \o EncodeCtrlChar(c, p)
    /\ UNCHANGED <<sender, tx_buffer, errors, Receiving>>

SimData ==
    /\ sender = "simulator"
    /\ \E bytes \in Runs :
          Sent(DataItems(bytes)) /\ line' = line \o EncodeDataBytes(bytes)
    /\ UNCHANGED <<sender, tx_buffer, errors, Receiving>>

(* The flight exchange's transmit clip fills the buffer of its encoder.    *)
fakewire_enc_encode_ctrl ==
    /\ sender = "flight"
    /\ \E c \in Sendable : \E p \in Parameters(c) :
          /\ ctrl_room(c)
          /\ Sent(<<Item(c, p)>>)
          /\ tx_buffer' = tx_buffer \o EncodeCtrlChar(c, p)
    /\ UNCHANGED <<sender, line, errors, Receiving>>

fakewire_enc_data ==
    /\ sender = "flight"
    /\ \E bytes \in Runs :
          LET part == SubSeq(bytes, 1, fakewire_enc_encode_data(bytes))
          IN Sent(DataItems(part)) /\ tx_buffer' = tx_buffer \o EncodeDataBytes(part)
    /\ UNCHANGED <<sender, line, errors, Receiving>>

fakewire_enc_commit ==
    /\ tx_buffer # <<>>
    /\ line' = line \o tx_buffer
    /\ tx_buffer' = <<>>
    /\ UNCHANGED <<sender, sent, errors, Receiving>>

(* An injected error: a byte is changed, duplicated, inserted or dropped.  *)
rawInject ==
    /\ errors < MaxErrors /\ errors' = errors + 1
    /\ \E i \in DOMAIN line :
          \/ \E b \in Noise \ {line[i]} : line' = [line EXCEPT ![i] = b]
          \/ line' = InsertAt(line, i, line[i])
          \/ \E b \in Noise : line' = InsertAt(line, i, b)
          \/ line' = RemoveAt(line, i)
    /\ UNCHANGED <<sender, sent, tx_buffer, Receiving>>

(* The next n bytes arrive in a cycle, or none.                            *)
Receive ==
    /\ \E n \in 0..Len(line), room \in Rooms :
          \E end \in {Drain(fakewire_dec_prepare(synch, SubSeq(line, 1, n)), room, <<>>)},
             sim \in {Decode(chars, SubSeq(line, 1, n))} :
                /\ synch' = end.d /\ decoded' = decoded \o end.items
                /\ chars' = [sim EXCEPT !.out = <<>>] /\ simDecoded' = simDecoded \o sim.out
                /\ raw' = raw \o SubSeq(line, 1, n)
                /\ line' = SubSeq(line, n + 1, Len(line))
    /\ UNCHANGED <<sender, sent, tx_buffer, errors, resets>>

(* The exchange resets the decoder, tossing the n bytes that it has got,   *)
(* because its notepad is blank or it has reached its receive limit.       *)
Reset ==
    /\ resets < MaxResets /\ resets' = resets + 1
    /\ \E n \in 0..Len(line) : line' = SubSeq(line, n + 1, Len(line))
    /\ synch' = fakewire_dec_reset /\ chars' = MakeDecoder
    /\ raw' = <<>> /\ decoded' = <<>> /\ simDecoded' = <<>>
    /\ UNCHANGED <<sender, sent, tx_buffer, errors>>

Next ==
    \/ SimCtrl \/ SimData
    \/ fakewire_enc_encode_ctrl \/ fakewire_enc_data \/ fakewire_enc_commit
    \/ rawInject \/ Receive \/ Reset

Spec == Init /\ [][Next]_vars

-----------------------------------------------------------------------------
TypeOK ==
    /\ Len(tx_buffer) <= TxCapacity
    /\ synch.recv_in_escape \in BOOLEAN /\ Len(synch.recv_param) < ParamSize
    /\ synch.rx = <<>>                  \* asserted by fakewire_dec_commit

(* Without errors both decoders hand over what was sent, in order, however *)
(* the bytes are cut into cycles and chunks, and all of it once the line   *)
(* is empty: no escape, parameter or run of data suffers from a cut.       *)
RoundTrip ==
    /\ TypeOK
    /\ errors = 0 /\ resets = 0 =>
          /\ IsPrefix(decoded, sent) /\ IsPrefix(simDecoded, sent)
          /\ line = <<>> /\ tx_buffer = <<>> => decoded = sent /\ simDecoded = sent

(* What a decoder hands over depends on the bytes alone, not on how they   *)
(* are cut or what buffers the exchange provides.  An error spoils nothing *)
(* beyond the next control character without a parameter: from there on    *)
(* both read as if they had just been started.  And from there to the      *)
(* first error both read the same, and find it at the same item.           *)
Whole(bytes) == Drain(fakewire_dec_prepare(fakewire_dec_reset, bytes), 0, <<>>).items
SimWhole(bytes) == Decode(MakeDecoder, bytes).out

UpToError(items) ==
    LET bad == SelectInSeq(items, LAMBDA i : i.c = FWC_CODEC_ERROR)
    IN IF bad = 0 THEN items ELSE SubSeq(items, 1, bad)

Ends(b) == fakewire_is_special(b) /\ b # FWC_ESCAPE_SYM /\ ~fakewire_is_parametrized(b)

ReadAlike ==
    \A k \in 0..Len(raw) : k = 0 \/ Ends(raw[k]) =>
        LET before == SubSeq(raw, 1, k)
            after  == SubSeq(raw, k + 1, Len(raw))
        IN /\ decoded = Whole(before) \o Whole(after)
           /\ simDecoded = SimWhole(before) \o SimWhole(after)
           /\ UpToError(Whole(after)) = UpToError(SimWhole(after))
=============================================================================
