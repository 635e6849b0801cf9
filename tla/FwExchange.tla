----------------------------- MODULE FwExchange -----------------------------
(***************************************************************************)
(* The flight side of the FakeWire exchange protocol, src/fsw/bus/         *)
(* exchange.c, as operators on its notepad record: how a note changes when *)
(* a symbol is received, when a timer runs out and when symbols are        *)
(* transmitted.  ExchangeLink runs it against the simulator's side.        *)
(*                                                                         *)
(* A symbol is [c |-> kind, p |-> parameter]; one "DATA" symbol is a run   *)
(* of data bytes of the packet numbered p, as the decoder hands it over.   *)
(***************************************************************************)
EXTENDS Integers, Sequences

CONSTANTS
    MaxOutstandingTokens,   \* MAX_OUTSTANDING_TOKENS
    ReadFlow,               \* duct_max_flow of the read duct
    BufferRuns,             \* data runs that fit into read_buffer
    TxRoom,                 \* symbols that fit into the transmit buffer of a cycle
    Period                  \* what exchange_handshake_period_ticks may return

ASSUME FwExchangeAssumption ==
    /\ MaxOutstandingTokens \in Nat \ {0}
    /\ ReadFlow \in 1..MaxOutstandingTokens   \* FAKEWIRE_EXCHANGE_REGISTER
    /\ BufferRuns \in Nat \ {0} /\ TxRoom \in Nat
    /\ Period \subseteq Nat \ {0}

Kinds == {"START_PACKET", "DATA", "END_PACKET", "ERROR_PACKET", "FLOW_CONTROL", "KEEP_ALIVE",
          "HANDSHAKE_1", "HANDSHAKE_2"}
Symbols == [c : Kinds, p : Nat]
Symbol(c, p) == [c |-> c, p |-> p]

(* fw_exchange_t, the notepad record.                                      *)
Notes ==
    [exc_state : {"CONNECTING", "HANDSHAKING", "OPERATING"},
     recv_state : {"LISTENING", "RECEIVING", "OVERFLOWED"},
     countdown_timeout : UNION {0..n : n \in Period},
     send_handshake_id : Nat, recv_handshake_id : Nat,
     send_primary_handshake : BOOLEAN, send_secondary_handshake : BOOLEAN,
     fcts_sent : Nat, fcts_rcvd : Nat, pkts_sent : Nat, pkts_rcvd : Nat,
     resend_fcts : BOOLEAN, resend_pkts : BOOLEAN,
     read_buffer : Seq(Nat), write_needs_error : BOOLEAN]

(* exchange_instance_configure: everything is cleared but the timer, which *)
(* the caller sets.                                                        *)
exchange_instance_configure(countdown) ==
    [exc_state |-> "CONNECTING", recv_state |-> "LISTENING",
     countdown_timeout |-> countdown,
     send_handshake_id |-> 0, recv_handshake_id |-> 0,
     send_primary_handshake |-> FALSE, send_secondary_handshake |-> FALSE,
     fcts_sent |-> 0, fcts_rcvd |-> 0, pkts_sent |-> 0, pkts_rcvd |-> 0,
     resend_fcts |-> FALSE, resend_pkts |-> FALSE,
     read_buffer |-> <<>>, write_needs_error |-> FALSE]

Bug_stale_count(exc) ==
    [exchange_instance_configure(exc.countdown_timeout) EXCEPT !.pkts_rcvd = exc.pkts_rcvd]
exchange_instance_reset(exc) == exchange_instance_configure(exc.countdown_timeout)

(* exchange_instance_check_invariants, asserted by both clips.             *)
InvariantsHold(exc) ==
    /\ exc.exc_state \in {"CONNECTING", "HANDSHAKING", "OPERATING"}
    /\ exc.pkts_sent <= exc.fcts_rcvd
    /\ exc.fcts_rcvd <= exc.pkts_sent + MaxOutstandingTokens

(* period is what the random number of this clip gives.                    *)
exchange_instance_check_timers(exc, period) ==
    IF exc.countdown_timeout > 1
    THEN [exc EXCEPT !.countdown_timeout = @ - 1]
    ELSE IF exc.exc_state = "OPERATING"
    THEN [exc EXCEPT !.resend_fcts = TRUE, !.resend_pkts = TRUE,
                     !.countdown_timeout = period]
    ELSE [exc EXCEPT !.send_primary_handshake = TRUE, !.countdown_timeout = period]

-----------------------------------------------------------------------------
(* Receiving.  The state of a receive clip: the note, the packets put into *)
(* the read duct, and whether an assertion has failed.                     *)

Rx(exc) == [exc |-> exc, packets |-> <<>>, failed |-> "none"]
WithNote(rx, exc) == [exc |-> exc, packets |-> rx.packets, failed |-> rx.failed]
Failed(rx, what)  == [exc |-> rx.exc, packets |-> rx.packets, failed |-> what]

while_connecting(exc, s) ==
    IF s.c # "HANDSHAKE_1" THEN exchange_instance_reset(exc)
    ELSE [exc EXCEPT !.recv_handshake_id = s.p, !.send_secondary_handshake = TRUE]

while_handshaking(exc, s) ==
    IF s.c # "HANDSHAKE_2" \/ s.p # exc.send_handshake_id
    THEN exchange_instance_reset(exc)
    ELSE [exc EXCEPT !.exc_state = "OPERATING", !.send_primary_handshake = FALSE,
                     !.send_secondary_handshake = FALSE]

Bug_recv_start_packet(rx) ==
    IF rx.exc.fcts_sent <= rx.exc.pkts_rcvd THEN WithNote(rx, exchange_instance_reset(rx.exc))
    ELSE IF rx.exc.recv_state # "LISTENING" THEN Failed(rx, "not listening")
    ELSE WithNote(rx, [rx.exc EXCEPT !.recv_state = "RECEIVING", !.pkts_rcvd = @ + 1])
recv_start_packet(rx) ==
    LET exc == rx.exc IN
    IF exc.fcts_sent <= exc.pkts_rcvd THEN WithNote(rx, exchange_instance_reset(exc))
    ELSE IF exc.recv_state # "LISTENING" THEN Failed(rx, "not listening")
    ELSE IF Len(rx.packets) = ReadFlow THEN Failed(rx, "duct full")
    ELSE WithNote(rx, [exc EXCEPT !.read_buffer = <<>>, !.recv_state = "RECEIVING",
                                  !.pkts_rcvd = @ + 1])

recv_end_packet(rx) ==
    LET exc  == rx.exc
        idle == [exc EXCEPT !.recv_state = "LISTENING"]
    IN IF exc.recv_state = "LISTENING" THEN WithNote(rx, exchange_instance_reset(exc))
       ELSE IF exc.recv_state = "OVERFLOWED" \/ exc.read_buffer = <<>>
       THEN WithNote(rx, idle)
       ELSE [exc |-> idle, packets |-> Append(rx.packets, exc.read_buffer), failed |-> rx.failed]

recv_error_packet(exc) ==
    IF exc.recv_state = "LISTENING" THEN exchange_instance_reset(exc)
    ELSE [exc EXCEPT !.recv_state = "LISTENING"]

recv_flow_control(exc, n) ==
    IF n < exc.fcts_rcvd \/ n > exc.pkts_sent + MaxOutstandingTokens
    THEN exchange_instance_reset(exc) ELSE [exc EXCEPT !.fcts_rcvd = n]

Bug_recv_keep_alive(exc, n) == exc
recv_keep_alive(exc, n) ==
    IF exc.pkts_rcvd # n THEN exchange_instance_reset(exc) ELSE exc

while_operating(rx, s) ==
    CASE s.c = "START_PACKET" -> recv_start_packet(rx)
      [] s.c = "END_PACKET"   -> recv_end_packet(rx)
      [] s.c = "ERROR_PACKET" -> WithNote(rx, recv_error_packet(rx.exc))
      [] s.c = "FLOW_CONTROL" -> WithNote(rx, recv_flow_control(rx.exc, s.p))
      [] s.c = "KEEP_ALIVE"   -> WithNote(rx, recv_keep_alive(rx.exc, s.p))
      [] s.c = "HANDSHAKE_1"  ->
            WithNote(rx, while_connecting(exchange_instance_reset(rx.exc), s))
      [] OTHER -> WithNote(rx, exchange_instance_reset(rx.exc))

receive_data_chars(exc, p) ==
    IF exc.recv_state = "OVERFLOWED" THEN exc
    ELSE IF exc.exc_state # "OPERATING" \/ exc.recv_state # "RECEIVING"
    THEN exchange_instance_reset(exc)
    ELSE IF Len(exc.read_buffer) >= BufferRuns
    THEN [exc EXCEPT !.recv_state = "OVERFLOWED"]
    ELSE [exc EXCEPT !.read_buffer = Append(@, p)]

(* One symbol.  After a failed assertion the clip does no more.            *)
exchange_instance_receive(rx, s) ==
    IF rx.failed # "none" THEN rx
    ELSE IF s.c = "DATA" THEN WithNote(rx, receive_data_chars(rx.exc, s.p))
    ELSE CASE rx.exc.exc_state = "CONNECTING"  -> WithNote(rx, while_connecting(rx.exc, s))
           [] rx.exc.exc_state = "HANDSHAKING" -> WithNote(rx, while_handshaking(rx.exc, s))
           [] rx.exc.exc_state = "OPERATING"   -> while_operating(rx, s)

not_yet_received(exc) == IF exc.recv_state = "LISTENING" THEN ReadFlow ELSE ReadFlow - 1

exchange_instance_check_fcts(exc, period) ==
    IF exc.exc_state = "OPERATING" /\ exc.pkts_rcvd + not_yet_received(exc) > exc.fcts_sent
    THEN [exc EXCEPT !.fcts_sent = exc.pkts_rcvd + not_yet_received(exc),
                     !.resend_fcts = TRUE, !.resend_pkts = TRUE,
                     !.countdown_timeout = period]
    ELSE exc

(* The loop over the symbols of one cycle.                                 *)
ReceiveAll(rx, symbols) ==
    LET after[n \in 0..Len(symbols)] ==
            IF n = 0 THEN rx ELSE exchange_instance_receive(after[n - 1], symbols[n])
    IN after[Len(symbols)]

(* The body of fakewire_exc_rx_clip: at most receive_limit symbols are     *)
(* processed, and any beyond that are tossed.                              *)
receive_limit == 2 * ReadFlow

fakewire_exc_rx_clip(exc, symbols, period) ==
    LET early == exchange_instance_check_timers(exc, period)
        few   == Len(symbols) <= receive_limit
        rx    == ReceiveAll(Rx(early), IF few THEN symbols ELSE SubSeq(symbols, 1, receive_limit))
    IN IF rx.failed # "none" THEN [exc |-> rx.exc, packets |-> <<>>, failed |-> rx.failed]
       ELSE WithNote(rx, exchange_instance_check_fcts(
                IF few THEN rx.exc ELSE exchange_instance_reset(rx.exc), period))

-----------------------------------------------------------------------------
(* Transmitting.  The state of a transmit clip: the note and the symbols   *)
(* in the transmit buffer.                                                 *)

Fits(tx) == Len(tx.out) < TxRoom

(* The symbol goes out, and the note becomes exc.                          *)
Put(tx, exc, c, p) == [exc |-> exc, out |-> Append(tx.out, Symbol(c, p))]

transmit_tokens(tx) ==
    LET fct == IF tx.exc.resend_fcts /\ Fits(tx)
               THEN Put(tx, [tx.exc EXCEPT !.resend_fcts = FALSE], "FLOW_CONTROL", tx.exc.fcts_sent)
               ELSE tx
    IN IF fct.exc.resend_pkts /\ Fits(fct)
       THEN Put(fct, [fct.exc EXCEPT !.resend_pkts = FALSE], "KEEP_ALIVE", fct.exc.pkts_sent)
       ELSE fct

(* The secondary handshake goes first and cancels a primary one.           *)
transmit_handshakes(tx, id, period) ==
    LET idle(exc) == [exc EXCEPT !.send_primary_handshake = FALSE,
                                 !.send_secondary_handshake = FALSE]
        second == IF tx.exc.send_secondary_handshake /\ Fits(tx)
                  THEN Put(tx, [idle(tx.exc) EXCEPT !.exc_state = "OPERATING",
                                                    !.countdown_timeout = period],
                           "HANDSHAKE_2", tx.exc.recv_handshake_id)
                  ELSE tx
    IN IF second.exc.send_primary_handshake /\ Fits(second)
       THEN Put(second, [idle(second.exc) EXCEPT !.send_handshake_id = id,
                                                 !.exc_state = "HANDSHAKING"],
                "HANDSHAKE_1", id)
       ELSE second

(* A packet after an ERROR_PACKET, if one was due.  A packet that does not *)
(* fit to its end leaves one due; one that may not start is dropped.       *)
Started(tx) == Put(tx, [tx.exc EXCEPT !.pkts_sent = @ + 1], "START_PACKET", 0)
Bug_no_error_due(tx, p) ==
    IF tx.exc.pkts_sent >= tx.exc.fcts_rcvd \/ ~Fits(tx) THEN tx
    ELSE LET start == Started(tx)
             data  == IF Fits(start) THEN Put(start, start.exc, "DATA", p) ELSE start
         IN IF Fits(data) THEN Put(data, data.exc, "END_PACKET", 0) ELSE data
transmit_packet(tx, p) ==
    IF tx.exc.pkts_sent >= tx.exc.fcts_rcvd \/ ~Fits(tx) THEN tx
    ELSE LET start == Started(tx)
             data  == IF Fits(start) THEN Put(start, start.exc, "DATA", p) ELSE start
         IN IF Fits(start) /\ Fits(data) THEN Put(data, data.exc, "END_PACKET", 0)
            ELSE [exc |-> [data.exc EXCEPT !.write_needs_error = TRUE], out |-> data.out]

exchange_instance_transmit_data(tx, p) ==
    IF tx.exc.exc_state # "OPERATING" THEN tx
    ELSE IF ~tx.exc.write_needs_error THEN transmit_packet(tx, p)
    ELSE IF Fits(tx)
    THEN transmit_packet(Put(tx, [tx.exc EXCEPT !.write_needs_error = FALSE], "ERROR_PACKET", 0), p)
    ELSE tx

(* The loop over the packets of the write duct.                            *)
TransmitAll(tx, packets) ==
    LET after[n \in 0..Len(packets)] ==
            IF n = 0 THEN tx ELSE exchange_instance_transmit_data(after[n - 1], packets[n])
    IN after[Len(packets)]

fakewire_exc_tx_clip(exc, packets, id, period) ==
    TransmitAll(transmit_handshakes(transmit_tokens([exc |-> exc, out |-> <<>>]), id, period),
                packets)
=============================================================================
