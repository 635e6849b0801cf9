----------------------------- MODULE SimExchange ----------------------------
(***************************************************************************)
(* The simulator's side of the FakeWire exchange protocol, sim/fakewire/   *)
(* exchange/exchange.go, as operators on its Exchange record: what a       *)
(* received symbol does, and when each of the three threads (receiver,     *)
(* transmitter, flow token) acts.  A thread that transmits holds TxBusy    *)
(* until the last symbol is accepted by the link, and may be overtaken by  *)
(* received symbols, a reset included, between any two of them.            *)
(***************************************************************************)
EXTENDS Integers, Sequences

CONSTANT MaxOutstandingTokens

Sym(c, p) == [c |-> c, p |-> p]

(* Reset: the connection state.  TxBusy and what the thread that holds it  *)
(* has still to write are not part of it.                                  *)
Disconnected ==
    [State |-> "CONNECTING", SendHandshakeId |-> 0, RecvHandshakeId |-> 0,
     SendSecondaryHandshake |-> FALSE,
     FctsSent |-> 0, FctsRcvd |-> 0, PktsSent |-> 0, PktsRcvd |-> 0,
     InboundBuffer |-> <<>>, InboundPending |-> <<>>, RecvInProgress |-> FALSE]

Exchanges ==
    [State : {"CONNECTING", "HANDSHAKING", "OPERATING"},
     SendHandshakeId : Nat, RecvHandshakeId : Nat, SendSecondaryHandshake : BOOLEAN,
     FctsSent : Nat, FctsRcvd : Nat, PktsSent : Nat, PktsRcvd : Nat,
     InboundBuffer : Seq(Nat), InboundPending : Seq(Seq(Nat)), RecvInProgress : BOOLEAN]

CheckInvariants(ex) ==
    /\ ex.State \in {"CONNECTING", "HANDSHAKING", "OPERATING"}
    /\ ex.PktsSent <= ex.FctsRcvd
    /\ ex.FctsRcvd <= ex.PktsSent + MaxOutstandingTokens

-----------------------------------------------------------------------------
(* ReceiveBytes and ReceiveCtrlChar.                                       *)

ReceiveBytes(ex, p) ==
    IF ex.State = "OPERATING" /\ ex.RecvInProgress
    THEN [ex EXCEPT !.InboundBuffer = Append(@, p)]
    ELSE Disconnected

PrimaryHandshake(ex, id) ==
    [ex EXCEPT !.RecvHandshakeId = id, !.SendSecondaryHandshake = TRUE]

EndOfPacket(ex) == [ex EXCEPT !.InboundBuffer = <<>>, !.RecvInProgress = FALSE]

(* A start of packet inside a packet panics the simulator.                 *)
Panics(ex, s) ==
    /\ ex.State = "OPERATING" /\ s.c = "START_PACKET"
    /\ ex.FctsSent > ex.PktsRcvd
    /\ ex.RecvInProgress

ReceiveOperating(ex, s) ==
    CASE s.c = "HANDSHAKE_1" -> PrimaryHandshake(Disconnected, s.p)
      [] s.c = "START_PACKET" /\ ex.FctsSent > ex.PktsRcvd ->
            [ex EXCEPT !.InboundBuffer = <<>>, !.RecvInProgress = TRUE, !.PktsRcvd = @ + 1]
      [] s.c = "END_PACKET" /\ ex.RecvInProgress ->
            [EndOfPacket(ex) EXCEPT !.InboundPending = Append(@, ex.InboundBuffer)]
      [] s.c = "ERROR_PACKET" /\ ex.RecvInProgress -> EndOfPacket(ex)
      [] s.c = "FLOW_CONTROL" /\ s.p >= ex.FctsRcvd
                              /\ s.p <= ex.PktsSent + MaxOutstandingTokens ->
            [ex EXCEPT !.FctsRcvd = s.p]
      [] s.c = "KEEP_ALIVE" /\ s.p = ex.PktsRcvd -> ex
      [] OTHER -> Disconnected

Receive(ex, s) ==
    IF s.c = "DATA" THEN ReceiveBytes(ex, s.p)
    ELSE IF ex.State = "OPERATING" THEN ReceiveOperating(ex, s)
    ELSE IF ex.State = "CONNECTING" /\ s.c = "HANDSHAKE_1" THEN PrimaryHandshake(ex, s.p)
    ELSE IF ex.State = "HANDSHAKING" /\ s.c = "HANDSHAKE_2" /\ s.p = ex.SendHandshakeId
         THEN [ex EXCEPT !.State = "OPERATING"]
    ELSE Disconnected

-----------------------------------------------------------------------------
(* The threads, each at a point where it finds TxBusy clear.               *)

Pending(ex) == Len(ex.InboundPending) + (IF ex.RecvInProgress THEN 1 ELSE 0)

MaySendToken(ex) ==
    ex.State = "OPERATING" /\ ex.FctsSent < ex.PktsRcvd + MaxOutstandingTokens - Pending(ex)

MaySendPacket(ex) == ex.State = "OPERATING" /\ ex.PktsSent < ex.FctsRcvd

(* What the flow token thread sends now that its interval has elapsed.     *)
Tokens(ex) == Sym("FLOW_CONTROL", ex.FctsSent)
KeepAlive(ex) == Sym("KEEP_ALIVE", ex.PktsSent)

(* After the secondary handshake id has been written out.                  *)
SecondarySent(ex, id) ==
    IF ex.SendSecondaryHandshake /\ id = ex.RecvHandshakeId /\ ex.State = "CONNECTING"
    THEN [ex EXCEPT !.State = "OPERATING", !.SendSecondaryHandshake = FALSE]
    ELSE ex
=============================================================================
