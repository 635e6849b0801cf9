---------------------------- MODULE ExchangeLink ----------------------------
(***************************************************************************)
(* The two sides of the FakeWire exchange protocol joined by a link: the   *)
(* flight exchange (FwExchange), which runs a transmit clip and a receive  *)
(* clip in each scheduling cycle, and the simulator's (SimExchange), whose *)
(* threads run whenever the link or a timer wakes them.  Symbols arrive in *)
(* order and after any delay.  The faults: the symbols one cycle received  *)
(* may be lost on the flight side (a link clip that was cut short), and    *)
(* the flight computer may reboot.                                         *)
(***************************************************************************)
EXTENDS FwExchange

CONSTANTS
    FwPackets,          \* packets the flight side is asked to carry
    SimPackets,         \* packets the simulator is asked to carry
    Burst,              \* packets the flight side is given in one cycle
    UpRoom,             \* bound on the symbols in flight to the flight side
    DownRoom,           \* bound on those in flight when it transmits more
    MaxLosses,          \* receive cycles lost
    MaxReboots,         \* reboots of the flight computer
    FwIds, SimIds       \* handshake IDs each side draws from; disjoint by their top bit

ASSUME ExchangeLinkAssumption ==
    /\ FwPackets \in Nat /\ SimPackets \in Nat /\ Burst \in Nat
    /\ UpRoom \in Nat /\ DownRoom \in Nat
    /\ MaxLosses \in Nat /\ MaxReboots \in Nat
    /\ FwIds \subseteq Nat \ {0} /\ SimIds \subseteq Nat \ {0} /\ FwIds \cap SimIds = {}

Sim == INSTANCE SimExchange

VARIABLES
    exc,                \* the flight side's notepad record
    clip,               \* which of its clips runs next: "tx" or "rx"
    ex,                 \* the simulator's Exchange record
    writing,            \* symbols the thread that holds TxBusy has still to write
    writer,             \* and what that thread is doing
    downlink,           \* symbols on their way from flight to simulator
    uplink,             \* symbols on their way from simulator to flight
    given,              \* [fw, sim]: packets each side was asked to carry
    delivered,          \* [fw, sim]: packets each side has handed up
    losses, reboots,
    failed              \* an assertion that failed or a panic, or "none"

vars == <<exc, clip, ex, writing, writer, downlink, uplink, given, delivered,
          losses, reboots, failed>>

TxBusy == writing # <<>>

TypeOK ==
    /\ exc \in Notes /\ ex \in Sim!Exchanges
    /\ clip \in {"tx", "rx"}
    /\ writing \in Seq(Symbols) /\ downlink \in Seq(Symbols) /\ uplink \in Seq(Symbols)
    /\ writer \in {"none", "token", "packet", "primary", "secondary", "heartbeat"}
    /\ given \in [fw : Nat, sim : Nat]
    /\ delivered \in [fw : Seq(Seq(Nat)), sim : Seq(Seq(Nat))]
    /\ losses \in Nat /\ reboots \in Nat
    /\ failed \in {"none", "not listening", "duct full", "panic"}

Init ==
    /\ exc \in {exchange_instance_configure(n) : n \in Period}
    /\ clip = "tx"
    /\ ex = Sim!Disconnected
    /\ writing = <<>> /\ writer = "none"
    /\ downlink = <<>> /\ uplink = <<>>
    /\ given = [fw |-> 0, sim |-> 0]
    /\ delivered = [fw |-> <<>>, sim |-> <<>>]
    /\ losses = 0 /\ reboots = 0
    /\ failed = "none"

-----------------------------------------------------------------------------
(* The flight side.                                                        *)

TxClip ==
    /\ clip = "tx" /\ failed # "panic"
    /\ Len(downlink) <= DownRoom
    /\ \E n \in 0..Burst, id \in FwIds, period \in Period :
          /\ given.fw + n <= FwPackets
          /\ LET tx == fakewire_exc_tx_clip(exc, [i \in 1..n |-> given.fw + i], id, period)
             IN /\ exc' = tx.exc
                /\ downlink' = downlink \o tx.out
          /\ given' = [given EXCEPT !.fw = @ + n]
    /\ clip' = "rx"
    /\ UNCHANGED <<ex, writing, writer, uplink, delivered, losses, reboots, failed>>

(* The first n symbols in flight arrive in this cycle, or are lost.        *)
RxClip ==
    /\ clip = "rx" /\ failed # "panic"
    /\ \E n \in 0..Len(uplink), period \in Period, lost \in BOOLEAN :
          /\ lost => losses < MaxLosses /\ n > 0
          /\ losses' = IF lost THEN losses + 1 ELSE losses
          /\ uplink' = SubSeq(uplink, n + 1, Len(uplink))
          /\ LET rx == fakewire_exc_rx_clip(exc, IF lost THEN <<>> ELSE SubSeq(uplink, 1, n), period)
             IN /\ exc' = rx.exc
                /\ delivered' = [delivered EXCEPT !.fw = @ \o rx.packets]
                /\ failed' = rx.failed
    /\ clip' = "tx"
    /\ UNCHANGED <<ex, writing, writer, downlink, given, reboots>>

(* The flight computer starts again: its notepads are blank, and what was  *)
(* received but not yet processed is gone.                                 *)
Reboot ==
    /\ reboots < MaxReboots /\ failed # "panic"
    /\ reboots' = reboots + 1
    /\ exc' \in {exchange_instance_configure(n) : n \in Period}
    /\ clip' = "tx"
    /\ \E n \in 0..Len(uplink) : uplink' = SubSeq(uplink, n + 1, Len(uplink))
    /\ UNCHANGED <<ex, writing, writer, downlink, given, delivered, losses, failed>>

-----------------------------------------------------------------------------
(* The simulator's side.                                                   *)

SimReceive ==
    /\ downlink # <<>> /\ failed # "panic"
    /\ downlink' = Tail(downlink)
    /\ IF Sim!Panics(ex, Head(downlink))
       THEN failed' = "panic" /\ UNCHANGED ex
       ELSE ex' = Sim!Receive(ex, Head(downlink)) /\ UNCHANGED failed
    /\ UNCHANGED <<exc, clip, writing, writer, uplink, given, delivered, losses, reboots>>

(* Transmit: a thread takes TxBusy to write some symbols.                  *)
Transmit(who, symbols) == writing' = symbols /\ writer' = who

Idle == ~TxBusy /\ failed # "panic"
ThreadUnchanged ==
    UNCHANGED <<exc, clip, downlink, uplink, delivered, losses, reboots, failed>>

SimToken ==
    /\ Idle /\ Sim!MaySendToken(ex)
    /\ ex' = [ex EXCEPT !.FctsSent = @ + 1]
    /\ Transmit("token", <<Symbol("FLOW_CONTROL", ex.FctsSent + 1)>>)
    /\ UNCHANGED given /\ ThreadUnchanged

SimPacket ==
    /\ Idle /\ Sim!MaySendPacket(ex) /\ given.sim < SimPackets
    /\ ex' = [ex EXCEPT !.PktsSent = @ + 1]
    /\ given' = [given EXCEPT !.sim = @ + 1]
    /\ Transmit("packet", <<Symbol("START_PACKET", 0), Symbol("DATA", given.sim + 1),
                            Symbol("END_PACKET", 0)>>)
    /\ ThreadUnchanged

SimSecondary ==
    /\ Idle /\ ex.SendSecondaryHandshake
    /\ Transmit("secondary", <<Symbol("HANDSHAKE_2", ex.RecvHandshakeId)>>)
    /\ UNCHANGED <<ex, given>> /\ ThreadUnchanged

(* The flow token thread's interval has elapsed, in one state or another.  *)
SimHeartbeat ==
    /\ Idle /\ ~ex.SendSecondaryHandshake /\ ex.State = "OPERATING"
    /\ Transmit("heartbeat", <<Sim!Tokens(ex)>>)
    /\ UNCHANGED <<ex, given>> /\ ThreadUnchanged

SimPrimary ==
    /\ Idle /\ ~ex.SendSecondaryHandshake /\ ex.State # "OPERATING"
    /\ \E id \in SimIds :
          /\ ex' = [ex EXCEPT !.SendHandshakeId = id, !.State = "HANDSHAKING"]
          /\ Transmit("primary", <<Symbol("HANDSHAKE_1", id)>>)
    /\ UNCHANGED given /\ ThreadUnchanged

(* The link accepts the next symbol; with the last one the thread goes on. *)
SimWrite ==
    /\ TxBusy /\ failed # "panic"
    /\ Len(uplink) < UpRoom
    /\ uplink' = Append(uplink, Head(writing))
    /\ IF Len(writing) = 1 /\ writer = "heartbeat"
       THEN Transmit("token", <<Sim!KeepAlive(ex)>>)
       ELSE Transmit(IF Len(writing) = 1 THEN "none" ELSE writer, Tail(writing))
    /\ ex' = IF writer = "secondary" THEN Sim!SecondarySent(ex, Head(writing).p) ELSE ex
    /\ UNCHANGED <<exc, clip, downlink, given, delivered, losses, reboots, failed>>

(* The receiver thread hands a packet to a sink that can accept it.        *)
SimDeliver ==
    /\ ex.InboundPending # <<>> /\ failed # "panic"
    /\ delivered' = [delivered EXCEPT !.sim = Append(@, Head(ex.InboundPending))]
    /\ ex' = [ex EXCEPT !.InboundPending = Tail(@)]
    /\ UNCHANGED <<exc, clip, writing, writer, downlink, uplink, given, losses,
                   reboots, failed>>

Next ==
    \/ TxClip \/ RxClip \/ Reboot
    \/ SimReceive \/ SimWrite \/ SimDeliver
    \/ SimToken \/ SimPacket \/ SimSecondary \/ SimHeartbeat \/ SimPrimary

Spec == Init /\ [][Next]_vars

(* The schedule runs the clips, what is in flight arrives, and each thread *)
(* that waits for TxBusy to clear gets its turn: the flow token thread is  *)
(* woken by its timer, the transmitter when a handshake is due.            *)
FairSpec ==
    /\ Spec
    /\ WF_vars(TxClip) /\ WF_vars(RxClip) /\ SF_vars(RxClip /\ uplink' = <<>>)
    /\ WF_vars(SimReceive) /\ WF_vars(SimWrite) /\ WF_vars(SimDeliver)
    /\ SF_vars(SimHeartbeat) /\ SF_vars(SimPrimary) /\ SF_vars(SimSecondary)

-----------------------------------------------------------------------------
(* What the protocol is for.                                               *)

(* Every packet handed up, on either side, is one whole packet that was    *)
(* given to the other side, and they come in order: none is torn, merged   *)
(* with another, repeated, or invented.                                    *)
Whole(packets, n) ==
    /\ \A i \in 1..Len(packets) : Len(packets[i]) = 1 /\ packets[i][1] \in 1..n
    /\ \A i, j \in 1..Len(packets) : i < j => packets[i][1] < packets[j][1]

(* Only the flight side loses symbols.                                     *)
WholePackets ==
    /\ losses = 0 => Whole(delivered.fw, given.sim)
    /\ Whole(delivered.sim, given.fw)

(* The flow control invariant that both programs assert at every step:     *)
(* neither side starts a packet it has no token for.                       *)
FlowControlled == InvariantsHold(exc) /\ Sim!CheckInvariants(ex)

(* Neither program's other assertions fail: packets never nest, and the    *)
(* read duct always has room for what the tokens sent allow.               *)
NothingFails == failed = "none"

(* The assertions of the transmit clip: what is pending fits the state.    *)
PendingFitsState ==
    /\ exc.resend_fcts \/ exc.resend_pkts => exc.exc_state = "OPERATING"
    /\ exc.send_secondary_handshake => exc.exc_state = "CONNECTING"
    /\ exc.send_primary_handshake => exc.exc_state # "OPERATING"
    /\ ex.SendSecondaryHandshake => ex.State = "CONNECTING"

(* What both programs assert, lost cycles and reboots included: no token   *)
(* is exceeded, nothing is pending that a reset should have cleared, the   *)
(* read duct has room for what the tokens allow, and no packet starts in a *)
(* packet, but on the flight side after the loss of a cycle.               *)
Asserted ==
    /\ TypeOK /\ FlowControlled /\ PendingFitsState
    /\ failed = "none" \/ (failed = "not listening" /\ losses > 0)

(* When both sides operate and nothing is in flight they agree on how many *)
(* packets went each way, and neither believes in tokens the other has not *)
(* sent: a connection is never half open or stale.                         *)
Quiescent == uplink = <<>> /\ downlink = <<>> /\ ~TxBusy /\ clip = "tx"

SidesAgree ==
    /\ exc.pkts_rcvd <= given.sim /\ ex.PktsRcvd <= given.fw
    /\ exc.fcts_sent <= given.sim + MaxOutstandingTokens
    /\ Quiescent /\ exc.exc_state = "OPERATING" /\ ex.State = "OPERATING" =>
           /\ exc.pkts_sent = ex.PktsRcvd /\ ex.PktsSent = exc.pkts_rcvd
           /\ exc.fcts_rcvd <= ex.FctsSent /\ ex.FctsRcvd <= exc.fcts_sent

(* A packet that was lost does not go unnoticed: while both sides operate, *)
(* a disagreement about the packets the simulator sent ends, at the latest *)
(* when a keep-alive exposes it and the connection is reset.               *)
LossNoticed ==
    exc.exc_state = "OPERATING" /\ exc.pkts_rcvd # ex.PktsSent
        ~> exc.exc_state # "OPERATING" \/ exc.pkts_rcvd = ex.PktsSent
=============================================================================
