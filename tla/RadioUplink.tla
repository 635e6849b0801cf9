----------------------------- MODULE RadioUplink -----------------------------
(***************************************************************************)
(* The uplink of the radio: the clip of src/fsw/flight/radio_up.c, which   *)
(* moves what the radio received into the uplink pipe over RMAP, against   *)
(* the radio of src/sim/telecomm/radio/radio.go, which stores incoming     *)
(* bytes in two halves of its memory in turn.  The clip queries the        *)
(* registers, reads the half it was reading and the start of the other,    *)
(* hands an emptied half back to the radio, and passes the bytes on: one   *)
(* RMAP command in each epoch, retried until it is answered.               *)
(*                                                                         *)
(* The bytes of the uplink are numbered as they reach the antenna.         *)
(***************************************************************************)
EXTENDS Integers, Sequences, FiniteSetsExt, TLC, Rmap

CONSTANTS
    Half,           \* bytes in each half: RADIO_MEM_SIZE / 4
    LocalSize,      \* UPLINK_BUF_LOCAL_SIZE
    Rate,           \* most bytes that come in during an epoch
    MaxBytes,       \* bytes that come in altogether
    MaxLost,        \* commands or replies lost
    MaxLate,        \* epochs in which a reply is late
    MaxStalls,      \* epochs in which the uplink pipe is full
    MaxReboots

ASSUME RadioUplinkAssumption ==
    /\ {Half, LocalSize} \subseteq Nat \ {0}
    /\ {Rate, MaxBytes, MaxLost, MaxLate, MaxStalls, MaxReboots} \subseteq Nat

VARIABLES
    note,       \* the notepad: [state, plan, extracted, txn]
    buf,        \* uplink_buf_local
    command,    \* the RMAP command on its way to the radio, or NoPacket
    replies,    \* replies on their way back
    reg,        \* the radio's receive registers
    mem,        \* the radio's memory: the number of the byte at each address, 0 for none
    waited,     \* epochs without a command since the radio last looked at what came in
    incoming,   \* bytes that have come in
    dropped,    \* bytes the radio had no place for, or was told to forget
    uplinked,   \* what was written into the pipe
    failed,     \* the assertion that failed, or "none"
    faults      \* [lost, late, stalls, reboots]: how many there have been

vars == <<note, buf, command, replies, reg, mem, waited, incoming, dropped, uplinked, failed,
          faults>>

Addresses == 0..2 * Half - 1
Base(half) == half * Half
End(half) == Base(half) + Half
Other(half) == 1 - half

NoPlan == [prime_address |-> 0, prime_length |-> 0, flipped_address |-> 0, flipped_length |-> 0,
           new_registers |-> <<>>, needs_update_all |-> FALSE, needs_alt_update |-> FALSE]

Cleared == [PTR |-> 0, LEN |-> 0, PTR_ALT |-> 0, LEN_ALT |-> 0]

InitialNote == [state |-> "INITIAL_STATE", plan |-> NoPlan, extracted |-> 0,
                txn |-> rmap_synch_reset]

TypeOK ==
    /\ note.state \in {"INITIAL_STATE", "QUERY_COMMON_CONFIG", "DISABLE_RECEIVE",
                       "RESET_REGISTERS", "QUERY_STATE", "PRIME_READ", "FLIPPED_READ",
                       "REFILL_BUFFERS"} \cup (IF faults.stalls > 0 THEN {"WRITE_TO_STREAM"} ELSE {})
    /\ note.plan.prime_length + note.plan.flipped_length <= LocalSize
    /\ Len(buf) <= LocalSize /\ Len(replies) <= MaxLate + 1
    /\ reg.PTR \in 0..2 * Half /\ reg.LEN \in 0..Half
    /\ reg.RX_STATE \in {"IDLE", "LISTENING", "OVERFLOW"}
    /\ mem \in [Addresses -> 0..incoming] /\ dropped \subseteq 1..incoming

Init ==
    /\ note = InitialNote /\ buf = <<>>
    /\ command = NoPacket /\ replies = <<>>
    /\ reg = [RX_STATE |-> "IDLE"] @@ Cleared
    /\ mem = [a \in Addresses |-> 0]
    /\ waited = 0 /\ incoming = 0 /\ dropped = {} /\ uplinked = <<>>
    /\ failed = "none"
    /\ faults = [lost |-> 0, late |-> 0, stalls |-> 0, reboots |-> 0]

-----------------------------------------------------------------------------
(* radio_uplink_compute_reads.                                             *)

(* The half that ends where a register pair points to, if any does.        *)
EndsHalf(end) == {half \in {0, 1} : End(half) = end}

prime_end(r) == r.PTR + r.LEN
alt_end(r) == r.PTR_ALT + r.LEN_ALT
read_half(extracted) == IF extracted % (2 * Half) >= Half THEN 1 ELSE 0

(* What is asserted of the registers and the note when a query returns.    *)
Coherent(n, r) ==
    /\ EndsHalf(prime_end(r)) # {}
    /\ prime_end(r) # alt_end(r)
    /\ IF alt_end(r) = 0 THEN r.PTR_ALT = 0 /\ r.LEN_ALT = 0 ELSE EndsHalf(alt_end(r)) # {}
    /\ LET prime == CHOOSE half \in {0, 1} : End(half) = prime_end(r)
       IN read_half(n.extracted) = IF alt_end(r) = 0 THEN Other(prime) ELSE prime

(* The reads to make.  The length left in the half being read is unsigned: *)
(* one below zero is larger than any buffer.                               *)
Bug_Reads_whole(n, r) ==
    LET half   == read_half(n.extracted)
        offset == n.extracted % Half
        left   == IF alt_end(r) = 0 THEN Half - offset ELSE (r.PTR - Base(half)) - offset
        length == IF left < LocalSize THEN 0 ELSE LocalSize
    IN [NoPlan EXCEPT !.prime_address = Base(half) + offset, !.prime_length = length,
                      !.flipped_address = Base(Other(half))]
Reads(n, r) ==
    LET half   == read_half(n.extracted)
        offset == n.extracted % Half
        left   == IF alt_end(r) = 0 THEN Half - offset ELSE (r.PTR - Base(half)) - offset
        flip   == IF alt_end(r) = 0 THEN r.PTR - Base(Other(half)) ELSE 0
        length == IF left < 0 \/ left > LocalSize THEN LocalSize ELSE left
    IN [NoPlan EXCEPT !.prime_address = Base(half) + offset, !.prime_length = length,
                      !.flipped_address = Base(Other(half)),
                      !.flipped_length = IF length # left THEN 0 ELSE Min({flip, LocalSize - left})]

(* The registers to write back once those reads leave the alternate half   *)
(* without unread data: as after a flip when the radio has overflowed, or  *)
(* a fresh alternate half when it has none.                                *)
Refill(plan, r, unread) ==
    LET fresh == Base(IF prime_end(r) = End(1) THEN 0 ELSE 1) IN
    IF unread THEN plan
    ELSE IF r.RX_STATE = "OVERFLOW"
    THEN [plan EXCEPT !.needs_update_all = TRUE,
             !.new_registers = [PTR |-> fresh, LEN |-> Half, PTR_ALT |-> 0, LEN_ALT |-> 0,
                                RX_STATE |-> "LISTENING"]]
    ELSE IF alt_end(r) = 0
    THEN [plan EXCEPT !.needs_alt_update = TRUE,
             !.new_registers = [PTR_ALT |-> fresh, LEN_ALT |-> Half]]
    ELSE plan

Initialize == [NoPlan EXCEPT !.needs_update_all = TRUE,
    !.new_registers = [PTR |-> Base(0), LEN |-> Half, PTR_ALT |-> Base(1), LEN_ALT |-> Half,
                       RX_STATE |-> "LISTENING"]]

(* The result: the note with its new plan, and any assertion that failed.  *)
compute_reads(n, r) ==
    IF r.RX_STATE = "IDLE" THEN [note |-> [n EXCEPT !.extracted = 0, !.plan = Initialize], failed |-> "none"]
    ELSE IF ~Coherent(n, r) THEN [note |-> n, failed |-> "incoherent registers"]
    ELSE LET plan      == Reads(n, r)
             extracted == n.extracted + plan.prime_length + plan.flipped_length
             unread    == End(read_half(extracted)) # prime_end(r)
         IN [note |-> [n EXCEPT !.extracted = extracted, !.plan = Refill(plan, r, unread)],
             failed |-> IF r.RX_STATE = "OVERFLOW" /\ r.LEN # 0 THEN "overflow with room left"
                        ELSE IF unread /\ alt_end(r) # 0 THEN "unread data in the alternate half"
                        ELSE "none"]

-----------------------------------------------------------------------------
(* radio_uplink_clip, in the order of the code: the reply to the command   *)
(* of an earlier epoch, the states that need no command, the pipe, the     *)
(* next command.                                                           *)

(* What a read of the registers or of the configuration returns, as long   *)
(* as no read of the memory.                                               *)
RegistersLength == LocalSize + 1
ConfigLength == LocalSize + 2

Result(n, b, f) == [note |-> n, buf |-> b, failed |-> f]
In(n, state) == [n EXCEPT !.state = state]

AwaitWrite(n, b, packet, next) ==
    Result(IF rmap_write_complete(packet, n.txn) = "OK" THEN In(n, next) ELSE n, b, "none")

Bug_AwaitData(n, b, packet, length, next) ==
    IF rmap_read_complete(packet, n.txn, length) = "OK"
    THEN Result(In(n, next), packet.data, "none") ELSE Result(n, b, "none")
AwaitData(n, b, packet, length, next) ==
    IF rmap_read_complete(packet, n.txn, length) = "OK"
    THEN Result(In(n, next), b \o packet.data, "none") ELSE Result(n, b, "none")

Query(n, b, packet) ==
    IF rmap_read_complete(packet, n.txn, RegistersLength) # "OK" THEN Result(n, b, "none")
    ELSE LET computed == compute_reads(n, packet.data[1])
         IN Result(In(computed.note, "PRIME_READ"), <<>>, computed.failed)

Completed(n, b, packet) ==
    CASE n.state = "QUERY_COMMON_CONFIG" ->
            IF rmap_read_complete(packet, n.txn, ConfigLength) = "OK"
            THEN Result(In(n, "DISABLE_RECEIVE"), b, "none") ELSE Result(n, b, "none")
      [] n.state = "DISABLE_RECEIVE" -> AwaitWrite(n, b, packet, "RESET_REGISTERS")
      [] n.state = "RESET_REGISTERS" -> AwaitWrite(n, b, packet, "QUERY_STATE")
      [] n.state = "QUERY_STATE"     -> Query(n, b, packet)
      [] n.state = "PRIME_READ"      ->
            AwaitData(n, b, packet, n.plan.prime_length, "FLIPPED_READ")
      [] n.state = "FLIPPED_READ"    ->
            AwaitData(n, b, packet, n.plan.flipped_length, "REFILL_BUFFERS")
      [] n.state = "REFILL_BUFFERS"  -> AwaitWrite(n, b, packet, "WRITE_TO_STREAM")
      [] OTHER -> Result(n, b, "none")

Settled(n) ==
    LET started == IF n.state = "INITIAL_STATE" THEN In(n, "QUERY_COMMON_CONFIG") ELSE n
        nothing == \/ started.state = "PRIME_READ" /\ n.plan.prime_length = 0
                   \/ started.state = "FLIPPED_READ" /\ n.plan.flipped_length = 0
        read    == IF nothing THEN In(started, "REFILL_BUFFERS") ELSE started
    IN IF read.state = "REFILL_BUFFERS" /\ ~n.plan.needs_update_all /\ ~n.plan.needs_alt_update
       THEN In(read, "WRITE_TO_STREAM") ELSE read

uplink_length(n) == n.plan.prime_length + n.plan.flipped_length

Config == <<"config", 0>>
Registers == <<"registers", 0>>
Memory(a) == <<"memory", a>>

NextCommand(n) ==
    CASE n.state = "QUERY_COMMON_CONFIG" -> rmap_read_start(n.txn, Config, ConfigLength)
      [] n.state = "DISABLE_RECEIVE" -> rmap_write_start(n.txn, Registers, [RX_STATE |-> "IDLE"])
      [] n.state = "RESET_REGISTERS" -> rmap_write_start(n.txn, Registers, Cleared)
      [] n.state = "QUERY_STATE"     -> rmap_read_start(n.txn, Registers, RegistersLength)
      [] n.state = "PRIME_READ"      -> rmap_read_start(n.txn, Memory(n.plan.prime_address), n.plan.prime_length)
      [] n.state = "FLIPPED_READ"    -> rmap_read_start(n.txn, Memory(n.plan.flipped_address), n.plan.flipped_length)
      [] n.state = "REFILL_BUFFERS"  -> rmap_write_start(n.txn, Registers, n.plan.new_registers)
      [] OTHER -> NoPacket

(* One epoch.  The replies that have arrived leave the switch, which keeps *)
(* the first and drops the others; the rest are late.                      *)
UplinkClip ==
    /\ command = NoPacket /\ failed = "none"
    /\ \E arrived \in 0..Len(replies), full \in BOOLEAN :
          /\ arrived < Len(replies) => faults.late < MaxLate
          /\ \E done \in {Completed(note, buf, IF arrived = 0 THEN NoPacket ELSE Head(replies))} :
             LET settled == Settled(done.note)
                 writing == settled.state = "WRITE_TO_STREAM" /\ uplink_length(settled) > 0
                 after   == IF settled.state = "WRITE_TO_STREAM" /\ ~(writing /\ full)
                            THEN In(settled, "QUERY_STATE") ELSE settled
                 next    == NextCommand(after)
             IN /\ full => writing /\ faults.stalls < MaxStalls
                /\ failed' = done.failed
                /\ buf' = done.buf
                /\ replies' = SubSeq(replies, arrived + 1, Len(replies))
                /\ faults' = [faults EXCEPT !.late = IF arrived < Len(replies) THEN @ + 1 ELSE @,
                                            !.stalls = IF full THEN @ + 1 ELSE @]
                /\ IF done.failed # "none" THEN note' = done.note /\ UNCHANGED <<uplinked, command, waited>>
                   ELSE /\ note' = IF next = NoPacket THEN after ELSE [after EXCEPT !.txn = next.txn]
                        /\ command' = next
                        /\ waited' = IF next = NoPacket THEN waited + 1 ELSE waited
                        /\ uplinked' = IF writing /\ ~full THEN uplinked \o done.buf ELSE uplinked
    /\ UNCHANGED <<reg, mem, incoming, dropped>>

-----------------------------------------------------------------------------
(* The radio.  It looks at what has come in whenever it is accessed.       *)

Flipped(radio) ==
    IF radio.reg.LEN = 0 /\ radio.reg.LEN_ALT > 0
    THEN [radio EXCEPT !.reg = [PTR |-> @.PTR_ALT, LEN |-> @.LEN_ALT, PTR_ALT |-> 0, LEN_ALT |-> 0]
                                  @@ @]
    ELSE radio

Stored(radio) ==
    LET count == Min({Len(radio.bytes), radio.reg.LEN})
        from  == radio.reg.PTR
    IN [bytes |-> SubSeq(radio.bytes, count + 1, Len(radio.bytes)),
        reg   |-> [radio.reg EXCEPT !.PTR = @ + count, !.LEN = @ - count],
        mem   |-> [a \in Addresses |-> IF a \in from..from + count - 1
                                       THEN radio.bytes[a - from + 1] ELSE radio.mem[a]]]

(* updateTelecommSimulation.                                               *)
Received(radio) ==
    IF radio.reg.RX_STATE # "LISTENING" THEN radio
    ELSE LET filled == Flipped(Stored(Flipped(Stored(Flipped(radio)))))
         IN IF filled.bytes # <<>> THEN [filled EXCEPT !.reg.RX_STATE = "OVERFLOW"] ELSE filled

Data(radio, addr, length) ==
    CASE addr = Config    -> [i \in 1..length |-> 0]
      [] addr = Registers -> [i \in 1..length |-> radio.reg]
      [] OTHER -> [i \in 1..length |-> radio.mem[addr[2] + i - 1]]

(* The bytes it holds that were never written into the pipe.               *)
SeqRange(s) == {s[i] : i \in DOMAIN s}

(* The writes at start-up after which what it holds is not to be read: the *)
(* receiver is disabled, or set up with both halves empty.                 *)
ForgetsAll(registers) ==
    registers \in {[RX_STATE |-> "IDLE"], Initialize.new_registers}

(* The radio handles a command, unless that or its reply is lost.          *)
RadioHandles ==
    /\ command # NoPacket
    /\ command' = NoPacket
    /\ \E n \in 0..Rate * (waited + 1), lost \in {"no", "command", "reply"} :
          /\ incoming + n <= MaxBytes
          /\ lost # "no" => faults.lost < MaxLost
          /\ faults' = IF lost = "no" THEN faults ELSE [faults EXCEPT !.lost = @ + 1]
          /\ IF lost = "command" THEN n = 0 /\ waited' = waited + 1 /\ UNCHANGED <<reg, mem, incoming, dropped, replies>>
             ELSE \E radio \in {Received([reg |-> reg, mem |-> mem,
                                          bytes |-> [i \in 1..n |-> incoming + i]])} :
                  LET write   == command.op = "write"
                      forget  == write /\ command.addr = Registers /\ ForgetsAll(command.arg)
                      data    == IF write THEN <<>> ELSE Data(radio, command.addr, command.arg)
                  IN /\ waited' = 0 /\ incoming' = incoming + n
                     /\ mem' = radio.mem
                     /\ reg' = IF write THEN command.arg @@ radio.reg ELSE radio.reg
                     /\ dropped' = dropped \cup
                            (IF forget THEN 1..incoming + n \ SeqRange(uplinked) ELSE SeqRange(radio.bytes))
                     /\ replies' = IF lost = "reply" THEN replies
                                   ELSE Append(replies, Reply(command, "OK", data))
    /\ UNCHANGED <<note, buf, uplinked, failed>>

(* The flight computer starts again; the radio knows nothing of it.        *)
Reboot ==
    /\ faults.reboots < MaxReboots
    /\ faults' = [faults EXCEPT !.reboots = @ + 1]
    /\ note' = InitialNote /\ buf' = <<>>
    /\ command' = NoPacket /\ replies' = <<>>
    /\ failed' = "none"
    /\ UNCHANGED <<reg, mem, waited, incoming, dropped, uplinked>>

Next == UplinkClip \/ RadioHandles \/ Reboot

Spec == Init /\ [][Next]_vars

-----------------------------------------------------------------------------
(* What the uplink is for.                                                 *)

(* The pipe carries the bytes that came in, each once and in order, with a *)
(* gap only where the radio had no room for a byte or was told to forget   *)
(* it: the two halves are never read before they are filled, read twice,   *)
(* or overwritten before they are read.                                    *)
StreamIntact ==
    /\ \A i \in 2..Len(uplinked) : uplinked[i - 1] < uplinked[i]
    /\ \A byte \in 1..incoming :
          uplinked # <<>> /\ byte < uplinked[Len(uplinked)] => byte \in SeqRange(uplinked) \cup dropped

(* No assertion of the clip about the registers fails.                     *)
RegistersCoherent == failed = "none"

(* Once it listens, the radio always has room: the clip hands back the     *)
(* halves as fast as they fill.                                            *)
KeepsUp == reg.RX_STATE # "OVERFLOW"
=============================================================================
