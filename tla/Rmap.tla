-------------------------------- MODULE Rmap --------------------------------
(***************************************************************************)
(* The RMAP client of the flight software, src/fsw/bus/rmap.c: at most one *)
(* command is in progress, it is answered in a later epoch if at all, and  *)
(* its 16-bit transaction ID tells its reply from a stale one.  A client   *)
(* keeps the last ID it used in its own notepad; here it is passed in and  *)
(* read from the command that was sent.                                    *)
(*                                                                         *)
(* A command is [op, txn, addr, arg]: arg is the data of a write and the   *)
(* length of a read.  A reply is [op, txn, status, data].  Encoding, CRCs  *)
(* and routing addresses are left out: a packet that fails those checks is *)
(* a packet that was lost.                                                 *)
(***************************************************************************)
EXTENDS Integers, Sequences

CONSTANT TxnIds         \* transaction IDs before they repeat: 2^16

ASSUME RmapAssumption == TxnIds \in Nat \ {0}

NoPacket == [op |-> "none"]

rmap_synch_reset == 0
NextTxn(current_txn_id) == (current_txn_id + 1) % TxnIds

rmap_write_start(current_txn_id, addr, data) ==
    [op |-> "write", txn |-> NextTxn(current_txn_id), addr |-> addr, arg |-> data]
rmap_read_start(current_txn_id, addr, length) ==
    [op |-> "read", txn |-> NextTxn(current_txn_id), addr |-> addr, arg |-> length]

(* The device's answer.                                                    *)
Reply(command, status, data) ==
    [op |-> command.op, txn |-> command.txn, status |-> status, data |-> data]

(* rmap_validate_write_reply and rmap_validate_read_reply: the kind of     *)
(* reply that is awaited, with the ID of the latest command.               *)
Valid(packet, op, current_txn_id) == packet.op = op /\ packet.txn = current_txn_id

(* The status of a completed command.                                      *)
rmap_write_complete(packet, current_txn_id) ==
    IF Valid(packet, "write", current_txn_id) THEN packet.status ELSE "NO_RESPONSE"

rmap_read_complete(packet, current_txn_id, length) ==
    IF ~Valid(packet, "read", current_txn_id) THEN "NO_RESPONSE"
    ELSE IF packet.status # "OK" THEN packet.status
    ELSE IF Len(packet.data) # length THEN "READ_LENGTH_DIFFERS"
    ELSE "OK"
=============================================================================
