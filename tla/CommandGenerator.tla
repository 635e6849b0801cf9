-------------------------- MODULE CommandGenerator --------------------------
(***************************************************************************)
(* The source of commands on the ground: the generator of src/sim/telecomm *)
(* /mission/generate.go, which makes a command at random intervals, and    *)
(* the sender of src/sim/telecomm/transport/coder.go, which puts its       *)
(* packet on the air when the last one is off it and tells the generator   *)
(* so by a timer.  The generator reports each command to the verifier when *)
(* it has been sent, and the times of the report bound those of all that   *)
(* the requirements say of the command.                                    *)
(*                                                                         *)
(* Commands are numbered, and a byte is the number of its command.         *)
(***************************************************************************)
EXTENDS ByteSchedule

CONSTANTS
    Delays,         \* what randInterval may return
    Lengths,        \* of the packet of a command, in bytes
    MaxCommands

TimeNever == -1

CommandGeneratorAssumption ==
    /\ ByteScheduleAssumption
    /\ Delays \subseteq Nat \ {0} /\ Lengths \subseteq Nat \ {0} /\ MaxCommands \in Nat

VARIABLES
    now,
    schedule,       \* the bytes on the air
    generated,      \* commands generated
    pendingCmd,     \* the command to be sent, or 0
    lastPacket,     \* [command, timestamp]: what is being sent; the command is 0 if nothing is
    generate,       \* when the timer that calls genCmd fires, or TimeNever
    complete,       \* when the sender's timer fires, or TimeNever
    reports         \* [command, timestamp, at]: the calls of OnCommandUplink

vars == <<now, schedule, generated, pendingCmd, lastPacket, generate, complete, reports>>

NoCommand == [command |-> 0, timestamp |-> TimeNever]

Init ==
    /\ now = 0 /\ schedule = <<>> /\ generated = 0
    /\ pendingCmd = 0 /\ lastPacket = NoCommand
    /\ generate \in Delays          \* one second
    /\ complete = TimeNever /\ reports = <<>>

CanSend(s) == LastEndTime(s, now) <= now

(* Without room on the air, CanSend has the sender wake the generator.     *)
Wakeup(s, otherwise) == IF CanSend(s) THEN otherwise ELSE LastEndTime(s, now)

OnCommandUplink(last) ==
    reports' = IF last = NoCommand THEN reports
               ELSE Append(reports, [command |-> last.command, timestamp |-> last.timestamp, at |-> now])

(* update, with the command that is pending, wake being the sender's timer *)
(* if that has not fired: the command is sent, or waits for room, or there *)
(* is none and the last one may have been completed.                       *)
Send(command, wake) ==
    /\ \E n \in Lengths : \E s \in {UpdateTransmission(schedule, now, now, [i \in 1..n |-> command])} :
          schedule' = s /\ complete' = Wakeup(s, wake)
    /\ OnCommandUplink(lastPacket)
    /\ lastPacket' = [command |-> command, timestamp |-> now]
    /\ pendingCmd' = 0
    /\ generate' \in {now + delay : delay \in Delays}

AwaitRoom(command) ==
    /\ pendingCmd' = command /\ generate' = TimeNever
    /\ complete' = LastEndTime(schedule, now)
    /\ UNCHANGED <<schedule, lastPacket, reports>>

Bug_Idle(wake) == complete' = wake /\ UNCHANGED <<schedule, pendingCmd, generate, lastPacket, reports>>
Idle(wake) ==
    /\ complete' = IF lastPacket = NoCommand THEN wake ELSE Wakeup(schedule, wake)
    /\ IF lastPacket # NoCommand /\ CanSend(schedule)
       THEN OnCommandUplink(lastPacket) /\ lastPacket' = NoCommand
       ELSE UNCHANGED <<lastPacket, reports>>
    /\ UNCHANGED <<schedule, pendingCmd, generate>>

Update(command, wake) ==
    IF command = 0 THEN Idle(wake)
    ELSE IF CanSend(schedule) THEN Send(command, wake) ELSE AwaitRoom(command)

Due(timer) == timer # TimeNever /\ timer <= now
Generating == generated < MaxCommands /\ generate # TimeNever

(* The timer fires that makes a command.                                   *)
genCmd ==
    /\ Generating /\ Due(generate)
    /\ generated' = generated + 1
    /\ Update(generated + 1, complete)
    /\ UNCHANGED now

(* The sender's timer fires: the last packet is off the air.               *)
CompleteSend ==
    /\ Due(complete)
    /\ Update(pendingCmd, TimeNever)
    /\ UNCHANGED <<now, generated>>

(* Time passes when no timer is due, with bytes on the air or to come; the *)
(* bytes that have been sent go to the radio.                              *)
Advance ==
    /\ ~(Generating /\ Due(generate)) /\ ~Due(complete)
    /\ Generating \/ complete # TimeNever
    /\ now' = now + 1
    /\ schedule' = LeftAt(schedule, now')
    /\ UNCHANGED <<generated, pendingCmd, lastPacket, generate, complete, reports>>

Next == genCmd \/ CompleteSend \/ Advance

Spec == Init /\ [][Next]_vars

-----------------------------------------------------------------------------
TypeOK ==
    /\ InSequence(schedule)
    /\ generated \in 0..MaxCommands /\ pendingCmd \in {0, generated}
    /\ ~(generate # TimeNever /\ pendingCmd # 0)    \* the panic of genCmd

(* Each command is reported once and in order, not before its last byte is *)
(* off the air and not after the first byte of another is on it; and when  *)
(* nothing is due, nothing that was sent is unreported.                    *)
Ended == generated = MaxCommands /\ pendingCmd = 0 /\ complete = TimeNever
Off(command) == \A i \in DOMAIN schedule : schedule[i].Byte = command => schedule[i].EndTime <= now

Reported ==
    /\ TypeOK
    /\ \A i \in DOMAIN reports : reports[i].command = i /\ Off(i)
    /\ \A i, j \in DOMAIN reports : i < j => reports[i].at <= reports[j].timestamp
    /\ ~Due(generate) /\ ~Due(complete) /\ pendingCmd = 0 /\ schedule = <<>> => Len(reports) = generated
    /\ Ended => Len(reports) = MaxCommands
=============================================================================
