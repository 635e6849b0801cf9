---------------------------- MODULE ByteSchedule ----------------------------
(***************************************************************************)
(* The bytes on the air in one direction, as src/sim/telecomm/schedule.go  *)
(* and path.go keep them: each with the time at which it starts and ends.  *)
(* What has not started may still be changed.                              *)
(***************************************************************************)
EXTENDS Integers, SequencesExt

CONSTANT ByteDuration

ByteScheduleAssumption == ByteDuration \in Nat \ {0}

Bytes(s) == [i \in DOMAIN s |-> s[i].Byte]

FillBytes(s, startTime, bytes) ==
    s \o [i \in DOMAIN bytes |->
             [StartTime |-> startTime + ByteDuration * (i - 1),
              EndTime   |-> startTime + ByteDuration * i,
              Byte      |-> bytes[i]]]

ClearBytes(s, startTime) == SelectSeq(s, LAMBDA item : item.StartTime < startTime)

(* Those that ReceiveBytes takes at endTime, and those that it leaves.     *)
ReceivedAt(s, endTime) == SelectSeq(s, LAMBDA item : item.EndTime <= endTime)
LeftAt(s, endTime)     == SelectSeq(s, LAMBDA item : item.EndTime > endTime)

LastEndTime(s, now) == IF s = <<>> THEN now ELSE Max({Last(s).EndTime, now})

(* New bytes in place of all that have not started: those that would start *)
(* in the past are skipped, and the byte on the air is completed first.    *)
UpdateTransmission(s, now, start, bytes) ==
    LET skip  == IF start < now THEN 1 + (now - start - 1) \div ByteDuration ELSE 0
        from  == start + ByteDuration * skip
        fresh == SubSeq(bytes, skip + 1, Len(bytes))
        kept  == ClearBytes(s, from)
    IN FillBytes(kept, Max({from, LastEndTime(kept, now)}), fresh)

(* The bytes that have not started, and when the first of them will.       *)
CountTxBytesRemaining(s, now) == (LastEndTime(s, now) - now) \div ByteDuration
RemainingStartAt(s, now) ==
    LastEndTime(s, now) - ByteDuration * CountTxBytesRemaining(s, now)

(* The contract of a schedule: in order, and never two at once.            *)
InSequence(s) ==
    /\ \A i \in DOMAIN s : s[i].StartTime < s[i].EndTime
    /\ \A i \in 1..Len(s) - 1 : s[i].EndTime <= s[i + 1].StartTime
=============================================================================
