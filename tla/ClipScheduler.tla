---------------------------- MODULE ClipScheduler ----------------------------
(***************************************************************************)
(* The time-partitioned scheduler of src/fsw/vivid and what brings a clip  *)
(* back after a fault: the prologue and epilogue of every clip (clip.c),   *)
(* restarts after assertions and traps (crash.c, entrypoint.s), the two    *)
(* memory scrubbers a restarted clip waits for (scrubber.c), and the       *)
(* watchdog that resets the machine when a scrubber is silent.             *)
(*                                                                         *)
(* The timer interrupts the running clip at the end of its slot, wherever  *)
(* it is, and the next clip in the schedule is entered from the top.  A    *)
(* clip that is done waits for that interrupt.  The statements that touch  *)
(* a clip's bookkeeping are separate steps, so that a slot may end between *)
(* any two of them.                                                        *)
(*                                                                         *)
(* Faults are bit flips in the code of a clip, and slots that end early.   *)
(* Code that was hit stops its clip: it traps, fails an assertion or never *)
(* ends.  Each clip has code of its own (VIVID_REPLICATE_TASK_CODE), which *)
(* the scrubbers scan in the order of the schedule.                        *)
(***************************************************************************)
EXTENDS Integers, FiniteSetsExt

CONSTANTS
    Apps,           \* clips that are not scrubbers
    Copies,         \* VIVID_SCRUBBER_COPIES
    MaxAttempts,    \* max_attempts of a scrubber_pend_t
    AspectTimeout,  \* epochs a scrubber may be silent
    Least,          \* clips whose code a scrubber scans in a turn, at least
    MaxUpsets,      \* bit flips
    MaxShort,       \* slots that are too short for a healthy clip
    MaxFaults       \* both together

ASSUME ClipAssumption ==
    /\ Apps \in Nat /\ Copies \in Nat \ {0} /\ MaxAttempts \in Nat
    /\ {AspectTimeout, Least, MaxUpsets, MaxShort, MaxFaults} \subseteq Nat

Scrubbers == Apps..Apps + Copies - 1
Clips     == 0..Apps + Copies - 1       \* schedule_partitions; the watchdog follows
Watchdog  == Apps + Copies
NULL      == -1

VARIABLES
    schedule_index,
    pc,             \* where the running clip is
    mut,            \* mut[c]: the clip_mut_t of a clip
    next_scrubbed,  \* next_scrubbed[s]: the clip whose code is next, or NULL
    stale,          \* stale[s]: epochs since the watchdog last heard of s
    damage,         \* damage[c]: what becomes of c where its code was hit
    faults,         \* [upsets, short, resets]: how many there have been
    finished,       \* the body of the running clip has returned
    whole,          \* whole[c]: it returned in c's last turn
    stops           \* stops[c]: traps since c's code was hit

vars == <<schedule_index, pc, mut, next_scrubbed, stale, damage, faults, finished, whole, stops>>

(* recursive_exception, needs_start, hit_restart and clip_running as in    *)
(* the source; clip_next_tick relative to schedule_ticks, where whatever   *)
(* is in the past is -1; of clip_pend, whether a scrub cycle has ended     *)
(* since it was filled in, and its max_attempts.                           *)
InitialMut ==
    [recursive_exception |-> FALSE, needs_start |-> TRUE, hit_restart |-> FALSE,
     clip_running |-> FALSE, clip_next_tick |-> 0, cycle_ended |-> FALSE, max_attempts |-> 0]

Kinds == {"body traps", "body asserts", "body hangs", "prologue traps", "prologue hangs"}

Mut == [recursive_exception : BOOLEAN, needs_start : BOOLEAN, hit_restart : BOOLEAN,
        clip_running : BOOLEAN, clip_next_tick : -1..1, cycle_ended : BOOLEAN,
        max_attempts : 0..MaxAttempts]

TypeOK ==
    /\ schedule_index \in Clips \cup {Watchdog}
    /\ pc \in {"enter", "resume", "resync", "restarted", "start", "body", "finish", "stop", "clear",
               "restart", "pend", "attempts", "waiting", "hung"}
    /\ mut \in [Clips -> Mut]
    /\ next_scrubbed \in [Scrubbers -> Clips \cup {NULL}]
    /\ stale \in [Scrubbers -> -1..AspectTimeout]
    /\ damage \in [Clips -> Kinds \cup {"none"}]
    /\ finished \in BOOLEAN /\ whole \in [Clips -> BOOLEAN]
    /\ \A c \in Clips : mut[c].recursive_exception /\ pc # "enter" /\ schedule_index = c
                            => mut[c].hit_restart

Init ==
    /\ schedule_index = 0 /\ pc = "enter"
    /\ mut = [c \in Clips |-> InitialMut]
    /\ next_scrubbed = [s \in Scrubbers |-> NULL]
    /\ stale = [s \in Scrubbers |-> 0]
    /\ damage = [c \in Clips |-> "none"]
    /\ faults = [upsets |-> 0, short |-> 0, resets |-> 0]
    /\ finished = FALSE
    /\ whole = [c \in Clips |-> FALSE]
    /\ stops = [c \in Clips |-> 0]

(* abort, and the hardware that loads everything again.                    *)
Reset ==
    /\ schedule_index' = 0 /\ pc' = "enter"
    /\ mut' = [c \in Clips |-> InitialMut]
    /\ next_scrubbed' = [s \in Scrubbers |-> NULL]
    /\ stale' = [s \in Scrubbers |-> 0]
    /\ damage' = [c \in Clips |-> "none"]
    /\ faults' = [faults EXCEPT !.resets = Min({@ + 1, MaxUpsets + 1})]
    /\ finished' = FALSE
    /\ whole' = [c \in Clips |-> FALSE]
    /\ stops' = [c \in Clips |-> 0]

(* There may be another fault of a kind.                                   *)
MayFault(kind, most) == faults[kind] < most /\ faults.upsets + faults.short < MaxFaults

Running(c, at) == schedule_index = c /\ pc = at
rest == <<schedule_index, next_scrubbed, stale, damage, faults, whole>>

-----------------------------------------------------------------------------
(* restart_current_clip, reached from an assertion: the slot may end       *)
(* between its statements.                                                 *)

restart(c) ==
    /\ Running(c, "restart")
    /\ mut' = [mut EXCEPT ![c].hit_restart = TRUE]
    /\ pc' = "pend"
    /\ UNCHANGED <<rest, finished, stops>>

scrubber_start_pend(c) ==
    \/ /\ Running(c, "pend")
       /\ mut' = [mut EXCEPT ![c].cycle_ended = FALSE]
       /\ pc' = "attempts"
       /\ UNCHANGED <<rest, finished, stops>>
    \/ /\ Running(c, "attempts")
       /\ mut' = [mut EXCEPT ![c].max_attempts = MaxAttempts]
       /\ pc' = "waiting"
       /\ UNCHANGED <<rest, finished, stops>>

(* TRAP_HANDLER and clip_abort_handler, with interrupts masked until the   *)
(* clip waits for its next turn.                                           *)
Bug_Trapped(c) ==
    [mut[c] EXCEPT !.recursive_exception = TRUE, !.hit_restart = TRUE]
Trapped(c) ==
    [mut[c] EXCEPT !.recursive_exception = TRUE, !.hit_restart = TRUE,
                   !.cycle_ended = FALSE, !.max_attempts = MaxAttempts]

Trap(c) ==
    IF mut[c].recursive_exception THEN Reset
    ELSE /\ mut' = [mut EXCEPT ![c] = Trapped(c)]
         /\ pc' = "waiting"
         /\ stops' = [stops EXCEPT ![c] = Min({@ + 1, Copies + 2})]
         /\ UNCHANGED <<rest, finished>>

-----------------------------------------------------------------------------
(* clip_play_direct.                                                       *)

(* scrubber_is_pend_done.                                                  *)
PendDone(m) == m.max_attempts = 0 \/ m.cycle_ended
Attempted(m) == IF m.max_attempts = 0 THEN 0 ELSE m.max_attempts - 1

(* The first branch of the prologue, up to where a clip that is not yet to *)
(* resume yields.                                                          *)
Bug_Awaiting(c) == [mut[c] EXCEPT !.max_attempts = Attempted(mut[c])]
Awaiting(c) == [mut[c] EXCEPT !.recursive_exception = FALSE, !.max_attempts = Attempted(mut[c])]

Bug_Malfunction(m) == m.clip_running
Malfunction(m) == m.clip_running \/ m.clip_next_tick # 0

clip_play_direct(c) ==
    /\ Running(c, "enter")
    /\ CASE damage[c] = "prologue traps" -> Trap(c)
         [] damage[c] = "prologue hangs" ->
                pc' = "hung" /\ UNCHANGED <<mut, rest, finished, stops>>
         [] OTHER ->
                /\ IF mut[c].hit_restart
                   THEN /\ mut' = [mut EXCEPT ![c] = Awaiting(c)]
                        /\ pc' = IF PendDone(mut[c]) THEN "resume" ELSE "waiting"
                        /\ stops' = IF PendDone(mut[c]) /\ ~mut[c].cycle_ended
                                    THEN [stops EXCEPT ![c] = 0] ELSE stops
                   ELSE /\ pc' = IF Malfunction(mut[c]) THEN "restart" ELSE "start"
                        /\ UNCHANGED <<mut, stops>>
                /\ UNCHANGED <<rest, finished>>

Resumed(c) == [mut[c] EXCEPT !.hit_restart = FALSE]
Bug_Resynched(c) == mut[c]
Resynched(c) == [mut[c] EXCEPT !.clip_next_tick = 0]
Restarted(c) == [mut[c] EXCEPT !.needs_start = TRUE]
Started(c) == [mut[c] EXCEPT !.clip_running = TRUE]

(* The statements before the body, and those after it.                     *)
Advance(c, from, m, to) ==
    /\ Running(c, from) /\ mut' = [mut EXCEPT ![c] = m] /\ pc' = to
    /\ UNCHANGED <<rest, finished, stops>>

Before(c) ==
    \/ Advance(c, "resume",    Resumed(c),   "resync")
    \/ Advance(c, "resync",    Resynched(c), "restarted")
    \/ Advance(c, "restarted", Restarted(c), "start")
    \/ Advance(c, "start",     Started(c),   "body")

After(c) ==
    \/ Advance(c, "finish", IF mut[c].clip_next_tick = 0 THEN [mut[c] EXCEPT !.clip_next_tick = 1]
                                                         ELSE mut[c],
                  IF mut[c].clip_next_tick = 0 THEN "stop" ELSE "restart")
    \/ Advance(c, "stop",   [mut[c] EXCEPT !.clip_running = FALSE], "clear")
    \/ Advance(c, "clear",  [mut[c] EXCEPT !.needs_start = FALSE],  "waiting")

(* The body of a clip whose code was hit.                                  *)
Fails(c) ==
    /\ Running(c, "body")
    /\ \/ damage[c] = "body traps" /\ Trap(c)
       \/ /\ damage[c] = "body asserts"
          /\ pc' = "restart" /\ UNCHANGED <<mut, rest, finished, stops>>
       \/ /\ damage[c] = "body hangs"
          /\ pc' = "hung" /\ UNCHANGED <<mut, rest, finished, stops>>

Body(c) ==
    /\ Running(c, "body") /\ damage[c] \notin Kinds /\ c \notin Scrubbers
    /\ pc' = "finish" /\ finished' = TRUE
    /\ UNCHANGED <<mut, rest, stops>>

(* scrubber_main_clip: from where it stopped, as far as its slot allows.   *)
From(s) == IF mut[s].needs_start THEN NULL ELSE next_scrubbed[s]
First(s) == IF From(s) = NULL THEN 0 ELSE From(s)

Scrubbed(s, upto) == [c \in Clips |-> IF c \in First(s)..upto - 1 THEN "none" ELSE damage[c]]

scrubber_main_clip(s) ==
    /\ Running(s, "body") /\ damage[s] \notin Kinds
    /\ \E upto \in First(s)..Watchdog :
          /\ upto \in {First(s), Watchdog} \/ upto >= First(s) + Least
          /\ upto = First(s) => MayFault("short", MaxShort)
          /\ faults' = IF upto = First(s) THEN [faults EXCEPT !.short = @ + 1] ELSE faults
          /\ damage' = Scrubbed(s, upto)
          /\ next_scrubbed' = [next_scrubbed EXCEPT ![s] = IF upto = Watchdog THEN NULL ELSE upto]
          /\ IF upto = From(s)      \* no progress: restartf
             THEN pc' = "restart" /\ UNCHANGED <<mut, stale, finished>>
             ELSE /\ pc' = "finish" /\ finished' = TRUE
                  /\ IF upto = Watchdog
                     THEN /\ mut' = [c \in Clips |-> [mut[c] EXCEPT !.cycle_ended = TRUE]]
                          /\ stale' = [stale EXCEPT ![s] = -1]
                     ELSE UNCHANGED <<mut, stale>>
    /\ UNCHANGED <<schedule_index, whole, stops>>

-----------------------------------------------------------------------------
(* The timer interrupt: schedule_next_clip.                                *)

EndSlot ==
    /\ schedule_index \in Clips
    /\ schedule_index' = schedule_index + 1 /\ pc' = "enter"
    /\ finished' = FALSE
    /\ whole' = [whole EXCEPT ![schedule_index] = finished]

schedule_next_clip ==
    /\ pc \in {"waiting", "hung"}
    /\ EndSlot
    /\ UNCHANGED <<mut, next_scrubbed, stale, damage, faults, stops>>

(* The slot ends too early: in the middle of a scan, what was scanned is   *)
(* repaired, and the scan is not recorded.                                 *)
Overrun ==
    /\ pc \notin {"waiting", "hung"} /\ MayFault("short", MaxShort)
    /\ EndSlot
    /\ faults' = [faults EXCEPT !.short = @ + 1]
    /\ IF schedule_index \in Scrubbers /\ pc = "body" /\ damage[schedule_index] = "none"
       THEN \E upto \in First(schedule_index)..Watchdog - 1 :
                damage' = Scrubbed(schedule_index, upto)
       ELSE UNCHANGED damage
    /\ UNCHANGED <<mut, next_scrubbed, stale, stops>>

(* The watchdog's clips, at the end of the epoch: they reset the machine    *)
(* for a scrubber that was silent too long.  Then the next epoch begins.   *)
watchdog_aspects_ok ==
    /\ schedule_index = Watchdog
    /\ IF \E s \in Scrubbers : stale[s] = AspectTimeout THEN Reset
       ELSE /\ stale' = [s \in Scrubbers |-> stale[s] + 1]
            /\ schedule_index' = 0 /\ pc' = "enter"
            /\ mut' = [c \in Clips |-> [mut[c] EXCEPT !.clip_next_tick = IF @ = 1 THEN 0 ELSE -1]]
            /\ UNCHANGED <<next_scrubbed, damage, faults, finished, whole, stops>>

(* A bit flips in the code of a clip.                                      *)
Upset(c) ==
    /\ pc = "enter" /\ damage[c] = "none"
    /\ MayFault("upsets", MaxUpsets)
    /\ faults' = [faults EXCEPT !.upsets = @ + 1]
    /\ \E kind \in Kinds : damage' = [damage EXCEPT ![c] = kind]
    /\ stops' = [stops EXCEPT ![c] = 0]
    /\ UNCHANGED <<schedule_index, pc, mut, next_scrubbed, stale, finished, whole>>

Step ==
    \/ \E c \in Clips :
          \/ clip_play_direct(c) \/ Before(c) \/ Body(c) \/ Fails(c) \/ After(c)
          \/ restart(c) \/ scrubber_start_pend(c)
    \/ \E s \in Scrubbers : scrubber_main_clip(s)
    \/ schedule_next_clip
    \/ watchdog_aspects_ok

Next == Step \/ Overrun \/ \E c \in Clips : Upset(c)

Spec == Init /\ [][Next]_vars

(* The processor runs, and the timer ticks.                                *)
FairSpec == Spec /\ WF_vars(Step)

-----------------------------------------------------------------------------
(* What the scheduler is for.                                              *)

(* A clip that is not told to start over ran to its end in the epoch       *)
(* before, wherever its turns were cut short and however it was brought    *)
(* back: the state it keeps is never that of an interrupted turn.          *)
ToldWhenCut ==
    pc = "body" => mut[schedule_index].needs_start \/ whole[schedule_index]

(* A clip traps on the same damage at most once more than there are        *)
(* scrubbers, unless it gave up waiting for them: a cycle that had passed  *)
(* its code before the damage may release it too early, but only once for  *)
(* each copy.                                                              *)
FewRetries == TypeOK /\ \A c \in Clips : stops[c] <= Copies + 1

(* The machine is reset only for damage that cannot be repaired while it   *)
(* runs: in the prologue, where a second trap is recursive, or in every    *)
(* scrubber.  One scrubber repairs the other, and scrubbers that wait for  *)
(* each other give up, before the watchdog misses either.                  *)
ResetJustified ==
    [][faults'.resets # faults.resets =>
          \/ \E c \in Clips : damage[c] = "prologue traps"
          \/ \A s \in Scrubbers : damage[s] # "none"]_vars

(* Once faults cease every clip is repaired, resumed and in step.          *)
Recovers ==
    <>[](\A c \in Clips : /\ damage[c] = "none"
                          /\ ~mut[c].hit_restart /\ ~mut[c].needs_start)
=============================================================================
