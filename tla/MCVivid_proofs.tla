----------------------------- MODULE MCVivid_proofs -----------------------------
(***************************************************************************)
(* Theorems about ClipScheduler, which MCVivid extends, for any number of  *)
(* clips, scrubbers and faults: a clip that is not told to start over ran  *)
(* to its end in the epoch before; damaged code is retried a bounded       *)
(* number of times; and a machine that resets does so for damage to code   *)
(* or a missing scrubber.                                                  *)
(*                                                                         *)
(* Then about VirtioOutput, the instance O of MCVivid, for any number of   *)
(* buffers, indices that wrap anywhere, any messages and any number of     *)
(* troubles: the device is handed what was meant to be sent.               *)
(*                                                                         *)
(* Last about VirtioInput, the instance I, for any number of buffers, sizes*)
(* and troubles: what it hands over is the stream of the device in order,  *)
(* and without trouble all that its prepare clip sent.                     *)
(***************************************************************************)
EXTENDS MCVivid, FiniteSetTheorems, SequenceTheorems, NaturalsInduction, WellFoundedInduction, TLAPS

(* What is said of a clip between its turns: if its prologue would let it  *)
(* run on, then it ran to its end, or it is still to be told.              *)
RunsOn(c, due) == ~mut[c].hit_restart /\ ~mut[c].clip_running /\ mut[c].clip_next_tick = due
Sound(c) == mut[c].needs_start \/ whole[c]

ToCome(c) == schedule_index < c \/ (schedule_index = c /\ pc = "enter")

Typed ==
    /\ schedule_index \in Clips \cup {Watchdog}
    /\ mut \in [Clips -> Mut]
    /\ whole \in [Clips -> BOOLEAN]
    /\ finished \in BOOLEAN

(* A clip whose turn is to come is due in this epoch at the latest.        *)
Coming ==
    \A c \in Clips : ToCome(c) => /\ mut[c].clip_next_tick <= 0
                                  /\ RunsOn(c, 0) => Sound(c)

(* A clip whose turn is over runs on only if it is due in the next epoch.  *)
Over == \A c \in Clips : c < schedule_index /\ RunsOn(c, 1) => Sound(c)

(* The running clip.                                                       *)
Now ==
    pc # "enter" =>
        /\ schedule_index \in Clips
        /\ mut[schedule_index].clip_next_tick <= 0 \/ finished
        /\ pc \in {"start", "body"} => Sound(schedule_index)
        /\ pc \in {"finish", "stop", "clear"} => finished

IInv == Typed /\ Coming /\ Over /\ Now

-----------------------------------------------------------------------------
LEMMA Constants ==
    /\ Apps \in Nat /\ Copies \in Nat /\ Copies >= 1 /\ MaxAttempts \in Nat
    /\ Clips = 0..Watchdog - 1 /\ Watchdog \in Nat \ {0}
  BY ClipAssumption DEF ClipAssumption, Clips, Watchdog

(* A step of the running clip that changes its own bookkeeping only.       *)

LEMMA InTurn ==
    ASSUME IInv, NEW c \in Clips, schedule_index = c,
           NEW m \in Mut, mut' = [mut EXCEPT ![c] = m],
           UNCHANGED <<schedule_index, whole>>, pc' # "enter",
           finished' \in BOOLEAN, m.clip_next_tick <= 0 \/ finished',
           pc' \in {"start", "body"} => m.needs_start \/ whole[c],
           pc' \in {"finish", "stop", "clear"} => finished'
    PROVE  IInv'
<1>1. Clips = 0..Watchdog - 1 /\ Watchdog \in Nat
  BY Constants
<1>2. Typed'
  BY DEF IInv, Typed
<1>3. mut'[c] = m /\ \A d \in Clips \ {c} : mut'[d] = mut[d]
  BY DEF IInv, Typed
<1>4. Coming'
  <2> SUFFICES ASSUME NEW d \in Clips, ToCome(d)'
               PROVE  (mut[d].clip_next_tick <= 0 /\ (RunsOn(d, 0) => Sound(d)))'
    BY DEF Coming
  <2>1. d # c /\ ToCome(d)
    BY <1>1 DEF ToCome, IInv, Typed
  <2> QED
    BY <2>1, <1>3 DEF IInv, Coming, RunsOn, Sound
<1>5. Over'
  <2> SUFFICES ASSUME NEW d \in Clips, d < schedule_index, RunsOn(d, 1)'
               PROVE  Sound(d)'
    BY DEF Over
  <2>1. d # c
    BY <1>1 DEF IInv, Typed
  <2> QED
    BY <2>1, <1>3 DEF IInv, Over, RunsOn, Sound
<1>6. Now'
  BY <1>3 DEF Now, Sound
<1> QED
  BY <1>2, <1>4, <1>5, <1>6 DEF IInv

(* The same, when the clip's bookkeeping does not change.                  *)
LEMMA InTurnUnchanged ==
    ASSUME IInv, NEW c \in Clips, schedule_index = c, UNCHANGED mut,
           UNCHANGED <<schedule_index, whole>>, pc' # "enter",
           finished' \in BOOLEAN, mut[c].clip_next_tick <= 0 \/ finished',
           pc' \in {"start", "body"} => Sound(c),
           pc' \in {"finish", "stop", "clear"} => finished'
    PROVE  IInv'
<1>1. mut[c] \in Mut /\ mut' = [mut EXCEPT ![c] = mut[c]]
  BY DEF IInv, Typed
<1> QED
  BY <1>1, InTurn DEF Sound

(* A step that changes nothing the invariant speaks of but cycle_ended.    *)
LEMMA CycleEnded ==
    ASSUME IInv, NEW s \in Clips, schedule_index = s, pc = "body",
           \/ UNCHANGED mut
           \/ mut' = [c \in Clips |-> [mut[c] EXCEPT !.cycle_ended = TRUE]],
           UNCHANGED <<schedule_index, whole>>, pc' = "finish", finished' = TRUE
    PROVE  IInv'
<1>1. /\ mut' \in [Clips -> Mut]
      /\ \A c \in Clips : /\ mut'[c].hit_restart = mut[c].hit_restart
                           /\ mut'[c].clip_running = mut[c].clip_running
                           /\ mut'[c].clip_next_tick = mut[c].clip_next_tick
                           /\ mut'[c].needs_start = mut[c].needs_start
  <2>1. CASE UNCHANGED mut
    BY <2>1 DEF IInv, Typed
  <2>2. CASE mut' = [c \in Clips |-> [mut[c] EXCEPT !.cycle_ended = TRUE]]
    <3>1. ASSUME NEW m \in Mut
          PROVE  LET n == [m EXCEPT !.cycle_ended = TRUE]
                 IN /\ n \in Mut
                    /\ n.hit_restart = m.hit_restart /\ n.clip_running = m.clip_running
                    /\ n.clip_next_tick = m.clip_next_tick /\ n.needs_start = m.needs_start
      BY DEF Mut
    <3>2. \A c \in Clips : mut[c] \in Mut
      BY DEF IInv, Typed
    <3> QED
      BY <2>2, <3>1, <3>2
  <2> QED
    BY <2>1, <2>2
<1>2. Typed'
  BY <1>1 DEF IInv, Typed, Clips, Watchdog
<1>3. Coming'
  BY <1>1 DEF IInv, Coming, ToCome, RunsOn, Sound
<1>4. Over'
  BY <1>1 DEF IInv, Over, RunsOn, Sound
<1>5. Now'
  BY DEF Now
<1> QED
  BY <1>2, <1>3, <1>4, <1>5 DEF IInv

(* The end of a slot.                                                      *)
LEMMA SlotEnds ==
    ASSUME IInv, EndSlot, UNCHANGED mut
    PROVE  IInv'
<1>1. Clips = 0..Watchdog - 1 /\ Watchdog \in Nat
  BY Constants
<1>2. /\ schedule_index \in Clips /\ schedule_index' = schedule_index + 1
      /\ schedule_index' \in Clips \cup {Watchdog} /\ pc' = "enter"
  BY <1>1 DEF EndSlot
<1>3. /\ whole' \in [Clips -> BOOLEAN] /\ whole'[schedule_index] = finished
      /\ \A d \in Clips \ {schedule_index} : whole'[d] = whole[d]
  BY <1>2 DEF EndSlot, IInv, Typed, TypeOK
<1>4. Typed'
  <2>1. finished' \in BOOLEAN
    BY DEF EndSlot
  <2> QED
    BY <1>2, <1>3, <2>1 DEF IInv, Typed
<1>5. Coming'
  <2> SUFFICES ASSUME NEW d \in Clips, ToCome(d)'
               PROVE  (mut[d].clip_next_tick <= 0 /\ (RunsOn(d, 0) => Sound(d)))'
    BY DEF Coming
  <2>1. d # schedule_index /\ ToCome(d)
    BY <1>1, <1>2 DEF ToCome, IInv, Typed
  <2> QED
    BY <2>1, <1>3 DEF IInv, Coming, RunsOn, Sound
<1>6. Over'
  <2> SUFFICES ASSUME NEW d \in Clips, (d < schedule_index)', RunsOn(d, 1)'
               PROVE  Sound(d)'
    BY DEF Over
  <2>1. CASE d < schedule_index
    BY <2>1, <1>1, <1>3 DEF IInv, Over, RunsOn, Sound
  <2>2. CASE d = schedule_index
    <3>1. mut[d].clip_next_tick = 1
      BY DEF RunsOn
    <3>2. finished
      BY <2>2, <3>1 DEF IInv, Coming, Now, ToCome
    <3> QED
      BY <2>2, <3>2, <1>3 DEF Sound
  <2>3. d < schedule_index \/ d = schedule_index
    BY <1>1, <1>2
  <2> QED
    BY <2>1, <2>2, <2>3
<1>7. Now'
  BY <1>2 DEF Now
<1> QED
  BY <1>4, <1>5, <1>6, <1>7 DEF IInv

-----------------------------------------------------------------------------
LEMMA InitialMutType == InitialMut \in Mut
  BY Constants DEF InitialMut, Mut

LEMMA Initially == Init => IInv
<1> SUFFICES ASSUME Init PROVE IInv
  OBVIOUS
<1>1. Typed
  <2>1. (schedule_index \in Clips \cup {Watchdog})
    BY Constants DEF Init
  <2>2. (mut \in [Clips -> Mut])
    BY InitialMutType DEF Init
  <2>3. (finished \in BOOLEAN /\ whole \in [Clips -> BOOLEAN])
    BY DEF Init
  <2> QED
    BY <2>1, <2>2, <2>3 DEF Typed
<1>2. Coming
  BY DEF Init, Coming, Sound, InitialMut
<1>3. Over
  BY DEF Init, Over, Sound, InitialMut
<1>4. Now
  BY DEF Init, Now
<1> QED
  BY <1>1, <1>2, <1>3, <1>4 DEF IInv

LEMMA AfterReset == Reset => IInv'
<1> SUFFICES ASSUME Reset PROVE IInv'
  OBVIOUS
<1>1. Typed'
  <2>1. (schedule_index \in Clips \cup {Watchdog})'
    BY Constants DEF Reset
  <2>2. (mut \in [Clips -> Mut])'
    BY InitialMutType DEF Reset
  <2>3. (finished \in BOOLEAN /\ whole \in [Clips -> BOOLEAN])'
    BY DEF Reset
  <2> QED
    BY <2>1, <2>2, <2>3 DEF Typed
<1>2. Coming'
  BY DEF Reset, Coming, Sound, InitialMut
<1>3. Over'
  BY DEF Reset, Over, Sound, InitialMut
<1>4. Now'
  BY DEF Reset, Now
<1> QED
  BY <1>1, <1>2, <1>3, <1>4 DEF IInv

-----------------------------------------------------------------------------
(* The actions of the running clip.                                        *)

LEMMA TrapStep ==
    ASSUME IInv, NEW c \in Clips, schedule_index = c, Trap(c),
           mut[c].clip_next_tick <= 0 \/ finished
    PROVE  IInv'
<1>1. CASE mut[c].recursive_exception
  BY <1>1, AfterReset DEF Trap
<1>2. CASE ~mut[c].recursive_exception
  <2>1. mut[c] \in Mut
    BY DEF IInv, Typed
  <2>2. ASSUME NEW m \in Mut
        PROVE  LET n == [m EXCEPT !.recursive_exception = TRUE, !.hit_restart = TRUE,
                                  !.cycle_ended = FALSE, !.max_attempts = MaxAttempts]
               IN n \in Mut /\ n.clip_next_tick = m.clip_next_tick
    <3>1. MaxAttempts \in 0..MaxAttempts
      BY Constants
    <3> QED
      BY <3>1 DEF Mut
  <2>3. Trapped(c) \in Mut /\ Trapped(c).clip_next_tick = mut[c].clip_next_tick
    BY <2>1, <2>2 DEF Trapped
  <2>4. finished \in BOOLEAN
    BY DEF IInv, Typed
  <2> QED
    BY <1>2, <2>3, <2>4, InTurn DEF Trap, rest
<1> QED
  BY <1>1, <1>2

LEMMA PrologueStep ==
    ASSUME IInv, NEW c \in Clips, clip_play_direct(c) PROVE IInv'
<1>1. /\ schedule_index = c /\ pc = "enter" /\ mut[c] \in Mut
      /\ mut[c].clip_next_tick <= 0 /\ (RunsOn(c, 0) => Sound(c)) /\ finished \in BOOLEAN
  BY DEF clip_play_direct, Running, IInv, Typed, Coming, ToCome
<1>2. CASE damage[c] = "prologue traps"
  BY <1>1, <1>2, TrapStep DEF clip_play_direct
<1>3. CASE damage[c] = "prologue hangs"
  BY <1>1, <1>3, InTurnUnchanged DEF clip_play_direct, rest
<1>4. CASE damage[c] # "prologue traps" /\ damage[c] # "prologue hangs"
  <2>1. CASE mut[c].hit_restart
    <3>1. Awaiting(c) \in Mut /\ Awaiting(c).clip_next_tick = mut[c].clip_next_tick
      <4>1. ASSUME NEW m \in Mut, NEW k \in 0..MaxAttempts
            PROVE  LET n == [m EXCEPT !.recursive_exception = FALSE, !.max_attempts = k]
                   IN n \in Mut /\ n.clip_next_tick = m.clip_next_tick
        BY DEF Mut
      <4>2. Attempted(mut[c]) \in 0..MaxAttempts
        BY <1>1, Constants DEF Attempted, Mut
      <4> QED
        BY <1>1, <4>1, <4>2 DEF Awaiting
    <3>2. /\ mut' = [mut EXCEPT ![c] = Awaiting(c)] /\ pc' \in {"resume", "waiting"}
          /\ UNCHANGED <<schedule_index, whole, finished>>
      BY <1>4, <2>1 DEF clip_play_direct, rest
    <3> QED
      BY <1>1, <3>1, <3>2, InTurn
  <2>2. CASE ~mut[c].hit_restart
    <3>1. /\ pc' = IF Malfunction(mut[c]) THEN "restart" ELSE "start"
          /\ UNCHANGED <<mut, schedule_index, whole, finished>>
      BY <1>4, <2>2 DEF clip_play_direct, rest
    <3>2. ~Malfunction(mut[c]) => Sound(c)
      BY <1>1, <2>2 DEF Malfunction, RunsOn
    <3> QED
      BY <1>1, <3>1, <3>2, InTurnUnchanged
  <2> QED
    BY <2>1, <2>2
<1> QED
  BY <1>2, <1>3, <1>4

(* What the invariant says of the running clip.                            *)
LEMMA Current ==
    ASSUME IInv, NEW c \in Clips, schedule_index = c, pc # "enter"
    PROVE  /\ mut[c] \in Mut /\ finished \in BOOLEAN
           /\ mut[c].clip_next_tick <= 0 \/ finished
           /\ pc \in {"start", "body"} => Sound(c)
           /\ pc \in {"finish", "stop", "clear"} => finished
  BY DEF IInv, Typed, Now

LEMMA BeforeStep ==
    ASSUME IInv, NEW c \in Clips, Before(c) PROVE IInv'
<1> USE DEF Advance, Running, rest
<1>1. CASE Advance(c, "resume", Resumed(c), "resync")
  <2>1. Resumed(c) \in Mut /\ Resumed(c).clip_next_tick = mut[c].clip_next_tick
    BY <1>1, Current DEF Resumed, Mut
  <2> QED
    BY <1>1, <2>1, Current, InTurn
<1>2. CASE Advance(c, "resync", Resynched(c), "restarted")
  <2>1. Resynched(c) \in Mut /\ Resynched(c).clip_next_tick <= 0
    BY <1>2, Current DEF Resynched, Mut
  <2> QED
    BY <1>2, <2>1, Current, InTurn
<1>3. CASE Advance(c, "restarted", Restarted(c), "start")
  <2>1. /\ Restarted(c) \in Mut /\ Restarted(c).needs_start
        /\ Restarted(c).clip_next_tick = mut[c].clip_next_tick
    BY <1>3, Current DEF Restarted, Mut
  <2> QED
    BY <1>3, <2>1, Current, InTurn
<1>4. CASE Advance(c, "start", Started(c), "body")
  <2>1. /\ Started(c) \in Mut /\ Started(c).needs_start = mut[c].needs_start
        /\ Started(c).clip_next_tick = mut[c].clip_next_tick
    BY <1>4, Current DEF Started, Mut
  <2> QED
    BY <1>4, <2>1, Current, InTurn DEF Sound
<1> QED
  BY <1>1, <1>2, <1>3, <1>4 DEF Before

LEMMA AfterStep ==
    ASSUME IInv, NEW c \in Clips, After(c) PROVE IInv'
<1> USE DEF Advance, Running, rest
<1>1. /\ schedule_index = c /\ pc \in {"finish", "stop", "clear"} /\ mut[c] \in Mut /\ finished
      /\ UNCHANGED <<schedule_index, whole, finished>>
  <2>1. /\ schedule_index = c /\ pc \in {"finish", "stop", "clear"}
        /\ UNCHANGED <<schedule_index, whole, finished>>
    BY DEF After
  <2> QED
    BY <2>1, Current
<1>2. \E m \in Mut : mut' = [mut EXCEPT ![c] = m] /\ pc' # "enter" /\ pc' \notin {"start", "body"}
  <2>1. /\ mut[c] \in Mut
        /\ [mut[c] EXCEPT !.clip_next_tick = 1] \in Mut
        /\ [mut[c] EXCEPT !.clip_running = FALSE] \in Mut
        /\ [mut[c] EXCEPT !.needs_start = FALSE] \in Mut
    <3>1. ASSUME NEW m \in Mut
          PROVE  [m EXCEPT !.clip_next_tick = 1] \in Mut
      BY DEF Mut
    <3>2. ASSUME NEW m \in Mut
          PROVE  [m EXCEPT !.clip_running = FALSE] \in Mut
      BY DEF Mut
    <3>3. ASSUME NEW m \in Mut
          PROVE  [m EXCEPT !.needs_start = FALSE] \in Mut
      BY DEF Mut
    <3> QED
      BY <1>1, <3>1, <3>2, <3>3
  <2>2. CASE Advance(c, "finish", IF mut[c].clip_next_tick = 0
                                   THEN [mut[c] EXCEPT !.clip_next_tick = 1] ELSE mut[c],
                     IF mut[c].clip_next_tick = 0 THEN "stop" ELSE "restart")
    BY <2>1, <2>2
  <2>3. CASE Advance(c, "stop", [mut[c] EXCEPT !.clip_running = FALSE], "clear")
    BY <2>1, <2>3
  <2>4. CASE Advance(c, "clear", [mut[c] EXCEPT !.needs_start = FALSE], "waiting")
    BY <2>1, <2>4
  <2> QED
    BY <2>2, <2>3, <2>4 DEF After
<1> QED
  BY <1>1, <1>2, InTurn

LEMMA FailsStep ==
    ASSUME IInv, NEW c \in Clips, Fails(c) PROVE IInv'
<1>0. schedule_index = c /\ pc = "body"
  BY DEF Fails, Running
<1>1. CASE Trap(c)
  BY <1>0, <1>1, TrapStep, Current
<1>2. CASE pc' \in {"restart", "hung"} /\ UNCHANGED <<mut, rest, finished>>
  BY <1>0, <1>2, Current, InTurnUnchanged DEF rest
<1> QED
  BY <1>1, <1>2 DEF Fails

-----------------------------------------------------------------------------
(* Every other action.                                                     *)

LEMMA RestartStep ==
    ASSUME IInv, NEW c \in Clips, restart(c) \/ scrubber_start_pend(c) PROVE IInv'
<1>1. /\ schedule_index = c /\ pc \in {"restart", "pend", "attempts"}
      /\ pc' \in {"pend", "attempts", "waiting"}
      /\ UNCHANGED <<schedule_index, whole, finished>>
  BY DEF restart, scrubber_start_pend, Running, rest
<1>2. \E m \in Mut : mut' = [mut EXCEPT ![c] = m] /\ m.clip_next_tick = mut[c].clip_next_tick
  <2>1. ASSUME NEW m \in Mut
        PROVE  LET n == [m EXCEPT !.hit_restart = TRUE]
               IN n \in Mut /\ n.clip_next_tick = m.clip_next_tick
    BY DEF Mut
  <2>2. ASSUME NEW m \in Mut
        PROVE  LET n == [m EXCEPT !.cycle_ended = FALSE]
               IN n \in Mut /\ n.clip_next_tick = m.clip_next_tick
    BY DEF Mut
  <2>3. ASSUME NEW m \in Mut
        PROVE  LET n == [m EXCEPT !.max_attempts = MaxAttempts]
               IN n \in Mut /\ n.clip_next_tick = m.clip_next_tick
    <3>1. MaxAttempts \in 0..MaxAttempts
      BY Constants
    <3> QED
      BY <3>1 DEF Mut
  <2>4. mut[c] \in Mut
    BY DEF IInv, Typed
  <2> QED
    BY <2>1, <2>2, <2>3, <2>4 DEF restart, scrubber_start_pend
<1> QED
  BY <1>1, <1>2, Current, InTurn

LEMMA BodyStep ==
    ASSUME IInv, NEW c \in Clips, Body(c) PROVE IInv'
<1>1. /\ schedule_index = c /\ pc = "body" /\ pc' = "finish" /\ finished' = TRUE
      /\ UNCHANGED <<mut, schedule_index, whole>>
  BY DEF Body, Running, rest
<1> QED
  BY <1>1, InTurnUnchanged

LEMMA ScrubberStep ==
    ASSUME IInv, NEW s \in Clips, scrubber_main_clip(s) PROVE IInv'
<1>1. schedule_index = s /\ pc = "body" /\ UNCHANGED <<schedule_index, whole>>
  BY DEF scrubber_main_clip, Running
<1>2. \/ pc' = "restart" /\ UNCHANGED <<mut, finished>>
      \/ /\ pc' = "finish" /\ finished' = TRUE
         /\ \/ UNCHANGED mut
            \/ mut' = [c \in Clips |-> [mut[c] EXCEPT !.cycle_ended = TRUE]]
  BY DEF scrubber_main_clip
<1>3. CASE pc' = "restart" /\ UNCHANGED <<mut, finished>>
  BY <1>1, <1>3, Current, InTurnUnchanged
<1>4. CASE pc' = "finish" /\ finished'
  BY <1>1, <1>2, <1>4, CycleEnded
<1> QED
  BY <1>2, <1>3, <1>4

LEMMA EpochStep ==
    ASSUME IInv, watchdog_aspects_ok PROVE IInv'
<1>1. CASE Reset
  BY <1>1, AfterReset
<1>2. CASE /\ schedule_index' = 0 /\ pc' = "enter" /\ UNCHANGED <<finished, whole>>
           /\ mut' = [c \in Clips |-> [mut[c] EXCEPT !.clip_next_tick = IF @ = 1 THEN 0 ELSE -1]]
  <2>1. schedule_index = Watchdog
    BY DEF watchdog_aspects_ok
  <2>2. ASSUME NEW m \in Mut
        PROVE  LET n == [m EXCEPT !.clip_next_tick = IF @ = 1 THEN 0 ELSE -1]
               IN /\ n \in Mut /\ n.clip_next_tick = IF m.clip_next_tick = 1 THEN 0 ELSE -1
                  /\ n.hit_restart = m.hit_restart /\ n.clip_running = m.clip_running
                  /\ n.needs_start = m.needs_start
    BY DEF Mut
  <2>3. \A c \in Clips :
           /\ mut'[c] \in Mut
           /\ mut'[c].clip_next_tick = IF mut[c].clip_next_tick = 1 THEN 0 ELSE -1
           /\ mut'[c].hit_restart = mut[c].hit_restart
           /\ mut'[c].clip_running = mut[c].clip_running
           /\ mut'[c].needs_start = mut[c].needs_start
    BY <1>2, <2>2 DEF IInv, Typed
  <2>4. Typed'
    <3>1. schedule_index' \in Clips \cup {Watchdog}
      BY <1>2, Constants
    <3> QED
      BY <1>2, <2>3, <3>1 DEF IInv, Typed
  <2>5. Coming'
    <3> SUFFICES ASSUME NEW d \in Clips
                 PROVE  (mut[d].clip_next_tick <= 0 /\ (RunsOn(d, 0) => Sound(d)))'
      BY DEF Coming
    <3>1. mut'[d].clip_next_tick <= 0
      BY <2>3
    <3>2. d < schedule_index
      BY <2>1, Constants
    <3> QED
      BY <1>2, <2>3, <3>1, <3>2 DEF IInv, Over, RunsOn, Sound
  <2>6. Over'
    BY <1>2, Constants DEF Over
  <2>7. Now'
    BY <1>2 DEF Now
  <2> QED
    BY <2>4, <2>5, <2>6, <2>7 DEF IInv
<1> QED
  BY <1>1, <1>2 DEF watchdog_aspects_ok

LEMMA Unchanged ==
    ASSUME IInv, UNCHANGED <<schedule_index, pc, mut, finished, whole>> PROVE IInv'
  BY DEF IInv, Typed, Coming, Over, Now, ToCome, RunsOn, Sound

-----------------------------------------------------------------------------
THEOREM Inductive == IInv /\ [Next]_vars => IInv'
<1> SUFFICES ASSUME IInv, [Next]_vars PROVE IInv'
  OBVIOUS
<1>1. ASSUME NEW c \in Clips,
             \/ clip_play_direct(c) \/ Before(c) \/ Body(c) \/ Fails(c) \/ After(c)
             \/ restart(c) \/ scrubber_start_pend(c)
      PROVE  IInv'
  BY <1>1, PrologueStep, BeforeStep, BodyStep, FailsStep, AfterStep, RestartStep
<1>2. ASSUME NEW s \in Scrubbers, scrubber_main_clip(s) PROVE IInv'
  <2>1. s \in Clips
    BY ClipAssumption DEF ClipAssumption, Scrubbers, Clips
  <2> QED
    BY <1>2, <2>1, ScrubberStep
<1>3. CASE schedule_next_clip
  BY <1>3, SlotEnds DEF schedule_next_clip
<1>4. CASE Overrun
  BY <1>4, SlotEnds DEF Overrun
<1>5. CASE watchdog_aspects_ok
  BY <1>5, EpochStep
<1>6. ASSUME NEW c \in Clips, Upset(c) PROVE IInv'
  BY <1>6, Unchanged DEF Upset
<1>7. CASE UNCHANGED vars
  BY <1>7, Unchanged DEF vars
<1> QED
  BY <1>1, <1>2, <1>3, <1>4, <1>5, <1>6, <1>7 DEF Next, Step

(* A clip that is not told to start over ran to its end in the epoch       *)
(* before, wherever slots end and however it was brought back.             *)
THEOREM StartsOver == Spec => []ToldWhenCut
<1>1. IInv => ToldWhenCut
  BY DEF IInv, Now, Sound, ToldWhenCut
<1> QED
  BY <1>1, Initially, Inductive, PTL DEF Spec

-----------------------------------------------------------------------------
(* How often a clip traps on the same damage.  The scrubbers whose cycle   *)
(* has yet to come to a clip's code only become more while the code is     *)
(* damaged: one that passes it repairs it.  A clip that traps is released  *)
(* by the end of a cycle, and it is released unrepaired only by a scrubber *)
(* that was past its code and now is not.                                  *)

Behind(c) == {s \in Scrubbers : next_scrubbed[s] <= c}
Held(m) == m.hit_restart /\ ~m.cycle_ended
Damaged(c) == damage[c] # "none"
PrologueTraps(c) == damage[c] = "prologue traps"

Bounded(c) ==
    /\ stops[c] <= Copies + 1
    /\ mut[c].recursive_exception => mut[c].hit_restart
    /\ Damaged(c) =>
          /\ stops[c] <= Cardinality(Behind(c)) + 1
          /\ ~Held(mut[c]) => stops[c] <= Cardinality(Behind(c))
    /\ PrologueTraps(c) => stops[c] = 0 \/ mut[c].recursive_exception

Places == {"enter", "resume", "resync", "restarted", "start", "body", "finish", "stop", "clear",
           "restart", "pend", "attempts", "waiting", "hung"}

(* Where the prologue has brought the running clip.                        *)
Released(at, m, n) ==
    /\ at = "resume" => ~m.recursive_exception /\ (m.cycle_ended \/ n = 0)
    /\ at \in {"resync", "restarted", "start", "body"} => ~m.hit_restart

Placed ==
    /\ pc \in Places
    /\ next_scrubbed \in [Scrubbers -> Clips \cup {NULL}]
    /\ stale \in [Scrubbers -> -1..AspectTimeout]
    /\ damage \in [Clips -> Kinds \cup {"none"}]
    /\ stops \in [Clips -> Nat]
    /\ \A c \in Clips : schedule_index = c => Released(pc, mut[c], stops[c])

RInv == Placed /\ \A c \in Clips : Bounded(c)

LEMMA ScrubbersFinite == IsFiniteSet(Scrubbers) /\ Cardinality(Scrubbers) = Copies
<1>1. Apps \in Int /\ Apps + Copies - 1 \in Int /\ Apps <= Apps + Copies - 1
  BY Constants
<1> QED
  BY <1>1, FS_Interval, Constants DEF Scrubbers

LEMMA BehindFinite ==
    ASSUME NEW c PROVE /\ IsFiniteSet(Behind(c)) /\ Cardinality(Behind(c)) \in 0..Copies
<1>1. IsFiniteSet(Scrubbers) /\ Cardinality(Scrubbers) = Copies
  BY ScrubbersFinite
<1>2. Behind(c) \subseteq Scrubbers
  BY DEF Behind
<1> QED
  BY <1>1, <1>2, FS_Subset, FS_CardinalityType, Constants

(* A step of clip c that changes its own bookkeeping and nothing of what   *)
(* the scrubbers do.                                                       *)
LEMMA OwnStep ==
    ASSUME IInv, RInv, NEW c \in Clips, schedule_index = c, NEW m \in Mut, NEW n \in Nat,
           mut' = [mut EXCEPT ![c] = m], stops' = [stops EXCEPT ![c] = n],
           UNCHANGED <<schedule_index, next_scrubbed, stale, damage>>,
           pc' \in Places, Released(pc', m, n),
           n <= Copies + 1, m.recursive_exception => m.hit_restart,
           Damaged(c) => /\ n <= Cardinality(Behind(c)) + 1
                         /\ ~Held(m) => n <= Cardinality(Behind(c)),
           PrologueTraps(c) => n = 0 \/ m.recursive_exception
    PROVE  RInv'
<1>1. /\ mut'[c] = m /\ stops'[c] = n
      /\ \A d \in Clips : d # c => mut'[d] = mut[d] /\ stops'[d] = stops[d]
      /\ stops' \in [Clips -> Nat]
  BY DEF IInv, Typed, RInv, Placed
<1>2. Placed'
  BY <1>1 DEF RInv, Placed
<1>3. ASSUME NEW d \in Clips PROVE Bounded(d)'
  <2>1. /\ Behind(d)' = Behind(d)
        /\ Damaged(d)' = Damaged(d) /\ PrologueTraps(d)' = PrologueTraps(d)
    BY DEF Behind, Damaged, PrologueTraps
  <2>2. CASE d = c
    BY <2>1, <2>2, <1>1 DEF Bounded
  <2>3. CASE d # c
    BY <2>1, <2>3, <1>1 DEF RInv, Bounded
  <2> QED
    BY <2>2, <2>3
<1> QED
  BY <1>2, <1>3 DEF RInv

(* ... and counts no trap.                                                 *)
LEMMA QuietStep ==
    ASSUME IInv, RInv, NEW c \in Clips, schedule_index = c, NEW m \in Mut,
           mut' = [mut EXCEPT ![c] = m],
           UNCHANGED <<schedule_index, next_scrubbed, stale, damage, stops>>,
           pc' \in Places, Released(pc', m, stops[c]),
           m.recursive_exception => m.hit_restart,
           \/ Held(m)
           \/ ~Held(mut[c])
           \/ stops[c] = 0,
           m.recursive_exception = mut[c].recursive_exception
    PROVE  RInv'
<1>1. stops[c] \in Nat /\ stops' = [stops EXCEPT ![c] = stops[c]]
  BY DEF RInv, Placed
<1>2. Bounded(c)
  BY DEF RInv
<1>3. Cardinality(Behind(c)) \in Nat
  BY BehindFinite
<1>4. stops[c] <= Copies + 1 /\ (PrologueTraps(c) => stops[c] = 0 \/ m.recursive_exception)
  BY <1>2 DEF Bounded
<1>5. Damaged(c) => /\ stops[c] <= Cardinality(Behind(c)) + 1
                    /\ ~Held(m) => stops[c] <= Cardinality(Behind(c))
  BY <1>2, <1>3 DEF Bounded
<1> QED
  BY <1>1, <1>4, <1>5, OwnStep

(* Records with one field changed.                                         *)
LEMMA WithHit ==
    ASSUME NEW m \in Mut, NEW b \in BOOLEAN
    PROVE  LET n == [m EXCEPT !.hit_restart = b]
           IN /\ n \in Mut /\ n.hit_restart = b /\ n.cycle_ended = m.cycle_ended
              /\ n.recursive_exception = m.recursive_exception
BY DEF Mut

LEMMA WithStart ==
    ASSUME NEW m \in Mut, NEW b \in BOOLEAN
    PROVE  LET n == [m EXCEPT !.needs_start = b]
           IN /\ n \in Mut /\ n.hit_restart = m.hit_restart /\ n.cycle_ended = m.cycle_ended
              /\ n.recursive_exception = m.recursive_exception
BY DEF Mut

LEMMA WithRunning ==
    ASSUME NEW m \in Mut, NEW b \in BOOLEAN
    PROVE  LET n == [m EXCEPT !.clip_running = b]
           IN /\ n \in Mut /\ n.hit_restart = m.hit_restart /\ n.cycle_ended = m.cycle_ended
              /\ n.recursive_exception = m.recursive_exception
BY DEF Mut

LEMMA WithTick ==
    ASSUME NEW m \in Mut, NEW k \in -1..1
    PROVE  LET n == [m EXCEPT !.clip_next_tick = k]
           IN /\ n \in Mut /\ n.hit_restart = m.hit_restart /\ n.cycle_ended = m.cycle_ended
              /\ n.recursive_exception = m.recursive_exception
BY DEF Mut

LEMMA WithAttempts ==
    ASSUME NEW m \in Mut, NEW k \in 0..MaxAttempts
    PROVE  LET n == [m EXCEPT !.max_attempts = k]
           IN /\ n \in Mut /\ n.hit_restart = m.hit_restart /\ n.cycle_ended = m.cycle_ended
              /\ n.recursive_exception = m.recursive_exception
BY DEF Mut

LEMMA WithCycle ==
    ASSUME NEW m \in Mut, NEW b \in BOOLEAN
    PROVE  LET n == [m EXCEPT !.cycle_ended = b]
           IN /\ n \in Mut /\ n.hit_restart = m.hit_restart /\ n.cycle_ended = b
              /\ n.recursive_exception = m.recursive_exception
BY DEF Mut

LEMMA InitialRetries ==
    /\ Init => RInv
    /\ Reset => RInv'
<1>1. /\ InitialMut.recursive_exception = FALSE /\ InitialMut.hit_restart = FALSE
  BY DEF InitialMut
<1>2. ASSUME NEW c PROVE Cardinality(Behind(c)) \in Nat /\ (Cardinality(Behind(c)) \in Nat)'
  <2>1. Cardinality(Behind(c)) \in Nat
    BY BehindFinite
  <2>2. IsFiniteSet(Scrubbers)
    BY ScrubbersFinite
  <2>3. (Cardinality(Behind(c)) \in Nat)'
    BY <2>2, FS_Subset, FS_CardinalityType DEF Behind
  <2> QED
    BY <2>1, <2>3
<1>3. 0 \in -1..AspectTimeout
  BY ClipAssumption DEF ClipAssumption
<1>4. ASSUME Init PROVE RInv
  <2>1. Placed
    BY <1>1, <1>3, <1>4 DEF Init, Placed, Places, Released
  <2>2. \A c \in Clips : Bounded(c)
    BY <1>1, <1>2, <1>4, Constants DEF Init, Bounded, Damaged, PrologueTraps
  <2> QED
    BY <2>1, <2>2 DEF RInv
<1>5. ASSUME Reset PROVE RInv'
  <2>1. Placed'
    BY <1>1, <1>3, <1>5 DEF Reset, Placed, Places, Released
  <2>2. \A c \in Clips : Bounded(c)'
    BY <1>1, <1>2, <1>5, Constants DEF Reset, Bounded, Damaged, PrologueTraps
  <2> QED
    BY <2>1, <2>2 DEF RInv
<1> QED
  BY <1>4, <1>5

(* A trap holds the clip until a cycle has ended: in its body it was not   *)
(* held before, and in its prologue it has not trapped before.             *)
Trapping(c) ==
    /\ Damaged(c)
    /\ pc = "body" \/ PrologueTraps(c)

LEMMA TrapRetries ==
    ASSUME IInv, RInv, NEW c \in Clips, schedule_index = c, Trap(c), Trapping(c)
    PROVE  RInv'
<1>1. CASE mut[c].recursive_exception
  BY <1>1, InitialRetries DEF Trap
<1>2. CASE ~mut[c].recursive_exception
  <2>1. /\ mut' = [mut EXCEPT ![c] = Trapped(c)] /\ pc' = "waiting"
        /\ stops' = [stops EXCEPT ![c] = Min({stops[c] + 1, Copies + 2})]
        /\ UNCHANGED <<schedule_index, next_scrubbed, stale, damage>>
    BY <1>2 DEF Trap, rest, RInv, Placed
  <2>2. /\ Trapped(c) \in Mut /\ Trapped(c).recursive_exception
        /\ Trapped(c).hit_restart /\ ~Trapped(c).cycle_ended
    <3>1. ASSUME NEW m \in Mut
          PROVE  LET n == [m EXCEPT !.recursive_exception = TRUE, !.hit_restart = TRUE,
                                    !.cycle_ended = FALSE, !.max_attempts = MaxAttempts]
                 IN n \in Mut /\ n.recursive_exception /\ n.hit_restart /\ ~n.cycle_ended
      <4>1. MaxAttempts \in 0..MaxAttempts
        BY Constants
      <4> QED
        BY <4>1 DEF Mut
    <3>2. mut[c] \in Mut
      BY DEF IInv, Typed
    <3> QED
      BY <3>1, <3>2 DEF Trapped
  <2>3. stops[c] \in Nat /\ Cardinality(Behind(c)) \in 0..Copies
    BY BehindFinite DEF RInv, Placed
  <2>4. stops[c] <= Cardinality(Behind(c))
    <3>1. CASE pc = "body"
      <4>1. ~Held(mut[c])
        BY <3>1 DEF RInv, Placed, Released, Held
      <4> QED
        BY <4>1 DEF RInv, Bounded, Trapping
    <3>2. CASE PrologueTraps(c)
      BY <3>2, <1>2, <2>3 DEF RInv, Bounded
    <3> QED
      BY <3>1, <3>2 DEF Trapping
  <2>5. Min({stops[c] + 1, Copies + 2}) = stops[c] + 1
    <3>1. stops[c] + 1 <= Copies + 2 /\ stops[c] + 1 \in Int /\ Copies + 2 \in Int
      BY <2>3, <2>4, Constants
    <3> DEFINE S == {stops[c] + 1, Copies + 2}
    <3>2. stops[c] + 1 \in S /\ \A y \in S : stops[c] + 1 <= y
      BY <3>1
    <3>3. \A x \in S : (\A y \in S : x <= y) => x = stops[c] + 1
      BY <3>1
    <3> QED
      BY <3>2, <3>3 DEF Min
  <2>6. Released("waiting", Trapped(c), stops[c] + 1)
    BY DEF Released
  <2>7. /\ stops[c] + 1 \in Nat /\ stops[c] + 1 <= Copies + 1
        /\ stops[c] + 1 <= Cardinality(Behind(c)) + 1
    BY <2>3, <2>4, Constants
  <2>8. Held(Trapped(c)) /\ "waiting" \in Places
    BY <2>2 DEF Held, Places
  <2>9. mut' = [mut EXCEPT ![c] = Trapped(c)] /\ stops' = [stops EXCEPT ![c] = stops[c] + 1]
    BY <2>1, <2>5
  <2> QED
    BY <2>1, <2>2, <2>6, <2>7, <2>8, <2>9, OwnStep
<1> QED
  BY <1>1, <1>2

LEMMA PrologueRetries ==
    ASSUME IInv, RInv, NEW c \in Clips, clip_play_direct(c) PROVE RInv'
<1>1. schedule_index = c /\ pc = "enter" /\ mut[c] \in Mut /\ stops[c] \in Nat
  BY DEF clip_play_direct, Running, IInv, Typed, RInv, Placed
<1>2. Bounded(c)
  BY DEF RInv
<1>3. CASE damage[c] = "prologue traps"
  <2>1. Trap(c) /\ Trapping(c)
    BY <1>3 DEF clip_play_direct, Trapping, Damaged, PrologueTraps
  <2> QED
    BY <1>1, <2>1, TrapRetries
<1>4. CASE damage[c] = "prologue hangs"
  <2>1. /\ mut' = [mut EXCEPT ![c] = mut[c]] /\ pc' = "hung"
        /\ UNCHANGED <<schedule_index, next_scrubbed, stale, damage, stops>>
    BY <1>4 DEF clip_play_direct, rest, IInv, Typed
  <2>2. "hung" \in Places /\ Released("hung", mut[c], stops[c])
    BY DEF Places, Released
  <2> QED
    BY <1>1, <1>2, <2>1, <2>2, QuietStep DEF Bounded
<1>5. CASE damage[c] # "prologue traps" /\ damage[c] # "prologue hangs"
  <2>1. CASE mut[c].hit_restart
    <3> DEFINE m == Awaiting(c)
               n == IF PendDone(mut[c]) /\ ~mut[c].cycle_ended THEN 0 ELSE stops[c]
    <3>1. /\ m \in Mut /\ ~m.recursive_exception /\ m.hit_restart
          /\ m.cycle_ended = mut[c].cycle_ended
      <4>1. ASSUME NEW x \in Mut, NEW k \in 0..MaxAttempts
            PROVE  LET y == [x EXCEPT !.recursive_exception = FALSE, !.max_attempts = k]
                   IN /\ y \in Mut /\ ~y.recursive_exception
                      /\ y.hit_restart = x.hit_restart /\ y.cycle_ended = x.cycle_ended
        BY DEF Mut
      <4>2. Attempted(mut[c]) \in 0..MaxAttempts
        BY <1>1, Constants DEF Attempted, Mut
      <4> QED
        BY <1>1, <2>1, <4>1, <4>2 DEF Awaiting
    <3>2. /\ mut' = [mut EXCEPT ![c] = m]
          /\ UNCHANGED <<schedule_index, next_scrubbed, stale, damage>>
          /\ \/ pc' = "waiting" /\ stops' = stops
             \/ pc' = "resume" /\ stops' = [stops EXCEPT ![c] = n] /\ (m.cycle_ended \/ n = 0)
      <4>1. CASE PendDone(mut[c])
        <5>1. stops' = [stops EXCEPT ![c] = n]
          BY <1>1, <1>5, <2>1, <4>1 DEF clip_play_direct, RInv, Placed
        <5> QED
          BY <1>5, <2>1, <3>1, <4>1, <5>1 DEF clip_play_direct, rest
      <4>2. CASE ~PendDone(mut[c])
        BY <1>5, <2>1, <4>2 DEF clip_play_direct, rest
      <4> QED
        BY <4>1, <4>2
    <3>3. PICK k \in {n, stops[c]} :
             /\ stops' = [stops EXCEPT ![c] = k] /\ pc' \in Places /\ Released(pc', m, k)
      <4>1. stops = [stops EXCEPT ![c] = stops[c]]
        BY DEF RInv, Placed
      <4> QED
        BY <3>1, <3>2, <4>1 DEF Places, Released
    <3>4. k \in Nat /\ (k = 0 \/ k = stops[c])
      BY <1>1
    <3>5. Cardinality(Behind(c)) \in Nat /\ Copies \in Nat
      BY BehindFinite, Constants
    <3>6. /\ k <= Copies + 1
          /\ Damaged(c) => /\ k <= Cardinality(Behind(c)) + 1
                           /\ ~Held(m) => k <= Cardinality(Behind(c))
      <4>1. Held(m) = Held(mut[c])
        BY <2>1, <3>1 DEF Held
      <4> QED
        BY <1>2, <3>4, <3>5, <4>1 DEF Bounded
    <3>7. ~PrologueTraps(c)
      BY <1>5 DEF PrologueTraps
    <3> HIDE DEF m, n
    <3> QED
      BY <1>1, <3>1, <3>2, <3>3, <3>4, <3>6, <3>7, OwnStep
  <2>2. CASE ~mut[c].hit_restart
    <3>1. /\ mut' = [mut EXCEPT ![c] = mut[c]] /\ pc' \in {"restart", "start"}
          /\ UNCHANGED <<schedule_index, next_scrubbed, stale, damage, stops>>
      BY <1>5, <2>2 DEF clip_play_direct, rest, IInv, Typed
    <3>2. pc' \in Places /\ Released(pc', mut[c], stops[c])
      BY <2>2, <3>1 DEF Places, Released
    <3> QED
      BY <1>1, <1>2, <3>1, <3>2, QuietStep DEF Bounded
  <2> QED
    BY <2>1, <2>2
<1> QED
  BY <1>3, <1>4, <1>5

(* The statements around the body.  Only "resume" ends the hold, and there *)
(* a cycle has ended or the clip gave up.                                  *)
LEMMA AdvanceRetries ==
    ASSUME IInv, RInv, NEW c \in Clips, NEW from, NEW m, NEW to \in Places,
           Advance(c, from, m, to), m \in Mut,
           m.cycle_ended = mut[c].cycle_ended,
           m.recursive_exception = mut[c].recursive_exception,
           \/ m.hit_restart = mut[c].hit_restart
           \/ from = "resume",
           to \in {"resync", "restarted", "start", "body"} =>
              \/ from = "resume" /\ ~m.hit_restart
              \/ from \in {"resync", "restarted", "start"},
           to # "resume"
    PROVE  RInv'
<1>1. /\ schedule_index = c /\ pc = from /\ mut' = [mut EXCEPT ![c] = m] /\ pc' = to
      /\ UNCHANGED <<schedule_index, next_scrubbed, stale, damage, stops>>
  BY DEF Advance, Running, rest
<1>2. Released(from, mut[c], stops[c]) /\ Bounded(c)
  BY <1>1 DEF RInv, Placed
<1>3. Released(to, m, stops[c])
  BY <1>2 DEF Released
<1>4. m.recursive_exception => m.hit_restart
  BY <1>2 DEF Bounded, Released
<1>5. Held(m) \/ ~Held(mut[c]) \/ stops[c] = 0
  BY <1>2 DEF Held, Released
<1> QED
  BY <1>1, <1>3, <1>4, <1>5, QuietStep

LEMMA BeforeRetries ==
    ASSUME IInv, RInv, NEW c \in Clips, Before(c) PROVE RInv'
<1>0. mut[c] \in Mut /\ {"resync", "restarted", "start", "body"} \subseteq Places
  BY DEF IInv, Typed, Places
<1>1. CASE Advance(c, "resume", Resumed(c), "resync")
  BY <1>0, <1>1, WithHit, AdvanceRetries DEF Resumed
<1>2. CASE Advance(c, "resync", Resynched(c), "restarted")
  <2>1. 0 \in -1..1
    OBVIOUS
  <2> QED
    BY <1>0, <1>2, <2>1, WithTick, AdvanceRetries DEF Resynched
<1>3. CASE Advance(c, "restarted", Restarted(c), "start")
  BY <1>0, <1>3, WithStart, AdvanceRetries DEF Restarted
<1>4. CASE Advance(c, "start", Started(c), "body")
  BY <1>0, <1>4, WithRunning, AdvanceRetries DEF Started
<1> QED
  BY <1>1, <1>2, <1>3, <1>4 DEF Before

LEMMA AfterRetries ==
    ASSUME IInv, RInv, NEW c \in Clips, After(c) PROVE RInv'
<1>0. mut[c] \in Mut /\ {"stop", "restart", "clear", "waiting"} \subseteq Places
  BY DEF IInv, Typed, Places
<1> DEFINE m == IF mut[c].clip_next_tick = 0 THEN [mut[c] EXCEPT !.clip_next_tick = 1] ELSE mut[c]
           to == IF mut[c].clip_next_tick = 0 THEN "stop" ELSE "restart"
<1>1. CASE Advance(c, "finish", m, to)
  <2>1. /\ m \in Mut /\ m.hit_restart = mut[c].hit_restart
        /\ m.cycle_ended = mut[c].cycle_ended
        /\ m.recursive_exception = mut[c].recursive_exception
    <3>1. 1 \in -1..1
      OBVIOUS
    <3> QED
      BY <1>0, <3>1, WithTick
  <2>2. to \in Places /\ to \notin {"resync", "restarted", "start", "body", "resume"}
    BY <1>0
  <2> HIDE DEF m, to
  <2> QED
    BY <1>1, <2>1, <2>2, AdvanceRetries
<1>2. CASE Advance(c, "stop", [mut[c] EXCEPT !.clip_running = FALSE], "clear")
  BY <1>0, <1>2, WithRunning, AdvanceRetries
<1>3. CASE Advance(c, "clear", [mut[c] EXCEPT !.needs_start = FALSE], "waiting")
  BY <1>0, <1>3, WithStart, AdvanceRetries
<1> QED
  BY <1>1, <1>2, <1>3 DEF After

(* A restart may hold the clip, and hides the end of a cycle from it.      *)
LEMMA RestartRetries ==
    ASSUME IInv, RInv, NEW c \in Clips, restart(c) \/ scrubber_start_pend(c) PROVE RInv'
<1>1. /\ schedule_index = c /\ pc \in {"restart", "pend", "attempts"}
      /\ pc' \in {"pend", "attempts", "waiting"}
      /\ UNCHANGED <<schedule_index, next_scrubbed, stale, damage, stops>>
  BY DEF restart, scrubber_start_pend, Running, rest
<1>2. mut[c] \in Mut /\ Bounded(c) /\ MaxAttempts \in 0..MaxAttempts
  BY Constants DEF IInv, Typed, RInv
<1>3. \E m \in Mut : /\ mut' = [mut EXCEPT ![c] = m]
                     /\ m.recursive_exception = mut[c].recursive_exception
                     /\ mut[c].hit_restart => m.hit_restart
                     /\ Held(m) \/ ~Held(mut[c])
  <2>1. CASE mut' = [mut EXCEPT ![c].hit_restart = TRUE]
    <3>1. mut' = [mut EXCEPT ![c] = [mut[c] EXCEPT !.hit_restart = TRUE]]
      BY <2>1
    <3> QED
      BY <1>2, <3>1, WithHit DEF Held
  <2>2. CASE mut' = [mut EXCEPT ![c].cycle_ended = FALSE]
    <3>1. mut' = [mut EXCEPT ![c] = [mut[c] EXCEPT !.cycle_ended = FALSE]]
      BY <2>2
    <3> QED
      BY <1>2, <3>1, WithCycle DEF Held
  <2>3. CASE mut' = [mut EXCEPT ![c].max_attempts = MaxAttempts]
    <3>1. mut' = [mut EXCEPT ![c] = [mut[c] EXCEPT !.max_attempts = MaxAttempts]]
      BY <2>3
    <3>2. /\ [mut[c] EXCEPT !.max_attempts = MaxAttempts] \in Mut
          /\ LET n == [mut[c] EXCEPT !.max_attempts = MaxAttempts]
             IN /\ n.hit_restart = mut[c].hit_restart /\ n.cycle_ended = mut[c].cycle_ended
                /\ n.recursive_exception = mut[c].recursive_exception
      BY <1>2, WithAttempts
    <3> QED
      BY <3>1, <3>2 DEF Held
  <2> QED
    BY <2>1, <2>2, <2>3 DEF restart, scrubber_start_pend
<1>4. PICK m \in Mut : /\ mut' = [mut EXCEPT ![c] = m]
                       /\ m.recursive_exception = mut[c].recursive_exception
                       /\ mut[c].hit_restart => m.hit_restart
                       /\ Held(m) \/ ~Held(mut[c])
  BY <1>3
<1>5. /\ pc' \in Places /\ Released(pc', m, stops[c])
      /\ m.recursive_exception => m.hit_restart
  BY <1>1, <1>2, <1>4 DEF Places, Released, Bounded
<1> QED
  BY <1>1, <1>4, <1>5, QuietStep

LEMMA BodyRetries ==
    ASSUME IInv, RInv, NEW c \in Clips, Body(c) \/ Fails(c) PROVE RInv'
<1>1. schedule_index = c /\ pc = "body" /\ mut[c] \in Mut /\ Bounded(c)
  BY DEF Body, Fails, Running, IInv, Typed, RInv
<1>2. CASE damage[c] = "body traps" /\ Trap(c)
  <2>1. Trapping(c)
    BY <1>1, <1>2 DEF Trapping, Damaged
  <2> QED
    BY <1>1, <1>2, <2>1, TrapRetries
<1>3. CASE /\ pc' \in {"finish", "restart", "hung"}
           /\ UNCHANGED <<mut, schedule_index, next_scrubbed, stale, damage, stops>>
  <2>1. pc' \in Places /\ Released(pc', mut[c], stops[c]) /\ mut' = [mut EXCEPT ![c] = mut[c]]
    BY <1>3 DEF Places, Released, IInv, Typed
  <2> QED
    BY <1>1, <1>3, <2>1, QuietStep DEF Bounded
<1> QED
  BY <1>2, <1>3 DEF Body, Fails, rest

-----------------------------------------------------------------------------
(* Steps that leave the clip's own bookkeeping alone, or end a cycle.      *)

LEMMA OthersRetries ==
    ASSUME RInv, NEW d \in Clips, stops'[d] = stops[d],
           mut'[d].recursive_exception = mut[d].recursive_exception,
           mut'[d].hit_restart = mut[d].hit_restart,
           damage'[d] \in {damage[d], "none"},
           Damaged(d)' => /\ Behind(d) \subseteq Behind(d)'
                          /\ \/ mut'[d].cycle_ended = mut[d].cycle_ended
                             \/ \E s \in Scrubbers : s \in Behind(d)' /\ s \notin Behind(d)
    PROVE  Bounded(d)'
<1>1. Bounded(d) /\ stops[d] \in Nat
  BY DEF RInv, Placed
<1>2. (Damaged(d)' => Damaged(d)) /\ (PrologueTraps(d)' => PrologueTraps(d))
  BY DEF Damaged, PrologueTraps
<1>3. ASSUME Damaged(d)'
      PROVE  /\ stops[d] <= Cardinality(Behind(d)') + 1
             /\ ~Held(mut[d])' => stops[d] <= Cardinality(Behind(d)')
  <2>0. IsFiniteSet(Scrubbers) /\ Behind(d)' \subseteq Scrubbers
    BY ScrubbersFinite DEF Behind
  <2>1. /\ IsFiniteSet(Behind(d)') /\ Cardinality(Behind(d)') \in Nat
        /\ IsFiniteSet(Behind(d)) /\ Cardinality(Behind(d)) \in Nat
    BY <2>0, FS_Subset, FS_CardinalityType, BehindFinite
  <2>2. Cardinality(Behind(d)) <= Cardinality(Behind(d)')
    BY <1>3, <2>1, FS_Subset
  <2>3. CASE mut'[d].cycle_ended = mut[d].cycle_ended
    <3>1. Held(mut[d])' = Held(mut[d])
      BY <2>3 DEF Held
    <3> QED
      BY <1>1, <1>2, <1>3, <2>1, <2>2, <3>1 DEF Bounded
  <2>4. CASE \E s \in Scrubbers : s \in Behind(d)' /\ s \notin Behind(d)
    <3>1. PICK s \in Scrubbers : s \in Behind(d)' /\ s \notin Behind(d)
      BY <2>4
    <3>2. Cardinality(Behind(d) \cup {s}) = Cardinality(Behind(d)) + 1
      BY <2>1, <3>1, FS_AddElement
    <3>3. Behind(d) \cup {s} \subseteq Behind(d)'
      BY <1>3, <3>1
    <3>4. Cardinality(Behind(d)) + 1 <= Cardinality(Behind(d)')
      BY <2>1, <3>2, <3>3, FS_Subset
    <3> QED
      BY <1>1, <1>2, <1>3, <2>1, <3>4 DEF Bounded
  <2> QED
    BY <1>3, <2>3, <2>4
<1> QED
  BY <1>1, <1>2, <1>3 DEF Bounded

LEMMA ScrubbersAreClips ==
    /\ Scrubbers \subseteq Clips
    /\ \A c \in Clips : c \in Int /\ 0 <= c /\ c < Watchdog
BY Constants DEF Scrubbers, Clips, Watchdog

(* A scrubber that passes damaged code repairs it; if it ends its cycle    *)
(* all the same, it was past that code before.                             *)
LEMMA ScrubberRetries ==
    ASSUME IInv, RInv, NEW s \in Scrubbers, scrubber_main_clip(s) PROVE RInv'
<1>1. /\ schedule_index = s /\ schedule_index' = s /\ pc = "body" /\ UNCHANGED stops
      /\ s \in Clips /\ ~mut[s].hit_restart
  BY ScrubbersAreClips DEF scrubber_main_clip, Running, RInv, Placed, Released
<1>2. PICK upto \in First(s)..Watchdog :
         /\ damage' = Scrubbed(s, upto)
         /\ next_scrubbed' = [next_scrubbed EXCEPT ![s] = IF upto = Watchdog THEN NULL ELSE upto]
         /\ IF upto = From(s)
            THEN pc' = "restart" /\ UNCHANGED <<mut, stale, finished>>
            ELSE /\ pc' = "finish" /\ finished' = TRUE
                 /\ IF upto = Watchdog
                    THEN /\ mut' = [c \in Clips |-> [mut[c] EXCEPT !.cycle_ended = TRUE]]
                         /\ stale' = [stale EXCEPT ![s] = -1]
                    ELSE UNCHANGED <<mut, stale>>
  BY DEF scrubber_main_clip
<1>3. /\ First(s) \in Clips /\ (First(s) # 0 => First(s) = next_scrubbed[s])
      /\ upto \in Int /\ First(s) <= upto /\ upto <= Watchdog
      /\ next_scrubbed \in [Scrubbers -> Clips \cup {NULL}]
  <2>1. next_scrubbed[s] \in Clips \cup {NULL} /\ 0 \in Clips
    BY Constants DEF RInv, Placed
  <2>2. First(s) \in Clips /\ (First(s) # 0 => First(s) = next_scrubbed[s])
    BY <2>1 DEF First, From
  <2> QED
    BY <2>2, ScrubbersAreClips, Constants DEF RInv, Placed
<1>4. /\ next_scrubbed' \in [Scrubbers -> Clips \cup {NULL}]
      /\ next_scrubbed'[s] = IF upto = Watchdog THEN NULL ELSE upto
      /\ \A q \in Scrubbers : q # s => next_scrubbed'[q] = next_scrubbed[q]
  <2>1. upto # Watchdog => upto \in Clips
    BY <1>3, ScrubbersAreClips, Constants
  <2> QED
    BY <1>2, <1>3, <2>1
<1>5. /\ mut' \in [Clips -> Mut]
      /\ \A d \in Clips : /\ mut'[d].recursive_exception = mut[d].recursive_exception
                          /\ mut'[d].hit_restart = mut[d].hit_restart
                          /\ mut'[d].cycle_ended = mut[d].cycle_ended \/ upto = Watchdog
  <2>1. mut \in [Clips -> Mut] /\ \A d \in Clips : mut[d] \in Mut
    BY DEF IInv, Typed
  <2>2. CASE UNCHANGED mut
    BY <2>1, <2>2
  <2>3. CASE /\ upto = Watchdog
             /\ mut' = [c \in Clips |-> [mut[c] EXCEPT !.cycle_ended = TRUE]]
    <3>1. \A d \in Clips : LET n == [mut[d] EXCEPT !.cycle_ended = TRUE]
                           IN /\ n \in Mut /\ n.hit_restart = mut[d].hit_restart
                              /\ n.recursive_exception = mut[d].recursive_exception
      BY <2>1, WithCycle
    <3> QED
      BY <2>3, <3>1
  <2> QED
    BY <1>2, <2>2, <2>3
<1>6. Placed'
  <2>1. pc' \in {"restart", "finish"} /\ stale' \in [Scrubbers -> -1..AspectTimeout]
    <3>1. -1 \in -1..AspectTimeout
      BY ClipAssumption DEF ClipAssumption
    <3> QED
      BY <1>2, <3>1 DEF RInv, Placed
  <2>2. damage' \in [Clips -> Kinds \cup {"none"}]
    BY <1>2 DEF Scrubbed, RInv, Placed
  <2> QED
    BY <1>1, <1>4, <2>1, <2>2 DEF RInv, Placed, Places, Released
<1>7. ASSUME NEW d \in Clips PROVE Bounded(d)'
  <2>1. damage'[d] = IF First(s) <= d /\ d < upto THEN "none" ELSE damage[d]
    BY <1>2, <1>3, ScrubbersAreClips DEF Scrubbed
  <2>2. ASSUME Damaged(d)'
        PROVE  /\ Behind(d) \subseteq Behind(d)'
               /\ upto = Watchdog => s \in Behind(d)' /\ s \notin Behind(d)
    <3>1. d < First(s) \/ upto <= d
      BY <2>1, <2>2, <1>3, ScrubbersAreClips DEF Damaged
    <3>2. CASE upto <= d
      <4>1. upto # Watchdog /\ next_scrubbed'[s] <= d
        BY <1>3, <1>4, <3>2, ScrubbersAreClips
      <4> QED
        BY <1>4, <4>1 DEF Behind
    <3>3. CASE d < First(s)
      <4>1. next_scrubbed[s] = First(s)
        BY <1>3, <3>3, ScrubbersAreClips
      <4>2. s \notin Behind(d)
        BY <1>3, <3>3, <4>1, ScrubbersAreClips DEF Behind
      <4>3. Behind(d) \subseteq Behind(d)'
        BY <1>4, <4>2 DEF Behind
      <4>4. upto = Watchdog => s \in Behind(d)'
        BY <1>4, ScrubbersAreClips DEF Behind, NULL
      <4> QED
        BY <4>2, <4>3, <4>4
    <3> QED
      BY <3>1, <3>2, <3>3
  <2>3. damage'[d] \in {damage[d], "none"} /\ stops'[d] = stops[d]
    BY <2>1, <1>1
  <2> QED
    BY <2>2, <2>3, <1>5, OthersRetries
<1> QED
  BY <1>6, <1>7 DEF RInv

LEMMA SlotRetries ==
    ASSUME RInv, EndSlot, UNCHANGED <<mut, next_scrubbed, stale, stops>>,
           \/ UNCHANGED damage
           \/ \E s, upto : damage' = Scrubbed(s, upto)
    PROVE  RInv'
<1>1. /\ damage' \in [Clips -> Kinds \cup {"none"}]
      /\ \A d \in Clips : damage'[d] \in {damage[d], "none"}
  BY DEF Scrubbed, RInv, Placed
<1>2. Placed'
  BY <1>1 DEF EndSlot, RInv, Placed, Places, Released
<1>3. ASSUME NEW d \in Clips PROVE Bounded(d)'
  <2>1. Behind(d)' = Behind(d)
    BY DEF Behind
  <2> QED
    BY <1>1, <2>1, OthersRetries
<1> QED
  BY <1>2, <1>3 DEF RInv

LEMMA EpochRetries ==
    ASSUME IInv, RInv, watchdog_aspects_ok PROVE RInv'
<1>1. CASE Reset
  BY <1>1, InitialRetries
<1>2. CASE /\ ~(\E s \in Scrubbers : stale[s] = AspectTimeout)
           /\ stale' = [s \in Scrubbers |-> stale[s] + 1]
           /\ schedule_index' = 0 /\ pc' = "enter"
           /\ mut' = [c \in Clips |-> [mut[c] EXCEPT !.clip_next_tick = IF @ = 1 THEN 0 ELSE -1]]
           /\ UNCHANGED <<next_scrubbed, damage, stops>>
  <2>1. stale' \in [Scrubbers -> -1..AspectTimeout]
    <3>1. \A s \in Scrubbers : stale[s] \in -1..AspectTimeout /\ stale[s] # AspectTimeout
      BY <1>2 DEF RInv, Placed
    <3>2. \A s \in Scrubbers : stale[s] + 1 \in -1..AspectTimeout
      BY <3>1, ClipAssumption DEF ClipAssumption
    <3> QED
      BY <1>2, <3>2
  <2>2. Placed'
    BY <1>2, <2>1 DEF RInv, Placed, Places, Released
  <2>3. \A d \in Clips : /\ mut'[d].recursive_exception = mut[d].recursive_exception
                         /\ mut'[d].hit_restart = mut[d].hit_restart
                         /\ mut'[d].cycle_ended = mut[d].cycle_ended
    <3> SUFFICES ASSUME NEW d \in Clips
                 PROVE  /\ mut'[d].recursive_exception = mut[d].recursive_exception
                        /\ mut'[d].hit_restart = mut[d].hit_restart
                        /\ mut'[d].cycle_ended = mut[d].cycle_ended
      OBVIOUS
    <3>1. mut[d] \in Mut
      BY DEF IInv, Typed
    <3>2. PICK k \in -1..1 : mut'[d] = [mut[d] EXCEPT !.clip_next_tick = k]
      <4>1. 0 \in -1..1 /\ -1 \in -1..1
        OBVIOUS
      <4> QED
        BY <1>2, <4>1
    <3> QED
      BY <3>1, <3>2, WithTick
  <2>4. ASSUME NEW d \in Clips PROVE Bounded(d)'
    <3>1. Behind(d)' = Behind(d) /\ damage'[d] = damage[d] /\ stops'[d] = stops[d]
      BY <1>2 DEF Behind
    <3> QED
      BY <2>3, <3>1, OthersRetries
  <2> QED
    BY <2>2, <2>4 DEF RInv
<1> QED
  BY <1>1, <1>2 DEF watchdog_aspects_ok

LEMMA UpsetRetries ==
    ASSUME IInv, RInv, NEW c \in Clips, Upset(c) PROVE RInv'
<1>1. /\ pc = "enter" /\ damage[c] = "none" /\ stops' = [stops EXCEPT ![c] = 0]
      /\ UNCHANGED <<schedule_index, pc, mut, next_scrubbed, stale>>
  BY DEF Upset
<1>2. PICK kind \in Kinds : damage' = [damage EXCEPT ![c] = kind]
  BY DEF Upset
<1>3. /\ stops' \in [Clips -> Nat] /\ stops'[c] = 0
      /\ damage' \in [Clips -> Kinds \cup {"none"}]
      /\ \A d \in Clips : d # c => stops'[d] = stops[d] /\ damage'[d] = damage[d]
  BY <1>1, <1>2 DEF RInv, Placed
<1>4. Placed'
  BY <1>1, <1>3 DEF RInv, Placed, Released
<1>5. ASSUME NEW d \in Clips PROVE Bounded(d)'
  <2>1. Behind(d)' = Behind(d)
    BY <1>1 DEF Behind
  <2>2. CASE d = c
    <3>1. Cardinality(Behind(c)) \in Nat /\ Copies \in Nat /\ Bounded(c)
      BY BehindFinite, Constants DEF RInv
    <3> QED
      BY <1>1, <1>3, <2>1, <2>2, <3>1 DEF Bounded
  <2>3. CASE d # c
    BY <1>1, <1>3, <2>1, <2>3, OthersRetries
  <2> QED
    BY <2>2, <2>3
<1> QED
  BY <1>4, <1>5 DEF RInv

LEMMA NextRetries ==
    ASSUME IInv, RInv, [Next]_vars PROVE RInv'
<1>1. ASSUME NEW c \in Clips,
             \/ clip_play_direct(c) \/ Before(c) \/ Body(c) \/ Fails(c) \/ After(c)
             \/ restart(c) \/ scrubber_start_pend(c)
      PROVE  RInv'
  BY <1>1, PrologueRetries, BeforeRetries, BodyRetries, AfterRetries, RestartRetries
<1>2. ASSUME NEW s \in Scrubbers, scrubber_main_clip(s) PROVE RInv'
  BY <1>2, ScrubberRetries
<1>3. CASE schedule_next_clip
  BY <1>3, SlotRetries DEF schedule_next_clip
<1>4. CASE Overrun
  BY <1>4, SlotRetries DEF Overrun
<1>5. CASE watchdog_aspects_ok
  BY <1>5, EpochRetries
<1>6. ASSUME NEW c \in Clips, Upset(c) PROVE RInv'
  BY <1>6, UpsetRetries
<1>7. CASE UNCHANGED vars
  <2>1. \A d \in Clips : Bounded(d)' = Bounded(d)
    BY <1>7 DEF vars, Bounded, Behind, Damaged, PrologueTraps
  <2> QED
    BY <1>7, <2>1 DEF vars, RInv, Placed
<1> QED
  BY <1>1, <1>2, <1>3, <1>4, <1>5, <1>6, <1>7 DEF Next, Step

(* A clip traps on the same damage at most once more than there are        *)
(* scrubbers, unless it gave up waiting for them: clip_abort_handler and   *)
(* scrubber_is_pend_done do not let it spin on broken code, for any number *)
(* of clips, scrubbers, upsets and short slots.                            *)
THEOREM RetriesBounded == Spec => []FewRetries
<1>1. IInv /\ RInv => FewRetries
  <2> SUFFICES ASSUME IInv, RInv PROVE FewRetries
    OBVIOUS
  <2>1. \A c \in Clips : /\ stops[c] <= Copies + 1
                         /\ mut[c].recursive_exception => mut[c].hit_restart
    BY DEF RInv, Bounded
  <2>2. TypeOK
    BY <2>1 DEF TypeOK, IInv, Typed, RInv, Placed, Places
  <2> QED
    BY <2>1, <2>2 DEF FewRetries
<1>2. Init => IInv /\ RInv
  BY Initially, InitialRetries
<1>3. IInv /\ RInv /\ [Next]_vars => (IInv /\ RInv)'
  BY Inductive, NextRetries
<1> QED
  BY <1>1, <1>2, <1>3, PTL DEF Spec

-----------------------------------------------------------------------------
(* What may reset the machine: the half of ResetJustified that does not    *)
(* depend on how long repairs take.                                        *)

Counted == faults \in [upsets : Int, short : Int, resets : Int]

(* The machine is reset for a trap in a prologue whose code was hit, or    *)
(* for a scrubber that was silent for too long; never for a trap in a      *)
(* body, nor for one of a clip that has left its prologue since the last.  *)
ResetCause ==
    [][faults'.resets # faults.resets =>
          \/ \E c \in Clips : damage[c] = "prologue traps"
          \/ \E s \in Scrubbers : stale[s] = AspectTimeout]_vars

LEMMA CountedStep ==
    ASSUME Counted, [Next]_vars
    PROVE  /\ Counted'
           /\ faults'.resets # faults.resets => Reset
<1>1. faults.upsets \in Int /\ faults.short \in Int /\ faults.resets \in Int
  BY DEF Counted
<1>2. ASSUME NEW f \in [upsets : Int, short : Int, resets : Int], NEW k \in Int
      PROVE  /\ [f EXCEPT !.upsets = k] \in [upsets : Int, short : Int, resets : Int]
             /\ [f EXCEPT !.short = k] \in [upsets : Int, short : Int, resets : Int]
             /\ [f EXCEPT !.resets = k] \in [upsets : Int, short : Int, resets : Int]
             /\ [f EXCEPT !.upsets = k].resets = f.resets
             /\ [f EXCEPT !.short = k].resets = f.resets
  OBVIOUS
<1>3. CASE UNCHANGED faults
  BY <1>3 DEF Counted
<1>4. CASE faults' = [faults EXCEPT !.short = @ + 1]
  <2>1. faults.short + 1 \in Int
    BY <1>1
  <2> QED
    BY <1>2, <1>4, <2>1 DEF Counted
<1>5. CASE faults' = [faults EXCEPT !.upsets = @ + 1]
  <2>1. faults.upsets + 1 \in Int
    BY <1>1
  <2> QED
    BY <1>2, <1>5, <2>1 DEF Counted
<1>6. CASE Reset
  <2>1. Min({faults.resets + 1, MaxUpsets + 1}) \in Int
    <3> DEFINE a == faults.resets + 1
               b == MaxUpsets + 1
    <3>1. a \in Int /\ b \in Int
      BY <1>1, ClipAssumption DEF ClipAssumption
    <3>2. \E x \in {a, b} : \A y \in {a, b} : x <= y
      <4> HIDE DEF a, b
      <4>1. a <= b \/ b <= a
        BY <3>1
      <4>2. a <= a /\ b <= b
        BY <3>1
      <4> QED
        BY <4>1, <4>2
    <3>3. Min({a, b}) \in {a, b}
      <4> HIDE DEF a, b
      <4> QED
        BY <3>2 DEF Min
    <3> QED
      BY <3>1, <3>3
  <2>2. Counted'
    BY <1>2, <1>6, <2>1 DEF Counted, Reset
  <2> QED
    BY <1>6, <2>2
<1>7. \/ UNCHANGED faults
      \/ faults' = [faults EXCEPT !.short = @ + 1]
      \/ faults' = [faults EXCEPT !.upsets = @ + 1]
      \/ Reset
  <2>1. ASSUME NEW c \in Clips,
               \/ clip_play_direct(c) \/ Before(c) \/ Body(c) \/ Fails(c) \/ After(c)
               \/ restart(c) \/ scrubber_start_pend(c)
        PROVE  UNCHANGED faults \/ Reset
    BY <2>1 DEF clip_play_direct, Before, Body, Fails, After, restart, scrubber_start_pend,
                Trap, Advance, rest
  <2>2. ASSUME NEW s \in Scrubbers, scrubber_main_clip(s)
        PROVE  UNCHANGED faults \/ faults' = [faults EXCEPT !.short = @ + 1]
    BY <2>2 DEF scrubber_main_clip
  <2> QED
    BY <2>1, <2>2
       DEF Next, Step, schedule_next_clip, Overrun, watchdog_aspects_ok, Upset, vars
<1> QED
  BY <1>3, <1>4, <1>5, <1>6, <1>7

(* The resets are counted, so a counter that moves is a Reset, which only  *)
(* a trap on top of a trap and the watchdog bring about; and a clip in its *)
(* body has no trap behind it.                                             *)
THEOREM ResetCaused == Spec => ResetCause
<1> DEFINE A == faults'.resets # faults.resets =>
                   \/ \E c \in Clips : damage[c] = "prologue traps"
                   \/ \E s \in Scrubbers : stale[s] = AspectTimeout
<1>1. IInv /\ RInv /\ Counted /\ [Next]_vars => [A]_vars
  <2> SUFFICES ASSUME IInv, RInv, Counted, Next, faults'.resets # faults.resets
               PROVE  \/ \E c \in Clips : damage[c] = "prologue traps"
                      \/ \E s \in Scrubbers : stale[s] = AspectTimeout
    OBVIOUS
  <2>1. ASSUME NEW c \in Clips, Trap(c), Running(c, "body")
        PROVE  UNCHANGED faults
    <3>1. ~mut[c].recursive_exception
      BY <2>1 DEF Running, RInv, Placed, Released, Bounded
    <3> QED
      BY <2>1, <3>1 DEF Trap, rest
  <2>2. faults' # faults
    OBVIOUS
  <2>3. ASSUME NEW c \in Clips,
               \/ clip_play_direct(c) \/ Before(c) \/ Body(c) \/ Fails(c) \/ After(c)
               \/ restart(c) \/ scrubber_start_pend(c)
        PROVE  damage[c] = "prologue traps"
    BY <2>1, <2>2, <2>3
       DEF clip_play_direct, Before, Body, Fails, After, restart, scrubber_start_pend,
           Advance, rest
  <2>4. ~(\E f : f = [faults EXCEPT !.short = @ + 1] /\ faults' = f)
    BY DEF Counted
  <2>5. ~(\E f : f = [faults EXCEPT !.upsets = @ + 1] /\ faults' = f)
    BY DEF Counted
  <2>6. CASE watchdog_aspects_ok
    BY <2>2, <2>6 DEF watchdog_aspects_ok
  <2> QED
    BY <2>2, <2>3, <2>4, <2>5, <2>6
       DEF Next, Step, scrubber_main_clip, schedule_next_clip, Overrun, Upset
<1>2. Init => IInv /\ RInv /\ Counted
  BY Initially, InitialRetries DEF Init, Counted
<1>3. IInv /\ RInv /\ Counted /\ [Next]_vars => (IInv /\ RInv /\ Counted)'
  BY Inductive, NextRetries, CountedStep
<1>4. Spec => [][A]_vars
  BY <1>1, <1>2, <1>3, PTL DEF Spec
<1> QED
  BY <1>4 DEF ResetCause

-----------------------------------------------------------------------------
(* The transmit queue.  Behind used_idx are the buffers that the device    *)
(* was handed and has not sent.  They hold what follows in the batch.      *)

Handed ==
    IF outputAvail >= outputUsed THEN outputAvail - outputUsed
    ELSE outputAvail - outputUsed + IdxSize
Buffer(k) == (outputUsed + k) % OutputNum

OutputTyped ==
    /\ outputUsed \in 0..IdxSize - 1 /\ outputAvail \in 0..IdxSize - 1
    /\ transmit_buffer \in [O!Slots -> OutputMessage \cup {O!Nothing}]
    /\ desc \in [O!Slots -> {0} \cup {m.length : m \in OutputMessage}]
    /\ outputTurn \in {"prepare", "commit", "device"}
    /\ batch \in Seq(OutputMessage) /\ Len(batch) <= OutputNum
    /\ sent \in Seq(OutputMessage \cup {O!Nothing})
    /\ outputDisturbed \in BOOLEAN /\ outputTroubles \in 0..MaxTroubles

OutputInv ==
    /\ OutputTyped
    /\ outputTurn # "device" => outputUsed = outputAvail /\ sent = <<>>
    /\ outputTurn = "commit" /\ ~outputDisturbed => \A k \in 1..Len(batch) : O!Matches(k)
    /\ Len(sent) + Handed <= Len(batch)
    /\ outputTurn = "device" /\ ~outputDisturbed => Len(sent) + Handed = Len(batch)
    /\ \A k \in 1..Len(sent) : sent[k] = batch[k]
    /\ \A k \in 0..Handed - 1 : transmit_buffer[Buffer(k)] = batch[Len(sent) + k + 1]

-----------------------------------------------------------------------------
(* Arithmetic of indices that wrap.                                        *)

LEMMA LeastElement ==
    ASSUME NEW T, T \subseteq Nat, T # {}
    PROVE  \E x \in T : \A y \in T : x <= y
<1> DEFINE Less == {ss \in Nat \X Nat : ss[1] < ss[2]}
<1>1. OpToRel(<, Nat) = Less
  BY Zenon DEF OpToRel
<1>2. IsWellFoundedOn(Less, Nat)
  BY <1>1, NatLessThanWellFounded, Zenon
<1>3. \E x \in T : \A y \in T : ~(<<y, x>> \in Less)
  <2> HIDE DEF Less
  <2> QED
    BY <1>2, WFMin, Zenon
<1>4. PICK x \in T : \A y \in T : ~(<<y, x>> \in Less)
  BY <1>3
<1>5. ASSUME NEW y \in T PROVE x <= y
  <2>1. <<y, x>> \in Nat \X Nat /\ <<y, x>>[1] = y /\ <<y, x>>[2] = x
    OBVIOUS
  <2>2. ~(y < x)
    BY <1>4, <2>1
  <2>3. x \in Nat /\ y \in Nat
    OBVIOUS
  <2> QED
    BY <2>2, <2>3
<1> QED
  BY <1>5

(* A number plus a multiple of the divisor has the same remainder, and of  *)
(* as many numbers in a row as the divisor no two have the same.           *)
LEMMA SameRemainder ==
    ASSUME NEW b \in Nat \ {0}, NEW x \in Int, NEW y \in Int, x % b = y % b
    PROVE  \E q \in Int : x - y = b * q
<1> DEFINE p == x \div b
           q == y \div b
<1>1. p \in Int /\ q \in Int /\ x = b * p + (x % b) /\ y = b * q + (y % b)
  OBVIOUS
<1>2. x % b \in Int
  OBVIOUS
<1> HIDE DEF p, q
<1>3. b * (p - q) = b * p - b * q /\ b * p \in Int /\ b * q \in Int
  BY <1>1
<1>4. x - y = b * (p - q) /\ p - q \in Int
  BY <1>1, <1>2, <1>3
<1> QED
  BY <1>4, Zenon

LEMMA NoMultipleBetween ==
    ASSUME NEW b \in Nat \ {0}, NEW q \in Int, 0 - b < b * q, b * q < b
    PROVE  b * q = 0
<1>1. CASE q >= 1
  BY <1>1
<1>2. CASE q <= -1
  BY <1>2
<1>3. CASE q = 0
  BY <1>3
<1> QED
  BY <1>1, <1>2, <1>3

LEMMA DistinctRemainders ==
    ASSUME NEW b \in Nat \ {0}, NEW x \in Int, NEW y \in Int, x - y < b, y - x < b,
           x % b = y % b
    PROVE  x = y
<1>1. PICK q \in Int : x - y = b * q
  BY SameRemainder
<1> DEFINE d == b * q
<1>2. d \in Int /\ x - y = d
  BY <1>1
<1>3. (0 - b < d /\ d < b) => d = 0
  BY NoMultipleBetween
<1> HIDE DEF d
<1> QED
  BY <1>2, <1>3

LEMMA PlusMultiple ==
    ASSUME NEW b \in Nat \ {0}, NEW n \in Int, n % b = 0, NEW x \in Int
    PROVE  (x + n) % b = x % b
<1> DEFINE p == n \div b
           q == x \div b
           r == x % b
           e == (x + n) \div b
           s == (x + n) % b
<1>1. p \in Int /\ n = b * p
  OBVIOUS
<1>2. q \in Int /\ r \in 0..b - 1 /\ x = b * q + r
  OBVIOUS
<1>3. x + n \in Int
  OBVIOUS
<1>4. e \in Int /\ s \in 0..b - 1 /\ x + n = b * e + s
  BY <1>3
<1> HIDE DEF p, q, r, e, s
<1> DEFINE d == b * (e - p - q)
<1>5. d = b * e - b * p - b * q /\ d \in Int /\ b * e \in Int /\ b * p \in Int /\ b * q \in Int
  BY <1>1, <1>2, <1>4
<1>6. d = r - s
  BY <1>1, <1>2, <1>4, <1>5
<1>7. (0 - b < d /\ d < b) => d = 0
  <2>1. e - p - q \in Int
    BY <1>1, <1>2, <1>4
  <2> QED
    BY <2>1, NoMultipleBetween
<1> HIDE DEF d
<1>8. r = s
  BY <1>2, <1>4, <1>5, <1>6, <1>7
<1> QED
  BY <1>8 DEF r, s

(* An index that wraps is one more, and points to the next buffer.         *)
LEMMA OutputConstants ==
    /\ OutputNum \in Nat \ {0} /\ IdxSize \in Int /\ IdxSize % OutputNum = 0 /\ IdxSize > OutputNum
    /\ MaxTroubles \in Nat
    /\ \A m \in OutputMessage : m.length \in Nat \ {0}
    /\ O!Nothing \notin OutputMessage
<1>1. O!VirtioOutputAssumption /\ I!VirtioInputAssumption
  BY QueueAssumption
<1>2. \A m \in OutputMessage : m.length \in Nat \ {0}
  BY <1>1 DEF O!VirtioOutputAssumption
<1>3. O!Nothing \notin OutputMessage
  BY <1>2 DEF O!Nothing
<1> QED
  BY <1>1, <1>2, <1>3 DEF O!VirtioOutputAssumption

LEMMA OutputCount == \A S : O!Cardinality(S) = Cardinality(S)
  BY DEF O!Cardinality, Cardinality

LEMMA Wraps ==
    ASSUME NEW a \in 0..IdxSize - 1, NEW c \in 0..OutputNum
    PROVE  /\ (a + c) % IdxSize = IF a + c < IdxSize THEN a + c ELSE a + c - IdxSize
           /\ (a + c) % IdxSize \in 0..IdxSize - 1
           /\ \A k \in Int : (((a + c) % IdxSize) + k) % OutputNum = (a + c + k) % OutputNum
<1>1. /\ OutputNum \in Nat \ {0} /\ IdxSize \in Int /\ IdxSize > OutputNum
      /\ a \in Int /\ c \in Int
  BY OutputConstants
<1>2. CASE a + c < IdxSize
  <2>1. (a + c) % IdxSize = a + c
    BY <1>1, <1>2
  <2> QED
    BY <1>1, <1>2, <2>1
<1>3. CASE a + c >= IdxSize
  <2>1. (a + c) % IdxSize = a + c - IdxSize
    <3>1. a + c - IdxSize \in 0..IdxSize - 1 /\ IdxSize % IdxSize = 0 /\ IdxSize \in Nat \ {0}
      BY <1>1, <1>3
    <3>2. ((a + c - IdxSize) + IdxSize) % IdxSize = (a + c - IdxSize) % IdxSize
      <4>1. a + c - IdxSize \in Int
        BY <1>1
      <4> QED
        BY <3>1, <4>1, <1>1, PlusMultiple
    <3>3. (a + c - IdxSize) + IdxSize = a + c /\ (a + c - IdxSize) % IdxSize = a + c - IdxSize
      BY <1>1, <3>1
    <3> QED
      BY <3>2, <3>3
  <2>2. ASSUME NEW k \in Int PROVE (a + c - IdxSize + k) % OutputNum = (a + c + k) % OutputNum
    <3>1. a + c - IdxSize + k \in Int
      BY <1>1
    <3>2. ((a + c - IdxSize + k) + IdxSize) % OutputNum = (a + c - IdxSize + k) % OutputNum
      BY <1>1, <3>1, PlusMultiple, OutputConstants
    <3>3. (a + c - IdxSize + k) + IdxSize = a + c + k
      BY <1>1
    <3> QED
      BY <3>2, <3>3
  <2>3. a + c - IdxSize \in 0..IdxSize - 1
    BY <1>1, <1>3
  <2>4. \A k \in Int : (((a + c) % IdxSize) + k) % OutputNum = (a + c + k) % OutputNum
    BY <2>1, <2>2
  <2> QED
    BY <1>1, <1>3, <2>1, <2>3, <2>4
<1> QED
  BY <1>1, <1>2, <1>3

LEMMA BatchType ==
    \A b \in O!Batches : b \in Seq(OutputMessage) /\ Len(b) \in 0..OutputNum
<1>1. OutputNum \in Nat
  BY OutputConstants
<1>2. ASSUME NEW b \in O!Batches PROVE b \in Seq(OutputMessage) /\ Len(b) \in 0..OutputNum
  <2>1. PICK n \in 0..OutputNum : b \in [1..n -> OutputMessage]
    BY DEF O!Batches
  <2>2. n \in Nat
    BY <1>1
  <2>3. b \in Seq(OutputMessage)
    BY <2>1, <2>2, SeqDef
  <2>4. Len(b) = n
    <3>1. Len(b) \in Nat /\ DOMAIN b = 1..Len(b) /\ DOMAIN b = 1..n
      BY <2>1, <2>3, LenProperties
    <3>2. \A i \in Int : i \in 1..Len(b) <=> i \in 1..n
      BY <3>1
    <3>3. n <= Len(b)
      BY <2>2, <3>1, <3>2
    <3>4. Len(b) <= n
      BY <2>2, <3>1, <3>2
    <3> QED
      <4>1. Len(b) \in Int /\ n \in Int
        BY <2>2, <3>1
      <4> QED
        BY <3>3, <3>4, <4>1
  <2> QED
    BY <2>3, <2>4
<1> QED
  BY <1>2

LEMMA BatchesAre ==
    \A b : b \in Seq(OutputMessage) /\ Len(b) <= OutputNum => b \in O!Batches
<1>1. ASSUME NEW b, b \in Seq(OutputMessage), Len(b) <= OutputNum PROVE b \in O!Batches
  <2>1. Len(b) \in 0..OutputNum /\ b \in [1..Len(b) -> OutputMessage]
    BY <1>1, LenProperties, OutputConstants
  <2> QED
    BY <2>1 DEF O!Batches
<1> QED
  BY <1>1

(* The buffers that the messages of an epoch go to are distinct.           *)
LEMMA RingIndex ==
    ASSUME OutputTyped
    PROVE  /\ \A k \in Int : O!ring_index(k) \in O!Slots
           /\ \A j, k \in 1..OutputNum : O!ring_index(j) = O!ring_index(k) => j = k
<1>1. OutputNum \in Nat \ {0} /\ outputAvail \in Int
  BY OutputConstants DEF OutputTyped
<1>2. ASSUME NEW k \in Int PROVE O!ring_index(k) \in O!Slots
  <2>1. outputAvail + k - 1 \in Int
    BY <1>1
  <2> QED
    BY <1>1, <2>1 DEF O!ring_index, O!Slots
<1>3. ASSUME NEW j \in 1..OutputNum, NEW k \in 1..OutputNum, O!ring_index(j) = O!ring_index(k)
      PROVE  j = k
  <2>1. /\ outputAvail + j - 1 \in Int /\ outputAvail + k - 1 \in Int
        /\ (outputAvail + j - 1) - (outputAvail + k - 1) < OutputNum
        /\ (outputAvail + k - 1) - (outputAvail + j - 1) < OutputNum
    BY <1>1
  <2>2. outputAvail + j - 1 = outputAvail + k - 1
    BY <1>1, <1>3, <2>1, DistinctRemainders DEF O!ring_index
  <2> QED
    BY <1>1, <2>2
<1> QED
  BY <1>2, <1>3

(* What is copied and described matches.                                   *)
LEMMA FilledMatches ==
    ASSUME OutputTyped, NEW n \in 0..Len(batch), O!Filled(n)
    PROVE  /\ transmit_buffer' \in [O!Slots -> OutputMessage \cup {O!Nothing}]
           /\ desc' \in [O!Slots -> {0} \cup {m.length : m \in OutputMessage}]
           /\ \A k \in 1..n : /\ transmit_buffer'[O!ring_index(k)] = batch[k]
                              /\ desc'[O!ring_index(k)] = batch[k].length
<1> DEFINE at(i) == {k \in 1..n : O!ring_index(k) = i}
<1>1. /\ Len(batch) \in Nat /\ n \in Nat /\ OutputNum \in Nat /\ Len(batch) <= OutputNum
      /\ \A k \in 1..n : batch[k] \in OutputMessage
  BY OutputConstants, LenProperties, ElementOfSeq DEF OutputTyped
<1>2. /\ transmit_buffer' = [i \in O!Slots |-> IF at(i) = {} THEN transmit_buffer[i]
                                               ELSE batch[CHOOSE k \in at(i) : TRUE]]
      /\ desc' = [i \in O!Slots |-> IF at(i) = {} THEN desc[i]
                                    ELSE batch[CHOOSE k \in at(i) : TRUE].length]
  BY DEF O!Filled
<1>3. \A i : at(i) # {} => (CHOOSE k \in at(i) : TRUE) \in at(i)
  OBVIOUS
<1>4. \A i : at(i) # {} => (CHOOSE k \in at(i) : TRUE) \in 1..n
  BY <1>3
<1>5. ASSUME NEW k \in 1..n
      PROVE /\ O!ring_index(k) \in O!Slots /\ at(O!ring_index(k)) # {}
            /\ (CHOOSE j \in at(O!ring_index(k)) : TRUE) = k
  <2>1. k \in at(O!ring_index(k)) /\ k \in Int /\ k \in 1..OutputNum
    BY <1>1
  <2>2. \A j \in at(O!ring_index(k)) : j = k
    <3> SUFFICES ASSUME NEW j \in at(O!ring_index(k)) PROVE j = k
      OBVIOUS
    <3>1. j \in 1..OutputNum /\ O!ring_index(j) = O!ring_index(k)
      BY <1>1
    <3> QED
      BY <2>1, <3>1, RingIndex
  <2> HIDE DEF at
  <2>3. (CHOOSE j \in at(O!ring_index(k)) : TRUE) = k
    BY <2>1, <2>2, <1>3
  <2> QED
    BY <2>1, <2>3, RingIndex
<1> HIDE DEF at
<1>6. transmit_buffer' \in [O!Slots -> OutputMessage \cup {O!Nothing}]
  BY <1>1, <1>2, <1>4 DEF OutputTyped
<1>7. desc' \in [O!Slots -> {0} \cup {m.length : m \in OutputMessage}]
  BY <1>1, <1>2, <1>4 DEF OutputTyped
<1>8. ASSUME NEW k \in 1..n
      PROVE /\ transmit_buffer'[O!ring_index(k)] = batch[k]
            /\ desc'[O!ring_index(k)] = batch[k].length
  BY <1>2, <1>5
<1> QED
  BY <1>6, <1>7, <1>8

-----------------------------------------------------------------------------
LEMMA OutputInit == O!Init => OutputInv
<1> SUFFICES ASSUME O!Init PROVE OutputInv
  OBVIOUS
<1>1. /\ outputUsed = 0 /\ outputAvail = 0 /\ outputTurn = "prepare" /\ sent = <<>>
      /\ outputDisturbed = FALSE /\ outputTroubles = 0 /\ batch \in O!Batches
      /\ transmit_buffer = [i \in O!Slots |-> O!Nothing] /\ desc = [i \in O!Slots |-> 0]
  BY DEF O!Init
<1>2. OutputTyped
  <2>1. batch \in Seq(OutputMessage) /\ Len(batch) <= OutputNum
    BY <1>1, BatchType, OutputConstants
  <2>2. sent \in Seq(OutputMessage \cup {O!Nothing})
    BY <1>1, EmptySeq
  <2>3. 0 \in 0..IdxSize - 1 /\ 0 \in 0..MaxTroubles
    BY OutputConstants
  <2>4. /\ transmit_buffer \in [O!Slots -> OutputMessage \cup {O!Nothing}]
        /\ desc \in [O!Slots -> {0} \cup {m.length : m \in OutputMessage}]
    BY <1>1
  <2> QED
    BY <1>1, <2>1, <2>2, <2>3, <2>4 DEF OutputTyped
<1>3. Handed = 0 /\ Len(sent) = 0 /\ Len(batch) \in Nat
  BY <1>1, BatchType, EmptySeq, OutputConstants DEF Handed
<1> QED
  BY <1>1, <1>2, <1>3 DEF OutputInv

LEMMA HandedType == OutputTyped => Handed \in 0..IdxSize - 1
  BY OutputConstants DEF OutputTyped, Handed

LEMMA PrepareKeeps == OutputInv /\ O!virtio_output_queue_prepare_clip => OutputInv'
<1> SUFFICES ASSUME OutputInv, O!virtio_output_queue_prepare_clip PROVE OutputInv'
  OBVIOUS
<1>1. /\ outputTurn = "prepare" /\ outputTurn' = "commit"
      /\ UNCHANGED <<outputUsed, outputAvail, batch, sent>>
  BY DEF O!virtio_output_queue_prepare_clip
<1>2. OutputTyped /\ Len(batch) \in Nat /\ Len(sent) \in Nat
  BY LenProperties DEF OutputInv, OutputTyped
<1>3. PICK n \in 0..Len(batch) :
        /\ O!Filled(n)
        /\ \/ n = Len(batch) /\ UNCHANGED <<outputDisturbed, outputTroubles>>
           \/ O!Strikes
  BY <1>2 DEF O!virtio_output_queue_prepare_clip
<1>4. /\ outputDisturbed' \in BOOLEAN /\ outputTroubles' \in 0..MaxTroubles
      /\ ~outputDisturbed' => n = Len(batch)
  <2>1. CASE n = Len(batch) /\ UNCHANGED <<outputDisturbed, outputTroubles>>
    BY <1>2, <2>1 DEF OutputTyped
  <2>2. CASE O!Strikes
    <3>1. /\ outputTroubles < MaxTroubles /\ outputTroubles' = outputTroubles + 1
          /\ outputDisturbed' = TRUE /\ outputTroubles \in 0..MaxTroubles
      BY <1>2, <2>2 DEF O!Strikes, OutputTyped
    <3> QED
      BY <3>1, OutputConstants
  <2> QED
    BY <1>3, <2>1, <2>2
<1>5. /\ transmit_buffer' \in [O!Slots -> OutputMessage \cup {O!Nothing}]
      /\ desc' \in [O!Slots -> {0} \cup {m.length : m \in OutputMessage}]
      /\ \A k \in 1..n : /\ transmit_buffer'[O!ring_index(k)] = batch[k]
                         /\ desc'[O!ring_index(k)] = batch[k].length
  BY <1>2, <1>3, FilledMatches
<1>6. OutputTyped'
  BY <1>1, <1>2, <1>4, <1>5 DEF OutputTyped
<1>7. ~outputDisturbed' => \A k \in 1..Len(batch') : O!Matches(k)'
  BY <1>1, <1>4, <1>5 DEF O!Matches, O!ring_index
<1>8. Handed' = Handed /\ Handed = 0 /\ sent' = <<>> /\ outputUsed' = outputAvail'
  BY <1>1, <1>2, OutputConstants DEF OutputInv, Handed, OutputTyped
<1>9. Len(sent') = 0
  BY <1>8
<1> QED
  BY <1>1, <1>2, <1>6, <1>7, <1>8, <1>9 DEF OutputInv

LEMMA UpsetKeeps == OutputInv /\ O!Upset => OutputInv'
<1> SUFFICES ASSUME OutputInv, O!Upset PROVE OutputInv'
  OBVIOUS
<1>1. /\ outputTurn = "commit" /\ outputDisturbed' = TRUE /\ outputTroubles' = outputTroubles + 1
      /\ outputTroubles < MaxTroubles
      /\ UNCHANGED <<outputUsed, outputAvail, outputTurn, batch, sent>>
  BY DEF O!Upset, O!Strikes
<1>2. OutputTyped
  BY DEF OutputInv
<1>3. PICK i \in O!Slots :
          \/ transmit_buffer' = [transmit_buffer EXCEPT ![i] = O!Nothing] /\ UNCHANGED desc
          \/ desc' = [desc EXCEPT ![i] = 0] /\ UNCHANGED transmit_buffer
  BY DEF O!Upset
<1>4. /\ transmit_buffer' \in [O!Slots -> OutputMessage \cup {O!Nothing}]
      /\ desc' \in [O!Slots -> {0} \cup {m.length : m \in OutputMessage}]
  BY <1>2, <1>3 DEF OutputTyped
<1>5. OutputTyped'
  BY <1>1, <1>2, <1>4, OutputConstants DEF OutputTyped
<1>6. Handed' = Handed /\ Handed = 0 /\ outputUsed' = outputAvail'
  BY <1>1, <1>2, OutputConstants DEF OutputInv, Handed, OutputTyped
<1> QED
  BY <1>1, <1>5, <1>6 DEF OutputInv

(* What the commit clip compares before the first mismatch is a first part *)
(* of the batch.                                                           *)
LEMMA ClearedIsPrefix ==
    ASSUME OutputTyped
    PROVE  /\ Cardinality(O!Cleared) \in 0..Len(batch)
           /\ \A k \in 1..Cardinality(O!Cleared) : O!Matches(k)
           /\ (\A k \in 1..Len(batch) : O!Matches(k)) => Cardinality(O!Cleared) = Len(batch)
<1>1. Len(batch) \in Nat
  BY LenProperties DEF OutputTyped
<1> DEFINE Mismatches == {k \in 1..Len(batch) : ~O!Matches(k)}
<1>2. CASE Mismatches = {}
  <2>1. \A k \in 1..Len(batch) : O!Matches(k)
    BY <1>2
  <2>2. \A k \in 1..Len(batch) : \A j \in 1..k : O!Matches(j)
    <3> SUFFICES ASSUME NEW k \in 1..Len(batch), NEW j \in 1..k PROVE O!Matches(j)
      OBVIOUS
    <3>1. j \in 1..Len(batch)
      BY <1>1
    <3> QED
      BY <2>1, <3>1
  <2>3. O!Cleared = 1..Len(batch)
    BY <2>2 DEF O!Cleared
  <2>4. Cardinality(1..Len(batch)) = Len(batch)
    BY <1>1, FS_Interval
  <2> QED
    BY <1>1, <2>1, <2>3, <2>4
<1>3. CASE Mismatches # {}
  <2>1. Mismatches \subseteq Nat
    BY <1>1
  <2>2. PICK m \in Mismatches : \A k \in Mismatches : m <= k
    BY <1>3, <2>1, LeastElement
  <2>3. m \in 1..Len(batch) /\ ~O!Matches(m) /\ m \in Int
    BY <1>1, <2>2
  <2>4. \A j \in 1..m - 1 : O!Matches(j)
    <3> SUFFICES ASSUME NEW j \in 1..m - 1, ~O!Matches(j) PROVE FALSE
      OBVIOUS
    <3>1. j \in 1..Len(batch) /\ ~(m <= j)
      BY <1>1, <2>3
    <3> QED
      BY <2>2, <3>1
  <2>5. O!Cleared = 1..m - 1
    <3>1. ASSUME NEW k \in O!Cleared PROVE k \in 1..m - 1
      <4>1. k \in 1..Len(batch) /\ \A j \in 1..k : O!Matches(j)
        BY DEF O!Cleared
      <4>2. m \notin 1..k
        BY <2>3, <4>1
      <4> QED
        BY <1>1, <2>3, <4>1, <4>2
    <3>2. ASSUME NEW k \in 1..m - 1 PROVE k \in O!Cleared
      <4>1. k \in 1..Len(batch)
        BY <1>1, <2>3
      <4>2. \A j \in 1..k : j \in 1..m - 1
        BY <2>3
      <4> QED
        BY <2>4, <4>1, <4>2 DEF O!Cleared
    <3> QED
      BY <3>1, <3>2
  <2>6. Cardinality(1..m - 1) = m - 1
    BY <2>3, FS_Interval
  <2> HIDE DEF Mismatches
  <2> QED
    BY <1>1, <2>3, <2>4, <2>5, <2>6
<1> QED
  BY <1>2, <1>3

LEMMA CommitKeeps == OutputInv /\ O!virtio_output_queue_commit_clip => OutputInv'
<1> SUFFICES ASSUME OutputInv, O!virtio_output_queue_commit_clip PROVE OutputInv'
  OBVIOUS
<1>1. /\ outputTurn = "commit" /\ outputTurn' = "device"
      /\ UNCHANGED <<outputUsed, transmit_buffer, desc, batch, sent>>
  BY DEF O!virtio_output_queue_commit_clip
<1>2. OutputTyped /\ Len(batch) \in Nat /\ sent = <<>> /\ outputUsed = outputAvail
  BY <1>1, LenProperties DEF OutputInv, OutputTyped
<1>3. Len(batch) <= OutputNum /\ outputAvail \in 0..IdxSize - 1 /\ Len(sent) = 0
  BY <1>2 DEF OutputTyped
<1> DEFINE n == Cardinality(O!Cleared)
<1>4. n \in 0..Len(batch) /\ \A k \in 1..n : O!Matches(k)
  BY <1>2, ClearedIsPrefix
<1>5. PICK c \in 0..Len(batch) :
        /\ outputAvail' = (outputAvail + c) % IdxSize
        /\ \A k \in 1..c : O!Matches(k)
        /\ outputDisturbed' \in BOOLEAN /\ outputTroubles' \in 0..MaxTroubles
        /\ ~outputDisturbed' => c = Len(batch)
  <2>1. (outputAvail + 0) % IdxSize = outputAvail
    BY <1>3, OutputConstants
  <2>2. 0 \in 0..Len(batch) /\ \A k \in 1..0 : O!Matches(k)
    BY <1>2
  <2>3. CASE O!Strikes /\ UNCHANGED outputAvail
    <3>1. outputDisturbed' = TRUE /\ outputTroubles' \in 0..MaxTroubles
      BY <1>2, <2>3, OutputConstants DEF O!Strikes, OutputTyped
    <3> QED
      BY <2>1, <2>2, <2>3, <3>1
  <2>4. CASE /\ UNCHANGED <<outputDisturbed, outputTroubles>>
             /\ outputAvail' = IF O!Leftover THEN outputAvail ELSE (outputAvail + n) % IdxSize
    <3>1. outputDisturbed' \in BOOLEAN /\ outputTroubles' \in 0..MaxTroubles
      BY <1>2, <2>4 DEF OutputTyped
    <3>2. ~outputDisturbed' => n = Len(batch)
      BY <1>1, <1>2, <2>4, ClearedIsPrefix DEF OutputInv
    <3>3. O!Leftover => n # Len(batch)
      BY <1>2, OutputCount DEF O!Leftover
    <3>4. CASE O!Leftover
      BY <2>1, <2>2, <2>4, <3>1, <3>2, <3>3, <3>4
    <3>5. CASE ~O!Leftover
      BY <1>4, <2>4, <3>1, <3>2, <3>5
    <3> QED
      BY <3>4, <3>5
  <2> QED
    BY <2>3, <2>4, OutputCount DEF O!virtio_output_queue_commit_clip
<1> HIDE DEF n
<1>6. c \in 0..OutputNum /\ c \in Nat
  BY <1>2, <1>3, OutputConstants
<1>7. /\ outputAvail' = IF outputAvail + c < IdxSize THEN outputAvail + c ELSE outputAvail + c - IdxSize
      /\ outputAvail' \in 0..IdxSize - 1
  BY <1>3, <1>5, <1>6, Wraps
<1>8. Handed' = c
  BY <1>1, <1>2, <1>3, <1>6, <1>7, OutputConstants DEF Handed
<1>9. OutputTyped'
  BY <1>1, <1>2, <1>5, <1>7 DEF OutputTyped
<1>10. ASSUME NEW k \in 0..Handed' - 1
       PROVE  transmit_buffer'[Buffer(k)'] = batch'[Len(sent') + k + 1]
  <2>1. k \in Int /\ k + 1 \in 1..c /\ 0 + k + 1 = k + 1
    BY <1>6, <1>8
  <2>2. O!Matches(k + 1)
    BY <1>5, <2>1
  <2>3. outputAvail + (k + 1) - 1 = outputUsed + k
    BY <1>2, <1>3, <2>1
  <2>4. transmit_buffer[(outputUsed + k) % OutputNum] = batch[k + 1]
    BY <2>2, <2>3 DEF O!Matches, O!ring_index
  <2> QED
    BY <1>1, <1>3, <2>1, <2>4 DEF Buffer
<1> QED
  BY <1>1, <1>2, <1>3, <1>5, <1>6, <1>8, <1>9, <1>10 DEF OutputInv

LEMMA DeviceKeeps == OutputInv /\ O!DeviceSends => OutputInv'
<1> SUFFICES ASSUME OutputInv, O!DeviceSends PROVE OutputInv'
  OBVIOUS
<1>1. /\ outputTurn = "device" /\ outputUsed # outputAvail
      /\ sent' = Append(sent, transmit_buffer[outputUsed % OutputNum])
      /\ outputUsed' = (outputUsed + 1) % IdxSize
      /\ UNCHANGED <<outputAvail, transmit_buffer, desc, outputTurn, batch, outputDisturbed, outputTroubles>>
  BY DEF O!DeviceSends
<1>2. OutputTyped /\ Len(batch) \in Nat /\ Len(sent) \in Nat
  BY LenProperties DEF OutputInv, OutputTyped
<1>3. outputUsed \in 0..IdxSize - 1 /\ outputAvail \in 0..IdxSize - 1
  BY <1>2 DEF OutputTyped
<1>4. /\ outputUsed' = IF outputUsed + 1 < IdxSize THEN outputUsed + 1 ELSE outputUsed + 1 - IdxSize
      /\ outputUsed' \in 0..IdxSize - 1
      /\ \A k \in Int : (outputUsed' + k) % OutputNum = (outputUsed + 1 + k) % OutputNum
  <2>1. 1 \in 0..OutputNum
    BY OutputConstants
  <2> QED
    BY <1>1, <1>3, <2>1, Wraps
<1>5. Handed \in Nat \ {0} /\ Handed' = Handed - 1
  <2>1. IdxSize \in Nat \ {0} /\ outputAvail' = outputAvail
    BY <1>1, OutputConstants
  <2>2. /\ outputUsed \in Int /\ outputAvail \in Int /\ outputUsed # outputAvail
        /\ 0 <= outputUsed /\ outputUsed < IdxSize /\ 0 <= outputAvail /\ outputAvail < IdxSize
    BY <1>1, <1>3, <2>1
  <2>3. outputUsed' = IF outputUsed + 1 < IdxSize THEN outputUsed + 1 ELSE outputUsed + 1 - IdxSize
    BY <1>4
  <2> QED
    BY <2>1, <2>2, <2>3 DEF Handed
<1>6. outputUsed % OutputNum \in O!Slots /\ (outputUsed + 0) % OutputNum = outputUsed % OutputNum
  BY <1>3, OutputConstants DEF O!Slots
<1>7. /\ sent' \in Seq(OutputMessage \cup {O!Nothing}) /\ Len(sent') = Len(sent) + 1
      /\ \A k \in 1..Len(sent) : sent'[k] = sent[k]
      /\ sent'[Len(sent) + 1] = transmit_buffer[outputUsed % OutputNum]
  BY <1>1, <1>2, <1>6, AppendProperties DEF OutputTyped
<1>8. OutputTyped'
  BY <1>1, <1>2, <1>4, <1>7 DEF OutputTyped
<1>9. transmit_buffer[outputUsed % OutputNum] = batch[Len(sent) + 1]
  <2>1. 0 \in 0..Handed - 1 /\ Len(sent) + 0 + 1 = Len(sent) + 1
    BY <1>2, <1>5
  <2>2. transmit_buffer[Buffer(0)] = batch[Len(sent) + 0 + 1]
    BY <2>1 DEF OutputInv
  <2> QED
    BY <1>6, <2>1, <2>2 DEF Buffer
<1>10. \A k \in 1..Len(sent') : sent'[k] = batch'[k]
  <2> SUFFICES ASSUME NEW k \in 1..Len(sent') PROVE sent'[k] = batch'[k]
    OBVIOUS
  <2>1. k \in 1..Len(sent) \/ k = Len(sent) + 1
    BY <1>2, <1>7
  <2> QED
    BY <1>1, <1>7, <1>9, <2>1 DEF OutputInv
<1>11. ASSUME NEW k \in 0..Handed' - 1
       PROVE  transmit_buffer'[Buffer(k)'] = batch'[Len(sent') + k + 1]
  <2>1. k \in Int /\ k + 1 \in 0..Handed - 1 /\ outputUsed + (k + 1) = outputUsed + 1 + k
    BY <1>3, <1>5
  <2>2. Len(sent) + (k + 1) + 1 = Len(sent') + k + 1
    BY <1>2, <1>7, <2>1
  <2>3. transmit_buffer[Buffer(k + 1)] = batch[Len(sent) + (k + 1) + 1]
    BY <2>1 DEF OutputInv
  <2>4. Buffer(k)' = Buffer(k + 1)
    BY <1>4, <2>1 DEF Buffer
  <2> QED
    BY <1>1, <2>2, <2>3, <2>4
<1>12. /\ Len(sent') + Handed' <= Len(batch')
       /\ ~outputDisturbed' => Len(sent') + Handed' = Len(batch')
  BY <1>1, <1>2, <1>5, <1>7 DEF OutputInv
<1> QED
  BY <1>1, <1>8, <1>10, <1>11, <1>12 DEF OutputInv

LEMMA EpochKeeps == OutputInv /\ O!NextEpoch => OutputInv'
<1> SUFFICES ASSUME OutputInv, O!NextEpoch PROVE OutputInv'
  OBVIOUS
<1>1. /\ outputTurn' = "prepare" /\ outputUsed = outputAvail /\ batch' \in O!Batches /\ sent' = <<>>
      /\ outputDisturbed' = FALSE
      /\ UNCHANGED <<outputUsed, outputAvail, transmit_buffer, desc, outputTroubles>>
  BY DEF O!NextEpoch
<1>2. OutputTyped
  BY DEF OutputInv
<1>3. OutputTyped' /\ Len(batch') \in Nat
  <2>1. batch' \in Seq(OutputMessage) /\ Len(batch') <= OutputNum /\ Len(batch') \in Nat
    BY <1>1, BatchType, OutputConstants
  <2>2. sent' \in Seq(OutputMessage \cup {O!Nothing})
    BY <1>1, EmptySeq
  <2> QED
    BY <1>1, <1>2, <2>1, <2>2 DEF OutputTyped
<1>4. Handed' = 0 /\ Len(sent') = 0
  BY <1>1, <1>2, OutputConstants DEF Handed, OutputTyped
<1> QED
  BY <1>1, <1>3, <1>4 DEF OutputInv

LEMMA OutputStep == OutputInv /\ [O!Next]_(O!vars) => OutputInv'
<1>1. ASSUME OutputInv, UNCHANGED O!vars PROVE OutputInv'
  <2>1. /\ UNCHANGED <<outputUsed, outputAvail, transmit_buffer, desc, outputTurn>>
        /\ UNCHANGED <<batch, sent, outputDisturbed, outputTroubles>>
    BY <1>1 DEF O!vars
  <2>2. OutputTyped' /\ Handed' = Handed /\ \A k : Buffer(k)' = Buffer(k)
    BY <1>1, <2>1 DEF OutputInv, OutputTyped, Handed, Buffer
  <2>3. \A k : O!Matches(k)' <=> O!Matches(k)
    BY <2>1 DEF O!Matches, O!ring_index
  <2> QED
    BY <1>1, <2>1, <2>2, <2>3 DEF OutputInv
<1> QED
  BY <1>1, PrepareKeeps, CommitKeeps, UpsetKeeps, DeviceKeeps, EpochKeeps DEF O!Next

LEMMA OutputInvariant == O!Spec => []OutputInv
  BY OutputInit, OutputStep, PTL DEF O!Spec

(* Only what the duct held is sent, and in its order.                      *)
LEMMA OutputMeans == OutputInv => O!TypeOK /\ O!SendsIntended
<1> SUFFICES ASSUME OutputInv PROVE O!TypeOK /\ O!SendsIntended
  OBVIOUS
<1>1. /\ OutputTyped /\ Len(batch) \in Nat /\ Len(sent) \in Nat
      /\ batch \in Seq(OutputMessage) /\ sent \in Seq(OutputMessage \cup {O!Nothing})
      /\ Len(batch) <= OutputNum
  BY LenProperties DEF OutputInv, OutputTyped
<1>2. Len(sent) <= Len(batch)
  BY <1>1, HandedType, OutputConstants DEF OutputInv
<1>3. O!TypeOK
  <2>1. Len(sent) <= OutputNum /\ batch \in O!Batches
    BY <1>1, <1>2, BatchesAre, OutputConstants
  <2> QED
    BY <1>1, <2>1 DEF O!TypeOK, OutputTyped, O!Clips
<1>4. SubSeq(sent, 1, Len(sent)) = SubSeq(batch, 1, Len(sent))
  <2>1. \A k \in 1..Len(sent) : sent[k] = batch[k]
    BY DEF OutputInv
  <2>2. SubSeq(sent, 1, Len(sent)) = [k \in 1..Len(sent) |-> sent[k]]
    BY <1>1
  <2>3. SubSeq(batch, 1, Len(sent)) = [k \in 1..Len(sent) |-> batch[k]]
    BY <1>1, <1>2
  <2> QED
    BY <2>1, <2>2, <2>3
<1>5. O!SendsIntended
  BY <1>2, <1>4 DEF O!SendsIntended, O!IsPrefix
<1> QED
  BY <1>3, <1>5

LEMMA OutputSendsAll ==
    OutputInv /\ [O!Next]_(O!vars) => [O!NextEpoch /\ ~outputDisturbed => sent = batch]_(O!vars)
<1> SUFFICES ASSUME OutputInv, O!NextEpoch, ~outputDisturbed PROVE sent = batch
  OBVIOUS
<1>1. outputTurn = "device" /\ outputUsed = outputAvail
  BY DEF O!NextEpoch
<1>2. OutputTyped /\ batch \in Seq(OutputMessage) /\ sent \in Seq(OutputMessage \cup {O!Nothing})
  BY DEF OutputInv, OutputTyped
<1>3. Len(batch) \in Nat /\ Len(sent) \in Nat /\ Handed = 0
  BY <1>1, <1>2, LenProperties, OutputConstants DEF Handed, OutputTyped
<1>4. Len(sent) = Len(batch) /\ \A k \in 1..Len(sent) : sent[k] = batch[k]
  BY <1>1, <1>3 DEF OutputInv
<1>5. batch \in Seq(OutputMessage \cup {O!Nothing})
  BY <1>2, SeqDef
<1> QED
  BY <1>2, <1>4, <1>5, SeqEqual

LEMMA OutputRuns == MCSpec => O!Spec
<1>1. MCInit => O!Init
  BY DEF MCInit
<1>2. [MCNext]_<<vars, ivars, ovars, rvars, part>> => [O!Next]_(O!vars)
  BY DEF MCNext, ovars, O!vars
<1> QED
  BY <1>1, <1>2, PTL DEF MCSpec, O!Spec

(* Whatever the prepare clip leaves undone and whichever buffer or         *)
(* descriptor is hit, what a transmit queue hands to the device is a first *)
(* part of what its duct held in this epoch; and all of it, if nothing     *)
(* happened.                                                               *)
THEOREM SendsAsIntended == MCSpec => MCIntended
<1>1. O!Spec => []OutputInv /\ [][O!Next]_(O!vars)
  BY OutputInvariant, PTL DEF O!Spec
<1>2. OutputInv /\ [O!Next]_(O!vars) => [O!NextEpoch /\ ~outputDisturbed => sent = batch]_(O!vars)
  BY OutputSendsAll
<1>3. O!Spec => [](O!TypeOK /\ O!SendsIntended)
  BY OutputInvariant, OutputMeans, PTL
<1>4. O!Spec => O!SendsAll
  BY <1>1, <1>2, PTL DEF O!SendsAll
<1> QED
  BY <1>3, <1>4, OutputRuns, PTL DEF MCIntended

-----------------------------------------------------------------------------
(***************************************************************************)
(* The receive queue.  The elements that the device used and that were not *)
(* given back hold its stream, one after the other, up to what it received *)
(* last.  What is delivered or in the duct is behind them; except that a   *)
(* commit clip which was cut after it sent has them in the duct already,   *)
(* and then it starts anew before anything else goes wrong.                *)
(***************************************************************************)

(* The bytes after a, up to b.                                             *)
Run(a, b) == [j \in 1..b - a |-> a + j]

(* What the device used k slots after the last that was given back, and    *)
(* how many bytes it had received before.                                  *)
Element(k) == ring[(I!last_used_idx + k) % QueueNum]
InputFrom(k) == IF k < I!pending /\ Element(k) # <<>> THEN Element(k)[1] - 1 ELSE received

(* Messages of successive bytes after a and up to b, in their order.       *)
Runs(msgs) == \A k \in DOMAIN msgs : \A i \in DOMAIN msgs[k] : msgs[k][i] = msgs[k][1] + i - 1
Within(s, a, b) ==
    /\ \A i \in DOMAIN s : a < s[i] /\ s[i] <= b
    /\ \A i, j \in DOMAIN s : i < j => s[i] < s[j]
Ordered(msgs, a, b) == msgs \in Seq(Seq(I!Bytes)) /\ Runs(msgs) /\ Within(I!FlattenSeq(msgs), a, b)

(* The commit clip has sent what it did not give back, and starts anew     *)
(* before anything else happens.                                           *)
Stale == I!COMMIT \in restarting /\ configured = I!Slots /\ inputDisturbed /\ inputTroubles > 0

Elements ==
    /\ I!pending <= QueueNum
    /\ \A k \in 0..I!pending - 1 :
          /\ InputFrom(k) \in Nat /\ InputFrom(k) <= InputFrom(k + 1) /\ InputFrom(k + 1) <= received
          /\ InputFrom(k) < InputFrom(k + 1) \/ I!pending = QueueNum
          /\ Element(k) = Run(InputFrom(k), InputFrom(k + 1))

Order ==
    /\ \E h, g \in 0..received :
          /\ h <= g /\ Ordered(delivered, 0, h) /\ Ordered(row[I!COMMIT], h, g)
          /\ g <= InputFrom(0) \/ Stale
    /\ inputTurn \in I!Clips => row[I!COMMIT] = <<>>

(* What a clip sends of the first count elements, if it does not trap.     *)
Batch(count) == I!Collected(count, FALSE).sent

Prepared ==
    \E count \in 0..I!pending : count = last_descriptor_count /\ row[I!PREPARE] = Batch(count)

(* The commit clip sends what the prepare clip sent, however many elements *)
(* it finds.                                                               *)
Undisturbed ==
    /\ restarting = {} /\ configured = I!Slots
    /\ inputTurn = I!COMMIT => Prepared
    /\ inputTurn = "receive" => row[I!PREPARE] = row[I!COMMIT]

InputInv == I!TypeOK /\ Elements /\ Order /\ (~inputDisturbed => Undisturbed)

-----------------------------------------------------------------------------
(* The arithmetic of the indices.                                          *)

LEMMA InputConstants ==
    /\ QueueNum \in Nat \ {0} /\ IdxSize \in Nat \ {0} /\ IdxSize % QueueNum = 0
    /\ IdxSize >= 2 * QueueNum /\ IdxSize > QueueNum
    /\ Flow \in Nat \ {0} /\ MessageSize \in Nat \ {0}
    /\ MaxBytes \in Nat /\ MaxTroubles \in Nat
<1>1. /\ QueueNum \in Nat \ {0} /\ IdxSize \in Nat
      /\ IdxSize % QueueNum = 0 /\ IdxSize > QueueNum
      /\ Flow \in 1..QueueNum /\ MessageSize \in Nat \ {0}
      /\ MaxBytes \in Nat /\ MaxTroubles \in Nat
  BY QueueAssumption DEF I!VirtioInputAssumption
<1>2. IdxSize % QueueNum = QueueNum % QueueNum
  BY <1>1
<1>3. ~(IdxSize - QueueNum < QueueNum)
  <2>1. ASSUME IdxSize - QueueNum < QueueNum PROVE IdxSize = QueueNum
    <3>1. QueueNum - IdxSize < QueueNum
      BY <1>1
    <3> QED
      BY <1>1, <1>2, <2>1, <3>1, DistinctRemainders
  <2> QED
    BY <1>1, <2>1
<1> QED
  BY <1>1, <1>3

LEMMA Remainders ==
    ASSUME NEW x \in 0..IdxSize - 1
    PROVE  x % IdxSize = x /\ (x + IdxSize) % IdxSize = x /\ (x - IdxSize) % IdxSize = x
<1>1. /\ IdxSize \in Nat \ {0} /\ IdxSize \in Int /\ x \in Int /\ IdxSize % IdxSize = 0
      /\ x % IdxSize = x
  BY InputConstants
<1>2. (x + IdxSize) % IdxSize = x
  BY <1>1, PlusMultiple
<1>3. (x - IdxSize) % IdxSize = x
  <2> DEFINE y == x - IdxSize
  <2>1. y \in Int /\ y + IdxSize = x
    BY <1>1
  <2> HIDE DEF y
  <2>2. (y + IdxSize) % IdxSize = y % IdxSize
    BY <1>1, <2>1, PlusMultiple
  <2>3. y % IdxSize = x
    BY <1>1, <2>1, <2>2
  <2> QED
    BY <2>3 DEF y
<1> QED
  BY <1>1, <1>2, <1>3

(* The indices, written out.                                               *)
LEMMA Indices ==
    ASSUME used_idx \in 0..IdxSize - 1, avail_idx \in 0..IdxSize - 1
    PROVE  /\ I!last_used_idx \in 0..IdxSize - 1 /\ I!pending \in 0..IdxSize - 1
           /\ I!last_used_idx = IF avail_idx >= QueueNum THEN avail_idx - QueueNum
                              ELSE avail_idx - QueueNum + IdxSize
           /\ I!pending = IF used_idx >= I!last_used_idx THEN used_idx - I!last_used_idx
                        ELSE used_idx - I!last_used_idx + IdxSize
<1>1. I!last_used_idx = IF avail_idx >= QueueNum THEN avail_idx - QueueNum
                      ELSE avail_idx - QueueNum + IdxSize
  <2>1. CASE avail_idx >= QueueNum
    <3>1. avail_idx - QueueNum \in 0..IdxSize - 1
      BY <2>1, InputConstants
    <3> QED
      BY <2>1, <3>1, Remainders DEF I!last_used_idx
  <2>2. CASE ~(avail_idx >= QueueNum)
    <3> DEFINE x == avail_idx - QueueNum + IdxSize
    <3>1. x \in 0..IdxSize - 1 /\ x - IdxSize = avail_idx - QueueNum
      BY <2>2, InputConstants
    <3>2. (x - IdxSize) % IdxSize = x
      BY <3>1, Remainders
    <3> QED
      BY <2>2, <3>1, <3>2 DEF I!last_used_idx
  <2> QED
    BY <2>1, <2>2
<1>2. I!last_used_idx \in 0..IdxSize - 1
  BY <1>1, InputConstants
<1>3. I!pending = IF used_idx >= I!last_used_idx THEN used_idx - I!last_used_idx
                ELSE used_idx - I!last_used_idx + IdxSize
  <2>1. CASE used_idx >= I!last_used_idx
    <3>1. used_idx - I!last_used_idx \in 0..IdxSize - 1
      BY <1>2, <2>1, InputConstants
    <3> QED
      BY <2>1, <3>1, Remainders DEF I!pending
  <2>2. CASE ~(used_idx >= I!last_used_idx)
    <3> DEFINE x == used_idx - I!last_used_idx + IdxSize
    <3>1. x \in 0..IdxSize - 1 /\ x - IdxSize = used_idx - I!last_used_idx
      BY <1>2, <2>2, InputConstants
    <3>2. (x - IdxSize) % IdxSize = x
      BY <3>1, Remainders
    <3> QED
      BY <2>2, <3>1, <3>2 DEF I!pending
  <2> QED
    BY <2>1, <2>2
<1>4. I!pending \in 0..IdxSize - 1
  BY <1>2, <1>3, InputConstants
<1> QED
  BY <1>1, <1>2, <1>3, <1>4

(* The slots of as many elements as there are buffers are distinct.        *)
LEMMA DistinctSlots ==
    ASSUME used_idx \in 0..IdxSize - 1, avail_idx \in 0..IdxSize - 1
    PROVE  /\ \A k \in Int : (I!last_used_idx + k) % QueueNum \in I!Slots
           /\ \A j, k \in 0..QueueNum - 1 :
                 (I!last_used_idx + j) % QueueNum = (I!last_used_idx + k) % QueueNum => j = k
<1>1. I!last_used_idx \in Int /\ QueueNum \in Nat \ {0}
  BY Indices, InputConstants
<1>2. ASSUME NEW k \in Int PROVE (I!last_used_idx + k) % QueueNum \in I!Slots
  <2>1. I!last_used_idx + k \in Int
    BY <1>1
  <2> QED
    BY <1>1, <2>1 DEF I!Slots
<1>3. ASSUME NEW j \in 0..QueueNum - 1, NEW k \in 0..QueueNum - 1,
             (I!last_used_idx + j) % QueueNum = (I!last_used_idx + k) % QueueNum
      PROVE  j = k
  <2>1. /\ I!last_used_idx + j \in Int /\ I!last_used_idx + k \in Int
        /\ (I!last_used_idx + j) - (I!last_used_idx + k) < QueueNum
        /\ (I!last_used_idx + k) - (I!last_used_idx + j) < QueueNum
    BY <1>1
  <2>2. I!last_used_idx + j = I!last_used_idx + k
    BY <1>1, <1>3, <2>1, DistinctRemainders
  <2> QED
    BY <1>1, <2>2
<1> QED
  BY <1>2, <1>3

(* The slot that the device fills next is behind those that wait.          *)
LEMMA NextSlot ==
    ASSUME used_idx \in 0..IdxSize - 1, avail_idx \in 0..IdxSize - 1
    PROVE  used_idx % QueueNum = (I!last_used_idx + I!pending) % QueueNum
<1>1. /\ I!last_used_idx \in Int /\ I!pending \in Int /\ used_idx \in Int /\ QueueNum \in Nat \ {0} /\ IdxSize \in Int
      /\ IdxSize % QueueNum = 0
      /\ \/ I!last_used_idx + I!pending = used_idx
         \/ I!last_used_idx + I!pending = used_idx + IdxSize
  BY Indices, InputConstants
<1>2. (used_idx + IdxSize) % QueueNum = used_idx % QueueNum
  BY <1>1, PlusMultiple
<1> QED
  BY <1>1, <1>2

(* What the device and the commit clip do to the indices.                  *)
LEMMA DeviceCounts ==
    ASSUME used_idx \in 0..IdxSize - 1, avail_idx \in 0..IdxSize - 1, I!pending <= QueueNum,
           used_idx # avail_idx, used_idx' = (used_idx + 1) % IdxSize, avail_idx' = avail_idx
    PROVE  /\ used_idx' \in 0..IdxSize - 1 /\ I!last_used_idx' = I!last_used_idx
           /\ I!pending < QueueNum /\ I!pending' = I!pending + 1
<1>1. used_idx' = IF used_idx + 1 < IdxSize THEN used_idx + 1 ELSE 0
  <2>1. CASE used_idx + 1 < IdxSize
    <3>1. used_idx + 1 \in 0..IdxSize - 1
      BY <2>1, InputConstants
    <3> QED
      BY <2>1, <3>1, Remainders
  <2>2. CASE ~(used_idx + 1 < IdxSize)
    <3>1. 0 \in 0..IdxSize - 1 /\ used_idx + 1 = 0 + IdxSize
      BY <2>2, InputConstants
    <3> QED
      BY <2>2, <3>1, Remainders
  <2> QED
    BY <2>1, <2>2
<1>2. used_idx' \in 0..IdxSize - 1 /\ I!last_used_idx' = I!last_used_idx
  BY <1>1, InputConstants DEF I!last_used_idx
<1>3. /\ I!last_used_idx \in 0..IdxSize - 1 /\ I!pending \in 0..IdxSize - 1
      /\ I!last_used_idx = IF avail_idx >= QueueNum THEN avail_idx - QueueNum
                         ELSE avail_idx - QueueNum + IdxSize
      /\ I!pending = IF used_idx >= I!last_used_idx THEN used_idx - I!last_used_idx
                   ELSE used_idx - I!last_used_idx + IdxSize
  BY Indices
<1>4. I!pending # QueueNum
  BY <1>3, InputConstants
<1>5. I!pending < QueueNum
  BY <1>3, <1>4, InputConstants
<1>6. used_idx' = (I!last_used_idx + (I!pending + 1)) % IdxSize
  <2>1. \/ I!last_used_idx + (I!pending + 1) = used_idx + 1
        \/ I!last_used_idx + (I!pending + 1) = (used_idx + 1) + IdxSize
    BY <1>3, InputConstants
  <2>2. ((used_idx + 1) + IdxSize) % IdxSize = (used_idx + 1) % IdxSize
    <3>1. IdxSize \in Nat \ {0} /\ IdxSize \in Int /\ IdxSize % IdxSize = 0 /\ used_idx + 1 \in Int
      BY InputConstants
    <3> QED
      BY <3>1, PlusMultiple
  <2> QED
    BY <2>1, <2>2
<1>7. I!pending' = I!pending + 1
  <2>1. I!pending' = (used_idx' - I!last_used_idx) % IdxSize
    BY <1>2 DEF I!pending
  <2>2. \/ used_idx' - I!last_used_idx = I!pending + 1
        \/ used_idx' - I!last_used_idx = (I!pending + 1) - IdxSize
    BY <1>1, <1>3, InputConstants
  <2>3. I!pending + 1 \in 0..IdxSize - 1
    BY <1>3, <1>5, InputConstants
  <2> QED
    BY <2>1, <2>2, <2>3, Remainders
<1> QED
  BY <1>2, <1>5, <1>7

LEMMA CommitCounts ==
    ASSUME used_idx \in 0..IdxSize - 1, used_idx' = used_idx,
           avail_idx' = (used_idx + QueueNum) % IdxSize
    PROVE  avail_idx' \in 0..IdxSize - 1 /\ I!last_used_idx' = used_idx /\ I!pending' = 0
<1>1. avail_idx' = IF used_idx + QueueNum < IdxSize THEN used_idx + QueueNum
                   ELSE used_idx + QueueNum - IdxSize
  <2>1. CASE used_idx + QueueNum < IdxSize
    <3>1. used_idx + QueueNum \in 0..IdxSize - 1
      BY <2>1, InputConstants
    <3> QED
      BY <2>1, <3>1, Remainders
  <2>2. CASE ~(used_idx + QueueNum < IdxSize)
    <3> DEFINE x == used_idx + QueueNum - IdxSize
    <3>1. x \in 0..IdxSize - 1 /\ x + IdxSize = used_idx + QueueNum
      BY <2>2, InputConstants
    <3>2. (x + IdxSize) % IdxSize = x
      BY <3>1, Remainders
    <3> QED
      BY <2>2, <3>1, <3>2
  <2> QED
    BY <2>1, <2>2
<1>2. avail_idx' \in 0..IdxSize - 1
  BY <1>1, InputConstants
<1>3. I!last_used_idx' = used_idx
  <2>1. \/ avail_idx' - QueueNum = used_idx
        \/ avail_idx' - QueueNum = used_idx - IdxSize
    BY <1>1, InputConstants
  <2> QED
    BY <2>1, Remainders DEF I!last_used_idx
<1>4. I!pending' = 0
  <2>1. 0 \in 0..IdxSize - 1 /\ used_idx - used_idx = 0
    BY InputConstants
  <2> QED
    BY <1>3, <2>1, Remainders DEF I!pending
<1> QED
  BY <1>2, <1>3, <1>4

-----------------------------------------------------------------------------
(* FlattenSeq, and the order of what it joins.                             *)

LEMMA Induction ==
    ASSUME NEW T, 0 \in T, \A n \in Nat : n \in T => n + 1 \in T
    PROVE  Nat \subseteq T
<1> DEFINE U == {n \in Nat : n \notin T}
<1>1. ASSUME U # {} PROVE FALSE
  <2>1. PICK x \in U : \A y \in U : x <= y
    BY <1>1, LeastElement
  <2>2. x \in Nat /\ x # 0
    BY <2>1
  <2>3. x - 1 \in Nat /\ x - 1 \notin U
    BY <2>1, <2>2
  <2> QED
    BY <2>1, <2>2, <2>3
<1> QED
  BY <1>1

LEMMA FlattenJoins ==
    ASSUME NEW n \in Nat \ {0}, NEW pieces, NEW joined,
           Len(pieces) = n, joined = [i \in 1..n |-> joined[i]],
           joined[1] = pieces[1],
           \A i \in 2..n : joined[i] = joined[i - 1] \o pieces[i]
    PROVE  I!FlattenSeq(pieces) = joined[n]
<1> DEFINE Entry(f) == [i \in 1..n |-> IF i = 1 THEN pieces[i] ELSE f[i - 1] \o pieces[i]]
           flatten == CHOOSE f : f = Entry(f)
<1>1. joined = Entry(joined)
  <2>1. \A i \in 1..n : joined[i] = IF i = 1 THEN pieces[i] ELSE joined[i - 1] \o pieces[i]
    <3>1. ASSUME NEW i \in 1..n, i # 1 PROVE joined[i] = joined[i - 1] \o pieces[i]
      <4>1. i \in 2..n
        BY <3>1
      <4> QED
        BY <4>1
    <3> QED
      BY <3>1
  <2> QED
    BY <2>1, Zenon
<1>2. flatten = Entry(flatten)
  BY <1>1, Zenon
<1>3. I!FlattenSeq(pieces) = flatten[n]
  BY DEF I!FlattenSeq
<1> HIDE DEF flatten
<1> DEFINE T == {i \in Nat : i \in 1..n => flatten[i] = joined[i]}
<1>4. 0 \in T
  OBVIOUS
<1>5. ASSUME NEW i \in Nat, i \in T PROVE i + 1 \in T
  <2>1. CASE i = 0
    BY <1>2, <2>1
  <2>2. CASE i > 0 /\ i + 1 \in 1..n
    <3>1. i \in 1..n /\ (i + 1) - 1 = i /\ i + 1 # 1 /\ i + 1 \in 2..n
      BY <2>2
    <3>2. flatten[i + 1] = flatten[i] \o pieces[i + 1]
      BY <1>2, <2>2, <3>1
    <3>3. joined[i + 1] = joined[i] \o pieces[i + 1]
      BY <3>1
    <3>4. flatten[i] = joined[i]
      BY <1>5, <3>1
    <3>5. flatten[i + 1] = joined[i + 1]
      BY <3>2, <3>3, <3>4
    <3> QED
      BY <3>5
  <2>3. CASE i + 1 \notin 1..n
    BY <2>3
  <2> QED
    BY <2>1, <2>2, <2>3
<1>6. Nat \subseteq T
  <2> HIDE DEF T
  <2> QED
    BY <1>4, <1>5, Induction
<1>7. n \in T
  <2> HIDE DEF T
  <2> QED
    BY <1>6
<1>8. n \in 1..n
  OBVIOUS
<1>9. flatten[n] = joined[n]
  BY <1>7, <1>8
<1> QED
  BY <1>3, <1>9

(* The sequences flattened so far, one more at a time.                     *)
Flattens(F, msgs, S) ==
    /\ F \in [0..Len(msgs) -> Seq(S)] /\ F[0] = <<>>
    /\ \A i \in 1..Len(msgs) : F[i] = F[i - 1] \o msgs[i]

LEMMA FlattenIs ==
    ASSUME NEW S, NEW msgs \in Seq(Seq(S)), NEW F, Flattens(F, msgs, S)
    PROVE  I!FlattenSeq(msgs) = F[Len(msgs)]
<1>1. /\ Len(msgs) \in Nat /\ F \in [0..Len(msgs) -> Seq(S)] /\ F[0] = <<>>
      /\ \A i \in 1..Len(msgs) : F[i] = F[i - 1] \o msgs[i]
  BY LenProperties DEF Flattens
<1>2. CASE Len(msgs) = 0
  <2>1. msgs = <<>>
    BY <1>2, EmptySeq
  <2>2. I!FlattenSeq(<<>>) = <<>>
    BY DEF I!FlattenSeq
  <2> QED
    BY <1>1, <1>2, <2>1, <2>2
<1>3. CASE Len(msgs) > 0
  <2> DEFINE n == Len(msgs)
             joined == [i \in 1..n |-> F[i]]
  <2>1. n \in Nat \ {0}
    BY <1>1, <1>3
  <2>2. joined = [i \in 1..n |-> joined[i]]
    OBVIOUS
  <2>3. joined[1] = msgs[1]
    <3>1. 1 \in 1..n /\ msgs[1] \in Seq(S)
      BY <2>1, ElementOfSeq
    <3>2. F[1] = F[1 - 1] \o msgs[1]
      BY <1>1, <3>1, Zenon
    <3>3. F[1] = <<>> \o msgs[1]
      <4>1. 1 - 1 = 0
        OBVIOUS
      <4> QED
        BY <1>1, <3>2, <4>1, Zenon
    <3>4. <<>> \o msgs[1] = msgs[1]
      BY <3>1, ConcatEmptySeq
    <3> QED
      BY <3>1, <3>3, <3>4
  <2>4. ASSUME NEW i \in 2..n PROVE joined[i] = joined[i - 1] \o msgs[i]
    <3>1. i \in 1..n /\ i - 1 \in 1..n
      BY <2>1
    <3>2. F[i] = F[i - 1] \o msgs[i]
      BY <1>1, <3>1
    <3> QED
      BY <3>1, <3>2
  <2>5. Len(msgs) = n /\ joined[n] = F[n]
    BY <2>1
  <2> HIDE DEF joined, n
  <2>6. I!FlattenSeq(msgs) = joined[n]
    BY <2>1, <2>2, <2>3, <2>4, <2>5, FlattenJoins
  <2> QED
    BY <2>5, <2>6
<1> QED
  BY <1>1, <1>2, <1>3

LEMMA FlattenExists ==
    ASSUME NEW S, NEW msgs \in Seq(Seq(S))
    PROVE  \E F : Flattens(F, msgs, S)
<1> DEFINE T == {m \in Nat : m <= Len(msgs) => \E F \in [0..m -> Seq(S)] :
                      F[0] = <<>> /\ \A i \in 1..m : F[i] = F[i - 1] \o msgs[i]}
<1>1. Len(msgs) \in Nat
  BY LenProperties
<1>2. 0 \in T
  <2> DEFINE F == [i \in 0..0 |-> <<>>]
  <2>1. F \in [0..0 -> Seq(S)] /\ F[0] = <<>> /\ \A i \in 1..0 : F[i] = F[i - 1] \o msgs[i]
    BY EmptySeq
  <2> QED
    BY <2>1
<1>3. ASSUME NEW m \in Nat, m \in T PROVE m + 1 \in T
  <2> SUFFICES ASSUME m + 1 <= Len(msgs)
               PROVE  \E F \in [0..m + 1 -> Seq(S)] :
                         F[0] = <<>> /\ \A i \in 1..m + 1 : F[i] = F[i - 1] \o msgs[i]
    <3>1. m + 1 \in Nat
      OBVIOUS
    <3> QED
      BY <3>1, Zenon
  <2>1. m <= Len(msgs) /\ m + 1 \in 1..Len(msgs)
    BY <1>1
  <2>2. PICK F \in [0..m -> Seq(S)] : F[0] = <<>> /\ \A i \in 1..m : F[i] = F[i - 1] \o msgs[i]
    BY <1>3, <2>1
  <2>3. F[m] \in Seq(S) /\ msgs[m + 1] \in Seq(S)
    BY <2>1, ElementOfSeq
  <2>4. F[m] \o msgs[m + 1] \in Seq(S)
    BY <2>3, ConcatProperties
  <2> DEFINE G == [i \in 0..m + 1 |-> IF i = m + 1 THEN F[m] \o msgs[m + 1] ELSE F[i]]
  <2>5. G \in [0..m + 1 -> Seq(S)]
    <3>1. ASSUME NEW i \in 0..m + 1 PROVE G[i] \in Seq(S)
      <4>1. CASE i = m + 1
        BY <2>4, <4>1
      <4>2. CASE i # m + 1
        <5>1. i \in 0..m
          BY <4>2
        <5> QED
          BY <4>2, <5>1
      <4> QED
        BY <4>1, <4>2
    <3> QED
      BY <3>1
  <2>6. G[0] = <<>>
    BY <2>2
  <2>7. ASSUME NEW i \in 1..m + 1 PROVE G[i] = G[i - 1] \o msgs[i]
    <3>1. i - 1 \in 0..m /\ G[i - 1] = F[i - 1]
      OBVIOUS
    <3>2. CASE i = m + 1
      <4>1. i - 1 = m /\ m + 1 \in 0..m + 1
        BY <3>2
      <4>2. G[m + 1] = F[m] \o msgs[m + 1]
        BY <4>1
      <4> HIDE DEF G
      <4> QED
        BY <3>1, <3>2, <4>1, <4>2, Zenon
    <3>3. CASE i # m + 1
      <4>1. i \in 1..m /\ i \in 0..m + 1
        BY <3>3
      <4> QED
        BY <2>2, <3>1, <3>3, <4>1
    <3> QED
      BY <3>2, <3>3
  <2> HIDE DEF G
  <2> QED
    BY <2>5, <2>6, <2>7
<1>4. Len(msgs) \in T
  <2> HIDE DEF T
  <2> QED
    BY <1>1, <1>2, <1>3, Induction
<1>5. Len(msgs) <= Len(msgs)
  BY <1>1
<1> QED
  BY <1>4, <1>5, Zenon DEF Flattens

LEMMA FlattenType ==
    ASSUME NEW S, NEW msgs \in Seq(Seq(S))
    PROVE  I!FlattenSeq(msgs) \in Seq(S)
<1>1. PICK F : Flattens(F, msgs, S)
  BY FlattenExists
<1>2. I!FlattenSeq(msgs) = F[Len(msgs)] /\ Len(msgs) \in Nat
  BY <1>1, FlattenIs, LenProperties
<1> QED
  BY <1>1, <1>2 DEF Flattens

LEMMA FlattenOne ==
    ASSUME NEW S, NEW m \in Seq(S)
    PROVE  I!FlattenSeq(<<m>>) = m /\ I!FlattenSeq(<<>>) = <<>>
<1>1. <<m>> \in Seq(Seq(S)) /\ Len(<<m>>) = 1
  OBVIOUS
<1> DEFINE F == [i \in 0..1 |-> IF i = 0 THEN <<>> ELSE m]
<1>2. F[0] = <<>> /\ F[1] = m /\ F \in [0..1 -> Seq(S)]
  BY EmptySeq
<1>3. <<>> \o m = m
  BY ConcatEmptySeq
<1>4. \A i \in 1..1 : F[i] = F[i - 1] \o <<m>>[i]
  <2> SUFFICES ASSUME NEW i \in 1..1 PROVE F[i] = F[i - 1] \o <<m>>[i]
    OBVIOUS
  <2>1. i = 1 /\ i - 1 = 0 /\ <<m>>[1] = m
    OBVIOUS
  <2> QED
    BY <1>2, <1>3, <2>1
<1> HIDE DEF F
<1>5. Flattens(F, <<m>>, S)
  BY <1>1, <1>2, <1>4 DEF Flattens
<1>6. I!FlattenSeq(<<m>>) = F[Len(<<m>>)]
  BY <1>1, <1>5, FlattenIs
<1>7. I!FlattenSeq(<<>>) = <<>>
  BY DEF I!FlattenSeq
<1> QED
  BY <1>1, <1>2, <1>6, <1>7

LEMMA FlattenConcat ==
    ASSUME NEW S, NEW s \in Seq(Seq(S)), NEW t \in Seq(Seq(S))
    PROVE  I!FlattenSeq(s \o t) = I!FlattenSeq(s) \o I!FlattenSeq(t)
<1> DEFINE m == Len(s)
           n == Len(t)
<1>1. m \in Nat /\ n \in Nat
  BY LenProperties
<1>2. PICK F : Flattens(F, s, S)
  BY FlattenExists
<1>3. PICK G : Flattens(G, t, S)
  BY FlattenExists
<1>4. /\ F \in [0..m -> Seq(S)] /\ F[0] = <<>> /\ \A i \in 1..m : F[i] = F[i - 1] \o s[i]
      /\ G \in [0..n -> Seq(S)] /\ G[0] = <<>> /\ \A i \in 1..n : G[i] = G[i - 1] \o t[i]
  BY <1>2, <1>3 DEF Flattens
<1>5. I!FlattenSeq(s) = F[m] /\ I!FlattenSeq(t) = G[n]
  BY <1>2, <1>3, FlattenIs
<1>6. /\ s \o t \in Seq(Seq(S)) /\ Len(s \o t) = m + n
      /\ \A i \in 1..m + n : (s \o t)[i] = IF i <= m THEN s[i] ELSE t[i - m]
  BY ConcatProperties
<1>7. F[m] \in Seq(S) /\ F[m] \o <<>> = F[m]
  <2>1. m \in 0..m
    BY <1>1
  <2>2. F[m] \in Seq(S)
    BY <1>4, <2>1, Zenon
  <2> QED
    BY <2>2, ConcatEmptySeq
<1> DEFINE H == [i \in 0..m + n |-> IF i <= m THEN F[i] ELSE F[m] \o G[i - m]]
<1>8. H \in [0..m + n -> Seq(S)]
  <2>1. ASSUME NEW i \in 0..m + n PROVE H[i] \in Seq(S)
    <3>1. CASE i <= m
      <4>1. i \in 0..m
        BY <1>1, <3>1
      <4> QED
        BY <1>4, <3>1, <4>1
    <3>2. CASE ~(i <= m)
      <4>1. i - m \in 0..n
        BY <1>1, <3>2
      <4>2. G[i - m] \in Seq(S)
        BY <1>4, <4>1
      <4>3. F[m] \o G[i - m] \in Seq(S)
        BY <1>7, <4>2, ConcatProperties
      <4> QED
        BY <3>2, <4>3
    <3> QED
      BY <3>1, <3>2
  <2> QED
    BY <2>1
<1>9. H[0] = <<>>
  BY <1>1, <1>4
<1>10. ASSUME NEW i \in 1..m + n PROVE H[i] = H[i - 1] \o (s \o t)[i]
  <2>1. CASE i <= m
    <3>1. i \in 1..m /\ i \in 0..m + n /\ i - 1 \in 0..m + n /\ i - 1 <= m
      BY <1>1, <2>1
    <3> QED
      BY <1>4, <1>6, <2>1, <3>1
  <2>2. CASE ~(i <= m)
    <3>1. /\ i - m \in 1..n /\ i - 1 - m \in 0..n /\ (i - m) - 1 = i - 1 - m
          /\ i \in 0..m + n /\ i - 1 \in 0..m + n
      BY <1>1, <2>2
    <3>2. (s \o t)[i] = t[i - m] /\ t[i - m] \in Seq(S) /\ G[i - 1 - m] \in Seq(S)
      <4>1. (s \o t)[i] = t[i - m]
        BY <1>6, <2>2
      <4>2. t[i - m] \in Seq(S)
        BY <3>1, ElementOfSeq
      <4> QED
        BY <1>4, <3>1, <4>1, <4>2
    <3>3. G[i - m] = G[i - 1 - m] \o t[i - m]
      BY <1>4, <3>1
    <3>4. H[i] = F[m] \o (G[i - 1 - m] \o t[i - m])
      BY <2>2, <3>1, <3>3
    <3>5. (F[m] \o G[i - 1 - m]) \o t[i - m] = F[m] \o (G[i - 1 - m] \o t[i - m])
      <4> DEFINE a == F[m]
                 b == G[i - 1 - m]
                 c == t[i - m]
      <4>1. a \in Seq(S) /\ b \in Seq(S) /\ c \in Seq(S)
        BY <1>7, <3>2
      <4> HIDE DEF a, b, c
      <4>2. (a \o b) \o c = a \o (b \o c)
        BY <4>1, ConcatAssociative
      <4> QED
        BY <4>2 DEF a, b, c
    <3>6. H[i - 1] = F[m] \o G[i - 1 - m]
      <4>1. CASE i - 1 = m
        <5>1. i - 1 - m = 0 /\ G[0] = <<>> /\ i - 1 <= m
          BY <1>1, <1>4, <4>1
        <5>2. H[i - 1] = F[m]
          BY <3>1, <4>1, <5>1
        <5> QED
          BY <1>7, <5>1, <5>2
      <4>2. CASE i - 1 # m
        <5>1. ~(i - 1 <= m)
          BY <1>1, <2>2, <4>2
        <5> QED
          BY <3>1, <5>1
      <4> QED
        BY <4>1, <4>2
    <3> HIDE DEF H
    <3> QED
      BY <3>2, <3>4, <3>5, <3>6
  <2> QED
    BY <2>1, <2>2
<1>11. H[m + n] = F[m] \o G[n]
  <2>1. CASE n = 0
    <3>1. m + n <= m /\ m + n = m /\ m + n \in 0..m + n
      BY <1>1, <2>1
    <3>2. H[m + n] = F[m] /\ G[n] = <<>>
      BY <1>4, <2>1, <3>1
    <3> QED
      BY <1>7, <3>2
  <2>2. CASE n # 0
    <3>1. ~(m + n <= m) /\ (m + n) - m = n /\ m + n \in 0..m + n
      BY <1>1, <2>2
    <3>2. ASSUME NEW i \in 0..m + n, ~(i <= m) PROVE H[i] = F[m] \o G[i - m]
      BY <3>2
    <3> HIDE DEF H, m, n
    <3>3. H[m + n] = F[m] \o G[(m + n) - m]
      BY <3>1, <3>2, Zenon
    <3> QED
      BY <3>1, <3>3, Zenon
  <2> QED
    BY <2>1, <2>2
<1> HIDE DEF H, m, n
<1>12. Flattens(H, s \o t, S)
  BY <1>6, <1>8, <1>9, <1>10 DEF Flattens
<1>13. I!FlattenSeq(s \o t) = H[m + n]
  BY <1>6, <1>12, FlattenIs
<1> QED
  BY <1>5, <1>11, <1>13

LEMMA RunType ==
    ASSUME NEW a \in 0..MaxBytes, NEW b \in 0..MaxBytes, a <= b
    PROVE  Run(a, b) \in Seq(I!Bytes) /\ Len(Run(a, b)) = b - a /\ \A i \in 1..b - a : Run(a, b)[i] = a + i
<1>1. a \in Int /\ b \in Int /\ b - a \in Nat /\ MaxBytes \in Nat
  BY InputConstants
<1>2. Run(a, b) = [i \in 1..b - a |-> a + i]
  BY DEF Run
<1>3. \A i \in 1..b - a : a + i \in I!Bytes
  BY <1>1 DEF I!Bytes
<1>4. Run(a, b) \in [1..b - a -> I!Bytes]
  BY <1>2, <1>3
<1>5. Run(a, b) \in Seq(I!Bytes)
  BY <1>1, <1>4, SeqDef
<1>6. Len(Run(a, b)) = b - a
  BY <1>1, <1>2
<1> QED
  BY <1>2, <1>5, <1>6

LEMMA OrderedNone == \A a, b : Ordered(<<>>, a, b)
<1>1. I!FlattenSeq(<<>>) = <<>>
  BY DEF I!FlattenSeq
<1>2. <<>> \in Seq(Seq(I!Bytes)) /\ DOMAIN <<>> = {}
  BY EmptySeq
<1> QED
  BY <1>1, <1>2 DEF Ordered, Runs, Within

LEMMA OrderedRun ==
    ASSUME NEW a \in 0..MaxBytes, NEW b \in 0..MaxBytes, a <= b
    PROVE  Ordered(<<Run(a, b)>>, a, b) /\ I!FlattenSeq(<<Run(a, b)>>) = Run(a, b)
<1> DEFINE m == Run(a, b)
<1>1. /\ m \in Seq(I!Bytes) /\ DOMAIN m = 1..b - a /\ \A i \in 1..b - a : m[i] = a + i
      /\ a \in Int /\ b \in Int
  <2>1. m \in Seq(I!Bytes) /\ Len(m) = b - a /\ \A i \in 1..b - a : m[i] = a + i
    BY RunType
  <2>2. DOMAIN m = 1..Len(m)
    BY <2>1, LenProperties
  <2> QED
    BY <2>1, <2>2, InputConstants
<1> HIDE DEF m
<1>2. I!FlattenSeq(<<m>>) = m
  BY <1>1, FlattenOne
<1>3. <<m>> \in Seq(Seq(I!Bytes)) /\ DOMAIN <<m>> = {1} /\ <<m>>[1] = m
  BY <1>1
<1>4. Within(m, a, b)
  BY <1>1 DEF Within
<1>5. \A i \in DOMAIN m : m[i] = m[1] + i - 1
  <2> SUFFICES ASSUME NEW i \in 1..b - a PROVE m[i] = m[1] + i - 1
    BY <1>1
  <2>1. 1 \in 1..b - a
    BY <1>1
  <2> QED
    BY <1>1, <2>1
<1>6. Runs(<<m>>)
  BY <1>3, <1>5 DEF Runs
<1>7. Ordered(<<m>>, a, b)
  BY <1>2, <1>3, <1>4, <1>6 DEF Ordered
<1> QED
  BY <1>2, <1>7 DEF m

LEMMA OrderedWider ==
    ASSUME NEW msgs, NEW a \in Int, NEW b \in Int, NEW c \in Int, NEW d \in Int,
           Ordered(msgs, a, b), c <= a, b <= d
    PROVE  Ordered(msgs, c, d)
<1>1. msgs \in Seq(Seq(I!Bytes)) /\ Runs(msgs) /\ Within(I!FlattenSeq(msgs), a, b)
  BY DEF Ordered
<1> DEFINE s == I!FlattenSeq(msgs)
<1>2. s \in Seq(I!Bytes)
  BY <1>1, FlattenType
<1> HIDE DEF s
<1>3. \A i \in DOMAIN s : s[i] \in Int
  <2>1. DOMAIN s = 1..Len(s)
    BY <1>2, LenProperties
  <2> QED
    BY <1>2, <2>1, ElementOfSeq, InputConstants DEF I!Bytes
<1>4. Within(s, c, d)
  BY <1>1, <1>3 DEF Within, s
<1> QED
  BY <1>1, <1>4 DEF Ordered, s

LEMMA WithinConcat ==
    ASSUME NEW s \in Seq(I!Bytes), NEW t \in Seq(I!Bytes),
           NEW a \in Int, NEW b \in Int, NEW c \in Int, a <= b, b <= c,
           Within(s, a, b), Within(t, b, c)
    PROVE  Within(s \o t, a, c)
<1>1. /\ Len(s) \in Nat /\ Len(t) \in Nat /\ DOMAIN s = 1..Len(s) /\ DOMAIN t = 1..Len(t)
  BY LenProperties
<1>2. /\ s \o t \in Seq(I!Bytes) /\ Len(s \o t) = Len(s) + Len(t)
      /\ \A i \in 1..Len(s) + Len(t) : (s \o t)[i] = IF i <= Len(s) THEN s[i] ELSE t[i - Len(s)]
  BY ConcatProperties
<1>3. DOMAIN (s \o t) = 1..Len(s) + Len(t)
  BY <1>2, LenProperties
<1> DEFINE u == s \o t
<1>4. /\ \A i \in 1..Len(s) : s[i] \in Int /\ a < s[i] /\ s[i] <= b
      /\ \A i \in 1..Len(t) : t[i] \in Int /\ b < t[i] /\ t[i] <= c
  <2>1. \A i \in 1..Len(s) : s[i] \in I!Bytes
    BY ElementOfSeq
  <2>2. \A i \in 1..Len(t) : t[i] \in I!Bytes
    BY ElementOfSeq
  <2>3. I!Bytes \subseteq Int
    BY InputConstants DEF I!Bytes
  <2> QED
    BY <1>1, <2>1, <2>2, <2>3 DEF Within
<1>5. /\ \A i \in 1..Len(s) : u[i] = s[i]
      /\ \A i \in Len(s) + 1..Len(s) + Len(t) : u[i] = t[i - Len(s)] /\ i - Len(s) \in 1..Len(t)
  BY <1>1, <1>2
<1> HIDE DEF u
<1>6. ASSUME NEW i \in 1..Len(s) + Len(t) PROVE a < u[i] /\ u[i] <= c
  <2>1. CASE i \in 1..Len(s)
    BY <1>4, <1>5, <2>1
  <2>2. CASE i \in Len(s) + 1..Len(s) + Len(t)
    <3>1. i - Len(s) \in 1..Len(t) /\ u[i] = t[i - Len(s)]
      BY <1>5, <2>2
    <3>2. t[i - Len(s)] \in Int /\ b < t[i - Len(s)] /\ t[i - Len(s)] <= c
      BY <1>4, <3>1
    <3> QED
      BY <3>1, <3>2
  <2>3. i \in 1..Len(s) \/ i \in Len(s) + 1..Len(s) + Len(t)
    BY <1>1
  <2> QED
    BY <2>1, <2>2, <2>3
<1>7. ASSUME NEW i \in 1..Len(s) + Len(t), NEW j \in 1..Len(s) + Len(t), i < j
      PROVE  u[i] < u[j]
  <2>1. CASE j \in 1..Len(s)
    <3>1. i \in 1..Len(s)
      BY <1>1, <1>7, <2>1
    <3> QED
      BY <1>1, <1>5, <1>7, <2>1, <3>1 DEF Within
  <2>2. CASE i \in 1..Len(s) /\ j \in Len(s) + 1..Len(s) + Len(t)
    <3>1. j - Len(s) \in 1..Len(t) /\ u[j] = t[j - Len(s)] /\ u[i] = s[i]
      BY <1>5, <2>2
    <3>2. b < t[j - Len(s)] /\ t[j - Len(s)] \in Int /\ s[i] \in Int /\ s[i] <= b
      BY <1>4, <2>2, <3>1
    <3> QED
      BY <3>1, <3>2
  <2>3. CASE i \in Len(s) + 1..Len(s) + Len(t)
    <3>1. j \in Len(s) + 1..Len(s) + Len(t)
      BY <1>1, <1>7, <2>3
    <3>2. /\ i - Len(s) \in 1..Len(t) /\ u[i] = t[i - Len(s)]
          /\ j - Len(s) \in 1..Len(t) /\ u[j] = t[j - Len(s)]
      BY <1>5, <2>3, <3>1
    <3>3. i - Len(s) < j - Len(s)
      BY <1>1, <1>7
    <3>4. t[i - Len(s)] < t[j - Len(s)]
      BY <1>1, <3>2, <3>3 DEF Within
    <3> QED
      BY <3>2, <3>4
  <2>4. /\ i \in 1..Len(s) \/ i \in Len(s) + 1..Len(s) + Len(t)
        /\ j \in 1..Len(s) \/ j \in Len(s) + 1..Len(s) + Len(t)
    BY <1>1
  <2> QED
    BY <2>1, <2>2, <2>3, <2>4
<1> QED
  BY <1>3, <1>6, <1>7 DEF u, Within

LEMMA RunsConcat ==
    ASSUME NEW s \in Seq(Seq(I!Bytes)), NEW t \in Seq(Seq(I!Bytes)), Runs(s), Runs(t)
    PROVE  s \o t \in Seq(Seq(I!Bytes)) /\ Runs(s \o t)
<1>1. /\ Len(s) \in Nat /\ Len(t) \in Nat /\ DOMAIN s = 1..Len(s) /\ DOMAIN t = 1..Len(t)
  BY LenProperties
<1>2. /\ s \o t \in Seq(Seq(I!Bytes)) /\ Len(s \o t) = Len(s) + Len(t)
      /\ \A i \in 1..Len(s) + Len(t) : (s \o t)[i] = IF i <= Len(s) THEN s[i] ELSE t[i - Len(s)]
  BY ConcatProperties
<1>3. DOMAIN (s \o t) = 1..Len(s) + Len(t)
  BY <1>2, LenProperties
<1> DEFINE Successive(m) == \A i \in DOMAIN m : m[i] = m[1] + i - 1
<1>4. \A k \in 1..Len(s) : Successive(s[k])
  BY <1>1 DEF Runs
<1>5. \A k \in 1..Len(t) : Successive(t[k])
  BY <1>1 DEF Runs
<1>6. ASSUME NEW k \in 1..Len(s) + Len(t) PROVE Successive((s \o t)[k])
  <2> HIDE DEF Successive
  <2>1. CASE k <= Len(s)
    <3>1. k \in 1..Len(s) /\ (s \o t)[k] = s[k]
      BY <1>1, <1>2, <2>1
    <3> QED
      BY <1>4, <3>1
  <2>2. CASE ~(k <= Len(s))
    <3>1. k - Len(s) \in 1..Len(t) /\ (s \o t)[k] = t[k - Len(s)]
      BY <1>1, <1>2, <2>2
    <3> QED
      BY <1>5, <3>1
  <2> QED
    BY <2>1, <2>2
<1>7. \A k \in DOMAIN (s \o t) : Successive((s \o t)[k])
  <2> HIDE DEF Successive
  <2> QED
    BY <1>3, <1>6
<1> QED
  BY <1>2, <1>7, Zenon DEF Runs

LEMMA OrderedConcat ==
    ASSUME NEW s, NEW t, NEW a \in Int, NEW b \in Int, NEW c \in Int, a <= b, b <= c,
           Ordered(s, a, b), Ordered(t, b, c)
    PROVE  Ordered(s \o t, a, c)
<1>1. /\ s \in Seq(Seq(I!Bytes)) /\ Runs(s) /\ Within(I!FlattenSeq(s), a, b)
      /\ t \in Seq(Seq(I!Bytes)) /\ Runs(t) /\ Within(I!FlattenSeq(t), b, c)
  BY DEF Ordered
<1>2. /\ I!FlattenSeq(s) \in Seq(I!Bytes) /\ I!FlattenSeq(t) \in Seq(I!Bytes)
      /\ I!FlattenSeq(s \o t) = I!FlattenSeq(s) \o I!FlattenSeq(t)
  BY <1>1, FlattenType, FlattenConcat
<1>3. Within(I!FlattenSeq(s \o t), a, c)
  BY <1>1, <1>2, WithinConcat
<1>4. s \o t \in Seq(Seq(I!Bytes)) /\ Runs(s \o t)
  BY <1>1, RunsConcat
<1> QED
  BY <1>3, <1>4 DEF Ordered

LEMMA OrderedPrefix ==
    ASSUME NEW s, NEW a \in Int, NEW b \in Int, Ordered(s, a, b), NEW n \in 0..Len(s)
    PROVE  Ordered(SubSeq(s, 1, n), a, b)
<1>1. s \in Seq(Seq(I!Bytes)) /\ Runs(s) /\ Within(I!FlattenSeq(s), a, b) /\ Len(s) \in Nat /\ DOMAIN s = 1..Len(s)
  BY LenProperties DEF Ordered
<1> DEFINE p == SubSeq(s, 1, n)
           q == SubSeq(s, n + 1, Len(s))
<1>2. n \in Int /\ n \in Nat /\ n <= Len(s)
  BY <1>1
<1>3. p \in Seq(Seq(I!Bytes)) /\ Len(p) = n /\ \A i \in 1..n : p[i] = s[i]
  <2>1. \A i \in 1..n : s[i] \in Seq(I!Bytes)
    BY <1>1, <1>2, ElementOfSeq
  <2>2. /\ p \in Seq(Seq(I!Bytes)) /\ Len(p) = IF 1 <= n THEN n - 1 + 1 ELSE 0
        /\ \A i \in 1..n - 1 + 1 : p[i] = s[1 + i - 1]
    BY <1>2, <2>1, SubSeqProperties
  <2> QED
    BY <1>2, <2>2
<1>4. q \in Seq(Seq(I!Bytes))
  <2>1. \A i \in n + 1..Len(s) : s[i] \in Seq(I!Bytes)
    BY <1>1, <1>2, ElementOfSeq
  <2>2. n + 1 \in Int /\ Len(s) \in Int
    BY <1>1, <1>2
  <2> QED
    BY <2>1, <2>2, SubSeqProperties
<1>5. p \o q = s
  <2>1. 1 \in 1..Len(s) + 1 /\ n \in 1 - 1..Len(s) /\ Len(s) \in n..Len(s)
    BY <1>1, <1>2
  <2>2. p \o q = SubSeq(s, 1, Len(s))
    BY <1>1, <2>1, ConcatAdjacentSubSeq
  <2>3. SubSeq(s, 1, Len(s)) = s
    BY <1>1, SubSeqFull
  <2> QED
    BY <2>2, <2>3
<1> HIDE DEF p, q
<1>6. Runs(p)
  <2>1. DOMAIN p = 1..n
    BY <1>3, LenProperties
  <2>2. \A k \in 1..n : k \in DOMAIN s
    BY <1>1, <1>2
  <2> QED
    BY <1>1, <1>3, <2>1, <2>2 DEF Runs
<1>7. Within(I!FlattenSeq(p), a, b)
  <2> DEFINE f == I!FlattenSeq(p)
             g == I!FlattenSeq(q)
  <2>1. f \in Seq(I!Bytes) /\ g \in Seq(I!Bytes) /\ I!FlattenSeq(s) = f \o g
    BY <1>3, <1>4, <1>5, FlattenType, FlattenConcat
  <2> HIDE DEF f, g
  <2>2. /\ Len(f) \in Nat /\ Len(g) \in Nat /\ DOMAIN f = 1..Len(f)
        /\ f \o g \in Seq(I!Bytes) /\ Len(f \o g) = Len(f) + Len(g)
        /\ \A i \in 1..Len(f) + Len(g) : (f \o g)[i] = IF i <= Len(f) THEN f[i] ELSE g[i - Len(f)]
    BY <2>1, LenProperties, ConcatProperties
  <2>3. DOMAIN (f \o g) = 1..Len(f) + Len(g)
    BY <2>2, LenProperties
  <2>4. \A i \in DOMAIN f : i \in DOMAIN (f \o g) /\ (f \o g)[i] = f[i]
    BY <2>2, <2>3
  <2>5. Within(f \o g, a, b)
    BY <1>1, <2>1
  <2>6. Within(f, a, b)
    BY <2>4, <2>5 DEF Within
  <2> QED
    BY <2>6 DEF f
<1>8. Ordered(p, a, b)
  BY <1>3, <1>6, <1>7 DEF Ordered
<1> QED
  BY <1>8 DEF p

(* A clip that has sent the bytes after a and up to x, merged or not.      *)
Merges == [merging: BOOLEAN, buffer: Seq(I!Bytes), sent: Seq(Seq(I!Bytes)), trapped: BOOLEAN]
Fits(m, a, x) ==
    /\ m \in Merges
    /\ m.merging => m.sent = <<>> /\ (m.trapped \/ (m.buffer = Run(a, x) /\ x - a < MessageSize))
    /\ ~m.merging => Ordered(m.sent, a, x)

-----------------------------------------------------------------------------
LEMMA RunPrefix ==
    ASSUME NEW a \in 0..MaxBytes, NEW b \in 0..MaxBytes, a <= b, NEW n \in 0..b - a
    PROVE  SubSeq(Run(a, b), 1, n) = Run(a, a + n)
<1>1. a \in Int /\ b \in Int /\ n \in Int /\ a + n \in 0..MaxBytes /\ a <= a + n /\ n \in Nat
  BY InputConstants
<1>2. Run(a, b) \in Seq(I!Bytes) /\ Len(Run(a, b)) = b - a /\ \A i \in 1..b - a : Run(a, b)[i] = a + i
  BY RunType
<1>3. Run(a, a + n) \in Seq(I!Bytes) /\ Len(Run(a, a + n)) = n /\ \A i \in 1..n : Run(a, a + n)[i] = a + i
  <2>1. a + n - a = n /\ (a + n) - a = n
    BY <1>1
  <2> QED
    BY <1>1, <2>1, RunType
<1> DEFINE s == Run(a, b)
           t == Run(a, a + n)
           p == SubSeq(s, 1, n)
<1> HIDE DEF s, t
<1>4. p \in Seq(I!Bytes) /\ Len(p) = n /\ \A i \in 1..n : p[i] = s[i]
  <2>1. \A i \in 1..n : s[i] \in I!Bytes
    <3>1. \A i \in 1..n : i \in 1..Len(s)
      BY <1>1, <1>2 DEF s
    <3> QED
      BY <1>2, <3>1, ElementOfSeq DEF s
  <2>2. /\ p \in Seq(I!Bytes) /\ Len(p) = IF 1 <= n THEN n - 1 + 1 ELSE 0
        /\ \A i \in 1..n - 1 + 1 : p[i] = s[1 + i - 1]
    BY <1>1, <2>1, SubSeqProperties
  <2> QED
    BY <1>1, <2>2
<1> HIDE DEF p
<1>5. \A i \in 1..Len(p) : p[i] = t[i]
  <2> SUFFICES ASSUME NEW i \in 1..n PROVE p[i] = t[i]
    BY <1>4
  <2>1. i \in 1..b - a
    BY <1>1
  <2> QED
    BY <1>2, <1>3, <1>4, <2>1 DEF s, t
<1>6. p = t
  BY <1>3, <1>4, <1>5, SeqEqual DEF t
<1> QED
  BY <1>6 DEF p, s, t

LEMMA RunJoins ==
    ASSUME NEW a \in 0..MaxBytes, NEW b \in 0..MaxBytes, NEW c \in 0..MaxBytes, a <= b, b <= c
    PROVE  Run(a, b) \o Run(b, c) = Run(a, c)
<1>1. a \in Int /\ b \in Int /\ c \in Int /\ a <= c
  BY InputConstants
<1> DEFINE s == Run(a, b)
           t == Run(b, c)
           u == Run(a, c)
           v == s \o t
<1>2. /\ s \in Seq(I!Bytes) /\ Len(s) = b - a /\ \A i \in 1..b - a : s[i] = a + i
      /\ t \in Seq(I!Bytes) /\ Len(t) = c - b /\ \A i \in 1..c - b : t[i] = b + i
      /\ u \in Seq(I!Bytes) /\ Len(u) = c - a /\ \A i \in 1..c - a : u[i] = a + i
  BY <1>1, RunType
<1> HIDE DEF s, t, u
<1>3. /\ v \in Seq(I!Bytes) /\ Len(v) = Len(s) + Len(t)
      /\ \A i \in 1..Len(s) + Len(t) : v[i] = IF i <= Len(s) THEN s[i] ELSE t[i - Len(s)]
  BY <1>2, ConcatProperties
<1>4. Len(v) = c - a
  BY <1>1, <1>2, <1>3
<1> HIDE DEF v
<1>5. ASSUME NEW i \in 1..Len(v) PROVE v[i] = u[i]
  <2>1. i \in 1..c - a /\ i \in 1..Len(s) + Len(t) /\ u[i] = a + i
    BY <1>2, <1>3, <1>4
  <2>2. CASE i <= b - a
    <3>1. i \in 1..b - a
      BY <1>1, <2>1, <2>2
    <3> QED
      BY <1>2, <1>3, <2>1, <2>2, <3>1
  <2>3. CASE ~(i <= b - a)
    <3>1. i - (b - a) \in 1..c - b /\ b + (i - (b - a)) = a + i
      BY <1>1, <2>1, <2>3
    <3>2. v[i] = t[i - (b - a)]
      BY <1>2, <1>3, <2>1, <2>3
    <3> QED
      BY <1>2, <2>1, <3>1, <3>2
  <2> QED
    BY <2>2, <2>3
<1>6. v = u
  BY <1>2, <1>3, <1>4, <1>5, SeqEqual
<1> QED
  BY <1>6 DEF v, s, t, u

LEMMA RunEmpty ==
    ASSUME NEW a \in 0..MaxBytes, NEW b \in 0..MaxBytes, a <= b
    PROVE  Run(a, b) = <<>> <=> a = b
<1>1. Run(a, b) \in Seq(I!Bytes) /\ Len(Run(a, b)) = b - a
  BY RunType
<1>2. Len(<<>>) = 0 /\ (Run(a, b) # <<>> => Len(Run(a, b)) \in Nat \ {0})
  BY <1>1, EmptySeq
<1> QED
  BY <1>1, <1>2, InputConstants

(* The merge buffer takes what there is room for.                          *)
LEMMA MergedFits ==
    ASSUME NEW m, NEW traps \in BOOLEAN,
           NEW a \in 0..MaxBytes, NEW x \in 0..MaxBytes, NEW y \in 0..MaxBytes, a <= x, x < y,
           Fits(m, a, x), m.merging, ~m.trapped
    PROVE  Fits(I!Merged(m, Run(x, y), traps), a, y)
<1>1. /\ m \in Merges /\ m.sent = <<>> /\ m.buffer = Run(a, x) /\ x - a < MessageSize
  BY DEF Fits
<1>2. a \in Int /\ x \in Int /\ y \in Int /\ MessageSize \in Nat \ {0} /\ Flow \in Nat \ {0} /\ a <= y /\ x <= y
  BY InputConstants
<1>3. Len(m.buffer) = x - a /\ Len(Run(x, y)) = y - x
  BY <1>1, <1>2, RunType
<1> DEFINE elem == Run(x, y)
           room == MessageSize - Len(m.buffer)
           n == IF Len(elem) < room THEN Len(elem) ELSE room
           taken == [m EXCEPT !.buffer = @ \o SubSeq(elem, 1, n)]
           full == [merging |-> FALSE, buffer |-> <<>>, sent |-> I!Sent(taken),
                    trapped |-> Len(elem) > room /\ traps]
<1>4. I!Merged(m, elem, traps) = IF Len(taken.buffer) < MessageSize THEN taken ELSE full
  BY DEF I!Merged
<1>5. /\ n \in Nat /\ n \in 0..y - x /\ x + n \in 0..MaxBytes /\ x + n <= y /\ x <= x + n /\ a <= x + n
      /\ x + n - a <= MessageSize /\ (x + n - a < MessageSize => x + n = y)
      /\ room = MessageSize - (x - a)
  <2>1. room = MessageSize - (x - a) /\ Len(elem) = y - x
    BY <1>3
  <2>2. n = IF y - x < MessageSize - (x - a) THEN y - x ELSE MessageSize - (x - a)
    BY <2>1
  <2> HIDE DEF n, room, elem
  <2>3. x - a \in Nat /\ y - x \in Nat /\ MessageSize - (x - a) \in Nat /\ MaxBytes \in Nat
    BY <1>1, <1>2, InputConstants
  <2>4. n \in Nat /\ n <= y - x /\ n <= MessageSize - (x - a)
    BY <2>2, <2>3
  <2>5. x + n - a < MessageSize => x + n = y
    BY <1>2, <2>2, <2>3
  <2> QED
    BY <1>2, <2>1, <2>3, <2>4, <2>5
<1>6. taken.buffer = Run(a, x + n) /\ taken.sent = <<>> /\ taken.merging /\ taken.trapped = FALSE
  <2>1. SubSeq(elem, 1, n) = Run(x, x + n)
    BY <1>2, <1>5, RunPrefix
  <2>2. Run(a, x) \o Run(x, x + n) = Run(a, x + n)
    BY <1>2, <1>5, RunJoins
  <2>3. m.buffer \o SubSeq(elem, 1, n) = Run(a, x + n)
    BY <1>1, <2>1, <2>2
  <2> HIDE DEF n, elem
  <2> QED
    BY <1>1, <2>3 DEF Merges
<1>7. Run(a, x + n) \in Seq(I!Bytes) /\ Len(Run(a, x + n)) = (x + n) - a
  BY <1>5, RunType
<1>8. taken \in Merges
  <2> HIDE DEF n, elem
  <2>1. taken = [m EXCEPT !.buffer = taken.buffer]
    BY <1>1 DEF Merges
  <2>2. taken.buffer \in Seq(I!Bytes)
    BY <1>6, <1>7
  <2> HIDE DEF taken
  <2> QED
    BY <1>1, <2>1, <2>2 DEF Merges
<1> HIDE DEF n, elem, taken, room
<1>9. CASE Len(taken.buffer) < MessageSize
  <2>1. x + n = y
    BY <1>2, <1>5, <1>6, <1>7, <1>9
  <2>2. Fits(taken, a, y)
    BY <1>2, <1>6, <1>7, <1>8, <1>9, <2>1 DEF Fits
  <2> QED
    BY <1>4, <1>9, <2>2 DEF elem
<1>10. CASE ~(Len(taken.buffer) < MessageSize)
  <2>2. I!Sent(taken) = <<Run(a, x + n)>>
    BY <1>2, <1>6 DEF I!Sent
  <2>3. Ordered(<<Run(a, x + n)>>, a, x + n)
    BY <1>5, OrderedRun
  <2>4. Ordered(I!Sent(taken), a, y)
    <3>1. x + n \in Int
      BY <1>5
    <3> QED
      BY <1>2, <1>5, <2>2, <2>3, <3>1, OrderedWider
  <2>6. full \in Merges
    <3>1. I!Sent(taken) \in Seq(Seq(I!Bytes)) /\ <<>> \in Seq(I!Bytes)
      BY <2>4, EmptySeq DEF Ordered
    <3>2. (Len(elem) > room /\ traps) \in BOOLEAN
      OBVIOUS
    <3> QED
      BY <3>1, <3>2 DEF Merges
  <2>7. Fits(full, a, y)
    BY <2>4, <2>6 DEF Fits
  <2> QED
    BY <1>4, <1>10, <2>7 DEF elem
<1> QED
  BY <1>9, <1>10

LEMMA DescribedFits ==
    ASSUME NEW m, NEW traps \in BOOLEAN,
           NEW a \in 0..MaxBytes, NEW x \in 0..MaxBytes, NEW y \in 0..MaxBytes, a <= x, x <= y,
           Fits(m, a, x)
    PROVE  Fits(I!Described(m, Run(x, y), traps), a, y)
<1>1. a \in Int /\ x \in Int /\ y \in Int /\ MessageSize \in Nat \ {0} /\ Flow \in Nat \ {0} /\ a <= y
  BY InputConstants
<1>2. m \in Merges
  BY DEF Fits
<1>3. Run(x, y) = <<>> <=> x = y
  BY RunEmpty
<1>4. ~m.merging => Ordered(m.sent, a, y)
  <2> SUFFICES ASSUME ~m.merging PROVE Ordered(m.sent, a, y)
    OBVIOUS
  <2>1. Ordered(m.sent, a, x)
    BY DEF Fits
  <2> QED
    BY <1>1, <2>1, OrderedWider
<1>5. CASE m.trapped
  <2>1. I!Described(m, Run(x, y), traps) = m
    BY <1>5 DEF I!Described
  <2> QED
    BY <1>2, <1>4, <1>5, <2>1 DEF Fits
<1>6. CASE ~m.trapped /\ Run(x, y) = <<>>
  <2> DEFINE t == [m EXCEPT !.trapped = TRUE]
  <2>1. I!Described(m, Run(x, y), traps) = t
    BY <1>6 DEF I!Described
  <2>2. t \in Merges /\ t.trapped /\ t.merging = m.merging /\ t.sent = m.sent
    BY <1>2 DEF Merges
  <2> HIDE DEF t
  <2>3. m.merging => m.sent = <<>>
    BY DEF Fits
  <2> QED
    BY <1>4, <2>1, <2>2, <2>3 DEF Fits
<1>7. CASE ~m.trapped /\ Run(x, y) # <<>> /\ m.merging
  <2>1. I!Described(m, Run(x, y), traps) = I!Merged(m, Run(x, y), traps)
    BY <1>7 DEF I!Described
  <2>2. x < y
    BY <1>1, <1>3, <1>7
  <2> QED
    BY <1>7, <2>1, <2>2, MergedFits
<1>8. CASE ~m.trapped /\ Run(x, y) # <<>> /\ ~m.merging
  <2>1. I!Described(m, Run(x, y), traps) = I!SendAlone(m, Run(x, y))
    BY <1>8 DEF I!Described
  <2>2. x < y
    BY <1>1, <1>3, <1>8
  <2>3. CASE Len(m.sent) < Flow
    <3> DEFINE t == [m EXCEPT !.sent = Append(@, Run(x, y))]
    <3>1. I!SendAlone(m, Run(x, y)) = t
      BY <2>3 DEF I!SendAlone
    <3>2. Ordered(m.sent, a, x) /\ Ordered(<<Run(x, y)>>, x, y) /\ Run(x, y) \in Seq(I!Bytes)
      BY <1>1, <1>8, OrderedRun, RunType DEF Fits
    <3>3. Ordered(m.sent \o <<Run(x, y)>>, a, y)
      BY <1>1, <3>2, OrderedConcat
    <3>4. Append(m.sent, Run(x, y)) = m.sent \o <<Run(x, y)>>
      BY <3>2, AppendIsConcat DEF Ordered
    <3>5. Ordered(Append(m.sent, Run(x, y)), a, y) /\ Append(m.sent, Run(x, y)) \in Seq(Seq(I!Bytes))
      BY <3>3, <3>4 DEF Ordered
    <3>6. t \in Merges /\ ~t.merging /\ t.sent = Append(m.sent, Run(x, y))
      BY <1>2, <1>8, <3>5 DEF Merges
    <3> HIDE DEF t
    <3> QED
      BY <1>4, <1>8, <2>1, <2>2, <3>1, <3>5, <3>6 DEF Fits
  <2>4. CASE ~(Len(m.sent) < Flow)
    <3> DEFINE t == [m EXCEPT !.trapped = TRUE]
    <3>1. I!SendAlone(m, Run(x, y)) = t
      BY <2>4 DEF I!SendAlone
    <3>2. t \in Merges /\ t.trapped /\ ~t.merging /\ t.sent = m.sent
      BY <1>2, <1>8 DEF Merges
    <3> HIDE DEF t
    <3> QED
      BY <1>4, <1>8, <2>1, <3>1, <3>2 DEF Fits
  <2> QED
    BY <2>3, <2>4
<1> QED
  BY <1>5, <1>6, <1>7, <1>8

-----------------------------------------------------------------------------
(* The buffers in the ring hold the stream from where the last turn ended. *)
LEMMA Bounds ==
    ASSUME I!TypeOK, Elements
    PROVE  /\ used_idx \in 0..IdxSize - 1 /\ avail_idx \in 0..IdxSize - 1
           /\ I!pending \in 0..QueueNum /\ received \in 0..MaxBytes /\ MaxBytes \in Nat
           /\ InputFrom(I!pending) = received
           /\ \A k \in 0..I!pending : InputFrom(k) \in 0..received /\ InputFrom(k) \in 0..MaxBytes
           /\ \A k \in 0..I!pending - 1 : InputFrom(k) <= InputFrom(k + 1)
<1>1. /\ used_idx \in 0..IdxSize - 1 /\ avail_idx \in 0..IdxSize - 1 /\ received \in 0..MaxBytes
      /\ MaxBytes \in Nat /\ QueueNum \in Nat
  BY InputConstants DEF I!TypeOK
<1>2. I!pending \in Nat /\ I!pending <= QueueNum
  BY <1>1, Indices, InputConstants DEF Elements
<1>3. InputFrom(I!pending) = received
  BY <1>2 DEF InputFrom
<1>4. ASSUME NEW k \in 0..I!pending - 1
      PROVE  InputFrom(k) \in Nat /\ InputFrom(k) <= InputFrom(k + 1) /\ InputFrom(k + 1) <= received
  BY DEF Elements
<1>5. ASSUME NEW k \in 0..I!pending PROVE InputFrom(k) \in 0..received
  <2>1. CASE k = I!pending
    BY <1>1, <1>3, <2>1
  <2>2. CASE k # I!pending
    <3>1. k \in 0..I!pending - 1
      BY <1>2, <2>2
    <3>2. k + 1 = I!pending \/ k + 1 \in 0..I!pending - 1
      BY <1>2, <3>1
    <3>3. InputFrom(k + 1) \in Nat
      BY <1>1, <1>3, <1>4, <3>2
    <3> QED
      BY <1>1, <1>4, <3>1, <3>3
  <2> QED
    BY <2>1, <2>2
<1>6. \A k \in 0..I!pending : InputFrom(k) \in 0..MaxBytes
  BY <1>1, <1>5
<1> HIDE DEF InputFrom
<1> QED
  BY <1>1, <1>2, <1>3, <1>4, <1>5, <1>6

LEMMA Rising ==
    ASSUME I!TypeOK, Elements, NEW c \in 0..I!pending
    PROVE  InputFrom(0) <= InputFrom(c) /\ \A k \in 0..c : InputFrom(0) <= InputFrom(k)
<1>1. /\ I!pending \in Nat /\ \A k \in 0..I!pending : InputFrom(k) \in 0..received
      /\ \A k \in 0..I!pending - 1 : InputFrom(k) <= InputFrom(k + 1) /\ received \in Nat
  BY Bounds, InputConstants
<1> DEFINE T == {k \in Nat : k <= I!pending => InputFrom(0) <= InputFrom(k)}
<1>2. 0 \in T
  BY <1>1
<1>3. ASSUME NEW k \in Nat, k \in T PROVE k + 1 \in T
  <2>1. CASE k + 1 <= I!pending
    <3>1. k \in 0..I!pending - 1 /\ k \in 0..I!pending /\ k + 1 \in 0..I!pending /\ 0 \in 0..I!pending
      BY <1>1, <2>1
    <3>2. /\ InputFrom(0) \in 0..received /\ InputFrom(k) \in 0..received /\ InputFrom(k + 1) \in 0..received
          /\ InputFrom(0) <= InputFrom(k) /\ InputFrom(k) <= InputFrom(k + 1) /\ received \in Nat
      BY <1>1, <1>3, <3>1
    <3>3. InputFrom(0) <= InputFrom(k + 1)
      BY <3>2
    <3> QED
      BY <3>3
  <2>2. CASE ~(k + 1 <= I!pending)
    BY <2>2
  <2> QED
    BY <2>1, <2>2
<1>4. Nat \subseteq T
  <2> HIDE DEF T
  <2> QED
    BY <1>2, <1>3, Induction
<1>5. \A k \in 0..I!pending : InputFrom(0) <= InputFrom(k)
  <2> SUFFICES ASSUME NEW k \in 0..I!pending PROVE InputFrom(0) <= InputFrom(k)
    OBVIOUS
  <2>1. k \in Nat /\ k <= I!pending
    BY <1>1
  <2> QED
    BY <1>4, <2>1
<1> QED
  BY <1>1, <1>5

InputAfter(count, traps) ==
    CHOOSE g : g = [k \in 0..count |->
            IF k = 0 THEN I!NoMerge
            ELSE I!Described(g[k - 1], ring[(I!last_used_idx + k - 1) % QueueNum], traps)]

LEMMA CollectSteps ==
    ASSUME NEW count \in Nat, NEW traps
    PROVE  LET after == InputAfter(count, traps)
               last == after[count] IN
           /\ after[0] = I!NoMerge
           /\ \A k \in 1..count :
                 after[k] = I!Described(after[k - 1], ring[(I!last_used_idx + k - 1) % QueueNum], traps)
           /\ I!Collected(count, traps) =
                 IF ~last.trapped /\ last.merging /\ last.buffer # <<>>
                 THEN [last EXCEPT !.sent = I!Sent(last)] ELSE last
<1> DEFINE D(m, k) == I!Described(m, ring[(I!last_used_idx + k - 1) % QueueNum], traps)
           Entry(g, k) == IF k = 0 THEN I!NoMerge ELSE D(g[k - 1], k)
           T == {m \in Nat : \E g : g = [k \in 0..m |-> Entry(g, k)]}
<1>1. 0 \in T
  <2> DEFINE g == [k \in 0..0 |-> I!NoMerge]
  <2>1. g = [k \in 0..0 |-> Entry(g, k)]
    OBVIOUS
  <2> HIDE DEF g, Entry
  <2> QED
    BY <2>1
<1>2. ASSUME NEW m \in Nat, m \in T PROVE m + 1 \in T
  <2>1. PICK g : g = [k \in 0..m |-> Entry(g, k)]
    BY <1>2
  <2> HIDE DEF D
  <2> DEFINE h == [k \in 0..m + 1 |-> IF k = m + 1 THEN D(g[m], m + 1) ELSE g[k]]
  <2>2. ASSUME NEW k \in 0..m + 1 PROVE h[k] = Entry(h, k)
    <3>1. CASE k = m + 1
      <4>1. k # 0 /\ k - 1 = m /\ h[m] = g[m]
        BY <3>1
      <4> QED
        BY <3>1, <4>1
    <3>2. CASE k # m + 1
      <4>1. k \in 0..m /\ h[k] = g[k] /\ g[k] = Entry(g, k)
        BY <2>1, <3>2
      <4>2. k # 0 => k - 1 \in 0..m + 1 /\ k - 1 # m + 1 /\ h[k - 1] = g[k - 1]
        BY <4>1
      <4> QED
        BY <4>1, <4>2
    <3> QED
      BY <3>1, <3>2
  <2>3. h = [k \in 0..m + 1 |-> h[k]]
    OBVIOUS
  <2> HIDE DEF h, Entry
  <2>4. h = [k \in 0..m + 1 |-> Entry(h, k)]
    BY <2>2, <2>3
  <2> QED
    BY <2>4
<1>3. count \in T
  <2> HIDE DEF T
  <2> QED
    BY <1>1, <1>2, Induction
<1>4. \E g : g = [k \in 0..count |-> Entry(g, k)]
  BY <1>3
<1> DEFINE after == InputAfter(count, traps)
           last == after[count]
<1>5. after = [k \in 0..count |-> IF k = 0 THEN I!NoMerge
                 ELSE I!Described(after[k - 1], ring[(I!last_used_idx + k - 1) % QueueNum], traps)]
  BY <1>4, Zenon DEF InputAfter
<1>6. I!Collected(count, traps) =
                 IF ~last.trapped /\ last.merging /\ last.buffer # <<>>
                 THEN [last EXCEPT !.sent = I!Sent(last)] ELSE last
  BY Zenon DEF I!Collected, InputAfter
<1> HIDE DEF after
<1>7. after[0] = I!NoMerge
  BY <1>5
<1>8. \A k \in 1..count :
                 after[k] = I!Described(after[k - 1], ring[(I!last_used_idx + k - 1) % QueueNum], traps)
  BY <1>5
<1> QED
  BY <1>6, <1>7, <1>8, Zenon DEF after

(* What a clip sends of the first elements is of the stream between them.  *)
LEMMA CollectedFits ==
    ASSUME I!TypeOK, Elements, NEW c \in 0..I!pending, NEW traps \in BOOLEAN
    PROVE  LET data == I!Collected(c, traps) IN
           /\ data.trapped \in BOOLEAN
           /\ data.sent \in I!Messages /\ Ordered(data.sent, InputFrom(0), InputFrom(c))
           /\ c = 0 => ~data.trapped /\ data.sent = <<>>
<1>1. /\ I!pending \in 0..QueueNum /\ c \in Nat /\ c \in 0..I!pending /\ I!pending \in Nat
      /\ \A k \in 0..I!pending : InputFrom(k) \in 0..MaxBytes
      /\ \A k \in 0..I!pending - 1 : InputFrom(k) <= InputFrom(k + 1)
      /\ \A k \in 0..I!pending : InputFrom(0) <= InputFrom(k)
      /\ MaxBytes \in Nat /\ MessageSize \in Nat \ {0} /\ Flow \in Nat \ {0}
  BY Bounds, Rising, InputConstants
<1> DEFINE a == InputFrom(0)
           after == InputAfter(c, traps)
           last == after[c]
<1>2. a \in 0..MaxBytes /\ a \in Int
  BY <1>1
<1>3. /\ after[0] = I!NoMerge
      /\ \A k \in 1..c : after[k] = I!Described(after[k - 1], Element(k - 1), traps)
      /\ I!Collected(c, traps) = IF ~last.trapped /\ last.merging /\ last.buffer # <<>>
                               THEN [last EXCEPT !.sent = I!Sent(last)] ELSE last
  BY <1>1, CollectSteps DEF Element
<1> DEFINE T == {k \in Nat : k <= c => Fits(after[k], a, InputFrom(k))}
<1>4. 0 \in T
  <2>1. Run(a, a) = <<>> /\ a - a = 0
    BY <1>2, RunEmpty
  <2>2. I!NoMerge \in Merges
    BY EmptySeq DEF I!NoMerge, Merges
  <2>3. Fits(I!NoMerge, a, a)
    BY <1>1, <2>1, <2>2 DEF Fits, I!NoMerge
  <2> HIDE DEF after
  <2> QED
    BY <1>3, <2>3
<1>5. ASSUME NEW k \in Nat, k \in T PROVE k + 1 \in T
  <2> SUFFICES ASSUME k + 1 <= c PROVE Fits(after[k + 1], a, InputFrom(k + 1))
    <3>1. k + 1 \in Nat
      OBVIOUS
    <3> QED
      BY <3>1, Zenon
  <2>1. /\ k \in 0..I!pending - 1 /\ k \in 0..I!pending /\ k + 1 \in 0..I!pending /\ k + 1 \in 1..c
        /\ k <= c /\ (k + 1) - 1 = k
    BY <1>1
  <2>2. Fits(after[k], a, InputFrom(k))
    BY <1>5, <2>1
  <2>3. Element(k) = Run(InputFrom(k), InputFrom(k + 1))
    BY <2>1 DEF Elements
  <2> HIDE DEF after, a
  <2>4. after[k + 1] = I!Described(after[k], Run(InputFrom(k), InputFrom(k + 1)), traps)
    <3>1. after[k + 1] = I!Described(after[(k + 1) - 1], Element((k + 1) - 1), traps)
      BY <1>3, <2>1, Zenon
    <3> QED
      BY <2>1, <2>3, <3>1, Zenon
  <2>5. InputFrom(k) \in 0..MaxBytes /\ InputFrom(k + 1) \in 0..MaxBytes /\ InputFrom(k) <= InputFrom(k + 1) /\ a <= InputFrom(k)
    BY <1>1, <2>1 DEF a
  <2> HIDE DEF T
  <2>6. Fits(I!Described(after[k], Run(InputFrom(k), InputFrom(k + 1)), traps), a, InputFrom(k + 1))
    BY <1>2, <2>2, <2>5, DescribedFits
  <2> QED
    BY <2>4, <2>6, Zenon
<1>6. Fits(last, a, InputFrom(c))
  <2>1. Nat \subseteq T
    <3> HIDE DEF T
    <3> QED
      BY <1>4, <1>5, Induction
  <2>2. c <= c
    BY <1>1
  <2> QED
    BY <1>1, <2>1, <2>2
<1> DEFINE y == InputFrom(c)
           data == I!Collected(c, traps)
<1>7. y \in 0..MaxBytes /\ y \in Int /\ a <= y
  BY <1>1
<1>8. /\ last \in Merges
      /\ last.merging => last.sent = <<>> /\ (last.trapped \/ (last.buffer = Run(a, y) /\ y - a < MessageSize))
      /\ ~last.merging => Ordered(last.sent, a, y)
  BY <1>6 DEF Fits
<1>9. c = 0 => last = I!NoMerge
  BY <1>3
<1>10. data = IF ~last.trapped /\ last.merging /\ last.buffer # <<>>
              THEN [last EXCEPT !.sent = I!Sent(last)] ELSE last
  BY <1>3
<1> HIDE DEF after, last, a, y, data
<1>11. CASE ~last.trapped /\ last.merging /\ last.buffer # <<>>
  <2>1. last.sent = <<>> /\ last.buffer = Run(a, y) /\ y - a < MessageSize
    BY <1>8, <1>11
  <2>2. I!Sent(last) = <<Run(a, y)>>
    BY <1>1, <2>1 DEF I!Sent
  <2>3. Ordered(<<Run(a, y)>>, a, y)
    BY <1>2, <1>7, OrderedRun
  <2>4. data.sent = <<Run(a, y)>> /\ data.trapped = FALSE
    BY <1>8, <1>10, <1>11, <2>2 DEF Merges
  <2>5. c # 0
    BY <1>9, <1>11 DEF I!NoMerge
  <2> QED
    BY <2>3, <2>4, <2>5 DEF Ordered, I!Messages, data, a, y
<1>12. CASE ~(~last.trapped /\ last.merging /\ last.buffer # <<>>)
  <2>1. data = last
    BY <1>10, <1>12
  <2>2. data.trapped \in BOOLEAN
    BY <1>8, <2>1 DEF Merges
  <2>3. Ordered(data.sent, a, y)
    BY <1>8, <2>1, OrderedNone
  <2>4. c = 0 => ~data.trapped /\ data.sent = <<>>
    BY <1>9, <2>1 DEF I!NoMerge
  <2> QED
    BY <2>2, <2>3, <2>4 DEF Ordered, I!Messages, data, a, y
<1> QED
  BY <1>11, <1>12

(* A turn that does not trap sends the same whether it might have or not.  *)
LEMMA DescribedAlike ==
    ASSUME NEW m, NEW elem, NEW traps \in BOOLEAN, ~I!Described(m, elem, traps).trapped
    PROVE  ~m.trapped /\ I!Described(m, elem, traps) = I!Described(m, elem, FALSE)
<1>1. ~m.trapped
  BY DEF I!Described
<1>2. CASE elem # <<>> /\ m.merging
  <2>1. /\ I!Described(m, elem, traps) = I!Merged(m, elem, traps)
        /\ I!Described(m, elem, FALSE) = I!Merged(m, elem, FALSE)
    BY <1>1, <1>2 DEF I!Described
  <2> DEFINE room == MessageSize - Len(m.buffer)
             taken == [m EXCEPT !.buffer = @ \o SubSeq(elem, 1, IF Len(elem) < room THEN Len(elem) ELSE room)]
             Full(t) == [merging |-> FALSE, buffer |-> <<>>, sent |-> I!Sent(taken), trapped |-> Len(elem) > room /\ t]
  <2>2. \A t : I!Merged(m, elem, t) = IF Len(taken.buffer) < MessageSize THEN taken ELSE Full(t)
    BY DEF I!Merged
  <2>3. ASSUME ~(Len(taken.buffer) < MessageSize) PROVE Full(traps) = Full(FALSE)
    <3>1. ~Full(traps).trapped
      BY <2>1, <2>2, <2>3
    <3>2. (Len(elem) > room /\ traps) = FALSE /\ (Len(elem) > room /\ FALSE) = FALSE
      BY <3>1
    <3> QED
      BY <3>2
  <2> HIDE DEF taken, room, Full
  <2> QED
    BY <1>1, <2>1, <2>2, <2>3
<1>3. CASE ~(elem # <<>> /\ m.merging)
  BY <1>1, <1>3 DEF I!Described
<1> QED
  BY <1>1, <1>2, <1>3

LEMMA CollectedAlike ==
    ASSUME NEW count \in Nat, NEW traps \in BOOLEAN, ~I!Collected(count, traps).trapped
    PROVE  I!Collected(count, traps).sent = Batch(count)
<1> DEFINE after == InputAfter(count, traps)
           plain == InputAfter(count, FALSE)
           Elem(k) == ring[(I!last_used_idx + k - 1) % QueueNum]
           End(last) == IF ~last.trapped /\ last.merging /\ last.buffer # <<>>
                        THEN [last EXCEPT !.sent = I!Sent(last)] ELSE last
<1>1. /\ after[0] = I!NoMerge
      /\ \A k \in 1..count : after[k] = I!Described(after[k - 1], Elem(k), traps)
      /\ I!Collected(count, traps) = End(after[count])
  BY CollectSteps
<1>2. /\ plain[0] = I!NoMerge
      /\ \A k \in 1..count : plain[k] = I!Described(plain[k - 1], Elem(k), FALSE)
      /\ I!Collected(count, FALSE) = End(plain[count])
  BY CollectSteps
<1> HIDE DEF after, plain, Elem
<1>3. ~after[count].trapped
  BY <1>1
<1> HIDE DEF End
<1> DEFINE T == {k \in Nat : k <= count => (~after[k].trapped => after[k] = plain[k])}
<1>4. 0 \in T
  BY <1>1, <1>2
<1>5. ASSUME NEW k \in Nat, k \in T PROVE k + 1 \in T
  <2> SUFFICES ASSUME k + 1 <= count, ~after[k + 1].trapped PROVE after[k + 1] = plain[k + 1]
    OBVIOUS
  <2>1. k + 1 \in 1..count /\ (k + 1) - 1 = k /\ k <= count
    OBVIOUS
  <2>2. /\ after[k + 1] = I!Described(after[k], Elem(k + 1), traps)
        /\ plain[k + 1] = I!Described(plain[k], Elem(k + 1), FALSE)
    BY <1>1, <1>2, <2>1
  <2>3. ~I!Described(after[k], Elem(k + 1), traps).trapped
    BY <2>2
  <2>4. ~after[k].trapped /\ after[k + 1] = I!Described(after[k], Elem(k + 1), FALSE)
    BY <2>2, <2>3, DescribedAlike
  <2>5. after[k] = plain[k]
    BY <1>5, <2>1, <2>4
  <2> QED
    BY <2>2, <2>4, <2>5
<1>6. count \in T
  <2> HIDE DEF T
  <2> QED
    BY <1>4, <1>5, Induction
<1>7. after[count] = plain[count]
  BY <1>3, <1>6
<1> QED
  BY <1>1, <1>2, <1>7 DEF Batch

(* It depends on nothing but the elements.                                 *)
LEMMA BatchUnmoved ==
    ASSUME NEW count \in Nat, I!last_used_idx \in Int, I!last_used_idx' = I!last_used_idx,
           \A k \in 0..count - 1 : Element(k)' = Element(k)
    PROVE  Batch(count)' = Batch(count)
<1> DEFINE Old(g) == [k \in 0..count |-> IF k = 0 THEN I!NoMerge
                  ELSE I!Described(g[k - 1], ring[(I!last_used_idx + k - 1) % QueueNum], FALSE)]
           New(g) == [k \in 0..count |-> IF k = 0 THEN I!NoMerge
                  ELSE I!Described(g[k - 1], ring'[(I!last_used_idx' + k - 1) % QueueNum], FALSE)]
           End(last) == IF ~last.trapped /\ last.merging /\ last.buffer # <<>>
                        THEN [last EXCEPT !.sent = I!Sent(last)] ELSE last
<1>1. ASSUME NEW k \in 1..count
      PROVE  ring'[(I!last_used_idx' + k - 1) % QueueNum] = ring[(I!last_used_idx + k - 1) % QueueNum]
  <2>1. k - 1 \in 0..count - 1 /\ I!last_used_idx + k - 1 = I!last_used_idx + (k - 1)
    OBVIOUS
  <2> QED
    BY <2>1 DEF Element
<1>2. ASSUME NEW g PROVE New(g) = Old(g)
  <2>1. ASSUME NEW k \in 0..count
        PROVE  (IF k = 0 THEN I!NoMerge
                ELSE I!Described(g[k - 1], ring'[(I!last_used_idx' + k - 1) % QueueNum], FALSE))
             = (IF k = 0 THEN I!NoMerge
                ELSE I!Described(g[k - 1], ring[(I!last_used_idx + k - 1) % QueueNum], FALSE))
    <3>1. k # 0 => k \in 1..count
      OBVIOUS
    <3> QED
      BY <1>1, <3>1, Zenon
  <2> QED
    BY <2>1, Zenon
<1> HIDE DEF Old, New
<1>3. (CHOOSE g : g = New(g)) = (CHOOSE g : g = Old(g))
  BY <1>2, Zenon
<1>4. I!Collected(count, FALSE) = End((CHOOSE g : g = Old(g))[count])
  BY Zenon DEF I!Collected, Old
<1>5. I!Collected(count, FALSE)' = End((CHOOSE g : g = New(g))[count])
  BY Zenon DEF I!Collected, New
<1> QED
  BY <1>3, <1>4, <1>5 DEF Batch

-----------------------------------------------------------------------------
LEMMA QueueInit == I!Init => InputInv
<1> SUFFICES ASSUME I!Init PROVE InputInv
  OBVIOUS
<1>1. /\ used_idx = 0 /\ avail_idx = 0 /\ ring = [i \in I!Slots |-> <<>>] /\ configured = {}
      /\ last_descriptor_count = 0 /\ restarting = I!Clips /\ inputTurn = I!PREPARE
      /\ row = [c \in I!Clips |-> <<>>] /\ received = 0 /\ delivered = <<>>
      /\ returned = {} /\ inputDisturbed = TRUE /\ inputTroubles = 0
  BY DEF I!Init
<1>2. used_idx \in 0..IdxSize - 1 /\ avail_idx \in 0..IdxSize - 1
  BY <1>1, InputConstants
<1>3. I!TypeOK
  <2>1. <<>> \in Seq(I!Bytes) /\ <<>> \in I!Messages
    BY EmptySeq DEF I!Messages
  <2>2. /\ 0 \in 0..QueueNum /\ 0 \in 0..MaxBytes /\ 0 \in 0..IdxSize - 1 /\ 0 \in 0..MaxTroubles
    BY InputConstants
  <2>3. ring \in [I!Slots -> Seq(I!Bytes)] /\ row \in [I!Clips -> I!Messages]
    BY <1>1, <2>1, <2>2
  <2>4. I!PREPARE \in I!Clips
    BY DEF I!Clips
  <2> QED
    BY <1>1, <2>1, <2>2, <2>3, <2>4 DEF I!TypeOK
<1>4. I!pending = QueueNum
  BY <1>1, <1>2, Indices, InputConstants
<1>5. \A k \in 0..I!pending - 1 : Element(k) = <<>>
  <2>1. \A k \in Int : (I!last_used_idx + k) % QueueNum \in I!Slots
    BY <1>2, DistinctSlots
  <2> QED
    BY <1>1, <1>4, <2>1, InputConstants DEF Element
<1>6. \A k \in 0..I!pending : InputFrom(k) = 0
  BY <1>1, <1>4, <1>5, InputConstants DEF InputFrom
<1>7. Elements
  <2>1. Run(0, 0) = <<>>
    BY InputConstants, RunEmpty
  <2>2. \A k \in 0..I!pending - 1 : k \in 0..I!pending /\ k + 1 \in 0..I!pending
    BY <1>4, InputConstants
  <2> QED
    BY <1>1, <1>4, <1>5, <1>6, <2>1, <2>2, InputConstants DEF Elements
<1>8. Order
  <2>1. Ordered(<<>>, 0, 0) /\ 0 \in 0..received /\ 0 <= InputFrom(0)
    BY <1>1, <1>4, <1>6, OrderedNone, InputConstants
  <2>2. row[I!COMMIT] = <<>>
    BY <1>1 DEF I!Clips
  <2> QED
    BY <1>1, <2>1, <2>2 DEF Order
<1> QED
  BY <1>1, <1>3, <1>7, <1>8 DEF InputInv

(* What a turn of a clip does, whether it is cut or not.                   *)
LEMMA TurnDoes ==
    ASSUME I!TypeOK, Elements, NEW c \in I!Clips, NEW count \in 0..I!pending, NEW end \in I!Ends,
           I!Turn(c, count, end)
    PROVE  /\ inputTroubles' \in 0..MaxTroubles /\ row' \in [I!Clips -> I!Messages]
           /\ restarting' = IF end = "done" THEN restarting \ {c} ELSE restarting \cup {c}
           /\ inputDisturbed' = (inputDisturbed \/ c \in restarting \/ end # "done")
           /\ \A d \in I!Clips \ {c} : row'[d] = row[d]
           /\ Ordered(row'[c], InputFrom(0), InputFrom(count))
           /\ count = 0 \/ end = "early" => row'[c] = <<>>
           /\ end = "done" => row'[c] = Batch(count)
           /\ inputTroubles <= inputTroubles' /\ (end = "late" => inputTroubles' > 0)
<1>1. PICK traps \in BOOLEAN :
        \E data \in {I!Collected(count, traps)} :
        /\ data.trapped => end = "early"
        /\ IF end = "done" \/ data.trapped THEN UNCHANGED inputTroubles ELSE I!Strikes
        /\ row' = [row EXCEPT ![c] = IF end = "early" THEN <<>> ELSE data.sent]
        /\ restarting' = IF end = "done" THEN restarting \ {c} ELSE restarting \cup {c}
        /\ inputDisturbed' = (inputDisturbed \/ c \in restarting \/ end # "done")
  BY DEF I!Turn
<1> DEFINE data == I!Collected(count, traps)
<1>2. /\ data.trapped => end = "early"
      /\ IF end = "done" \/ data.trapped THEN UNCHANGED inputTroubles ELSE I!Strikes
      /\ row' = [row EXCEPT ![c] = IF end = "early" THEN <<>> ELSE data.sent]
      /\ restarting' = IF end = "done" THEN restarting \ {c} ELSE restarting \cup {c}
      /\ inputDisturbed' = (inputDisturbed \/ c \in restarting \/ end # "done")
  BY <1>1, Zenon
<1>3. /\ data.trapped \in BOOLEAN
      /\ data.sent \in I!Messages /\ Ordered(data.sent, InputFrom(0), InputFrom(count))
      /\ ~data.trapped => data.sent = Batch(count)
      /\ count = 0 => ~data.trapped /\ data.sent = <<>>
  <2>1. count \in Nat
    BY Bounds, InputConstants
  <2> QED
    BY <2>1, CollectedFits, CollectedAlike
<1> HIDE DEF data
<1>4. /\ row \in [I!Clips -> I!Messages] /\ inputTroubles \in 0..MaxTroubles /\ MaxTroubles \in Nat
      /\ <<>> \in I!Messages
  BY EmptySeq, InputConstants DEF I!TypeOK, I!Messages
<1>5. inputTroubles' \in 0..MaxTroubles /\ inputTroubles <= inputTroubles' /\ (end = "late" => inputTroubles' > 0)
  <2>1. CASE end = "done" \/ data.trapped
    <3>1. inputTroubles' = inputTroubles /\ end # "late"
      BY <1>2, <2>1
    <3> QED
      BY <1>4, <3>1
  <2>2. CASE ~(end = "done" \/ data.trapped)
    <3>1. inputTroubles < MaxTroubles /\ inputTroubles' = inputTroubles + 1
      BY <1>2, <2>2 DEF I!Strikes
    <3> QED
      BY <1>4, <3>1
  <2> QED
    BY <2>1, <2>2
<1>6. row'[c] = IF end = "early" THEN <<>> ELSE data.sent
  BY <1>2, <1>4
<1>7. row' \in [I!Clips -> I!Messages] /\ \A d \in I!Clips \ {c} : row'[d] = row[d]
  BY <1>2, <1>3, <1>4
<1>8. Ordered(row'[c], InputFrom(0), InputFrom(count))
  BY <1>3, <1>6, OrderedNone
<1>9. end = "done" => ~data.trapped /\ end # "early"
  BY <1>2
<1>10. count = 0 \/ end = "early" => row'[c] = <<>>
  BY <1>3, <1>6
<1>11. end = "done" => row'[c] = Batch(count)
  BY <1>3, <1>6, <1>9
<1> QED
  BY <1>2, <1>5, <1>7, <1>8, <1>10, <1>11

(* Nothing moves in the ring.                                              *)
LEMMA Unmoved ==
    ASSUME UNCHANGED <<used_idx, avail_idx, ring, received>>
    PROVE  /\ I!last_used_idx' = I!last_used_idx /\ I!pending' = I!pending
           /\ \A k : Element(k)' = Element(k) /\ InputFrom(k)' = InputFrom(k)
           /\ Elements => Elements'
<1>1. I!last_used_idx' = I!last_used_idx /\ I!pending' = I!pending
  BY DEF I!last_used_idx, I!pending
<1>2. \A k : Element(k)' = Element(k)
  BY <1>1 DEF Element
<1>3. \A k : InputFrom(k)' = InputFrom(k)
  BY <1>1, <1>2 DEF InputFrom
<1>4. Elements => Elements'
  BY <1>1, <1>2, <1>3 DEF Elements
<1> QED
  BY <1>1, <1>2, <1>3, <1>4

LEMMA PrepareClipKeeps == InputInv /\ I!virtio_input_queue_prepare_clip => InputInv'
<1> SUFFICES ASSUME InputInv, I!virtio_input_queue_prepare_clip PROVE InputInv'
  OBVIOUS
<1>1. I!TypeOK /\ Elements /\ Order /\ (~inputDisturbed => Undisturbed)
  BY DEF InputInv
<1> DEFINE descriptor_count == IF I!PREPARE \in restarting THEN 0 ELSE I!pending
<1>2. PICK end \in I!Ends :
              /\ I!Turn(I!PREPARE, descriptor_count, end)
              /\ \/ /\ end # "done"
                    /\ UNCHANGED <<last_descriptor_count, configured>>
                 \/ /\ end # "early"
                    /\ last_descriptor_count' = descriptor_count
                    /\ \E i \in I!Repaired(end) : configured' = configured \cup 0..i - 1
  BY DEF I!virtio_input_queue_prepare_clip
<1>3. /\ inputTurn = I!PREPARE /\ inputTurn' = I!COMMIT
      /\ UNCHANGED <<used_idx, avail_idx, ring, received>> /\ UNCHANGED <<returned, delivered>>
  BY DEF I!virtio_input_queue_prepare_clip, I!ghosts
<1>4. I!PREPARE \in I!Clips /\ I!COMMIT \in I!Clips /\ I!COMMIT # I!PREPARE /\ I!Clips = {I!PREPARE, I!COMMIT}
  BY DEF I!Clips, I!PREPARE, I!COMMIT
<1>5. /\ used_idx \in 0..IdxSize - 1 /\ avail_idx \in 0..IdxSize - 1
      /\ I!pending \in 0..QueueNum /\ I!pending \in 0..I!pending /\ descriptor_count \in 0..I!pending
      /\ descriptor_count \in 0..QueueNum
  BY <1>1, Bounds, InputConstants
<1> HIDE DEF descriptor_count
<1>6. /\ inputTroubles' \in 0..MaxTroubles /\ row' \in [I!Clips -> I!Messages]
      /\ restarting' = IF end = "done" THEN restarting \ {I!PREPARE} ELSE restarting \cup {I!PREPARE}
      /\ inputDisturbed' = (inputDisturbed \/ I!PREPARE \in restarting \/ end # "done")
      /\ \A d \in I!Clips \ {I!PREPARE} : row'[d] = row[d]
      /\ end = "done" => row'[I!PREPARE] = Batch(descriptor_count)
      /\ inputTroubles <= inputTroubles'
  BY <1>1, <1>2, <1>4, <1>5, TurnDoes
<1>7. /\ configured \subseteq configured' /\ configured' \subseteq I!Slots
      /\ end = "done" => configured' = I!Slots
  <2>1. configured \subseteq I!Slots /\ I!Slots = 0..QueueNum - 1 /\ QueueNum \in Nat
    BY <1>1, InputConstants DEF I!TypeOK, I!Slots
  <2>2. CASE UNCHANGED configured /\ end # "done"
    BY <2>1, <2>2
  <2>3. ASSUME NEW i \in I!Repaired(end), configured' = configured \cup 0..i - 1
        PROVE  /\ configured \subseteq configured' /\ configured' \subseteq I!Slots
               /\ end = "done" => configured' = I!Slots
    <3>1. i \in 0..QueueNum /\ (end = "done" => i = QueueNum)
      BY <2>1 DEF I!Repaired
    <3>2. 0..i - 1 \subseteq I!Slots
      BY <2>1, <3>1
    <3> QED
      BY <2>1, <2>3, <3>1, <3>2
  <2> QED
    BY <1>2, <2>2, <2>3
<1>8. I!TypeOK'
  <2>1. restarting' \subseteq I!Clips
    BY <1>1, <1>4, <1>6 DEF I!TypeOK
  <2>2. last_descriptor_count' \in 0..QueueNum /\ configured' \subseteq I!Slots
    BY <1>1, <1>2, <1>5, <1>7 DEF I!TypeOK
  <2>3. inputDisturbed' \in BOOLEAN
    BY <1>6
  <2> QED
    BY <1>1, <1>3, <1>4, <1>6, <2>1, <2>2, <2>3 DEF I!TypeOK
<1>9. /\ I!last_used_idx' = I!last_used_idx /\ I!pending' = I!pending
      /\ \A k : Element(k)' = Element(k) /\ InputFrom(k)' = InputFrom(k)
      /\ Elements'
  BY <1>1, <1>3, Unmoved
<1>10. Order'
  <2>1. PICK h \in 0..received, g \in 0..received :
          /\ h <= g /\ Ordered(delivered, 0, h) /\ Ordered(row[I!COMMIT], h, g)
          /\ g <= InputFrom(0) \/ Stale
    BY <1>1 DEF Order
  <2>2. row[I!COMMIT] = <<>> /\ row'[I!COMMIT] = row[I!COMMIT]
    BY <1>1, <1>3, <1>4, <1>6 DEF Order
  <2>3. Stale => Stale'
    <3>1. inputTroubles \in Int /\ inputTroubles' \in Int
      BY <1>1, <1>6, InputConstants DEF I!TypeOK
    <3>2. I!COMMIT \in restarting => I!COMMIT \in restarting'
      BY <1>4, <1>6
    <3>3. configured = I!Slots => configured' = I!Slots
      BY <1>7
    <3>4. inputDisturbed => inputDisturbed'
      BY <1>6
    <3>5. inputTroubles > 0 => inputTroubles' > 0
      BY <1>6, <3>1
    <3>6. I!Slots' = I!Slots
      BY DEF I!Slots
    <3> QED
      BY <3>2, <3>3, <3>4, <3>5, <3>6 DEF Stale
  <2>4. InputFrom(0)' = InputFrom(0)
    BY <1>9
  <2> QED
    BY <1>3, <2>1, <2>2, <2>3, <2>4 DEF Order
<1>11. ~inputDisturbed' => Undisturbed'
  <2> SUFFICES ASSUME ~inputDisturbed' PROVE Undisturbed'
    OBVIOUS
  <2>1. ~inputDisturbed /\ I!PREPARE \notin restarting /\ end = "done"
    BY <1>6
  <2>2. restarting' = {} /\ configured' = I!Slots
    BY <1>1, <1>6, <1>7, <2>1 DEF Undisturbed
  <2>3. PICK count \in 0..I!pending : count = I!pending /\ count = descriptor_count
    BY <1>5, <2>1 DEF descriptor_count
  <2>4. count = last_descriptor_count' /\ row'[I!PREPARE] = Batch(count)
    BY <1>2, <1>6, <2>1, <2>3
  <2>5. Batch(count)' = Batch(count)
    <3>1. count \in Nat /\ I!last_used_idx \in Int
      BY <1>5, Indices, InputConstants
    <3> QED
      BY <1>9, <3>1, BatchUnmoved
  <2>6. Prepared'
    BY <1>9, <2>4, <2>5 DEF Prepared
  <2>7. inputTurn' # "receive"
    BY <1>3 DEF I!COMMIT
  <2>8. I!Slots' = I!Slots
    BY DEF I!Slots
  <2> QED
    BY <2>2, <2>6, <2>7, <2>8 DEF Undisturbed
<1> QED
  BY <1>8, <1>9, <1>10, <1>11 DEF InputInv

LEMMA DeviceReceivesKeeps == InputInv /\ I!DeviceReceives => InputInv'
<1> SUFFICES ASSUME InputInv, I!DeviceReceives PROVE InputInv'
  OBVIOUS
<1>1. I!TypeOK /\ Elements /\ Order /\ (~inputDisturbed => Undisturbed)
  BY DEF InputInv
<1> DEFINE p == used_idx % QueueNum
<1>2. /\ used_idx # avail_idx /\ used_idx' = (used_idx + 1) % IdxSize /\ avail_idx' = avail_idx
      /\ UNCHANGED <<configured, last_descriptor_count, restarting, inputTurn, row>>
      /\ UNCHANGED <<delivered, returned, inputDisturbed, inputTroubles>>
  BY DEF I!DeviceReceives
<1>3. PICK n \in 1..MessageSize :
          /\ received + n <= MaxBytes /\ received' = received + n
          /\ ring' = [ring EXCEPT ![p] = [k \in 1..n |-> received + k]]
  BY DEF I!DeviceReceives
<1>4. /\ used_idx \in 0..IdxSize - 1 /\ avail_idx \in 0..IdxSize - 1
      /\ I!pending \in 0..QueueNum /\ received \in 0..MaxBytes
      /\ QueueNum \in Nat \ {0} /\ MaxBytes \in Nat /\ n \in Nat \ {0}
      /\ InputFrom(I!pending) = received
      /\ \A k \in 0..I!pending : InputFrom(k) \in 0..received
  BY <1>1, Bounds, InputConstants
<1>5. /\ used_idx' \in 0..IdxSize - 1 /\ I!last_used_idx' = I!last_used_idx
      /\ I!pending < QueueNum /\ I!pending' = I!pending + 1
  BY <1>2, <1>4, DeviceCounts
<1>6. received' \in 0..MaxBytes /\ received <= received' /\ received < received'
  BY <1>3, <1>4
<1> DEFINE new == Run(received, received')
<1>7. /\ new \in Seq(I!Bytes) /\ new # <<>> /\ new[1] = received + 1
      /\ ring' = [ring EXCEPT ![p] = new]
  <2>1. received' - received = n
    BY <1>3, <1>4
  <2>2. [k \in 1..n |-> received + k] = new
    BY <2>1 DEF Run
  <2>3. /\ new \in Seq(I!Bytes) /\ \A i \in 1..n : new[i] = received + i
        /\ (new = <<>> <=> received = received')
    BY <1>4, <1>6, <2>1, RunType, RunEmpty
  <2>4. 1 \in 1..n
    BY <1>4
  <2> HIDE DEF new
  <2>5. new # <<>>
    BY <1>4, <1>6, <2>3
  <2> QED
    BY <1>3, <2>2, <2>3, <2>4, <2>5
<1> HIDE DEF new
<1>8. /\ p \in I!Slots /\ p = (I!last_used_idx + I!pending) % QueueNum
      /\ \A k \in 0..I!pending - 1 : /\ (I!last_used_idx + k) % QueueNum \in I!Slots
                                   /\ (I!last_used_idx + k) % QueueNum # p
  <2>1. p = (I!last_used_idx + I!pending) % QueueNum
    BY <1>4, NextSlot
  <2>2. /\ \A k \in Int : (I!last_used_idx + k) % QueueNum \in I!Slots
        /\ \A j, k \in 0..QueueNum - 1 :
                 (I!last_used_idx + j) % QueueNum = (I!last_used_idx + k) % QueueNum => j = k
    BY <1>4, DistinctSlots
  <2>3. I!pending \in 0..QueueNum - 1 /\ I!pending \in Int
    BY <1>4, <1>5
  <2> HIDE DEF p
  <2>4. ASSUME NEW k \in 0..I!pending - 1
        PROVE  (I!last_used_idx + k) % QueueNum \in I!Slots /\ (I!last_used_idx + k) % QueueNum # p
    <3>1. k \in 0..QueueNum - 1 /\ k \in Int /\ k # I!pending
      BY <1>4, <2>3
    <3> QED
      BY <2>1, <2>2, <2>3, <3>1
  <2> QED
    BY <2>1, <2>2, <2>3, <2>4
<1>9. ring \in [I!Slots -> Seq(I!Bytes)]
  BY <1>1 DEF I!TypeOK
<1> HIDE DEF p
<1>10. PICK c \in Nat : c = I!pending
  BY <1>4
<1>11. Element(c)' = new /\ \A k \in 0..c - 1 : Element(k)' = Element(k)
  <2>1. ring'[p] = new
    BY <1>7, <1>8, <1>9
  <2>2. \A q \in I!Slots : q # p => ring'[q] = ring[q]
    BY <1>7, <1>9
  <2>3. \A k : Element(k)' = ring'[(I!last_used_idx + k) % QueueNum]
    BY <1>5 DEF Element
  <2>4. ring'[(I!last_used_idx + c) % QueueNum] = new
    BY <1>8, <1>10, <2>1
  <2>5. \A k \in 0..c - 1 : Element(k)' = Element(k)
    BY <1>8, <1>10, <2>2, <2>3 DEF Element
  <2> QED
    BY <2>3, <2>4, <2>5
<1>12. \A k \in 0..c - 1 : Element(k) # <<>>
  <2> SUFFICES ASSUME NEW k \in 0..c - 1 PROVE Element(k) # <<>>
    OBVIOUS
  <2>1. k \in 0..I!pending - 1 /\ k \in 0..I!pending /\ k + 1 \in 0..I!pending
    BY <1>10
  <2>2. InputFrom(k) < InputFrom(k + 1) /\ Element(k) = Run(InputFrom(k), InputFrom(k + 1))
    BY <1>1, <1>4, <1>5, <2>1 DEF Elements
  <2>3. InputFrom(k) \in 0..MaxBytes /\ InputFrom(k + 1) \in 0..MaxBytes /\ InputFrom(k) <= InputFrom(k + 1) /\ InputFrom(k) # InputFrom(k + 1)
    BY <1>4, <2>1, <2>2
  <2> QED
    BY <2>2, <2>3, RunEmpty
<1>13. /\ \A k \in 0..c : InputFrom(k)' = InputFrom(k)
       /\ InputFrom(c + 1)' = received'
  <2>1. ASSUME NEW k \in 0..c - 1 PROVE InputFrom(k)' = InputFrom(k)
    <3>1. k < I!pending /\ k < I!pending' /\ Element(k) # <<>> /\ Element(k)' = Element(k)
      BY <1>4, <1>5, <1>10, <1>11, <1>12
    <3> QED
      BY <3>1 DEF InputFrom
  <2>2. InputFrom(c)' = InputFrom(c)
    <3>1. c < I!pending' /\ Element(c)' = new /\ new # <<>> /\ new[1] - 1 = received
      BY <1>4, <1>5, <1>7, <1>10, <1>11
    <3>2. InputFrom(c) = received
      BY <1>4, <1>10
    <3> QED
      BY <3>1, <3>2 DEF InputFrom
  <2>3. InputFrom(c + 1)' = received'
    <3>1. ~(c + 1 < I!pending')
      BY <1>5, <1>10
    <3> QED
      BY <3>1 DEF InputFrom
  <2>4. \A k \in 0..c : k = c \/ k \in 0..c - 1
    BY <1>10
  <2> QED
    BY <2>1, <2>2, <2>3, <2>4
<1>14. Elements'
  <2>1. I!pending' <= QueueNum
    BY <1>4, <1>5
  <2>2. ASSUME NEW k \in 0..c
        PROVE  /\ InputFrom(k)' \in Nat /\ InputFrom(k)' <= InputFrom(k + 1)' /\ InputFrom(k + 1)' <= received'
               /\ InputFrom(k)' < InputFrom(k + 1)' \/ I!pending' = QueueNum
               /\ Element(k)' = Run(InputFrom(k)', InputFrom(k + 1)')
    <3>1. CASE k = c
      <4>1. InputFrom(k)' = received /\ InputFrom(k + 1)' = received' /\ Element(k)' = new
        BY <1>4, <1>10, <1>11, <1>13, <3>1
      <4> QED
        BY <1>4, <1>6, <4>1 DEF new
    <3>2. CASE k # c
      <4>1. k \in 0..c - 1 /\ k \in 0..I!pending - 1 /\ k + 1 \in 0..c
        BY <1>10, <3>2
      <4>2. /\ InputFrom(k) \in Nat /\ InputFrom(k) <= InputFrom(k + 1) /\ InputFrom(k + 1) <= received
            /\ InputFrom(k) < InputFrom(k + 1) /\ Element(k) = Run(InputFrom(k), InputFrom(k + 1))
        BY <1>1, <1>4, <1>5, <4>1 DEF Elements
      <4>3. InputFrom(k)' = InputFrom(k) /\ InputFrom(k + 1)' = InputFrom(k + 1) /\ Element(k)' = Element(k)
        BY <1>11, <1>13, <4>1
      <4>4. InputFrom(k + 1) \in Nat
        BY <1>4, <1>10, <4>1
      <4> QED
        BY <1>4, <1>6, <4>2, <4>3, <4>4
    <3> QED
      BY <3>1, <3>2
  <2>3. \A k \in 0..I!pending' - 1 : k \in 0..c
    BY <1>4, <1>5, <1>10
  <2> QED
    BY <2>1, <2>2, <2>3 DEF Elements
<1>15. I!TypeOK'
  <2>1. ring' \in [I!Slots -> Seq(I!Bytes)]
    BY <1>7, <1>8, <1>9
  <2> QED
    BY <1>1, <1>2, <1>4, <1>5, <1>6, <2>1 DEF I!TypeOK
<1>16. InputFrom(0)' = InputFrom(0)
  BY <1>10, <1>13
<1>17. Order'
  <2>1. PICK h \in 0..received, g \in 0..received :
          /\ h <= g /\ Ordered(delivered, 0, h) /\ Ordered(row[I!COMMIT], h, g)
          /\ g <= InputFrom(0) \/ Stale
    BY <1>1 DEF Order
  <2>2. inputTurn \in I!Clips => row[I!COMMIT] = <<>>
    BY <1>1 DEF Order
  <2>3. h \in 0..received' /\ g \in 0..received'
    BY <1>4, <1>6
  <2>4. Stale => Stale'
    BY <1>2 DEF Stale, I!Slots
  <2> QED
    BY <1>2, <1>16, <2>1, <2>2, <2>3, <2>4 DEF Order
<1>18. ~inputDisturbed' => Undisturbed'
  <2> SUFFICES ASSUME ~inputDisturbed' PROVE Undisturbed'
    OBVIOUS
  <2>1. Undisturbed /\ last_descriptor_count \in 0..QueueNum
    BY <1>1, <1>2 DEF I!TypeOK
  <2>2. inputTurn' = I!COMMIT => Prepared'
    <3> SUFFICES ASSUME inputTurn = I!COMMIT PROVE Prepared'
      BY <1>2
    <3>1. Prepared
      BY <2>1 DEF Undisturbed
    <3>2. PICK count \in 0..I!pending : count = last_descriptor_count /\ row[I!PREPARE] = Batch(count)
      BY <3>1 DEF Prepared
    <3>3. count \in 0..I!pending' /\ count \in Nat /\ I!last_used_idx \in Int
      BY <1>4, <1>5, Indices, InputConstants
    <3>4. \A k \in 0..count - 1 : Element(k)' = Element(k)
      BY <1>4, <1>10, <1>11
    <3>5. Batch(count)' = Batch(count)
      BY <1>5, <3>3, <3>4, BatchUnmoved
    <3> QED
      BY <1>2, <3>2, <3>3, <3>5 DEF Prepared
  <2>3. inputTurn' = "receive" => row'[I!PREPARE] = row'[I!COMMIT]
    BY <1>2, <2>1 DEF Undisturbed
  <2>4. restarting' = {} /\ configured' = I!Slots'
    BY <1>2, <2>1 DEF Undisturbed, I!Slots
  <2> QED
    BY <2>2, <2>3, <2>4 DEF Undisturbed
<1> QED
  BY <1>14, <1>15, <1>17, <1>18 DEF InputInv

LEMMA UsedType ==
    ASSUME I!TypeOK, Elements
    PROVE  I!Used \subseteq I!Bytes
<1>1. ASSUME NEW i \in 0..I!pending - 1
      PROVE  I!ToSet(ring[(I!last_used_idx + i) % QueueNum]) \subseteq I!Bytes
  <2>1. (I!last_used_idx + i) % QueueNum \in I!Slots
    BY Bounds, DistinctSlots
  <2>2. ring[(I!last_used_idx + i) % QueueNum] \in Seq(I!Bytes)
    BY <2>1 DEF I!TypeOK
  <2>3. PICK elem \in Seq(I!Bytes) : elem = ring[(I!last_used_idx + i) % QueueNum]
    BY <2>2
  <2>4. \A k \in DOMAIN elem : elem[k] \in I!Bytes
    BY <2>3, ElementOfSeq, LenProperties
  <2> QED
    BY <2>3, <2>4 DEF I!ToSet
<1> QED
  BY <1>1 DEF I!Used

LEMMA CommitClipKeeps == InputInv /\ I!virtio_input_queue_commit_clip => InputInv'
<1> SUFFICES ASSUME InputInv, I!virtio_input_queue_commit_clip PROVE InputInv'
  OBVIOUS
<1>1. I!TypeOK /\ Elements /\ Order /\ (~inputDisturbed => Undisturbed)
  BY DEF InputInv
<1>2. PICK end \in I!Ends :
          /\ I!Turn(I!COMMIT, I!commit_count, end)
          /\ \/ /\ I!all_ok /\ end # "early"
                /\ avail_idx' = (used_idx + QueueNum) % IdxSize /\ returned' = I!Used
             \/ /\ I!all_ok => end # "done"
                /\ UNCHANGED <<avail_idx, returned>>
          /\ \/ last_descriptor_count' = IF I!pending > last_descriptor_count THEN 0 ELSE last_descriptor_count
             \/ UNCHANGED last_descriptor_count
  BY DEF I!virtio_input_queue_commit_clip
<1>3. /\ inputTurn = I!COMMIT /\ inputTurn' = "receive"
      /\ UNCHANGED <<used_idx, ring, configured, received, delivered>>
  BY DEF I!virtio_input_queue_commit_clip, I!ghosts
<1>4. /\ I!PREPARE \in I!Clips /\ I!COMMIT \in I!Clips /\ I!COMMIT # I!PREPARE /\ I!Clips = {I!PREPARE, I!COMMIT}
      /\ inputTurn' \notin I!Clips /\ inputTurn' # I!COMMIT
  BY <1>3 DEF I!Clips, I!PREPARE, I!COMMIT
<1>5. /\ used_idx \in 0..IdxSize - 1 /\ avail_idx \in 0..IdxSize - 1
      /\ I!pending \in 0..QueueNum /\ I!pending \in 0..I!pending /\ QueueNum \in Nat
      /\ last_descriptor_count \in 0..QueueNum
      /\ received \in 0..MaxBytes /\ received \in Nat /\ MaxBytes \in Nat
      /\ InputFrom(I!pending) = received /\ 0 \in 0..I!pending
      /\ \A k \in 0..I!pending : InputFrom(k) \in 0..received
  BY <1>1, Bounds, InputConstants DEF I!TypeOK
<1> DEFINE count == I!commit_count
<1>6. /\ count \in 0..I!pending
      /\ I!COMMIT \in restarting \/ ~I!all_ok => count = 0
      /\ ~(I!COMMIT \in restarting \/ ~I!all_ok) =>
            count = IF I!pending > last_descriptor_count THEN last_descriptor_count ELSE I!pending
  BY <1>5 DEF I!commit_count
<1> HIDE DEF count
<1>7. /\ inputTroubles' \in 0..MaxTroubles /\ row' \in [I!Clips -> I!Messages]
      /\ restarting' = IF end = "done" THEN restarting \ {I!COMMIT} ELSE restarting \cup {I!COMMIT}
      /\ inputDisturbed' = (inputDisturbed \/ I!COMMIT \in restarting \/ end # "done")
      /\ \A d \in I!Clips \ {I!COMMIT} : row'[d] = row[d]
      /\ Ordered(row'[I!COMMIT], InputFrom(0), InputFrom(count))
      /\ count = 0 \/ end = "early" => row'[I!COMMIT] = <<>>
      /\ end = "done" => row'[I!COMMIT] = Batch(count)
      /\ inputTroubles <= inputTroubles' /\ (end = "late" => inputTroubles' > 0)
  BY <1>1, <1>2, <1>4, <1>6, TurnDoes DEF count
<1>8. /\ InputFrom(0) \in 0..received /\ InputFrom(count) \in 0..received
      /\ InputFrom(0) <= InputFrom(count)
  BY <1>1, <1>5, <1>6, Rising
<1>9. I!TypeOK'
  <2>1. restarting' \subseteq I!Clips
    BY <1>1, <1>4, <1>7 DEF I!TypeOK
  <2>2. last_descriptor_count' \in 0..QueueNum
    BY <1>2, <1>5
  <2>3. inputDisturbed' \in BOOLEAN
    BY <1>7
  <2>4. avail_idx' \in 0..IdxSize - 1
    BY <1>2, <1>3, <1>5, CommitCounts
  <2>5. I!Used \subseteq I!Bytes
    BY <1>1, UsedType
  <2>6. returned' \subseteq I!Bytes
    BY <1>1, <1>2, <2>5 DEF I!TypeOK
  <2> QED
    BY <1>1, <1>3, <1>7, <2>1, <2>2, <2>3, <2>4, <2>6 DEF I!TypeOK
<1>10. PICK h \in 0..received, g \in 0..received :
          /\ h <= g /\ Ordered(delivered, 0, h) /\ Ordered(row[I!COMMIT], h, g)
          /\ g <= InputFrom(0) \/ Stale
  BY <1>1 DEF Order
<1>11. CASE I!all_ok /\ end # "early" /\ avail_idx' = (used_idx + QueueNum) % IdxSize
  <2>1. I!pending' = 0 /\ I!last_used_idx' = used_idx
    BY <1>3, <1>5, <1>11, CommitCounts
  <2>2. Elements'
    <3>1. 0 <= QueueNum
      BY <1>5
    <3>2. 0..I!pending' - 1 = {}
      BY <2>1
    <3> QED
      BY <2>1, <3>1, <3>2 DEF Elements
  <2>3. InputFrom(0)' = received
    BY <1>3, <2>1 DEF InputFrom
  <2>4. Order'
    <3>1. CASE count = 0
      <4>1. Ordered(row'[I!COMMIT], h, g)
        BY <1>7, <3>1, OrderedNone
      <4>2. g <= received
        BY <1>5
      <4> QED
        BY <1>3, <1>4, <1>10, <2>3, <4>1, <4>2 DEF Order
    <3>2. CASE count # 0
      <4>1. g <= InputFrom(0)
        BY <1>6, <1>10, <3>2 DEF Stale
      <4>2. h <= InputFrom(0) /\ h <= InputFrom(count) /\ h \in Int /\ InputFrom(0) \in Int /\ InputFrom(count) \in Int
        BY <1>5, <1>8, <1>10, <4>1
      <4>3. InputFrom(count) <= InputFrom(count)
        BY <4>2
      <4>4. Ordered(row'[I!COMMIT], h, InputFrom(count))
        BY <1>7, <4>2, <4>3, OrderedWider
      <4>5. InputFrom(count) <= received
        BY <1>5, <1>8
      <4> QED
        BY <1>3, <1>4, <1>8, <1>10, <2>3, <4>2, <4>4, <4>5 DEF Order
    <3> QED
      BY <3>1, <3>2
  <2>5. ~inputDisturbed' => Undisturbed'
    <3> SUFFICES ASSUME ~inputDisturbed' PROVE Undisturbed'
      OBVIOUS
    <3>1. ~inputDisturbed /\ I!COMMIT \notin restarting /\ Undisturbed /\ end = "done"
      BY <1>1, <1>7
    <3>2. restarting = {} /\ configured = I!Slots /\ Prepared
      BY <1>3, <3>1 DEF Undisturbed
    <3>3. restarting' = {} /\ configured' = I!Slots'
      BY <1>3, <1>7, <1>11, <3>2 DEF I!Slots
    <3>4. row'[I!PREPARE] = row'[I!COMMIT]
      <4>1. PICK prepared \in 0..I!pending : prepared = last_descriptor_count /\ row[I!PREPARE] = Batch(prepared)
        BY <3>2 DEF Prepared
      <4>2. count = prepared
        BY <1>5, <1>6, <1>11, <3>1, <4>1
      <4>3. row'[I!COMMIT] = Batch(count)
        BY <1>7, <3>1
      <4> QED
        BY <1>4, <1>7, <4>1, <4>2, <4>3
    <3> QED
      BY <1>4, <3>3, <3>4 DEF Undisturbed
  <2> QED
    BY <1>9, <2>2, <2>4, <2>5 DEF InputInv
<1>12. CASE ~(end = "done" /\ I!all_ok) /\ UNCHANGED <<avail_idx, returned>>
  <2>1. avail_idx' = avail_idx /\ returned' = returned
    BY <1>12
  <2>2. Elements' /\ InputFrom(0)' = InputFrom(0)
    BY <1>1, <1>3, <2>1, Unmoved
  <2>3. I!Slots' = I!Slots /\ configured' = configured
    BY <1>3 DEF I!Slots
  <2>4. inputTroubles \in Int /\ inputTroubles' \in Int
    BY <1>1, <1>7, InputConstants DEF I!TypeOK
  <2>5. Order'
    <3>1. CASE Stale
      <4>1. I!COMMIT \in restarting /\ configured = I!Slots /\ inputDisturbed /\ inputTroubles > 0
        BY <3>1 DEF Stale
      <4>2. end # "done" /\ count = 0
        BY <1>6, <1>12, <4>1 DEF I!all_ok
      <4>3. row'[I!COMMIT] = <<>> /\ I!COMMIT \in restarting' /\ inputDisturbed' /\ inputTroubles' > 0
        <5>1. row'[I!COMMIT] = <<>>
          BY <1>7, <4>2
        <5>2. I!COMMIT \in restarting' /\ inputDisturbed'
          BY <1>7, <4>1, <4>2
        <5>3. inputTroubles' > 0
          BY <1>7, <2>4, <4>1
        <5> QED
          BY <5>1, <5>2, <5>3
      <4>4. Stale'
        BY <2>3, <4>1, <4>3 DEF Stale
      <4>5. Ordered(row'[I!COMMIT], h, g)
        BY <4>3, OrderedNone
      <4> QED
        BY <1>3, <1>4, <1>10, <4>4, <4>5 DEF Order
    <3>2. CASE ~Stale /\ row'[I!COMMIT] = <<>>
      <4>1. g <= InputFrom(0)'
        BY <1>10, <2>2, <3>2
      <4>2. Ordered(row'[I!COMMIT], h, g)
        BY <3>2, OrderedNone
      <4> QED
        BY <1>3, <1>4, <1>10, <4>1, <4>2 DEF Order
    <3>3. CASE ~Stale /\ row'[I!COMMIT] # <<>>
      <4>1. count # 0 /\ end # "early"
        BY <1>7, <3>3
      <4>2. I!COMMIT \notin restarting /\ I!all_ok
        BY <1>6, <4>1
      <4>3. end = "late"
        BY <1>12, <4>1, <4>2 DEF I!Ends
      <4>4. I!COMMIT \in restarting' /\ inputDisturbed' /\ inputTroubles' > 0
        BY <1>7, <4>3
      <4>5. Stale'
        BY <2>3, <4>2, <4>4 DEF Stale, I!all_ok
      <4>6. g <= InputFrom(0)
        BY <1>10, <3>3
      <4>7. h <= InputFrom(0) /\ h <= InputFrom(count) /\ h \in Int /\ InputFrom(0) \in Int /\ InputFrom(count) \in Int
        BY <1>5, <1>8, <1>10, <4>6
      <4>8. InputFrom(count) <= InputFrom(count)
        BY <4>7
      <4>9. Ordered(row'[I!COMMIT], h, InputFrom(count))
        BY <1>7, <4>7, <4>8, OrderedWider
      <4>10. PICK f \in 0..received : f = InputFrom(count)
        BY <1>8
      <4> QED
        BY <1>3, <1>4, <1>10, <4>5, <4>7, <4>9, <4>10 DEF Order
    <3> QED
      BY <3>1, <3>2, <3>3
  <2>6. inputDisturbed'
    <3> SUFFICES ASSUME ~inputDisturbed' PROVE FALSE
      BY <1>7
    <3>1. ~inputDisturbed /\ end = "done"
      BY <1>7
    <3>2. configured = I!Slots
      BY <1>1, <3>1 DEF Undisturbed
    <3> QED
      BY <1>12, <3>1, <3>2 DEF I!all_ok
  <2> QED
    BY <1>9, <2>2, <2>5, <2>6 DEF InputInv
<1> QED
  BY <1>2, <1>11, <1>12

(* What the duct lets through is a first part of what the commit clip sent,*)
(* and all of it if the prepare clip sent the same.                        *)
LEMMA AgreedIs ==
    ASSUME I!TypeOK
    PROVE  /\ \E n \in 0..Len(row[I!COMMIT]) : I!Agreed = SubSeq(row[I!COMMIT], 1, n)
           /\ row[I!PREPARE] = row[I!COMMIT] => I!Agreed = row[I!COMMIT]
<1> DEFINE p == row[I!PREPARE]
           q == row[I!COMMIT]
           same == {n \in 0..Len(p) : n <= Len(q) /\ SubSeq(p, 1, n) = SubSeq(q, 1, n)}
           most == CHOOSE n \in same : \A k \in same : k <= n
<1>1. I!Agreed = SubSeq(p, 1, most)
  BY DEF I!Agreed
<1>2. p \in Seq(Seq(I!Bytes)) /\ q \in Seq(Seq(I!Bytes))
  BY DEF I!TypeOK, I!Messages, I!Clips
<1> HIDE DEF p, q
<1>3. Len(p) \in Nat /\ Len(q) \in Nat
  BY <1>2, LenProperties
<1>4. 0 \in same
  <2>1. SubSeq(p, 1, 0) = <<>> /\ SubSeq(q, 1, 0) = <<>>
    BY SubSeqEmpty
  <2> QED
    BY <1>3, <2>1
<1>5. \E n \in same : \A k \in same : k <= n
  <2> DEFINE U == {Len(p) - n : n \in same}
  <2>1. U \subseteq Nat /\ U # {}
    BY <1>3, <1>4
  <2>2. PICK u \in U : \A v \in U : u <= v
    BY <2>1, LeastElement
  <2>3. PICK n \in same : u = Len(p) - n
    BY <2>2
  <2>4. ASSUME NEW k \in same PROVE k <= n
    <3>1. Len(p) - k \in U
      OBVIOUS
    <3>2. Len(p) - n <= Len(p) - k
      BY <2>2, <2>3, <3>1
    <3>3. k \in 0..Len(p) /\ n \in 0..Len(p)
      OBVIOUS
    <3> QED
      BY <1>3, <3>2, <3>3
  <2> QED
    BY <2>4
<1>6. most \in same /\ \A k \in same : k <= most
  <2> HIDE DEF same
  <2> QED
    BY <1>5
<1> HIDE DEF most
<1>7. most \in 0..Len(p) /\ most <= Len(q) /\ SubSeq(p, 1, most) = SubSeq(q, 1, most)
  BY <1>6
<1>8. most \in 0..Len(q)
  BY <1>3, <1>7
<1>9. ASSUME p = q PROVE SubSeq(p, 1, most) = q
  <2>1. Len(p) \in same
    BY <1>3, <1>9
  <2>2. most = Len(p)
    BY <1>3, <1>6, <1>7, <2>1
  <2> QED
    BY <1>2, <1>9, <2>2, SubSeqFull
<1> QED
  BY <1>1, <1>7, <1>8, <1>9 DEF p, q

LEMMA ReceiveKeeps == InputInv /\ I!Receive => InputInv'
<1> SUFFICES ASSUME InputInv, I!Receive PROVE InputInv'
  OBVIOUS
<1>1. I!TypeOK /\ Elements /\ Order /\ (~inputDisturbed => Undisturbed)
  BY DEF InputInv
<1>2. /\ inputTurn = "receive" /\ inputTurn' = I!PREPARE /\ delivered' = delivered \o I!Agreed
      /\ row' = [c \in I!Clips |-> <<>>] /\ returned' = {}
      /\ inputDisturbed' = (restarting # {} \/ configured # I!Slots)
      /\ UNCHANGED <<used_idx, avail_idx, ring, received>>
      /\ UNCHANGED <<configured, last_descriptor_count, restarting, inputTroubles>>
  BY DEF I!Receive
<1>3. PICK h \in 0..received, g \in 0..received :
          /\ h <= g /\ Ordered(delivered, 0, h) /\ Ordered(row[I!COMMIT], h, g)
          /\ g <= InputFrom(0) \/ Stale
  BY <1>1 DEF Order
<1>4. h \in Int /\ g \in Int /\ 0 <= h /\ received \in Nat
  BY <1>1, Bounds
<1>5. Ordered(I!Agreed, h, g)
  <2>1. PICK n \in 0..Len(row[I!COMMIT]) : I!Agreed = SubSeq(row[I!COMMIT], 1, n)
    BY <1>1, AgreedIs
  <2> QED
    BY <1>3, <1>4, <2>1, OrderedPrefix
<1>6. Ordered(delivered', 0, g)
  BY <1>2, <1>3, <1>4, <1>5, OrderedConcat
<1>7. I!PREPARE \in I!Clips /\ I!COMMIT \in I!Clips /\ I!PREPARE # I!COMMIT /\ I!PREPARE # "receive"
  BY DEF I!Clips, I!PREPARE, I!COMMIT
<1>8. row'[I!COMMIT] = <<>> /\ row' \in [I!Clips -> I!Messages]
  BY <1>2, <1>7, EmptySeq DEF I!Messages
<1>9. I!TypeOK'
  <2>1. delivered' \in I!Messages
    BY <1>6 DEF Ordered, I!Messages
  <2>2. inputDisturbed' \in BOOLEAN
    BY <1>2
  <2> QED
    BY <1>1, <1>2, <1>7, <1>8, <2>1, <2>2 DEF I!TypeOK
<1>10. Elements' /\ InputFrom(0)' = InputFrom(0)
  BY <1>1, <1>2, Unmoved
<1>11. Order'
  <2>1. Ordered(row'[I!COMMIT], g, g)
    BY <1>8, OrderedNone
  <2>2. Stale => Stale'
    BY <1>2 DEF Stale, I!Slots
  <2>3. g <= g
    BY <1>4
  <2> QED
    BY <1>2, <1>3, <1>6, <1>8, <1>10, <2>1, <2>2, <2>3 DEF Order
<1>12. ~inputDisturbed' => Undisturbed'
  BY <1>2, <1>7 DEF Undisturbed, I!Slots
<1> QED
  BY <1>9, <1>10, <1>11, <1>12 DEF InputInv

LEMMA SkipKeeps == InputInv /\ I!SkipTurn => InputInv'
<1> SUFFICES ASSUME InputInv, I!SkipTurn PROVE InputInv'
  OBVIOUS
<1>1. I!TypeOK /\ Elements /\ Order
  BY DEF InputInv
<1>2. /\ inputTurn \in restarting /\ inputTroubles < MaxTroubles /\ inputTroubles' = inputTroubles + 1
      /\ inputTurn' = IF inputTurn = I!PREPARE THEN I!COMMIT ELSE "receive"
      /\ inputDisturbed' = TRUE
      /\ UNCHANGED <<used_idx, avail_idx, ring, received>>
      /\ UNCHANGED <<configured, last_descriptor_count, restarting, row, returned, delivered>>
  BY DEF I!SkipTurn, I!ghosts
<1>3. Elements' /\ InputFrom(0)' = InputFrom(0)
  BY <1>1, <1>2, Unmoved
<1>4. inputTroubles \in 0..MaxTroubles /\ MaxTroubles \in Nat /\ inputTroubles' \in 0..MaxTroubles
  BY <1>1, <1>2, InputConstants DEF I!TypeOK
<1>5. inputTurn \in I!Clips /\ "receive" \notin I!Clips /\ I!COMMIT \in I!Clips
  BY <1>1, <1>2 DEF I!TypeOK, I!Clips, I!PREPARE, I!COMMIT
<1>6. I!TypeOK'
  BY <1>1, <1>2, <1>4, <1>5 DEF I!TypeOK
<1>7. Stale => Stale'
  BY <1>2, <1>4 DEF Stale, I!Slots
<1>8. row[I!COMMIT] = <<>>
  BY <1>1, <1>5 DEF Order
<1>9. Order'
  BY <1>1, <1>2, <1>3, <1>7, <1>8 DEF Order
<1> QED
  BY <1>2, <1>3, <1>6, <1>9 DEF InputInv

LEMMA UpsetKeepsQueue == InputInv /\ I!Upset => InputInv'
<1> SUFFICES ASSUME InputInv, I!Upset PROVE InputInv'
  OBVIOUS
<1>1. I!TypeOK /\ Elements /\ Order
  BY DEF InputInv
<1>2. /\ inputTroubles < MaxTroubles /\ (inputTroubles = 0 \/ ~inputDisturbed) /\ inputTroubles' = inputTroubles + 1
      /\ \/ /\ \E i \in configured : configured' = configured \ {i}
            /\ UNCHANGED last_descriptor_count
         \/ last_descriptor_count' \in 0..QueueNum /\ UNCHANGED configured
      /\ inputDisturbed' = TRUE
      /\ UNCHANGED <<used_idx, avail_idx, ring, received>>
      /\ UNCHANGED <<restarting, inputTurn, row, returned, delivered>>
  BY DEF I!Upset, I!Strikes, I!ghosts
<1>3. Elements' /\ InputFrom(0)' = InputFrom(0)
  BY <1>1, <1>2, Unmoved
<1>4. inputTroubles \in 0..MaxTroubles /\ MaxTroubles \in Nat /\ inputTroubles' \in 0..MaxTroubles
  BY <1>1, <1>2, InputConstants DEF I!TypeOK
<1>5. configured' \subseteq I!Slots /\ last_descriptor_count' \in 0..QueueNum
  BY <1>1, <1>2 DEF I!TypeOK
<1>6. I!TypeOK'
  BY <1>1, <1>2, <1>4, <1>5 DEF I!TypeOK
<1>7. ~Stale
  BY <1>2, <1>4 DEF Stale
<1>8. Order'
  BY <1>1, <1>2, <1>3, <1>7 DEF Order
<1> QED
  BY <1>2, <1>3, <1>6, <1>8 DEF InputInv

LEMMA QueueStep == InputInv /\ [I!Next]_(I!vars) => InputInv'
<1>1. ASSUME InputInv, UNCHANGED I!vars PROVE InputInv'
  <2>1. /\ UNCHANGED <<used_idx, avail_idx, ring, received>>
        /\ UNCHANGED <<configured, last_descriptor_count, restarting, inputTurn, row>>
        /\ UNCHANGED <<delivered, returned, inputDisturbed, inputTroubles>>
    BY <1>1 DEF I!vars
  <2>2. I!TypeOK /\ Elements /\ Order /\ (~inputDisturbed => Undisturbed)
    BY <1>1 DEF InputInv
  <2>3. /\ Elements' /\ I!last_used_idx' = I!last_used_idx /\ I!pending' = I!pending
        /\ \A k : Element(k)' = Element(k) /\ InputFrom(k)' = InputFrom(k)
    BY <2>1, <2>2, Unmoved
  <2>4. I!TypeOK'
    BY <2>1, <2>2 DEF I!TypeOK
  <2>5. Order'
    <3>1. InputFrom(0)' = InputFrom(0)
      BY <2>3
    <3> QED
      BY <2>1, <2>2, <3>1 DEF Order, Stale, I!Slots
  <2>6. Prepared => Prepared'
    <3> SUFFICES ASSUME Prepared PROVE Prepared'
      OBVIOUS
    <3>1. PICK count \in 0..I!pending : count = last_descriptor_count /\ row[I!PREPARE] = Batch(count)
      BY DEF Prepared
    <3>2. count \in Nat /\ I!last_used_idx \in Int
      BY <2>2, Bounds, Indices, InputConstants
    <3>3. Batch(count)' = Batch(count)
      BY <2>3, <3>2, BatchUnmoved
    <3> QED
      BY <2>1, <2>3, <3>1, <3>3 DEF Prepared
  <2>7. Undisturbed => Undisturbed'
    BY <2>1, <2>6 DEF Undisturbed, I!Slots
  <2> QED
    BY <2>1, <2>2, <2>3, <2>4, <2>5, <2>7 DEF InputInv
<1> QED
  BY <1>1, PrepareClipKeeps, CommitClipKeeps, ReceiveKeeps, DeviceReceivesKeeps, SkipKeeps,
     UpsetKeepsQueue DEF I!Next, I!Clip

LEMMA QueueInvariant == I!Spec => []InputInv
  BY QueueInit, QueueStep, PTL DEF I!Spec

LEMMA QueueInOrder == InputInv => I!TypeOK /\ I!InOrder
<1> SUFFICES ASSUME InputInv PROVE I!TypeOK /\ I!InOrder
  OBVIOUS
<1>1. PICK h \in 0..received : Ordered(delivered, 0, h)
  BY DEF InputInv, Order
<1>2. Runs(delivered) /\ Within(I!FlattenSeq(delivered), 0, h)
  BY <1>1 DEF Ordered
<1>3. I!InOrder
  BY <1>2 DEF I!InOrder, Runs, Within
<1> QED
  BY <1>3 DEF InputInv

(* All that the prepare clip sent arrives, if nothing happened.            *)
LEMMA QueueHandsOver ==
    ASSUME InputInv, I!Receive, ~inputDisturbed
    PROVE  delivered' = delivered \o row[I!PREPARE]
<1>1. I!TypeOK /\ Undisturbed
  BY DEF InputInv
<1>2. inputTurn = "receive" /\ delivered' = delivered \o I!Agreed
  BY DEF I!Receive
<1>3. row[I!PREPARE] = row[I!COMMIT]
  BY <1>1, <1>2 DEF Undisturbed
<1>4. I!Agreed = row[I!COMMIT]
  BY <1>1, <1>3, AgreedIs
<1> QED
  BY <1>2, <1>3, <1>4

LEMMA InputRuns == MCSpec => I!Spec
<1>1. MCInit => I!Init
  BY DEF MCInit
<1>2. [MCNext]_<<vars, ivars, ovars, rvars, part>> => [I!Next]_(I!vars)
  BY DEF MCNext, ivars, I!vars
<1> QED
  BY <1>1, <1>2, PTL DEF MCSpec, I!Spec

(* Wherever a clip of a receive queue is cut or traps, whatever is hit in  *)
(* its descriptors, and whenever the device uses a buffer, what the queue  *)
(* hands over is the device's stream with whole gaps at the most; and all  *)
(* that its prepare clip sent, if nothing happened, though the device may  *)
(* use buffers between the two clips.                                      *)
THEOREM ReceivesInOrder == MCSpec => MCReceives
<1>1. I!Spec => [](I!TypeOK /\ I!InOrder)
  BY QueueInvariant, QueueInOrder, PTL
<1>2. InputInv /\ [I!Next]_(I!vars) =>
        [I!Receive /\ ~inputDisturbed => delivered' = delivered \o row[I!PREPARE]]_(I!vars)
  BY QueueHandsOver
<1>3. I!Spec => []InputInv /\ [][I!Next]_(I!vars)
  BY QueueInvariant, PTL DEF I!Spec
<1>4. I!Spec => I!HandsOver
  BY <1>2, <1>3, PTL DEF I!HandsOver
<1> QED
  BY <1>1, <1>4, InputRuns, PTL DEF MCReceives
=============================================================================
