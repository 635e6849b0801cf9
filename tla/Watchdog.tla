------------------------------ MODULE Watchdog ------------------------------
(***************************************************************************)
(* The watchdog of src/fsw/vivid/watchdog.c: aspects of the software       *)
(* report that they are well, the replicas of the voter each decide from   *)
(* those reports whether the watchdog device may be fed, and one monitor   *)
(* carries recipes from the device to the voters and food back to it.      *)
(*                                                                         *)
(* An epoch is one turn of every voter, then of the monitor; it is the     *)
(* unit of time.  The device counts time in words of a fixed width, so     *)
(* that its deadlines wrap.  A voter or the monitor may be cut short, and  *)
(* a voter's memory may be damaged.                                        *)
(***************************************************************************)
EXTENDS Integers, FiniteSets

CONSTANTS
    NumVoters,      \* WATCHDOG_VOTER_REPLICAS
    Aspects,        \* what w_aspects lists
    Timeout,        \* timeout_ns of an aspect, in epochs
    Words,          \* 2^32: device times are modulo this
    Period,         \* epochs from a feeding to the next deadline
    EarlyOffset,    \* r_early_offset: epochs before it in which to feed
    MaxFaulty,      \* voters affected by faults at a time
    MaxMissed       \* turns the monitor may miss between two feedings

WatchdogAssumption ==
    /\ NumVoters \in Nat \ {0} /\ MaxFaulty \in 0..NumVoters
    /\ IsFiniteSet(Aspects) /\ Timeout \in Nat /\ MaxMissed \in Nat
    /\ {Words, Period, EarlyOffset} \subseteq Nat \ {0}
    /\ EarlyOffset <= Period /\ 2 * Period < Words

Voters  == 0..NumVoters - 1
Monitor == NumVoters

VARIABLES
    turn,           \* the voter to run, Monitor, or Monitor + 1
    well,           \* the aspects that reported well in this epoch
    silent,         \* silent[a]: epochs since a last did
    age,            \* age[r][a]: now less the last_known_ok of voter r for a
    votes,          \* what each voter put in the food duct
    asked,          \* the recipe in the recipe duct
    now,            \* the clock, truncated to a word
    deadline,       \* r_deadline
    greet,          \* r_greet: the recipe of which food is due
    faulty,         \* voters cut or damaged in this epoch
    missed,         \* turns the monitor missed since the last feeding
    stopped         \* why the device reset the machine, or "no"

vars == <<turn, well, silent, age, votes, asked, now, deadline, greet, faulty, missed, stopped>>

None       == "none"
ForceReset == "force_reset"
Recipes    == {"recipe 0", "recipe 1"}
Other(x)   == CHOOSE y \in Recipes : y # x

(* The longest silence told apart, and a last_known_ok in the future.      *)
Longest == Timeout + MaxMissed + 2
Future  == -1

TypeOK ==
    /\ turn \in 0..Monitor + 1 /\ well \subseteq Aspects
    /\ silent \in [Aspects -> 0..Longest]
    /\ age \in [Voters -> [Aspects -> {Future} \cup 0..Longest]]
    /\ votes \in [Voters -> {None, ForceReset} \cup Recipes]
    /\ asked \in {None} \cup Recipes
    /\ now \in 0..Words - 1 /\ deadline \in 0..Words - 1 /\ greet \in Recipes
    /\ faulty \subseteq Voters /\ missed \in 0..MaxMissed
    /\ stopped \in {"no", "aborted", "refused", "starved"}

(* watchdog_populate_aspect_timeouts, and what a reset does besides.       *)
Populated ==
    /\ silent' = [a \in Aspects |-> 0] /\ age' = [r \in Voters |-> [a \in Aspects |-> 0]]
    /\ votes' = [r \in Voters |-> None] /\ asked' = None
    /\ faulty' = {} /\ missed' = 0 /\ turn' = 0 /\ well' = {}

Init ==
    /\ silent = [a \in Aspects |-> 0] /\ age = [r \in Voters |-> [a \in Aspects |-> 0]]
    /\ votes = [r \in Voters |-> None] /\ asked = None
    /\ faulty = {} /\ missed = 0 /\ turn = 0 /\ well = {}
    /\ now \in 0..Words - 1 /\ deadline = (now + Period) % Words
    /\ greet = "recipe 0" /\ stopped = "no"

-----------------------------------------------------------------------------
(* A voter.                                                                *)

(* watchdog_aspects_ok: an aspect is well if it says so now, or said so    *)
(* at most Timeout epochs ago.                                             *)
aspect_ok(r, a) == a \in well \/ (age[r][a] # Future /\ age[r][a] <= Timeout)
watchdog_aspects_ok(r) == \A a \in Aspects : aspect_ok(r, a)

Noted(r, seen) == [age EXCEPT ![r] = [a \in Aspects |-> IF a \in seen THEN 0 ELSE @[a]]]

(* The food is a function of the recipe, and is named by it.               *)
vote(r) == IF watchdog_aspects_ok(r) THEN asked ELSE ForceReset

watchdog_voter_clip(r) ==
    /\ turn = r /\ stopped = "no"
    /\ age' = Noted(r, well)
    /\ votes' = [votes EXCEPT ![r] = vote(r)]
    /\ turn' = turn + 1
    /\ UNCHANGED <<well, silent, asked, now, deadline, greet, faulty, missed, stopped>>

(* A voter that is cut short may have looked at some of the aspects, and   *)
(* sends nothing.  At most MaxFaulty voters are affected at a time: those  *)
(* that are cut or damaged, and those that have not noticed that an        *)
(* aspect is well since.                                                   *)
Affected == faulty \cup {r \in Voters : age[r] # silent /\ r >= turn}
              \cup {r \in Voters : r < turn /\ \E a \in Aspects :
                        age[r][a] # (IF a \in well THEN 0 ELSE silent[a])}
MayFault(r) == Cardinality(Affected \cup {r}) <= MaxFaulty

CutVoter ==
    /\ turn \in Voters /\ stopped = "no" /\ MayFault(turn)
    /\ \E seen \in SUBSET well : age' = Noted(turn, seen)
    /\ votes' = [votes EXCEPT ![turn] = None]
    /\ faulty' = faulty \cup {turn} /\ turn' = turn + 1
    /\ UNCHANGED <<well, silent, asked, now, deadline, greet, missed, stopped>>

DamageVoter(r) ==
    /\ turn = 0 /\ stopped = "no" /\ MayFault(r)
    /\ \E a \in Aspects, x \in {Future, 0, Timeout + 1} : age' = [age EXCEPT ![r][a] = x]
    /\ faulty' = faulty \cup {r}
    /\ UNCHANGED <<turn, well, silent, votes, asked, now, deadline, greet, missed, stopped>>

-----------------------------------------------------------------------------
(* The monitor, and the device.                                            *)

(* The difference of two words, as int32_t.                                *)
Signed(x) == IF x % Words < Words \div 2 THEN x % Words ELSE (x % Words) - Words

earliest == (deadline - EarlyOffset) % Words
Bug_can_feed_yet == earliest <= now
watchdog_check_can_feed_yet == Signed(earliest - now) <= 0

(* What the food duct delivers: the message of a majority.                 *)
Bug_Agreed == {v \in Recipes \cup {ForceReset} : \E r \in Voters : votes[r] = v}
Agreed == {v \in Recipes \cup {ForceReset} :
              2 * Cardinality({r \in Voters : votes[r] = v}) > NumVoters}

(* The device takes the food of its recipe within the window, and sets a   *)
(* new deadline and a new recipe; it resets the machine on anything else.  *)
Feed(food) ==
    IF food = greet /\ Signed(earliest - now) <= 0
    THEN /\ deadline' = (now + Period) % Words /\ greet' = Other(greet)
         /\ missed' = 0 /\ UNCHANGED stopped
    ELSE /\ stopped' = "refused" /\ UNCHANGED <<deadline, greet, missed>>

Unfed == UNCHANGED <<deadline, greet, missed, stopped>>

(* A recipe is sent unless the device has just been fed.                   *)
Ask(can_feed_yet) == asked' = IF can_feed_yet THEN greet ELSE None

watchdog_monitor_clip ==
    /\ turn = Monitor /\ stopped = "no"
    /\ \/ Agreed = {} /\ Unfed /\ Ask(watchdog_check_can_feed_yet)
       \/ /\ ForceReset \in Agreed
          /\ stopped' = "aborted" /\ asked' = None /\ UNCHANGED <<deadline, greet, missed>>
       \/ \E food \in Agreed \ {ForceReset} :
             IF watchdog_check_can_feed_yet THEN Feed(food) /\ Ask(FALSE)
             ELSE Unfed /\ Ask(FALSE)
    /\ turn' = turn + 1
    /\ UNCHANGED <<well, silent, age, votes, now, faulty>>

(* The monitor is cut short: before it took the food, or before it gave    *)
(* it to the device; or it fed the device and had nothing to send.         *)
CutMonitor ==
    /\ turn = Monitor /\ stopped = "no" /\ missed < MaxMissed
    /\ missed' = missed + 1 /\ asked' = None /\ turn' = turn + 1
    /\ UNCHANGED <<well, silent, age, votes, now, deadline, greet, faulty, stopped>>

-----------------------------------------------------------------------------
(* The end of an epoch.                                                    *)

Older(n) == IF n = Future \/ n = Longest THEN n ELSE n + 1

NewEpoch ==
    /\ turn = Monitor + 1 /\ stopped = "no"
    /\ IF now = deadline
       THEN stopped' = "starved" /\ UNCHANGED <<turn, well, silent, age, votes, now, faulty>>
       ELSE /\ now' = (now + 1) % Words /\ turn' = 0 /\ faulty' = {}
            /\ well' \in SUBSET Aspects
            /\ silent' = [a \in Aspects |-> IF a \in well THEN 1 ELSE Older(silent[a])]
            /\ age' = [r \in Voters |-> [a \in Aspects |-> Older(age[r][a])]]
            /\ votes' = [r \in Voters |-> None]
            /\ UNCHANGED stopped
    /\ UNCHANGED <<asked, deadline, greet, missed>>

(* The machine starts again.                                               *)
Restart ==
    /\ stopped # "no"
    /\ Populated /\ stopped' = "no" /\ deadline' = (now + Period) % Words
    /\ UNCHANGED <<now, greet>>

Next ==
    \/ \E r \in Voters : watchdog_voter_clip(r) \/ DamageVoter(r)
    \/ CutVoter \/ watchdog_monitor_clip \/ CutMonitor \/ NewEpoch \/ Restart

Spec == Init /\ [][Next]_vars

-----------------------------------------------------------------------------
(* What the watchdog is for.                                               *)

(* The machine is reset only because an aspect has been silent for longer  *)
(* than its timeout: not by a minority of voters that are cut or damaged,  *)
(* not because the monitor misses turns, and not where the clock wraps.    *)
NoNeedlessReset ==
    TypeOK /\ (stopped # "no" => \E a \in Aspects : a \notin well /\ silent[a] > Timeout)

(* An aspect that is silent for longer than its timeout stops the machine  *)
(* at the first turn of the monitor after that.                            *)
SilenceStops == \A a \in Aspects : silent[a] <= Timeout + MaxMissed + 1

(* The device is fed only in an epoch in which no aspect is overdue.       *)
FedIfWell ==
    [][greet' # greet => \A a \in Aspects : a \in well \/ silent[a] <= Timeout]_vars
=============================================================================
