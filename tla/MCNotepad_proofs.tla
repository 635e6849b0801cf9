--------------------------- MODULE MCNotepad_proofs ---------------------------
(***************************************************************************)
(* The theorems of Notepad in the runs of MCNotepad, and theorems about    *)
(* the watchdog there, for any number of voters and of aspects, any        *)
(* timeout and any width of the clock, as long as less than half of the    *)
(* voters are affected at a time and the window for feeding is long enough *)
(* for the turns that the monitor may miss.                                *)
(***************************************************************************)
EXTENDS MCNotepad, Notepad_proofs

(* What the faults leave: most voters, and time for another recipe after   *)
(* each turn that the monitor missed.                                      *)
FewVoters == 2 * MaxFaulty < NumVoters
Timely   == 2 * MaxMissed + 1 <= EarlyOffset /\ 2 * MaxMissed + 1 < Period

(* What the voters should find: no aspect is overdue.                      *)
Sane == \A a \in Aspects : a \in well \/ silent[a] <= Timeout

(* The epochs that are left to the deadline, wherever the clock wraps.     *)
Left == IF now <= deadline THEN deadline - now ELSE deadline - now + Words

(* The epochs that are left when the first recipe can be sent.             *)
Lead == IF EarlyOffset < Period THEN EarlyOffset ELSE Period - 1

-----------------------------------------------------------------------------
(* The inductive invariant.                                                *)

FewAffected == Cardinality(W!Affected) <= MaxFaulty

(* A voter that is not affected has voted as it should.                    *)
VotesOK ==
    watchTurn <= W!Monitor =>
        \A r \in W!Voters \ W!Affected :
            r < watchTurn => votes[r] = IF Sane THEN asked ELSE W!ForceReset

(* A recipe that was sent is that of the device, in its window.            *)
AskedOK == asked # W!None => asked = greet /\ Left <= EarlyOffset

(* The time lost by now is at most two epochs for each turn missed, and    *)
(* one in which a recipe is on its way.                                    *)
OnTime ==
    stopped = "no" =>
        Left + 2 * missed >= Lead - (IF asked = W!None THEN 0 ELSE 1)
                                  + (IF watchTurn = W!Monitor + 1 THEN 1 ELSE 0)

(* The monitor lets no overdue aspect pass except in a turn it misses.     *)
SilentOK ==
    stopped = "no" =>
        \A a \in Aspects :
            IF watchTurn <= W!Monitor THEN silent[a] <= Timeout + 1 + missed
            ELSE a \in well \/ silent[a] <= Timeout + missed

Cause == stopped # "no" => ~Sane

WInv ==
    /\ W!TypeOK /\ FewAffected /\ VotesOK /\ AskedOK /\ Left <= Period
    /\ OnTime /\ SilentOK /\ W!SilenceStops /\ Cause

-----------------------------------------------------------------------------
(* Facts about the constants, the clock and majorities.                    *)

LEMMA SameCount == \A S : W!Cardinality(S) = Cardinality(S)
  BY DEF W!Cardinality, Cardinality

LEMMA Consts ==
    ASSUME W!WatchdogAssumption
    PROVE  /\ NumVoters \in Nat /\ NumVoters >= 1
           /\ MaxFaulty \in Nat /\ Timeout \in Nat /\ MaxMissed \in Nat
           /\ Words \in Nat /\ Period \in Nat /\ EarlyOffset \in Nat
           /\ Words >= 1 /\ Period >= 1 /\ EarlyOffset >= 1
           /\ EarlyOffset <= Period /\ 2 * Period < Words
           /\ W!Monitor = NumVoters /\ W!Longest \in Nat
           /\ W!Longest = Timeout + MaxMissed + 2
<1>1. Words \in Nat \ {0} /\ Period \in Nat \ {0} /\ EarlyOffset \in Nat \ {0}
  BY DEF W!WatchdogAssumption
<1> QED
  BY <1>1 DEF W!WatchdogAssumption, W!Monitor, W!Longest

LEMMA Remainder ==
    ASSUME W!WatchdogAssumption, NEW x \in Int
    PROVE  /\ 0 <= x /\ x < Words => x % Words = x
           /\ Words <= x /\ x < 2 * Words => x % Words = x - Words
           /\ -Words <= x /\ x < 0 => x % Words = x + Words
<1>1. Words \in Nat \ {0}
  BY DEF W!WatchdogAssumption
<1>2. 0 <= x /\ x < Words => x % Words = x
  BY <1>1
<1>3. Words <= x /\ x < 2 * Words => x % Words = x - Words
  BY <1>1
<1>4. -Words <= x /\ x < 0 => x % Words = x + Words
  BY <1>1
<1> QED
  BY <1>2, <1>3, <1>4

LEMMA LeftType ==
    ASSUME W!WatchdogAssumption, W!TypeOK
    PROVE  Left \in 0..Words - 1 /\ now \in Nat /\ deadline \in Nat
  BY Consts DEF W!TypeOK, Left

(* The window of the device, in epochs that are left.                      *)
LEMMA CanFeed ==
    ASSUME W!WatchdogAssumption, W!TypeOK, Left <= Period
    PROVE  W!watchdog_check_can_feed_yet <=> Left <= EarlyOffset
<1> DEFINE e == deadline - EarlyOffset
           d == Left - EarlyOffset
<1>1. now \in Int /\ deadline \in Int /\ Words \in Nat /\ EarlyOffset \in Nat /\ Left \in Int
      /\ 0 <= now /\ now < Words /\ 0 <= deadline /\ deadline < Words
      /\ 1 <= EarlyOffset /\ EarlyOffset < Words
  BY Consts, LeftType DEF W!TypeOK
<1>2. e \in Int /\ d \in Int
  BY <1>1
<1>3. W!earliest = IF e >= 0 THEN e ELSE e + Words
  <2>1. -Words <= e /\ e < Words
    BY <1>1
  <2> QED
    BY <1>2, <2>1, Remainder DEF W!earliest
<1>4. W!earliest - now \in Int /\ -Words <= W!earliest - now /\ W!earliest - now < Words
  BY <1>1, <1>2, <1>3
<1>5. /\ d >= -Period /\ d < Period /\ d >= -Words /\ d < Words
  BY <1>1, Consts, LeftType
<1>6. W!earliest - now = d \/ W!earliest - now = d + Words \/ W!earliest - now = d - Words
  BY <1>1, <1>2, <1>3 DEF Left
<1>7. (W!earliest - now) % Words = IF d >= 0 THEN d ELSE d + Words
  BY <1>1, <1>2, <1>4, <1>5, <1>6, Remainder
<1>8. Period <= Words \div 2 /\ Words \div 2 \in Nat /\ 2 * (Words \div 2) <= Words
  BY Consts
<1>9. W!Signed(W!earliest - now) = d
  BY <1>1, <1>2, <1>5, <1>7, <1>8, Consts DEF W!Signed
<1> QED
  BY <1>1, <1>2, <1>9 DEF W!watchdog_check_can_feed_yet

LEMMA Fed ==
    ASSUME W!WatchdogAssumption, W!TypeOK, UNCHANGED now, deadline' = (now + Period) % Words
    PROVE  Left' = Period /\ deadline' \in 0..Words - 1
<1>1. now \in Int /\ 0 <= now /\ now < Words /\ Words \in Nat /\ Period \in Nat
      /\ Period < Words /\ Period >= 1
  BY Consts, LeftType DEF W!TypeOK
<1>2. deadline' = IF now + Period < Words THEN now + Period ELSE now + Period - Words
  BY <1>1, Remainder
<1> QED
  BY <1>1, <1>2 DEF Left

LEMMA Ticked ==
    ASSUME W!WatchdogAssumption, W!TypeOK, UNCHANGED deadline, now' = (now + 1) % Words,
           now # deadline
    PROVE  Left' = Left - 1 /\ now' \in 0..Words - 1
<1>1. now \in Int /\ 0 <= now /\ now < Words /\ Words \in Nat /\ 2 < Words
      /\ deadline \in Int /\ 0 <= deadline /\ deadline < Words
  BY Consts, LeftType DEF W!TypeOK
<1>2. now' = IF now + 1 < Words THEN now + 1 ELSE 0
  BY <1>1, Remainder
<1> QED
  BY <1>1, <1>2 DEF Left

LEMMA VotersFinite ==
    ASSUME W!WatchdogAssumption
    PROVE  /\ IsFiniteSet(W!Voters) /\ Cardinality(W!Voters) = NumVoters
           /\ \A r \in W!Voters : r \in Nat /\ r < W!Monitor
           /\ W!Monitor \notin W!Voters
<1>1. NumVoters \in Int /\ NumVoters >= 1
  BY Consts
<1>2. IsFiniteSet(W!Voters) /\ Cardinality(W!Voters) = NumVoters
  BY <1>1, FS_Interval, 0 \in Int, NumVoters - 1 \in Int DEF W!Voters
<1> QED
  BY <1>1, <1>2 DEF W!Voters, W!Monitor

LEMMA AffectedVoters ==
    ASSUME W!WatchdogAssumption, W!TypeOK
    PROVE  /\ W!Affected \subseteq W!Voters /\ IsFiniteSet(W!Affected)
           /\ Cardinality(W!Affected) \in Nat
<1>1. W!Affected \subseteq W!Voters
  BY DEF W!Affected, W!TypeOK
<1> QED
  BY <1>1, VotersFinite, FS_Subset, FS_CardinalityType

(* A majority holds a voter that is not affected.                          *)
LEMMA SoundVoter ==
    ASSUME W!WatchdogAssumption, FewVoters, W!TypeOK, FewAffected,
           NEW S \in SUBSET W!Voters, 2 * Cardinality(S) > NumVoters
    PROVE  \E r \in S : r \notin W!Affected
<1>1. SUFFICES ASSUME S \subseteq W!Affected PROVE FALSE
  OBVIOUS
<1>2. Cardinality(S) <= Cardinality(W!Affected) /\ Cardinality(S) \in Nat
  BY <1>1, AffectedVoters, FS_Subset, FS_CardinalityType
<1> QED
  BY <1>2, AffectedVoters, Consts DEF FewAffected, FewVoters

(* And the voters that are not affected are a majority.                    *)
LEMMA VoterMajority ==
    ASSUME W!WatchdogAssumption, FewVoters, W!TypeOK, FewAffected,
           NEW S \in SUBSET W!Voters, W!Voters \ W!Affected \subseteq S
    PROVE  2 * Cardinality(S) > NumVoters
<1>1. IsFiniteSet(S) /\ IsFiniteSet(W!Affected) /\ S \cup W!Affected = W!Voters
  BY VotersFinite, AffectedVoters, FS_Subset
<1>2. IsFiniteSet(S \cap W!Affected)
  BY <1>1, FS_Subset, S \cap W!Affected \in SUBSET S
<1>3. /\ Cardinality(S) \in Nat /\ Cardinality(W!Affected) \in Nat
      /\ Cardinality(S \cap W!Affected) \in Nat
  BY <1>1, <1>2, FS_CardinalityType
<1>4. NumVoters = Cardinality(S) + Cardinality(W!Affected) - Cardinality(S \cap W!Affected)
  BY <1>1, FS_Union, VotersFinite
<1> QED
  BY <1>3, <1>4, Consts DEF FewAffected, FewVoters

-----------------------------------------------------------------------------
(* What the monitor hears, and does.                                       *)

LEMMA Strings ==
    /\ W!None \notin W!Recipes /\ W!ForceReset \notin W!Recipes /\ W!None # W!ForceReset
    /\ \A x \in W!Recipes : W!Other(x) \in W!Recipes /\ W!Other(x) # x
<1>1. \A x \in W!Recipes : \E y \in W!Recipes : y # x
  BY DEF W!Recipes
<1> QED
  BY <1>1 DEF W!None, W!ForceReset, W!Recipes, W!Other

LEMMA MonitorHears ==
    ASSUME W!WatchdogAssumption, FewVoters, W!TypeOK, FewAffected, VotesOK, AskedOK, watchTurn = W!Monitor
    PROVE  W!Agreed = IF ~Sane THEN {W!ForceReset} ELSE IF asked = W!None THEN {} ELSE {asked}
<1> DEFINE expected == IF Sane THEN asked ELSE W!ForceReset
           For(v) == {r \in W!Voters : votes[r] = v}
<1>1. \A r \in W!Voters \ W!Affected : votes[r] = expected
  <2>1. \A r \in W!Voters : r < watchTurn /\ watchTurn <= W!Monitor
    BY VotersFinite, Consts
  <2> QED
    BY <2>1 DEF VotesOK
<1>2. \A v : 2 * Cardinality(For(v)) > NumVoters => v = expected
  <2> TAKE v
  <2> HAVE 2 * Cardinality(For(v)) > NumVoters
  <2>1. PICK r \in For(v) : r \notin W!Affected
    BY SoundVoter
  <2> QED
    BY <1>1, <2>1
<1>3. 2 * Cardinality(For(expected)) > NumVoters
  <2>1. W!Voters \ W!Affected \subseteq For(expected)
    BY <1>1
  <2> QED
    BY <2>1, VoterMajority
<1>4. W!Agreed = {v \in W!Recipes \cup {W!ForceReset} : v = expected}
  BY <1>2, <1>3, SameCount DEF W!Agreed
<1>5. asked = W!None \/ asked \in W!Recipes
  BY DEF W!TypeOK
<1> QED
  BY <1>4, <1>5, Strings

(* It reboots the machine if an aspect is overdue, and never otherwise; it *)
(* feeds the device whenever it asked for food in its last turn.           *)
LEMMA MonitorStep ==
    ASSUME W!WatchdogAssumption, FewVoters, WInv, W!watchdog_monitor_clip
    PROVE  \/ /\ ~Sane /\ stopped' = "aborted" /\ asked' = W!None
              /\ UNCHANGED <<deadline, greet, missed>>
           \/ /\ Sane /\ asked = W!None /\ UNCHANGED <<deadline, greet, missed, stopped>>
              /\ asked' = IF Left <= EarlyOffset THEN greet ELSE W!None
           \/ /\ Sane /\ asked # W!None /\ asked' = W!None
              /\ deadline' = (now + Period) % Words /\ greet' = W!Other(greet)
              /\ missed' = 0 /\ UNCHANGED stopped
<1>1. W!Agreed = IF ~Sane THEN {W!ForceReset} ELSE IF asked = W!None THEN {} ELSE {asked}
  BY MonitorHears DEF WInv, W!watchdog_monitor_clip
<1>2. W!watchdog_check_can_feed_yet <=> Left <= EarlyOffset
  BY CanFeed DEF WInv
<1>3. CASE ~Sane
  BY <1>1, <1>3 DEF W!watchdog_monitor_clip
<1>4. CASE Sane /\ asked = W!None
  BY <1>1, <1>2, <1>4 DEF W!watchdog_monitor_clip, W!Unfed, W!Ask
<1>5. CASE Sane /\ asked # W!None
  <2>1. asked = greet /\ Left <= EarlyOffset /\ asked \in W!Recipes
    BY <1>5 DEF WInv, AskedOK, W!TypeOK
  <2>2. W!Agreed = {greet} /\ W!ForceReset # greet /\ W!watchdog_check_can_feed_yet
    BY <1>1, <1>2, <1>5, <2>1, Strings
  <2>3. W!Feed(greet) /\ W!Ask(FALSE)
    BY <2>2 DEF W!watchdog_monitor_clip
  <2> QED
    BY <1>5, <2>2, <2>3 DEF W!Feed, W!Ask, W!watchdog_check_can_feed_yet
<1> QED
  BY <1>3, <1>4, <1>5

(* The device is never left unfed to its deadline.                         *)
LEMMA NotStarved ==
    ASSUME W!WatchdogAssumption, Timely, WInv, watchTurn = W!Monitor + 1, stopped = "no"
    PROVE  now # deadline
<1>1. SUFFICES ASSUME Left = 0 PROVE FALSE
  BY LeftType DEF WInv, Left
<1>2. missed \in Nat /\ missed <= MaxMissed
  BY Consts DEF WInv, W!TypeOK
<1>3. 2 * missed >= Lead
  <2>1. Left + 2 * missed >= Lead - (IF asked = W!None THEN 0 ELSE 1) + 1
    BY DEF WInv, OnTime
  <2>2. Lead \in Int
    BY Consts DEF Lead
  <2> QED
    BY <1>1, <1>2, <2>1, <2>2
<1>4. Lead >= 2 * MaxMissed + 1
  BY Consts DEF Timely, Lead
<1> QED
  BY <1>2, <1>3, <1>4, Consts DEF Lead

-----------------------------------------------------------------------------
(* The initial states, and types.                                          *)

LEMMA InitWatchdog ==
    ASSUME W!WatchdogAssumption, W!Init PROVE WInv
<1>1. /\ silent = [a \in Aspects |-> 0] /\ age = [r \in W!Voters |-> [a \in Aspects |-> 0]]
      /\ watchFaulty = {} /\ missed = 0 /\ watchTurn = 0 /\ well = {}
      /\ now \in 0..Words - 1 /\ deadline = (now + Period) % Words
  BY DEF W!Init
<1>2. votes = [r \in W!Voters |-> W!None] /\ asked = W!None /\ greet \in W!Recipes /\ stopped = "no"
  BY DEF W!Init, W!Recipes
<1>3. W!TypeOK
  <2>1. W!Longest \in Nat /\ 0 \in 0..W!Longest /\ 0 \in 0..MaxMissed /\ 0 \in 0..W!Monitor + 1
    BY Consts
  <2>2. Words \in Nat \ {0} /\ Period \in Nat /\ now \in 0..Words - 1
    BY <1>1, Consts
  <2>3. deadline \in 0..Words - 1
    BY <1>1, <2>2
  <2>4. silent \in [Aspects -> 0..W!Longest]
    BY <1>1, <2>1
  <2>5. age \in [W!Voters -> [Aspects -> {W!Future} \cup 0..W!Longest]]
    BY <1>1, <2>1
  <2>6. votes \in [W!Voters -> {W!None, W!ForceReset} \cup W!Recipes]
    BY <1>2
  <2> QED
    BY <1>1, <1>2, <2>1, <2>2, <2>3, <2>4, <2>5, <2>6 DEF W!TypeOK
<1>4. W!Affected = {}
  BY <1>1, VotersFinite DEF W!Affected
<1>5. FewAffected
  BY <1>4, FS_EmptySet, Consts DEF FewAffected
<1>6. VotesOK
  BY <1>1, VotersFinite DEF VotesOK
<1>7. AskedOK /\ Cause
  BY <1>2 DEF AskedOK, Cause
<1>8. Left = Period
  <2>1. now \in Int /\ 0 <= now /\ now < Words /\ Words \in Nat /\ Period \in Nat
        /\ Period < Words /\ Period >= 1
    BY <1>1, Consts
  <2>2. deadline = IF now + Period < Words THEN now + Period ELSE now + Period - Words
    BY <1>1, <2>1, Remainder
  <2> QED
    BY <2>1, <2>2 DEF Left
<1>9. OnTime /\ Left <= Period
  <2>1. Lead \in Int /\ Lead <= Period
    BY Consts DEF Lead
  <2>2. watchTurn # W!Monitor + 1
    BY <1>1, Consts
  <2> QED
    BY <1>1, <1>2, <1>8, <2>1, <2>2, Consts DEF OnTime
<1>10. SilentOK /\ W!SilenceStops
  BY <1>1, Consts DEF SilentOK, W!SilenceStops
<1> QED
  BY <1>3, <1>5, <1>6, <1>7, <1>8, <1>9, <1>10 DEF WInv

LEMMA NotedType ==
    ASSUME W!TypeOK, W!WatchdogAssumption, NEW r \in W!Voters, NEW seen
    PROVE  W!Noted(r, seen) \in [W!Voters -> [Aspects -> {W!Future} \cup 0..W!Longest]]
  BY Consts DEF W!TypeOK, W!Noted

LEMMA OlderType ==
    ASSUME W!WatchdogAssumption
    PROVE  /\ \A n \in {W!Future} \cup 0..W!Longest : W!Older(n) \in {W!Future} \cup 0..W!Longest
           /\ \A n \in 0..W!Longest : W!Older(n) \in 0..W!Longest
           /\ W!Older(0) = 1 /\ 1 \in 0..W!Longest
<1>1. W!Longest \in Nat /\ W!Longest >= 2 /\ W!Future = -1
  BY Consts DEF W!Future
<1>2. ASSUME NEW n \in 0..W!Longest PROVE W!Older(n) \in 0..W!Longest
  BY <1>1 DEF W!Older
<1>3. W!Older(0) = 1 /\ 1 \in 0..W!Longest
  BY <1>1 DEF W!Older
<1>4. W!Older(W!Future) = W!Future
  BY DEF W!Older
<1> QED
  BY <1>2, <1>3, <1>4

LEMMA Fewer ==
    ASSUME W!WatchdogAssumption, NEW S, NEW T \in SUBSET S, IsFiniteSet(S),
           Cardinality(S) <= MaxFaulty
    PROVE  Cardinality(T) <= MaxFaulty
<1>1. Cardinality(T) <= Cardinality(S) /\ Cardinality(T) \in Nat /\ Cardinality(S) \in Nat
  BY FS_Subset, FS_CardinalityType
<1> QED
  BY <1>1, Consts

LEMMA FaultIsFew ==
    ASSUME W!WatchdogAssumption, W!TypeOK, NEW r \in W!Voters, W!MayFault(r),
           W!Affected' \subseteq W!Affected \cup {r}
    PROVE  FewAffected'
<1>1. IsFiniteSet(W!Affected \cup {r})
  BY AffectedVoters, FS_AddElement
<1>2. Cardinality(W!Affected \cup {r}) <= MaxFaulty
  BY SameCount DEF W!MayFault
<1>3. Cardinality(W!Affected') <= MaxFaulty
  BY <1>1, <1>2, Fewer
<1> QED
  BY <1>3 DEF FewAffected

LEMMA FewKept ==
    ASSUME W!WatchdogAssumption, W!TypeOK, FewAffected, W!Affected' \subseteq W!Affected
    PROVE  FewAffected'
<1>1. Cardinality(W!Affected') <= MaxFaulty
  BY AffectedVoters, Fewer DEF FewAffected
<1> QED
  BY <1>1 DEF FewAffected

-----------------------------------------------------------------------------
(* Each action keeps the invariant.  First a voter that runs, is cut or is *)
(* damaged: what is said of the time and of the aspects does not change.   *)

LEMMA VoterKeepsRest ==
    ASSUME W!WatchdogAssumption, WInv, watchTurn' \in 0..W!Monitor,
           watchTurn <= W!Monitor,
           UNCHANGED <<well, silent, asked, now, deadline, greet, missed, stopped>>
    PROVE  (AskedOK /\ Left <= Period /\ OnTime /\ SilentOK /\ W!SilenceStops /\ Cause)'
<1>1. watchTurn \in Int /\ watchTurn # W!Monitor + 1 /\ watchTurn' # W!Monitor + 1 /\ watchTurn' <= W!Monitor
  BY Consts DEF WInv, W!TypeOK
<1>2. Left' = Left /\ Sane' = Sane
  BY DEF Left, Sane
<1>3. (AskedOK /\ Left <= Period /\ Cause)'
  BY <1>2 DEF WInv, AskedOK, Cause
<1>4. OnTime'
  BY <1>1, <1>2 DEF WInv, OnTime
<1>5. SilentOK' /\ W!SilenceStops'
  BY <1>1 DEF WInv, SilentOK, W!SilenceStops
<1> QED
  BY <1>3, <1>4, <1>5

LEMMA VoterRuns ==
    ASSUME W!WatchdogAssumption, WInv, NEW r \in W!Voters, W!watchdog_voter_clip(r)
    PROVE  WInv'
<1>1. /\ watchTurn = r /\ watchTurn' = r + 1 /\ age' = W!Noted(r, well)
      /\ votes' = [votes EXCEPT ![r] = W!vote(r)]
      /\ UNCHANGED <<well, silent, asked, now, deadline, greet, watchFaulty, missed, stopped>>
  BY DEF W!watchdog_voter_clip
<1>2. watchTurn' \in 0..W!Monitor /\ r \in Nat /\ r < W!Monitor /\ \A q \in W!Voters : q \in Nat
  BY <1>1, VotersFinite, Consts
<1>3. \A q \in W!Voters \ {r} : age'[q] = age[q] /\ votes'[q] = votes[q]
                             /\ (q < watchTurn' <=> q < watchTurn) /\ (q >= watchTurn' <=> q >= watchTurn)
  BY <1>1, <1>2 DEF W!Noted, WInv, W!TypeOK
<1>4. \A a \in Aspects : age'[r][a] = IF a \in well THEN 0 ELSE age[r][a]
  BY <1>1 DEF W!Noted, WInv, W!TypeOK
<1>5. \A q \in W!Voters \ {r} : q \in W!Affected' <=> q \in W!Affected
  BY <1>1, <1>3 DEF W!Affected
<1>6. r \notin W!Affected' <=> r \notin watchFaulty /\ \A a \in Aspects \ well : age[r][a] = silent[a]
  BY <1>1, <1>2, <1>4 DEF W!Affected
<1>7. W!Affected' \subseteq W!Affected
  <2>1. r \in W!Affected' => r \in W!Affected
    BY <1>1, <1>2, <1>6 DEF W!Affected
  <2> QED
    BY <1>5, <2>1, <1>1 DEF W!Affected, WInv, W!TypeOK
<1>8. W!TypeOK'
  <2>1. W!vote(r) \in {W!None, W!ForceReset} \cup W!Recipes
    BY DEF W!vote, WInv, W!TypeOK
  <2>2. votes' \in [W!Voters -> {W!None, W!ForceReset} \cup W!Recipes]
    BY <1>1, <2>1 DEF WInv, W!TypeOK
  <2>3. age' \in [W!Voters -> [Aspects -> {W!Future} \cup 0..W!Longest]]
    BY <1>1, NotedType DEF WInv
  <2>4. watchTurn' \in 0..W!Monitor + 1
    BY <1>2, Consts
  <2> QED
    BY <1>1, <2>2, <2>3, <2>4 DEF WInv, W!TypeOK
<1>9. FewAffected'
  BY <1>7, FewKept DEF WInv
<1>10. VotesOK'
  <2>1. Sane' = Sane /\ asked' = asked
    BY <1>1 DEF Sane
  <2>2. \A q \in (W!Voters \ W!Affected') \ {r} : q < watchTurn' =>
            votes'[q] = IF Sane' THEN asked' ELSE W!ForceReset
    BY <1>1, <1>2, <1>3, <1>5, <2>1, Consts DEF WInv, VotesOK
  <2>3. r \notin W!Affected' => (W!watchdog_aspects_ok(r) <=> Sane)
    <3>1. HAVE r \notin W!Affected'
    <3>2. \A a \in Aspects : W!aspect_ok(r, a) <=> a \in well \/ silent[a] <= Timeout
      <4>1. \A a \in Aspects : silent[a] \in 0..W!Longest /\ silent[a] # W!Future
        BY Consts DEF WInv, W!TypeOK, W!Future
      <4> QED
        BY <1>6, <3>1, <4>1 DEF W!aspect_ok
    <3> QED
      BY <3>2 DEF W!watchdog_aspects_ok, Sane
  <2>4. r \notin W!Affected' => votes'[r] = IF Sane' THEN asked' ELSE W!ForceReset
    BY <1>1, <2>1, <2>3 DEF W!vote, WInv, W!TypeOK
  <2> QED
    BY <2>2, <2>4 DEF VotesOK
<1>11. (AskedOK /\ Left <= Period /\ OnTime /\ SilentOK /\ W!SilenceStops /\ Cause)'
  <2>1. watchTurn <= W!Monitor
    BY <1>1, <1>2, Consts
  <2> QED
    BY <1>1, <1>2, <2>1, VoterKeepsRest
<1> QED
  BY <1>8, <1>9, <1>10, <1>11 DEF WInv

LEMMA VoterIsCut ==
    ASSUME W!WatchdogAssumption, WInv, W!CutVoter PROVE WInv'
<1>1. PICK seen \in SUBSET well : age' = W!Noted(watchTurn, seen)
  BY DEF W!CutVoter
<1>2. /\ watchTurn \in W!Voters /\ W!MayFault(watchTurn) /\ watchTurn' = watchTurn + 1
      /\ votes' = [votes EXCEPT ![watchTurn] = W!None] /\ watchFaulty' = watchFaulty \cup {watchTurn}
      /\ UNCHANGED <<well, silent, asked, now, deadline, greet, missed, stopped>>
  BY DEF W!CutVoter
<1>3. watchTurn' \in 0..W!Monitor /\ watchTurn \in Nat /\ watchTurn < W!Monitor /\ \A q \in W!Voters : q \in Nat
  BY <1>2, VotersFinite, Consts
<1>4. \A q \in W!Voters \ {watchTurn} : age'[q] = age[q] /\ votes'[q] = votes[q]
                                /\ (q < watchTurn' <=> q < watchTurn) /\ (q >= watchTurn' <=> q >= watchTurn)
  BY <1>1, <1>2, <1>3 DEF W!Noted, WInv, W!TypeOK
<1>5. \A q \in W!Voters \ {watchTurn} : q \in W!Affected' <=> q \in W!Affected
  BY <1>2, <1>4 DEF W!Affected
<1>6. watchTurn \in W!Affected'
  BY <1>2 DEF W!Affected
<1>7. W!TypeOK'
  <2>1. votes' \in [W!Voters -> {W!None, W!ForceReset} \cup W!Recipes]
    BY <1>2 DEF WInv, W!TypeOK
  <2>2. age' \in [W!Voters -> [Aspects -> {W!Future} \cup 0..W!Longest]]
    BY <1>1, <1>2, NotedType DEF WInv
  <2>3. watchTurn' \in 0..W!Monitor + 1
    BY <1>3, Consts
  <2> QED
    BY <1>2, <2>1, <2>2, <2>3 DEF WInv, W!TypeOK
<1>8. FewAffected'
  <2>1. W!Affected' \subseteq W!Affected \cup {watchTurn}
    BY <1>5, <1>7, AffectedVoters, <1>2 DEF W!Affected, W!TypeOK
  <2> QED
    BY <1>2, <2>1, FaultIsFew DEF WInv
<1>9. VotesOK'
  <2>1. Sane' = Sane /\ asked' = asked
    BY <1>2 DEF Sane
  <2> QED
    BY <1>2, <1>3, <1>4, <1>5, <1>6, <2>1, Consts DEF WInv, VotesOK
<1>10. (AskedOK /\ Left <= Period /\ OnTime /\ SilentOK /\ W!SilenceStops /\ Cause)'
  <2>1. watchTurn <= W!Monitor
    BY <1>3, Consts
  <2> QED
    BY <1>2, <1>3, <2>1, VoterKeepsRest
<1> QED
  BY <1>7, <1>8, <1>9, <1>10 DEF WInv

LEMMA VoterIsDamaged ==
    ASSUME W!WatchdogAssumption, WInv, NEW r \in W!Voters, W!DamageVoter(r) PROVE WInv'
<1>1. PICK a \in Aspects, x \in {W!Future, 0, Timeout + 1} : age' = [age EXCEPT ![r][a] = x]
  BY DEF W!DamageVoter
<1>2. /\ watchTurn = 0 /\ watchTurn' = watchTurn /\ W!MayFault(r) /\ watchFaulty' = watchFaulty \cup {r}
      /\ UNCHANGED <<well, silent, votes, asked, now, deadline, greet, missed, stopped>>
  BY DEF W!DamageVoter
<1>3. \A q \in W!Voters : q \in Nat /\ ~(q < watchTurn')
  BY <1>2, VotersFinite
<1>4. W!TypeOK'
  <2>1. x \in {W!Future} \cup 0..W!Longest
    BY Consts
  <2>2. age' \in [W!Voters -> [Aspects -> {W!Future} \cup 0..W!Longest]]
    BY <1>1, <2>1 DEF WInv, W!TypeOK
  <2> QED
    BY <1>2, <2>2 DEF WInv, W!TypeOK
<1>5. \A q \in W!Voters \ {r} : age'[q] = age[q]
  BY <1>1 DEF WInv, W!TypeOK
<1>6. FewAffected'
  <2>1. W!Affected' \subseteq W!Affected \cup {r}
    BY <1>2, <1>3, <1>5 DEF W!Affected, WInv, W!TypeOK
  <2> QED
    BY <1>2, <2>1, FaultIsFew DEF WInv
<1>7. VotesOK'
  BY <1>3 DEF VotesOK
<1>8. (AskedOK /\ Left <= Period /\ OnTime /\ SilentOK /\ W!SilenceStops /\ Cause)'
  <2>1. watchTurn <= W!Monitor /\ watchTurn' \in 0..W!Monitor
    BY <1>2, Consts
  <2> QED
    BY <1>2, <2>1, VoterKeepsRest
<1> QED
  BY <1>4, <1>6, <1>7, <1>8 DEF WInv

-----------------------------------------------------------------------------
(* Then the monitor: the voters stay as they are.                          *)

LEMMA MonitorKeepsVoters ==
    ASSUME W!WatchdogAssumption, WInv, watchTurn = W!Monitor, watchTurn' = watchTurn + 1,
           UNCHANGED <<well, silent, age, votes, now, watchFaulty>>
    PROVE  FewAffected' /\ VotesOK' /\ Sane' = Sane
<1>1. \A r \in W!Voters : r \in Nat /\ r < watchTurn /\ r < watchTurn' /\ ~(r >= watchTurn) /\ ~(r >= watchTurn')
  BY VotersFinite, Consts
<1>2. W!Affected' = W!Affected
  BY <1>1 DEF W!Affected, WInv, W!TypeOK
<1>3. FewAffected'
  BY <1>2, FewKept DEF WInv
<1>4. VotesOK'
  BY Consts DEF VotesOK
<1> QED
  BY <1>3, <1>4 DEF Sane

LEMMA MonitorRuns ==
    ASSUME W!WatchdogAssumption, FewVoters, WInv, W!watchdog_monitor_clip
    PROVE  WInv'
<1>1. /\ watchTurn = W!Monitor /\ watchTurn' = watchTurn + 1 /\ stopped = "no"
      /\ UNCHANGED <<well, silent, age, votes, now, watchFaulty>>
  BY DEF W!watchdog_monitor_clip
<1>2. FewAffected' /\ VotesOK' /\ Sane' = Sane
  BY <1>1, MonitorKeepsVoters
<1>3. watchTurn' = W!Monitor + 1 /\ watchTurn' \in 0..W!Monitor + 1 /\ watchTurn <= W!Monitor /\ ~(watchTurn' <= W!Monitor)
      /\ watchTurn # W!Monitor + 1
  BY <1>1, Consts
<1>4. missed \in Nat /\ missed <= MaxMissed /\ Left \in Nat /\ Lead \in Nat
      /\ Lead <= EarlyOffset /\ Lead < Period
  BY Consts, LeftType DEF WInv, W!TypeOK, Lead
<1>5. \A a \in Aspects : silent[a] \in Nat /\ silent[a] <= Timeout + 1 + missed
  BY <1>1, <1>3, Consts DEF WInv, W!TypeOK, SilentOK
<1>6. W!SilenceStops'
  BY <1>1, <1>3, <1>4, <1>5, Consts DEF W!SilenceStops
<1>7. Left + 2 * missed >= Lead - (IF asked = W!None THEN 0 ELSE 1)
  BY <1>1, <1>3, <1>4 DEF WInv, OnTime
<1>8. CASE /\ ~Sane /\ stopped' = "aborted" /\ asked' = W!None
           /\ UNCHANGED <<deadline, greet, missed>>
  <2>1. W!TypeOK'
    BY <1>1, <1>3, <1>8 DEF WInv, W!TypeOK
  <2>2. AskedOK' /\ OnTime' /\ SilentOK' /\ Cause'
    BY <1>2, <1>8 DEF AskedOK, OnTime, SilentOK, Cause
  <2>3. (Left <= Period)'
    BY <1>1, <1>8 DEF WInv, Left
  <2> QED
    BY <1>2, <1>6, <2>1, <2>2, <2>3 DEF WInv
<1>9. CASE /\ Sane /\ asked = W!None /\ UNCHANGED <<deadline, greet, missed, stopped>>
           /\ asked' = IF Left <= EarlyOffset THEN greet ELSE W!None
  <2>1. W!TypeOK'
    BY <1>1, <1>3, <1>9 DEF WInv, W!TypeOK
  <2>2. Left' = Left
    BY <1>1, <1>9 DEF Left
  <2>3. AskedOK' /\ Cause' /\ (Left <= Period)'
    BY <1>1, <1>9, <2>2 DEF WInv, AskedOK, Cause
  <2>4. OnTime'
    <3>1. greet # W!None
      BY Strings DEF WInv, W!TypeOK
    <3>2. Left + 2 * missed >= Lead - (IF asked' = W!None THEN 0 ELSE 1) + 1
      <4>1. CASE Left <= EarlyOffset
        BY <1>4, <1>7, <1>9, <3>1, <4>1
      <4>2. CASE ~(Left <= EarlyOffset)
        BY <1>4, <1>9, <4>2, Consts
      <4> QED
        BY <4>1, <4>2
    <3> QED
      BY <1>3, <1>9, <2>2, <3>2 DEF OnTime
  <2>5. SilentOK'
    BY <1>1, <1>3, <1>4, <1>9, Consts, <1>5 DEF SilentOK, Sane
  <2> QED
    BY <1>2, <1>6, <2>1, <2>3, <2>4, <2>5 DEF WInv
<1>10. CASE /\ Sane /\ asked # W!None /\ asked' = W!None
            /\ deadline' = (now + Period) % Words /\ greet' = W!Other(greet)
            /\ missed' = 0 /\ UNCHANGED stopped
  <2>1. Left' = Period /\ deadline' \in 0..Words - 1
    BY <1>1, <1>10, Fed DEF WInv
  <2>2. W!TypeOK'
    <3>1. greet' \in W!Recipes
      BY <1>10, Strings DEF WInv, W!TypeOK
    <3>2. missed' \in 0..MaxMissed
      BY <1>10, Consts
    <3> QED
      BY <1>1, <1>3, <1>10, <2>1, <3>1, <3>2 DEF WInv, W!TypeOK
  <2>3. AskedOK' /\ Cause' /\ (Left <= Period)'
    BY <1>1, <1>10, <2>1, Consts DEF WInv, AskedOK, Cause
  <2>4. OnTime'
    BY <1>3, <1>4, <1>10, <2>1, Consts DEF OnTime, Lead
  <2>5. SilentOK'
    BY <1>1, <1>3, <1>10, <1>5, Consts DEF SilentOK, Sane
  <2> QED
    BY <1>2, <1>6, <2>2, <2>3, <2>4, <2>5 DEF WInv
<1> QED
  BY <1>8, <1>9, <1>10, MonitorStep

LEMMA MonitorIsCut ==
    ASSUME W!WatchdogAssumption, WInv, W!CutMonitor
    PROVE  WInv'
<1>1. /\ watchTurn = W!Monitor /\ watchTurn' = watchTurn + 1 /\ stopped = "no" /\ missed < MaxMissed
      /\ missed' = missed + 1 /\ asked' = W!None
      /\ UNCHANGED <<well, silent, age, votes, now, deadline, greet, watchFaulty, stopped>>
  BY DEF W!CutMonitor
<1>2. FewAffected' /\ VotesOK' /\ Sane' = Sane
  BY <1>1, MonitorKeepsVoters
<1>3. watchTurn' = W!Monitor + 1 /\ watchTurn' \in 0..W!Monitor + 1 /\ watchTurn <= W!Monitor /\ ~(watchTurn' <= W!Monitor)
      /\ watchTurn # W!Monitor + 1
  BY <1>1, Consts
<1>4. missed \in Nat /\ missed' \in 0..MaxMissed /\ Left \in Nat /\ Lead \in Nat
  BY <1>1, Consts, LeftType DEF WInv, W!TypeOK, Lead
<1>5. W!TypeOK'
  BY <1>1, <1>3, <1>4 DEF WInv, W!TypeOK
<1>6. Left' = Left
  BY <1>1 DEF Left
<1>7. AskedOK' /\ Cause' /\ (Left <= Period)' /\ W!SilenceStops'
  BY <1>1, <1>6 DEF WInv, AskedOK, Cause, W!SilenceStops
<1>8. OnTime'
  <2>1. Left + 2 * missed >= Lead - (IF asked = W!None THEN 0 ELSE 1)
    BY <1>1, <1>3, <1>4 DEF WInv, OnTime
  <2>2. Left + 2 * missed' >= Lead + 1
    BY <1>1, <1>4, <2>1
  <2> QED
    BY <1>1, <1>3, <1>4, <1>6, <2>2 DEF OnTime, Lead
<1>9. SilentOK'
  <2>1. \A a \in Aspects : silent[a] \in Nat /\ silent[a] <= Timeout + 1 + missed
    BY <1>1, <1>3, Consts DEF WInv, W!TypeOK, SilentOK
  <2> QED
    BY <1>1, <1>3, <1>4, <2>1, Consts DEF SilentOK
<1> QED
  BY <1>2, <1>5, <1>7, <1>8, <1>9 DEF WInv

-----------------------------------------------------------------------------
(* The end of an epoch, and a restart.                                     *)

LEMMA EpochEnds ==
    ASSUME W!WatchdogAssumption, Timely, WInv, W!NewEpoch
    PROVE  WInv'
<1>1. /\ watchTurn = W!Monitor + 1 /\ stopped = "no" /\ watchTurn' = 0 /\ watchFaulty' = {}
      /\ now' = (now + 1) % Words /\ now # deadline /\ well' \in SUBSET Aspects
      /\ silent' = [a \in Aspects |-> IF a \in well THEN 1 ELSE W!Older(silent[a])]
      /\ age' = [r \in W!Voters |-> [a \in Aspects |-> W!Older(age[r][a])]]
      /\ votes' = [r \in W!Voters |-> W!None]
      /\ UNCHANGED <<stopped, asked, deadline, greet, missed>>
  BY NotStarved DEF W!NewEpoch
<1>2. Left' = Left - 1 /\ now' \in 0..Words - 1
  BY <1>1, Ticked DEF WInv
<1>3. watchTurn' \in 0..W!Monitor + 1 /\ watchTurn' <= W!Monitor /\ ~(watchTurn <= W!Monitor) /\ watchTurn' # W!Monitor + 1
      /\ \A r \in W!Voters : r \in Nat /\ r < watchTurn /\ ~(r >= watchTurn) /\ ~(r < watchTurn') /\ r >= watchTurn'
  BY <1>1, VotersFinite, Consts
<1>4. W!TypeOK'
  <2>1. silent' \in [Aspects -> 0..W!Longest]
    BY <1>1, OlderType DEF WInv, W!TypeOK
  <2>2. age' \in [W!Voters -> [Aspects -> {W!Future} \cup 0..W!Longest]]
    BY <1>1, OlderType DEF WInv, W!TypeOK
  <2>3. votes' \in [W!Voters -> {W!None, W!ForceReset} \cup W!Recipes]
    BY <1>1
  <2> QED
    BY <1>1, <1>2, <1>3, <2>1, <2>2, <2>3 DEF WInv, W!TypeOK
<1>5. FewAffected'
  <2>1. ASSUME NEW r \in W!Voters, r \notin W!Affected PROVE age'[r] = silent'
    <3>1. \A a \in Aspects : age[r][a] = IF a \in well THEN 0 ELSE silent[a]
      BY <1>3, <2>1 DEF W!Affected
    <3>2. \A a \in Aspects : W!Older(age[r][a]) = IF a \in well THEN 1 ELSE W!Older(silent[a])
      BY <3>1, OlderType
    <3> QED
      BY <1>1, <3>2
  <2>2. W!Affected' \subseteq W!Affected
    BY <1>1, <1>3, <2>1 DEF W!Affected
  <2> QED
    BY <2>2, FewKept DEF WInv
<1>6. VotesOK'
  BY <1>3 DEF VotesOK
<1>7. Left \in Nat /\ missed \in Nat /\ missed <= MaxMissed /\ Lead \in Nat
  BY Consts, LeftType DEF WInv, W!TypeOK, Lead
<1>8. AskedOK' /\ Cause' /\ (Left <= Period)'
  BY <1>1, <1>2, <1>7, Consts DEF WInv, AskedOK, Cause
<1>9. OnTime'
  <2>1. Left + 2 * missed >= Lead - (IF asked = W!None THEN 0 ELSE 1) + 1
    BY <1>1 DEF WInv, OnTime
  <2>2. Left' + 2 * missed' >= Lead - (IF asked' = W!None THEN 0 ELSE 1)
    BY <1>1, <1>2, <1>7, <2>1
  <2> QED
    BY <1>3, <1>7, <2>2 DEF OnTime, Lead
<1>10. \A a \in Aspects : silent'[a] \in Nat /\ silent'[a] <= Timeout + 1 + missed
  <2>1. \A a \in Aspects : silent[a] \in Nat /\ (a \in well \/ silent[a] <= Timeout + missed)
    BY <1>1, <1>3, Consts DEF WInv, W!TypeOK, SilentOK
  <2>2. \A a \in Aspects : a \notin well => W!Older(silent[a]) = silent[a] + 1
    BY <1>7, <2>1, Consts DEF W!Older, W!Future
  <2> QED
    BY <1>1, <1>7, <2>1, <2>2, Consts
<1>11. SilentOK' /\ W!SilenceStops'
  BY <1>1, <1>3, <1>7, <1>10, Consts DEF SilentOK, W!SilenceStops
<1> QED
  BY <1>4, <1>5, <1>6, <1>8, <1>9, <1>11 DEF WInv

LEMMA Restarts ==
    ASSUME W!WatchdogAssumption, WInv, W!Restart
    PROVE  WInv'
<1>1. /\ silent' = [a \in Aspects |-> 0] /\ age' = [r \in W!Voters |-> [a \in Aspects |-> 0]]
      /\ watchFaulty' = {} /\ missed' = 0 /\ watchTurn' = 0 /\ well' = {}
      /\ deadline' = (now + Period) % Words /\ UNCHANGED <<now, greet>>
  BY DEF W!Restart, W!Populated
<1>2. votes' = [r \in W!Voters |-> W!None] /\ asked' = W!None /\ stopped' = "no"
  BY DEF W!Restart, W!Populated
<1>3. Left' = Period /\ deadline' \in 0..Words - 1
  BY <1>1, Fed DEF WInv
<1>4. W!TypeOK'
  <2>1. W!Longest \in Nat /\ 0 \in 0..W!Longest /\ 0 \in 0..MaxMissed /\ 0 \in 0..W!Monitor + 1
    BY Consts
  <2>2. silent' \in [Aspects -> 0..W!Longest]
    BY <1>1, <2>1
  <2>3. age' \in [W!Voters -> [Aspects -> {W!Future} \cup 0..W!Longest]]
    BY <1>1, <2>1
  <2>4. votes' \in [W!Voters -> {W!None, W!ForceReset} \cup W!Recipes]
    BY <1>2
  <2> QED
    BY <1>1, <1>2, <1>3, <2>1, <2>2, <2>3, <2>4 DEF WInv, W!TypeOK
<1>5. W!Affected' = {}
  BY <1>1, VotersFinite DEF W!Affected
<1>6. FewAffected'
  BY <1>5, FewKept DEF WInv
<1>7. VotesOK'
  BY <1>1, VotersFinite DEF VotesOK
<1>8. AskedOK' /\ Cause' /\ (Left <= Period)'
  BY <1>2, <1>3, Consts DEF AskedOK, Cause
<1>9. OnTime'
  <2>1. Lead \in Int /\ Lead <= Period /\ watchTurn' # W!Monitor + 1
    BY <1>1, Consts DEF Lead
  <2> QED
    BY <1>1, <1>2, <1>3, <2>1, Consts DEF OnTime, Lead
<1>10. SilentOK' /\ W!SilenceStops'
  BY <1>1, Consts DEF SilentOK, W!SilenceStops
<1> QED
  BY <1>4, <1>6, <1>7, <1>8, <1>9, <1>10 DEF WInv

LEMMA NextWatchdog ==
    ASSUME W!WatchdogAssumption, FewVoters, Timely, WInv, [W!Next]_(W!vars)
    PROVE  WInv'
<1>1. CASE \E r \in W!Voters : W!watchdog_voter_clip(r)
  BY <1>1, VoterRuns
<1>2. CASE \E r \in W!Voters : W!DamageVoter(r)
  BY <1>2, VoterIsDamaged
<1>3. CASE W!CutVoter
  BY <1>3, VoterIsCut
<1>4. CASE W!watchdog_monitor_clip
  BY <1>4, MonitorRuns
<1>5. CASE W!CutMonitor
  BY <1>5, MonitorIsCut
<1>6. CASE W!NewEpoch
  BY <1>6, EpochEnds
<1>7. CASE W!Restart
  BY <1>7, Restarts
<1>8. CASE UNCHANGED W!vars
  BY <1>8 DEF W!vars, WInv, W!TypeOK, FewAffected, W!Affected, VotesOK, Sane, AskedOK, Left, OnTime,
      Lead, SilentOK, W!SilenceStops, Cause
<1> QED
  BY <1>1, <1>2, <1>3, <1>4, <1>5, <1>6, <1>7, <1>8 DEF W!Next

-----------------------------------------------------------------------------
(* watchdog_voter_clip and watchdog_monitor_clip reset the machine for an  *)
(* aspect that is overdue and for nothing else, whichever minority of the  *)
(* voters is cut or damaged, whichever turns the monitor misses, and       *)
(* wherever the clock of the device wraps; and an aspect that is overdue   *)
(* is noticed in the first turn of the monitor that is not missed.         *)
THEOREM ResetIfOverdue ==
    ASSUME W!WatchdogAssumption, FewVoters, Timely
    PROVE  W!Spec => [](W!NoNeedlessReset /\ W!SilenceStops)
<1>1. W!Init => WInv
  BY InitWatchdog
<1>2. WInv /\ [W!Next]_(W!vars) => WInv'
  BY NextWatchdog
<1>3. WInv => W!NoNeedlessReset /\ W!SilenceStops
  <2>1. SUFFICES ASSUME WInv PROVE W!NoNeedlessReset /\ W!SilenceStops
    OBVIOUS
  <2>2. ~Sane => \E a \in Aspects : a \notin well /\ silent[a] > Timeout
    BY <2>1, Consts DEF WInv, W!TypeOK, Sane
  <2> QED
    BY <2>1, <2>2 DEF WInv, Cause, W!NoNeedlessReset
<1> QED
  BY <1>1, <1>2, <1>3, PTL DEF W!Spec

(* The device is fed by watchdog_monitor_clip only in an epoch in which no *)
(* aspect is overdue.                                                      *)
THEOREM FedOnlyIfWell ==
    ASSUME W!WatchdogAssumption, FewVoters, Timely
    PROVE  W!Spec => W!FedIfWell
<1>1. W!Init => WInv
  BY InitWatchdog
<1>2. WInv /\ [W!Next]_(W!vars) => WInv'
  BY NextWatchdog
<1>3. WInv /\ [W!Next]_(W!vars)
        => [greet' # greet => \A a \in Aspects : a \in well \/ silent[a] <= Timeout]_(W!vars)
  <2>1. SUFFICES ASSUME WInv, W!Next, greet' # greet PROVE Sane
    BY DEF Sane, W!vars
  <2>2. W!watchdog_monitor_clip
    BY <2>1 DEF W!Next, W!watchdog_voter_clip, W!DamageVoter, W!CutVoter, W!CutMonitor, W!NewEpoch, W!Restart
  <2> QED
    BY <2>1, <2>2, MonitorStep
<1> QED
  BY <1>1, <1>2, <1>3, PTL DEF W!Spec, W!FedIfWell

-----------------------------------------------------------------------------
(* The instance that was chosen runs, and no other.                        *)

LEMMA WatchdogRuns == MCSpec => W!Spec
<1>1. MCInit => W!Init
  BY DEF MCInit
<1>2. [MCNext]_<<vars, vars2, wvars, instance>> => [W!Next]_(W!vars)
  BY DEF MCNext, wvars, W!vars
<1> QED
  BY <1>1, <1>2, PTL DEF MCSpec, W!Spec

LEMMA NotepadRuns == MCSpec => Spec
<1>1. MCInit => Init
  BY DEF MCInit
<1>2. [MCNext]_<<vars, vars2, wvars, instance>> => [Next]_vars
  BY DEF MCNext
<1> QED
  BY <1>1, <1>2, PTL DEF MCSpec, Spec

LEMMA AnythingRuns ==
    MCSpec => (instance = "anything" => Anything!Spec)
              /\ (~(instance = "anything") => []~(instance = "anything"))
<1>1. MCInit => (instance = "anything" => Anything!Init)
  BY DEF MCInit
<1>2. instance = "anything" /\ [MCNext]_<<vars, vars2, wvars, instance>>
          => [Anything!Next]_(Anything!vars)
  BY DEF MCNext, vars2, Anything!vars, Anything!memory, Anything!ghosts
<1>3. [MCNext]_<<vars, vars2, wvars, instance>>
          => ((instance = "anything")' <=> instance = "anything")
  BY DEF MCNext
<1> QED
  BY <1>1, <1>2, <1>3, PTL DEF MCSpec, Anything!Spec

LEMMA AnythingAdmitted ==
    ASSUME Zeroed \in {0, 1} PROVE Anything!NotepadAssumption
<1>1. \A v \in {0, 1}, i \in {0} : Parity(v, i) \in {0, 1}
  BY DEF Parity
<1> QED
  BY <1>1, NotepadAssumption DEF Anything!NotepadAssumption

(* Replicas in step again after two quiet cycles, when a minority was      *)
(* affected; and in agreement after two, whatever the memory held.         *)
THEOREM ResynchronisesHere ==
    ASSUME Minority, Zeroed \in {0, 1}
    PROVE  MCSpec => []MCResynchronises
<1>1. Spec => []Resynchronises
  BY ResynchronisesHolds
<1>2. Anything!Spec => []Anything!SelfStabilises
  BY AnythingAdmitted, Anything!SelfStabilisesHolds
<1> QED
  BY <1>1, <1>2, NotepadRuns, AnythingRuns, PTL DEF MCResynchronises

(* The watchdog resets the machine for an aspect that is overdue, in the   *)
(* first turn of the monitor that is not missed, and for nothing else.     *)
THEOREM ResetIfOverdueHere ==
    ASSUME FewVoters, Timely
    PROVE  MCSpec => []MCResetIfOverdue
<1>1. W!Spec => [](W!NoNeedlessReset /\ W!SilenceStops)
  BY MCNotepadAssumption, ResetIfOverdue
<1> QED
  BY <1>1, WatchdogRuns, PTL DEF MCResetIfOverdue

(* And the device is fed only while no aspect is overdue.                  *)
THEOREM FedOnlyIfWellHere ==
    ASSUME FewVoters, Timely
    PROVE  MCSpec => MCFedIfWell
<1>1. W!Spec => W!FedIfWell
  BY MCNotepadAssumption, FedOnlyIfWell
<1> QED
  BY <1>1, WatchdogRuns DEF MCFedIfWell
=============================================================================
