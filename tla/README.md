# Models of hailburst

Hailburst is a simulated spacecraft whose flight software is meant to survive
bit flips. The flight software (`src/fsw`, C) runs on *Vivid*, a kernel with a
static time-partitioned schedule, and keeps three replicas of nearly everything
that matters; replicas exchange only voted data. A simulator (`src/sim`, Go)
plays the other end of the bus, the instruments, the radio and the ground. The
tools in `src/ctrl` inject faults and evaluate the outcome.

This directory holds TLA+ modules of the parts whose correctness rests on the
order of steps: what may be cut short, lost, repeated, late or damaged.

* [Inventory](#inventory): the components, their state and what makes them hard
* [Modules](#modules): what models what
* [Runs](#runs): what TLC checks, under which bounds
* [Fairness](#fairness)
* [Proofs](#proofs)
* [Findings](#findings)
* [Not modelled](#not-modelled)
* [Plan](#plan)

## Inventory

An *epoch* is one pass over the schedule of clips (`spacecraft.c:157`):
exchange, inbound switch, radio uplink, command, magnetometer, clock, pingback,
heartbeat, telemetry, radio downlink, outbound switch, scrubbers, watchdog. One
clip runs at a time, to the end of its slot, and the order never changes. An
epoch takes about 3 ms.

| component | state | operations | talks to | what is hard | what must hold |
|---|---|---|---|---|---|
| **clip runner** `vivid/clip.c`, `tasks.c`, `crash.c`, `entrypoint.s` | `clip_mut_t` of each clip, schedule position | prologue, body, epilogue; timer interrupt; assertion and trap restarts | every clip; scrubbers (pend) | the timer interrupts anywhere, also in the bookkeeping; traps in the prologue | a clip cut short is told to start over; a damaged clip comes back |
| **scrubbers** `vivid/scrubber.c` | position in the image, iteration count | scan a part, repair | clip runner, watchdog | two scrubbers may wait for each other | damage is repaired; no reset unless it has to be |
| **watchdog** `vivid/watchdog.c` | aspect times, recipe, deadline | indicate, vote, feed, reset | all aspects | one second of silence against slow recovery; 32-bit deadlines | fed in time while all is well, reset if not |
| **ducts** `synch/duct.c` | a row of messages per sender, a count per sender and receiver | prepare, send or receive, commit | everything | senders cut mid-turn, stale counts, damaged rows | receivers get exactly what the healthy senders meant |
| **notepads** `synch/notepad.c` | two regions and a flip byte per replica | `notepad_feedforward` | all replicated state | replicas out of step, corrupted or blank | replicas in step are undisturbed, others are pulled back |
| **pipes** `synch/pipe.c`, `pipebuf.c` | scratch buffers, outstanding requests | write bytes, commit; request, receive, read bytes | radio, comm, telemetry | flow control one epoch late, held-back bytes, restarts on one side | no byte lost or repeated, no stall |
| **exchange** `bus/exchange.c`, `sim/fakewire/exchange` | connection state, counts of packets and tokens | handshake, flow control, packets, keep-alive, reset | codec and link, switch | both ends reset at any time; symbols of the old connection in flight | whole packets in order, both ends agree, losses are noticed |
| **codec** `bus/codec.c`, `sim/fakewire/codec` | escape and parameter state | encode, decode | link, exchange | symbols split over chunks | decoding inverts encoding for every split |
| **switch** `bus/switch.c` | none (ducts) | route one epoch's packets | exchange, RMAP clients | bursts beyond a port's flow | every packet that fits goes where it is addressed |
| **router** `sim/fakewire/router`, `packetlink`, `rmap/device.go` | one packet per FIFO, one choice per multiplexer | accept, forward, answer | exchange, devices | progress is by events only | no packet is forgotten; answers in order |
| **RMAP** `bus/rmap.c` | transaction ID | start, complete | switch | replies that are late, lost, or for an earlier command | a reply completes only its own command |
| **radio uplink** `flight/radio_up.c`, `sim/telecomm/radio` | plan, bytes extracted; registers and memory of the radio | query, read, read flipped, refill, write to pipe | RMAP, pipe, radio | the radio moves on between any two commands | the stream has no repetition and no unexplained gap |
| **radio downlink** `flight/radio_down.c` | voted state; the message in each replica | receive, write memory, start, monitor | RMAP, pipe, radio | retried start, replicas out of step | messages whole and in order on the air, none forgotten |
| **comm, command, pingback** `flight/comm.c`, `command.c`, `pingback.c` | framing state over epochs, bytes not yet decoded, a reply that is owed | decode, dispatch, answer | uplink pipe, telemetry | packets cut at any byte, one replica restarted or behind | each command answered once, in order |
| **telemetry** `flight/telemetry.c`, `comm.c` | bytes encoded, synchronous messages waiting, a count of drops | encode, drop, report drops, grant flow | ducts and pipes of the applications, downlink pipe | buffers no notepad votes on, restart of one replica, a radio that takes little | all telemetry is sent, buffered or reported as dropped |
| **magnetometer** `flight/magnetometer.c` | state of power and reading, queue of readings, window of the next report | command the power, latch, read, report | RMAP, command, telemetry | mission and local time, a queue per replica, answers lost | reports contiguous and complete, power as commanded |
| **clock** `flight/clock.c`, **heartbeat** | offset, calibration request | read the time, vote on the offset | RMAP, all users of time | recalibration under damage | mission time right or unknown |
| **virtio drivers** `vivid/virtio_*.c` | rings shared with the device | prepare, commit | exchange link, console | the device runs at any time; each clip reads the index anew | stream in order, no buffer lost for good |
| **circular buffers** `synch/circular.h` | two indices | peek, done, reset | magnetometer, telemetry | indices damaged, not voted on | what was written is read once |
| **ground** `sim/telecomm/transport`, `mission` | bytes on the air with their times, timers; the command being sent | find packets, toss junk; generate, send and report commands | radio, verifier | bytes are known before they are on the air, and may still change; timers due together | each packet heard once and in time; each command reported once |
| **simulation core** `sim/timesync`, `sim/component`, `sim/model` | virtual time, due events | advance, dispatch | everything simulated | events due at the same time | neither side runs ahead |
| **verifier** `sim/verifier` | events heard of, timers that will judge | judge at once, by a timer, poll by poll | generator, receiver, magnetometer | windows of time relative to what was found before; events at their very end | a requirement fails if the history breaks it, and only then |
| **linux port, loader, toolchain, ctrl tools** | | | | | |

`PROJECT.json` lists every component with its status and, under "hazards", each
place in the code where one of these difficulties bites, with the properties
that would fail if it went wrong.

How the parts compose: clips own a notepad each and exchange messages through
ducts; pipes are two ducts and a buffer at each end; the radio clips use a pipe
to the applications and RMAP over the switch, the exchange and the simulated
router to the radio. A fault hits a clip (scheduler), which therefore misses
turns (ducts, notepads, pipes), which the voting has to mask. The models follow
that line: `ClipScheduler` shows what a fault does to the turns of a clip, and
`Duct`, `Notepad` and `Pipe` take exactly that as their faults. What an
application keeps outside its notepad (a circular buffer, the bytes of an
encoder or decoder) is not voted on: it is the same in all replicas only until
one of them is cut. `Telemetry`, `Command` and `Magnetometer` are about what
that does to the outputs, which are voted on.

## Modules

Operators and variables keep the names of the source. Message contents are
model values or numbers; formatting and logging are left out.

* **`Duct`**, with the abstract **`DuctAbs`**. One epoch is a sequence of turns,
  senders and receivers in schedule order. A turn is a sequence of the calls of
  `duct.c`; the clip may be cut short between any two, and a sender between any
  two stores of its counts (`duct_send_commit` announces to a first part of the
  receivers). Memory of a deviating sender may be damaged at any time when
  `WildWrites`. `DuctAbs` is a mailbox with one copy: a batch is posted once per
  epoch, each reader takes it from the front and finishes only at its end.
* **`Notepad`**. Replicas take turns; a turn votes on flip bytes, votes on
  regions, copies, and updates in place. A replica may miss its turn, miss its
  update, or have its regions and flip byte overwritten.
* **`Pipe`**. Byte buffers at both ends over two ducts at the level of what
  `Duct` promises. Bytes are numbered, so loss and repetition show. Receivers
  are replicas, the sender is one logical replica.
* **`FwExchange`**, **`SimExchange`**: the two implementations of the exchange
  protocol as operators on their state records (`fakewire_exchange_note` and
  `Exchange`). **`ExchangeLink`** joins them: the flight side runs a transmit
  clip and a receive clip in each cycle, each a single step; the simulator's
  threads take a step for each symbol they write, holding `TxBusy`.
* **`Switch`**: one epoch of `switch_io_clip` per step, over every combination of
  packets in the inbound ducts.
* **`Router`**: the FIFOs and multiplexers of `router.go` and the callbacks of
  the RMAP devices and of the flight computer's two packet nodes. A pending
  event is a `DispatchLater` that has not run.
* **`Codec`**: the encoder and the decoder of `bus/codec.c`, the decoder of the
  simulator, and the injector of I/O errors between them. One side sends; both
  decoders read what arrives, the flight decoder chunk by chunk with the state
  that its notepad keeps.
* **`Rmap`**: transaction IDs and reply validation, used by the two radio
  modules. **`RadioUplink`** runs the clip against the receive registers and
  memory of `radio.go`, with bytes numbered as they come in; one replica stands
  for the voted ones. **`RadioDownlink`** has the voted state once and the local
  message in each replica.
* **`ClipScheduler`**: every clip's prologue, body and epilogue in steps of one
  statement on `clip_mut_t`, the timer between any two of them, damage to code
  with five kinds of consequence, the scrubbers that repair it and the watchdog
  that resets.
* **`Watchdog`**: voters, monitor and device over ducts that lose a faulty voter's
  message; the recipe is answered by one food only, and deadlines wrap.
* **`VirtioInput`**, **`VirtioOutput`**: a receive and a transmit queue. A turn of
  the prepare or the commit clip is one step that runs whole or is cut, before the
  duct's commit, after it, before or after it stored its count, or having repaired
  some of the descriptors, since the device only ever adds behind
  the index that the clip has read. The device runs between any two steps. A byte
  is its number in the stream; the merge buffer may trap when it is NULL, or not.
* **`Telemetry`**: an epoch of offers, three replicas and the radio. The replicas
  encode, drop, pull, grant and send as `telemetry_pump` does, on their own
  buffers; a packet is a number of units that are sent and reserved together.
  `Aborts` is the abort of `pipe_receive_commit`.
* **`Command`**: the byte stream of the uplink, cut into messages anywhere, the
  decoder symbol by symbol with what it keeps over epochs, the command clip and
  the pingback replicas. Bytes are of six kinds, such that content can look like
  delimiters.
* **`CircBuf`** and **`Magnetometer`**: both clips of the magnetometer, one epoch of
  all replicas a step; the note, as voted, once, and the circular buffer of each
  replica. The instrument has its timer and its registers. `last_telem_time` is
  not clamped (`magnetometer.c:224-227` bites only if time runs back or the note is
  damaged in a majority), and `earliest_time` is mission time at once, which the
  code makes of it in the first report, with the same offset.
* **`ByteSchedule`**: operators of `schedule.go` and `path.go` on the bytes on the
  air. **`GroundReceiver`** has the transmitter of the radio, with the flight
  software as `RadioDownlink` describes it, and the receiver on the ground;
  **`CommandGenerator`** has the generator of commands with its sender. Time passes
  in ticks while no event is due (`Advance`), of which a byte takes two, and due
  events run in any order.
* **`Verifier`**: the tracker's events, a set of checks that stand for the timers
  and what their closures hold, and the verdicts. The spacecraft and the mission
  are open: commands as `CommandGenerator` sends them, and else anything. `Broken`
  states all 19 requirements over the history as a whole, within the windows that
  the verifier takes, once as what surely breaks them and once as what may be held
  against it: an event at the instant of a deadline, a change of power while the
  command is on the air, or power off for less than a poll. Where the windows are
  not those of `requirements.go`, see Findings. Ticks have the proportions of the
  requirements (100 ms are two or three), but for the long ones (5 and 10 s),
  which are three and five.
* **`Clock`**: the calibration replicas, which share one notepad state, the voter
  and the vote of every user. A fault may cut any of them or damage an offset; the
  next fault of another replica waits until the damage is voted away.

Each `MC*` module instantiates a component for TLC, by its `_proofs` module where
theorems about that instance are proved. Where one component is
asked several questions under different bounds, the module has one `INSTANCE`
for each and a variable `instance` that chooses one of them initially and never
changes; the state space is the disjoint union. `MCFlight` (downlink, clock,
magnetometer), `MCVivid` (schedule, receive queue, transmit queue, router) and
`MCGround` (radio uplink, telemetry, commands, ground receiver, command generator,
verifier, codec) do the same with components that do not depend on one another but for what goes through
ducts, pipes and the air, and
`MCNotepad` with the two systems of voters; a property about one part says so
(`Is(...)`), or holds of the parked variables of the others by their initial
values.

Ghost variables never appear in guards, except that a bound on faults counts
them: `intent`, `got`, `completed` (Duct), `group`, `parity`, `lagging`, `quiet`
(Notepad), `sent`, `consumed`, `lagging` (Pipe), `given`, `delivered`
(ExchangeLink), `incoming`, `dropped`, `uplinked` (RadioUplink), `air`
(RadioDownlink), `faults`, `affected` (Clock), `silent`, `faulty`, `missed`
(Watchdog), `sent`, `answered` (Router), `finished`, `whole`, `stops`
(ClipScheduler), `received`, `delivered`, `returned`, `disturbed`
(VirtioInput), `sent`, `disturbed` (VirtioOutput), `offered`, `reported`,
`stream`, `struck` (Telemetry), `due`, `answers`, `struck` (Command), `taken`, `heard`
(GroundReceiver), `reports` (CommandGenerator), `errorAt` (Verifier), `report`,
`ground`, `owed`, `told`, `commanded`, `grace`, `failed` (Magnetometer; a pipe is
full only when a reading is owed).

## Runs

| run | bounds | what it shows |
|---|---|---|
| `duct` | 3 senders; 2 receivers, 2 messages, any clip cut at any step, one deviating sender per epoch; also 1 receiver with memory damage; also 3 diverging senders | `DeliversIntent`, `ImplementsMailbox`: the voted duct is a mailbox. `NoFalseAlarm`: no healthy replica is flagged. `FaultsTolerated`: damage to one row changes nothing, and even if all senders diverge the receivers agree, but that one may stop earlier where a sender was cut while it announced |
| `notepad` | 3 replicas, 3 states, 2 inputs, one faulty; also arbitrary memory with any cuts; also 3 voters of the watchdog of which one at a time is cut or damaged, 2 aspects, a clock that wraps after 9 epochs | `Lockstep`, `InvalidOnlyIfBlank`; `MCResynchronises`: two quiet cycles repair a replica, and make all agree from anything. `MCResetIfOverdue`: the machine is reset if and only if an aspect is overdue. `MCFedIfWell` |
| `pipe` | 3 receivers of which one fails or lags, messages of 1 byte, buffer of 2; also messages of 2 bytes, two per epoch, buffer of 4 and a consumer that holds bytes back; also the switch with 3 ports, 2 routes, packets up to 3 bytes; the router with 2 devices, 3 packets | `MCContiguous`: with receivers cut short, the unread bytes are the next of the stream, nothing is dropped, and the abort at `pipe.c:59` is unreachable. `MCKeepsGoing`: the same of the larger pipe, requested messages fit, and data moves within two turns. `MCRouted`: each port sends the first packets that could be sent to it. `MCInOrder`: answers come in order, the panics of the router are unreachable, no packet is forgotten |
| `exchange` | two packets each way, window of 2 tokens, 1 symbol buffered on the way up, a transmit buffer of 4 symbols, a reboot; also 3 symbols buffered on the way up, such that a cycle's receive limit is reached and symbols are tossed; also up to three lost receive cycles | `WholePackets`, to the flight side only while no cycle was lost; `Asserted`, all the assertions but the one of `exchange_nesting`; `MCSidesAgree`, whether or not symbols are tossed; `MCLossNoticed` |
| `exchange_nesting` | as above with one lost cycle and a window of 2 | violation, see Findings |
| `ground` | uplink: halves of 6 bytes, a late reply, a reboot, a stall; also halves of 10 with a stream of 30 bytes. Telemetry: 3 replicas, 2 messages of each kind, a buffer of 3 units, messages of 2, 2 troubles. Commands: 3 replicas, 15 streams of up to four packets in pieces of 1 or 10 bytes, 2 troubles. Receiver: two packets whose contents look like delimiters, of 2 bytes, in messages of up to 8; a lost reply or a restart. Generator: 3 commands of 1 or 2 bytes, at intervals shorter and longer than it takes to send one. Verifier: histories of up to 5 events and 5 to 10 ticks, of one of seven sets of kinds of events. Codec: 3 items, parameters of 2 bytes, a transmit buffer of 5, 1 error, 1 reset | `MCStreamIntact`: nothing repeated, gaps only where the radio was told to forget. `MCKeepsUp`. `MCAccounted`: all telemetry on the ground, buffered, or reported as dropped. `MCAnswered`: each command once and in order. `MCSettles`: buffers run dry, all commands are answered. `MCHears`: without trouble each packet is heard as soon as it is there, and never one that was not on the air, or twice. `MCReported`: each command is reported once, not before it is off the air and not after the next is on it. `MCVerdictsInWindows`: each of the 19 requirements fails if the history breaks it within the windows the verifier takes and only then, whatever happens later, and the verifier does not panic. `MCRoundTrip`: what is encoded is decoded, for every cut. `MCReadAlike`: what is decoded depends on the bytes alone, and an error spoils nothing beyond the next control character without a parameter |
| `radio_uplink_retry` | a lost reply, halves of 5, a stream of 40 bytes | violation, see Findings |
| `flight` | downlink: 3 replicas, two messages, a lost and a late reply, an upset, a reboot. Clock: 3 replicas, 4 faults, two measured offsets of which one is the reserved 0. Magnetometer: 3 replicas, 17 epochs, a queue of 2, reports of 1, 2 troubles | `Framed`; `MCTransmits`: each message is transmitted, from memory that does not change meanwhile; `MCMissionTimeRight`, `MCCalibrates`: the time is right or unknown, never unknown again, and recalibrated after damage; `MCReportsOrdered`, `MCNothingMissed` (each reading is told in time, and the power is as commanded) |
| `vivid` | schedule: one application, 2 scrubbers, 2 faults, pends of 3 attempts, a timeout of 12 epochs. Queues: 2 buffers, indices modulo 4, 4 bytes in messages of 2, 2 troubles. Router: 2 devices, 3 packets | `ToldWhenCut`, `FewRetries`, `ResetJustified`; `MCRecovers`: all clips come back, and a receive queue never stays stuck; `MCIntended`: a transmit queue sends only what was meant, and without trouble all of it. `MCReceives`: a receive queue hands on the stream with whole gaps at most, and without trouble what its two clips hand over is the same. `MCAnswersCome`: packets to a device that answers are answered in the end |
| `virtio_loss` | a receive queue as in `vivid`, without troubles | violation, see Findings |
| `magnetometer_time` | as in `flight` | violation, see Findings |
| `ground_resync` | as in `ground`, three packets | violation, see Findings |

Why the bounds are enough: three replicas are what the flight software is
configured with (`CONFIG_APPLICATION_REPLICAS`), and a majority vote has no
more cases with more. Two messages per epoch give a batch a beginning and an
end; two epochs in a row are what stale state needs, and the runs have no bound
on epochs. Buffers have the least sizes their assertions admit, so that every
boundary is reached; the second instances have one size more. In the exchange,
a window of two tokens and two packets each way let a packet overtake a token
and a reset fall between any two symbols; more packets repeat the same
positions in the window. A stream of commands arrives byte by byte, in whole messages, or with pauses
between, so that a message may end anywhere in a packet. The magnetometer's 17
epochs hold several readings and reports, before and after a change of power;
two troubles are what it takes for one to fall into the repair of the other.
The clock of the watchdog wraps about once in two feedings.
The timeout of 12 epochs of the schedule in `vivid` is tight:
with 11 `ResetJustified` fails, as two scrubbers that wait for each other need
the time of their pends and of one scan each. In the machine 200 attempts are
0.6 s of the watchdog's second, the same proportion with room to spare.

Each property has a mutant in `PROJECT.json`: a changed definition, as a
plausible bug would change it, under which the same run reports that property
violated. The definitions named `Bug_...` are those changes; nothing else uses
them.

## Fairness

* `exchange`: both clips run (they are in the schedule), symbols in flight
  arrive, a thread that may write does so. Strong fairness where a thread waits
  for `TxBusy`, which is released again and again: its callback is run whenever
  that happens. Strong fairness also of a receive clip that takes all there is;
  clips are short and the link is faster than the transmitter.
* `flight`, downlink: the clip runs, the radio answers what it gets and transmits
  at its own pace. The number of lost and late replies is finite.
* `vivid`, router: the simulator runs each due event, the flight computer takes what
  it is sent.
* `flight`, clock: the schedule gives each clip its turn; faults are bounded, and
  never fair. The magnetometer's properties bound its delays in epochs instead.
* `ground`: weak fairness of the turns, as the schedule takes them. Strong
  fairness of an epoch in which the radio grants telemetry a message (`Granted`)
  and of one in which bytes that were received are passed on (`Arrives`): both
  are open to the environment in every epoch, and each stands for a pipe whose
  other end keeps working. Whether troubles come is not fair; they are bounded.
* `vivid`, receive queue: the two clips and the receiver run. The device owes
  nothing.
* `vivid`, schedule: the processor runs and the timer ticks. Faults end, being
  bounded; they are never fair.
* All other runs check safety only. `Pipe` states its progress as bounded
  waiting (`Flows`), so needs no fairness.

## Proofs

Each theorem holds for all values of the constants that its module's assumption
admits, under the hypotheses it states. The modules `MC*` instantiate the
`_proofs` modules of their components where a run's property is about such an
instance; `MC*_proofs` then shows that the steps of the run's specification are
steps of the instance, or leave it alone, and cites the component's theorem.
Theorems about what an `MC*` module extends or instantiates itself are in its
`_proofs` module.

**`Duct_proofs`**, for every number of replicas that `duct.h` admits (1 to 4),
every `max_flow` up to 254 and both polarities:

* `TypeCorrect`: `Spec => []TypeOK`, with the invariant that a transaction is
  open only in the turn of its own clip.
* `Delivery`: `Spec /\ HealthyMajority => []DeliversIntent`. The inductive
  invariant says what each sender's row and counts are at each turn: a healthy
  sender that has run has written `intent` and announced its length to all; one
  that has not has `DUCT_MISSING_FLOW` (or, for a receiver that did not commit,
  an old count, which it overwrites first); all others are in `faulty`, of which
  there are at most `MaxFaulty`. A vote for an entry needs a majority, hence at
  least one healthy sender, hence the entry is that of `intent`; and an entry of
  `intent` has the votes of all healthy senders.
* `Refinement`: every step is a step of `DuctAbs` or leaves its variables alone.
* `FalseAlarms`: `NoFalseAlarm`. A clip flags the counts it finds in its own column
  or row; those of a healthy sender are cleared by the last receiver that
  committed, and set only in the sender's turn.
* `ReceiversAgree`: `Agreement`, with no bound on the senders that diverge. What a
  vote returns depends on the rows and on the counts for that receiver. All
  receivers of an epoch read the same rows, as senders write only in their turns,
  and a sender that announces whole gives all the same count. Unless one was
  `torn`, they vote alike; if one was, its vote is lost to some, and a majority
  that both reach contains a common supporter. The hypothesis `~WildWrites` is
  what the property is about: memory that changes between two receivers' turns
  may well be read differently.
* `MCDuct_proofs`: `ToleratesFaults`, both of these for the run's other instances.

**`Notepad_proofs`**, for any number of replicas and any component (its states,
inputs and transition function are constants): `LockstepHolds`,
`InvalidOnlyIfBlankHolds` and `ResynchronisesHolds`, under the hypothesis
`Minority`: the replicas that are cut, damaged or out of step are less than half,
and the memory starts blank. The invariant says where a sound replica's memory is
in the cycle (`Before` its turn, `Copied`, `Updated`) relative to `group`, the
state of a component without faults. The flip bits of the sound replicas then read
as one parity, whether they have flipped in this cycle or not, and even if they
are blank, because `NOTEPAD_UNINITIALIZED` (255) is odd and the first cycle's
parity is 1; the region of that parity holds `group` at a majority; and two
majorities overlap, so the vote can return nothing else. `Recovering` says what a
replica that is not sound gains by being left alone: after one quiet cycle its
flip byte is not blank, so in the second it copies what the vote returns.

`SelfStabilisesHolds` needs no such hypothesis: from any contents of the memory,
with any replicas cut or damaged in any cycle, two quiet cycles make all agree.
After one quiet cycle no flip byte is blank (`NoBlank`), so every replica votes in
the second. There each one counts those before it as if they had not flipped, so
all count the same flip bits (`Ones`) and elect the same parity (`Elected`): all
read one region and write the other, hence the vote on its states stays what it was
(`BestKept`) and all are given the same (`Unanimous`). `MCNotepad_proofs` has the
property of the run for both of its instances, `ResynchronisesHere`.

**`MCVivid_proofs`**, about `ClipScheduler`, which `MCVivid` extends, for any number
of clips, scrubbers, faults and attempts:

* `StartsOver`: `ToldWhenCut`, which says nothing of a clip between its turns. The
  invariant `IInv` adds what its bookkeeping then means: if the prologue would let
  the clip run on (it is not restarting, was not interrupted while running, and is
  due in this very epoch), then it ran to its end or is still to be told
  (`Coming`, for clips whose turn is to come, and `Over`, for those whose turn is
  over); and `Now` says the same of the running clip at each of its steps.
* `RetriesBounded`: `FewRetries`. While the code of a clip is damaged, the scrubbers
  whose scan has yet to come to it (`Behind`) only become more, as one that passes
  it repairs it. A clip that traps is released by the end of a scan, and released
  unrepaired only by a scrubber that was past its code and now is not: so it has
  trapped at most once more than there are scrubbers behind.
* `ResetCaused`: the machine is reset only for a trap in a prologue whose code was
  hit or for a scrubber that was silent for the whole timeout, never for a trap in
  a body. This is half of `ResetJustified`; that a silent scrubber was itself hit is
  about the time that repairs take in proportion to the timeout, which TLC checks
  at the least timeout for which it is true.

And about its transmit queue, for any number of buffers, indices that wrap anywhere,
any messages and any number of troubles:

* `SendsAsIntended`: `MCIntended`, an invariant and an action property. `OutputInv`
  says that the buffers the device was handed and has not sent hold what follows in
  the batch (`Handed`, `Buffer`). The commit clip hands over those before the first
  mismatch, which are a first part of the batch (`ClearedIsPrefix`). That the prepare
  clip fills a buffer for each message, and that an index that wrapped points where
  it would have, is arithmetic modulo the number of buffers, which divides the number
  of indices (`RingIndex`, `Wraps`).

And about its receive queue, for any number of buffers, indices that wrap anywhere, any
sizes and contents of the elements and any number of troubles, one made good before the
next:

* `ReceivesInOrder`: `MCReceives`, `InOrder` and `HandsOver`. `InputInv` says that the
  elements used and not given back hold the stream one after the other, up to
  `received` (`Elements`), and that what the queue handed over, or its duct is about to,
  lies behind them (`Order`). The exception is why it needs strengthening: a commit
  clip cut after it sent and before it gave back has sent what it will send again, and
  what saves the order is that it starts anew, and the row it left is cleared, before
  anything else goes wrong (`Stale`). What a clip sends of some elements is the stream
  between them, in order (`CollectedFits`), and the same whenever it does not trap
  (`CollectedAlike`); what the duct lets through is a first part of what the commit clip
  sent (`AgreedIs`). While nothing is wrong the commit clip finds the count the prepare
  clip left, and the elements up to it as they were, whatever the device adds behind
  them (`Undisturbed`), so both rows are the same and come through whole. The
  messages are compared as one sequence: `FlattenIs` and `FlattenConcat` say what
  flattening them gives, by induction over natural numbers on the partial results.

**Watchdog**, in `MCNotepad_proofs`, for any number of voters and of aspects and any timing that
satisfies two hypotheses. `FewVoters`: of the voters, less than half miss their turns
at a time. `Timely`: `2 * MaxMissed + 1 <= EarlyOffset` and `< Period`, as each turn
that a monitor misses costs the recipe one epoch on its way and the food one more.
The run has the greatest `MaxMissed` that satisfies it. `ResetIfOverdue`: the
machine is reset only if an aspect is overdue (`NoNeedlessReset`), and surely if one
stays so (`SilenceStops`). `FedOnlyIfWell`: `FedIfWell`. The invariant relates what
each voter of a majority says to `silent`, the true age of each aspect (`VotesOK`,
`AskedOK`), and the recipe in use to the time that is left (`OnTime`); times are
compared after reduction to `Words`, hence the lemma `Remainder`, and what is
compared is never further apart than half of that. `ResetIfOverdueHere` and
`FedOnlyIfWellHere` are the same for the run.

**`MCPipe_proofs`**, about `Pipe`, which `MCPipe` extends, for any number of
receivers, any sizes of message, buffer and flow limit, and any consumer.
`RequestsFit` needs no hypothesis: whoever is cut short and however often, what a
receiver requested fits its buffer when its turn comes, and its commit does not
abort. The hypothesis `HealthyMajority`, that at most half of the receivers
(rounded down) are cut short or have not caught up since, is for `StreamOrder`
(`Contiguous`) and `NoneDropped` (`NothingDropped`). The code drops what does not fit, and a
request is granted an epoch after it was made, by a sender that takes a majority's
word for the room of all. `PipeInv`, which TLC checked on the run first, has these
parts:

* `Sound`: types, the length of any first part of the batch, and that a request is
  no more than fits. This part needs no majority.
* `Numbered`, `UpToDate`, `Contiguous`: the bytes at the sender, those in the batch
  and those unread continue each other, modulo the number of bytes.
* `RoomForBatch`, `RoomForRequests`: every receiver has room for the batch until its
  turn, and for whatever any receiver that the sender hears has requested.
* `Leading`: all receivers are given the same batch and the same demand. So those
  that are not affected end an epoch with the same number of unread bytes, and no
  other with more: one that was cut short has only read more than it was told of.
  What it holds at the end (`Final`) is known before its turn. Hence the requests
  of the unaffected ones suit all, and a majority contains one of them.

What the batch holds is a flattened sequence, so the length of its parts is an
induction over natural numbers. It goes through the least counterexample (`Least`,
`Induction`), as the library's induction theorems cannot be instantiated.
`StreamOrderHere` is what the run checks of this instance, `MCContiguous`.

The same module proves `SwitchRoutes`, that is `MCRouted`, for any ports, routes,
sizes and loads of the switch. `switch_packet` either appends to one duct or drops
(`SwitchPacket`), so after each of the packets that arrived the duct of a port has
what `Carried` takes of those due so far: the first ones, as many as it has places
for (`SwitchCarries`). The library folds over sets of places and defines the fold by
CHOOSE; `FoldsExist` shows that there is such a function, and `SwitchFolds` that it
takes the packets one after the other.

`RouterInOrder` is `MCInOrder`, for any devices and packets, whatever the order of the
events. `RouterInv` has these parts:

* `Shaped`, `Led`: what comes from the flight computer goes to a device, and what comes
  from a device to the flight computer; the multiplexer of a device points to the
  flight computer's FIFO if that holds a packet for the device, and else nowhere. Hence
  the loop of a device finds nothing more to do after its first turn (`OneTurn`).
* `DeviceTold`, `OutboxTold`, `InboxTold`: the parts of `Told`. A dispatched event was
  perhaps the last that one of them needed; the subscriber then makes just that one
  true again, and the other two are helped by what it adds.
* `Ordered`: the packets of a device, from those answered over the inbox, its FIFO and the
  flight computer's FIFO to the outbox, have increasing numbers. `Known`: their numbers are
  those under which they were sent.

**`ExchangeLink_proofs`**, for any window of tokens and flow that the registration
admits, any room in the buffers of either side, any packets, lost cycles and
reboots, and any handshake IDs that the two sides do not share: `PacketsWhole`
(`WholePackets`) and `NothingAsserted` (`Asserted`). `LinkInvariant` says that `LinkInv`
is kept; it looks at all that is in flight, not only at the two ends:

* The way up, `Up`: the symbols in flight and those that the thread holding `TxBusy` has
  still to write. There a packet is never torn (`Triples`), as the thread writes it to
  its end even if the simulator's side is reset meanwhile. So the flight side, while it
  receives a packet, finds the rest of that packet next (`Collecting`), unless a
  cycle was lost. Its own resets may drop the beginning; the rest then
  arrives in a state that takes no data, and resets again.
* The way down, where a packet may be torn: by a transmit buffer that fills up, or by a
  reset or reboot between two cycles. `Separate` says that between two
  START_PACKETs there is a symbol that closes the first (`Closing`: the end, an error
  or a handshake, which resets the simulator), and `Warned` that as long as
  the last one is open (`OpenEnd`) the flight side has yet to send such a symbol: it
  holds `write_needs_error`, or has to shake hands anew. Hence the simulator never
  panics. What the simulator has gathered (`Gathering`) is before the rest of the
  packet in flight, if it is still to come.
* Packets are numbered, and on both ways those in flight come after those handed up
  and pending (`Ordered`, `After`, `HandedUp`), so that none comes twice.
* `Window`: the flight side sends tokens only for the room that its read duct has left
  in a cycle, so that "duct full" cannot be; `FwOK` and `SimState`: the counts and what
  is pending. These hold whatever is lost.

The loops over the symbols and packets of a cycle are recursive functions
(`ReceiveAll`, `TransmitAll`); that they keep the invariant is an induction over how
many were taken, by the least counterexample. What is tossed after the receive limit
may end inside a packet, but the connection is reset with it, and then nothing is being
received.

**Clock**, in `MCFlight_proofs`: `MissionTime`, for any odd number of replicas: the mission time
is that of a measured offset, or unknown. One component at a time is affected, a
replica or the voter. The replicas that are not hold one offset, or are on their way
from one to the next (`InStep`): those that had their turn hold what the calibration
concludes, the others what they had. Since one replica cannot break a tie between
an even number, no majority holds anything else.
`MissionTimeInFlight` has it for the run.

**Radio downlink**, in `MCFlight_proofs`, about `RadioDownlink`, which `MCFlight` extends, for any
number of replicas above two, any messages, and any number of lost commands and
replies, upsets and reboots: `FramedHolds` (`Framed`) and `MemoryStableHolds`
(`MemoryStable`). The hypothesis `Distinct` says that replies are late in fewer
epochs, counted over the whole run, than there are transaction IDs. The program
has 2^16 of them, and a single reply that late would carry an ID that is in use
again. The invariant has four parts:

* `Agreed`: all replicas but one hold the same message `held`, so that the votes on
  the note, the command and the request are those of a replica that holds it.
* `RepliesOK`: a reply is as many IDs old as epochs were late at most. Hence one
  that matches the latest ID is the answer to the latest command, and when that is
  at the head of the queue nothing is behind it.
* `Phase`: what each state of the note says of `held`, the memory and the
  transmitter, and what the answer that the state waits for implies of the radio.
  In WRITE_RADIO_MEMORY the radio is idle, whether the write was repeated or not,
  because DISABLE_TRANSMIT or a status read as idle was answered before. In
  START_TRANSMIT the message has not begun, or a reply was lost or late.
* `RadioOK`: the registers, the memory and the last byte on the air fit each other:
  the bytes that are left are those of the message in memory from the next on.

`FramedInFlight` has both for the run.

**Magnetometer**, in `MCFlight_proofs`: `ReportsInOrder` (`TypeOK` and `ReportsOrdered`), for three
replicas or more, any size of the buffers and of a report, any delays, and any
number of troubles one at a time. First come lemmas about `CircBuf`: what can be
read (`Contents`) is the empty sequence after a reset, one element longer after a
write, and without its first part after a read (`ResetEmpties`, `WrittenAppends`,
`ReadDoneDrops`), wherever the two indices stand modulo twice the size. With them a
run of the clip is a function of the sequence that waits (`ResultIs`). The
invariant `MagInv` has these parts:

* `Together`: all replicas but one hold the same readings `q`. Their next note and
  report are then the same too, and a majority (`RunEffect`), although no notepad
  votes on a buffer. The odd one may hold anything, even indices that abort it.
* `QueueOK`: the readings of `q` are after the last report and in order, in their
  times and in what was measured, and before what the instrument measures now.
* `Pending`: in the states that wait for a measurement the instrument is on, and what
  it has latched, or would latch, is after all of `q` (`Fresh`) and not after the
  time that the note has for it. So a reading that is stored follows all others,
  and a report that ends before the reading in progress loses none. An answer in
  a state is the answer to that state's request (`DeviceOK`). That the power is on
  is part of it: a latch that is asked of an instrument that is off would be
  answered and would measure nothing.
* `LastOK`: the last report ends in the past, with its last reading in its window.

A report ends before the reading that follows it in `q`, or before the one in
progress, or now: `ReportOK` shows for each that it ends after all it contains and
before all it leaves. `ReportsOrderedInFlight` has it for the run.

Where a hypothesis is not part of a module's `ASSUME`, the runs satisfy it; TLC
explores beyond it only where a module has an instance that says so.

What stays with TLC:

* Liveness under fairness, everywhere.
* That a pipe's data moves (`Flows`): bounded waiting, for demands that do not stall.
* That both sides of the exchange agree when nothing is in flight (`SidesAgree`), which
  relates their counts through all that is in flight in both directions at once.
* `Telemetry` and `Command`: what their sequences hold is stated over concatenations and
  folds. Over natural numbers such inductions can be had, as for the pipe, the exchange,
  the switch and the receive queue; for these two they are not yet done.
* `Codec` and `GroundReceiver`, hence all of `MCGround`, declare RECURSIVE operators.
* That no reading of the magnetometer is missed (`NothingMissed`) and that its power
  is as commanded in time (`PowerObeyed`): they count epochs through every loss.
* `RadioUplink`, `CommandGenerator`, `Verifier`: not yet proved, see the
  plan.

## Findings

* `exchange_nesting`: the assertion at `exchange.c:180`, that a packet starts only
  while none is being received, fails if an END_PACKET was lost with its receive
  cycle. Every other unexpected symbol resets the connection. The three replicas
  fail together; the clips restart and the exchange recovers, at the price of a
  restart instead of a reset.
* `radio_uplink_retry`: `radio_up.c:72` asserts that the two halves of the
  radio's memory have different roles. The write that hands a half back is
  repeated when its reply is lost; if the radio flips to that half before, the
  repetition gives both roles to it. The prime half must fill up between the two
  writes, one to a few epochs apart, so this is rare: it takes a half that is
  nearly full when it is not yet handed back.

* `magnetometer_time`: `requirements.go:60` wants each reading with the time of
  its collection, to within 500 us. The instrument ignores a write while a
  measurement is going on (`mag.go:113`); if the answer to the write that starts
  one is lost, the clip repeats it and takes the time of the repetition
  (`magnetometer.c:90-96`), an epoch late or more.
* `ground_resync`: `packet.go:75` and `:81` look for the next start of a packet
  and for an end "later". The end is searched from the beginning of the stream, and
  what is decoded begins at its third byte wherever the start is. If a restart of
  the flight software takes the rest of a message with it, so that an end comes
  first, the slice ends before it begins and the simulation panics; and bytes that
  come between two packets may cost the second one.

* `virtio_loss`: a commit clip of a receive queue cuts its count down to what the
  prepare clip has seen, "so that, if the prepare clip isn't getting scheduled, we
  don't try to advance" (`virtio_input.c:121-124`), but gives back every buffer it
  sees itself (`:175-177`). What the device uses between the two clips is lost,
  without any fault. So are bytes behind the first full merge of an epoch, which
  are to be collected "until it's large enough to send" (`:37`): `merge_buffer` is
  NULL by then (`:55`), and the clip traps or the bytes vanish (`:58-61`).
  `NothingLost` says that what is given back was handed over. What does hold without
  trouble is `HandsOver`: the clips hand over the same, so that the duct loses none
  of what the prepare clip has sent.

Met on the way, and part of the models without a run of their own:

* Two troubles on end in a receive queue can hand data over twice; `VirtioInput` lets the next trouble
  come when the last is made good. Damage to `avail->idx` itself is repaired by
  nobody.
* `virtio_input.c:21` and `:33` describe a queue that does not merge, when its
  duct has a place for each buffer; the macro that registers a queue
  (`virtio.h:208`) gives every queue a merge buffer.
* A transmit queue only logs that its device is behind (`virtio_output.c:18-22`).
* A circular buffer whose index is damaged aborts its clip in each turn until the
  note is lost too: the notepad, not the restart, decides whether it is reset.
* A packet to be encoded must fit the encoder's buffer when that is empty.
  `TLM_MAX_SYNC_SIZE` is 64 KiB and the buffer 4 KiB; it holds because the longest
  report of the magnetometer has about 1.4 KiB. `TelemetryAssumption` states it.

The verifier's windows are not always those that `requirements.go` states.
`VerdictsInWindows` is about the verifier's; of these four requirements it does not
say that the verdict is the one of `requirements.go`:

* `ReqInitClock` says 5 s (`requirements.go:21`); the verifier wants the clock
  calibrated, once, in the first second (`verifier.go:501`).
* `ReqTelemRecent` says 20 ms of every packet (`requirements.go:83`); the verifier
  allows 100 ms to one from before the first downlink (`verifier.go:158-161`).
* `ReqCorrectMagReadings` speaks of the time range in a packet's metadata
  (`requirements.go:69`); the verifier compares what was measured between the first
  and the last reading of the packet (`verifier.go:259-267`). A reading that is
  missing at an end of a packet is left to `ReqDownlinkMagReadings`.
* `ReqDownlinkMagReadings` says 10 s (`requirements.go:59`); the verifier gives no
  verdict on a reading before a later packet passes over it (`verifier.go:449-462`),
  so none at all on the last readings of a mission.

Within its windows:

* Whether a command was to change the power is judged by the power when it was
  sent (`verifier.go:114-119`): a change while it is on the air makes for a false
  alarm or for a command that nobody checks.
* Power that goes off and on between two polls fails `ReqCollectMagReadings`
  (`verifier.go:342-361`), and a measurement outside the windows of the polls goes
  unnoticed there.

Runs of violation check exactly one property and stay out of the others. The
assertions of the two radio and exchange findings hold in the run without the fault.

## Not modelled

The linux port, the loader, the boot ROM, the toolchain and the tools in `ctrl`
have no protocol of their own. Byte layouts, CRCs, wording of logs, and the
contents of messages are left out everywhere. The core of the simulation is
planned. The heartbeat sends a message at intervals and keeps nothing else.

What the models leave out of what they do model:

* Clocks: replicas of a clip read the same epoch time; timers are counts of
  cycles. `ClipScheduler` has no time within a slot.
* `ExchangeLink` numbers packets instead of wrapping its counters at 2^32; the
  handshake IDs of the two sides differ (the source sets their top bit).
* `Codec` leaves out the timestamps of chunks. A parameter has two bytes in the
  run, so that an escape may fall on either. A control character that interrupts
  a parameter is swallowed by the flight decoder, which reports FWC_CODEC_ERROR
  in its place, while the simulator's decoder reports the error and then the
  character; both exchanges reset at the error, so `ReadAlike` compares the two
  up to there.
* `RadioUplink` stands for three replicas by one, which `Notepad` and `Duct`
  justify, except for `uplink_buf_local`, which is not voted until it is sent.
* `Pipe` has one sender replica, for the same reason. In `Telemetry` and
  `Command`, where the senders' and receivers' buffers differ, replicas have
  their own, and a duct is a vote.
* `Telemetry` and `Command` let the next replica be struck when the last is in
  step again: with two out of step at once no majority is left. For telemetry
  that takes until the buffers have run dry, for commands until the bytes of the
  packet in progress are over.
* `GroundReceiver`: a packet has at least 2 bytes instead of 20 between its
  delimiters. There is no CRC: junk that happens to have the form of a packet is
  called back, as in the source, where the next stage rejects it; `HearsOnly` is
  about packets with the contents of one that was sent. `CommandGenerator`: the
  first second is one of the intervals.
* `Verifier`: the counts of successes and of outstanding checks, the log, and the
  values of readings, which are known by their times. Timers that are due together
  fire in one order, as no check depends on another.
* `Pipe` has the ducts at the level of what they promise, one batch to an epoch. A
  receiver that was cut before it marked its batch as consumed (`duct.c:274-278`)
  would be handed that batch again if the sender then misses its turn; `SenderCut`
  leaves that turn out, so a receiver and then the sender are not cut in successive
  epochs unless there was nothing to hand over. `Duct` has the cut itself. A cut
  after `pipe.c:80` leaves the new `last_requested` where the model keeps the old:
  the buffer is reset, and takes every message the others asked for, so neither
  value matters.
* `ClipScheduler` has one `cycle_ended` to a pending clip for the iterations of the
  scrubbers that it waits for, and a scrubber stores its iteration
  (`scrubber.c:104`) and tells the watchdog (`:111`) in one step: a cut between the
  two only makes the watchdog hear of it one cycle later.
* Virtio: the set-up of the device, the console on top of a queue, and queues
  with a single clip.
* `Magnetometer`: readings are numbers in the order they are made.

## Plan

In this order:

1. Done: `Duct`, `Notepad`, `Pipe`; `ExchangeLink`; `Rmap`, `RadioUplink`,
   `RadioDownlink`; `Router`, `Switch`; `ClipScheduler`, `Watchdog`; `Clock`;
   `VirtioInput`, `VirtioOutput`; `CircBuf`, `Magnetometer`; `Telemetry`, `Command`;
   `Codec`; `GroundReceiver`, `CommandGenerator`, `Verifier`; the theorems above.
2. `FlightBus`: both switches and their clients, one epoch at a time.
3. `Timesync` and the event queue of the simulation.

Proofs to follow: `SidesAgree` of `ExchangeLink`,
`StreamIntact` of `RadioUplink`.
