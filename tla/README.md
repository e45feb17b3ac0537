# waybeam-link: TLA+ verification project

waybeam-link is a one-way video link with a thin return path: a *craft* (TX node)
encodes, protects and broadcasts video over injected 802.11 frames; one or more
*grounds* (RX nodes) receive it on several adapters at once, report what they hear,
and may claim the craft, move it to another channel and command it. Every engine in
`core/` is pure and tick-driven: time is passed in, packets come in through one entry
point each, and the node's loop (`node/src/tx_node.cpp`, `node/src/rx_node.cpp`) calls
the engines in a fixed order. Concurrency is therefore

- *between nodes*, over an air that loses, delays and repeats;
- between a loop and what comes in between two of its passes: operators, control
  clients, the encoder;
- and, in three places, between *threads or processes*: the shared-memory frame ring,
  the radio's RX threads, and the embedding API of the receive node.

The project models the engines from their source, composes the two ends of each
protocol over such an air, checks them with TLC on small instances, shows that the frame
ring implements a bounded FIFO, and proves every safety property of the runs with TLAPS for
every value of the constants that meets the stated assumptions.

## 1. Inventory

| Component | State it keeps | Operations | Talks to | What is hard | Modules |
|---|---|---|---|---|---|
| CSA follower, craft (`core/src/csa.cpp`) | campaign phase, switch instant, binding, nonce record, verify window | `on_csa`, `note_valid_rx`, `tick`, `set_psk`, `clear_campaign` | issuer, craft loop | replays; a re-key or local retune between accept and switch; a blocking retune inside the verify window | `CsaFollower`, `CsaFollowerEnv` |
| CSA issuer, ground (same file) | phase, copies left, evidence bits, deadlines | `start`, `restamp_copy`, `note_craft_*`, `note_commit_failed`, `tick` | follower, ground loop | an acknowledgement without identity; held copies; commits that fail half-way | `CsaIssuer`, `CsaLink` |
| Vehicle commands (`core/src/vehicle_cmd.cpp`) | craft: outcome per session, echo burst; ground: campaign | `on_cmd`, `start`, `on_echo`, `tick`, `set_psk` | each other, the CSA binding | retry against late echo, reboot, re-key | `VehicleCmd` |
| Control server (`io/src/control_server.cpp`) | connections, partial requests, feeds | `accept_new`, `service`, `dispatch`, `publish_stats` | operators, every hook of the node | requests in pieces, stalled clients, a full table | `ControlServer` |
| Receive engine (`core/src/rx.cpp`) | window, gaps, blocks, discovery cache, counters | `on_data`, `complete_frame`, `tick`, `select_originator`, `reset_stats` | adapters, reassembler, egress | diversity copies out of order, clamp storms, wrap, clock steps | `RxStream`, `RxAdmission`, `RxLoss` |
| Reporter, selector word (`core/src/reporter.cpp`, `node/rx_core.h`) | baseline of counters, last word and whose it is | `build`, `reset_link`, `on_air` | receive engine, craft | baselines across resets and re-latches | `RxLink` |
| Recovery requests (`core/src/recovery.cpp`) | burst and backoff | `due`, `note_irap`, `note_damage` | egress, craft | a storm of requests at a craft that cannot answer | `LatchRecovery` |
| Rate probes (`core/src/mcs_probe.cpp`) | window of evidence | `observe`, `observe_gap` | receive path, selector | two ends deriving one schedule under loss and rate changes | `ProbeEvidence` |
| Reassembler (`core/src/frame_reassembler.cpp`) | slots per block, cursor | `on_symbol`, `on_cache_symbol`, `expire` | receive engine, caches | completion from two sources, salvage, sessions | `Reassembler`, `GroundRepair` |
| Cache nodes (`core/src/cache_*.cpp`) | stored symbols, requests, assignment | store, request, reply, assign | ground over UDP | late and duplicate replies, ownership changes | `CacheController`, `CacheAssign` |
| Spatial repair (`core/src/spatial_repair.cpp`) | geometry, donor picture | `repair`, `note_emitted`, sink refusal | egress | a stale donor after a refused picture | `SpatialRepair` |
| Discovery and scout (`node/discovery.h`, `rx_node.cpp`) | candidates, sweep, rest channel, filter | sweep, dwell, claim, spectate, move | adapters, issuer | several owners of the same ears | `GroundTuning` |
| Return lane (`rx_node.cpp`, `uplink_data.h`) | held reports, urgent returns, datagrams, windows | hold, release, fallback, repeat | craft's quiet gap | something held without a deadline; two reports under one epoch | `ReturnLane` |
| Embedding runtime (`node/src/rx_runtime_control.cpp`, `rx_node_c.cpp`) | command and snapshot mailboxes, run state | queue, take, publish, run, stop | embedder threads | lost commands, a stale last snapshot | `RxControl` |
| Adapter bring-up (`io/src/adapter_elect.cpp`, `air_radio.cpp`, `air_backend.h`) | claims, roles | claim, bring-up, elect, re-bind, write-back | USB | devices that fail, swap or hide their identity | `AdapterBind` |
| RX threads (`io/src/air_radio.cpp`) | queue, flush generation, thread state | `on_packet`, `poll_once`, `retune`, `recover`, teardown | loop | frames of the channel just left, lost wake-ups | `RadioRx` |
| Selector, report gate (`core/src/selector.cpp`, `report_gate.h`) | rung, transition, freshness, lockouts; report authority | `on_report`, `on_verdict`, `set_profile_pin`, `csa_freeze`, `tick`; `accept`, `force_latch` | reports, encoder, radio, CSA | lost feedback, re-pins in a transition, freeze and reset in either order | `Selector`, `Adaptive` |
| Transmit path (`tx_node.cpp`, `tx_core.h`, framers, `air_radio.cpp`) | sequence numbers, gap, held queue, batch, watchdog | ingress, framing, hold, flush, heartbeat, beacon | encoder, radio | order across three buffers, a radio that stops completing | `CraftTx` |
| Calibrations (`core/calibrate.h`, `calib_dwell.h`, `uplink_calibrate.h`) | search, dwell, artifact, sequence | start, dwell, tally, cancel, persist, hand back | power owners, commands | a tally of another dwell; every way out must restore the power | `PowerSeek`, `CraftCalib`, `UplinkCalib` |
| Encoder actuator (`io/src/venc_http.cpp`) | wanted and acknowledged values, transaction, path latch | want, `poll`, `finish_txn`, `invalidate` | encoder over HTTP | late answers, restarts, flash wear | `VencHttp` |
| Frame-rate ladder (`core/fps_ladder.h`) | rate, evidence, settle | `tick`, `note_p_frame`, `resume`, `note_external_fps` | actuator, commands | switched off and on in the middle of evidence | `FrameRate` |
| Frame ring (`io/src/frame_shm.cpp`) | shared indices, slots, futex word, identity | `write_frame`, `read_frame`, `attach`, reader thread | encoder process, craft loop | two processes, restarts of either | `FrameRing`, `FrameQueue` |
| Codec, HMAC, FEC arithmetic, HEVC rewriting, JSCC, configuration, statistics | (parsing, estimation, I/O) | | | no protocol state | none |

`PROJECT.json` lists every component with its status and, under `hazards`, what is hard
to test, each at its source line with the properties that would catch it.

## 2. Plan

Done: the channel switch; commands and the control server; the receive engine with its
reporter, recovery and probe evidence; the selector with its gate; the frame ring with its
abstract specification; reassembly and repair from caches; spatial repair; scouting,
claims and the return lane; the embedding runtime; calibration of both directions; the
encoder actuator and the frame-rate ladder; the transmit path; adapter bring-up and the
RX threads. Theorems: every invariant and every safety action property of the passing runs,
and the ring's refinement of the FIFO; section 5 names the hypotheses.

Open, in this order: composing `GroundTuning` with the issuer's own module instead of its
actions; the craft's liveness guard after a retune; the on-disk stores.

## 3. The modules and the code

Conventions. Time is a natural number `now` where durations matter and a choice of the
next step where only order does. A duration of the code is a CONSTANT in units small
enough to keep the order between the shipped values that matters. A *setup* is a record
chosen once in `Init` from the constant `Setups`: it fixes what the world does in one
behaviour (loss, late loops, faults, who sends, when time ends), so one run covers
several circumstances without multiplying them. Variables whose names start with `h`
are history: they record what happened and guard nothing. A definition called a mutant
in its comment is a deliberately broken variant of the one after it; it shows that a
property notices the bug and is used by no specification. `PROJECT.json` maps every
definition to its lines.

**Channel switch.** `CsaTypes` has the packet and the symbolic MAC (a packet carries the
key that signed it). `CsaFollower` is the craft's engine: `FOnCsa` is `on_csa` with every
refusal, `FNoteValidRx`, the tick's switch, verify and release arms, `FSetPsk` and
`FDetach` (the `clear_campaign` and `release_binding` pair). `CsaIssuer` is the ground's
engine. `CsaFollowerEnv` closes the follower with an air that carries any packet at any
time; `CsaLink` composes both with their loops: the radio drain comes before the
follower's tick, a retune blocks the loop for `RetuneTime`, a copy may be held for the
quiet gap and restamped at release, retunes may fail.

**Orders.** `VehicleCmd` has `VcmdCraft` and `VcmdIssuer` in their two loops, with the
ground's reboot (a new session and nonce seed), the craft's re-key and the binding the
CSA engine lends; what a command does is one bit. `ControlServer` is one service pass per
action: accept or shed, read a piece, time out, dispatch a whole request to its hook,
answer, publish to the feeds. Clients act between passes.

**Receive engine.** `RxStream` is `on_data` past admission with `complete_frame` and
`tick`: held packets, gaps with their deadlines, block starts, the cursor, the forward
clamp with its storm timer, the resync and the wrap. `RxAdmission` is `try_latch`,
incumbent protection, the discovery cache, idle teardown, `select` and `unpin`. `RxLoss`
is the account of one adapter (`note_adapter_seq`). `RxLink` has what `RxCore` keeps on
top: the reporter's baseline of cumulative counters of width `Width`, and the selector
word with its tuple. `LatchRecovery` and `ProbeEvidence` are the engines of those names
in the hands of `RxCore`; the latter includes the craft's half of the schedule.

**Repair.** `Reassembler` is written as operators: one that may emit returns the set of its
outcomes, because the sink may refuse and a salvage may fail. `CacheController` has the
store of a cache node and the ground's controller; `GroundRepair` composes them with the
loop, a UDP that loses, delays and duplicates, restarts of the craft, expiry and new
selections. A block has K source and R repair symbols and any K distinct ones complete it
(the MDS property of the code's Cauchy matrix is assumed). `SpatialRepair` and `CacheAssign`
stand alone.

**Ears and return.** `GroundTuning` is the part of `rx_node.cpp` that retunes: the sweep,
claims, the issuer's actions, followed retunes and manual moves. A retune of all ears may
fail with any of them moved or not, the restoring ones too, most of whose results the code
ignores; `slip` remembers that one did, and that the follower moved the ears. `ReturnLane` has the holding, the windows, the fallback and the craft's
acceptor. `RxControl` interleaves embedder threads with the loop at every lock; an
exception out of `run_rx` ends the run at any point, without the final publications.
`AdapterBind` follows `RadioAir::create` claim by claim over every bench of up to three
devices, then election, re-binding and the write-back into the configuration.
`RadioRx` interleaves the RX threads with the main thread at every access to shared
state; a frame is heard in one step (`Hear`) and stamped with the flush generation in a
later one (`Stamp`), so a retune and its flush can come between, as in the USB pipeline.

**Craft.** `Selector` is the engine: one operator per input and one per arm of `tick`; a
rung is its index, an average is the rung or the side of the threshold it allows. `Adaptive`
has the report gate and composes the two as `TxCore` and the loop do. `CraftTx` is a pass of
`run_tx`: the head of the pass reads the clock, ingress and drains hand frames to the
framers, `send_raw` holds, stages or injects, the tail ticks. `PowerSeek` has the search and
the dwell, which `CraftCalib` and `UplinkCalib` drive. `CraftCalib` keeps beside the search
what the radio really has (`hw`, `pinned`) and why that may differ from what the run last
wrote (`stray`): a refused write, a write of another authority, a profile window. `VencHttp` models the encoder as an
environment that answers in order, late, with an error or never. `FrameRing` has one action
per shared access or system call; memory is sequentially consistent, which the orderings in
the code justify.

**Umbrella models.** `MCCommands`, `MCRx`, `MCCraft` and `MCGround` check several
components in one run. The components of one umbrella share no variable in the model, so
`Init` picks one (`part`) and the others rest in an initial state: every state space is
explored, none is multiplied with another, and the invariants of all are evaluated
throughout. `MCCommands`: follower, command campaign, server. `MCRx`: window, admission,
loss. `MCCraft`: selector and gate, craft calibration, uplink calibration, actuator, ladder, transmit path.
`MCGround`: repair, spatial repair, assignment, tuning, runtime, return lane, link,
recovery, probe window, bring-up, RX threads.

## 4. The runs

| Run | Shows |
|---|---|
| `commands` | the craft's CSA engine under any packet order: a campaign in progress is authenticated, bound and recorded (`CampaignBound`), arms once, keeps its appointment; the binding is not stolen, can always be released, and bounds its own deafness (`BindingBounded`). Command campaigns are applied once, report the true outcome, end in time, and time out only by the air's fault but for one round the accept limit may cost (`CommandSound`). The server runs a hook once per whole request, answers truthfully and frees its slots (`ServerSound`) |
| `csa_link` | both ends agree on the switch instant (`SwitchAgreement`); the ground moves only on an acknowledged campaign (`AckedCommit`); campaigns end in bounded time and without loss nobody is stranded (`CampaignSettles`); "committed" is true (`CommittedTogether`) |
| `csa_false_ack` *(violation)* | `AckedCommit` under the shipped timers |
| `rx` | no silent hole, bounded hold, one delivery (`WindowSound`); a stream that hears fresh packets moves, unless an old copy ends its storm (`NoStarvation`); order, clamp and resync only when earned (`MovesSound`); one server per output, incumbents hold, admission earned and granted (`AdmissionSound`); no underflow and nothing counted twice (`LossAccount`) |
| `rx_wrap` *(violation)* | `NoStarvation` across the sequence wrap |
| `selector_excused` *(violation)* | `StaleNeverClimbs` around a CSA freeze |
| `frame_ring` | the ring implements `FrameQueue` (`ImplementsFifo`); under fairness a current ring is drained again and again (`FramesConsumed`) and a replaced one is left (`OrphanAbandoned`) |
| `craft` | the encoder never outruns the radio (`BitrateFits`); lost feedback ends at the floor and locked rungs stay unused (`RungSound`); climbs need fresh feedback (`ClimbFresh`); a claim holds the report authority (`AuthorityHolds`); a rung is placed where its verify walk measured least loss, at the power and rate the radio had unless a named write moved it, and a run that is over has handed power and rate back (`CraftCalibSound`); a dwell is never credited with more than was heard (`EvidenceHonest`); the uplink power is handed back and a finished sequence of a claimed craft was earned (`CalibrationSettled`); the actuator's cache is true and flash is written only after a 404, a passing one included (`ActuatorSound`); the ladder moves on whole evidence (`MovesEarned`); packets leave in order, repair symbols fit the field, nothing stays staged, the backlog is bounded, the watchdog ends only a wedged radio (`TransmitSound`) |
| `ground` | frames in order, once, of one session (`FramesSound`); concealment fails closed (`FailsClosed`); a replaced session never takes a cache back (`NoReturn`); a committed craft is listened to, unless a restoring retune failed or the follower moved the ears (`CommittedTuned`); the newest command is never lost and whoever sees a clean exit sees the final state (`RuntimeTold`); held returns have deadlines and an epoch names one report (`LaneSound`); the selector word is the selected craft's and reports survive resets (`ReportSound`); a silent craft is asked a bounded number of times (`AskBudget`); probe evidence equals an unbounded memory's (`EvidenceExact`); one uplink, the best one, no better unit released, and a valid configuration flies (`BindSound`); frames are of the channel believed but for what was in the USB pipeline at the flush, wake the loop, a dead ear shows, teardown is quiet (`EarsSound`) |
| `calib_latch` *(violation)* | `RunYieldsFirst` when a latch is set during a run |
| `report_relatch` *(violation)* | `ReportTrue` across a re-latch |
| `quiet_gap` *(violation)* | `ListenWindowKept` when the pass waited |

A property whose name does not appear in the code's own terms is a conjunction of named
parts, defined where the parts are: for example `TransmitSound` is `WireOrder`,
`NothingStaged`, `BacklogBounded` and `WedgeEarned`; `EarsSound` is `ChannelHonest`,
`FrameWakes`, `DeathTold` and `TeardownQuiet`; `CommandSound` is `AppliedOnce`,
`OutcomeTrue`, `TimeoutJustified` and `CampaignEnds`; `CraftCalibSound` is `PlacementMeasured`
and `PowerOwned`.

### Bounds

- `commands`: two issuers, two keys, two channels and seven time units: one full campaign
  with its verify window and the start of a second under another key, so replays can
  cross a re-key. Two command campaigns of two copies and two rounds: a late echo of
  round one meets round two, and of campaign one campaign two. Three setups: moves (re-key,
  reboot, binding) with one loss; late loops and three losses past the longest campaign; and
  a second command after one that was accepted only in its second round, which finds the
  craft's accept limit closed. A receive queue holds three frames, as many as a late
  iteration of its reader lets in, so no frame is dropped there. Two clients for one slot
  and five passes: one is shed, one times out and its slot is used again.
- `csa_link`: five setups. The longest run to 19, past a `CampaignSpan` of 17 from the first
  instant, so the claim that a campaign ends is reached; two campaigns with two losses reach
  the stale acknowledgement; bad TSF reads, late loops and failing retunes have their own
  setups.
- `rx`: five setups: late copies under two profiles, a frame egress, a clock that steps back
  in a clamp storm, outages longer than the clamp, and a burst whose storm a late copy ends
  before a lull. Blocks of two packets, five to eleven packets, a clamp of one to three; a
  sequence space of 16, larger than every window, as 2^32 is; three tuples for two outputs
  and a cache of two entries, so the cap is exceeded; ten numbers and a clamp of three for
  the loss account.
- `craft`, the selector: three rungs, so that one acute demote skips a rung and a step
  does not; seven setups reaching latch, flap freeze, lockout conflict, a pin under a
  freeze and the end of the descent. `Descent` counts everything that may hold a step
  back: the hold phase or the step timer a freeze left running, a promote in flight, and
  for every rung the longer of its timer and the bitrate's lead, and the pass that
  notices.
- `frame_ring`: a producer that may restart, two ring objects of two slots, three frames of
  which one is bad, one crash of either process. The indices run past the slot count, so a
  slot is reused, and a restarted producer replaces an object the consumer still reads.
  Two producers alive at once (`Producers = {"venc", "v2"}`) satisfy the same properties
  with one slot and two frames; with more the state space is too large to keep as a run,
  and `RingIsFifo` covers any number of them.
- `craft`, the rest. The power calibration: three powers with a bracket capped below the
  last, two rungs, three loss classes, dwells of two probes with one re-elicitation, two
  runs and one interference (a latch, a reassert, a tier, a moved pin, a refused write, a
  repeated probe, the hard cap). It is explored in two slices: `calib`, the first dwells
  of two runs on an air with several frames in flight, the interference at any point
  (`Crowd` bounds run, dwell and frames together); `sweep`, one whole run over both rungs with
  one frame in flight, the interference once the last rung's verify walk has a tally.
  Two crafts, two starts and two moves of the selection in the uplink calibration, three of
  these together (`Bustle`); two knobs, three
  wants and two faults of the encoder, an invalidation not owed to a restart among them;
  four rates. The transmit path: a field of two symbols and frames of up to three, so that
  one block is wider than the field and ships its source symbols alone, as PROTOCOL.md
  (4689-4695) has it of a large IDR; three inputs and one radio fault, together at most
  `Load`; a gap of two and an override of two.
- `ground`: two sessions of the craft with blocks of two source and one repair symbol, one
  cache, one request; seven pictures; three sessions of the assigning ground; two
  channels, two crafts and four operator or retune events, any retune of all ears failing;
  two embedder threads and three events, an exception at any point of the run; two
  streams, two reports and two datagrams; counters modulo eight; bursts of three requests
  with a backoff of six periods and three latches; eight sequence numbers over a probe
  span of four; benches of three devices of two ranks, with every failure of one of them
  or of all and at most one that hides its identity, under configurations from a small
  list (descriptors in and out of order and one of them twice, an option that names a TX
  die, a channel that does not exist, devices with and without a readable bus number); two
  ears, two frames, a queue of one, two retunes.

Deadlock checking is off where a bound ends the behaviour and not the system
(`frame_ring`, `craft`, `ground`, and the violation runs on single components, where it
plays no part). In `csa_link` it is on, and there every state has a successor without
stuttering, so the case analysis of the two loops is also shown to be total. In `commands` and `rx` the parts whose clock or traffic ends may stutter, so
deadlock checking says nothing of them.

### Fairness and liveness

The loops poll, and most promises the program makes about progress are durations, so
"eventually" is stated as a real-time bound and checked as an invariant: in
`CampaignSettles`, `CommandSound`, `WindowSound`, `NoStarvation`, `AdmissionSound`,
`RungSound`, `LaneSound`. What they assume in place of fairness is that the loop runs:
time does not pass a bound the loop's own lateness allows.

`frame_ring` is different: its reader sleeps in the kernel and the promise is only that it
wakes. `FRFairness` assumes weak fairness of the reader thread's steps (the kernel
schedules a runnable thread and the futex has a timeout), of attach, replace and join, of
the poll, and of the drain; these are steps of one loop that takes each of them in turn
on every iteration. Nothing is assumed of producers or of crashes.

### Findings

1. `csa_false_ack`. The repository's README says the ground does not commit until the
   vehicle has acknowledged. The flag has no campaign identity, and with
   `min_interval_ms` no longer than the lead time, as shipped, a second campaign may start
   while the craft still verifies the first: a frame of that window acknowledges a
   campaign the craft never heard. `csa_link` shows the property once the interval
   exceeds the lead time plus the verify window.
2. `rx_wrap`. `advance_cursor` re-floors only when it increments past 0xFFFFFFFF. If that
   packet is lost, every number after the wrap is dropped as a duplicate; the drops count
   as activity, so neither the clamp storm nor the idle teardown ends it.
3. `selector_excused`. `selector.h` says stale feedback never promotes. The end of a CSA
   freeze re-dates the last report, and the cascade may climb on a report older than the
   freeze. `ClimbFresh` states what does hold.
4. `report_relatch`. A stream torn down by silence and latched again under the same key
   starts its counters at zero while the reporter keeps the old baseline; the unsigned
   difference wraps and the next report understates the loss, which a comment in
   `rx_core.h` forbids. `LossHonest` states what holds without a re-latch.
5. `quiet_gap`. PROTOCOL.md promises a window after each end of block without video. The
   window is dated by the clock read at the head of the pass, before a wait of up to 2 ms,
   so it can be over before the ground uses it.
6. `calib_latch`. PROTOCOL.md and a comment of `set_power_tier` say that a power latch set
   during a calibration waits: the run yields first. `set_power_override` does not ask: the
   latch is applied at once, the run goes on, and the rest of the dwell is sent at the
   latched power and booked at the search's. `CraftCalibSound` states what does hold.

## 5. The proofs

Every theorem holds for every value of the constants that meets the assumptions its module
names, and of its component's own specification; the runs check the same definitions on
the instances above. Each section of a proof module has the inductive invariant, one lemma
per step or group of steps, and the theorem. `PROJECT.json` lists the results. What an
invariant adds to the property it proves, and why:

**`CsaProofs`.** The follower's `FInv` is `FTypeOK`, `CampaignBound` and the two parts of
`BindingBounded` with `ReplayRecord` (every campaign that armed in this key epoch is at or
below the recorded nonce of its issuer's session; without it `ArmsOnce` does not follow
from the state) and `Appointment` (an armed craft's switch instant lies within the
announced dt of its last accept). `AppointmentKeptHolds` assumes that every dt on the air
is within `min_interval_ms`: with a longer lead the craft may accept a second campaign
before its switch instant. Of the composed link:
- `SwitchAlwaysAgreed`. `AgreementInv` dates every copy that is queued or held against the
  issuer's own instant (`CopiesDated`), bounds how long the craft leaves a copy unread
  (`LookedAtSoon`), and knows which nonces are spent (`NoncesSpent`), so a copy that arms
  the craft is of the current campaign or of one that is over.
- `CampaignAlwaysResolves`, the first part of `CampaignSettles`. `ResolveInv` gives each
  phase of either end the latest instant at which its loop runs again (`CraftTimely`,
  `IssuerTimely`).
- `CommitAlwaysAcked`. `AckInv` ties every armed flag on its way, and the craft's last
  answer, to the current nonce (`AckCurrent`, `AckTimely`). It needs `CampaignsApart`: one
  campaign, or no faults and a `min_interval_ms` longer than lead, lateness, retune, verify
  window and look delay together. The run `csa_false_ack` shows that this is needed.

- `CommitAlwaysTogether`. `TogetherInv` follows one campaign from end to end: a copy names
  the channel of its campaign (`CopiesMean`), a craft that accepted it is in it and on its
  channel once it switched (`CraftFollows`), the flag stays up until the craft is done
  (`FlagStands`), so a frame without the flag that the ground credits after its own commit
  is of a craft that is done (`VideoTold`). It holds under any loss and needs
  `CampaignsApart`, as `AckInv` does.
- `CampaignAlwaysSettles`. The second part of `CampaignSettles` is about an air that lost
  nothing, radios that obey and loops late only for their own retunes (`Smooth`). There
  `StrandInv` says that the craft looks at a copy in the iteration after it was sent
  (`CraftPrompt`, `CopiesFresh`), that a ground waiting for the answer to an accepted
  campaign has it, has it queued, or is given it before either switch instant
  (`AnswerComing`), and where the two radios are in every pair of phases
  (`RadiosTogether`). `CopyCutoff` is at least one millisecond's worth of units and not
  zero, as `csa.h` has it: with no cutoff a last copy may leave too late to be answered.

**`CommandProofs`.** `CSInv` says what the server and a client know of each other in every
phase of a connection, so that a hook has run exactly when its request was read whole, and
how long a slot may still be held (`ServerAlwaysSound`). `VInv` adds to `AppliedOnce`,
`OutcomeTrue` and `CampaignEnds` (`CommandsAlwaysTrue`, with no hypothesis) that the craft
remembers what it did with every nonce it applied (`Remembered`) and how far each round of
a campaign may run (`Paced`). The nonces of two boots of the ground do not meet: that is
an assumption on the seeds (`VcmdConstants`), which the code draws at random.
`CommandAlwaysSound` adds `TimeoutJustified`. `PaidInv` keeps the account: in every round the
echo is queued for the ground (`Informed`), or the craft is in a burst for this command and
the echoes it has sent were lost (`Answering`), or the craft would answer and every copy so
far is queued or was lost (`Listening`); so a round that ends in silence cost the air all
its copies or all its echoes. That the round *is* over at the echo timer needs the clocks:
when the last copy left, when the craft reads it and when its burst ends (`InTime`,
`CraftPaced`), that the queues drop nothing (`Room`), and what the craft remembers against
what is asked (`Meant`). The hypothesis `AckCovers` is on the constants: the ack timeout
exceeds one late iteration and the whole burst, and covers the accept limit; shipped are
1000 ms against 2 echoes 20 ms apart and a limit of 250 ms, and the run's values meet it.

**`RxProofs`.** `LossInv` adds `Split`: a missing number was never counted and nothing
counted is ahead of the highest number heard. A fill then cannot count twice, and `expected
- received` covers the missing set, so it never underflows. `AdmInv` adds `Runs`: a
candidate's count is the number of its last arrivals since its window began, and the run
before it was outlived by a window; from this follow both that a seat is earned and that
whoever sends enough is seated. Of the stream:
- `WindowAlwaysExact` needs no invariant but the window's own (`StreamInv`) and holds across
  resyncs and wraps.
- `FlowInv` adds what relates the window to the traffic: held packets are those sent
  (`Genuine`), the clocks of gaps and blocks started no later than the packets behind them
  came (`Clocks`), whatever was delivered is below the cursor or was handed over early
  (`Counted`, `LastBelow`), the highest number was delivered or is held (`Top`), when the
  next tick is due, and how the storm's stamp stands to the last packet that passed the
  clamp. From it follow `WindowAlwaysSound` and `MovesAlwaysSound`.
- `ProgressInv` says why a stream that hears fresh packets and delivers none will move: a
  packet is held that came soon enough for its gap to expire in time (`Stuck`), or the storm
  has begun, nothing can end it, and it will flush the window (`Storming`).
- Hypotheses: `NoWrap`, the stream ends before its 32-bit numbers wrap (`rx_wrap` shows that
  `NoStarvation` is false without it); `SmallSteps`, block numbers step by no more than the
  clamp, as a sender's consecutive ones do; `PastZero`, packets are sent after a possible
  backward step of the clock, so that a stamp is never 0, which the code reads as "no
  storm".

**`AdaptiveProofs`.** `BitrateFits` is not inductive: while a demote is in flight the
bitrate must be known to be the *pending* rung's, and that rung to be no higher than the
committed one (`OpInv`). It assumes that derived rates grow with the rung
(`RateMonotone`); the code does not check that of a profile table, both shipped tables
satisfy it. `ClimbFresh` follows from `FreshInv`, which ties the selector's clocks to what
happened: the report age is anchored at or before the later of the last report and the
last freeze's end, and a freeze the selector has forgotten is over. `AuthorityHolds` needs
`ClaimLatched`: while a claim is fresh the gate is latched to the claimant. `RungSound`
needs `DescentInv`, which says of *every* instant q after which nothing was heard, moved
or frozen that the next demote starts within a bound in the rungs left, whatever transition
is in flight, and `LockInv`: until the operator moves the envelope the craft is inside it
and every locked rung lies above the resolved floor, so no conflict overrides a lockout.

**`FrameRingProofs`.** `RingIsFifo` is the refinement `FRSpec => ImplementsFifo`, for every
number of slots, producers, objects and crashes. `RingInv` has who may write which object
(`Ownership`), the distance of the free-running indices (`Indices`), that the slot a
producer fills is not among those still to be read (`SlotFree`), what the consumer holds
(`Reading`) and that no frame number is in two places (`FramesNew`). Every step of either
process is then a step of the queue or leaves its contents alone.

**`CraftProofs`.** `UCInv`: while a claimed craft's run is owed the selection is that craft, and
once it was seen running neither it nor its word has reached "done" (`RunOwed`). `VEInv`:
the request of an open connection is the transaction's own, one that was given up is of a
knob nobody is sure of (`RequestOwned`), and whatever makes a write persistent goes back to
a refusal (`FlashTraced`). `FLInv`: the age of the
ladder's evidence is covered by the frames since the last break. `CCInv`: nothing of a
dwell to come is on the air, and every account of the dwell in progress, kept or on its way
back, is of probes the ground heard (`DwellCurrent`, `HeardBound`); what is placed is the
best of the readings of its verify walk (`PlacedIn`, `MeasuredIn`); and power and rate are
where the run's last step put them while it is on and handed back after it, and every
reading was taken there (`Owned`). `TXInv`: held queue, batch
and wire put one after the other are one sequence in hand-over order (`Piped`), the framers'
next numbers are ahead of all of it (`FramesAhead`, `DatagramsAhead`), and what the watchdog
counted against what was submitted (`WedgeCounts`). The loops over a block's symbols and over
the held queue are recursive functions: that a function with the loop's equation exists is
proved (`FlushesExist`, `InjectsExist`), and then that every state along it keeps the order
of the queue (`FlushHeldTakes`, `InjectAllTakes`), both from the least index that would not.

**`GroundProofs`.** `RadioInv`: a frame heard in the current flush generation, in the
pipeline, in a thread's hand or queued, is of the channel the node believes in, and a queued frame has a wake-up pending at every point of the
threads' interleaving. `RuntimeInv`: one run at a time, and what each mailbox holds in each
phase of the loop. `TuningInv`: the channel the ears rest on in each phase of sweep and
switch, as long as nothing slipped. `LaneInv`: the stamps spent so far. `LinkInv`: the reporter's baseline is the
counter at the last report. `GateInv`: the gate knows every session that was ever current;
`SessionNeverReturns` assumes no more sessions than the gate remembers and the current one,
as PROTOCOL.md does. `PEInv`: the bitmap over residues equals an unbounded memory on the
span the walk looks at. `LRInv`: the number and age of the requests sent. `RepairInv`: what
the reassembler holds is of the session it serves, every block listed as emitted is at or
below its cursor, and every request and reply on the network or outstanding is of the
session it names. The last is why a late reply of an earlier session cannot mix into a
frame. `ABInv`: what each step of `RadioAir::create` knows of the claims behind it: units
are apart, every stanza so far has its unit, and a port that a stanza without an address
pins went to a stanza that pins it (`Claims`). That a sound array is never refused is a
counting argument: the stanzas still to come are matched with spare devices by their ranks
(`RankReached`). Auto's election has a winner, it outranks every other unit, and
what the cap releases ranks below what it keeps.
`AdapterBind` assumes that a configuration names no device address twice, which `config.cpp`
refuses.

Only model-checked: liveness under fairness (`FramesConsumed`, `OrphanAbandoned`), which is
beyond the prover, as are `ENABLED` and induction over data. The umbrella modules have no
theorems: a theorem is about a component's own specification. The hypotheses of the
theorems (`CampaignsApart`, `AckCovers`, `NoWrap`, `SmallSteps`, `PastZero`, the bounds on
dt and on sessions) are met by setups of the passing runs; outside them the violation runs
show what happens for `CampaignsApart` and `NoWrap`.

## 6. What is not modelled, and known limits

- No protocol state: the wire codec and HMAC (a packet is its decoded record and the key
  that signed it), the field arithmetic of the erasure code, HEVC slice rewriting, JSCC
  estimation (the parity it enforces is an input of `CraftTx`), configuration parsing and
  statistics. Their limits appear as assumptions on constants.
- Left out of modelled components: register access and power tables of the radio dies; in
  `AdapterBind` a negative descriptor and a device reset that fails; the uplink power's
  owner from a configured power map; in `GroundTuning` the adoption of a first latch, which
  moves neither ear nor filter; the UDP development backend; the on-disk discovery and calibration stores
  beyond whether an artifact exists and whose it is; occupancy ranking of the scout; the
  craft's receive-liveness guard after a retune; the selector's pressure escape, which
  only tests call.
- Promises that do not hold of the code and that no property claims; the models behave
  as the code does:
  - when every `CSA_ARMED` frame is lost the ground aborts while the craft jumps and
    stays (`CampaignSettles` speaks of an air that lost nothing);
  - several control fields are read with `value()`, which throws on another JSON type
    past every handler (`ControlServer` stops serving);
  - a rate selected before the ladder's first tick is overwritten by that tick;
  - a ground that shares its psk with another issuer follows that issuer's campaign although
    it has a committed selection, which goes on reading committed (`CommittedTuned` excepts
    it), and the result of most restoring retunes is ignored;
  - a frame in the USB pipeline at a flush is delivered as of the new channel
    (`ChannelHonest` excepts it, as `air_radio.h` does);
  - an exception out of `run_rx` leaves the last snapshots as they were; the exit code is all
    that tells (`FinalTold`);
  - a tier command between the end of a calibration and the next pass drops the restore, and
    the power stays at the last probe's (`PowerOwned` excepts it);
  - a cache node forgets a retired session after eight newer ones, as PROTOCOL.md says
    of it: `NoReturn` is checked with fewer sessions than that;
  - a backend re-created after the auto form was trimmed is given the old descriptors.
- `TimeoutJustified` is about pairs that stay paired and bound, and spares one round of a
  command that follows another. `VcmdIssuer::start` paces starts from the last *start*, the
  craft's limit runs from its last *acceptance*; when a command is accepted only in a late
  round and its echo ends the campaign, the next may start inside the limit and have its
  whole first round refused, although the comment at `vehicle_cmd.cpp:141` says the first
  copy always clears it. The retry repairs this at the price of one ack timeout; with a
  retry cap of one the command would be reported as timed out on an air that lost nothing.
- Sequence and nonce counters start where a session can start them; the wrap is modelled
  for the stream cursor and the reporter's counters. A nonce seed close to 2^32 would make
  every later command of the session read as consumed.
- A lost end marker attributes a gap to the block before it; completing that block then
  skips the next block's first symbol. `RxStream` does this as the code does, and its
  properties hold with it.
- The selector's smoothed values are intervals, not numbers: a property that depends on how
  fast an average moves cannot be stated here.
