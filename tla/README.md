# Verification of librptadvradio

TLA+ specifications of the radio engine in `src/src`, the TLC models that
check them on small instances, and TLAPS proofs of what matters most for every
value of the constants.

The engine owns one *session*: a receive callback and a transmit callback, each
on a thread of its own and never locked against each other, plus a control
thread that prepares updates and reads events and snapshots. An entry that finds
its owner busy is refused; nothing ever waits. Everything is
counted in native 48 kHz frames, callbacks have any size up to a bound, and the
promise repeated all over the source is that *how a stream is cut into callbacks
never changes what happens at which sample*. Most of what can go wrong is of
three kinds: a callback that crosses several phases at once, a fact one thread
acts on after another has changed it, and a callback that fails half-way.

## Inventory

| Component | Source | State | Operations | What makes it correct |
|---|---|---|---|---|
| transmit signaling | `transmit_signaling.rs`, `signal_mode.rs`, `ctcss_render_state.rs`, `dcs_turnoff.rs`, `tx_finish.rs`, `tx_complete.rs`, `tx_cpu_saver.rs`, `timer.rs` | transmitter state, turn-off phase and its countdowns, CTCSS option and oscillator, receive-side mode, settle timer, two fractional-millisecond remainders, the policy | `tick` (once per playback callback), `update_config_from` | PTT falls exactly when a turn-off owes no more frames; spans tile the callback; blanking is armed once per release; inhibit silences; every turn-off ends |
| event queue | `session.rs` `EventQueue` | 64 slots, two `u64` indices, drop counter | `push` by a callback owner, `pop` by control | no slot is written while it is copied; FIFO, nothing lost or twice; drops only when full |
| session, transmit owner | `session.rs` `transmit_inner`, `calibrated_test_tone.rs` | worker, sample clock, shared `logical_ptt` and `receiver_blanking_ms` | ring, program, tick, renderers, filters, routing, events, shared words, snapshot | what is heard agrees with what was signalled; what the receiver and the control plane are told agrees with what the transmitter did |
| session, receive owner | `session.rs` `receive_inner`, `rx_cpu_saver.rs` | worker, detector, qualification, speech, delay, saver, previous edges, borrowed processors | take blanking, detect, qualify, speech, delay, filters, events, snapshot | no reception in the protected time after a release; admission only for the current burst; a sleeping receiver loses nothing |
| observation | `session.rs` `AtomicSnapshot`, `snapshot`, `pop_*_event`, `publication_due` | about thirty status words stored one by one, two queues, the next publication frame | store, load, push, pop | a reader never falls behind what it was shown; a lost edge is announced; one status per period |
| setup and updates | `session.rs` `create*`, `prepare_*update`, `apply_*_update`, `destroy*` | a session, its candidates, the handles they own, two applied flags, four busy flags | create, prepare, apply each half on its owner, destroy | each half installed at most once, never while its owner runs; a refusal or a failure changes nothing and leaves no handle behind; the parts of the live session belong together |
| receive qualification | `receive_qualification.rs` | carrier, sub-audible, keyed, two elapsed counters | `advance` | keyed only after the configured time of unbroken admission and since PTT fell |
| receive blanking | `rx_blanking.rs`, `receive_path.rs` | remaining ms, fraction | arm, advance | mutes exactly the configured time, however it is partitioned |
| voice admission | `vad.rs` | mode, burst, latch, score, last voice, rearm flag | `process`, `reset`, `inherit_burst_id` | a decision belongs to the burst it was made in |
| radio profile | `profile.rs` | immutable | `new`, `configure`, `snapshots_valid` | inconsistent source selections are refused |
| receive path | `receive_path.rs`, `receive_frontend.rs`, `receive_profiles.rs` | filters, decimator, squelch, slicer, VOX hold, delay, decoders, workspaces | `process_with_carrier`, `update_controls_from` | what is detected does not depend on where callbacks end; every index into a workspace is inside it |
| numeric primitives | `fir.rs`, `delay_line.rs`, `center_slicer.rs`, `deemphasis_integrator.rs`, `envelope_meter.rs`, `audio_meter.rs` | histories, extrema, accumulators | filter, slice, delay, measure | values fit the words they are narrowed to |
| provider clients | `ctcss_client.rs`, `dcs_client.rs`, `squelch_client.rs`, `samplerate_client.rs` | handles | check a descriptor, open, configure, process, drop | nothing is opened from a table that lacks an operation; what was opened is dropped once |
| C descriptor | `lib.rs` | none | constant table | - |

How they interact: the adapter calls the two callbacks; the transmit owner ticks
the signaling and publishes `receiver_blanking_ms` and then `logical_ptt`; the
receive owner takes the first at the start of its callback and reads the second
later; each owner pushes to a queue of its own, which control pops; an update is
prepared by control and applied by each owner between its callbacks. The list of
hazards, each at its line, is in `PROJECT.json`.

## Modules

Transmit side:

* `Timer` - `timer.rs`: milliseconds, the fraction carried between callbacks.
  Everything that counts time extends it.
* `TransmitSignaling` - the native tick, one callback per step. Actions are the
  branches of `prepare_transmitter` (`IdleTick`, `KeyTick`, `TalkTick`,
  `ReleaseTick`, `RekeyDcsTick`, `RekeyCtcssTick`, `TurnoffTick`), the held
  callback, the rejected one and `UpdateConfig`. Each runs the whole tick:
  `Listen` (receive time and `signal_mode`), the branch, `RenderTimeline` (the
  loop of `advance_render_timeline` unrolled to the five iterations it can need)
  and `Settle`. `st` is the retained `State`, `out` the returned `Output`.
* `PttLifecycle` - what that machine promises the radio: PTT rises on request
  and, once the request ends, stays up for exactly the frames owed. The one
  thing an update may change of a debt is the drain an unfinished tail is to end
  with (`Reconsider`).
  `TransmitSignaling!ImplementsLifecycle` maps phases and countdowns to it.
* `TransmitOutput` - the callback around that tick: `RefuseForced`
  (`transmit_profiled`), `FailEarly` (ring or program processor), `FailLate`
  (renderer or filter, after the tick), `Deliver` and `Update`. `line` is what
  the callback delivers: for each output and span the set of signals in it, and
  the actions a profiled session returns. The tone oscillator is heard as
  "no frequency" where it is enabled without one.

Receive side:

* `ReceiveQualification` - `receive_qualification.rs`: indications, the release
  guard and the receive-on delay, as operators on the state record.
* `SpeechAdmission` - `vad.rs`: which speech decision belongs to which burst.
  What the classifier reports for a span is an input; source positions are kept
  as ages relative to the end of the span, because only differences are used.
* `Reception` - `receive_inner`, one callback per step, and
  `apply_receive_update`. `Callback` takes and advances the blanking, qualifies,
  goes through the plain or the speech path and the filters, each of which may
  fail (`Fail`), and publishes (`Publish`) or not (`Withhold`). `rx` is the
  `ReceiveWorker`, `out` the `ReceiveResult`, `past` is history that only
  properties read. A PCM sample is the burst it was captured in.
* `SampleCountdown` - what the blanking promises: a countdown of frames.
* `ReceiveStages` - one step of each fixed-point stage: frontend with its
  history of 16-bit entries moved by bytes, FIR, de-emphasis, envelope, centre
  slicer, delay line, VOX timer. Every word has the width a constant gives it
  and wraps, rails or is narrowed where the code does.
* `ReceivePath` - `process_with_carrier` over spans of any length, the CPU
  saver's flag and the receive update of a detector. `twin` is a second receiver
  fed frame by frame; it exists so that partition independence can be said.
* `ReceiveChain` - the processors the adapter lends, around that path: `Warm`,
  the order of calls in a callback, bypass under the saver, failures, and their
  replacement by an update.

Both together:

* `Session` - every entry of the session called from any number of threads and
  cut at each access to memory that two of them share: the busy flags, `warmed`,
  the flags of one prepared update, `logical_ptt` and `receiver_blanking_ms`.
  What an owner does under its guard is what it promises: the transmit tick is
  `PttLifecycle`, the receive timer `SampleCountdown`, both proved of the modules that
  have them. A drain exchanged by an update changes the debt by nothing or by one
  frame less there, so that the instance stays finite.
* `EventQueue` - `push` and `pop` cut at every access another thread can come
  between. An acquire load of the other side's index may return any value from
  the last one seen to the current one.
* `CreditChannel` - what the queue promises: a FIFO with credits, in which the
  staleness of an index is a credit not yet heard of or an event not yet seen.
* `Observation` - one owner and the control thread. A location is the sequence of
  its stores; a load takes any store not older than what the reader knows, and an
  acquire load of a release store brings what the owner had stored by then. The
  status is three locations, one for each combination of orderings its words
  use; `side` chooses the owner, because the two differ in how a failure leaves
  their edges.

Setup and updates:

* `SessionConfig` - validation: `receive_config`, `transmit_config`, the checks
  of `create`, `profile.rs`, `effective_vad_mode` and the delay, as operators on
  a configuration record.
* `Providers` - the four linked libraries: descriptor checks, and the handle each
  client opens, hands on or drops.
* `SessionUpdates` - the life of a session. `Create` and `Prepare` begin a setup
  whose steps (`OpenCtcssReceive` ... `OpenCtcssTransmit`) are actions of their
  own because each may fail; `Abandon` is every early return. `ApplyReceive`
  and `ApplyTransmit` swap parts with a candidate and so the handles they own.

`MCTransmitSignaling`, `MCTransmitOutput`, `MCReception`, `MCReceiveChain`,
`MCSession`, `MCSessionUpdates` and `MCEventQueue` are the instances TLC checks
(`Observation` needs none); the modules named `...Proofs` hold the theorems.
Operators whose comment begins with "Mutant" are wrong on purpose: each is a
plausible slip in the code, and the property it is paired with in `PROJECT.json`
catches it.

Left out of `TransmitSignaling`: the millisecond mirrors kept for reporting
(`tx_hang`, `finish_remaining`, `buffer_clear`),
which no branch reads; the value of a phase shift or tail tone (only its presence
matters); PCM. The renderer's own countdown (`turnoffMs`) is read by no branch
either, but it is kept: `RenderTimeline::append` joins spans only where the whole
renderer state is equal, so an inhibited callback that crosses from the tail into
the gap needs two spans because of it. A frequency is a member of a small set, 0 meaning none. The
primitives are modelled through the entry points the tick calls; their `extern`
twins repeat them behind argument checks and are compiled for tests only.

Left out of `Reception`: the sample clock (a failed callback does not advance
it, which `ahead` records), meters, the snapshot, the decoder edges, and what
`ReceivePath` and `ReceiveChain` have. The per-sample noise gate is represented
by the carrier gate of the same callback.

Left out of `Session`: what `Observation` has; the program ring; a second
prepared update; destruction, which the header leaves to the caller to order.
Accesses interleave in one order: blanking is stored before PTT with release, the
receiver reads PTT with acquire, so seeing PTT down implies that the blanking is
there.

## Runs

| Run | Shows |
|---|---|
| `TransmitTails` | Seven policies (every turn-off, an empty dwell, DCS, external encoder), every update between them, callbacks of 3 and 21 frames: turn-off bookkeeping agrees, spans tile the callback, blanking is armed exactly at the release, the only failing callback is a DCS rekey after an update removed the tail, every callback is a step of `PttLifecycle`; a final drain ends whatever is requested, and PTT falls when requests stop |
| `TransmitTones` | Forced and decoded tones, DCS presence, inhibit, providers failing on either side of the tick, updates between a policy with tones, one with DCS and, in a profile of its own, an external encoder; one output takes everything, one tones only: nothing an inhibited callback delivers has a tone, CTCSS and DCS are never together, a keyed callback has its tone in every span |
| `EventQueue` | Both threads, one memory access at a time, indices as old as acquire loads allow, every wrap |
| `ReceiveKeying` | Four policies of delays and sources, every update between them, callbacks of 1 and 3 frames, every level, PTT and blanking arm, failing filters: the receiver is keyed in the callback in which both delays are over; blanking mutes exactly its frames; the edges rebuild the published state although failed callbacks publish nothing |
| `ReceiveSpeech` | Seven policies of speech admission and delay, every update between them, every report, failing rearm, de-emphasis, analysis and filter: only fresh speech of the burst admits it, the delay emits one burst only, the kerchunk latch holds, burst identities are not reused |
| `ReceivePath` | Seven detectors (noise, VOX, wired carrier; CTCSS, DCS or neither; with and without a delay and the saver), all updates between them, two sets of processors, spans of one and three frames that are loud, soft, mixed, empty, too long or refused: the stream is that of a receiver called frame by frame, emitted samples have offsets, words hold their values, sleeping loses nothing |
| `Session` | Two threads and any entries at the grain of shared accesses: one user per worker, no cold callback, each half installed once, the first reception after a published release is muted, a guard that is set has a call inside it and every guard taken is given back |
| `SessionUpdates` | Seven acceptable offers, one for each way to be refused, pairs for two profiles, seven sets of libraries, a failure at every step, any order of halves, two uses of one candidate: one owner per handle, the live session keeps to its profile, its receiver to its policy, a failed call changes nothing |
| `Observation` | Either owner, three callbacks, a queue of one event, every staleness the orderings allow: snapshots do not go back behind one another, agree with the events, and a lost edge is announced; a status is due once per period |
| `AudibleTail`, `BlankingUpdate`, `BlankingRace` | Places where the code does not do what a comment or the header says (below) |

Bounds. A millisecond is two frames and an interval two milliseconds, so a
callback of three frames always leaves a fraction and cuts phases inside; tails,
gap and drain together are at most 20 frames, so 21 frames cross all of them and
idle as well; the constants appear only through sums, minima and rounding, and
the proofs cover every other value. Both remainders take every value. The queue
has three slots, so that producer and consumer can be a full lap apart with a
slot between them, and indices that wrap after six events, the smallest multiple
of the capacity that tells a lap from a wrap.

In `Reception` an interval of qualification is two frames and a delay at most
two intervals, so a delay spans several callbacks and a callback spans a delay;
a hang of three frames and reports up to two frames late put the end of a hang
before, inside and after a span; three or four burst numbers wrap in a few
bursts; delays of one to three frames are shorter and longer than a callback.
Counters of the history stop at the longest delay, beyond which nothing depends
on them. In `Session` two threads are enough for every race of two entries, as
each thread may make any call at any time; the safety properties are proved for
any number of them. Callbacks of one and two frames, a tail of none or two and a
blanking of two let each of them end inside and outside a callback.

In `ReceivePath` a code has sixteen values, a byte four, filters one, two or
four entries, a baseband sample takes two frames and the gate is looked at every
two: a callback of three frames leaves decimator, gate and RSSI window in the
middle, cuts a history entry in half (one entry, odd length) and fills every
workspace. Loud samples drive every rail. The external detectors decode after two
loud samples. Updates change every field an update can move in place and every
field that forces the swap. `GateInterval`, `WordHalf` and the scaling units are
the constants of the code made small; the history is byte-wise exact, a code is
not (16 values of 65536).

In `SessionUpdates` one candidate is prepared at a time (`MaxUpdates`) and can be
applied, displaced into, kept and applied in its other half later; handles have
three identities per library, one for each of session, candidate and setup. In
`Observation` three callbacks give each location up to four stores, and a
queue of one is full as soon as the reader lags; periods are of two frames,
callbacks of one and three.

Fairness. The liveness properties of `TransmitTails` assume that, while PTT is
up, admitted callbacks keep coming and get through: the audio device calls the
playback callback as long as the stream runs, and the adapter admits it while it
renders. With a provider that fails for ever before the tick (`FailEarly`)
signaling time stands still and PTT stays up: that is the code's design, and the
assumption excludes it. Nothing is assumed of requests or decodes. `Session`
assumes that a call that has begun goes on: no entry waits for another
(`enter` refuses at once), so this is the scheduler's fairness to each thread.
No entry is assumed to be called.

## Disagreements with comments

* "A later receive-side selection cannot overwrite an audible tail"
  (`transmit_signaling.rs:420`). The guard protects the option, not the
  frequency, with which every span of a phase-shift tail is rendered. (A tail tone
  replaces the frequency in `render_ctcss` and is not affected.)
* The receiver is blanked after PTT (`rptadvradio.h:213`), with two gaps. An
  update that changes a tone or filter setting swaps the detector and drops the
  blanking in it (`session.rs:841`). A receive callback that swapped the blanking
  word before a release was published may still load PTT after it
  (`session.rs:1892`) and qualify that one span unblanked; the next callback is
  blanked, which `BlankedAfterRelease` shows.

Not stated as disagreements, because nothing in the repository speaks of them
plainly, but visible in the models:

* a forced tone is read at the PTT edge only, so a later decode that maps to
  another tone retunes the transmission;
* a START queued under a policy without a tone (a receive-only mapping, tone 0)
  enables the oscillator with frequency 0, and an update in mid-transmission to
  a policy with tones keeps it so until PTT falls;
* an update in mid-transmission from CTCSS to DCS leaves the tone on under the
  code (`OneSignal` is claimed for policies in force since PTT rose);
* a transmit filter that fails in the releasing callback, after the tick,
  swallows blanking and PTT event (`session.rs:2551`); the failure itself is
  announced, which `LossIsAnnounced` is about (the counters do not count each
  loss: after the first one seen, the property holds for good);
* `warm` tests `warmed` before it takes the guards and not again
  (`session.rs:1542`), so the second of two concurrent calls can run every
  processor after callbacks have begun, though never beside one;
* the detector's voice stages freeze under the saver while its delay line goes on
  reading their workspace, so what the delay holds after sleep depends on the
  callbacks (`BoundariesDoNotMatter` excludes the workspace; a session builds
  its detectors without that delay);
* where the carrier is noise or VOX, the CTCSS decoder is told one carrier, that
  of the last frame, for a whole callback (`receive_path.rs:620`), so what it
  decodes does depend on where callbacks end; `BoundariesDoNotMatter` compares
  the tone only where the carrier is wired.

## Proofs

Checked by TLAPS for all values of the constants that satisfy the assumptions
named in the modules. `TransmitAssumption`: timing constants are naturals, frames
per millisecond and interval positive, policies valid as `validate_config` and
`transmit_config` leave them. `OutputAssumption`: routes are those of `rptadv.h`.
`SessionAssumption`: positive frame counts and blanking. `ReceptionAssumption`:
positive frames per millisecond and interval, valid policies and inputs, and more
than two burst numbers (they are 64-bit; 0 is skipped, so of two only one would
be left for every burst). `UpdatesAssumption`: offers are the records a caller can
write. `NothingAssumption`: the value that stands for no setup and no session is
not itself a setup or a session. `ObservationAssumption`: finitely many
indications, none of them the name of a failure. `QueueAssumption`: the capacity
divides the index modulus, as 64 divides 2^64. `StagesAssumption`: positive widths
and divisors, and a code of two bytes. `PathAssumption`: detectors are what
`ReceivePath::new` accepts, with a set point below half the codes (4900) and
positive divisors and windows, and what an update leaves of a detector in place is
one of them (`receive_config` chooses a detector's tables by what identifies it).
`ChainAssumption`: ports offer `warm`, `process` and `bypass`.

`TransmitProofs`, the tick. The invariant is `TypeOK /\ TurnoffCoherent`. A step
is proved in the order the code runs: `Listen` and the branch establish a
*settled* state (coherent, possibly with an empty phase); every iteration of the
loop preserves that and either consumes the callback or moves to a phase of
lower rank; five iterations therefore leave frames in no phase that could hold
them, and `Conclude` and `Settle` restore the invariant. Release and arm are
tracked through the same lemmas, which gives `SpecArmedExactlyAtRelease`. For the
other three theorems each iteration keeps an account, `Spends`: the frames in the
spans so far and those left make up the callback, there is room for the spans
this phase and those after it can still add (`Room`, which never counts on spans being joined), and the frames of PTT spent
since the callback began and those still owed make up the debt it began with. The
room bounds the spans, so `SpecSpansTileTick` and `SpecOnlyDcsRekeyFails` follow for every policy;
the debt makes the callback a step of `PttLifecycle`
(`SpecImplementsLifecycle`), whose `Reconsider` is all an update does to it.
`SpanFrames` sums a sequence by a recursive function; as there are at most four
spans it is unfolded (`SpanFramesIs`).

`TransmitProofs`, what is heard. `OutInv` adds to that invariant what tones must agree on
between callbacks (`TonesAgree`): no turn-off is ever queued, no disable while
PTT is up, a policy in force since PTT rose has no CTCSS frequency if it is a DCS
policy, and a frequency wherever the oscillator is on, or a rekey would turn it
on, if it has a tone for every decode. The tone properties are not inductive
without it: what a span carries was queued by an earlier callback. Each turn-off
phase, the completion and the settle can only make a state quieter (`Fades`),
and every span of the timeline is an intent of a state that agrees (`Hears`).
`KeyedIsHeard` follows the one span of a callback that stays keyed from
reselection to both outputs.

`ReceptionProofs`, the blanking. `BlankingCounts` shows that milliseconds and remainder
implement the countdown of frames. Its heart is `SpanArithmetic`, the division
that `elapsed_ms` and the muted prefix must agree on; around it, one lemma per
step of the callback says that whatever it does, also when it fails, it leaves
the timer alone.

`ReceptionProofs`, the rest. One inductive invariant, `Safe`, carries the other seven
properties of `Reception`; each is too weak alone. `LatchHolds` is about callbacks that
succeed one after the other, not about a failure or an update between them.
`FreshSpeech` looks at what
the analysis knows now, but an analysis that failed knows anything until it is
reset: `Heard` and `Witnessed` hold only where no reset is due, and a callback
that admits has done it. `DelayHoldsOneBurst` speaks of samples that came out;
`Owned` says which of those still in the ring belong to the burst, by age, not by
place: `Shift` turns the ring and the newest `valid` samples stay the burst's.
`KeyedExactly` needs both sides of the delay counters (`Counted`): never ahead of
the time the signal has been there, and not behind the time since the last
update, so that the side of it which says the receiver must key starts counting
again at an update. Numbers wrap, and two bursts in a row differ because a reset takes the
next number (`Numbered`). `TypeCorrect` proves the types, so no run repeats them.

`LeftFold` and `ReceiveChainProofs`. What a callback does in `ReceivePath` is a
dozen folds over its samples. `LeftFold` takes a step as a constant operator and
shows, once for all of them, that a fold takes it from left to right: the partial
results exist (`PartialExists`), and they are a trajectory of steps (`FoldSteps`)
that determines the result (`FoldSame`, `FoldAppend`). The one fact that needs a
library, that naturals are well-founded, is the hypothesis `Least` of its lemmas;
`LeastIs` proves it for every instance, and `LeftFold` extends little because
twelve instances repeat all that it extends. What every step keeps then holds of
the fold (`Upwards`). `ReceiverOK` says of both receivers that each stage fits the
detector (`PathOK`). Its account of a span, `SpanOK`, runs the frontend and the
decimator of `record_emission_offsets` side by side, and keeps between them that
`l` samples emitted by sample `k` leave `l * decimate + 1 - decimator <= k`, which
bounds the workspace also after an update of the decimation in mid-stream.
`CenterOK` keeps the slicer's extrema half the codes apart, where no narrowing
changes anything. `ChainOK` adds the processors.

`ReceiveChainProofs`, the partition. `PartitionDoesNotMatter` is the promise of the
receive path: `BoundariesDoNotMatter`, for every detector, sample, callback
length and update. Excluded are the CTCSS decode under a noise or VOX carrier,
the workspace of the voice stages, and what a closed delay gate delivers, which
is zeros or workspace and no sample of the delay. Its invariant is `Together`, which adds `ReceiverOK` because a
stage splits only where its state fits the detector. The heart is `ProcessSplits`:
to process a span and then one more frame leaves the stream and gives the
deliveries that both together do. It follows stage by stage (`...Splits`), as a
fold over one more sample is one more step (`FoldAppend`), and the stages that
count from the start of the callback have to be shown to count the same from its
last frame:

* the frontend emits nothing more or one sample, at the offset of the new frame;
  if nothing, no later stage runs (`Emitted`, `Grows`);
* the VOX hold spends the frames up to the last emission and the rest at the end
  of the span; alone, the frame spends the one that is left (`HoldSplits`);
* the delay is cut where the noise gate is looked at, every `GateInterval` frames
  counted across callbacks. A boundary on the new frame exists in both or in
  neither (`BoundariesSplit`), a segment up to a boundary has the samples emitted
  by then, and a line muted in between is cleared once
  (`GatedSplits`, `DelaySplits`).

`NothingProcessed` is the other end, a span without frames, and `FramesAgree` the
induction from there along the frames. It is why the tone is compared only where
its carrier is wired: the decoder is told one carrier for a callback, that of its
last frame, unless the caller names it (`ToneSplits`). The workspace of the voice
stages is written over by every callback and not compared.

`SessionProofs`. The inductive invariant of the guards is `Held /\ Exclusive`: a
flag is set while any thread is at a location that owns it, and no two threads
are; exclusion alone is not inductive, because a thread is let in by the flag and
not by where the others are. `ReleaseBlanked` adds `ReleaseInv`, what a release
has left behind on its way to the receiver: the tick's arm until it is stored,
and from then on a blanking word that only a receive callback takes back.
`HalvesInstalledOnce` rests on exclusion too: a caller about to install has seen
the half not applied and is alone until it has. One lemma per kind of move covers
the entries that differ only in locations.
`NoGuardIsLeft` is the other direction of `Held`: a guard that is set has a call
inside it (`GuardsHaveOwners`), on the paths that return early too. It is the safety
half of `GuardsReleased`; that such a call goes on is the fairness.

`SessionUpdatesProofs`. The invariant follows a policy from the offer to the live
session: `SetupInv` says that a setup's policy follows its profile, and that its
two transmit tones exclude each other once the policy has been checked;
`LiveInv` that the parts of the session are those of its policies; `UpdatesInv`
that a candidate still has that receiver until its receive half is applied. After
that the candidate holds displaced parts that no longer belong together, which is
why an applied half must not be applied again. `ReceiveInstalled` is the heart:
an update that keeps the detector and changes its controls gives the same
detector as swapping it. `HandlesHaveOneOwner` needs, for a setup in progress,
which clients it still has to open (`Coming`): what it holds and what is coming
are what a session has in the end, so a failure at any step drops exactly what
was opened; `OwnerInv` keeps the handles of session, candidates and setup apart
one by one, and a swap of halves moves whole clients.

`EventQueueProofs`. `IndicesOrdered` is not inductive alone for the race and the
contents: the invariant adds what each side holds (`Contents`: the slot written
but not published, the slot copied but not released). From it follow
`SpecNoSlotRace` (two indices less than a capacity apart name different slots,
also across the wrap, because the capacity divides the modulus) and
`SpecImplementsChannel`, one step lemma per action.

`ObservationProofs`. Stores carry the publication they belong to and the views
they teach. `StoresInv` says what a load can bring: an event teaches the
publications before its own (`EventsTeach`), the flag stored last teaches
everything up to its publication (`FlagsTeach`); `ReaderInv` turns that into what
the reader can no longer miss. From these follow `SnapshotsNeverGoBack` and
`EventsMeetSnapshots`. `LossesAreAnnounced` needs `EdgesInv`: for every earlier
publication the last event of each indication says what was published, unless a
drop or a transmitter's failure was stored by then. That the edges of a callback
are listed once each is the only fact about `SetToSeq` used (`Listed`).

Model-checked only: the three liveness properties (`DrainReleases`,
`UnkeyedReleases`, `GuardsReleased`), which speak of fairness and so of ENABLED,
out of the prover's reach. What they rest on short of fairness is proved:
`SpecImplementsLifecycle`, by which PTT stays up for exactly the frames owed and
each callback spends its own, and `NoGuardIsLeft`. Every invariant and every action property of
a passing run has a theorem; the three runs that expect a violation have
counterexamples instead.

## Not modelled

* PCM values outside the fixed-point stages of `ReceiveStages`: renderers,
  mixers, FIR coefficients. Which signal is in which span is modelled.
* What the linked libraries compute: tone, DCS and squelch detection, resampling
  and the neural classifier. Their results are inputs, their failures actions.
* Meters, measurement envelopes and the trace of the slicer: written per frame,
  read for display, in no condition of the code.
* `receive_profiled`'s normalisation of the status words a profile does not use,
  and the table of entry points in `lib.rs`.
* The program ring and the order of destruction against callbacks, which the
  header leaves to the caller.
* The `extern` entry points of the primitives, which repeat the functions the
  engine calls behind argument checks and are compiled for tests only.
* A DCS decoder or squelch that fails in the middle of a stream: `receive_inner`
  expects `process_with_carrier` to succeed (`session.rs:1884`), so the callback
  panics and there is no later state to speak of.

What would add most from here: a second prepared update in `Session`; the readers of both owners at once in `Observation`.
