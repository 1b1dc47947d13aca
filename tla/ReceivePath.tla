----------------------------- MODULE ReceivePath -----------------------------
(***************************************************************************)
(* The receive path of a session: callbacks of any length run one stream   *)
(* of native samples through the frontend, the detectors and the voice     *)
(* stages, and the receive CPU saver puts the voice stages to sleep.       *)
(*                                                                         *)
(* `twin' is a second receiver that is given the same samples one frame at *)
(* a time.  Whatever the callbacks are cut into, the two have to agree.    *)
(* Samples arrive here after post-transmit blanking, which Reception has.  *)
(***************************************************************************)
EXTENDS ReceiveStages

CONSTANTS
  Configs,       \* the detectors a session and its updates may be built with
  Inputs,        \* the inputs callbacks may carry
  MaxFrames,     \* maximum_native_frames
  GateInterval,  \* LEGACY_DELAY_GATE_FRAMES, 960
  ToneRun,       \* external: loud samples it takes to decode
  ToneLevel      \* external: the code from which a sample is loud

\* What a detector is built from.  A stage that is left out has no coefficients, or
\* no storage; the two FIRs of the frontend are among its scalars.  Divisors are
\* those of receive_profiles, set point and decay are 4900 and 5.
FilterConfig == [taps : Seq(Int), inputGain : Int, outputGain : Int, adjust : Nat \ {0}]
CenterSlicerConfig == [limit : Nat, setpoint : 0 .. Half - 1, decay : Nat]
DeemphasisConfig == [coefficient : Int, feedback : Int, gain : Int]
DelayConfig == [capacity : Nat, lead : Nat]
VoxConfig == [decay : Int, threshold : Codes, hang : Nat]
Config ==
  [baseTaps : Seq(Int), baseAdjust : Nat \ {0}, baseGain : Int, noiseTaps : Seq(Int),
   noiseDivisor : Nat \ {0}, decimate : Nat \ {0}, window : Nat \ {0},
   openLevel : Nat, hysteresis : Nat,
   lsd : FilterConfig, hpf : FilterConfig, slicer : CenterSlicerConfig,
   deemphasis : DeemphasisConfig, delay : DelayConfig, vox : VoxConfig,
   ctcss : BOOLEAN, dcs : BOOLEAN, carrier : {"noise", "vox", "wired"}, saver : BOOLEAN]

HasVoice(c) == c.hpf.taps # <<>>
HasDelay(c) == c.delay.capacity # 0

\* What ReceivePath::new accepts; and a session that has the saver builds no voice
\* stages (receive_config).
Accepted(c) ==
  /\ c.baseTaps # <<>> /\ c.lsd.taps # <<>>
  /\ c.carrier = "noise" => Len(c.noiseTaps) \in 1 .. Len(c.baseTaps)
  /\ HasDelay(c) => HasVoice(c) /\ c.delay.lead <= c.delay.capacity
  /\ c.saver => ~HasVoice(c)

\* A callback: its samples, whether the session finds them fit, the carrier it is
\* told where its source is wired, and its PTT.
Input == [samples : Seq(Int), fit : BOOLEAN, external : {"none", "present", "absent"},
          ptt : BOOLEAN]

\* A receive update: an equal detector keeps its stream and takes the new
\* controls, another one starts from nothing.
Identity == {"carrier", "noiseTaps", "ctcss", "dcs"}
SameDetector(c, d) == \A f \in Identity : c[f] = d[f]
\* update_controls_from, and the saver's switch; no coefficients, no storage.
Controls == {"baseAdjust", "baseGain", "noiseDivisor", "decimate", "window", "openLevel",
             "hysteresis", "slicer", "vox", "saver"}
UpdateControls(old, new) ==
  [f \in DOMAIN old |->
     IF f \in Controls THEN new[f]
     ELSE IF f = "lsd" THEN [new.lsd EXCEPT !.taps = old.lsd.taps] ELSE old[f]]

\* What an update leaves alone, a session derives from what identifies the
\* detector: the tables of receive_profiles are chosen by its noise filter and its
\* tones, and there are no voice stages.
ASSUME PathAssumption ==
  /\ MaxFrames \in Nat \ {0} /\ GateInterval \in Nat \ {0} /\ ToneRun \in Nat \ {0}
  /\ Inputs \subseteq Input /\ Configs \subseteq Config /\ \A c \in Configs : Accepted(c)
  /\ \A c, d \in Configs : SameDetector(c, d) => UpdateControls(c, d) \in Configs

VARIABLES
  cfg,   \* the configuration of the receiver
  path,  \* the stream state of the receiver
  twin,  \* that of the receiver called frame by frame
  last   \* the last callback: its answer, its length, the offsets of what it
         \* emitted, and the deliveries in which the two receivers differed

vars == <<cfg, path, twin, last>>

\* ReceivePath::new.
BasebandCapacity(c) == (MaxFrames + 2 * c.decimate - 2) \div c.decimate
Zeros(n) == [i \in 1 .. n |-> 0]
Still == [maximum |-> 0, minimum |-> 0, peak |-> 0, upper |-> 0, lower |-> 0]
NewPath(c) ==
  [front |-> [history |-> Zeros(2 * Len(c.baseTaps)), decimator |-> c.decimate, closed |-> TRUE,
              power |-> 0, samples |-> 0, rssi |-> 0],
   vox |-> [hold |-> 0, last |-> 0], envelope |-> Still,
   lsd |-> Zeros(Len(c.lsd.taps)), center |-> [maximum |-> 0, minimum |-> 0, peak |-> 0],
   hpf |-> Zeros(Len(c.hpf.taps)), deemphasis |-> 0, voice |-> Zeros(BasebandCapacity(c)),
   delay |-> DelayCleared(c.delay), remainder |-> 0, outzero |-> FALSE,
   ctcss |-> [run |-> 0, decoded |-> FALSE], dcs |-> 0,
   active |-> TRUE, halted |-> FALSE]
Silent == [base |-> <<>>, offsets |-> <<>>, gates |-> <<>>,
           limited |-> <<>>, voice |-> <<>>, delayed |-> <<>>, carrier |-> FALSE]

Nothing == [status |-> "none", frames |-> 0, emitted |-> 0, offsets |-> <<>>, differ |-> {}]
----------------------------------------------------------------------------
(* The stages over a span: folds of a step over its samples *)

\* Native samples: the baseband they give and the squelch after each.
FrontendStep(c, a, x) ==
  LET front == FrontendSample(c, a.front, x)
  IN  [front |-> front,
       base  |-> IF Emits(a.front) THEN Append(a.base, BasebandSample(c, front.history))
                 ELSE a.base,
       gates |-> Append(a.gates, c.carrier = "noise" /\ ~front.closed)]
Frontend(c, front, xs) ==
  FoldLeft(LAMBDA a, x : FrontendStep(c, a, x),
           [front |-> front, base |-> <<>>, gates |-> <<>>], xs)

\* Mutant: the decimator is looked at after it has moved.
OffsetAfter(decimate, a, k) ==
  LET moved == IF a.decimator <= 1 THEN decimate ELSE a.decimator - 1
  IN  [decimator |-> moved, offsets |-> IF moved <= 1 THEN Append(a.offsets, k) ELSE a.offsets]
\* record_emission_offsets: the frontend's decimator, run a second time.
OffsetStep(decimate, a, k) ==
  IF a.decimator <= 1 THEN [decimator |-> decimate, offsets |-> Append(a.offsets, k)]
  ELSE [decimator |-> a.decimator - 1, offsets |-> a.offsets]
EmissionOffsets(decimate, decimator, n) ==
  FoldLeft(LAMBDA a, k : OffsetStep(decimate, a, k),
           [decimator |-> decimator, offsets |-> <<>>], [k \in 1 .. n |-> k]).offsets

\* A FIR, the integrator and the slicer: the state after a sample, and what came out.
FilterStep(f, a, x) ==
  LET history == FirHistory(f, a.s, x)
  IN  [s |-> history, xs |-> Append(a.xs, FirSample(f, history))]
Filtered(f, history, xs) ==
  FoldLeft(LAMBDA a, x : FilterStep(f, a, x), [s |-> history, xs |-> <<>>], xs)
SmoothStep(d, a, x) ==
  LET accumulator == DeemphasisAccumulator(d, a.s, x)
  IN  [s |-> accumulator, xs |-> Append(a.xs, DeemphasisSample(d, accumulator))]
Smoothed(d, accumulator, xs) ==
  FoldLeft(LAMBDA a, x : SmoothStep(d, a, x), [s |-> accumulator, xs |-> <<>>], xs)
SliceStep(c, a, x) ==
  LET center == SliceState(c, a.s, x)
  IN  [s |-> center, xs |-> Append(a.xs, Limited(c, center, x))]
Sliced(c, center, xs) ==
  FoldLeft(LAMBDA a, x : SliceStep(c, a, x), [s |-> center, xs |-> <<>>], xs)

\* The low-speed path of process_baseband: filter, slice, and narrow the extrema
\* when the span ends.
Narrowed(filtered, sliced) ==
  [lsd |-> filtered.s, center |-> SliceNarrowed(sliced.s), limited |-> sliced.xs]
LowSpeed(c, p, base) ==
  IF c.ctcss /\ base # <<>>
  THEN LET filtered == Filtered(c.lsd, p.lsd, base)
       IN  Narrowed(filtered, Sliced(c.slicer, p.center, filtered.xs))
  ELSE [lsd |-> p.lsd, center |-> p.center, limited |-> <<>>]

\* The voice stages of process_baseband.  While the saver has frozen them, what
\* the workspace holds of an earlier span is delivered.
Overwrite(buffer, xs) == xs \o SubSeq(buffer, Len(xs) + 1, Len(buffer))
Voice(c, p, base) ==
  IF HasVoice(c) /\ p.active
  THEN LET filtered == Filtered(c.hpf, p.hpf, base)
           smooth == Smoothed(c.deemphasis, p.deemphasis, filtered.xs)
       IN  [hpf |-> filtered.s, deemphasis |-> smooth.s, voice |-> Overwrite(p.voice, smooth.xs),
            samples |-> smooth.xs]
  ELSE [hpf |-> p.hpf, deemphasis |-> p.deemphasis, voice |-> p.voice,
        samples |-> IF HasVoice(c) THEN SubSeq(p.voice, 1, Len(base)) ELSE <<>>]

\* process_delay_segment: samples start + 1 .. end of the span.  A closed gate
\* clears what is dirty; what it delivers, zeros or what the workspace holds, is no
\* sample of the delay.
DelayStep(d, a, x) ==
  LET stored == DelayedSample(d, a.line, x)
  IN  [line |-> stored.d, outzero |-> a.outzero, xs |-> Append(a.xs, <<stored.x>>)]
DelaySegment(d, a, voice, start, end) ==
  IF start = end THEN a
  ELSE IF a.outzero
  THEN [line |-> IF a.line.dirty THEN DelayCleared(d) ELSE a.line, outzero |-> a.outzero,
        xs |-> a.xs \o [i \in 1 .. end - start |-> <<>>]]
  ELSE FoldLeft(LAMBDA b, x : DelayStep(d, b, x), a, SubSeq(voice, start + 1, end))

\* partition_point: how many samples were emitted up to a boundary.
Before(offsets, boundary) == Cardinality({i \in DOMAIN offsets : offsets[i] <= boundary})

\* process_delay: the carrier gate is looked at once in every interval.
Boundaries(remainder, n) ==
  [i \in 1 .. (remainder + n) \div GateInterval |-> i * GateInterval - remainder]
GateStep(span, a, boundary) ==
  LET end == Before(span.offsets, boundary)
      b == DelaySegment(span.delay, a.lag, span.voice, a.from, end)
  IN  [from |-> end, lag |-> [line |-> b.line, outzero |-> ~span.gates[boundary], xs |-> b.xs]]
Gated(span, lag, boundaries) ==
  LET a == FoldLeft(LAMBDA b, boundary : GateStep(span, b, boundary),
                    [from |-> 0, lag |-> lag], boundaries)
  IN  DelaySegment(span.delay, a.lag, span.voice, a.from, Len(span.offsets))
Lagged(span, p, boundaries) ==
  Gated(span, [line |-> p.delay, outzero |-> p.outzero, xs |-> <<>>], boundaries)
Delay(c, p, span, n) ==
  IF HasDelay(c)
  THEN Lagged(span, p, IF c.carrier = "vox" THEN <<>> ELSE Boundaries(p.remainder, n))
  ELSE [line |-> p.delay, outzero |-> p.outzero, xs |-> <<>>]
Remainder(c, remainder, n) ==
  IF HasDelay(c) /\ c.carrier # "vox" THEN (remainder + n) % GateInterval ELSE remainder

\* The VOX envelope of a span, its last state and all its peaks.
MeterStep(decay, a, x) ==
  LET envelope == EnvelopeSample(decay, a.s, x)
  IN  [s |-> envelope, xs |-> Append(a.xs, envelope.peak)]
Metered(decay, envelope, xs) ==
  FoldLeft(LAMBDA a, x : MeterStep(decay, a, x), [s |-> envelope, xs |-> <<>>], xs)

\* Mutant: the hold looks at the last peak and the length of the callback.
AdvanceVoxHoldWhole(c, v, peaks, offsets, n) ==
  VoxFinish(VoxAdvance(v, 0, peaks # <<>> /\ peaks[Len(peaks)] >= c.threshold, c.hang), n)
\* advance_vox_hold: every emitted sample takes the frames up to its offset.
HoldStep(c, v, e) == VoxAdvance(v, e.offset, e.peak >= c.threshold, c.hang)
HoldOver(c, v, emissions) == FoldLeft(LAMBDA w, e : HoldStep(c, w, e), v, emissions)
AdvanceVoxHold(c, v, peaks, offsets, n) ==
  VoxFinish(HoldOver(c, v, [i \in DOMAIN peaks |-> [offset |-> offsets[i], peak |-> peaks[i]]]),
            n)
Hold(c, p, base, offsets, n) ==
  IF c.carrier = "vox"
  THEN LET measured == Metered(c.vox.decay, p.envelope, base)
       IN  [envelope |-> measured.s, vox |-> AdvanceVoxHold(c.vox, p.vox, measured.xs, offsets, n)]
  ELSE [envelope |-> p.envelope, vox |-> p.vox]
CarrierDetect(c, front, vox) == IF c.carrier = "vox" THEN vox.hold > 0 ELSE ~front.closed

\* External, the CTCSS and DCS providers: a tone is decoded while the last
\* samples were loud and the carrier is there, a code after loud frames.
Hear(run, x) == IF x >= ToneLevel \/ -x >= ToneLevel THEN (IF run = ToneRun THEN run ELSE run + 1) ELSE 0
HearTone(run, carrier) == [run |-> run, decoded |-> carrier /\ run = ToneRun]

\* `external' is the carrier where it is not this path's decision.
ToneHeard(c, p, base, limited, carrier) ==
  IF base # <<>> /\ c.ctcss /\ (p.active \/ p.ctcss.decoded)
  THEN HearTone(FoldLeft(Hear, p.ctcss.run, limited), carrier) ELSE p.ctcss
CodeHeard(c, p, xs) == IF c.dcs THEN FoldLeft(Hear, p.dcs, xs) ELSE p.dcs

\* The stream state after a span, and what the span delivers.
After(c, p, xs, external, front, low, voice, lag, hold) ==
  [p |-> [front |-> front.front, vox |-> hold.vox, envelope |-> hold.envelope,
          lsd |-> low.lsd, center |-> low.center,
          hpf |-> voice.hpf, deemphasis |-> voice.deemphasis, voice |-> voice.voice,
          delay |-> lag.line, remainder |-> Remainder(c, p.remainder, Len(xs)),
          outzero |-> lag.outzero,
          ctcss |-> ToneHeard(c, p, front.base, low.limited,
                              IF external = "none" THEN CarrierDetect(c, front.front, hold.vox)
                              ELSE external = "present"),
          dcs |-> CodeHeard(c, p, xs), active |-> p.active, halted |-> p.halted],
   out |-> [base |-> front.base, gates |-> front.gates,
            offsets |-> EmissionOffsets(c.decimate, p.front.decimator, Len(xs)),
            limited |-> low.limited, voice |-> voice.samples, delayed |-> lag.xs,
            carrier |-> CarrierDetect(c, front.front, hold.vox)]]

\* process_with_carrier for a span that passed its checks.
Process(c, p, xs, external) ==
  LET front == Frontend(c, p.front, xs)
      offsets == EmissionOffsets(c.decimate, p.front.decimator, Len(xs))
      voice == Voice(c, p, front.base)
      span == [delay |-> c.delay, voice |-> voice.samples, offsets |-> offsets,
               gates |-> front.gates]
  IN  After(c, p, xs, external, front, LowSpeed(c, p, front.base), voice,
            Delay(c, p, span, Len(xs)), Hold(c, p, front.base, offsets, Len(xs)))

\* Mutant: the saver sleeps while a tone or a code is listened for.
HaltedDeaf(c, carrier, ptt) == c.saver /\ ~carrier /\ ~ptt
\* rx_cpu_saver::advance, as receive_inner asks it.
Halted(c, carrier, ptt) == c.saver /\ ~carrier /\ ~c.ctcss /\ ~c.dcs /\ ~ptt
Saver(c, p, carrier, ptt) ==
  [p EXCEPT !.halted = Halted(c, carrier, ptt), !.active = ~Halted(c, carrier, ptt)]
----------------------------------------------------------------------------
Init ==
  /\ cfg \in Configs
  /\ path = NewPath(cfg) /\ twin = NewPath(cfg) /\ last = Nothing

\* The twin's deliveries for a span, frame after frame.
Joined(out, next) ==
  [base |-> out.base \o next.base, gates |-> out.gates \o next.gates,
   offsets |-> IF next.offsets = <<>> THEN out.offsets
               ELSE Append(out.offsets, Len(out.gates) + 1),
   limited |-> out.limited \o next.limited, voice |-> out.voice \o next.voice,
   delayed |-> out.delayed \o next.delayed, carrier |-> next.carrier]
FrameStep(s, a, x) ==
  LET next == Process(s.cfg, a.p, <<x>>, s.external)
  IN  [p |-> next.p, out |-> Joined(a.out, next.out)]
FrameByFrame(c, p, xs, external) ==
  FoldLeft(LAMBDA a, x : FrameStep([cfg |-> c, external |-> external], a, x),
           [p |-> p, out |-> Silent], xs)

\* A callback of the session, with the indication it takes its carrier from.
\* An empty or unfit span is refused; so is one that is too long.
Refused(in) == in.samples = <<>> \/ Len(in.samples) > MaxFrames \/ ~in.fit
Deliver(in, carrier, whole, parts) ==
  /\ path' = Saver(cfg, whole.p, carrier, in.ptt)
  /\ twin' = Saver(cfg, parts.p, carrier, in.ptt)
  /\ last' = [status |-> "ok", frames |-> Len(in.samples),
              emitted |-> Len(whole.out.base), offsets |-> whole.out.offsets,
              differ |-> {k \in DOMAIN Silent : whole.out[k] # parts.out[k]}]
Answer(in, whole) ==
  Deliver(in, IF in.external = "none" THEN whole.out.carrier ELSE in.external = "present",
          whole, FrameByFrame(cfg, twin, in.samples, in.external))
Callback(in) ==
  /\ (in.external # "none") = (cfg.carrier = "wired")
  /\ IF Refused(in) THEN last' = [Nothing EXCEPT !.status = "invalid"] /\ UNCHANGED <<path, twin>>
     ELSE Answer(in, Process(cfg, path, in.samples, in.external))
  /\ UNCHANGED cfg

Update(c) ==
  /\ c # cfg
  /\ cfg' = IF SameDetector(cfg, c) THEN UpdateControls(cfg, c) ELSE c
  /\ IF SameDetector(cfg, c) THEN UNCHANGED <<path, twin>>
     ELSE /\ path' = [NewPath(c) EXCEPT !.halted = path.halted]
          /\ twin' = [NewPath(c) EXCEPT !.halted = twin.halted]
  /\ last' = Nothing

Next == (\E in \in Inputs : Callback(in)) \/ (\E c \in Configs : Update(c))

Spec == Init /\ [][Next]_vars
----------------------------------------------------------------------------
\* The stream state but for the voice workspace, which every callback writes over;
\* and for the tone, whose decoder is told one carrier for a whole span.
Stream(p) == [k \in DOMAIN p \ {"voice", "ctcss"} |-> p[k]]

\* What the receiver hears does not depend on what the callbacks are cut into:
\* filters, decimator, RSSI, squelch, VOX hold, extrema, delay storage and every
\* sample delivered are those of a receiver called frame by frame.  The tone is
\* compared where its carrier is wired: under noise or VOX its decoder is told the
\* carrier of the last frame of the span, so that the decode does depend on the
\* cut.  What a closed gate delivers is no sample (DelaySegment) and not compared.
BoundariesDoNotMatter ==
  /\ Stream(path) = Stream(twin) /\ last.differ = {}
  /\ cfg.carrier = "wired" => path.ctcss = twin.ctcss

\* Every emitted sample has its offset in the callback, which the VOX hold and
\* the delay read without looking, and there is room for it.
EmissionsHaveOffsets ==
  /\ Len(last.offsets) = last.emitted /\ last.emitted <= BasebandCapacity(cfg)
  /\ \A i \in DOMAIN last.offsets : last.offsets[i] <= last.frames

\* The historical shift moves half the history: no byte above it ever becomes
\* other than zero, and the last entry reached may have only its low one.
UpperHistoryIsDead ==
  \A k \in DOMAIN path.front.history :
    k > Entries(path.front.history) + 1 => path.front.history[k] = 0

\* Whatever comes next, the centred sample and the extrema fit the signed-16
\* codes they are narrowed to, so that narrowing between spans changes nothing.
SlicerFits ==
  cfg.ctcss =>
    \A x \in Codes :
      LET s == SliceState(cfg.slicer, path.center, x)
      IN  {s.maximum, s.minimum, s.peak, Centered(s, x)} \subseteq Codes
=============================================================================
