--------------------------- MODULE ReceiveStages ----------------------------
(***************************************************************************)
(* The fixed-point stages of the receive path, one sample at a time: what  *)
(* a stage makes of its state and one input code.  ReceivePath strings     *)
(* them into spans.                                                        *)
(*                                                                         *)
(* A sample is its legacy signed-16 code; the F32 buffers in between hold  *)
(* exactly code / 32768.  The widths are constants: 2 * Half codes, made   *)
(* of two bytes of ByteBase values, and 2 * WordHalf values of an i32.     *)
(***************************************************************************)
EXTENDS Integers, SequencesExt

CONSTANTS
  Half,          \* 32768
  ByteBase,      \* 256
  WordHalf,      \* 2^31
  GainUnit,      \* LEGACY_GAIN_DIVISOR, 256
  FeedbackUnit,  \* LEGACY_FEEDBACK_DIVISOR, 32768
  OutputUnit,    \* LEGACY_OUTPUT_DIVISOR, 8192
  RssiUnit       \* RSSI_DIVISOR, 16

ASSUME StagesAssumption ==
  /\ {Half, ByteBase, WordHalf, GainUnit, FeedbackUnit, OutputUnit, RssiUnit} \subseteq Nat \ {0}
  /\ 2 * Half = ByteBase * ByteBase

Codes == -Half .. Half - 1

\* `as i16' and wrapping i32 arithmetic.
Wrap(x, half) == ((x + half) % (2 * half)) - half
Narrow(x) == Wrap(x, Half)
Word(x) == Wrap(x, WordHalf)
\* Division of signed integers by a positive one.
Quotient(a, b) == IF a >= 0 THEN a \div b ELSE -((-a) \div b)
Between(lo, x, hi) == IF x < lo THEN lo ELSE IF x > hi THEN hi ELSE x
\* f32_to_pcm_code: a finite sample, as the multiple of 1/32768 it rounds to.
PcmCode(x) == Between(-Half, x, Half - 1)

\* The sum of the taps times what they meet of a history.
Plus(a, x) == a + x
Total(xs) == FoldLeft(Plus, 0, xs)
Dot(taps, h) == Total([i \in DOMAIN taps |-> taps[i] * h[i]])
\* The division, gain and rail clamp both FIR stages end with.
Rail(accumulator, adjust, gain) ==
  Between(1 - Half, Quotient(Quotient(accumulator, adjust) * gain, GainUnit), Half - 1)
----------------------------------------------------------------------------
(* The native frontend *)

\* A history is kept as its bytes, two to an entry and the low one first.
CodeBytes(x) == <<x % ByteBase, (x % (2 * Half)) \div ByteBase>>
Entry(h, i) == Narrow(h[2 * i - 1] + ByteBase * h[2 * i])
Entries(h) == Len(h) \div 2
EntriesOf(h) == [i \in 1 .. Entries(h) |-> Entry(h, i)]

\* Mutant: whole entries are moved.
ShiftEntries(h, x) == [k \in DOMAIN h |-> IF k <= 2 THEN CodeBytes(x)[k] ELSE h[k - 2]]
\* legacy_history_shift and the write of the new entry.  As many BYTES as there
\* are entries, less one, move up by an entry; the bytes above stay.
LegacyHistoryShift(h, x) ==
  [k \in DOMAIN h |->
     IF k <= 2 THEN CodeBytes(x)[k] ELSE IF k <= Entries(h) + 1 THEN h[k - 2] ELSE h[k]]

\* The RSSI level of a completed window, a saturating float conversion.
RssiLevel(power) ==
  CHOOSE r \in 0 .. Half - 1 :
    /\ (RssiUnit * r) * (RssiUnit * r) <= power
    /\ r = Half - 1 \/ power < (RssiUnit * (r + 1)) * (RssiUnit * (r + 1))

\* External, the squelch provider: a comparator with hysteresis.
NoiseUpdate(closed, power, c) == power > IF closed THEN c.openLevel ELSE c.openLevel + c.hysteresis

\* One native sample of the discriminator-noise detector, history in place.
AdvanceNoise(c, f) ==
  LET noise == Quotient(Word(Dot(c.noiseTaps, EntriesOf(f.history))), c.noiseDivisor)
      power == f.power + noise * noise
      full  == f.samples + 1 = c.window
  IN  [history |-> f.history, decimator |-> f.decimator,
       power |-> IF full THEN 0 ELSE power,
       samples |-> IF full THEN 0 ELSE f.samples + 1,
       rssi |-> IF full THEN RssiLevel(power) ELSE f.rssi,
       closed |-> NoiseUpdate(f.closed, noise * noise, c)]

\* One native sample: history, detector, decimator.
FrontendSample(c, f, x) ==
  LET g == [history |-> LegacyHistoryShift(f.history, PcmCode(x)),
            decimator |-> IF f.decimator <= 1 THEN c.decimate ELSE f.decimator - 1,
            closed |-> f.closed, power |-> f.power, samples |-> f.samples, rssi |-> f.rssi]
  IN  IF c.carrier = "noise" THEN AdvanceNoise(c, g) ELSE g
Emits(f) == f.decimator <= 1
BasebandSample(c, history) ==
  Rail(Dot(c.baseTaps, EntriesOf(history)), c.baseAdjust, c.baseGain)
----------------------------------------------------------------------------
(* fir, deemphasis_integrator *)

FirHistory(c, h, x) ==
  [k \in DOMAIN h |->
     IF k = 1 THEN Narrow(Quotient(Word(x * c.inputGain), GainUnit)) ELSE h[k - 1]]
FirSample(c, h) == Rail(Dot(c.taps, h), c.adjust, c.outputGain)

DeemphasisAccumulator(c, acc, x) == Word(x + Quotient(Word(acc * c.feedback), FeedbackUnit))
DeemphasisSample(c, acc) ==
  Narrow(Quotient(Word(Quotient(Word(acc * c.coefficient), OutputUnit) * c.gain), GainUnit))
----------------------------------------------------------------------------
(* envelope_meter *)

DecayNumerator == 32700
DecayDenominator == 32768
Decayed(x) == Quotient(x * DecayNumerator, DecayDenominator)

EnvelopeSample(decay, e, x) ==
  LET upper == x > e.maximum
      lower == x < e.minimum
      max == IF upper THEN x ELSE IF e.upper <= 1 THEN Decayed(e.maximum) ELSE e.maximum
      min == IF lower THEN x ELSE IF e.lower <= 1 THEN Decayed(e.minimum) ELSE e.minimum
  IN  [maximum |-> max, minimum |-> min, peak |-> Narrow(Quotient(max - min, 2)),
       upper |-> IF upper \/ e.upper <= 1 THEN decay ELSE e.upper - 1,
       lower |-> IF lower \/ e.lower <= 1 THEN decay ELSE e.lower - 1]
----------------------------------------------------------------------------
(* center_slicer: the extrema are wide while a span is processed *)

\* Mutant: the opposite extremum is put at the set point, wherever it was.
TrackRigidly(c, s, x) ==
  IF x > s.maximum THEN [s EXCEPT !.maximum = x, !.minimum = x - c.setpoint]
  ELSE IF x < s.minimum THEN [s EXCEPT !.minimum = x, !.maximum = x + c.setpoint] ELSE s
\* A new extremum pulls the opposite one to within the set point.
Track(c, s, x) ==
  IF x > s.maximum
    THEN [maximum |-> x, peak |-> s.peak,
          minimum |-> IF s.minimum < x - c.setpoint THEN x - c.setpoint ELSE s.minimum]
  ELSE IF x < s.minimum
    THEN [minimum |-> x, peak |-> s.peak,
          maximum |-> IF s.maximum > x + c.setpoint THEN x + c.setpoint ELSE s.maximum]
  ELSE s
\* Both extrema discharge towards each other, the maximum first.
Discharge(c, s) ==
  LET max == IF s.maximum - c.decay < s.minimum THEN s.minimum ELSE s.maximum - c.decay
      min == IF s.minimum + c.decay > max THEN max ELSE s.minimum + c.decay
  IN  [maximum |-> max, minimum |-> min, peak |-> Quotient(max - min, 2)]
SliceState(c, s, x) == Discharge(c, Track(c, s, x))

\* What is left of the input above the centre, before it is narrowed.
Centered(s, x) == x - Quotient(s.maximum + s.minimum, 2)
Limited(c, s, x) == Narrow(Between(-c.limit, Centered(s, x), c.limit))
SliceNarrowed(s) ==
  [maximum |-> Narrow(s.maximum), minimum |-> Narrow(s.minimum), peak |-> Narrow(s.peak)]
----------------------------------------------------------------------------
(* delay_line, one enabled sample; the storage is indexed from 0 *)

DelayedSample(c, d, x) ==
  LET cap   == c.capacity
      at    == d.index % cap
      store == [d.storage EXCEPT ![at] = x]
  IN  [d |-> [index |-> at + 1, dirty |-> TRUE, storage |-> store],
       x |-> store[(d.index + cap - c.lead) % cap]]
DelayCleared(c) == [index |-> 0, dirty |-> FALSE, storage |-> [i \in 0 .. c.capacity - 1 |-> 0]]
----------------------------------------------------------------------------
(* External, the squelch provider's VOX timer, in native frames *)

Spend(hold, frames) == IF hold > frames THEN hold - frames ELSE 0
VoxAdvance(v, offset, qualified, hang) ==
  [hold |-> IF qualified THEN hang ELSE Spend(v.hold, offset - v.last), last |-> offset]
VoxFinish(v, frames) == [hold |-> Spend(v.hold, frames - v.last), last |-> 0]
=============================================================================
