--------------------------- MODULE SessionConfig ----------------------------
(***************************************************************************)
(* What session.rs and profile.rs make of a configuration before anything  *)
(* is created from it: which ones they refuse, what a profile changes in   *)
(* one, and the detector, speech mode and delay a receiver gets.           *)
(*                                                                         *)
(* A configuration is a record of the words the C caller writes.  Every    *)
(* scalar that is only checked against a range is left out: `unfit' names  *)
(* the group of range checks the configuration fails ("none" if it passes *)
(* them all).                                                              *)
(***************************************************************************)
EXTENDS Integers

CONSTANTS
  Nothing,         \* no profile: the session was made by create
  SupportedCodes,  \* the codes the DCS provider's code_supported accepts
  Preroll,         \* VAD_PREROLL_FRAMES
  MaxVadFrames     \* frames SpeechVad accepts in one span

Booleans == {0, 1}
NoiseProfiles == {0, 1}
\* The masks are told apart by the filter they select; "wide" has a tone at
\* or above 203.5 Hz.
ToneMasks == {"none", "narrow", "wide"}
CtcssFilter(mask) == IF mask = "wide" THEN "250Hz" ELSE "215Hz"

\* carrier_source and subaudible_source, in the order of their words.
CarrierSource == [w \in 0..8 |->
  CASE w = 0 -> "ignore" [] w = 1 -> "noise" [] w = 2 -> "vox" [] w = 3 -> "hardware"
    [] w = 4 -> "hardware inverted" [] w = 5 -> "parallel"
    [] w = 6 -> "parallel inverted" [] w = 7 -> "external" [] OTHER -> "open"]
SubaudibleSource == [w \in 0..5 |->
  CASE w = 0 -> "ignore" [] w = 1 -> "hardware" [] w = 2 -> "hardware inverted"
    [] w = 3 -> "dsp" [] w = 4 -> "parallel" [] OTHER -> "parallel inverted"]

\* OutputRoute: disabled, voice, tone, composite, auxiliary voice.
Routes == 0..4
ToneRoutes == {2, 3}
ToneOffWords == 0..3

\* The records the C caller writes: words, whose ranges are still to be checked.
ReceiveConfig(c) ==
  /\ {c.noise, c.rxCtcss, c.relax, c.rxDcs, c.rxCode, c.levels, c.delay,
      c.vad, c.hang, c.external} \subseteq Nat
  /\ c.mask \in ToneMasks \cup {"invalid"}
QualificationConfig(c) == {c.carrier, c.tone, c.override} \subseteq Nat
TransmitConfig(c) ==
  /\ {c.txCtcss, c.txDcs, c.txCode, c.mode, c.routeA, c.routeB} \subseteq Nat
  /\ c.frequency \in BOOLEAN
SessionRecord(c) ==
  /\ DOMAIN c = {"unfit", "frames", "noise", "rxCtcss", "mask", "relax", "rxDcs", "rxCode",
                 "carrier", "tone", "override", "levels", "delay", "vad", "hang", "external",
                 "txCtcss", "frequency", "txDcs", "txCode", "mode", "routeA", "routeB"}
  /\ c.unfit \in {"none", "entry", "rate", "receive", "qualification", "transmit", "signaling"}
  /\ c.frames \in [rx : Nat, tx : Nat]
  /\ ReceiveConfig(c) /\ QualificationConfig(c) /\ TransmitConfig(c)

\* The range checks create makes before it looks at the receive policy.
EntryRefuses(c) ==
  \/ c.unfit = "entry"
  \/ c.frames.rx = 0 \/ c.frames.tx = 0
  \/ c.vad > 2 \/ c.external \notin Booleans
  \/ c.external # 0 /\ c.delay # 0
  \/ c.vad # 0 /\ c.frames.rx > MaxVadFrames
RateUnsupported(c) == c.unfit = "rate"

\* receive_config: the checks before it asks the DCS library for the code, the
\* library's answer, and the checks after it.
ReceiveRefuses(c) ==
  \/ c.unfit = "receive"
  \/ c.noise \notin NoiseProfiles
  \/ ~({c.rxCtcss, c.rxDcs} \subseteq Booleans)
  \/ c.carrier \notin DOMAIN CarrierSource
  \/ c.mask \notin ToneMasks
  \/ c.rxCtcss = 1 /\ c.rxDcs = 1
CodeRefuses(c) == c.rxDcs = 1 /\ c.rxCode \notin SupportedCodes
QualificationRefuses(c) ==
  \/ c.unfit = "qualification"
  \/ c.tone \notin DOMAIN SubaudibleSource
  \/ ~({c.override, c.relax} \subseteq Booleans)

TransmitRefuses(c) ==
  \/ c.unfit = "transmit"
  \/ ~({c.txCtcss, c.txDcs} \subseteq Booleans)
  \/ c.txDcs = 1 /\ (c.txCtcss = 1 \/ c.txCode \notin SupportedCodes)
  \/ c.mode \notin ToneOffWords
  \/ ~({c.routeA, c.routeB} \subseteq Routes)
SignalingRefuses(c) == c.unfit = "signaling"

\* What ReceivePath::new builds: what an update may change in place, and the
\* rest, for which it needs the new detector.
Controls(c) == c.levels
DetectorOf(c) ==
  [frames |-> c.frames.rx, noise |-> c.noise, gate |-> CarrierSource[c.carrier],
   filter |-> CtcssFilter(c.mask),
   tones |-> IF c.rxCtcss = 1 THEN <<c.mask, c.relax>> ELSE <<>>,
   code |-> IF c.rxDcs = 1 THEN <<c.rxCode>> ELSE <<>>,
   controls |-> Controls(c), handles |-> {}]

HasCarrier(c) == CarrierSource[c.carrier] \notin {"ignore", "open"}
HasTone(c) ==
  /\ c.override = 0
  /\ SubaudibleSource[c.tone] \in {"ignore", "dsp"} => c.rxCtcss # 0 \/ c.rxDcs # 0

\* effective_vad_mode: a burst that no gate closes is not latched open.
EffectiveVadMode(c) == IF c.vad = 1 /\ ~HasCarrier(c) /\ ~HasTone(c) THEN 2 ELSE c.vad

DelayFrames(c) ==
  IF EffectiveVadMode(c) # 0 /\ c.external = 0 /\ c.delay < Preroll THEN Preroll ELSE c.delay

\* Profile directions.
Disabled == 0
Dsp == 1
External == 2

\* Profile with its ProfileCapabilities.
RadioProfile == [carrier : Nat, encode : Nat, decode : Nat,
                 has : SUBSET {"audio", "cor", "encode", "decode"}]

\* ValidatedProfile::new: what it answers for profile p, whose capabilities are
\* a set, and configuration c.
NeedsToneAudio(p, c) == p.encode = Dsp \/ c.txDcs # 0
ProfileLacks(p, c) ==
  \/ p.carrier = 0 /\ "cor" \notin p.has
  \/ p.decode = External /\ "decode" \notin p.has
  \/ p.encode = External /\ "encode" \notin p.has
  \/ NeedsToneAudio(p, c) /\ "audio" \notin p.has
  \/ c.rxDcs # 0 /\ p.decode # Disabled
  \/ c.txDcs # 0 /\ p.encode # Disabled
ProfileDisagrees(p, c) ==
  \/ c.rxCtcss # (IF p.decode = Dsp THEN 1 ELSE 0)
  \/ c.txCtcss # (IF p.encode = Dsp THEN 1 ELSE 0)
  \/ p.decode = Dsp /\ c.mask = "none"
  \/ p.encode = Dsp /\ ~c.frequency
  \/ NeedsToneAudio(p, c) /\ {c.routeA, c.routeB} \cap ToneRoutes = {}
\* An external encoder takes neither a frequency nor a tail of its own.
ProfileUnsupported(p, c) == p.encode = External /\ (c.frequency \/ c.mode \notin {0, 2})
ValidatedProfile(p, c) ==
  IF p.carrier > 1 \/ p.encode > External \/ p.decode > External THEN "invalid"
  ELSE IF ProfileLacks(p, c) THEN "unsupported"
  ELSE IF ProfileDisagrees(p, c) THEN "invalid"
  ELSE IF ProfileUnsupported(p, c) THEN "unsupported" ELSE "ok"

\* ValidatedProfile::configure.
Configure(p, c) ==
  [c EXCEPT !.carrier = IF p.carrier = 0 THEN 3 ELSE 1,
            !.tone = IF p.decode = External THEN 1 ELSE 3]
=============================================================================
