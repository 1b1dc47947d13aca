--------------------------- MODULE TransmitProofs ----------------------------
(***************************************************************************)
(* The transmit owner, for every policy, input and constant: the           *)
(* invariants of TransmitSignaling and the lifecycle it implements; then   *)
(* what is heard, the oscillator, its frequency and the queued CTCSS       *)
(* options agreeing with the policy at every span of every callback.       *)
(***************************************************************************)
EXTENDS TransmitOutput, TLAPS

(* Arithmetic of the timers *)

LEMMA DivMod ==
  ASSUME NEW n \in Nat, NEW d \in Nat \ {0}
  PROVE  /\ n \div d \in Nat /\ n % d \in 0 .. d - 1
         /\ n = d * (n \div d) + (n % d)
  OBVIOUS

LEMMA CeilDivNat ==
  ASSUME NEW n \in Nat, NEW d \in Nat \ {0}
  PROVE  CeilDiv(n, d) \in Nat /\ (CeilDiv(n, d) = 0 <=> n = 0)
<1> DEFINE q == (n + d - 1) \div d
<1>1. /\ n + d - 1 \in Nat /\ q \in Nat /\ (n + d - 1) % d \in 0 .. d - 1
      /\ n + d - 1 = d * q + ((n + d - 1) % d)
  BY DivMod
<1>2. ASSUME q = 0 PROVE n = 0
  <2>1. d * q = 0  BY <1>2
  <2> QED BY <1>1, <2>1
<1>3. ASSUME n = 0 PROVE q = 0
  <2>1. d * q <= d - 1  BY <1>1, <1>3
  <2>2. CASE q >= 1
    <3>1. d * q >= d  BY <1>1, <2>2
    <3> QED BY <2>1, <3>1, <1>1
  <2> QED BY <2>2, <1>1
<1> QED BY <1>1, <1>2, <1>3 DEF CeilDiv

LEMMA QuotientUnique ==
  ASSUME NEW d \in Nat \ {0}, NEW ms \in Nat, NEW n \in Nat, NEW r \in 0 .. d - 1,
         n = d * ms + r
  PROVE  n \div d = ms
<1> DEFINE q == n \div d
<1>1. q \in Nat /\ n % d \in 0 .. d - 1 /\ n = d * q + (n % d)
  BY DivMod
<1>2. CASE q < ms
  <2>1. d * (q + 1) <= d * ms  BY <1>2, <1>1
  <2>2. d * (q + 1) = d * q + d  BY <1>1
  <2> QED BY <2>1, <2>2, <1>1
<1>3. CASE q > ms
  <2>1. d * (ms + 1) <= d * q  BY <1>3, <1>1
  <2>2. d * (ms + 1) = d * ms + d  OBVIOUS
  <2> QED BY <2>1, <2>2, <1>1
<1> QED BY <1>1, <1>2, <1>3

LEMMA RemainingOfDuration ==
  ASSUME NEW ms \in Nat, TransmitAssumption
  PROVE  RemainingMs(DurationFrames(ms)) = ms
<1> DEFINE r == FramesPerMs - 1
<1>1. FramesPerMs \in Nat \ {0} /\ r \in 0 .. FramesPerMs - 1
  BY DEF TransmitAssumption
<1>2. PICK p \in Nat : p = FramesPerMs * ms /\ p = ms * FramesPerMs
  BY <1>1
<1>3. p + r \in Nat /\ p + r = FramesPerMs * ms + r
  BY <1>1, <1>2
<1>4. (p + r) \div FramesPerMs = ms
  BY <1>1, <1>3, QuotientUnique
<1>5. p + FramesPerMs - 1 = p + r
  BY <1>1, <1>2
<1> QED BY <1>2, <1>4, <1>5 DEF RemainingMs, DurationFrames, CeilDiv

LEMMA RemainingType ==
  ASSUME TransmitAssumption, NEW n \in Nat
  PROVE  RemainingMs(n) \in Nat
BY CeilDivNat DEF RemainingMs, TransmitAssumption

LEMMA ElapsedType ==
  ASSUME TransmitAssumption, NEW rem \in Nat, NEW n \in Nat
  PROVE  ElapsedMs(rem, n) \in Nat /\ Remainder(rem, n) \in Nat
<1>1. FramesPerMs \in Nat \ {0} /\ rem + n \in Nat  BY DEF TransmitAssumption
<1>2. (rem + n) \div FramesPerMs \in Nat /\ (rem + n) % FramesPerMs \in Nat
  BY <1>1, DivMod
<1> QED BY <1>2 DEF ElapsedMs, Remainder

LEMMA ConsumeType ==
  ASSUME NEW timer \in Nat, NEW ms \in Nat
  PROVE  Consume(timer, ms) \in Nat
BY DEF Consume

LEMMA IntervalPositive ==
  ASSUME TransmitAssumption
  PROVE  IntervalFrames \in Nat \ {0}
BY DEF TransmitAssumption, IntervalFrames, DurationFrames

LEMMA DurationType ==
  ASSUME TransmitAssumption, NEW ms \in Nat
  PROVE  DurationFrames(ms) \in Nat /\ (DurationFrames(ms) = 0 <=> ms = 0)
BY DEF TransmitAssumption, DurationFrames

LEMMA TailPositive ==
  ASSUME TransmitAssumption, NEW ms \in Nat
  PROVE  CtcssTailFrames(ms) \in Nat \ {0}
<1> DEFINE i == CeilDiv(DurationFrames(ms), IntervalFrames)
<1>1. i \in Nat  BY DurationType, IntervalPositive, CeilDivNat
<1>2. PICK k \in Nat \ {0} : k = IF i = 0 THEN 1 ELSE i  BY <1>1
<1>3. k * IntervalFrames \in Nat \ {0}  BY IntervalPositive
<1> QED BY <1>2, <1>3 DEF CtcssTailFrames

LEMMA FinishPositive ==
  ASSUME TransmitAssumption, NEW b \in BOOLEAN
  PROVE  FinishFrames(b) \in Nat \ {0}
<1>1. PICK k \in Nat \ {0} : k = (IF b THEN TailClear ELSE NormalClear) + 1
  BY DEF TransmitAssumption
<1>2. k * IntervalMs \in Nat \ {0}  BY DEF TransmitAssumption
<1>3. DurationFrames(k * IntervalMs) \in Nat \ {0}  BY <1>2, DurationType
<1> QED BY <1>1, <1>3 DEF FinishFrames

(* Operators that leave the turn-off bookkeeping alone *)

\* t keeps every field of s that TurnoffCoherent reads.
SameCore(s, t) ==
  /\ t.txState = s.txState /\ t.ptt = s.ptt /\ t.phase = s.phase
  /\ t.turnoffFrames = s.turnoffFrames /\ t.finishFrames = s.finishFrames
  /\ t.dcsMs = s.dcsMs

\* s with its options consumed and the renderer's fields set.
Toned(s, osc, on, ms, burst, tail) ==
  [s EXCEPT !.modeOption = "hold", !.option = "hold", !.osc = osc,
            !.enabled = on, !.turnoffMs = ms, !.burst = burst, !.tail = tail]

LEMMA ToneFields ==
  ASSUME NEW s \in State, NEW osc \in {"disabled", "active", "turnoff"},
         NEW on \in BOOLEAN, NEW ms \in Nat, NEW burst \in BOOLEAN, NEW tail \in BOOLEAN
  PROVE  /\ Toned(s, osc, on, ms, burst, tail) \in State
         /\ SameCore(s, Toned(s, osc, on, ms, burst, tail))
<1> DEFINE t == [s EXCEPT !.modeOption = "hold", !.option = "hold", !.osc = osc,
                            !.enabled = on, !.turnoffMs = ms, !.burst = burst,
                            !.tail = tail]
<1>1. t \in State
  <2> DEFINE a == [s EXCEPT !.modeOption = "hold"]
             b == [a EXCEPT !.option = "hold"]
             u == [b EXCEPT !.osc = osc]
             x == [u EXCEPT !.enabled = on, !.turnoffMs = ms]
             v == [x EXCEPT !.burst = burst, !.tail = tail]
  <2>1. a \in State  BY DEF State, Options
  <2>2. s.modeOption \in Options  BY DEF State
  <2> HIDE DEF a
  <2>3. b \in State  BY <2>1 DEF State, Options
  <2> HIDE DEF b
  <2>4. u \in State  BY <2>3 DEF State
  <2> HIDE DEF u
  <2>5. x \in State  BY <2>4 DEF State
  <2> HIDE DEF x
  <2>6. v \in State  BY <2>5 DEF State
  <2> QED BY <2>6 DEF x, u, b, a
<1>2. SameCore(s, t)  BY DEF State, SameCore
<1> QED BY <1>1, <1>2 DEF Toned

\* apply_ctcss_option changes the renderer's fields only.
LEMMA ApplyOptionCore ==
  ASSUME NEW c, NEW s \in State, NEW option \in Options \ {"hold"},
         option = "turnoff" => c \in Config
  PROVE  ApplyOption(c, s, option) \in State /\ SameCore(s, ApplyOption(c, s, option))
<1> DEFINE osc == IF option = "start" THEN "active"
                  ELSE IF option = "turnoff" THEN "turnoff" ELSE "disabled"
           on    == option = "start" \/ (option = "turnoff" /\ s.enabled)
           ms    == IF option = "turnoff" THEN c.ctcssTailMs ELSE s.turnoffMs
           burst == option = "turnoff" /\ c.toneOff # "TailTone"
           tail  == option = "turnoff" /\ c.toneOff # "PhaseShift"
<1>1. osc \in {"disabled", "active", "turnoff"} /\ burst \in BOOLEAN /\ tail \in BOOLEAN
  OBVIOUS
<1>2. on \in BOOLEAN /\ ms \in Nat  BY DEF Config, State
<1>3. ApplyOption(c, s, option) = Toned(s, osc, on, ms, burst, tail)
  BY DEF ApplyOption, Toned
<1>4. \A o \in {"disabled", "active", "turnoff"}, x \in BOOLEAN, m \in Nat,
         y \in BOOLEAN, z \in BOOLEAN :
        Toned(s, o, x, m, y, z) \in State /\ SameCore(s, Toned(s, o, x, m, y, z))
  BY ToneFields
<1> HIDE DEF osc, on, ms, burst, tail
<1>5. Toned(s, osc, on, ms, burst, tail) \in State
      /\ SameCore(s, Toned(s, osc, on, ms, burst, tail))
  BY <1>1, <1>2, <1>4
<1> QED BY <1>3, <1>5

LEMMA ApplyPendingCore ==
  ASSUME NEW c \in Config, NEW s \in State
  PROVE  ApplyPending(c, s) \in State /\ SameCore(s, ApplyPending(c, s))
<1>1. CASE s.option = "hold"  BY <1>1 DEF ApplyPending, SameCore
<1>2. CASE s.option # "hold"
  <2>1. s.option \in Options \ {"hold"}  BY <1>2 DEF State
  <2> QED BY <1>2, <2>1, ApplyOptionCore DEF ApplyPending
<1> QED BY <1>1, <1>2

LEMMA SignalModeCore ==
  ASSUME TransmitAssumption, NEW c \in Config, NEW s \in State, NEW ms \in Nat,
         NEW in \in Input
  PROVE  /\ AdvanceSignalMode(c, s, ms, in) \in State
         /\ SameCore(s, AdvanceSignalMode(c, s, ms, in))
<1> DEFINE t == AdvanceSignalMode(c, s, ms, in)
<1>1. /\ s.smodeTimer \in Nat /\ s.smode \in {"none", "ctcss", "dcs"}
      /\ s.freq \in Freqs \cup {0} /\ s.modeOption \in Options
  BY DEF State
<1>2. Consume(s.smodeTimer, ms) \in Nat  BY <1>1, ConsumeType
<1>3. /\ in.decoded \in Tones \cup {NoTone} /\ c.default \in Freqs \cup {0}
      /\ in.decoded # NoTone => c.mapped[in.decoded] \in Freqs \cup {0}
  BY DEF Input, Config
<1>4. HoldMs \in Nat  BY DEF TransmitAssumption
<1>5. /\ t.smode \in {"none", "ctcss", "dcs"} /\ t.smodeTimer \in Nat
      /\ t.lastRx \in Tones \cup {NoTone} /\ t.freq \in Freqs \cup {0}
      /\ t.modeOption \in Options
  BY <1>1, <1>2, <1>3, <1>4 DEF AdvanceSignalMode, State, Options
<1>6. t = [s EXCEPT !.smode = t.smode, !.smodeTimer = t.smodeTimer,
                    !.lastRx = t.lastRx, !.freq = t.freq,
                    !.modeOption = t.modeOption]
  BY DEF AdvanceSignalMode, State
<1> HIDE DEF t
<1>7. t \in State /\ SameCore(s, t)  BY <1>5, <1>6 DEF State, SameCore
<1> QED BY <1>7 DEF t

LEMMA ListenCore ==
  ASSUME TransmitAssumption, NEW c \in Config, NEW s \in State, NEW in \in Input
  PROVE  Listen(c, s, in) \in State /\ SameCore(s, Listen(c, s, in))
<1> DEFINE u == [s EXCEPT !.rxRem = Remainder(@, in.frames)]
           h == AdvanceSignalMode(c, u, ElapsedMs(s.rxRem, in.frames), in)
<1>1. s.rxRem \in Nat /\ in.frames \in Nat  BY DEF State, Input
<1>2. u \in State /\ SameCore(s, u)  BY <1>1, ElapsedType DEF State, SameCore
<1>3. h \in State /\ SameCore(u, h)  BY <1>1, <1>2, ElapsedType, SignalModeCore
<1>4. [h EXCEPT !.option = h.modeOption] \in State
      /\ SameCore(h, [h EXCEPT !.option = h.modeOption])
  <2>1. h \in State /\ h.modeOption \in Options  BY <1>3 DEF State
  <2> HIDE DEF h
  <2>2. [h EXCEPT !.option = h.modeOption] \in State  BY <2>1 DEF State
  <2>3. SameCore(h, [h EXCEPT !.option = h.modeOption])  BY <2>1 DEF State, SameCore
  <2> QED BY <2>2, <2>3
<1> QED BY <1>2, <1>3, <1>4 DEF Listen, SameCore

LEMMA SelectStartCore ==
  ASSUME NEW c \in Config, NEW s \in State, NEW in \in Input
  PROVE  SelectStart(c, s, in) \in State /\ SameCore(s, SelectStart(c, s, in))
<1> DEFINE f == IF in.forced # 0 THEN in.forced
                ELSE IF s.smode = "ctcss" /\ in.decoded # NoTone
                       THEN c.mapped[in.decoded] ELSE c.default
           on == [s EXCEPT !.freq = f, !.modeOption = "start",
                           !.option = "start", !.enabled = TRUE, !.turnoffMs = 0]
           off == [s EXCEPT !.freq = 0]
<1>1. f \in Freqs \cup {0}  BY DEF Config, Input
<1>2. SelectStart(c, s, in) \in {on, off}  BY DEF SelectStart
<1> HIDE DEF f
<1>3. on \in State /\ SameCore(s, on)
  <2> DEFINE a == [s EXCEPT !.freq = f]
             b == [a EXCEPT !.modeOption = "start"]
             d == [b EXCEPT !.option = "start"]
  <2>1. a \in State  BY <1>1 DEF State
  <2> HIDE DEF a
  <2>2. b \in State  BY <2>1 DEF State, Options
  <2> HIDE DEF b
  <2>3. d \in State  BY <2>2 DEF State, Options
  <2> HIDE DEF d
  <2>4. [d EXCEPT !.enabled = TRUE, !.turnoffMs = 0] \in State  BY <2>3 DEF State
  <2>5. on \in State  BY <2>4 DEF a, b, d
  <2>6. SameCore(s, on)  BY DEF State, SameCore
  <2> QED BY <2>5, <2>6
<1>4. off \in State /\ SameCore(s, off)  BY DEF State, SameCore
<1> QED BY <1>2, <1>3, <1>4

(* What prepare_transmitter hands to the renderer *)

\* The turn-off bookkeeping while a callback still has `left' frames to render:
\* TurnoffCoherent, except that a no-tone dwell may be empty and a finished
\* turn-off waits in COMPLETE.
Progress(s, left) ==
  /\ s.ptt <=> s.txState # "idle"
  /\ s.txState = "toc" =>
       /\ s.phase # "None" /\ s.finishFrames = 0
       /\ s.turnoffFrames > 0 \/ (s.phase = "NoTone" /\ left > 0)
  /\ s.txState # "toc" => s.turnoffFrames = 0
  /\ s.txState \in {"idle", "active", "finishing"} => s.phase = "None"
  /\ s.txState = "finishing" => s.finishFrames > 0
  /\ s.txState # "finishing" => s.finishFrames = 0
  /\ s.phase = "DcsTail" => s.dcsMs = RemainingMs(s.turnoffFrames)
  /\ s.txState = "complete" => s.phase \in {"None", "NoTone"}

Coherent(s) == s.txState # "complete" /\ Progress(s, 0)

LEMMA CoherentIsTurnoffCoherent ==
  ASSUME st \in State
  PROVE  TurnoffCoherent <=> Coherent(st)
BY DEF TurnoffCoherent, Coherent, Progress, State

LEMMA ProgressSameCore ==
  ASSUME NEW s, NEW t, NEW left \in Nat, SameCore(s, t), Progress(s, left)
  PROVE  Progress(t, left)
BY DEF SameCore, Progress

\* Three groups of fields, so that each membership stays small.
LEMMA SetTurnoff ==
  ASSUME NEW s \in State,
         NEW x \in {"idle", "active", "toc", "finishing", "complete"},
         NEW p \in {"None", "CtcssTail", "CtcssGap", "DcsTail", "NoTone"},
         NEW n \in Nat
  PROVE  [s EXCEPT !.txState = x, !.phase = p, !.turnoffFrames = n] \in State
BY DEF State

LEMMA SetLegacy ==
  ASSUME NEW s \in State, NEW m \in Nat
  PROVE  /\ [s EXCEPT !.legacyFrames = m] \in State
         /\ SameCore(s, [s EXCEPT !.legacyFrames = m])
BY DEF State, SameCore

LEMMA SetCountdowns ==
  ASSUME NEW s \in State,
         NEW x \in {"idle", "active", "toc", "finishing", "complete"},
         NEW p \in {"None", "CtcssTail", "CtcssGap", "DcsTail", "NoTone"},
         NEW n \in Nat, NEW m \in Nat
  PROVE  [s EXCEPT !.txState = x, !.phase = p, !.turnoffFrames = n,
                   !.legacyFrames = m] \in State
<1> DEFINE u == [s EXCEPT !.txState = x, !.phase = p, !.turnoffFrames = n]
<1>1. u \in State  BY SetTurnoff
<1> HIDE DEF u
<1>2. [u EXCEPT !.legacyFrames = m] \in State  BY <1>1, SetLegacy
<1> QED BY <1>2 DEF u

\* The renderer's countdown is no part of the turn-off bookkeeping.
LEMMA CountTailCore ==
  ASSUME TransmitAssumption, NEW s \in State, NEW n \in Nat
  PROVE  CountTail(s, n) \in State /\ SameCore(s, CountTail(s, n))
<1> DEFINE m == s.legacyFrames - Least(s.legacyFrames, n)
           ms == RemainingMs(m)
           t == [s EXCEPT !.legacyFrames = m, !.turnoffMs = ms]
<1>1. m \in Nat  BY DEF State, Least
<1>2. ms \in Nat  BY <1>1, RemainingType
<1>3. CountTail(s, n) = t  BY DEF CountTail
<1> HIDE DEF m, ms
<1>4. t \in State /\ SameCore(s, t)  BY <1>1, <1>2 DEF State, SameCore
<1> QED BY <1>3, <1>4

LEMMA StartFinishingProgress ==
  ASSUME TransmitAssumption, NEW s \in State, NEW b \in BOOLEAN, NEW left \in Nat,
         s.ptt
  PROVE  /\ StartFinishing(s, b) \in State
         /\ Progress(StartFinishing(s, b), left)
         /\ StartFinishing(s, b).txState = "finishing"
<1> DEFINE u == [s EXCEPT !.txState = "finishing", !.phase = "None",
                          !.turnoffFrames = 0, !.legacyFrames = 0]
<1>1. FinishFrames(b) \in Nat \ {0}  BY FinishPositive
<1>2. u \in State  BY SetCountdowns
<1>3. [u EXCEPT !.finishFrames = FinishFrames(b)] \in State
  <2> HIDE DEF u
  <2> QED BY <1>1, <1>2 DEF State
<1>4. StartFinishing(s, b) = [u EXCEPT !.finishFrames = FinishFrames(b)]
  BY DEF StartFinishing
<1>5. Progress(StartFinishing(s, b), left)
  BY <1>1 DEF StartFinishing, Progress, State
<1>6. StartFinishing(s, b).txState = "finishing"
  BY DEF StartFinishing, State
<1> QED BY <1>3, <1>4, <1>5, <1>6

\* The states from which a turn-off may begin.
Keyed(s) == s.txState = "active" /\ Progress(s, 0)

LEMMA StartCtcssTailProgress ==
  ASSUME TransmitAssumption, NEW c \in Config, NEW s \in State, NEW left \in Nat, Keyed(s)
  PROVE  /\ StartCtcssTail(c, s) \in State
         /\ Progress(StartCtcssTail(c, s), left)
         /\ StartCtcssTail(c, s).txState = "toc"
<1> DEFINE u == [s EXCEPT !.txState = "toc", !.phase = "CtcssTail",
                          !.turnoffFrames = CtcssTailFrames(c.ctcssTailMs),
                          !.legacyFrames = DurationFrames(c.ctcssTailMs)]
<1>1. /\ CtcssTailFrames(c.ctcssTailMs) \in Nat \ {0}
      /\ DurationFrames(c.ctcssTailMs) \in Nat
  BY TailPositive, DurationType DEF Config
<1>2. u \in State  BY <1>1, SetCountdowns
<1>3. Progress(u, left) /\ u.txState = "toc"  BY <1>1 DEF Progress, State, Keyed
<1> HIDE DEF u
<1>4. ApplyOption(c, u, "turnoff") \in State /\ SameCore(u, ApplyOption(c, u, "turnoff"))
  BY <1>2, ApplyOptionCore DEF Options
<1>5. StartCtcssTail(c, s) = ApplyOption(c, u, "turnoff")  BY DEF StartCtcssTail, u
<1> QED BY <1>3, <1>4, <1>5, ProgressSameCore DEF SameCore

LEMMA StartNoToneProgress ==
  ASSUME TransmitAssumption, NEW c \in Config, NEW s \in State, NEW left \in Nat \ {0},
         Keyed(s)
  PROVE  /\ StartNoTone(c, s) \in State
         /\ Progress(StartNoTone(c, s), left)
         /\ StartNoTone(c, s).txState = "toc"
<1> DEFINE u == [s EXCEPT !.txState = "toc", !.phase = "NoTone",
                          !.turnoffFrames = DurationFrames(c.ctcssTailMs)]
<1>1. DurationFrames(c.ctcssTailMs) \in Nat
  BY DurationType DEF Config
<1>2. u \in State  BY <1>1, SetTurnoff
<1>3. Progress(u, left) /\ u.txState = "toc"  BY <1>1 DEF Progress, State, Keyed
<1> HIDE DEF u
<1>4. ApplyOption(c, u, "disable") \in State /\ SameCore(u, ApplyOption(c, u, "disable"))
  BY <1>2, ApplyOptionCore DEF Options
<1>5. StartNoTone(c, s) = ApplyOption(c, u, "disable")  BY DEF StartNoTone, u
<1> QED BY <1>3, <1>4, <1>5, ProgressSameCore DEF SameCore

LEMMA StartDcsTailProgress ==
  ASSUME TransmitAssumption, NEW c \in Config, NEW s \in State, NEW left \in Nat,
         Keyed(s), c.dcsTailMs > 0
  PROVE  /\ StartDcsTail(c, s) \in State
         /\ Progress(StartDcsTail(c, s), left)
         /\ StartDcsTail(c, s).txState = "toc"
<1> DEFINE n == DurationFrames(c.dcsTailMs)
           u == [s EXCEPT !.txState = "toc", !.phase = "DcsTail", !.turnoffFrames = n]
           t == [s EXCEPT !.txState = "toc", !.phase = "DcsTail",
                          !.dcsMs = c.dcsTailMs, !.turnoffFrames = n]
<1>0. c.dcsTailMs \in Nat \ {0}  BY DEF Config
<1>1. n \in Nat \ {0} /\ RemainingMs(n) = c.dcsTailMs
  BY <1>0, DurationType, RemainingOfDuration
<1>2. StartDcsTail(c, s) = t  BY DEF StartDcsTail
<1> HIDE DEF n
<1>3. t \in State  BY <1>0, <1>1 DEF State
<1>4. Progress(t, left) /\ t.txState = "toc"  BY <1>0, <1>1 DEF Progress, State, Keyed
<1> QED BY <1>2, <1>3, <1>4

LEMMA BeginReleaseProgress ==
  ASSUME TransmitAssumption, NEW c \in Config, ValidPolicy(c), NEW s \in State,
         NEW in \in Input, NEW left \in Nat \ {0}, Keyed(s)
  PROVE  /\ BeginRelease(c, s, in) \in State
         /\ Progress(BeginRelease(c, s, in), left)
         /\ BeginRelease(c, s, in).txState \in {"toc", "finishing"}
<1> DEFINE dcs   == c.dcsTx /\ c.dcsTurnoff
           toned == s.enabled /\ ~in.inhibit
                      /\ c.toneOff # "None" /\ CtcssTransmitEnabled(c)
           muted == ApplyOption(c, s, "disable")
<1>1. CASE dcs
  <2>1. BeginRelease(c, s, in) = StartDcsTail(c, s)  BY <1>1 DEF BeginRelease
  <2>2. c.dcsTailMs > 0  BY <1>1 DEF ValidPolicy
  <2> QED BY <2>1, <2>2, StartDcsTailProgress
<1>2. CASE ~dcs /\ toned /\ c.toneOff = "ToneRemove"
  <2>1. BeginRelease(c, s, in) = StartNoTone(c, s)  BY <1>2 DEF BeginRelease
  <2> QED BY <2>1, StartNoToneProgress
<1>3. CASE ~dcs /\ toned /\ c.toneOff # "ToneRemove"
  <2>1. BeginRelease(c, s, in) = StartCtcssTail(c, s)  BY <1>3 DEF BeginRelease
  <2> QED BY <2>1, StartCtcssTailProgress
<1>4. CASE ~dcs /\ ~toned
  <2>1. BeginRelease(c, s, in) = StartFinishing(muted, FALSE)  BY <1>4 DEF BeginRelease
  <2>2. muted \in State /\ SameCore(s, muted)  BY ApplyOptionCore DEF Options
  <2>3. muted.ptt  BY <2>2 DEF SameCore, Keyed, Progress
  <2> QED BY <2>1, <2>2, <2>3, StartFinishingProgress
<1> QED BY <1>1, <1>2, <1>3, <1>4

LEMMA RekeyDcsTailProgress ==
  ASSUME TransmitAssumption, NEW s \in State, NEW left \in Nat,
         s.txState = "toc", Progress(s, 0)
  PROVE  /\ RekeyDcsTail(s) \in State
         /\ Progress(RekeyDcsTail(s), left)
         /\ RekeyDcsTail(s).txState = "active"
<1> DEFINE u == [s EXCEPT !.txState = "active", !.phase = "None",
                          !.turnoffFrames = 0, !.legacyFrames = 0]
<1>1. u \in State  BY SetCountdowns
<1>2. Progress(u, left) /\ u.txState = "active"  BY DEF Progress, State
<1>3. RekeyDcsTail(s) = [u EXCEPT !.dcsMs = 0, !.smodeTimer = HoldMs]
  BY DEF RekeyDcsTail
<1> HIDE DEF u
<1>4. [u EXCEPT !.dcsMs = 0, !.smodeTimer = HoldMs] \in State
  BY <1>1 DEF State, TransmitAssumption
<1>5. u.phase = "None"  BY DEF u, State
<1>6. /\ Progress([u EXCEPT !.dcsMs = 0, !.smodeTimer = HoldMs], left)
      /\ [u EXCEPT !.dcsMs = 0, !.smodeTimer = HoldMs].txState = "active"
  BY <1>1, <1>2, <1>5 DEF Progress, State
<1> QED BY <1>3, <1>4, <1>6

LEMMA RekeyCtcssTailProgress ==
  ASSUME TransmitAssumption, NEW c \in Config, NEW s \in State, NEW left \in Nat,
         s.txState = "toc", Progress(s, 0)
  PROVE  /\ RekeyCtcssTail(c, s) \in State
         /\ Progress(RekeyCtcssTail(c, s), left)
         /\ RekeyCtcssTail(c, s).txState = "active"
<1> DEFINE u == [s EXCEPT !.txState = "active", !.phase = "None",
                          !.turnoffFrames = 0, !.legacyFrames = 0]
           v == [u EXCEPT !.smodeTimer = HoldMs]
<1>1. u \in State  BY SetCountdowns
<1>2. Progress(u, left) /\ u.txState = "active"  BY DEF Progress, State
<1>3. RekeyCtcssTail(c, s) = ApplyOption(c, v, "start")
  BY DEF RekeyCtcssTail
<1> HIDE DEF u
<1>4. v \in State /\ SameCore(u, v)  BY <1>1 DEF State, SameCore, TransmitAssumption
<1> HIDE DEF v
<1>5. ApplyOption(c, v, "start") \in State /\ SameCore(v, ApplyOption(c, v, "start"))
  BY <1>4, ApplyOptionCore DEF Options
<1> QED BY <1>2, <1>3, <1>4, <1>5, ProgressSameCore DEF SameCore

LEMMA KeyUpProgress ==
  ASSUME TransmitAssumption, NEW c \in Config, NEW s \in State, NEW in \in Input,
         NEW left \in Nat
  PROVE  /\ KeyUp(c, s, in) \in State
         /\ Progress(KeyUp(c, s, in), left)
         /\ KeyUp(c, s, in).txState = "active"
<1> DEFINE t == ApplyPending(c, SelectStart(c, s, in))
           u == [t EXCEPT !.txState = "active", !.ptt = TRUE, !.phase = "None",
                          !.turnoffFrames = 0, !.legacyFrames = 0]
           v == [u EXCEPT !.finishFrames = 0, !.dcsMs = IF c.dcsTx THEN 0 ELSE t.dcsMs,
                          !.smodeTimer = HoldMs, !.settleMs = c.settleMs]
<1>1. t \in State  BY SelectStartCore, ApplyPendingCore
<1>2. KeyUp(c, s, in) = v  BY <1>1 DEF KeyUp, State
<1> HIDE DEF t
<1>3. u \in State
  <2> DEFINE a == [t EXCEPT !.txState = "active", !.ptt = TRUE]
             b == [a EXCEPT !.phase = "None"]
  <2>1. a \in State  BY <1>1 DEF State
  <2> HIDE DEF a
  <2>2. b \in State  BY <2>1 DEF State
  <2> HIDE DEF b
  <2>3. [b EXCEPT !.turnoffFrames = 0, !.legacyFrames = 0] \in State  BY <2>2 DEF State
  <2> QED BY <2>3 DEF a, b
<1>4. u.txState = "active" /\ u.ptt /\ u.phase = "None" /\ u.turnoffFrames = 0
  BY <1>1 DEF State
<1>5. t.dcsMs \in Nat /\ HoldMs \in Nat /\ c.settleMs \in Nat
  BY <1>1 DEF State, Config, TransmitAssumption
<1> HIDE DEF u
<1>6. v \in State
  <2> DEFINE n == IF c.dcsTx THEN 0 ELSE t.dcsMs
             a == [u EXCEPT !.finishFrames = 0]
             b == [a EXCEPT !.dcsMs = n]
             d == [b EXCEPT !.smodeTimer = HoldMs]
  <2>1. a \in State  BY <1>3 DEF State
  <2>2. n \in Nat  BY <1>5
  <2> HIDE DEF a, n
  <2>3. b \in State  BY <2>1, <2>2 DEF State
  <2> HIDE DEF b
  <2>4. d \in State  BY <2>3, <1>5 DEF State
  <2> HIDE DEF d
  <2>5. [d EXCEPT !.settleMs = c.settleMs] \in State  BY <2>4, <1>5 DEF State
  <2> QED BY <2>5 DEF a, b, d, n
<1>7. Progress(v, left) /\ v.txState = "active"  BY <1>3, <1>4 DEF Progress, State
<1> QED BY <1>2, <1>6, <1>7

LEMMA StayKeyedProgress ==
  ASSUME TransmitAssumption, NEW c \in Config, NEW s \in State, NEW in \in Input
  PROVE  StayKeyed(c, s, in) \in State /\ SameCore(s, StayKeyed(c, s, in))
<1> DEFINE held == [s EXCEPT !.smodeTimer = HoldMs]
           t == IF ~in.inhibit /\ ~s.enabled THEN SelectStart(c, held, in) ELSE held
<1>1. held \in State /\ SameCore(s, held)  BY DEF State, SameCore, TransmitAssumption
<1> HIDE DEF held
<1>2. t \in State /\ SameCore(held, t)  BY <1>1, SelectStartCore DEF SameCore
<1> HIDE DEF t
<1>3. ApplyPending(c, t) \in State /\ SameCore(t, ApplyPending(c, t))
  BY <1>2, ApplyPendingCore
<1>4. StayKeyed(c, s, in) = ApplyPending(c, t)  BY DEF StayKeyed, t, held
<1> QED BY <1>1, <1>2, <1>3, <1>4 DEF SameCore

(* Rendering: a tick in progress *)

Intents ==
  [ptt : BOOLEAN, option : Options, osc : {"disabled", "active", "turnoff"},
   enabled : BOOLEAN, burst : BOOLEAN, tail : BOOLEAN, turnoffMs : Nat,
   freq : Freqs \cup {0}, dcs : BOOLEAN]
Spans == [intent : Intents, frames : Nat \ {0}]
Works ==
  [s : State, left : Nat, spans : Seq(Spans), status : BOOLEAN,
   arm : Nat \cup {NoArm}, ok : BOOLEAN]

LEMMA IntentType ==
  ASSUME NEW s \in State
  PROVE  Intent(s) \in Intents
BY DEF Intent, Intents, State

\* append_current_span consumes the frames it is given and nothing else.
LEMMA EmitType ==
  ASSUME NEW w \in Works, NEW s \in State, NEW n \in 0 .. w.left
  PROVE  LET e == Emit(w, s, n) IN
         /\ e \in Works /\ e.left = w.left - n /\ SameCore(s, e.s)
         /\ e.status = w.status /\ e.arm = w.arm
<1> DEFINE last == Len(w.spans)
           t == [s EXCEPT !.burst = FALSE]
           m == [w EXCEPT !.s = t, !.left = w.left - n]
           merged == [w.spans EXCEPT ![last].frames = @ + n]
           longer == Append(w.spans, Span(Intent(s), n))
<1>0. w.left \in Nat /\ w.spans \in Seq(Spans) /\ last \in Nat  BY DEF Works
<1>1. t \in State /\ SameCore(s, t)  BY DEF State, SameCore
<1> HIDE DEF t
<1>2. /\ m \in Works /\ m.left = w.left - n /\ m.s = t
      /\ m.status = w.status /\ m.arm = w.arm /\ m.spans = w.spans
  <2>1. w.left - n \in Nat  BY <1>0
  <2>2. m \in Works  BY <1>1, <2>1 DEF Works
  <2> QED BY <2>2 DEF Works
<1>3. CASE n = 0
  <2>1. [w EXCEPT !.s = s] \in Works  BY DEF Works
  <2>2. Emit(w, s, n) = [w EXCEPT !.s = s]  BY <1>3 DEF Emit
  <2> QED BY <1>0, <1>3, <2>1, <2>2 DEF Works, SameCore
<1>4. CASE n # 0 /\ last > 0 /\ w.spans[last].intent = Intent(s)
  <2>1. Emit(w, s, n) = [m EXCEPT !.spans[last].frames = @ + n]
    BY <1>4 DEF Emit, t
  <2>2. w.spans[last] \in Spans /\ last \in 1 .. Len(w.spans)  BY <1>0, <1>4
  <2>3. [w.spans[last] EXCEPT !.frames = @ + n] \in Spans
    BY <1>4, <2>2 DEF Spans
  <2>4. merged \in Seq(Spans)  BY <1>0, <2>2, <2>3
  <2> HIDE DEF m
  <2>5. Emit(w, s, n) = [m EXCEPT !.spans = merged]  BY <1>2, <2>1
  <2> HIDE DEF merged
  <2> QED BY <1>1, <1>2, <2>4, <2>5 DEF Works
<1>5. CASE n # 0 /\ ~(last > 0 /\ w.spans[last].intent = Intent(s))
            /\ last = MaxRenderSpans
  <2>1. Emit(w, s, n) = [m EXCEPT !.ok = FALSE]  BY <1>5 DEF Emit, t
  <2> HIDE DEF m
  <2> QED BY <1>1, <1>2, <2>1 DEF Works
<1>6. CASE n # 0 /\ ~(last > 0 /\ w.spans[last].intent = Intent(s))
            /\ last # MaxRenderSpans
  <2>1. Emit(w, s, n) = [m EXCEPT !.spans = Append(@, Span(Intent(s), n))]
    BY <1>6 DEF Emit, t
  <2>2. Span(Intent(s), n) \in Spans  BY <1>0, <1>6, IntentType DEF Span, Spans
  <2>3. longer \in Seq(Spans)  BY <1>0, <2>2
  <2> HIDE DEF m
  <2>4. Emit(w, s, n) = [m EXCEPT !.spans = longer]  BY <1>2, <2>1
  <2> HIDE DEF longer
  <2> QED BY <1>1, <1>2, <2>3, <2>4 DEF Works
<1> QED BY <1>3, <1>4, <1>5, <1>6

\* The renderer spends min(turnoffFrames, left) frames of a turn-off phase.
LEMMA EmitTurnoffType ==
  ASSUME NEW w \in Works
  PROVE  LET n == Least(w.s.turnoffFrames, w.left)
             u == [w.s EXCEPT !.turnoffFrames = w.s.turnoffFrames - n]
             e == EmitTurnoff(w)
         IN  /\ n \in Nat /\ n <= w.left /\ n <= w.s.turnoffFrames
             /\ u \in State /\ e \in Works /\ e.left = w.left - n /\ SameCore(u, e.s)
             /\ e.status = w.status /\ e.arm = w.arm
             /\ e.s.turnoffFrames > 0 => e.left = 0
<1> DEFINE n == Least(w.s.turnoffFrames, w.left)
           u == [w.s EXCEPT !.turnoffFrames = w.s.turnoffFrames - n]
<1>1. w.s \in State /\ w.s.turnoffFrames \in Nat /\ w.left \in Nat
  BY DEF Works, State
<1>2. /\ n \in 0 .. w.left /\ n <= w.s.turnoffFrames
      /\ w.s.turnoffFrames - n > 0 => n = w.left
  BY <1>1 DEF Least
<1>3. EmitTurnoff(w) = Emit(w, u, n)  BY DEF EmitTurnoff
<1> HIDE DEF n
<1>4. u \in State /\ u.turnoffFrames = w.s.turnoffFrames - n
  BY <1>1, <1>2 DEF State
<1> HIDE DEF u
<1>5. LET e == Emit(w, u, n) IN
      /\ e \in Works /\ e.left = w.left - n /\ SameCore(u, e.s)
      /\ e.status = w.status /\ e.arm = w.arm
  BY <1>2, <1>4, EmitType
<1>6. EmitTurnoff(w).s.turnoffFrames > 0 => EmitTurnoff(w).left = 0
  BY <1>1, <1>2, <1>3, <1>4, <1>5 DEF SameCore
<1> QED BY <1>1, <1>2, <1>3, <1>4, <1>5, <1>6 DEF n, u

LEMMA EmitFinishType ==
  ASSUME NEW w \in Works
  PROVE  LET n == Least(w.s.finishFrames, w.left)
             u == [w.s EXCEPT !.finishFrames = w.s.finishFrames - n]
             e == EmitFinish(w)
         IN  /\ n \in Nat /\ n <= w.left /\ n <= w.s.finishFrames
             /\ u \in State /\ e \in Works /\ e.left = w.left - n /\ SameCore(u, e.s)
             /\ e.status = w.status /\ e.arm = w.arm
             /\ e.s.finishFrames > 0 => e.left = 0
<1> DEFINE n == Least(w.s.finishFrames, w.left)
           u == [w.s EXCEPT !.finishFrames = w.s.finishFrames - n]
<1>1. w.s \in State /\ w.s.finishFrames \in Nat /\ w.left \in Nat
  BY DEF Works, State
<1>2. /\ n \in 0 .. w.left /\ n <= w.s.finishFrames
      /\ w.s.finishFrames - n > 0 => n = w.left
  BY <1>1 DEF Least
<1>3. EmitFinish(w) = Emit(w, u, n)  BY DEF EmitFinish
<1> HIDE DEF n
<1>4. u \in State /\ u.finishFrames = w.s.finishFrames - n
  BY <1>1, <1>2 DEF State
<1> HIDE DEF u
<1>5. LET e == Emit(w, u, n) IN
      /\ e \in Works /\ e.left = w.left - n /\ SameCore(u, e.s)
      /\ e.status = w.status /\ e.arm = w.arm
  BY <1>2, <1>4, EmitType
<1>6. EmitFinish(w).s.finishFrames > 0 => EmitFinish(w).left = 0
  BY <1>1, <1>2, <1>3, <1>4, <1>5 DEF SameCore
<1> QED BY <1>1, <1>2, <1>3, <1>4, <1>5, <1>6 DEF n, u

(* The iterations of advance_render_timeline *)

\* How many iterations a callback can still need from state s.
Rank(s) ==
  IF s.txState \in {"idle", "active"} THEN 1
  ELSE IF s.txState = "complete" THEN 2
  ELSE IF s.txState = "finishing" \/ s.phase = "NoTone" THEN 3
  ELSE IF s.phase = "CtcssTail" THEN 5 ELSE 4

\* What one iteration keeps: it ends the callback or lowers the rank, arms
\* blanking and queues the status event exactly when it drops PTT, and never
\* leaves IDLE or enters or leaves ACTIVE.
Advances(c, w, e) ==
  /\ e \in Works /\ Progress(e.s, e.left)
  /\ e.left = 0 \/ Rank(e.s) < Rank(w.s)
  /\ IF w.s.ptt /\ ~e.s.ptt
       THEN e.arm = c.blankingMs /\ e.status = TRUE
       ELSE e.arm = w.arm /\ e.status = w.status
  /\ w.s.txState \in {"idle", "active"} => e.s.txState = w.s.txState
  /\ w.s.txState \notin {"idle", "active"} => e.s.txState # "active"

\* Works keep their other fields when an iteration replaces the state.
LEMMA SetWorkState ==
  ASSUME NEW w \in Works, NEW s \in State
  PROVE  /\ [w EXCEPT !.s = s] \in Works /\ [w EXCEPT !.s = s].s = s
         /\ [w EXCEPT !.s = s].left = w.left /\ [w EXCEPT !.s = s].arm = w.arm
         /\ [w EXCEPT !.s = s].status = w.status
BY DEF Works

LEMMA WorkFields ==
  ASSUME NEW w \in Works
  PROVE  /\ w.s \in State /\ w.left \in Nat /\ w.s.turnoffFrames \in Nat
         /\ w.s.finishFrames \in Nat /\ w.s.ptt \in BOOLEAN
         /\ w.status \in BOOLEAN /\ w.arm \in Nat \cup {NoArm}
BY DEF Works, State

LEMMA IdlePhaseAdvances ==
  ASSUME NEW c, NEW w \in Works, Progress(w.s, w.left),
         w.s.txState \in {"idle", "active"}
  PROVE  Advances(c, w, Emit(w, w.s, w.left))
<1> DEFINE e == Emit(w, w.s, w.left)
<1>1. w.s \in State /\ w.left \in 0 .. w.left /\ w.left \in Nat  BY DEF Works
<1>2. /\ e \in Works /\ e.left = 0 /\ SameCore(w.s, e.s)
      /\ e.status = w.status /\ e.arm = w.arm
  BY <1>1, EmitType
<1> HIDE DEF e
<1>3. Progress(e.s, e.left)  BY <1>2 DEF SameCore, Progress
<1>4. e.s.ptt = w.s.ptt /\ e.s.txState = w.s.txState  BY <1>2 DEF SameCore
<1>5. Advances(c, w, e)  BY <1>2, <1>3, <1>4 DEF Advances
<1> QED BY <1>5 DEF e

LEMMA TailPhaseAdvances ==
  ASSUME TransmitAssumption, NEW c \in Config, NEW w \in Works,
         Progress(w.s, w.left), w.s.txState = "toc", w.s.phase = "CtcssTail"
  PROVE  Advances(c, w, TailPhase(c, w))
<1> DEFINE e == EmitTurnoff(w)
           timed == CountTail(e.s, w.left - e.left)
           muted == ApplyOption(c, timed, "disable")
           g == [muted EXCEPT !.phase = "CtcssGap", !.turnoffFrames = IntervalFrames]
           n == Least(w.s.turnoffFrames, w.left)
           u == [w.s EXCEPT !.turnoffFrames = w.s.turnoffFrames - n]
<1>0. w.s \in State /\ w.s.turnoffFrames \in Nat /\ w.left \in Nat  BY WorkFields
<1>1. /\ e \in Works /\ SameCore(u, e.s) /\ e.status = w.status /\ e.arm = w.arm
      /\ e.s.turnoffFrames > 0 => e.left = 0
      /\ n \in Nat /\ e.left = w.left - n
  BY EmitTurnoffType
<1>2. /\ u.txState = "toc" /\ u.phase = "CtcssTail" /\ u.ptt /\ u.finishFrames = 0
      /\ w.s.ptt
  BY <1>0 DEF Progress, State
<1> HIDE DEF u, n
<1>3. TailPhase(c, w) = IF timed.turnoffFrames > 0 THEN [e EXCEPT !.s = timed]
                        ELSE [e EXCEPT !.s = g]
  BY DEF TailPhase
<1> HIDE DEF e
<1>4. e.s \in State /\ w.left - e.left \in Nat  BY <1>0, <1>1, WorkFields
<1>5. timed \in State /\ SameCore(e.s, timed)  BY <1>4, CountTailCore
<1> HIDE DEF timed
<1>6. /\ timed.txState = "toc" /\ timed.phase = "CtcssTail" /\ timed.ptt
      /\ timed.finishFrames = 0 /\ timed.turnoffFrames = e.s.turnoffFrames
      /\ timed.turnoffFrames \in Nat
  BY <1>1, <1>2, <1>4, <1>5, WorkFields DEF SameCore
<1>7. CASE timed.turnoffFrames > 0
  <2>1. TailPhase(c, w) = [e EXCEPT !.s = timed]  BY <1>3, <1>7
  <2>2. Progress(timed, e.left)  BY <1>6, <1>7 DEF Progress
  <2>3. e.left = 0  BY <1>1, <1>6, <1>7
  <2> QED BY <1>1, <1>2, <1>5, <1>6, <2>1, <2>2, <2>3, SetWorkState DEF Advances
<1>8. CASE ~(timed.turnoffFrames > 0)
  <2>1. muted \in State /\ SameCore(timed, muted)  BY <1>5, ApplyOptionCore DEF Options
  <2>2. TailPhase(c, w) = [e EXCEPT !.s = g]  BY <1>3, <1>8
  <2> HIDE DEF muted
  <2>3. g \in State  BY <2>1, IntervalPositive DEF State
  <2>4. /\ g.txState = "toc" /\ g.phase = "CtcssGap" /\ g.ptt /\ g.finishFrames = 0
        /\ g.turnoffFrames > 0
    <3>1. muted.txState = "toc" /\ muted.ptt /\ muted.finishFrames = 0
      BY <1>6, <2>1 DEF SameCore
    <3> QED BY <2>1, <3>1, IntervalPositive DEF State
  <2> HIDE DEF g
  <2>5. Progress(g, e.left)  BY <2>4 DEF Progress
  <2>6. Rank(g) < Rank(w.s)  BY <2>4 DEF Rank
  <2> QED BY <1>1, <1>2, <2>2, <2>3, <2>4, <2>5, <2>6, SetWorkState DEF Advances
<1> QED BY <1>7, <1>8

LEMMA GapPhaseAdvances ==
  ASSUME TransmitAssumption, NEW c \in Config, NEW w \in Works,
         Progress(w.s, w.left), w.s.txState = "toc", w.s.phase = "CtcssGap"
  PROVE  Advances(c, w, GapPhase(c, w))
<1> DEFINE e == EmitTurnoff(w)
           g == StartFinishing(e.s, c.toneOff = "TailTone")
           n == Least(w.s.turnoffFrames, w.left)
           u == [w.s EXCEPT !.turnoffFrames = w.s.turnoffFrames - n]
<1>0. w.s \in State /\ w.s.turnoffFrames \in Nat  BY WorkFields
<1>1. /\ e \in Works /\ SameCore(u, e.s) /\ e.status = w.status /\ e.arm = w.arm
      /\ e.s.turnoffFrames > 0 => e.left = 0
  BY EmitTurnoffType
<1>2. /\ u.txState = "toc" /\ u.phase = "CtcssGap" /\ u.ptt /\ u.finishFrames = 0
      /\ w.s.ptt
  BY <1>0 DEF Progress, State
<1> HIDE DEF u, e
<1>3. /\ e.s.txState = "toc" /\ e.s.phase = "CtcssGap" /\ e.s.ptt
      /\ e.s.finishFrames = 0 /\ e.s.turnoffFrames \in Nat /\ e.s \in State
      /\ e.left \in Nat
  BY <1>1, <1>2, WorkFields DEF SameCore
<1>4. CASE e.s.turnoffFrames > 0
  <2>1. GapPhase(c, w) = e  BY <1>4 DEF GapPhase, e
  <2>2. Progress(e.s, e.left)  BY <1>3, <1>4 DEF Progress
  <2>3. e.left = 0  BY <1>1, <1>4
  <2> QED BY <1>1, <1>2, <1>3, <2>1, <2>2, <2>3 DEF Advances
<1>5. CASE ~(e.s.turnoffFrames > 0)
  <2>1. g \in State /\ Progress(g, e.left) /\ g.txState = "finishing"
    BY <1>3, StartFinishingProgress
  <2>2. GapPhase(c, w) = [e EXCEPT !.s = g]  BY <1>5 DEF GapPhase, e
  <2> HIDE DEF g
  <2>3. g.ptt  BY <2>1 DEF Progress
  <2>4. Rank(g) < Rank(w.s)  BY <2>1 DEF Rank
  <2> QED BY <1>1, <1>2, <2>1, <2>2, <2>3, <2>4, SetWorkState DEF Advances
<1> QED BY <1>4, <1>5

LEMMA DcsPhaseAdvances ==
  ASSUME TransmitAssumption, NEW c \in Config, NEW w \in Works,
         Progress(w.s, w.left), w.s.txState = "toc", w.s.phase = "DcsTail"
  PROVE  Advances(c, w, DcsPhase(w))
<1> DEFINE e == EmitTurnoff(w)
           t == [e.s EXCEPT !.dcsMs = RemainingMs(e.s.turnoffFrames)]
           g == StartFinishing(t, FALSE)
           n == Least(w.s.turnoffFrames, w.left)
           u == [w.s EXCEPT !.turnoffFrames = w.s.turnoffFrames - n]
<1>0. w.s \in State /\ w.s.turnoffFrames \in Nat  BY WorkFields
<1>1. /\ e \in Works /\ SameCore(u, e.s) /\ e.status = w.status /\ e.arm = w.arm
      /\ e.s.turnoffFrames > 0 => e.left = 0
  BY EmitTurnoffType
<1>2. /\ u.txState = "toc" /\ u.phase = "DcsTail" /\ u.ptt /\ u.finishFrames = 0
      /\ w.s.ptt
  BY <1>0 DEF Progress, State
<1> HIDE DEF u, e
<1>3. /\ e.s.txState = "toc" /\ e.s.phase = "DcsTail" /\ e.s.ptt
      /\ e.s.finishFrames = 0 /\ e.s.turnoffFrames \in Nat /\ e.s \in State
      /\ e.left \in Nat
  BY <1>1, <1>2, WorkFields DEF SameCore
<1>4. RemainingMs(e.s.turnoffFrames) \in Nat
  BY <1>3, CeilDivNat DEF RemainingMs, TransmitAssumption
<1>5. t \in State  BY <1>3, <1>4 DEF State
<1>6. /\ t.txState = "toc" /\ t.phase = "DcsTail" /\ t.ptt /\ t.finishFrames = 0
      /\ t.turnoffFrames = e.s.turnoffFrames
      /\ t.dcsMs = RemainingMs(e.s.turnoffFrames)
  BY <1>3 DEF State
<1>7. CASE e.s.turnoffFrames > 0
  <2>1. DcsPhase(w) = [e EXCEPT !.s = t]
    <3>1. t.turnoffFrames > 0  BY <1>6, <1>7
    <3> QED BY <3>1 DEF DcsPhase, e
  <2> HIDE DEF t
  <2>2. Progress(t, e.left)  BY <1>6, <1>7 DEF Progress
  <2>3. e.left = 0  BY <1>1, <1>7
  <2> QED BY <1>1, <1>2, <1>5, <1>6, <2>1, <2>2, <2>3, SetWorkState DEF Advances
<1>8. CASE ~(e.s.turnoffFrames > 0)
  <2>1. g \in State /\ Progress(g, e.left) /\ g.txState = "finishing"
    <3> HIDE DEF t
    <3> QED BY <1>3, <1>5, <1>6, StartFinishingProgress
  <2>2. DcsPhase(w) = [e EXCEPT !.s = g]
    <3>1. ~(t.turnoffFrames > 0)  BY <1>6, <1>8
    <3> QED BY <3>1 DEF DcsPhase, e
  <2> HIDE DEF g
  <2>3. g.ptt  BY <2>1 DEF Progress
  <2>4. Rank(g) < Rank(w.s)  BY <2>1 DEF Rank
  <2> QED BY <1>1, <1>2, <2>1, <2>2, <2>3, <2>4, SetWorkState DEF Advances
<1> QED BY <1>7, <1>8

LEMMA NoTonePhaseAdvances ==
  ASSUME TransmitAssumption, NEW c \in Config, NEW w \in Works,
         Progress(w.s, w.left), w.s.txState = "toc", w.s.phase = "NoTone"
  PROVE  Advances(c, w, NoTonePhase(w))
<1> DEFINE e == EmitTurnoff(w)
           g == [e.s EXCEPT !.txState = "complete"]
           n == Least(w.s.turnoffFrames, w.left)
           u == [w.s EXCEPT !.turnoffFrames = w.s.turnoffFrames - n]
<1>0. w.s \in State /\ w.s.turnoffFrames \in Nat  BY WorkFields
<1>1. /\ e \in Works /\ SameCore(u, e.s) /\ e.status = w.status /\ e.arm = w.arm
      /\ e.s.turnoffFrames > 0 => e.left = 0
  BY EmitTurnoffType
<1>2. /\ u.txState = "toc" /\ u.phase = "NoTone" /\ u.ptt /\ u.finishFrames = 0
      /\ w.s.ptt
  BY <1>0 DEF Progress, State
<1> HIDE DEF u, e
<1>3. /\ e.s.txState = "toc" /\ e.s.phase = "NoTone" /\ e.s.ptt
      /\ e.s.finishFrames = 0 /\ e.s.turnoffFrames \in Nat /\ e.s \in State
      /\ e.left \in Nat
  BY <1>1, <1>2, WorkFields DEF SameCore
<1>4. CASE e.s.turnoffFrames > 0
  <2>1. NoTonePhase(w) = e  BY <1>4 DEF NoTonePhase, e
  <2>2. Progress(e.s, e.left)  BY <1>3, <1>4 DEF Progress
  <2>3. e.left = 0  BY <1>1, <1>4
  <2> QED BY <1>1, <1>2, <1>3, <2>1, <2>2, <2>3 DEF Advances
<1>5. CASE ~(e.s.turnoffFrames > 0)
  <2>1. NoTonePhase(w) = [e EXCEPT !.s = g]
    <3>1. NoTonePhase(w) = [e EXCEPT !.s.txState = "complete"]
      BY <1>5 DEF NoTonePhase, e
    <3> QED BY <3>1
  <2>2. g \in State  BY <1>3 DEF State
  <2>3. /\ g.txState = "complete" /\ g.phase = "NoTone" /\ g.ptt
        /\ g.finishFrames = 0 /\ g.turnoffFrames = 0
    BY <1>3, <1>5 DEF State
  <2> HIDE DEF g
  <2>4. Progress(g, e.left)  BY <2>3 DEF Progress
  <2>5. Rank(g) < Rank(w.s)  BY <2>3 DEF Rank
  <2> QED BY <1>1, <1>2, <2>1, <2>2, <2>3, <2>4, <2>5, SetWorkState DEF Advances
<1> QED BY <1>4, <1>5

LEMMA FinishPhaseAdvances ==
  ASSUME TransmitAssumption, NEW c \in Config, NEW w \in Works,
         Progress(w.s, w.left), w.s.txState = "finishing"
  PROVE  Advances(c, w, FinishPhase(w))
<1> DEFINE e == EmitFinish(w)
           g == [e.s EXCEPT !.txState = "complete"]
           n == Least(w.s.finishFrames, w.left)
           u == [w.s EXCEPT !.finishFrames = w.s.finishFrames - n]
<1>0. w.s \in State /\ w.s.finishFrames \in Nat  BY WorkFields
<1>1. /\ e \in Works /\ SameCore(u, e.s) /\ e.status = w.status /\ e.arm = w.arm
      /\ e.s.finishFrames > 0 => e.left = 0
  BY EmitFinishType
<1>2. /\ u.txState = "finishing" /\ u.phase = "None" /\ u.ptt /\ u.turnoffFrames = 0
      /\ w.s.ptt
  BY <1>0 DEF Progress, State
<1> HIDE DEF u, e
<1>3. /\ e.s.txState = "finishing" /\ e.s.phase = "None" /\ e.s.ptt
      /\ e.s.turnoffFrames = 0 /\ e.s.finishFrames \in Nat /\ e.s \in State
      /\ e.left \in Nat
  BY <1>1, <1>2, WorkFields DEF SameCore
<1>4. CASE e.s.finishFrames > 0
  <2>1. FinishPhase(w) = e  BY <1>4 DEF FinishPhase, e
  <2>2. Progress(e.s, e.left)  BY <1>3, <1>4 DEF Progress
  <2>3. e.left = 0  BY <1>1, <1>4
  <2> QED BY <1>1, <1>2, <1>3, <2>1, <2>2, <2>3 DEF Advances
<1>5. CASE ~(e.s.finishFrames > 0)
  <2>1. FinishPhase(w) = [e EXCEPT !.s = g]
    <3>1. FinishPhase(w) = [e EXCEPT !.s.txState = "complete"]
      BY <1>5 DEF FinishPhase, e
    <3> QED BY <3>1
  <2>2. g \in State  BY <1>3 DEF State
  <2>3. /\ g.txState = "complete" /\ g.phase = "None" /\ g.ptt
        /\ g.finishFrames = 0 /\ g.turnoffFrames = 0
    BY <1>3, <1>5 DEF State
  <2> HIDE DEF g
  <2>4. Progress(g, e.left)  BY <2>3 DEF Progress
  <2>5. Rank(g) < Rank(w.s)  BY <2>3 DEF Rank
  <2> QED BY <1>1, <1>2, <2>1, <2>2, <2>3, <2>4, <2>5, SetWorkState DEF Advances
<1> QED BY <1>4, <1>5

\* e completes the turn-off that w has drained.
Completes(c, w, e) ==
  /\ e \in Works /\ e.left = w.left /\ e.arm = c.blankingMs /\ e.status = TRUE
  /\ e.s.txState = "idle" /\ ~e.s.ptt /\ e.s.phase = "None"
  /\ e.s.turnoffFrames = 0 /\ e.s.finishFrames = 0

LEMMA CompleteType ==
  ASSUME NEW c \in Config, NEW w \in Works, Progress(w.s, w.left),
         w.s.txState = "complete"
  PROVE  Completes(c, w, Complete(c, w))
<1> DEFINE u == [w.s EXCEPT !.txState = "idle", !.ptt = FALSE,
                            !.modeOption = "disable"]
           t == [u EXCEPT !.option = "disable", !.phase = "None"]
           e == [w EXCEPT !.s = t, !.status = TRUE, !.arm = c.blankingMs]
<1>0. w.s \in State /\ w.s.turnoffFrames = 0 /\ w.s.finishFrames = 0
  BY WorkFields DEF Progress
<1>1. Complete(c, w) = e  BY DEF Complete
<1>2. u \in State /\ u.txState = "idle" /\ ~u.ptt
      /\ u.turnoffFrames = 0 /\ u.finishFrames = 0
  BY <1>0 DEF State, Options
<1> HIDE DEF u
<1>3. t \in State /\ t.txState = "idle" /\ ~t.ptt /\ t.phase = "None"
      /\ t.turnoffFrames = 0 /\ t.finishFrames = 0
  <2> DEFINE a == [u EXCEPT !.option = "disable"]
  <2>1. a \in State  BY <1>2 DEF State, Options
  <2>2. a.txState = "idle" /\ ~a.ptt /\ a.turnoffFrames = 0 /\ a.finishFrames = 0
    BY <1>2 DEF State
  <2> HIDE DEF a
  <2>3. [a EXCEPT !.phase = "None"] \in State  BY <2>1 DEF State
  <2>4. t = [a EXCEPT !.phase = "None"]  BY DEF a
  <2> HIDE DEF t
  <2>5. /\ t.txState = "idle" /\ ~t.ptt /\ t.phase = "None"
        /\ t.turnoffFrames = 0 /\ t.finishFrames = 0
    BY <2>1, <2>2, <2>4 DEF State
  <2> QED BY <2>3, <2>4, <2>5
<1> HIDE DEF t
<1>4. c.blankingMs \in Nat  BY DEF Config
<1>5. e \in Works  BY <1>3, <1>4 DEF Works
<1>6. /\ e.left = w.left /\ e.arm = c.blankingMs /\ e.status = TRUE /\ e.s = t
  BY DEF Works
<1> HIDE DEF e
<1> QED BY <1>1, <1>3, <1>5, <1>6 DEF Completes

LEMMA CompletePhaseAdvances ==
  ASSUME NEW c \in Config, NEW w \in Works, Progress(w.s, w.left),
         w.s.txState = "complete"
  PROVE  Advances(c, w, CompletePhase(c, w))
<1> DEFINE e == Complete(c, w)
           g == [e.s EXCEPT !.turnoffFrames = 0, !.legacyFrames = 0, !.finishFrames = 0]
<1>1. /\ e \in Works /\ e.left = w.left /\ e.arm = c.blankingMs /\ e.status = TRUE
      /\ e.s.txState = "idle" /\ ~e.s.ptt /\ e.s.phase = "None"
  BY CompleteType DEF Completes
<1>2. CompletePhase(c, w) = [e EXCEPT !.s.turnoffFrames = 0, !.s.legacyFrames = 0,
                                      !.s.finishFrames = 0]
  BY DEF CompletePhase
<1> HIDE DEF e
<1>3. e.s \in State  BY <1>1, WorkFields
<1>4. CompletePhase(c, w) = [e EXCEPT !.s = g]  BY <1>1, <1>2 DEF Works
<1>5. g \in State /\ g.txState = "idle" /\ ~g.ptt /\ g.phase = "None"
      /\ g.turnoffFrames = 0 /\ g.finishFrames = 0
  BY <1>1, <1>3 DEF State
<1> HIDE DEF g
<1>6. Progress(g, e.left)  BY <1>5 DEF Progress
<1>7. Rank(g) < Rank(w.s)  BY <1>5 DEF Rank
<1>8. w.s.ptt  BY DEF Progress
<1> QED BY <1>1, <1>4, <1>5, <1>6, <1>7, <1>8, SetWorkState DEF Advances

LEMMA StatePhaseAdvances ==
  ASSUME TransmitAssumption, NEW c \in Config, NEW w \in Works,
         Progress(w.s, w.left), w.left > 0
  PROVE  Advances(c, w, StatePhase(c, w))
<1>0. w.s \in State /\ w.left \in Nat  BY WorkFields
<1>1. CASE w.s.txState = "idle"
  <2>1. StatePhase(c, w) = Emit(w, w.s, w.left)  BY <1>1, Zenon DEF StatePhase
  <2> QED BY <1>1, <2>1, IdlePhaseAdvances
<1>2. CASE w.s.txState = "active"
  <2>1. StatePhase(c, w) = Emit(w, w.s, w.left)  BY <1>2, Zenon DEF StatePhase
  <2> QED BY <1>2, <2>1, IdlePhaseAdvances
<1>4. CASE w.s.txState = "toc"
  <2>0. StatePhase(c, w) = TurnoffPhase(c, w)  BY <1>4, Zenon DEF StatePhase
  <2>1. CASE w.s.phase = "CtcssTail"
    <3>1. TurnoffPhase(c, w) = TailPhase(c, w)  BY <2>1, Zenon DEF TurnoffPhase
    <3> QED BY <1>4, <2>0, <2>1, <3>1, TailPhaseAdvances
  <2>2. CASE w.s.phase = "CtcssGap"
    <3>1. TurnoffPhase(c, w) = GapPhase(c, w)  BY <2>2, Zenon DEF TurnoffPhase
    <3> QED BY <1>4, <2>0, <2>2, <3>1, GapPhaseAdvances
  <2>3. CASE w.s.phase = "DcsTail"
    <3>1. TurnoffPhase(c, w) = DcsPhase(w)  BY <2>3, Zenon DEF TurnoffPhase
    <3> QED BY <1>4, <2>0, <2>3, <3>1, DcsPhaseAdvances
  <2>4. CASE w.s.phase = "NoTone"
    <3>1. TurnoffPhase(c, w) = NoTonePhase(w)  BY <2>4, Zenon DEF TurnoffPhase
    <3> QED BY <1>4, <2>0, <2>4, <3>1, NoTonePhaseAdvances
  <2>5. w.s.phase # "None"  BY <1>4 DEF Progress
  <2>6. w.s.phase \in {"None", "CtcssTail", "CtcssGap", "DcsTail", "NoTone"}
    BY <1>0 DEF State
  <2> QED BY <2>1, <2>2, <2>3, <2>4, <2>5, <2>6
<1>5. CASE w.s.txState = "finishing"
  <2>1. StatePhase(c, w) = FinishPhase(w)  BY <1>5, Zenon DEF StatePhase
  <2> QED BY <1>5, <2>1, FinishPhaseAdvances
<1>6. CASE w.s.txState = "complete"
  <2>1. StatePhase(c, w) = CompletePhase(c, w)  BY <1>6, Zenon DEF StatePhase
  <2> QED BY <1>6, <2>1, CompletePhaseAdvances
<1>7. w.s.txState \in {"idle", "active", "toc", "finishing", "complete"}
  BY <1>0 DEF State
<1> QED BY <1>1, <1>2, <1>4, <1>5, <1>6, <1>7

LEMMA PhaseAdvances ==
  ASSUME TransmitAssumption, NEW c \in Config, NEW w \in Works, Progress(w.s, w.left)
  PROVE  Advances(c, w, Phase(c, w)) /\ (w.left = 0 => Phase(c, w).left = 0)
<1>0. w.s \in State /\ w.left \in Nat  BY WorkFields
<1>1. CASE w.left = 0
  <2>1. Phase(c, w) = w  BY <1>1, Zenon DEF Phase
  <2> QED BY <1>0, <1>1, <2>1 DEF Advances, Progress
<1>2. CASE w.left > 0
  <2>1. w.left # 0  BY <1>2
  <2>2. Phase(c, w) = StatePhase(c, w)  BY <2>1, Zenon DEF Phase
  <2> QED BY <1>2, <2>2, StatePhaseAdvances
<1> QED BY <1>0, <1>1, <1>2

\* The arm, the status event and the states e may have reached from w.
Releases(c, w, e) ==
  /\ IF w.s.ptt /\ ~e.s.ptt
       THEN e.arm = c.blankingMs /\ e.status = TRUE
       ELSE e.arm = w.arm /\ e.status = w.status
  /\ w.s.txState \in {"idle", "active"} => e.s.txState = w.s.txState

\* e follows w with at most k iterations to come.
Reaches(c, w, e, k) ==
  /\ e \in Works /\ Progress(e.s, e.left)
  /\ e.left = 0 \/ Rank(e.s) <= k
  /\ Releases(c, w, e)

LEMMA RankBounds ==
  ASSUME NEW s
  PROVE  Rank(s) \in 1 .. 5
BY DEF Rank

LEMMA ReachesAdvances ==
  ASSUME NEW c \in Config, NEW w \in Works, NEW e, NEW f, NEW k \in Nat,
         Progress(w.s, w.left), Reaches(c, w, e, k + 1), Advances(c, e, f),
         e.left = 0 => f.left = 0
  PROVE  Reaches(c, w, f, k)
<1>1. f.left = 0 \/ Rank(f.s) <= k
  <2>1. CASE e.left = 0
    BY <2>1
  <2>2. CASE e.left # 0
    <3>1. Rank(e.s) <= k + 1  BY <2>2 DEF Reaches
    <3>2. Rank(f.s) \in Nat /\ Rank(e.s) \in Nat  BY RankBounds
    <3> QED BY <3>1, <3>2 DEF Advances
  <2> QED BY <2>1, <2>2
<1>2. /\ w.s.ptt <=> w.s.txState # "idle"
      /\ e.s.ptt <=> e.s.txState # "idle"
      /\ f.s.ptt <=> f.s.txState # "idle"
  BY DEF Reaches, Advances, Progress
<1>3. Releases(c, w, f)  BY <1>2 DEF Reaches, Advances, Releases
<1> QED BY <1>1, <1>3 DEF Reaches, Advances

\* Five iterations exhaust any callback: no frame is left, and no turn-off is
\* left half way between two phases.
LEMMA RenderTimelineType ==
  ASSUME TransmitAssumption, NEW c \in Config, NEW w \in Works, Progress(w.s, w.left)
  PROVE  LET e == RenderTimeline(c, w) IN
         e \in Works /\ e.left = 0 /\ Coherent(e.s) /\ Releases(c, w, e)
<1> DEFINE w1 == Phase(c, w)   w2 == Phase(c, w1)  w3 == Phase(c, w2)
           w4 == Phase(c, w3)  w5 == Phase(c, w4)
<1>0. Reaches(c, w, w, 5)
  <2>1. Rank(w.s) <= 5  BY RankBounds
  <2> QED BY <2>1 DEF Reaches, Releases
<1>1. Reaches(c, w, w1, 4)
  <2>1. Advances(c, w, w1) /\ (w.left = 0 => w1.left = 0)
    BY PhaseAdvances
  <2> QED BY <1>0, <2>1, ReachesAdvances
<1> HIDE DEF w1
<1>2. Reaches(c, w, w2, 3)
  <2>1. Advances(c, w1, w2) /\ (w1.left = 0 => w2.left = 0)
    BY <1>1, PhaseAdvances DEF Reaches
  <2> QED BY <1>1, <2>1, ReachesAdvances
<1> HIDE DEF w2
<1>3. Reaches(c, w, w3, 2)
  <2>1. Advances(c, w2, w3) /\ (w2.left = 0 => w3.left = 0)
    BY <1>2, PhaseAdvances DEF Reaches
  <2> QED BY <1>2, <2>1, ReachesAdvances
<1> HIDE DEF w3
<1>4. Reaches(c, w, w4, 1)
  <2>1. Advances(c, w3, w4) /\ (w3.left = 0 => w4.left = 0)
    BY <1>3, PhaseAdvances DEF Reaches
  <2> QED BY <1>3, <2>1, ReachesAdvances
<1> HIDE DEF w4
<1>5. Reaches(c, w, w5, 0)
  <2>1. Advances(c, w4, w5) /\ (w4.left = 0 => w5.left = 0)
    BY <1>4, PhaseAdvances DEF Reaches
  <2> QED BY <1>4, <2>1, ReachesAdvances
<1> HIDE DEF w5
<1>6. w5 \in Works /\ w5.left = 0 /\ Progress(w5.s, w5.left) /\ Releases(c, w, w5)
  <2>1. Rank(w5.s) \in 1 .. 5  BY RankBounds
  <2> QED BY <1>5, <2>1 DEF Reaches
<1>7. CASE w5.s.txState = "complete"
  <2> DEFINE e == Complete(c, w5)
  <2>1. RenderTimeline(c, w) = e
    BY <1>7, Zenon DEF RenderTimeline, Conclude, w1, w2, w3, w4, w5
  <2>2. Completes(c, w5, e)  BY <1>6, <1>7, CompleteType
  <2> HIDE DEF e
  <2>3. Coherent(e.s)  BY <2>2 DEF Completes, Coherent, Progress
  <2>4. w.s.txState \notin {"idle", "active"}  BY <1>6, <1>7 DEF Releases
  <2>5. w.s.ptt  BY <2>4 DEF Progress
  <2> QED BY <1>6, <2>1, <2>2, <2>3, <2>4, <2>5 DEF Completes, Releases
<1>8. CASE w5.s.txState # "complete"
  <2>1. RenderTimeline(c, w) = w5
    BY <1>8, Zenon DEF RenderTimeline, Conclude, w1, w2, w3, w4, w5
  <2> QED BY <1>6, <1>8, <2>1 DEF Coherent
<1> QED BY <1>7, <1>8

LEMMA SettleCore ==
  ASSUME NEW c \in Config, NEW s \in State, NEW ms \in Nat, NEW in \in Input
  PROVE  Settle(c, s, ms, in) \in State /\ SameCore(s, Settle(c, s, ms, in))
<1> DEFINE left == IF in.physical THEN Consume(s.settleMs, ms) ELSE s.settleMs
           u == [s EXCEPT !.settleMs = left]
           halt == c.cpuSaver /\ ~in.request /\ ~s.ptt /\ s.txState = "idle"
           v == [u EXCEPT !.halted = halt]
           t == ApplyOption(c, v, "disable")
<1>1. left \in Nat /\ halt \in BOOLEAN
  <2>1. s.settleMs \in Nat  BY DEF State
  <2> QED BY <2>1, ConsumeType
<1> HIDE DEF left, halt
<1>2. u \in State /\ SameCore(s, u)  BY <1>1 DEF State, SameCore
<1> HIDE DEF u
<1>3. v \in State /\ SameCore(u, v)  BY <1>1, <1>2 DEF State, SameCore
<1> HIDE DEF v
<1>4. t \in State /\ SameCore(v, t)  BY <1>3, ApplyOptionCore DEF Options
<1>5. Settle(c, s, ms, in) \in {v, t}  BY DEF Settle, v, u, left, halt
<1> HIDE DEF t
<1> QED BY <1>2, <1>3, <1>4, <1>5 DEF SameCore

\* e is what a callback may make of a prepared state p.
Renders(c, p, status, e) ==
  /\ e \in Works /\ Coherent(e.s)
  /\ IF p.ptt /\ ~e.s.ptt
       THEN e.arm = c.blankingMs /\ e.status = TRUE
       ELSE e.arm = NoArm /\ e.status = status
  /\ p.txState \in {"idle", "active"} => e.s.txState = p.txState

LEMMA RenderedType ==
  ASSUME TransmitAssumption, NEW c \in Config, NEW p \in State, NEW ms \in Nat,
         NEW in \in Input, NEW status \in BOOLEAN, Progress(p, in.frames)
  PROVE  Renders(c, p, status, Rendered(c, p, ms, in, status))
<1> DEFINE live == IF in.inhibit THEN ApplyOption(c, p, "disable") ELSE p
           w0 == Work(live, in.frames, status)
           w == RenderTimeline(c, w0)
           s == Settle(c, w.s, ms, in)
<1>1. live \in State /\ SameCore(p, live)
  BY ApplyOptionCore DEF Options, SameCore
<1> HIDE DEF live
<1>2. /\ w0 \in Works /\ w0.s = live /\ w0.left = in.frames /\ w0.arm = NoArm
      /\ w0.status = status
  <2>1. in.frames \in Nat  BY DEF Input
  <2>2. << >> \in Seq(Spans)  OBVIOUS
  <2> QED BY <1>1, <2>1, <2>2 DEF Work, Works
<1> HIDE DEF w0
<1>3. Progress(w0.s, w0.left)  BY <1>1, <1>2, ProgressSameCore DEF Input
<1>4. w \in Works /\ Coherent(w.s) /\ Releases(c, w0, w)
  BY <1>2, <1>3, RenderTimelineType
<1> HIDE DEF w
<1>5. w.s \in State  BY <1>4, WorkFields
<1>6. s \in State /\ SameCore(w.s, s)  BY <1>5, SettleCore
<1>7. Rendered(c, p, ms, in, status) = [w EXCEPT !.s = s]
  BY DEF Rendered, w, w0, live
<1> HIDE DEF s
<1>8. Coherent(s)  BY <1>4, <1>6 DEF Coherent, SameCore, Progress
<1>9. p.ptt = w0.s.ptt /\ p.txState = w0.s.txState
      /\ s.ptt = w.s.ptt /\ s.txState = w.s.txState
  BY <1>1, <1>2, <1>6 DEF SameCore
<1>10. /\ [w EXCEPT !.s = s] \in Works /\ [w EXCEPT !.s = s].s = s
       /\ [w EXCEPT !.s = s].arm = w.arm /\ [w EXCEPT !.s = s].status = w.status
  BY <1>4, <1>6, SetWorkState
<1> QED BY <1>2, <1>4, <1>7, <1>8, <1>9, <1>10 DEF Releases, Renders

(* Frames: the spans of a callback tile it *)

\* The side of a callback's frames that PTT puts them on.
Side(ptt) == IF ptt THEN "on" ELSE "off"

\* What the i-th span adds to the frames on side b.
Term(spans, i, b) ==
  IF i \in 1 .. Len(spans) /\ Side(spans[i].intent.ptt) = b THEN spans[i].frames ELSE 0

\* The frames of at most four spans that are on side b.
Sum(spans, b) ==
  Term(spans, 1, b) + Term(spans, 2, b) + Term(spans, 3, b) + Term(spans, 4, b)

LEMMA TermType ==
  ASSUME NEW spans \in Seq(Spans), NEW i \in Nat, NEW b
  PROVE  Term(spans, i, b) \in Nat
<1>1. CASE i \in 1 .. Len(spans)
  <2>1. spans[i] \in Spans  BY <1>1
  <2> QED BY <2>1 DEF Spans, Term
<1>2. CASE i \notin 1 .. Len(spans)  BY <1>2 DEF Term
<1> QED BY <1>1, <1>2

LEMMA SumType ==
  ASSUME NEW spans \in Seq(Spans), NEW b
  PROVE  Sum(spans, b) \in Nat
BY TermType DEF Sum

LEMMA SumEmpty ==
  ASSUME NEW b
  PROVE  Sum(<< >>, b) = 0
<1>1. \A i \in Nat : Term(<< >>, i, b) = 0  BY DEF Term
<1> QED BY <1>1 DEF Sum

\* Two sequences whose terms differ at one place of four.
LEMMA SumDiffers ==
  ASSUME NEW p \in Seq(Spans), NEW q \in Seq(Spans), NEW b,
         NEW k \in 1 .. 4, NEW n \in Nat,
         \A i \in 1 .. 4 : Term(q, i, b) = Term(p, i, b) + (IF i = k THEN n ELSE 0)
  PROVE  Sum(q, b) = Sum(p, b) + n
<1>1. ASSUME NEW i \in 1 .. 4 PROVE Term(p, i, b) \in Nat /\ Term(q, i, b) \in Nat
  <2>1. i \in Nat  OBVIOUS
  <2> QED BY <2>1, TermType
<1>2. k = 1 \/ k = 2 \/ k = 3 \/ k = 4  OBVIOUS
<1>3. /\ Term(q, 1, b) = Term(p, 1, b) + (IF 1 = k THEN n ELSE 0)
      /\ Term(q, 2, b) = Term(p, 2, b) + (IF 2 = k THEN n ELSE 0)
      /\ Term(q, 3, b) = Term(p, 3, b) + (IF 3 = k THEN n ELSE 0)
      /\ Term(q, 4, b) = Term(p, 4, b) + (IF 4 = k THEN n ELSE 0)
  OBVIOUS
<1>4. /\ Term(p, 1, b) \in Nat /\ Term(p, 2, b) \in Nat
      /\ Term(p, 3, b) \in Nat /\ Term(p, 4, b) \in Nat
  BY <1>1
<1> QED BY <1>2, <1>3, <1>4 DEF Sum

LEMMA SumAppend ==
  ASSUME NEW spans \in Seq(Spans), Len(spans) < 4, NEW x \in Spans, NEW b
  PROVE  Sum(Append(spans, x), b) = Sum(spans, b) + (IF Side(x.intent.ptt) = b THEN x.frames ELSE 0)
<1> DEFINE q == Append(spans, x)
           k == Len(spans) + 1
           n == IF Side(x.intent.ptt) = b THEN x.frames ELSE 0
<1>1. /\ q \in Seq(Spans) /\ Len(q) = k /\ q[k] = x /\ k \in 1 .. 4
      /\ \A i \in 1 .. Len(spans) : q[i] = spans[i]
  OBVIOUS
<1>2. n \in Nat  BY DEF Spans
<1>3. Len(spans) \in Nat  OBVIOUS
<1> HIDE DEF q
<1>4. ASSUME NEW i \in 1 .. 4
      PROVE  Term(q, i, b) = Term(spans, i, b) + (IF i = k THEN n ELSE 0)
  <2>1. CASE i = k
    <3>1. i \in 1 .. Len(q) /\ i \notin 1 .. Len(spans)  BY <1>1, <1>3, <2>1
    <3>2. Term(q, i, b) = n /\ Term(spans, i, b) = 0  BY <1>1, <2>1, <3>1 DEF Term
    <3> HIDE DEF n
    <3> QED BY <1>2, <2>1, <3>2
  <2>2. CASE i # k
    <3>1. i \in 1 .. Len(q) <=> i \in 1 .. Len(spans)  BY <1>1, <1>3, <2>2
    <3>2. Term(q, i, b) = Term(spans, i, b)  BY <1>1, <3>1 DEF Term
    <3>3. Term(spans, i, b) \in Nat  BY TermType
    <3> QED BY <2>2, <3>2, <3>3
  <2> QED BY <2>1, <2>2
<1> HIDE DEF n, k
<1>5. Sum(q, b) = Sum(spans, b) + n  BY <1>1, <1>2, <1>4, SumDiffers
<1> QED BY <1>5 DEF q, n

LEMMA SumMerge ==
  ASSUME NEW spans \in Seq(Spans), Len(spans) \in 1 .. 4, NEW n \in Nat, NEW b
  PROVE  LET k == Len(spans)
             q == [spans EXCEPT ![k].frames = @ + n]
         IN  /\ q \in Seq(Spans) /\ Len(q) = k
             /\ Sum(q, b) = Sum(spans, b) + (IF Side(spans[k].intent.ptt) = b THEN n ELSE 0)
<1> DEFINE k == Len(spans)
           q == [spans EXCEPT ![k].frames = @ + n]
           m == IF Side(spans[k].intent.ptt) = b THEN n ELSE 0
<1>0. spans[k] \in Spans /\ k \in 1 .. 4 /\ k \in 1 .. Len(spans)  OBVIOUS
<1>1. /\ [spans[k] EXCEPT !.frames = @ + n] \in Spans
      /\ [spans[k] EXCEPT !.frames = @ + n].frames = spans[k].frames + n
      /\ [spans[k] EXCEPT !.frames = @ + n].intent = spans[k].intent
      /\ spans[k].frames \in Nat
  BY <1>0 DEF Spans
<1>2. /\ q \in Seq(Spans) /\ Len(q) = k /\ q[k] = [spans[k] EXCEPT !.frames = @ + n]
      /\ \A i \in 1 .. k : i # k => q[i] = spans[i]
  BY <1>0, <1>1
<1> HIDE DEF q
<1>3. ASSUME NEW i \in 1 .. 4
      PROVE  Term(q, i, b) = Term(spans, i, b) + (IF i = k THEN m ELSE 0)
  <2>1. CASE i = k
    <3>1. /\ q[i].frames = spans[i].frames + n /\ q[i].intent = spans[i].intent
          /\ spans[i].frames \in Nat
      BY <1>1, <1>2, <2>1
    <3>2. i \in 1 .. Len(q) /\ i \in 1 .. Len(spans)  BY <1>0, <1>2, <2>1
    <3>3. CASE Side(spans[i].intent.ptt) = b
      <4>1. Term(q, i, b) = q[i].frames /\ Term(spans, i, b) = spans[i].frames /\ m = n
        BY <2>1, <3>1, <3>2, <3>3 DEF Term
      <4> HIDE DEF m
      <4> QED BY <2>1, <3>1, <4>1
    <3>4. CASE Side(spans[i].intent.ptt) # b
      <4>1. Term(q, i, b) = 0 /\ Term(spans, i, b) = 0 /\ m = 0
        BY <2>1, <3>1, <3>2, <3>4 DEF Term
      <4> HIDE DEF m
      <4> QED BY <2>1, <4>1
    <3> QED BY <3>3, <3>4
  <2>2. CASE i # k
    <3>1. Term(q, i, b) = Term(spans, i, b)  BY <1>2, <2>2 DEF Term
    <3>2. Term(spans, i, b) \in Nat  BY TermType
    <3> QED BY <2>2, <3>1, <3>2
  <2> QED BY <2>1, <2>2
<1> HIDE DEF k
<1>4. Sum(q, b) = Sum(spans, b) + m
  <2>1. m \in Nat  OBVIOUS
  <2> HIDE DEF m
  <2> QED BY <1>0, <1>2, <1>3, <2>1, SumDiffers
<1> QED BY <1>2, <1>4 DEF q, m, k

\* append_current_span keeps the frames it is given, on the side of the PTT it
\* renders them with; a timeline with room for one more span never overflows.
LEMMA EmitTiles ==
  ASSUME NEW w \in Works, w.ok, NEW s \in State, NEW n \in Nat, n <= w.left,
         Len(w.spans) <= 4, n = 0 \/ Len(w.spans) < 4
  PROVE  LET e == Emit(w, s, n) IN
         /\ e.ok /\ Len(e.spans) <= 4
         /\ n # 0 => Len(e.spans) <= Len(w.spans) + 1
         /\ \A b :
              Sum(e.spans, b) = Sum(w.spans, b) + (IF Side(s.ptt) = b THEN n ELSE 0)
<1> DEFINE last == Len(w.spans)
           t == [s EXCEPT !.burst = FALSE]
           m == [w EXCEPT !.s = t, !.left = w.left - n]
           merged == [w.spans EXCEPT ![last].frames = @ + n]
           longer == Append(w.spans, Span(Intent(s), n))
<1>0. /\ w.left \in Nat /\ w.spans \in Seq(Spans) /\ last \in Nat /\ n \in Nat
      /\ s.ptt \in BOOLEAN /\ Intent(s).ptt = s.ptt
  BY DEF Works, State, Intent
<1>1. t \in State  BY DEF State
<1> HIDE DEF t
<1>2. last \in Nat /\ last <= 4 /\ (n = 0 \/ last < 4)
  BY <1>0
<1>3. m \in Works /\ m.ok /\ m.spans = w.spans
  <2>1. w.left - n \in Nat  BY <1>0
  <2> QED BY <1>1, <2>1 DEF Works
<1>4. CASE n = 0
  <2> DEFINE e == Emit(w, s, n)
  <2>1. e = [w EXCEPT !.s = s]  BY <1>4 DEF Emit
  <2>2. e.ok = w.ok /\ e.spans = w.spans  BY <2>1 DEF Works
  <2>3. \A b : Sum(w.spans, b) \in Nat  BY <1>0, SumType
  <2> HIDE DEF e
  <2>4. \A b : Sum(e.spans, b) = Sum(w.spans, b) + (IF Side(s.ptt) = b THEN n ELSE 0)
    BY <1>4, <2>2, <2>3
  <2> QED BY <1>4, <2>2, <2>4 DEF e
<1>5. CASE n # 0 /\ last > 0 /\ w.spans[last].intent = Intent(s)
  <2>1. Emit(w, s, n) = [m EXCEPT !.spans[last].frames = @ + n]
    BY <1>5 DEF Emit, t
  <2>2. last \in 1 .. 4 /\ w.spans[last].intent.ptt = s.ptt
    <3>1. w.spans[last].intent.ptt = s.ptt  BY <1>0, <1>5
    <3> HIDE DEF last
    <3> QED BY <1>5, <1>2, <3>1
  <2>3. /\ Len(merged) = last
        /\ \A b :
             Sum(merged, b) = Sum(w.spans, b) + (IF Side(s.ptt) = b THEN n ELSE 0)
    BY <1>0, <2>2, SumMerge
  <2> HIDE DEF m
  <2>4. Emit(w, s, n) = [m EXCEPT !.spans = merged]  BY <1>3, <2>1
  <2> HIDE DEF merged
  <2>5. Emit(w, s, n).ok /\ Emit(w, s, n).spans = merged  BY <1>3, <2>4 DEF Works
  <2>6. Len(Emit(w, s, n).spans) = last  BY <2>3, <2>5
  <2> QED BY <1>0, <2>2, <2>3, <2>5, <2>6
<1>6. CASE n # 0 /\ ~(last > 0 /\ w.spans[last].intent = Intent(s))
  <2>1. last # MaxRenderSpans /\ last < 4
    <3> HIDE DEF last
    <3> QED BY <1>6, <1>2 DEF MaxRenderSpans
  <2>2. Emit(w, s, n) = [m EXCEPT !.spans = Append(@, Span(Intent(s), n))]
    BY <1>6, <2>1 DEF Emit, t
  <2>3. Span(Intent(s), n) \in Spans /\ Span(Intent(s), n).intent.ptt = s.ptt
        /\ Span(Intent(s), n).frames = n
    BY <1>0, <1>6, IntentType DEF Span, Spans
  <2>4. Len(longer) = last + 1  BY <1>0, <2>3
  <2>5. \A b :
          Sum(longer, b) = Sum(w.spans, b) + (IF Side(s.ptt) = b THEN n ELSE 0)
    BY <1>0, <2>1, <2>3, SumAppend
  <2> HIDE DEF m
  <2>6. Emit(w, s, n) = [m EXCEPT !.spans = longer]  BY <1>3, <2>2
  <2> HIDE DEF longer
  <2>7. Emit(w, s, n).ok /\ Emit(w, s, n).spans = longer  BY <1>3, <2>6 DEF Works
  <2> QED BY <1>0, <2>1, <2>4, <2>5, <2>7
<1> QED BY <1>4, <1>5, <1>6

\* Frames of PTT a turn-off in state s still owes under the policy c.
OwedBy(c, s) ==
  IF s.phase = "CtcssTail"
    THEN s.turnoffFrames + IntervalFrames + FinishFrames(c.toneOff = "TailTone")
  ELSE IF s.phase = "CtcssGap" THEN s.turnoffFrames + FinishFrames(c.toneOff = "TailTone")
  ELSE IF s.phase = "DcsTail" THEN s.turnoffFrames + FinishFrames(FALSE)
  ELSE s.turnoffFrames + s.finishFrames

\* Spans a callback can still need from state s: one for each phase it can yet
\* cross, and one for the idle frames after them.
Room(s) ==
  IF s.txState \in {"idle", "active", "complete"} THEN 1
  ELSE IF s.txState = "finishing" \/ s.phase = "NoTone" THEN 2
  ELSE IF s.phase = "CtcssTail" THEN 4 ELSE 3

\* A callback of f frames that began in the transmit state x, with d frames of
\* PTT to spend, has got as far as w: what it has rendered and what it has left
\* is f, every frame before the release carries PTT and none after it does, and
\* a turn-off's debt is what it has spent and what it still owes.
Spends(c, x, f, d, w) ==
  /\ w.ok /\ Len(w.spans) <= 4 /\ (w.left = 0 \/ Len(w.spans) + Room(w.s) <= 4)
  /\ Sum(w.spans, "on") + Sum(w.spans, "off") + w.left = f
  /\ IF w.s.ptt
       THEN /\ Sum(w.spans, "off") = 0
            /\ w.s.txState # "active" => Sum(w.spans, "on") + OwedBy(c, w.s) = d
       ELSE Sum(w.spans, "on") = d
  /\ x \in {"idle", "active"} => w.s.txState = x
  /\ x = "toc" => w.s.txState # "active"
  /\ x = "finishing" => w.s.txState \in {"finishing", "complete", "idle"}

\* e has rendered n more frames than w, in at most one more span, with PTT.
OneSpan(w, n, e) ==
  /\ e.ok /\ e.left = w.left - n
  /\ Len(e.spans) <= 4 /\ Len(e.spans) <= Len(w.spans) + 1
  /\ Sum(e.spans, "on") = Sum(w.spans, "on") + n
  /\ Sum(e.spans, "off") = Sum(w.spans, "off")

\* An iteration that renders n frames of w with PTT and leaves e to go on.
LEMMA SpendsOn ==
  ASSUME TransmitAssumption, NEW c \in Config, NEW x, NEW f \in Nat, NEW d \in Nat,
         NEW w \in Works, NEW e \in Works, NEW n \in Nat, n <= w.left, Spends(c, x, f, d, w),
         OneSpan(w, n, e), w.s.ptt, w.s.txState \notin {"idle", "active"},
         e.s.ptt, e.s.txState \notin {"idle", "active"},
         OwedBy(c, e.s) \in Nat, OwedBy(c, w.s) = OwedBy(c, e.s) + n,
         e.left = 0 \/ Room(e.s) + 1 <= Room(w.s),
         w.s.txState = "finishing" => e.s.txState \in {"finishing", "complete"},
         w.s.txState = "complete" => e.s.txState = "complete"
  PROVE  Spends(c, x, f, d, e)
<1>1. /\ w.left \in Nat /\ w.spans \in Seq(Spans) /\ e.spans \in Seq(Spans)
      /\ n \in Nat /\ n <= w.left
  BY DEF Works
<1>2. /\ Sum(w.spans, "on") \in Nat /\ Sum(w.spans, "off") \in Nat
      /\ Sum(e.spans, "on") \in Nat /\ Sum(e.spans, "off") \in Nat
  BY <1>1, SumType
<1>3. Room(w.s) \in Nat /\ Room(e.s) \in Nat /\ Room(w.s) >= 1
  BY DEF Room
<1>4. /\ Sum(e.spans, "on") = Sum(w.spans, "on") + n
      /\ Sum(e.spans, "off") = Sum(w.spans, "off")
      /\ e.left = w.left - n /\ e.ok /\ Len(e.spans) <= 4
  BY DEF OneSpan
<1>5. e.left = 0 \/ Len(e.spans) + Room(e.s) <= 4
  <2> DEFINE lw == Len(w.spans)
             le == Len(e.spans)
  <2>1. lw \in Nat /\ le \in Nat  BY <1>1
  <2>2. le <= lw + 1  BY DEF OneSpan
  <2>3. w.left = 0 \/ lw + Room(w.s) <= 4  BY Zenon DEF Spends
  <2>4. w.left = 0 => e.left = 0
    <3>1. e.left = w.left - n  BY <1>4
    <3> QED BY <1>1, <3>1
  <2> HIDE DEF lw, le
  <2>5. e.left = 0 \/ le + Room(e.s) <= 4  BY <1>3, <2>1, <2>2, <2>3, <2>4
  <2> QED BY <2>5 DEF le
<1>6. Sum(e.spans, "on") + Sum(e.spans, "off") + e.left = f
  <2>1. Sum(w.spans, "on") + Sum(w.spans, "off") + w.left = f  BY Zenon DEF Spends
  <2> QED BY <1>1, <1>2, <1>4, <2>1
<1>7. Sum(e.spans, "off") = 0 /\ Sum(e.spans, "on") + OwedBy(c, e.s) = d
  <2>1. Sum(w.spans, "off") = 0 /\ Sum(w.spans, "on") + OwedBy(c, w.s) = d
    <3>1. w.s.txState # "active"  OBVIOUS
    <3> QED BY <3>1, Zenon DEF Spends
  <2> QED BY <1>1, <1>2, <1>4, <2>1
<1>8. /\ x \in {"idle", "active"} => e.s.txState = x
      /\ x = "toc" => e.s.txState # "active"
      /\ x = "finishing" => e.s.txState \in {"finishing", "complete", "idle"}
  <2>1. /\ x \in {"idle", "active"} => w.s.txState = x
        /\ x = "finishing" => w.s.txState \in {"finishing", "complete", "idle"}
    BY Zenon DEF Spends
  <2> QED BY <2>1
<1> QED BY <1>4, <1>5, <1>6, <1>7, <1>8, Zenon DEF Spends

\* A turn-off phase renders min(turnoffFrames, left) frames in one span.
LEMMA TurnoffTiles ==
  ASSUME NEW w \in Works, w.ok, w.s.ptt, Len(w.spans) \in Nat, Len(w.spans) < 4
  PROVE  LET n == Least(w.s.turnoffFrames, w.left)
             e == EmitTurnoff(w)
         IN  /\ n \in Nat /\ n <= w.left /\ n <= w.s.turnoffFrames
             /\ e \in Works /\ OneSpan(w, n, e)
             /\ e.s.turnoffFrames = w.s.turnoffFrames - n
             /\ SameCore([w.s EXCEPT !.turnoffFrames = e.s.turnoffFrames], e.s)
             /\ e.s.turnoffFrames > 0 => e.left = 0
<1> DEFINE n == Least(w.s.turnoffFrames, w.left)
           u == [w.s EXCEPT !.turnoffFrames = w.s.turnoffFrames - n]
           e == EmitTurnoff(w)
<1>1. w.s \in State /\ w.s.turnoffFrames \in Nat /\ w.left \in Nat /\ w.spans \in Seq(Spans)
  BY WorkFields DEF Works
<1>2. /\ n \in Nat /\ n <= w.left /\ n <= w.s.turnoffFrames
      /\ u \in State /\ e \in Works /\ e.left = w.left - n /\ SameCore(u, e.s)
      /\ e.s.turnoffFrames > 0 => e.left = 0
  BY EmitTurnoffType
<1>3. e = Emit(w, u, n)  BY DEF EmitTurnoff
<1>4. u.ptt /\ u.ptt \in BOOLEAN /\ u.turnoffFrames = w.s.turnoffFrames - n  BY <1>1 DEF State
<1> HIDE DEF n, u, e
<1>6. /\ e.ok /\ Len(e.spans) <= 4
      /\ n # 0 => Len(e.spans) <= Len(w.spans) + 1
      /\ \A b : Sum(e.spans, b) = Sum(w.spans, b) + (IF Side(u.ptt) = b THEN n ELSE 0)
  <2>1. Len(w.spans) <= 4 /\ Len(w.spans) < 4  OBVIOUS
  <2>2. n = 0 \/ Len(w.spans) < 4  BY <2>1
  <2>3. LET a == Emit(w, u, n) IN
        /\ a.ok /\ Len(a.spans) <= 4
        /\ n # 0 => Len(a.spans) <= Len(w.spans) + 1
        /\ \A b : Sum(a.spans, b) = Sum(w.spans, b) + (IF Side(u.ptt) = b THEN n ELSE 0)
    BY <1>2, <2>1, <2>2, EmitTiles
  <2> QED BY <1>3, <2>3, Zenon
<1>7. Len(e.spans) <= Len(w.spans) + 1
  <2>1. CASE n = 0
    <3>1. e.spans = w.spans  BY <1>3, <2>1 DEF Emit, Works
    <3> QED BY <3>1
  <2> QED BY <1>6, <2>1
<1>8. e.s.turnoffFrames = w.s.turnoffFrames - n
  BY <1>2, <1>4 DEF SameCore
<1>9. [w.s EXCEPT !.turnoffFrames = e.s.turnoffFrames] = u
  BY <1>8 DEF u
<1>10. OneSpan(w, n, e)
  <2>1. Sum(e.spans, "on") = Sum(w.spans, "on") + n /\ Sum(e.spans, "off") = Sum(w.spans, "off")
    <3>1. Side(u.ptt) = "on"  BY <1>4 DEF Side
    <3>2. /\ Sum(e.spans, "on") = Sum(w.spans, "on") + n
          /\ Sum(e.spans, "off") = Sum(w.spans, "off") + 0
      <4>1. ~("on" = "off")  OBVIOUS
      <4> QED BY <1>6, <3>1, <4>1, Zenon
    <3>3. Sum(w.spans, "off") \in Nat  BY <1>1, SumType
    <3> QED BY <3>2, <3>3
  <2> QED BY <1>2, <1>6, <1>7, <2>1, Zenon DEF OneSpan
<1> QED BY <1>2, <1>8, <1>9, <1>10 DEF n, e

\* The final drain renders min(finishFrames, left) frames in one span.
LEMMA FinishTiles ==
  ASSUME NEW w \in Works, w.ok, w.s.ptt, Len(w.spans) \in Nat, Len(w.spans) < 4
  PROVE  LET n == Least(w.s.finishFrames, w.left)
             e == EmitFinish(w)
         IN  /\ n \in Nat /\ n <= w.left /\ n <= w.s.finishFrames
             /\ e \in Works /\ OneSpan(w, n, e)
             /\ e.s.finishFrames = w.s.finishFrames - n
             /\ SameCore([w.s EXCEPT !.finishFrames = e.s.finishFrames], e.s)
             /\ e.s.finishFrames > 0 => e.left = 0
<1> DEFINE n == Least(w.s.finishFrames, w.left)
           u == [w.s EXCEPT !.finishFrames = w.s.finishFrames - n]
           e == EmitFinish(w)
<1>1. w.s \in State /\ w.s.finishFrames \in Nat /\ w.left \in Nat /\ w.spans \in Seq(Spans)
  BY WorkFields DEF Works
<1>2. /\ n \in Nat /\ n <= w.left /\ n <= w.s.finishFrames
      /\ u \in State /\ e \in Works /\ e.left = w.left - n /\ SameCore(u, e.s)
      /\ e.s.finishFrames > 0 => e.left = 0
  BY EmitFinishType
<1>3. e = Emit(w, u, n)  BY DEF EmitFinish
<1>4. u.ptt /\ u.ptt \in BOOLEAN /\ u.finishFrames = w.s.finishFrames - n  BY <1>1 DEF State
<1> HIDE DEF n, u, e
<1>6. /\ e.ok /\ Len(e.spans) <= 4
      /\ n # 0 => Len(e.spans) <= Len(w.spans) + 1
      /\ \A b : Sum(e.spans, b) = Sum(w.spans, b) + (IF Side(u.ptt) = b THEN n ELSE 0)
  <2>1. Len(w.spans) <= 4 /\ Len(w.spans) < 4  OBVIOUS
  <2>2. n = 0 \/ Len(w.spans) < 4  BY <2>1
  <2>3. LET a == Emit(w, u, n) IN
        /\ a.ok /\ Len(a.spans) <= 4
        /\ n # 0 => Len(a.spans) <= Len(w.spans) + 1
        /\ \A b : Sum(a.spans, b) = Sum(w.spans, b) + (IF Side(u.ptt) = b THEN n ELSE 0)
    BY <1>2, <2>1, <2>2, EmitTiles
  <2> QED BY <1>3, <2>3, Zenon
<1>7. Len(e.spans) <= Len(w.spans) + 1
  <2>1. CASE n = 0
    <3>1. e.spans = w.spans  BY <1>3, <2>1 DEF Emit, Works
    <3> QED BY <3>1
  <2> QED BY <1>6, <2>1
<1>8. e.s.finishFrames = w.s.finishFrames - n
  BY <1>2, <1>4 DEF SameCore
<1>9. [w.s EXCEPT !.finishFrames = e.s.finishFrames] = u
  BY <1>8 DEF u
<1>10. OneSpan(w, n, e)
  <2>1. Sum(e.spans, "on") = Sum(w.spans, "on") + n /\ Sum(e.spans, "off") = Sum(w.spans, "off")
    <3>1. Side(u.ptt) = "on"  BY <1>4 DEF Side
    <3>2. /\ Sum(e.spans, "on") = Sum(w.spans, "on") + n
          /\ Sum(e.spans, "off") = Sum(w.spans, "off") + 0
      <4>1. ~("on" = "off")  OBVIOUS
      <4> QED BY <1>6, <3>1, <4>1, Zenon
    <3>3. Sum(w.spans, "off") \in Nat  BY <1>1, SumType
    <3> QED BY <3>2, <3>3
  <2> QED BY <1>2, <1>6, <1>7, <2>1, Zenon DEF OneSpan
<1> QED BY <1>2, <1>8, <1>9, <1>10 DEF n, e

\* What the room left for spans says of a turn-off with frames to render.
LEMMA SpendsFacts ==
  ASSUME NEW c, NEW x, NEW f, NEW d, NEW w \in Works, Spends(c, x, f, d, w),
         w.left # 0, w.s.txState \in {"toc", "finishing"}
  PROVE  w.ok /\ Len(w.spans) \in Nat /\ Len(w.spans) < 4
<1>1. w.ok /\ (w.left = 0 \/ Len(w.spans) + Room(w.s) <= 4)  BY Zenon DEF Spends
<1>2. Room(w.s) \in {2, 3, 4}  BY DEF Room
<1> DEFINE k == Len(w.spans)
<1>3. k \in Nat  BY DEF Works
<1> HIDE DEF k
<1>4. k + Room(w.s) <= 4  BY <1>1 DEF k
<1>5. k < 4  BY <1>2, <1>3, <1>4
<1> QED BY <1>1, <1>3, <1>5 DEF k

\* A state that takes the place of the one an iteration ended in.
LEMMA OneSpanState ==
  ASSUME NEW w, NEW n, NEW e \in Works, OneSpan(w, n, e), NEW g \in State
  PROVE  /\ [e EXCEPT !.s = g] \in Works /\ [e EXCEPT !.s = g].s = g
         /\ [e EXCEPT !.s = g].left = e.left /\ OneSpan(w, n, [e EXCEPT !.s = g])
<1> DEFINE r == [e EXCEPT !.s = g]
<1>1. r \in Works /\ r.s = g /\ r.left = e.left /\ r.ok = e.ok /\ r.spans = e.spans
  BY DEF Works
<1> HIDE DEF r
<1>2. OneSpan(w, n, r)  BY <1>1, Zenon DEF OneSpan
<1> QED BY <1>1, <1>2 DEF r

\* What a turn-off phase leaves behind before it is replaced by the next one.
LEMMA TurnoffLeaves ==
  ASSUME NEW w \in Works, w.ok, w.s.ptt, Len(w.spans) \in Nat, Len(w.spans) < 4
  PROVE  LET n == Least(w.s.turnoffFrames, w.left)
             s == EmitTurnoff(w).s
         IN  /\ s \in State /\ n \in Nat /\ n <= w.s.turnoffFrames
             /\ s.txState = w.s.txState /\ s.ptt /\ s.phase = w.s.phase
             /\ s.finishFrames = w.s.finishFrames
             /\ s.turnoffFrames \in Nat /\ s.turnoffFrames = w.s.turnoffFrames - n
             /\ s.turnoffFrames > 0 => EmitTurnoff(w).left = 0
<1> DEFINE n == Least(w.s.turnoffFrames, w.left)
           e == EmitTurnoff(w)
           u == [w.s EXCEPT !.turnoffFrames = e.s.turnoffFrames]
<1>1. /\ n \in Nat /\ n <= w.s.turnoffFrames /\ e \in Works
      /\ e.s.turnoffFrames = w.s.turnoffFrames - n /\ SameCore(u, e.s)
      /\ e.s.turnoffFrames > 0 => e.left = 0
  BY TurnoffTiles
<1> HIDE DEF n, e
<1>2. w.s \in State /\ e.s \in State /\ e.s.turnoffFrames \in Nat  BY <1>1, WorkFields
<1>3. /\ u.txState = w.s.txState /\ u.ptt /\ u.phase = w.s.phase
      /\ u.finishFrames = w.s.finishFrames
  BY <1>2 DEF State
<1> HIDE DEF u
<1>4. /\ e.s.txState = w.s.txState /\ e.s.ptt /\ e.s.phase = w.s.phase
      /\ e.s.finishFrames = w.s.finishFrames
  BY <1>1, <1>3 DEF SameCore
<1> QED BY <1>1, <1>2, <1>4 DEF n, e

\* A turn-off phase hands its debt, less what it rendered, to the state g.
LEMMA TurnoffSpends ==
  ASSUME TransmitAssumption, NEW c \in Config, NEW x, NEW f \in Nat, NEW d \in Nat,
         NEW w \in Works, Spends(c, x, f, d, w), w.left # 0, w.s.ptt,
         w.s.txState = "toc", NEW g \in State,
         g.ptt, g.txState \in {"toc", "finishing", "complete"}, OwedBy(c, g) \in Nat,
         OwedBy(c, w.s) = OwedBy(c, g) + Least(w.s.turnoffFrames, w.left),
         EmitTurnoff(w).left = 0 \/ Room(g) + 1 <= Room(w.s)
  PROVE  Spends(c, x, f, d, [EmitTurnoff(w) EXCEPT !.s = g])
<1> DEFINE n == Least(w.s.turnoffFrames, w.left)
           e == EmitTurnoff(w)
           r == [e EXCEPT !.s = g]
<1>1. w.ok /\ Len(w.spans) \in Nat /\ Len(w.spans) < 4  BY SpendsFacts
<1>2. n \in Nat /\ n <= w.left /\ e \in Works /\ OneSpan(w, n, e)  BY <1>1, TurnoffTiles
<1> HIDE DEF n, e
<1>3. r \in Works /\ r.s = g /\ r.left = e.left /\ OneSpan(w, n, r)
  BY <1>2, OneSpanState
<1> HIDE DEF r
<1>4. OwedBy(c, w.s) = OwedBy(c, r.s) + n /\ (r.left = 0 \/ Room(r.s) + 1 <= Room(w.s))
  BY <1>3 DEF n, e
<1>5. r.s.ptt /\ r.s.txState \notin {"idle", "active"} /\ OwedBy(c, r.s) \in Nat
  BY <1>3
<1>6. Spends(c, x, f, d, r)  BY <1>2, <1>3, <1>4, <1>5, SpendsOn
<1> QED BY <1>6 DEF r, e

LEMMA FinishingOwes ==
  ASSUME TransmitAssumption, NEW c, NEW s \in State, NEW b \in BOOLEAN
  PROVE  /\ OwedBy(c, StartFinishing(s, b)) = FinishFrames(b)
         /\ FinishFrames(b) \in Nat \ {0} /\ Room(StartFinishing(s, b)) = 2
<1> DEFINE g == StartFinishing(s, b)
<1>1. FinishFrames(b) \in Nat \ {0}  BY FinishPositive
<1>2. /\ g.phase = "None" /\ g.turnoffFrames = 0 /\ g.finishFrames = FinishFrames(b)
      /\ g.txState = "finishing"
  BY DEF StartFinishing, State
<1> HIDE DEF g
<1>3. OwedBy(c, g) = FinishFrames(b)  BY <1>1, <1>2 DEF OwedBy
<1> QED BY <1>1, <1>2, <1>3 DEF g, Room

LEMMA TailSpends ==
  ASSUME TransmitAssumption, NEW c \in Config, NEW x, NEW f \in Nat, NEW d \in Nat,
         NEW w \in Works, Progress(w.s, w.left), Spends(c, x, f, d, w), w.left # 0,
         w.s.txState = "toc", w.s.phase = "CtcssTail"
  PROVE  Spends(c, x, f, d, TailPhase(c, w))
<1> DEFINE n == Least(w.s.turnoffFrames, w.left)
           e == EmitTurnoff(w)
           drain == FinishFrames(c.toneOff = "TailTone")
           timed == CountTail(e.s, w.left - e.left)
           muted == ApplyOption(c, timed, "disable")
           g == [muted EXCEPT !.phase = "CtcssGap", !.turnoffFrames = IntervalFrames]
<1>1. w.ok /\ Len(w.spans) \in Nat /\ Len(w.spans) < 4  BY SpendsFacts
<1>2. w.s.ptt  BY DEF Progress
<1>3. /\ e.s \in State /\ n \in Nat /\ n <= w.s.turnoffFrames
      /\ e.s.txState = "toc" /\ e.s.ptt /\ e.s.phase = "CtcssTail"
      /\ e.s.turnoffFrames \in Nat /\ e.s.turnoffFrames = w.s.turnoffFrames - n
      /\ e.s.turnoffFrames > 0 => e.left = 0
      /\ e \in Works
  BY <1>1, <1>2, TurnoffLeaves, TurnoffTiles
<1>4. drain \in Nat /\ IntervalFrames \in Nat /\ w.s.turnoffFrames \in Nat
  BY FinishPositive, IntervalPositive, WorkFields
<1>5. OwedBy(c, w.s) = w.s.turnoffFrames + IntervalFrames + drain  BY DEF OwedBy
<1>10. TailPhase(c, w) = IF timed.turnoffFrames > 0 THEN [e EXCEPT !.s = timed]
                         ELSE [e EXCEPT !.s = g]
  BY DEF TailPhase
<1>11. w.left - e.left \in Nat
  <2>1. e.left = w.left - n /\ n <= w.left  BY EmitTurnoffType
  <2>2. w.left \in Nat  BY WorkFields
  <2> HIDE DEF e, n
  <2> QED BY <1>3, <2>1, <2>2
<1>12. timed \in State /\ SameCore(e.s, timed)
  <2> HIDE DEF e, n
  <2> QED BY <1>3, <1>11, CountTailCore
<1> HIDE DEF drain, timed
<1>13. /\ timed.txState = "toc" /\ timed.ptt /\ timed.phase = "CtcssTail"
       /\ timed.turnoffFrames = e.s.turnoffFrames
  <2> HIDE DEF e, n
  <2> QED BY <1>3, <1>12 DEF SameCore
<1>6. CASE e.s.turnoffFrames > 0
  <2>1. TailPhase(c, w) = [e EXCEPT !.s = timed]
    <3> HIDE DEF e, n
    <3> QED BY <1>6, <1>10, <1>13
  <2>3. OwedBy(c, timed) = e.s.turnoffFrames + IntervalFrames + drain
    <3> HIDE DEF e, n
    <3> QED BY <1>13 DEF OwedBy, drain
  <2> HIDE DEF e, n
  <2>4. OwedBy(c, timed) \in Nat /\ OwedBy(c, w.s) = OwedBy(c, timed) + n
    BY <1>3, <1>4, <1>5, <2>3
  <2>5. Spends(c, x, f, d, [e EXCEPT !.s = timed])
    BY <1>2, <1>3, <1>6, <1>12, <1>13, <2>4, TurnoffSpends DEF e, n
  <2> QED BY <2>1, <2>5
<1>7. CASE ~(e.s.turnoffFrames > 0)
  <2>1. TailPhase(c, w) = [e EXCEPT !.s = g]
    <3> HIDE DEF e, n
    <3> QED BY <1>7, <1>10, <1>13
  <2> HIDE DEF e, n
  <2>2. muted \in State /\ SameCore(timed, muted)  BY <1>12, ApplyOptionCore DEF Options
  <2> HIDE DEF muted
  <2>3. g \in State  BY <1>4, <2>2 DEF State
  <2>4. /\ g.txState = "toc" /\ g.ptt /\ g.phase = "CtcssGap"
        /\ g.turnoffFrames = IntervalFrames
    BY <1>13, <2>2 DEF State, SameCore
  <2> HIDE DEF g
  <2>5. OwedBy(c, g) = IntervalFrames + drain  BY <2>4 DEF OwedBy, drain
  <2>6. OwedBy(c, g) \in Nat /\ OwedBy(c, w.s) = OwedBy(c, g) + n
    BY <1>3, <1>4, <1>5, <1>7, <2>5
  <2>7. Room(g) = 3 /\ Room(w.s) = 4  BY <2>4 DEF Room
  <2>8. Spends(c, x, f, d, [e EXCEPT !.s = g])
    BY <1>2, <2>3, <2>4, <2>6, <2>7, TurnoffSpends DEF e, n
  <2> QED BY <2>1, <2>8
<1> QED BY <1>6, <1>7

LEMMA GapSpends ==
  ASSUME TransmitAssumption, NEW c \in Config, NEW x, NEW f \in Nat, NEW d \in Nat,
         NEW w \in Works, Progress(w.s, w.left), Spends(c, x, f, d, w), w.left # 0,
         w.s.txState = "toc", w.s.phase = "CtcssGap"
  PROVE  Spends(c, x, f, d, GapPhase(c, w))
<1> DEFINE n == Least(w.s.turnoffFrames, w.left)
           e == EmitTurnoff(w)
           drain == FinishFrames(c.toneOff = "TailTone")
           g == StartFinishing(e.s, c.toneOff = "TailTone")
<1>1. w.ok /\ Len(w.spans) \in Nat /\ Len(w.spans) < 4  BY SpendsFacts
<1>2. w.s.ptt  BY DEF Progress
<1>3. /\ e.s \in State /\ n \in Nat /\ n <= w.s.turnoffFrames
      /\ e.s.txState = "toc" /\ e.s.ptt /\ e.s.phase = "CtcssGap"
      /\ e.s.turnoffFrames \in Nat /\ e.s.turnoffFrames = w.s.turnoffFrames - n
      /\ e.s.finishFrames = w.s.finishFrames
      /\ e.s.turnoffFrames > 0 => e.left = 0
      /\ e \in Works
  BY <1>1, <1>2, TurnoffLeaves, TurnoffTiles
<1>4. drain \in Nat /\ w.s.turnoffFrames \in Nat  BY FinishPositive, WorkFields
<1>5. OwedBy(c, w.s) = w.s.turnoffFrames + drain  BY DEF OwedBy
<1> HIDE DEF drain
<1>6. CASE e.s.turnoffFrames > 0
  <2>1. GapPhase(c, w) = e  BY <1>6 DEF GapPhase
  <2>2. [e EXCEPT !.s = e.s] = e  BY <1>3 DEF Works
  <2>3. OwedBy(c, e.s) = e.s.turnoffFrames + drain  BY <1>3 DEF OwedBy, drain
  <2> HIDE DEF e, n
  <2>4. OwedBy(c, e.s) \in Nat /\ OwedBy(c, w.s) = OwedBy(c, e.s) + n
    BY <1>3, <1>4, <1>5, <2>3
  <2>5. Spends(c, x, f, d, [e EXCEPT !.s = e.s])
    BY <1>2, <1>3, <1>6, <2>4, TurnoffSpends DEF e, n
  <2> QED BY <2>1, <2>2, <2>5
<1>7. CASE ~(e.s.turnoffFrames > 0)
  <2>1. GapPhase(c, w) = [e EXCEPT !.s = g]  BY <1>7 DEF GapPhase
  <2> HIDE DEF e, n
  <2>2. /\ g \in State /\ Progress(g, w.left) /\ g.txState = "finishing"
        /\ OwedBy(c, g) = drain /\ Room(g) = 2
    <3>1. w.left \in Nat /\ (c.toneOff = "TailTone") \in BOOLEAN  BY WorkFields
    <3>2. /\ g \in State /\ Progress(g, w.left) /\ g.txState = "finishing"
      BY <1>3, <3>1, StartFinishingProgress
    <3>3. OwedBy(c, g) = drain /\ Room(g) = 2
      BY <1>3, <3>1, FinishingOwes, Zenon DEF drain
    <3> QED BY <3>2, <3>3
  <2> HIDE DEF g
  <2>3. g.ptt /\ Room(w.s) = 3  BY <2>2 DEF Progress, Room
  <2>4. OwedBy(c, g) \in Nat /\ OwedBy(c, w.s) = OwedBy(c, g) + n
    BY <1>3, <1>4, <1>5, <1>7, <2>2
  <2>5. Spends(c, x, f, d, [e EXCEPT !.s = g])
    BY <1>2, <2>2, <2>3, <2>4, TurnoffSpends DEF e, n
  <2> QED BY <2>1, <2>5
<1> QED BY <1>6, <1>7

LEMMA DcsSpends ==
  ASSUME TransmitAssumption, NEW c \in Config, NEW x, NEW f \in Nat, NEW d \in Nat,
         NEW w \in Works, Progress(w.s, w.left), Spends(c, x, f, d, w), w.left # 0,
         w.s.txState = "toc", w.s.phase = "DcsTail"
  PROVE  Spends(c, x, f, d, DcsPhase(w))
<1> DEFINE n == Least(w.s.turnoffFrames, w.left)
           e == EmitTurnoff(w)
           drain == FinishFrames(FALSE)
           t == [e.s EXCEPT !.dcsMs = RemainingMs(e.s.turnoffFrames)]
           g == StartFinishing(t, FALSE)
<1>1. w.ok /\ Len(w.spans) \in Nat /\ Len(w.spans) < 4  BY SpendsFacts
<1>2. w.s.ptt  BY DEF Progress
<1>3. /\ e.s \in State /\ n \in Nat /\ n <= w.s.turnoffFrames
      /\ e.s.txState = "toc" /\ e.s.ptt /\ e.s.phase = "DcsTail"
      /\ e.s.turnoffFrames \in Nat /\ e.s.turnoffFrames = w.s.turnoffFrames - n
      /\ e.s.finishFrames = w.s.finishFrames
      /\ e.s.turnoffFrames > 0 => e.left = 0
      /\ e \in Works
  BY <1>1, <1>2, TurnoffLeaves, TurnoffTiles
<1>4. drain \in Nat /\ w.s.turnoffFrames \in Nat  BY FinishPositive, WorkFields
<1>5. OwedBy(c, w.s) = w.s.turnoffFrames + drain  BY DEF OwedBy
<1>6. RemainingMs(e.s.turnoffFrames) \in Nat
  BY <1>3, CeilDivNat DEF RemainingMs, TransmitAssumption
<1>7. /\ t \in State /\ t.txState = "toc" /\ t.ptt /\ t.phase = "DcsTail"
      /\ t.turnoffFrames = e.s.turnoffFrames
  BY <1>3, <1>6 DEF State
<1> HIDE DEF drain
<1>8. CASE e.s.turnoffFrames > 0
  <2>1. DcsPhase(w) = [e EXCEPT !.s = t]
    <3>1. t.turnoffFrames > 0  BY <1>7, <1>8
    <3> QED BY <3>1 DEF DcsPhase
  <2> HIDE DEF e, n, t
  <2>3. OwedBy(c, t) = t.turnoffFrames + drain  BY <1>7 DEF OwedBy, drain
  <2>4. OwedBy(c, t) \in Nat /\ OwedBy(c, w.s) = OwedBy(c, t) + n
    BY <1>3, <1>4, <1>5, <1>7, <2>3
  <2>5. Spends(c, x, f, d, [e EXCEPT !.s = t])
    BY <1>2, <1>3, <1>7, <1>8, <2>4, TurnoffSpends DEF e, n
  <2> QED BY <2>1, <2>5
<1>9. CASE ~(e.s.turnoffFrames > 0)
  <2>1. DcsPhase(w) = [e EXCEPT !.s = g]
    <3>1. ~(t.turnoffFrames > 0)  BY <1>7, <1>9
    <3> QED BY <3>1 DEF DcsPhase
  <2> HIDE DEF e, n, t
  <2>2. /\ g \in State /\ Progress(g, w.left) /\ g.txState = "finishing"
        /\ OwedBy(c, g) = drain /\ Room(g) = 2
    <3>1. w.left \in Nat /\ FALSE \in BOOLEAN  BY WorkFields
    <3>2. /\ g \in State /\ Progress(g, w.left) /\ g.txState = "finishing"
      BY <1>7, <3>1, StartFinishingProgress
    <3>3. OwedBy(c, g) = drain /\ Room(g) = 2
      BY <1>7, <3>1, FinishingOwes DEF drain
    <3> QED BY <3>2, <3>3
  <2> HIDE DEF g
  <2>3. g.ptt /\ Room(w.s) = 3  BY <2>2 DEF Progress, Room
  <2>4. OwedBy(c, g) \in Nat /\ OwedBy(c, w.s) = OwedBy(c, g) + n
    BY <1>3, <1>4, <1>5, <1>9, <2>2
  <2>5. Spends(c, x, f, d, [e EXCEPT !.s = g])
    BY <1>2, <2>2, <2>3, <2>4, TurnoffSpends DEF e, n
  <2> QED BY <2>1, <2>5
<1> QED BY <1>8, <1>9

LEMMA NoToneSpends ==
  ASSUME TransmitAssumption, NEW c \in Config, NEW x, NEW f \in Nat, NEW d \in Nat,
         NEW w \in Works, Progress(w.s, w.left), Spends(c, x, f, d, w), w.left # 0,
         w.s.txState = "toc", w.s.phase = "NoTone"
  PROVE  Spends(c, x, f, d, NoTonePhase(w))
<1> DEFINE n == Least(w.s.turnoffFrames, w.left)
           e == EmitTurnoff(w)
           g == [e.s EXCEPT !.txState = "complete"]
<1>1. w.ok /\ Len(w.spans) \in Nat /\ Len(w.spans) < 4  BY SpendsFacts
<1>2. w.s.ptt  BY DEF Progress
<1>3. /\ e.s \in State /\ n \in Nat /\ n <= w.s.turnoffFrames
      /\ e.s.txState = "toc" /\ e.s.ptt /\ e.s.phase = "NoTone"
      /\ e.s.turnoffFrames \in Nat /\ e.s.turnoffFrames = w.s.turnoffFrames - n
      /\ e.s.finishFrames = w.s.finishFrames
      /\ e.s.turnoffFrames > 0 => e.left = 0
      /\ e \in Works
  BY <1>1, <1>2, TurnoffLeaves, TurnoffTiles
<1>4. w.s.turnoffFrames \in Nat /\ w.s.finishFrames = 0  BY WorkFields DEF Progress
<1>5. OwedBy(c, w.s) = w.s.turnoffFrames  BY <1>4 DEF OwedBy
<1>6. CASE e.s.turnoffFrames > 0
  <2>1. NoTonePhase(w) = e  BY <1>6 DEF NoTonePhase
  <2>2. [e EXCEPT !.s = e.s] = e  BY <1>3 DEF Works
  <2>3. OwedBy(c, e.s) = e.s.turnoffFrames  BY <1>3, <1>4 DEF OwedBy
  <2> HIDE DEF e, n
  <2>4. OwedBy(c, e.s) \in Nat /\ OwedBy(c, w.s) = OwedBy(c, e.s) + n
    BY <1>3, <1>4, <1>5, <2>3
  <2>5. Spends(c, x, f, d, [e EXCEPT !.s = e.s])
    BY <1>2, <1>3, <1>6, <2>4, TurnoffSpends DEF e, n
  <2> QED BY <2>1, <2>2, <2>5
<1>7. CASE ~(e.s.turnoffFrames > 0)
  <2>1. NoTonePhase(w) = [e EXCEPT !.s = g]
    <3>1. NoTonePhase(w) = [e EXCEPT !.s.txState = "complete"]
      BY <1>7 DEF NoTonePhase
    <3> QED BY <3>1
  <2> HIDE DEF e, n
  <2>2. g \in State  BY <1>3 DEF State
  <2>3. /\ g.txState = "complete" /\ g.ptt /\ g.phase = "NoTone"
        /\ g.turnoffFrames = 0 /\ g.finishFrames = 0
    BY <1>3, <1>4, <1>7 DEF State
  <2> HIDE DEF g
  <2>4. OwedBy(c, g) = 0 /\ Room(g) = 1 /\ Room(w.s) = 2  BY <2>3 DEF OwedBy, Room
  <2>5. OwedBy(c, g) \in Nat /\ OwedBy(c, w.s) = OwedBy(c, g) + n
    BY <1>3, <1>4, <1>5, <1>7, <2>4
  <2>6. Spends(c, x, f, d, [e EXCEPT !.s = g])
    BY <1>2, <2>2, <2>3, <2>4, <2>5, TurnoffSpends DEF e, n
  <2> QED BY <2>1, <2>6
<1> QED BY <1>6, <1>7

LEMMA FinishSpends ==
  ASSUME TransmitAssumption, NEW c \in Config, NEW x, NEW f \in Nat, NEW d \in Nat,
         NEW w \in Works, Progress(w.s, w.left), Spends(c, x, f, d, w), w.left # 0,
         w.s.txState = "finishing"
  PROVE  Spends(c, x, f, d, FinishPhase(w))
<1> DEFINE n == Least(w.s.finishFrames, w.left)
           e == EmitFinish(w)
           u == [w.s EXCEPT !.finishFrames = e.s.finishFrames]
           g == [e.s EXCEPT !.txState = "complete"]
<1>1. w.ok /\ Len(w.spans) \in Nat /\ Len(w.spans) < 4  BY SpendsFacts
<1>2. /\ w.s.ptt /\ w.s.phase = "None" /\ w.s.turnoffFrames = 0
      /\ w.s \in State /\ w.s.finishFrames \in Nat
  BY WorkFields DEF Progress
<1>3. /\ e \in Works /\ OneSpan(w, n, e) /\ n \in Nat /\ n <= w.left
      /\ n <= w.s.finishFrames /\ e.s.finishFrames = w.s.finishFrames - n
      /\ SameCore(u, e.s)
      /\ e.s.finishFrames > 0 => e.left = 0
  BY <1>1, <1>2, FinishTiles
<1>4. FinishPhase(w) = IF e.s.finishFrames > 0 THEN e
                       ELSE [e EXCEPT !.s.txState = "complete"]
  BY DEF FinishPhase
<1> HIDE DEF n, e
<1>5. u.txState = "finishing" /\ u.ptt /\ u.phase = "None" /\ u.turnoffFrames = 0
  BY <1>2 DEF State
<1> HIDE DEF u
<1>6. /\ e.s \in State /\ e.s.finishFrames \in Nat /\ e.s.txState = "finishing" /\ e.s.ptt
      /\ e.s.phase = "None" /\ e.s.turnoffFrames = 0
  BY <1>3, <1>5, WorkFields DEF SameCore
<1>7. OwedBy(c, w.s) = w.s.finishFrames  BY <1>2 DEF OwedBy
<1>8. CASE e.s.finishFrames > 0
  <2>1. OwedBy(c, e.s) = e.s.finishFrames  BY <1>6 DEF OwedBy
  <2>2. OwedBy(c, e.s) \in Nat /\ OwedBy(c, w.s) = OwedBy(c, e.s) + n
    BY <1>2, <1>3, <1>6, <1>7, <2>1
  <2>3. e.left = 0  BY <1>3, <1>8
  <2>4. Spends(c, x, f, d, e)  BY <1>2, <1>3, <1>6, <2>2, <2>3, SpendsOn
  <2> QED BY <1>4, <1>8, <2>4
<1>9. CASE ~(e.s.finishFrames > 0)
  <2> DEFINE r == [e EXCEPT !.s = g]
  <2>1. FinishPhase(w) = r  BY <1>4, <1>9
  <2>2. g \in State  BY <1>6 DEF State
  <2>3. /\ g.txState = "complete" /\ g.ptt /\ g.phase = "None"
        /\ g.turnoffFrames = 0 /\ g.finishFrames = 0
    BY <1>6, <1>9 DEF State
  <2> HIDE DEF g
  <2>4. r \in Works /\ r.s = g /\ OneSpan(w, n, r)  BY <1>3, <2>2, OneSpanState
  <2> HIDE DEF r
  <2>5. OwedBy(c, r.s) = 0 /\ Room(r.s) = 1 /\ Room(w.s) = 2
    <3>1. OwedBy(c, r.s) = g.turnoffFrames + g.finishFrames  BY <2>3, <2>4 DEF OwedBy
    <3>2. Room(r.s) = 1 /\ Room(w.s) = 2  BY <2>3, <2>4 DEF Room
    <3> QED BY <2>3, <3>1, <3>2
  <2>6. OwedBy(c, r.s) \in Nat /\ OwedBy(c, w.s) = OwedBy(c, r.s) + n
    BY <1>2, <1>3, <1>6, <1>7, <1>9, <2>5
  <2>7. Spends(c, x, f, d, r)  BY <1>2, <1>3, <2>3, <2>4, <2>5, <2>6, SpendsOn
  <2> QED BY <2>1, <2>7
<1> QED BY <1>8, <1>9

\* The release: what was owed has been spent.
LEMMA CompleteSpends ==
  ASSUME TransmitAssumption, NEW c \in Config, NEW x, NEW f \in Nat, NEW d \in Nat,
         NEW w \in Works, Progress(w.s, w.left), Spends(c, x, f, d, w),
         w.s.txState = "complete", NEW e \in Works, e.ok = w.ok, e.spans = w.spans,
         e.left = w.left, ~e.s.ptt, e.s.txState = "idle"
  PROVE  Spends(c, x, f, d, e)
<1>1. w.s.ptt /\ w.s.turnoffFrames = 0 /\ w.s.finishFrames = 0
      /\ w.s.phase \in {"None", "NoTone"}
  BY DEF Progress
<1>2. OwedBy(c, w.s) = 0
  <2>1. OwedBy(c, w.s) = w.s.turnoffFrames + w.s.finishFrames
    <3>1. w.s.phase = "None" \/ w.s.phase = "NoTone"  BY <1>1
    <3> QED BY <3>1 DEF OwedBy
  <2> QED BY <1>1, <2>1
<1>3. Room(e.s) = 1 /\ Room(w.s) = 1  BY DEF Room
<1>4. Sum(w.spans, "on") \in Nat  BY SumType DEF Works
<1>5. Sum(w.spans, "on") + OwedBy(c, w.s) = d
  <2>1. w.s.txState # "active"  OBVIOUS
  <2> QED BY <1>1, <2>1, Zenon DEF Spends
<1>6. Sum(e.spans, "on") = d  BY <1>2, <1>4, <1>5
<1>7. /\ e.ok /\ Len(e.spans) <= 4 /\ (e.left = 0 \/ Len(e.spans) + Room(e.s) <= 4)
      /\ Sum(e.spans, "on") + Sum(e.spans, "off") + e.left = f
  <2>1. /\ w.ok /\ Len(w.spans) <= 4 /\ (w.left = 0 \/ Len(w.spans) + Room(w.s) <= 4)
        /\ Sum(w.spans, "on") + Sum(w.spans, "off") + w.left = f
    BY Zenon DEF Spends
  <2> QED BY <1>3, <2>1, Zenon
<1>8. x \notin {"idle", "active"}
  <2>1. x \in {"idle", "active"} => w.s.txState = x  BY Zenon DEF Spends
  <2> QED BY <2>1
<1> QED BY <1>6, <1>7, <1>8 DEF Spends

LEMMA CompletePhaseSpends ==
  ASSUME TransmitAssumption, NEW c \in Config, NEW x, NEW f \in Nat, NEW d \in Nat,
         NEW w \in Works, Progress(w.s, w.left), Spends(c, x, f, d, w),
         w.s.txState = "complete"
  PROVE  /\ Spends(c, x, f, d, Complete(c, w))
         /\ Spends(c, x, f, d, CompletePhase(c, w))
<1> DEFINE e == Complete(c, w)
           g == [e.s EXCEPT !.turnoffFrames = 0, !.legacyFrames = 0, !.finishFrames = 0]
           r == [e EXCEPT !.s = g]
<1>1. e \in Works /\ e.left = w.left /\ e.s.txState = "idle" /\ ~e.s.ptt
  BY CompleteType DEF Completes
<1>2. e.ok = w.ok /\ e.spans = w.spans  BY DEF Complete, Works
<1>3. CompletePhase(c, w) = [e EXCEPT !.s.turnoffFrames = 0, !.s.legacyFrames = 0,
                                      !.s.finishFrames = 0]
  BY DEF CompletePhase
<1> HIDE DEF e
<1>4. e.s \in State  BY <1>1, WorkFields
<1>5. CompletePhase(c, w) = r  BY <1>1, <1>3 DEF Works
<1>6. g \in State /\ g.txState = "idle" /\ ~g.ptt  BY <1>1, <1>4 DEF State
<1> HIDE DEF g
<1>7. r \in Works /\ r.s = g /\ r.ok = w.ok /\ r.spans = w.spans /\ r.left = w.left
  BY <1>1, <1>2, <1>6 DEF Works
<1> HIDE DEF r
<1>8. Spends(c, x, f, d, e)  BY <1>1, <1>2, CompleteSpends
<1>9. Spends(c, x, f, d, r)  BY <1>6, <1>7, CompleteSpends
<1> QED BY <1>5, <1>8, <1>9 DEF e

\* A callback in IDLE or ACTIVE renders all it has left in one span.
LEMMA IdleSpends ==
  ASSUME TransmitAssumption, NEW c \in Config, NEW x, NEW f \in Nat, NEW d \in Nat,
         NEW w \in Works, Progress(w.s, w.left), Spends(c, x, f, d, w), w.left # 0,
         w.s.txState \in {"idle", "active"}
  PROVE  Spends(c, x, f, d, Emit(w, w.s, w.left))
<1> DEFINE e == Emit(w, w.s, w.left)
           n == w.left
<1>1. w.s \in State /\ n \in Nat /\ w.spans \in Seq(Spans) /\ w.s.ptt \in BOOLEAN
  BY WorkFields DEF Works
<1>2. w.ok /\ Len(w.spans) <= 4 /\ Len(w.spans) < 4
  <2>1. w.ok /\ (w.left = 0 \/ Len(w.spans) + Room(w.s) <= 4)  BY Zenon DEF Spends
  <2>2. Room(w.s) = 1  BY DEF Room
  <2> DEFINE k == Len(w.spans)
  <2>3. k \in Nat  BY <1>1
  <2> HIDE DEF k
  <2>4. k + 1 <= 4  BY <2>1, <2>2 DEF k
  <2>5. k <= 4 /\ k < 4  BY <2>3, <2>4
  <2> QED BY <2>1, <2>5 DEF k
<1>3. n \in 0 .. w.left /\ n <= w.left  BY <1>1
<1>4. e \in Works /\ e.left = w.left - n /\ SameCore(w.s, e.s)
  BY <1>1, <1>3, EmitType
<1>5. /\ e.ok /\ Len(e.spans) <= 4
      /\ \A b : Sum(e.spans, b) = Sum(w.spans, b) + (IF Side(w.s.ptt) = b THEN n ELSE 0)
  <2>1. LET a == Emit(w, w.s, n) IN
        /\ a.ok /\ Len(a.spans) <= 4
        /\ \A b : Sum(a.spans, b) = Sum(w.spans, b) + (IF Side(w.s.ptt) = b THEN n ELSE 0)
    BY <1>1, <1>2, <1>3, EmitTiles
  <2> QED BY <2>1, Zenon
<1> HIDE DEF e, n
<1>6. e.left = 0  BY <1>1, <1>4 DEF n
<1>7. e.s.txState = w.s.txState /\ e.s.ptt = w.s.ptt  BY <1>4 DEF SameCore
<1>8. Sum(w.spans, "on") \in Nat /\ Sum(w.spans, "off") \in Nat  BY <1>1, SumType
<1>9. /\ Sum(e.spans, "on") = Sum(w.spans, "on") + (IF Side(w.s.ptt) = "on" THEN n ELSE 0)
      /\ Sum(e.spans, "off") = Sum(w.spans, "off") + (IF Side(w.s.ptt) = "off" THEN n ELSE 0)
  BY <1>5
<1>10. Sum(w.spans, "on") + Sum(w.spans, "off") + n = f  BY Zenon DEF Spends, n
<1>11. /\ x \in {"idle", "active"} => e.s.txState = x
       /\ x = "toc" => e.s.txState # "active"
       /\ x = "finishing" => e.s.txState \in {"finishing", "complete", "idle"}
  BY <1>7, Zenon DEF Spends
<1>12. ASSUME w.s.ptt PROVE Spends(c, x, f, d, e)
  <2>1. w.s.txState = "active"  BY <1>12 DEF Progress
  <2>2. Sum(w.spans, "off") = 0  BY <1>12, Zenon DEF Spends
  <2>3. Side(w.s.ptt) = "on"  BY <1>12 DEF Side
  <2>4. Sum(e.spans, "on") = Sum(w.spans, "on") + n /\ Sum(e.spans, "off") = 0
    BY <1>8, <1>9, <2>2, <2>3
  <2>5. Sum(e.spans, "on") + Sum(e.spans, "off") + e.left = f
    BY <1>1, <1>6, <1>8, <1>10, <2>2, <2>4 DEF n
  <2>6. ~(e.s.txState # "active")  BY <1>7, <2>1
  <2>7. e.s.ptt  BY <1>7, <1>12
  <2> QED BY <1>5, <1>6, <1>11, <2>4, <2>5, <2>6, <2>7, Zenon DEF Spends
<1>13. ASSUME ~w.s.ptt PROVE Spends(c, x, f, d, e)
  <2>1. Sum(w.spans, "on") = d  BY <1>13, Zenon DEF Spends
  <2>2. Side(w.s.ptt) = "off"  BY <1>13 DEF Side
  <2>3. Sum(e.spans, "on") = d /\ Sum(e.spans, "off") = Sum(w.spans, "off") + n
    BY <1>8, <1>9, <2>1, <2>2
  <2>4. Sum(e.spans, "on") + Sum(e.spans, "off") + e.left = f
    BY <1>1, <1>6, <1>8, <1>10, <2>1, <2>3 DEF n
  <2>5. ~e.s.ptt  BY <1>7, <1>13
  <2> QED BY <1>5, <1>6, <1>11, <2>3, <2>4, <2>5, Zenon DEF Spends
<1> QED BY <1>12, <1>13 DEF e, n

LEMMA StatePhaseSpends ==
  ASSUME TransmitAssumption, NEW c \in Config, NEW x, NEW f \in Nat, NEW d \in Nat,
         NEW w \in Works, Progress(w.s, w.left), Spends(c, x, f, d, w), w.left # 0
  PROVE  Spends(c, x, f, d, StatePhase(c, w))
<1>0. w.s \in State  BY WorkFields
<1>1. CASE w.s.txState \in {"idle", "active"}
  <2>1. StatePhase(c, w) = Emit(w, w.s, w.left)
    <3>1. w.s.txState = "idle" \/ w.s.txState = "active"  BY <1>1
    <3>2. CASE w.s.txState = "idle"  BY <3>2, Zenon DEF StatePhase
    <3>3. CASE w.s.txState = "active"  BY <3>3, Zenon DEF StatePhase
    <3> QED BY <3>1, <3>2, <3>3
  <2> QED BY <1>1, <2>1, IdleSpends
<1>2. CASE w.s.txState = "toc"
  <2>0. StatePhase(c, w) = TurnoffPhase(c, w)  BY <1>2, Zenon DEF StatePhase
  <2>1. CASE w.s.phase = "CtcssTail"
    <3>1. TurnoffPhase(c, w) = TailPhase(c, w)  BY <2>1, Zenon DEF TurnoffPhase
    <3> QED BY <1>2, <2>0, <2>1, <3>1, TailSpends
  <2>2. CASE w.s.phase = "CtcssGap"
    <3>1. TurnoffPhase(c, w) = GapPhase(c, w)  BY <2>2, Zenon DEF TurnoffPhase
    <3> QED BY <1>2, <2>0, <2>2, <3>1, GapSpends
  <2>3. CASE w.s.phase = "DcsTail"
    <3>1. TurnoffPhase(c, w) = DcsPhase(w)  BY <2>3, Zenon DEF TurnoffPhase
    <3> QED BY <1>2, <2>0, <2>3, <3>1, DcsSpends
  <2>4. CASE w.s.phase = "NoTone"
    <3>1. TurnoffPhase(c, w) = NoTonePhase(w)  BY <2>4, Zenon DEF TurnoffPhase
    <3> QED BY <1>2, <2>0, <2>4, <3>1, NoToneSpends
  <2>5. w.s.phase \in {"CtcssTail", "CtcssGap", "DcsTail", "NoTone"}
    BY <1>0, <1>2 DEF State, Progress
  <2> QED BY <2>1, <2>2, <2>3, <2>4, <2>5
<1>3. CASE w.s.txState = "finishing"
  <2>1. StatePhase(c, w) = FinishPhase(w)  BY <1>3, Zenon DEF StatePhase
  <2> QED BY <1>3, <2>1, FinishSpends
<1>4. CASE w.s.txState = "complete"
  <2>1. StatePhase(c, w) = CompletePhase(c, w)  BY <1>4, Zenon DEF StatePhase
  <2> QED BY <1>4, <2>1, CompletePhaseSpends
<1> QED BY <1>0, <1>1, <1>2, <1>3, <1>4 DEF State

LEMMA PhaseSpends ==
  ASSUME TransmitAssumption, NEW c \in Config, NEW x, NEW f \in Nat, NEW d \in Nat,
         NEW w \in Works, Progress(w.s, w.left), Spends(c, x, f, d, w)
  PROVE  LET e == Phase(c, w) IN
         e \in Works /\ Progress(e.s, e.left) /\ Spends(c, x, f, d, e)
<1>1. Phase(c, w) \in Works /\ Progress(Phase(c, w).s, Phase(c, w).left)
  BY PhaseAdvances DEF Advances
<1>2. CASE w.left = 0
  <2>1. Phase(c, w) = w  BY <1>2, Zenon DEF Phase
  <2> QED BY <1>1, <2>1
<1>3. CASE w.left # 0
  <2>1. Phase(c, w) = StatePhase(c, w)  BY <1>3, Zenon DEF Phase
  <2> QED BY <1>1, <1>3, <2>1, StatePhaseSpends
<1> QED BY <1>2, <1>3

LEMMA RenderTimelineSpends ==
  ASSUME TransmitAssumption, NEW c \in Config, NEW x, NEW f \in Nat, NEW d \in Nat,
         NEW w \in Works, Progress(w.s, w.left), Spends(c, x, f, d, w)
  PROVE  Spends(c, x, f, d, RenderTimeline(c, w))
<1> DEFINE w1 == Phase(c, w)   w2 == Phase(c, w1)  w3 == Phase(c, w2)
           w4 == Phase(c, w3)  w5 == Phase(c, w4)
<1>1. w1 \in Works /\ Progress(w1.s, w1.left) /\ Spends(c, x, f, d, w1)
  BY PhaseSpends
<1> HIDE DEF w1
<1>2. w2 \in Works /\ Progress(w2.s, w2.left) /\ Spends(c, x, f, d, w2)
  BY <1>1, PhaseSpends
<1> HIDE DEF w2
<1>3. w3 \in Works /\ Progress(w3.s, w3.left) /\ Spends(c, x, f, d, w3)
  BY <1>2, PhaseSpends
<1> HIDE DEF w3
<1>4. w4 \in Works /\ Progress(w4.s, w4.left) /\ Spends(c, x, f, d, w4)
  BY <1>3, PhaseSpends
<1> HIDE DEF w4
<1>5. w5 \in Works /\ Progress(w5.s, w5.left) /\ Spends(c, x, f, d, w5)
  BY <1>4, PhaseSpends
<1> HIDE DEF w5
<1>6. CASE w5.s.txState = "complete"
  <2>1. RenderTimeline(c, w) = Complete(c, w5)
    BY <1>6, Zenon DEF RenderTimeline, Conclude, w1, w2, w3, w4, w5
  <2> QED BY <1>5, <1>6, <2>1, CompletePhaseSpends
<1>7. CASE w5.s.txState # "complete"
  <2>1. RenderTimeline(c, w) = w5
    BY <1>7, Zenon DEF RenderTimeline, Conclude, w1, w2, w3, w4, w5
  <2> QED BY <1>5, <2>1
<1> QED BY <1>6, <1>7

\* What a callback of f frames makes of a prepared state p: it fails for nothing
\* it crosses, it covers f frames with one to four spans, and it spends what p
\* owes of PTT, all f frames while the debt lasts or PTT stays keyed.
Covers(c, f, p, e) ==
  /\ e.ok /\ e.spans \in Seq(Spans) /\ Len(e.spans) \in 1 .. 4
  /\ Sum(e.spans, "on") \in Nat /\ Sum(e.spans, "off") \in Nat
  /\ Sum(e.spans, "on") + Sum(e.spans, "off") = f
  /\ IF e.s.ptt
       THEN /\ Sum(e.spans, "off") = 0
            /\ e.s.txState # "active" => Sum(e.spans, "on") + OwedBy(c, e.s) = OwedBy(c, p)
       ELSE Sum(e.spans, "on") = OwedBy(c, p)
  /\ p.txState \in {"idle", "active"} => e.s.txState = p.txState
  /\ p.txState = "toc" => e.s.txState # "active"
  /\ p.txState = "finishing" => e.s.txState \in {"finishing", "complete", "idle"}

\* What a callback owes depends on the turn-off bookkeeping only.
LEMMA OwedByCore ==
  ASSUME NEW c, NEW s, NEW t, SameCore(s, t)
  PROVE  OwedBy(c, s) = OwedBy(c, t)
BY DEF OwedBy, SameCore

LEMMA OwedByType ==
  ASSUME TransmitAssumption, NEW c, NEW s \in State
  PROVE  /\ OwedBy(c, s) \in Nat
         /\ s.turnoffFrames > 0 \/ s.finishFrames > 0 => OwedBy(c, s) > 0
<1>1. s.turnoffFrames \in Nat /\ s.finishFrames \in Nat  BY DEF State
<1>2. IntervalFrames \in Nat \ {0}  BY IntervalPositive
<1> DEFINE drain == FinishFrames(c.toneOff = "TailTone")
           short == FinishFrames(FALSE)
<1>3. drain \in Nat \ {0} /\ short \in Nat \ {0}  BY FinishPositive
<1> HIDE DEF drain, short
<1>4. \/ OwedBy(c, s) = s.turnoffFrames + IntervalFrames + drain
      \/ OwedBy(c, s) = s.turnoffFrames + drain
      \/ OwedBy(c, s) = s.turnoffFrames + short
      \/ OwedBy(c, s) = s.turnoffFrames + s.finishFrames
  BY DEF OwedBy, drain, short
<1> QED BY <1>1, <1>2, <1>3, <1>4

LEMMA RenderedCovers ==
  ASSUME TransmitAssumption, NEW c \in Config, NEW p \in State, NEW ms \in Nat,
         NEW in \in Input, NEW status \in BOOLEAN, Progress(p, in.frames)
  PROVE  Covers(c, in.frames, p, Rendered(c, p, ms, in, status))
<1> DEFINE live == IF in.inhibit THEN ApplyOption(c, p, "disable") ELSE p
           w0 == Work(live, in.frames, status)
           w == RenderTimeline(c, w0)
           s == Settle(c, w.s, ms, in)
           r == [w EXCEPT !.s = s]
           f == in.frames
           d == OwedBy(c, p)
           x == p.txState
<1>0. Rendered(c, p, ms, in, status) = r  BY DEF Rendered
<1>1. live \in State /\ SameCore(p, live)
  BY ApplyOptionCore DEF Options, SameCore
<1> HIDE DEF live
<1>2. /\ w0 \in Works /\ w0.s = live /\ w0.left = f /\ w0.ok /\ w0.spans = << >>
  <2>1. in.frames \in Nat  BY DEF Input
  <2>2. << >> \in Seq(Spans)  OBVIOUS
  <2> QED BY <1>1, <2>1, <2>2 DEF Work, Works
<1> HIDE DEF w0
<1>3. f \in Nat \ {0} /\ d \in Nat  BY OwedByType DEF Input
<1>4. Progress(w0.s, w0.left)  BY <1>1, <1>2, <1>3, ProgressSameCore
<1>5. OwedBy(c, live) = d /\ live.txState = x /\ live.ptt = p.ptt
  BY <1>1, OwedByCore DEF SameCore
<1> HIDE DEF f, d, x
<1>6. Spends(c, x, f, d, w0)
  <2>1. Sum(w0.spans, "on") = 0 /\ Sum(w0.spans, "off") = 0  BY <1>2, SumEmpty
  <2>2. Len(w0.spans) = 0  BY <1>2
  <2>3. Room(w0.s) \in 1 .. 4  BY DEF Room
  <2>4. Len(w0.spans) <= 4 /\ Len(w0.spans) + Room(w0.s) <= 4  BY <2>2, <2>3
  <2>5. Sum(w0.spans, "on") + Sum(w0.spans, "off") + w0.left = f  BY <1>2, <1>3, <2>1
  <2>6. Sum(w0.spans, "on") + OwedBy(c, w0.s) = d  BY <1>2, <1>3, <1>5, <2>1
  <2>7. ~w0.s.ptt => Sum(w0.spans, "on") = d
    <3> SUFFICES ASSUME ~w0.s.ptt PROVE d = 0
      BY <2>1
    <3>1. live.txState = "idle"  BY <1>2, <1>4 DEF Progress
    <3>2. p.txState = "idle" /\ p.phase = "None" /\ p.turnoffFrames = 0 /\ p.finishFrames = 0
      BY <1>5, <3>1 DEF Progress, x
    <3> QED BY <3>2 DEF OwedBy, d
  <2>8. w0.s.txState = x  BY <1>2, <1>5
  <2> QED BY <1>2, <2>1, <2>4, <2>5, <2>6, <2>7, <2>8 DEF Spends
<1>7. w \in Works /\ w.left = 0 /\ Coherent(w.s)
  BY <1>2, <1>4, RenderTimelineType
<1>8. Spends(c, x, f, d, w)  BY <1>2, <1>3, <1>4, <1>6, RenderTimelineSpends
<1> HIDE DEF w
<1>9. w.s \in State /\ w.spans \in Seq(Spans)  BY <1>7, WorkFields DEF Works
<1>10. s \in State /\ SameCore(w.s, s)  BY <1>9, SettleCore
<1> HIDE DEF s
<1>11. r.s = s /\ r.ok = w.ok /\ r.spans = w.spans  BY <1>7 DEF Works
<1> HIDE DEF r
<1>12. OwedBy(c, r.s) = OwedBy(c, w.s) /\ r.s.ptt = w.s.ptt /\ r.s.txState = w.s.txState
  BY <1>10, <1>11, OwedByCore DEF SameCore
<1>13. Sum(r.spans, "on") \in Nat /\ Sum(r.spans, "off") \in Nat
  BY <1>9, <1>11, SumType
<1>14. Sum(r.spans, "on") + Sum(r.spans, "off") = f
  <2>1. Sum(w.spans, "on") + Sum(w.spans, "off") + w.left = f  BY <1>8, Zenon DEF Spends
  <2> QED BY <1>7, <1>11, <1>13, <2>1
<1>15. r.ok /\ Len(r.spans) \in 1 .. 4
  <2>1. w.ok /\ Len(w.spans) <= 4  BY <1>8, Zenon DEF Spends
  <2> DEFINE k == Len(r.spans)
  <2>2. k \in Nat  BY <1>9, <1>11
  <2>3. k # 0
    <3> SUFFICES ASSUME k = 0 PROVE FALSE
      OBVIOUS
    <3>1. r.spans = << >>  BY <1>9, <1>11
    <3>2. Sum(r.spans, "on") = 0 /\ Sum(r.spans, "off") = 0  BY <3>1, SumEmpty
    <3> QED BY <1>3, <1>14, <3>2
  <2> HIDE DEF k
  <2>4. k <= 4  BY <1>11, <2>1 DEF k
  <2>5. k \in 1 .. 4  BY <2>2, <2>3, <2>4
  <2> QED BY <1>11, <2>1, <2>5 DEF k
<1>16. /\ IF r.s.ptt
            THEN /\ Sum(r.spans, "off") = 0
                 /\ r.s.txState # "active" => Sum(r.spans, "on") + OwedBy(c, r.s) = d
            ELSE Sum(r.spans, "on") = d
       /\ x \in {"idle", "active"} => r.s.txState = x
       /\ x = "toc" => r.s.txState # "active"
       /\ x = "finishing" => r.s.txState \in {"finishing", "complete", "idle"}
  BY <1>8, <1>11, <1>12, Zenon DEF Spends
<1>17. Covers(c, f, p, r)
  BY <1>9, <1>11, <1>13, <1>14, <1>15, <1>16, Zenon DEF Covers, d, x
<1> QED BY <1>0, <1>17 DEF f

(* Steps *)

\* The inductive invariant.
Inv == TypeOK /\ TurnoffCoherent

\* The part of it that a callback reads: all but what the last one returned.
Core == cfg \in Policies /\ st \in State /\ TurnoffCoherent

LEMMA InvCore == Inv => Core
BY DEF Inv, Core, TypeOK

LEMMA CoreFacts ==
  ASSUME TransmitAssumption, Core
  PROVE  /\ cfg \in Policies /\ cfg \in Config /\ ValidPolicy(cfg)
         /\ st \in State /\ Coherent(st) /\ st.ptt \in BOOLEAN
BY CoherentIsTurnoffCoherent DEF Core, TransmitAssumption, ValidPolicy, State

LEMMA TickedCore ==
  ASSUME TransmitAssumption, Core, NEW in \in Input
  PROVE  Ticked(in) \in State /\ SameCore(st, Ticked(in))
<1> DEFINE h == Listen(cfg, st, in)
           t == [h EXCEPT !.txRem = Remainder(h.txRem, in.frames)]
<1>1. h \in State /\ SameCore(st, h)  BY CoreFacts, ListenCore
<1>2. Ticked(in) = t  BY DEF Ticked
<1> HIDE DEF h
<1>3. Remainder(h.txRem, in.frames) \in Nat
  <2>1. h.txRem \in Nat /\ in.frames \in Nat  BY <1>1 DEF State, Input
  <2> QED BY <2>1, ElapsedType
<1>4. t \in State /\ SameCore(h, t)  BY <1>1, <1>3 DEF State, SameCore
<1> QED BY <1>1, <1>2, <1>4 DEF SameCore

\* A callback that commits, or rejects, a state p the transmitter was prepared
\* to: PTT is as before, or has just risen with a status event.
LEMMA FinishPreserves ==
  ASSUME TransmitAssumption, Core, NEW in \in Input, NEW p \in State,
         NEW status \in BOOLEAN, Progress(p, in.frames), Finish(in, p, status),
         \/ p.ptt = st.ptt /\ status = FALSE
         \/ ~st.ptt /\ p.txState = "active" /\ status = TRUE
  PROVE  Inv' /\ ArmsAtRelease
<1> DEFINE ms == ElapsedMs(st.txRem, in.frames)
           w == Rendered(cfg, p, ms, in, status)
           done == [result |-> "ok", raised |-> ~st.ptt /\ w.s.ptt,
                    released |-> st.ptt /\ ~w.s.ptt,
                    status |-> w.status, arm |-> w.arm,
                    spans |-> w.spans, frames |-> in.frames,
                    request |-> in.request, inhibit |-> in.inhibit]
<1>1. /\ cfg \in Policies /\ cfg \in Config /\ st \in State /\ Coherent(st)
      /\ st.ptt \in BOOLEAN /\ p.ptt \in BOOLEAN /\ ms \in Nat
  <2>1. st.txRem \in Nat /\ in.frames \in Nat  BY CoreFacts DEF State, Input
  <2> QED BY <2>1, CoreFacts, ElapsedType DEF State
<1>2. /\ w \in Works /\ Coherent(w.s)
      /\ IF p.ptt /\ ~w.s.ptt
           THEN w.arm = cfg.blankingMs /\ w.status = TRUE
           ELSE w.arm = NoArm /\ w.status = status
      /\ p.txState \in {"idle", "active"} => w.s.txState = p.txState
  <2>1. Renders(cfg, p, status, w)
    <3> HIDE DEF ms
    <3> QED BY <1>1, RenderedType
  <2> HIDE DEF w
  <2> QED BY <2>1 DEF Renders
<1>3. cfg' = cfg  BY DEF Finish, Commit
<1>4. \/ w.ok /\ st' = w.s /\ out' = done
      \/ ~w.ok /\ st' = st /\ out' = NoOutput("rejected", in)
  BY DEF Finish, Commit
<1> HIDE DEF w, ms
<1>5. /\ w.s \in State /\ w.s.ptt \in BOOLEAN /\ w.arm \in Nat \cup {NoArm}
      /\ w.spans \in Seq(Spans) /\ w.status \in BOOLEAN
  BY <1>2, WorkFields DEF Works
<1>6. CASE st' = w.s /\ out' = done
  <2>1. /\ out'.result = "ok" /\ out'.arm = w.arm /\ out'.spans = w.spans
        /\ out'.status = w.status
    BY <1>6
  <2>2. ASSUME NEW i \in 1 .. Len(w.spans) PROVE w.spans[i].frames \in Nat \ {0}
    <3>1. w.spans[i] \in Spans  BY <1>5
    <3> QED BY <3>1 DEF Spans
  <2>3. TypeOK'  BY <1>1, <1>3, <1>5, <1>6, <2>1, <2>2 DEF TypeOK
  <2>4. TurnoffCoherent'
    <3>1. st' \in State /\ Coherent(st')  BY <1>2, <1>5, <1>6
    <3> QED BY <3>1 DEF TurnoffCoherent, Coherent, Progress, State
  <2>5. st.ptt <=> st.txState # "idle"  BY <1>1 DEF Coherent, Progress
  <2>6. w.s.ptt <=> w.s.txState # "idle"  BY <1>2 DEF Coherent, Progress
  <2>7. p.ptt <=> p.txState # "idle"  BY DEF Progress
  <2>8. CASE p.ptt = st.ptt /\ status = FALSE
    <3>0. st'.ptt = w.s.ptt  BY <1>6
    <3>1. ASSUME st.ptt /\ ~w.s.ptt PROVE ArmsAtRelease
      <4>1. w.arm = cfg.blankingMs /\ w.status = TRUE  BY <1>2, <2>8, <3>1
      <4>2. st.ptt = TRUE /\ w.s.ptt = FALSE  BY <1>1, <1>5, <3>1
      <4>3. out'.status <=> st'.ptt # st.ptt  BY <2>1, <3>0, <4>1, <4>2, Zenon
      <4>4. out'.arm = IF st.ptt /\ ~st'.ptt THEN cfg.blankingMs ELSE NoArm
        BY <2>1, <3>0, <4>1, <4>2, Zenon
      <4> QED BY <4>3, <4>4, Zenon DEF ArmsAtRelease
    <3>2. ASSUME ~(st.ptt /\ ~w.s.ptt) PROVE ArmsAtRelease
      <4>1. w.arm = NoArm /\ w.status = FALSE  BY <1>2, <2>8, <3>2
      <4>2. w.s.ptt = st.ptt
        BY <1>1, <1>2, <1>5, <2>5, <2>6, <2>7, <2>8, <3>2
      <4>3. ~(st.ptt /\ ~st'.ptt)  BY <3>0, <3>2
      <4>4. out'.status <=> st'.ptt # st.ptt  BY <2>1, <3>0, <4>1, <4>2, Zenon
      <4>5. out'.arm = IF st.ptt /\ ~st'.ptt THEN cfg.blankingMs ELSE NoArm
        BY <2>1, <4>1, <4>3, Zenon
      <4> QED BY <4>4, <4>5, Zenon DEF ArmsAtRelease
    <3>3. ArmsAtRelease  BY <3>1, <3>2
    <3> QED BY <2>3, <2>4, <3>3 DEF Inv
  <2>9. CASE ~st.ptt /\ p.txState = "active" /\ status = TRUE
    <3>1. w.s.ptt /\ w.arm = NoArm /\ w.status = TRUE  BY <1>2, <2>6, <2>9
    <3>2. ArmsAtRelease  BY <1>6, <2>1, <2>9, <3>1 DEF ArmsAtRelease
    <3> QED BY <2>3, <2>4, <3>2 DEF Inv
  <2> QED BY <2>8, <2>9
<1>7. CASE st' = st /\ out' = NoOutput("rejected", in)
  <2>1. /\ out'.result = "rejected" /\ out'.arm = NoArm /\ out'.spans = << >>
        /\ out'.status = FALSE
    BY <1>7 DEF NoOutput
  <2>2. TypeOK'  BY <1>1, <1>3, <1>7, <2>1 DEF TypeOK
  <2>3. TurnoffCoherent'  BY <1>7 DEF Core, TurnoffCoherent
  <2>4. ArmsAtRelease  BY <1>7, <2>1 DEF ArmsAtRelease
  <2> QED BY <2>2, <2>3, <2>4 DEF Inv
<1> QED BY <1>4, <1>6, <1>7

(* Actions *)

\* The state an admitted callback starts from keeps the turn-off bookkeeping.
LEMMA TickedFacts ==
  ASSUME TransmitAssumption, Core, NEW in \in Input
  PROVE  /\ Ticked(in) \in State /\ Progress(Ticked(in), 0)
         /\ Ticked(in).ptt = st.ptt /\ Ticked(in).txState = st.txState
<1>1. Ticked(in) \in State /\ SameCore(st, Ticked(in))  BY TickedCore
<1>2. Progress(st, 0)  BY CoreFacts DEF Coherent
<1> QED BY <1>1, <1>2, ProgressSameCore DEF SameCore

LEMMA HeldPreserves ==
  ASSUME TransmitAssumption, Core, NEW in \in Input, HeldTick(in)
  PROVE  Inv' /\ ArmsAtRelease
<1> DEFINE h == Listen(cfg, st, in)
<1>1. /\ cfg \in Policies /\ cfg \in Config /\ st \in State /\ Coherent(st)
  BY CoreFacts
<1>2. h \in State /\ SameCore(st, h)  BY <1>1, ListenCore
<1>3. st' = h /\ cfg' = cfg /\ out' = NoOutput("held", in)  BY DEF HeldTick
<1> HIDE DEF h
<1>4. /\ out'.result = "held" /\ out'.arm = NoArm /\ out'.spans = << >>
      /\ out'.status = FALSE
  BY <1>3 DEF NoOutput
<1>5. TypeOK'  BY <1>1, <1>2, <1>3, <1>4 DEF TypeOK
<1>6. Coherent(h)  BY <1>1, <1>2, ProgressSameCore DEF Coherent, SameCore
<1>7. TurnoffCoherent'
  BY <1>2, <1>3, <1>6 DEF TurnoffCoherent, Coherent, Progress, State
<1>8. st'.ptt = st.ptt  BY <1>2, <1>3 DEF SameCore
<1>9. ArmsAtRelease
  <2>1. ~(st.ptt /\ ~st'.ptt)  BY <1>8
  <2>2. out'.status <=> st'.ptt # st.ptt  BY <1>4, <1>8, Zenon
  <2>3. out'.arm = IF st.ptt /\ ~st'.ptt THEN cfg.blankingMs ELSE NoArm
    BY <1>4, <2>1, Zenon
  <2> QED BY <2>2, <2>3, Zenon DEF ArmsAtRelease
<1> QED BY <1>5, <1>7, <1>9 DEF Inv

LEMMA IdlePreserves ==
  ASSUME TransmitAssumption, Core, NEW in \in Input, IdleTick(in)
  PROVE  Inv' /\ ArmsAtRelease
<1>1. Ticked(in) \in State /\ Progress(Ticked(in), 0) /\ Ticked(in).ptt = st.ptt
      /\ Ticked(in).txState = "idle"
  BY TickedFacts DEF IdleTick
<1>2. Progress(Ticked(in), in.frames)  BY <1>1 DEF Progress
<1>3. Finish(in, Ticked(in), FALSE)  BY DEF IdleTick
<1> QED BY <1>1, <1>2, <1>3, FinishPreserves

\* The one callback that raises PTT.
LEMMA KeyPreserves ==
  ASSUME TransmitAssumption, Core, NEW in \in Input, KeyTick(in)
  PROVE  Inv' /\ ArmsAtRelease
<1> DEFINE p == KeyUp(cfg, Ticked(in), in)
<1>1. Ticked(in) \in State  BY TickedFacts
<1>2. cfg \in Config /\ in.frames \in Nat  BY CoreFacts DEF Input
<1>3. p \in State /\ Progress(p, in.frames) /\ p.txState = "active"
  BY <1>1, <1>2, KeyUpProgress
<1>4. ~st.ptt
  <2>1. st.txState = "idle"  BY DEF KeyTick
  <2> QED BY <2>1, CoreFacts DEF Coherent, Progress
<1>5. Finish(in, p, TRUE)  BY DEF KeyTick
<1> HIDE DEF p
<1> QED BY <1>3, <1>4, <1>5, FinishPreserves

LEMMA TalkPreserves ==
  ASSUME TransmitAssumption, Core, NEW in \in Input, TalkTick(in)
  PROVE  Inv' /\ ArmsAtRelease
<1> DEFINE p == StayKeyed(cfg, Ticked(in), in)
<1>1. Ticked(in) \in State /\ Progress(Ticked(in), 0) /\ Ticked(in).ptt = st.ptt
      /\ Ticked(in).txState = "active"
  BY TickedFacts DEF TalkTick
<1>2. cfg \in Config  BY CoreFacts
<1>3. p \in State /\ SameCore(Ticked(in), p)  BY <1>1, <1>2, StayKeyedProgress
<1>4. Finish(in, p, FALSE)  BY DEF TalkTick
<1> HIDE DEF p
<1>5. Progress(p, in.frames) /\ p.ptt = st.ptt
  BY <1>1, <1>3 DEF Progress, SameCore
<1> QED BY <1>3, <1>4, <1>5, FinishPreserves

\* A release leaves ACTIVE with PTT up, whichever turn-off it begins.
LEMMA ReleasePreserves ==
  ASSUME TransmitAssumption, Core, NEW in \in Input, ReleaseTick(in)
  PROVE  Inv' /\ ArmsAtRelease
<1> DEFINE p == BeginRelease(cfg, Ticked(in), in)
<1>1. Ticked(in) \in State /\ Progress(Ticked(in), 0) /\ Ticked(in).ptt = st.ptt
      /\ Ticked(in).txState = "active"
  BY TickedFacts DEF ReleaseTick
<1>2. Keyed(Ticked(in))  BY <1>1 DEF Keyed
<1>3. cfg \in Config /\ ValidPolicy(cfg) /\ in.frames \in Nat \ {0}
      /\ st.ptt \in BOOLEAN
  BY CoreFacts DEF Input
<1>4. p \in State /\ Progress(p, in.frames) /\ p.txState \in {"toc", "finishing"}
  BY <1>1, <1>2, <1>3, BeginReleaseProgress
<1>5. Finish(in, p, FALSE)  BY DEF ReleaseTick
<1> HIDE DEF p
<1>6. p.ptt = st.ptt
  <2>1. p.ptt \in BOOLEAN /\ p.ptt  BY <1>4 DEF State, Progress
  <2>2. st.ptt  BY <1>1 DEF Progress
  <2> QED BY <1>3, <2>1, <2>2
<1> QED BY <1>4, <1>5, <1>6, FinishPreserves

\* A rekey goes back to ACTIVE without PTT having dropped.
LEMMA RekeyPreserves ==
  ASSUME TransmitAssumption, Core, NEW in \in Input,
         RekeyDcsTick(in) \/ RekeyCtcssTick(in)
  PROVE  Inv' /\ ArmsAtRelease
<1>1. Ticked(in) \in State /\ Progress(Ticked(in), 0) /\ Ticked(in).ptt = st.ptt
      /\ Ticked(in).txState = "toc"
  BY TickedFacts DEF RekeyDcsTick, RekeyCtcssTick
<1>2. cfg \in Config /\ in.frames \in Nat /\ st.ptt \in BOOLEAN
  BY CoreFacts DEF Input
<1>3. PICK p \in {RekeyDcsTail(Ticked(in)), RekeyCtcssTail(cfg, Ticked(in))} :
        Finish(in, p, FALSE)
  BY DEF RekeyDcsTick, RekeyCtcssTick
<1>4. p \in State /\ Progress(p, in.frames) /\ p.txState = "active"
  BY <1>1, <1>2, <1>3, RekeyDcsTailProgress, RekeyCtcssTailProgress
<1>5. p.ptt = st.ptt
  <2>1. p.ptt \in BOOLEAN /\ p.ptt  BY <1>4 DEF State, Progress
  <2>2. st.ptt  BY <1>1 DEF Progress
  <2> QED BY <1>2, <2>1, <2>2
<1> QED BY <1>3, <1>4, <1>5, FinishPreserves

LEMMA TurnoffPreserves ==
  ASSUME TransmitAssumption, Core, NEW in \in Input, TurnoffTick(in)
  PROVE  Inv' /\ ArmsAtRelease
<1>1. Ticked(in) \in State /\ Progress(Ticked(in), 0) /\ Ticked(in).ptt = st.ptt
  BY TickedFacts
<1>2. Progress(Ticked(in), in.frames)  BY <1>1 DEF Progress
<1>3. Finish(in, Ticked(in), FALSE)  BY DEF TurnoffTick
<1> QED BY <1>1, <1>2, <1>3, FinishPreserves

LEMMA RejectedPreserves ==
  ASSUME TransmitAssumption, Core, NEW in \in Input, RejectedTick(in)
  PROVE  Inv' /\ ArmsAtRelease
<1>1. cfg \in Policies /\ st \in State  BY CoreFacts
<1>2. st' = st /\ cfg' = cfg /\ out' = NoOutput("rejected", in)
  BY DEF RejectedTick
<1>3. /\ out'.result = "rejected" /\ out'.arm = NoArm /\ out'.spans = << >>
      /\ out'.status = FALSE
  BY <1>2 DEF NoOutput
<1>4. TypeOK'  BY <1>1, <1>2, <1>3 DEF TypeOK
<1>5. TurnoffCoherent'  BY <1>2 DEF Core, TurnoffCoherent
<1>6. ArmsAtRelease  BY <1>2, <1>3 DEF ArmsAtRelease
<1> QED BY <1>4, <1>5, <1>6 DEF Inv

LEMMA UpdatePreserves ==
  ASSUME TransmitAssumption, Core, NEW c \in Policies, UpdateConfig(c)
  PROVE  Inv' /\ ArmsAtRelease
<1>1. st \in State  BY CoreFacts
<1>2. st' = st /\ cfg' \in Policies /\ out' = Startup  BY DEF UpdateConfig
<1>3. /\ out'.result = "none" /\ out'.arm = NoArm /\ out'.spans = << >>
      /\ out'.status = FALSE
  BY <1>2 DEF Startup
<1>4. TypeOK'  BY <1>1, <1>2, <1>3 DEF TypeOK
<1>5. TurnoffCoherent'  BY <1>2 DEF Core, TurnoffCoherent
<1>6. ArmsAtRelease  BY <1>2, <1>3 DEF ArmsAtRelease
<1> QED BY <1>4, <1>5, <1>6 DEF Inv

LEMMA StepPreserves ==
  ASSUME TransmitAssumption, Core, Next
  PROVE  Inv' /\ ArmsAtRelease
<1>1. CASE \E in \in Inputs : Tick(in)
  <2>1. PICK in \in Input : Tick(in)  BY <1>1 DEF TransmitAssumption
  <2>2. CASE HeldTick(in)  BY <2>2, HeldPreserves
  <2>3. CASE RejectedTick(in)  BY <2>3, RejectedPreserves
  <2>4. CASE IdleTick(in)  BY <2>4, IdlePreserves
  <2>5. CASE KeyTick(in)  BY <2>5, KeyPreserves
  <2>6. CASE TalkTick(in)  BY <2>6, TalkPreserves
  <2>7. CASE ReleaseTick(in)  BY <2>7, ReleasePreserves
  <2>8. CASE RekeyDcsTick(in) \/ RekeyCtcssTick(in)  BY <2>8, RekeyPreserves
  <2>9. CASE TurnoffTick(in)  BY <2>9, TurnoffPreserves
  <2> QED BY <2>1, <2>2, <2>3, <2>4, <2>5, <2>6, <2>7, <2>8, <2>9
          DEF Tick, AdmittedTick
<1>2. CASE \E c \in Policies : UpdateConfig(c)  BY <1>2, UpdatePreserves
<1> QED BY <1>1, <1>2 DEF Next

LEMMA InitEstablishes ==
  ASSUME TransmitAssumption, Init
  PROVE  Inv
<1>1. InitialState \in State
  <2>1. InitialFreq \in Freqs \cup {0}  BY DEF TransmitAssumption
  <2> QED BY <2>1 DEF InitialState, State, Options
<1>2. cfg \in Policies /\ st = InitialState /\ out = Startup  BY DEF Init
<1>3. /\ out.result = "none" /\ out.arm = NoArm /\ out.spans = << >>
  BY <1>2 DEF Startup
<1>4. TypeOK  BY <1>1, <1>2, <1>3 DEF TypeOK
<1>5. TurnoffCoherent  BY <1>2 DEF TurnoffCoherent, InitialState
<1> QED BY <1>4, <1>5 DEF Inv

\* The invariant that makes the two safety theorems below inductive: the types,
\* and the agreement of the turn-off bookkeeping on which every branch of the
\* renderer's timeline depends.
THEOREM SpecInv == Spec => []Inv
<1>1. Init => Inv  BY TransmitAssumption, InitEstablishes
<1>2. Inv /\ [Next]_vars => Inv'
  <2>1. ASSUME Inv, Next PROVE Inv'
    BY <2>1, InvCore, TransmitAssumption, StepPreserves
  <2>2. ASSUME Inv, UNCHANGED vars PROVE Inv'
    BY <2>2 DEF Inv, TypeOK, TurnoffCoherent, vars
  <2> QED BY <2>1, <2>2
<1> QED BY <1>1, <1>2, PTL DEF Spec

\* No sequence of callbacks of any sizes, and no live update, takes a timer, a
\* phase or a renderer field outside its type (advance_render_timeline).
THEOREM SpecTypeOK == Spec => []TypeOK
<1>1. Inv => TypeOK  BY DEF Inv
<1> QED BY <1>1, SpecInv, PTL

\* PTT, the transmit state, the turn-off phase and the two forms of the DCS
\* countdown never disagree between callbacks (prepare_transmitter and
\* advance_render_timeline).
THEOREM SpecTurnoffCoherent == Spec => []TurnoffCoherent
<1>1. Inv => TurnoffCoherent  BY DEF Inv
<1> QED BY <1>1, SpecInv, PTL

\* Receiver blanking is armed by the callback that drops PTT and by no other,
\* whatever phases that callback crosses (complete_transmission).
THEOREM SpecArmedExactlyAtRelease == Spec => ArmedExactlyAtRelease
<1>1. Inv /\ [Next]_vars => [ArmsAtRelease]_vars
  <2>1. ASSUME Inv, Next PROVE ArmsAtRelease
    BY <2>1, InvCore, TransmitAssumption, StepPreserves
  <2> QED BY <2>1
<1> QED BY <1>1, SpecInv, PTL DEF Spec, ArmedExactlyAtRelease

(* What SpanFrames computes, and the lifecycle's view of a callback *)

\* What the i-th span of the last callback adds to SpanFrames(indices).
Counted(indices, i) == IF i \in indices THEN out.spans[i].frames ELSE 0

LEMMA SpanFramesIs ==
  ASSUME NEW indices, Len(out.spans) \in 0 .. 4,
         \A i \in 1 .. Len(out.spans) : out.spans[i].frames \in Nat
  PROVE  SpanFrames(indices) =
           LET n == Len(out.spans) IN
           (IF n >= 1 THEN Counted(indices, 1) ELSE 0) + (IF n >= 2 THEN Counted(indices, 2) ELSE 0)
           + (IF n >= 3 THEN Counted(indices, 3) ELSE 0)
           + (IF n >= 4 THEN Counted(indices, 4) ELSE 0)
<1> DEFINE n == Len(out.spans)
           T(i) == IF i \in indices THEN out.spans[i].frames ELSE 0
           Sums(f) == f = [i \in 0 .. n |-> IF i = 0 THEN 0 ELSE f[i - 1] + T(i)]
           g == [i \in 0 .. n |-> IF i = 0 THEN 0 ELSE IF i = 1 THEN T(1)
                 ELSE IF i = 2 THEN T(1) + T(2) ELSE IF i = 3 THEN T(1) + T(2) + T(3)
                 ELSE T(1) + T(2) + T(3) + T(4)]
           sum == CHOOSE f : Sums(f)
<1>1. SpanFrames(indices) = sum[n]
  BY DEF SpanFrames
<1>2. n \in 0 .. 4 /\ \A i \in 1 .. n : T(i) \in Nat
  OBVIOUS
<1> HIDE DEF n, T
<1>3. Sums(g)
  <2> DEFINE h == [i \in 0 .. n |-> IF i = 0 THEN 0 ELSE g[i - 1] + T(i)]
  <2>1. ASSUME NEW i \in 0 .. n PROVE g[i] = h[i]
    <3>1. i \in {0, 1, 2, 3, 4} /\ (i # 0 => i - 1 \in 0 .. n)
      BY <1>2
    <3>2. \A j \in 0 .. n : g[j] = IF j = 0 THEN 0 ELSE IF j = 1 THEN T(1)
                 ELSE IF j = 2 THEN T(1) + T(2) ELSE IF j = 3 THEN T(1) + T(2) + T(3)
                 ELSE T(1) + T(2) + T(3) + T(4)
      OBVIOUS
    <3> HIDE DEF g
    <3>3. h[i] = IF i = 0 THEN 0 ELSE g[i - 1] + T(i)
      OBVIOUS
    <3> HIDE DEF h
    <3>4. CASE i = 0
      BY <3>2, <3>3, <3>4
    <3>5. CASE i = 1
      BY <1>2, <3>1, <3>2, <3>3, <3>5
    <3>6. CASE i = 2
      BY <1>2, <3>1, <3>2, <3>3, <3>6
    <3>7. CASE i = 3
      BY <1>2, <3>1, <3>2, <3>3, <3>7
    <3>8. CASE i = 4
      BY <1>2, <3>1, <3>2, <3>3, <3>8
    <3> QED
      BY <3>1, <3>4, <3>5, <3>6, <3>7, <3>8
  <2>2. g = [i \in 0 .. n |-> g[i]] /\ h = [i \in 0 .. n |-> h[i]]
    OBVIOUS
  <2>3. g = h
    <3> HIDE DEF g, h
    <3>1. [i \in 0 .. n |-> g[i]] = [i \in 0 .. n |-> h[i]]
      BY <2>1
    <3> QED
      BY <2>2, <3>1
  <2> QED
    BY <2>3
<1>4. Sums(sum)
  <2> HIDE DEF Sums, g
  <2> QED
    BY <1>3
<1>5. \A i \in 0 .. n : sum[i] = IF i = 0 THEN 0 ELSE sum[i - 1] + T(i)
  <2> HIDE DEF sum
  <2> QED
    BY <1>4
<1> HIDE DEF sum, Sums, g
<1>6. n \in {0, 1, 2, 3, 4}
  BY <1>2
<1>7. sum[n] = (IF n >= 1 THEN T(1) ELSE 0) + (IF n >= 2 THEN T(2) ELSE 0)
           + (IF n >= 3 THEN T(3) ELSE 0) + (IF n >= 4 THEN T(4) ELSE 0)
  <2>0. sum[0] = 0
    BY <1>5, <1>6
  <2>1. n >= 1 => sum[1] = T(1) /\ T(1) \in Nat
    <3> SUFFICES ASSUME n >= 1 PROVE sum[1] = T(1) /\ T(1) \in Nat
      OBVIOUS
    <3>1. 1 \in 0 .. n /\ 1 \in 1 .. n
      BY <1>6
    <3>2. sum[1] = sum[1 - 1] + T(1) /\ T(1) \in Nat
      BY <1>2, <1>5, <3>1
    <3> QED
      BY <2>0, <3>2
  <2>2. n >= 2 => sum[2] = sum[1] + T(2) /\ T(2) \in Nat
    <3> SUFFICES ASSUME n >= 2 PROVE sum[2] = sum[1] + T(2) /\ T(2) \in Nat
      OBVIOUS
    <3>1. 2 \in 0 .. n /\ 2 \in 1 .. n
      BY <1>6
    <3>2. sum[2] = sum[2 - 1] + T(2) /\ T(2) \in Nat
      BY <1>2, <1>5, <3>1
    <3> QED
      BY <3>2
  <2>3. n >= 3 => sum[3] = sum[2] + T(3) /\ T(3) \in Nat
    <3> SUFFICES ASSUME n >= 3 PROVE sum[3] = sum[2] + T(3) /\ T(3) \in Nat
      OBVIOUS
    <3>1. 3 \in 0 .. n /\ 3 \in 1 .. n
      BY <1>6
    <3>2. sum[3] = sum[3 - 1] + T(3) /\ T(3) \in Nat
      BY <1>2, <1>5, <3>1
    <3> QED
      BY <3>2
  <2>4. n >= 4 => sum[4] = sum[3] + T(4) /\ T(4) \in Nat
    <3> SUFFICES ASSUME n >= 4 PROVE sum[4] = sum[3] + T(4) /\ T(4) \in Nat
      OBVIOUS
    <3>1. 4 \in 0 .. n /\ 4 \in 1 .. n
      BY <1>6
    <3>2. sum[4] = sum[4 - 1] + T(4) /\ T(4) \in Nat
      BY <1>2, <1>5, <3>1
    <3> QED
      BY <3>2
  <2> QED
    BY <1>6, <2>0, <2>1, <2>2, <2>3, <2>4
<1>8. \A i \in 1 .. 4 : T(i) = Counted(indices, i)
  BY DEF T, Counted
<1> QED BY <1>1, <1>7, <1>8 DEF n

\* The spans of a callback: at most four, and they tile it.
Tiled ==
  /\ out.spans \in Seq(Spans) /\ Len(out.spans) <= 4
  /\ out.result = "ok" =>
       /\ Len(out.spans) >= 1
       /\ out.frames = Sum(out.spans, "on") + Sum(out.spans, "off")

LEMMA TermByIndex ==
  ASSUME Tiled, NEW i \in 1 .. 4
  PROVE  LET n == Len(out.spans) IN
         /\ (IF n >= i THEN Counted(PttSpans, i) ELSE 0) = Term(out.spans, i, "on")
         /\ (IF n >= i THEN Counted((1 .. n) \ PttSpans, i) ELSE 0)
              = Term(out.spans, i, "off")
         /\ (IF n >= i THEN Counted(1 .. n, i) ELSE 0)
              = Term(out.spans, i, "on") + Term(out.spans, i, "off")
<1> DEFINE n == Len(out.spans)
<1>1. n \in Nat /\ (n >= i <=> i \in 1 .. n)  BY DEF Tiled
<1>2. CASE i \in 1 .. n
  <2>1. out.spans[i] \in Spans  BY <1>2 DEF Tiled
  <2>2. out.spans[i].frames \in Nat /\ out.spans[i].intent.ptt \in BOOLEAN
    BY <2>1 DEF Spans, Intents
  <2>3. i \in PttSpans <=> out.spans[i].intent.ptt  BY <1>2 DEF PttSpans
  <2>4. CASE out.spans[i].intent.ptt
    <3>1. Term(out.spans, i, "on") = out.spans[i].frames /\ Term(out.spans, i, "off") = 0
      BY <1>2, <2>4 DEF Term, Side
    <3> QED BY <1>1, <1>2, <2>2, <2>3, <2>4, <3>1 DEF Counted
  <2>5. CASE ~out.spans[i].intent.ptt
    <3>1. Term(out.spans, i, "off") = out.spans[i].frames /\ Term(out.spans, i, "on") = 0
      BY <1>2, <2>5 DEF Term, Side
    <3> QED BY <1>1, <1>2, <2>2, <2>3, <2>5, <3>1 DEF Counted
  <2> QED BY <2>4, <2>5
<1>3. CASE i \notin 1 .. n
  <2>1. Term(out.spans, i, "on") = 0 /\ Term(out.spans, i, "off") = 0  BY <1>3 DEF Term
  <2> QED BY <1>1, <1>3, <2>1
<1> QED BY <1>2, <1>3

\* SpanFrames and Sum count the same frames.
LEMMA SpanFramesAreSums ==
  Tiled =>
    /\ SpanFrames(PttSpans) = Sum(out.spans, "on")
    /\ SpanFrames((1 .. Len(out.spans)) \ PttSpans) = Sum(out.spans, "off")
    /\ SpanFrames(1 .. Len(out.spans)) = Sum(out.spans, "on") + Sum(out.spans, "off")
<1> SUFFICES ASSUME Tiled
             PROVE  /\ SpanFrames(PttSpans) = Sum(out.spans, "on")
                    /\ SpanFrames((1 .. Len(out.spans)) \ PttSpans) = Sum(out.spans, "off")
                    /\ SpanFrames(1 .. Len(out.spans))
                         = Sum(out.spans, "on") + Sum(out.spans, "off")
  OBVIOUS
<1> DEFINE n == Len(out.spans)
           all == 1 .. n
           rest == all \ PttSpans
           C(indices, i) == IF n >= i THEN Counted(indices, i) ELSE 0
<1>1. n \in 0 .. 4 /\ \A i \in 1 .. n : out.spans[i].frames \in Nat
  <2>1. \A i \in 1 .. n : out.spans[i] \in Spans  BY DEF Tiled
  <2>2. n \in Nat /\ n <= 4  BY DEF Tiled
  <2>3. \A i \in 1 .. n : out.spans[i].frames \in Nat  BY <2>1 DEF Spans
  <2> HIDE DEF n
  <2> QED BY <2>2, <2>3
<1>2. ASSUME NEW indices
      PROVE  SpanFrames(indices)
               = C(indices, 1) + C(indices, 2) + C(indices, 3) + C(indices, 4)
  BY <1>1, SpanFramesIs
<1>3. ASSUME NEW i \in 1 .. 4
      PROVE  /\ C(PttSpans, i) = Term(out.spans, i, "on")
             /\ C(rest, i) = Term(out.spans, i, "off")
             /\ C(all, i) = Term(out.spans, i, "on") + Term(out.spans, i, "off")
  BY TermByIndex
<1>4. ASSUME NEW i \in 1 .. 4, NEW b PROVE Term(out.spans, i, b) \in Nat
  BY TermType DEF Tiled
<1> HIDE DEF n, all, rest, C
<1>5. 1 \in 1 .. 4 /\ 2 \in 1 .. 4 /\ 3 \in 1 .. 4 /\ 4 \in 1 .. 4  OBVIOUS
<1>6. SpanFrames(PttSpans) = Sum(out.spans, "on")
  BY <1>2, <1>3, <1>5 DEF Sum
<1>7. SpanFrames(rest) = Sum(out.spans, "off")
  BY <1>2, <1>3, <1>5 DEF Sum
<1>8. SpanFrames(all) = Sum(out.spans, "on") + Sum(out.spans, "off")
  <2>1. SpanFrames(all) = C(all, 1) + C(all, 2) + C(all, 3) + C(all, 4)  BY <1>2
  <2> QED BY <1>3, <1>4, <1>5, <2>1 DEF Sum
<1> QED BY <1>6, <1>7, <1>8 DEF all, rest, n

\* What a committed callback makes of the state p it was prepared to.
LEMMA FinishDelivers ==
  ASSUME TransmitAssumption, Core, NEW in \in Input, NEW p \in State,
         NEW status \in BOOLEAN, Progress(p, in.frames), Finish(in, p, status)
  PROVE  /\ cfg' = cfg /\ out'.result = "ok" /\ out'.frames = in.frames
         /\ \E e \in Works :
              /\ Covers(cfg, in.frames, p, e) /\ Renders(cfg, p, status, e)
              /\ st' = e.s /\ out'.spans = e.spans /\ out'.arm = e.arm
<1> DEFINE ms == ElapsedMs(st.txRem, in.frames)
           w == Rendered(cfg, p, ms, in, status)
           done == [result |-> "ok", raised |-> ~st.ptt /\ w.s.ptt,
                    released |-> st.ptt /\ ~w.s.ptt,
                    status |-> w.status, arm |-> w.arm,
                    spans |-> w.spans, frames |-> in.frames,
                    request |-> in.request, inhibit |-> in.inhibit]
<1>1. cfg \in Config /\ ms \in Nat
  <2>1. st.txRem \in Nat /\ in.frames \in Nat  BY CoreFacts DEF State, Input
  <2> QED BY <2>1, CoreFacts, ElapsedType
<1>2. Commit(in, w)  BY DEF Finish
<1> HIDE DEF ms
<1>3. Renders(cfg, p, status, w) /\ Covers(cfg, in.frames, p, w)
  BY <1>1, RenderedType, RenderedCovers
<1> HIDE DEF w
<1>4. w.ok /\ w \in Works  BY <1>3 DEF Renders, Covers
<1>5. cfg' = cfg /\ st' = w.s /\ out' = done  BY <1>2, <1>4 DEF Commit
<1>6. /\ out'.result = "ok" /\ out'.frames = in.frames
      /\ out'.spans = w.spans /\ out'.arm = w.arm
  BY <1>5
<1> QED BY <1>3, <1>4, <1>5, <1>6

\* A callback that reaches no renderer leaves no span.
LEMMA SilentTiled ==
  ASSUME out'.spans = << >>, out'.result # "ok"
  PROVE  Tiled'
BY DEF Tiled

LEMMA FinishTiled ==
  ASSUME TransmitAssumption, Core, NEW in \in Input, NEW p \in State,
         NEW status \in BOOLEAN, Progress(p, in.frames), Finish(in, p, status)
  PROVE  Tiled' /\ out'.result = "ok"
<1>1. PICK e \in Works :
        /\ Covers(cfg, in.frames, p, e)
        /\ st' = e.s /\ out'.spans = e.spans /\ out'.arm = e.arm
  BY FinishDelivers
<1>2. out'.result = "ok" /\ out'.frames = in.frames  BY FinishDelivers
<1>3. /\ e.spans \in Seq(Spans) /\ Len(e.spans) \in 1 .. 4
      /\ Sum(e.spans, "on") + Sum(e.spans, "off") = in.frames
  BY <1>1 DEF Covers
<1>4. out'.spans \in Seq(Spans) /\ Len(out'.spans) <= 4 /\ Len(out'.spans) >= 1
  <2> DEFINE n == Len(e.spans)
  <2>1. n \in 1 .. 4  BY <1>3
  <2> HIDE DEF n
  <2>2. n <= 4 /\ n >= 1  BY <2>1
  <2> QED BY <1>1, <1>3, <2>2 DEF n
<1>5. Sum(out'.spans, "on") + Sum(out'.spans, "off") = out'.frames
  BY <1>1, <1>2, <1>3
<1> QED BY <1>2, <1>4, <1>5 DEF Tiled

\* What every step does to the spans, and the one step that is refused.
StepSpans ==
  /\ Tiled'
  /\ out'.result = "rejected" => st.phase = "DcsTail" /\ cfg.dcsTailMs <= 0

LEMMA FinishSpans ==
  ASSUME TransmitAssumption, Core, NEW in \in Input, NEW p \in State,
         NEW status \in BOOLEAN, Progress(p, in.frames), Finish(in, p, status)
  PROVE  StepSpans
BY FinishTiled, Zenon DEF StepSpans

LEMMA SilentSpans ==
  ASSUME out'.spans = << >>, out'.result \in {"none", "held"}
  PROVE  StepSpans
BY SilentTiled DEF StepSpans

\* The countdown of a DCS tail is never zero between callbacks, so a rekey is
\* refused only for want of a DCS tail in the policy.
LEMMA RejectedSpans ==
  ASSUME TransmitAssumption, Core, NEW in \in Input, RejectedTick(in)
  PROVE  StepSpans
<1>1. /\ st.phase = "DcsTail" /\ DcsRekeyRejected(cfg, st) /\ out' = NoOutput("rejected", in)
  BY DEF RejectedTick
<1>2. st.dcsMs = RemainingMs(st.turnoffFrames) /\ st.turnoffFrames \in Nat \ {0}
  <2>1. st \in State /\ Coherent(st)  BY CoreFacts
  <2>2. st.txState = "toc"  BY <1>1, <2>1 DEF Coherent, Progress, State
  <2> QED BY <1>1, <2>1, <2>2 DEF Coherent, Progress, State
<1>3. RemainingMs(st.turnoffFrames) \in Nat /\ RemainingMs(st.turnoffFrames) # 0
  <2>1. FramesPerMs \in Nat \ {0}  BY DEF TransmitAssumption
  <2> QED BY <1>2, <2>1, CeilDivNat DEF RemainingMs
<1>4. cfg.dcsTailMs <= 0
  <2>1. ~(st.dcsMs <= 0)  BY <1>2, <1>3
  <2> QED BY <1>1, <2>1 DEF DcsRekeyRejected
<1>5. out'.spans = << >> /\ out'.result = "rejected"  BY <1>1 DEF NoOutput
<1> QED BY <1>1, <1>4, <1>5, SilentTiled DEF StepSpans

LEMMA PreparedSpans ==
  ASSUME TransmitAssumption, Core, NEW in \in Input, AdmittedTick(in)
  PROVE  \E p \in State, status \in BOOLEAN :
           Progress(p, in.frames) /\ Finish(in, p, status)
<1> DEFINE t == Ticked(in)
<1>1. /\ t \in State /\ Progress(t, 0) /\ t.txState = st.txState
  BY TickedFacts
<1>2. cfg \in Config /\ ValidPolicy(cfg) /\ in.frames \in Nat \ {0}
  BY CoreFacts DEF Input
<1>3. Progress(t, in.frames)  BY <1>1, <1>2 DEF Progress
<1> HIDE DEF t
<1>4. CASE IdleTick(in) \/ TurnoffTick(in)
  <2>1. Finish(in, t, FALSE)  BY <1>4 DEF IdleTick, TurnoffTick, t
  <2> QED BY <1>1, <1>3, <2>1
<1>5. CASE KeyTick(in)
  <2>1. Finish(in, KeyUp(cfg, t, in), TRUE)  BY <1>5 DEF KeyTick, t
  <2>2. KeyUp(cfg, t, in) \in State /\ Progress(KeyUp(cfg, t, in), in.frames)
    BY <1>1, <1>2, KeyUpProgress
  <2> QED BY <2>1, <2>2
<1>6. CASE TalkTick(in)
  <2> DEFINE p == StayKeyed(cfg, t, in)
  <2>1. Finish(in, p, FALSE) /\ st.txState = "active"  BY <1>6 DEF TalkTick, t
  <2>2. p \in State /\ SameCore(t, p)  BY <1>1, <1>2, <2>1, StayKeyedProgress
  <2> HIDE DEF p
  <2>3. Progress(p, in.frames)  BY <1>2, <1>3, <2>2, ProgressSameCore
  <2> QED BY <2>1, <2>2, <2>3
<1>7. CASE ReleaseTick(in)
  <2>1. Finish(in, BeginRelease(cfg, t, in), FALSE) /\ st.txState = "active"
    BY <1>7 DEF ReleaseTick, t
  <2>2. Keyed(t)  BY <1>1, <2>1 DEF Keyed
  <2>3. /\ BeginRelease(cfg, t, in) \in State
        /\ Progress(BeginRelease(cfg, t, in), in.frames)
    BY <1>1, <1>2, <2>2, BeginReleaseProgress
  <2> QED BY <2>1, <2>3
<1>8. CASE RekeyDcsTick(in)
  <2>1. Finish(in, RekeyDcsTail(t), FALSE) /\ st.txState = "toc"
    BY <1>8 DEF RekeyDcsTick, t
  <2>2. RekeyDcsTail(t) \in State /\ Progress(RekeyDcsTail(t), in.frames)
    BY <1>1, <1>2, <2>1, RekeyDcsTailProgress
  <2> QED BY <2>1, <2>2
<1>9. CASE RekeyCtcssTick(in)
  <2>1. Finish(in, RekeyCtcssTail(cfg, t), FALSE) /\ st.txState = "toc"
    BY <1>9 DEF RekeyCtcssTick, t
  <2>2. RekeyCtcssTail(cfg, t) \in State /\ Progress(RekeyCtcssTail(cfg, t), in.frames)
    BY <1>1, <1>2, <2>1, RekeyCtcssTailProgress
  <2> QED BY <2>1, <2>2
<1> QED BY <1>4, <1>5, <1>6, <1>7, <1>8, <1>9 DEF AdmittedTick

LEMMA StepSpansTile ==
  ASSUME TransmitAssumption, Core, Next
  PROVE  StepSpans
<1>1. ASSUME NEW in \in Input, Tick(in) PROVE StepSpans
  <2>1. CASE HeldTick(in)
    <3>1. out' = NoOutput("held", in)  BY <2>1 DEF HeldTick
    <3>2. out'.spans = << >> /\ out'.result = "held"  BY <3>1 DEF NoOutput
    <3> QED BY <3>2, SilentSpans
  <2>2. CASE RejectedTick(in)  BY <2>2, RejectedSpans
  <2>3. CASE AdmittedTick(in)
    <3>1. PICK p \in State, status \in BOOLEAN :
            Progress(p, in.frames) /\ Finish(in, p, status)
      BY <2>3, PreparedSpans
    <3> QED BY <3>1, FinishSpans
  <2> QED BY <1>1, <2>1, <2>2, <2>3 DEF Tick
<1>2. ASSUME NEW c \in Policies, UpdateConfig(c) PROVE StepSpans
  <2>1. out' = Startup  BY <1>2 DEF UpdateConfig
  <2>2. out'.spans = << >> /\ out'.result = "none"  BY <2>1 DEF Startup
  <2> QED BY <2>2, SilentSpans
<1> QED BY <1>1, <1>2 DEF Next, TransmitAssumption

\* A callback that is admitted is cut into one to four spans that carry each of
\* its frames exactly once, whatever phases of a turn-off it crosses: the room
\* MAX_RENDER_SPANS leaves is enough for every policy and callback size.
THEOREM SpecSpansTileTick == Spec => []SpansTileTick
<1>1. Init => Tiled
  BY DEF Init, Startup, Tiled
<1>2. Inv /\ Tiled /\ [Next]_vars => Tiled'
  <2>1. ASSUME Inv, Next PROVE Tiled'
    BY <2>1, InvCore, TransmitAssumption, StepSpansTile DEF StepSpans
  <2>2. ASSUME Tiled, UNCHANGED vars PROVE Tiled'  BY <2>2 DEF Tiled, vars
  <2> QED BY <2>1, <2>2
<1>3. Tiled => SpansTileTick
  <2> DEFINE n == Len(out.spans)
  <2> SUFFICES ASSUME Tiled, out.result = "ok"
               PROVE  n \in 1 .. MaxRenderSpans /\ out.frames = SpanFrames(1 .. n)
    BY DEF SpansTileTick
  <2>1. n \in Nat /\ n >= 1 /\ n <= 4  BY DEF Tiled
  <2>2. out.frames = SpanFrames(1 .. n)  BY SpanFramesAreSums DEF Tiled
  <2> HIDE DEF n
  <2> QED BY <2>1, <2>2 DEF MaxRenderSpans
<1> QED BY <1>1, <1>2, <1>3, SpecInv, PTL DEF Spec

\* The one callback tick refuses is a DCS rekey under a policy that an update
\* has left without a DCS tail (rekey_dcs_tail): no callback size, phase or
\* timer value makes it fail.
THEOREM SpecOnlyDcsRekeyFails == Spec => OnlyDcsRekeyFails
<1> DEFINE A == out'.result = "rejected" => st.phase = "DcsTail" /\ cfg.dcsTailMs <= 0
<1>1. Inv /\ [Next]_vars => [A]_vars
  <2>1. ASSUME Inv, Next PROVE A
    BY <2>1, InvCore, TransmitAssumption, StepSpansTile DEF StepSpans
  <2> QED BY <2>1
<1> QED BY <1>1, SpecInv, PTL DEF Spec, OnlyDcsRekeyFails

(* Every callback is a step of the lifecycle *)

\* The state of the transmitter in the lifecycle's terms.
LEMMA LifecycleView ==
  st \in State =>
    /\ Owed = OwedBy(cfg, st)
    /\ st.txState = "idle" => LifecyclePhase = "idle"
    /\ st.txState = "active" => LifecyclePhase = "keyed"
    /\ st.txState = "toc" => LifecyclePhase = "tail"
    /\ st.txState = "finishing" => LifecyclePhase = "drain"
<1> SUFFICES ASSUME st \in State
             PROVE  /\ Owed = OwedBy(cfg, st)
                    /\ st.txState = "idle" => LifecyclePhase = "idle"
                    /\ st.txState = "active" => LifecyclePhase = "keyed"
                    /\ st.txState = "toc" => LifecyclePhase = "tail"
                    /\ st.txState = "finishing" => LifecyclePhase = "drain"
  OBVIOUS
<1>1. st.phase \in {"None", "CtcssTail", "CtcssGap", "DcsTail", "NoTone"}
  BY DEF State
<1>2. Owed = OwedBy(cfg, st)  BY <1>1 DEF Owed, OwedBy
<1> QED BY <1>2 DEF LifecyclePhase

LEMMA DebtMembers ==
  ASSUME NEW c
  PROVE  /\ FinishFrames(FALSE) \in Debts(c)
         /\ DurationFrames(c.ctcssTailMs) \in Debts(c)
         /\ CtcssTailFrames(c.ctcssTailMs) + IntervalFrames
              + FinishFrames(c.toneOff = "TailTone") \in Debts(c)
         /\ c.dcsTailMs > 0 =>
              DurationFrames(c.dcsTailMs) + FinishFrames(FALSE) \in Debts(c)
<1> DEFINE short == FinishFrames(FALSE)
           dwell == DurationFrames(c.ctcssTailMs)
           tail == CtcssTailFrames(c.ctcssTailMs) + IntervalFrames
                     + FinishFrames(c.toneOff = "TailTone")
           dcs == DurationFrames(c.dcsTailMs) + FinishFrames(FALSE)
<1>1. Debts(c) = {short, dwell} \cup {tail}
                   \cup (IF c.dcsTailMs > 0 THEN {dcs} ELSE {})
  BY Zenon DEF Debts
<1> HIDE DEF short, dwell, tail, dcs
<1>2. /\ short \in Debts(c) /\ dwell \in Debts(c) /\ tail \in Debts(c)
      /\ c.dcsTailMs > 0 => dcs \in Debts(c)
  BY <1>1
<1> QED BY <1>2 DEF short, dwell, tail, dcs

\* What a turn-off owes when it begins is one of the debts of the policy.
LEMMA BeginReleaseDebt ==
  ASSUME TransmitAssumption, NEW c \in Config, ValidPolicy(c), NEW s \in State,
         NEW in \in Input, Keyed(s)
  PROVE  OwedBy(c, BeginRelease(c, s, in)) \in Debts(c)
<1> DEFINE dcs   == c.dcsTx /\ c.dcsTurnoff
           toned == s.enabled /\ ~in.inhibit
                      /\ c.toneOff # "None" /\ CtcssTransmitEnabled(c)
           p == BeginRelease(c, s, in)
           tail == c.toneOff = "TailTone"
<1>0. s.finishFrames = 0 /\ s.turnoffFrames = 0  BY DEF Keyed, Progress
<1>1. CASE dcs
  <2>1. p = StartDcsTail(c, s)  BY <1>1 DEF BeginRelease
  <2>2. c.dcsTailMs > 0  BY <1>1 DEF ValidPolicy
  <2>3. p.phase = "DcsTail" /\ p.turnoffFrames = DurationFrames(c.dcsTailMs)
    BY <2>1 DEF StartDcsTail, State
  <2> HIDE DEF p
  <2>4. OwedBy(c, p) = DurationFrames(c.dcsTailMs) + FinishFrames(FALSE)
    BY <2>3 DEF OwedBy
  <2> QED BY <2>2, <2>4, DebtMembers, Zenon DEF p
<1>2. CASE ~dcs /\ toned /\ c.toneOff = "ToneRemove"
  <2>1. p = StartNoTone(c, s)  BY <1>2 DEF BeginRelease
  <2> DEFINE u == [s EXCEPT !.txState = "toc", !.phase = "NoTone",
                            !.turnoffFrames = DurationFrames(c.ctcssTailMs)]
  <2>2. DurationFrames(c.ctcssTailMs) \in Nat  BY DurationType DEF Config
  <2>3. u \in State  BY <2>2, SetTurnoff
  <2>4. /\ u.phase = "NoTone" /\ u.finishFrames = 0
        /\ u.turnoffFrames = DurationFrames(c.ctcssTailMs)
    BY <1>0 DEF State
  <2>5. p = ApplyOption(c, u, "disable")  BY <2>1 DEF StartNoTone
  <2> HIDE DEF u, p
  <2>6. SameCore(u, p)  BY <2>3, <2>5, ApplyOptionCore DEF Options
  <2>7. OwedBy(c, p) = OwedBy(c, u)  BY <2>6, OwedByCore
  <2>8. OwedBy(c, u) = DurationFrames(c.ctcssTailMs)  BY <2>2, <2>4 DEF OwedBy
  <2> QED BY <2>7, <2>8, DebtMembers, Zenon DEF p
<1>3. CASE ~dcs /\ toned /\ c.toneOff # "ToneRemove"
  <2>1. p = StartCtcssTail(c, s)  BY <1>3 DEF BeginRelease
  <2> DEFINE n == CtcssTailFrames(c.ctcssTailMs)
             m == DurationFrames(c.ctcssTailMs)
             u == [s EXCEPT !.txState = "toc", !.phase = "CtcssTail",
                            !.turnoffFrames = n, !.legacyFrames = m]
  <2>2. n \in Nat /\ m \in Nat  BY TailPositive, DurationType DEF Config
  <2>5. p = ApplyOption(c, u, "turnoff")  BY <2>1 DEF StartCtcssTail
  <2>9. n = CtcssTailFrames(c.ctcssTailMs)  OBVIOUS
  <2> HIDE DEF n, m
  <2>3. u \in State  BY <2>2, SetCountdowns
  <2>4. u.phase = "CtcssTail" /\ u.turnoffFrames = n  BY DEF State
  <2> HIDE DEF u, p
  <2>6. SameCore(u, p)  BY <2>3, <2>5, ApplyOptionCore DEF Options
  <2>7. OwedBy(c, p) = OwedBy(c, u)  BY <2>6, OwedByCore
  <2>8. OwedBy(c, u) = n + IntervalFrames + FinishFrames(tail)
    BY <2>4, Zenon DEF OwedBy, tail
  <2>10. n + IntervalFrames + FinishFrames(tail) \in Debts(c)
    BY <2>9, DebtMembers, Zenon DEF tail
  <2> QED BY <2>7, <2>8, <2>10, Zenon DEF p
<1>4. CASE ~dcs /\ ~toned
  <2> DEFINE muted == ApplyOption(c, s, "disable")
  <2>1. p = StartFinishing(muted, FALSE)  BY <1>4 DEF BeginRelease
  <2>2. muted \in State  BY ApplyOptionCore DEF Options
  <2>3. FinishFrames(FALSE) \in Nat  BY FinishPositive
  <2> HIDE DEF muted
  <2>4. /\ p.phase = "None" /\ p.turnoffFrames = 0
        /\ p.finishFrames = FinishFrames(FALSE)
    BY <2>1, <2>2 DEF StartFinishing, State
  <2>6. PICK k \in Nat : k = FinishFrames(FALSE)  BY <2>3, Zenon
  <2>7. p.finishFrames = k  BY <2>4, <2>6, Zenon
  <2> HIDE DEF p
  <2>8. p.phase # "CtcssTail" /\ p.phase # "CtcssGap" /\ p.phase # "DcsTail"
    BY <2>4
  <2>9. OwedBy(c, p) = p.turnoffFrames + p.finishFrames  BY <2>8, Zenon DEF OwedBy
  <2>10. OwedBy(c, p) = k  BY <2>4, <2>7, <2>9
  <2>5. OwedBy(c, p) = FinishFrames(FALSE)  BY <2>6, <2>10, Zenon
  <2> QED BY <2>5, DebtMembers, Zenon DEF p
<1> HIDE DEF p
<1> QED BY <1>1, <1>2, <1>3, <1>4 DEF p

\* The lifecycle's variables after a step.
LEMMA LifecycleNext ==
  ASSUME st' \in State, Tiled'
  PROVE  /\ Owed' = OwedBy(cfg', st')
         /\ st'.txState = "idle" => LifecyclePhase' = "idle"
         /\ st'.txState = "active" => LifecyclePhase' = "keyed"
         /\ st'.txState = "toc" => LifecyclePhase' = "tail"
         /\ st'.txState = "finishing" => LifecyclePhase' = "drain"
         /\ SpanFrames(PttSpans)' = Sum(out'.spans, "on")
         /\ SpanFrames((1 .. Len(out.spans)) \ PttSpans)' = Sum(out'.spans, "off")
<1>1. (st \in State =>
        /\ Owed = OwedBy(cfg, st)
        /\ st.txState = "idle" => LifecyclePhase = "idle"
        /\ st.txState = "active" => LifecyclePhase = "keyed"
        /\ st.txState = "toc" => LifecyclePhase = "tail"
        /\ st.txState = "finishing" => LifecyclePhase = "drain")'
  BY LifecycleView, PTL
<1>2. (Tiled =>
        /\ SpanFrames(PttSpans) = Sum(out.spans, "on")
        /\ SpanFrames((1 .. Len(out.spans)) \ PttSpans) = Sum(out.spans, "off")
        /\ SpanFrames(1 .. Len(out.spans)) = Sum(out.spans, "on") + Sum(out.spans, "off"))'
  BY SpanFramesAreSums, PTL
<1> QED BY <1>1, <1>2

\* A turn-off spends its debt to the exact frame.
LEMMA SpendRefines ==
  ASSUME TransmitAssumption, Core, Core', Tiled', NEW in \in Input, NEW p \in State,
         Progress(p, in.frames), Finish(in, p, FALSE),
         p.txState \in {"toc", "finishing"},
         st.txState = "finishing" => p.txState = "finishing"
  PROVE  Lifecycle!Spend(in.frames, OwedBy(cfg, p))
<1> DEFINE n == in.frames
           d == OwedBy(cfg, p)
           on == SpanFrames(PttSpans)'
           off == SpanFrames((1 .. Len(out.spans)) \ PttSpans)'
           owed == Owed'
           ph == LifecyclePhase'
<1>1. PICK e \in Works :
        /\ Covers(cfg, in.frames, p, e) /\ Renders(cfg, p, FALSE, e)
        /\ st' = e.s /\ out'.spans = e.spans /\ out'.arm = e.arm
  BY FinishDelivers
<1>2. cfg' = cfg  BY FinishDelivers
<1>3. st' \in State /\ Coherent(st')
  BY <1>1, WorkFields DEF Renders
<1>4. /\ owed = OwedBy(cfg, st')
      /\ st'.txState = "idle" => ph = "idle"
      /\ st'.txState = "active" => ph = "keyed"
      /\ st'.txState = "toc" => ph = "tail"
      /\ st'.txState = "finishing" => ph = "drain"
      /\ on = Sum(e.spans, "on") /\ off = Sum(e.spans, "off")
  BY <1>1, <1>2, LifecycleNext DEF Core
<1>5. /\ on \in Nat /\ off \in Nat /\ on + off = n
      /\ IF st'.ptt
           THEN /\ off = 0
                /\ st'.txState # "active" => on + owed = d
           ELSE on = d
      /\ p.txState = "toc" => st'.txState # "active"
      /\ p.txState = "finishing" => st'.txState \in {"finishing", "complete", "idle"}
  <2> HIDE DEF on, off, n, d, owed
  <2> QED BY <1>1, <1>4, Zenon DEF Covers, n, d
<1>6. p.ptt /\ st'.txState # "active"  BY <1>5 DEF Progress
<1>7. LifecyclePhase = "drain" => st.txState = "finishing"
  <2>1. st \in State /\ st.txState # "complete"
    BY CoreFacts DEF Coherent
  <2> QED BY <2>1, LifecycleView DEF State
<1>8. cfg.blankingMs \in Nat  BY CoreFacts DEF Config
<1>9. d \in Nat /\ n \in Nat /\ owed \in Nat
  <2>1. OwedBy(cfg, st') \in Nat  BY <1>3, OwedByType
  <2> QED BY <1>4, <2>1, OwedByType DEF Input
<1>10. CASE st'.ptt
  <2>1. st'.txState \in {"toc", "finishing"}
    BY <1>3, <1>6, <1>10 DEF Coherent, Progress, State
  <2>2. st'.turnoffFrames > 0 \/ st'.finishFrames > 0
    BY <1>3, <2>1 DEF Coherent, Progress
  <2>3. owed > 0  BY <1>3, <1>4, <2>2, OwedByType
  <2>4. on + owed = d /\ off = 0 /\ on + off = n  BY <1>5, <1>6, <1>10
  <2>5. out'.arm = NoArm  BY <1>1, <1>10 DEF Renders
  <2>6. ph \in IF LifecyclePhase = "drain" THEN {"drain"} ELSE {"tail", "drain"}
    <3>1. ph \in {"tail", "drain"}  BY <1>4, <2>1
    <3>2. LifecyclePhase = "drain" => ph = "drain"  BY <1>4, <1>5, <1>7, <2>1
    <3> QED BY <3>1, <3>2
  <2> HIDE DEF n, d, on, off, owed, ph
  <2>7. n < d /\ owed = d - n /\ on = n /\ off = 0
    BY <1>5, <1>9, <2>3, <2>4
  <2> QED BY <2>5, <2>6, <2>7 DEF Lifecycle!Spend, n, d, on, off, owed, ph
<1>11. CASE ~st'.ptt
  <2>1. st'.txState = "idle"  BY <1>3, <1>11 DEF Coherent, Progress
  <2>2. /\ st'.turnoffFrames = 0 /\ st'.finishFrames = 0
        /\ st'.phase # "CtcssTail" /\ st'.phase # "CtcssGap" /\ st'.phase # "DcsTail"
    BY <1>3, <2>1 DEF Coherent, Progress
  <2>3. owed = 0
    <3>1. OwedBy(cfg, st') = st'.turnoffFrames + st'.finishFrames
      BY <2>2, Zenon DEF OwedBy
    <3> QED BY <1>4, <2>2, <3>1
  <2>4. ph = "idle"  BY <1>4, <2>1
  <2>5. out'.arm # NoArm
    <3>1. out'.arm = cfg.blankingMs  BY <1>1, <1>6, <1>11 DEF Renders
    <3> QED BY <1>8, <3>1 DEF NoArm
  <2>6. on = d  BY <1>5, <1>11
  <2> HIDE DEF n, d, on, off, owed, ph
  <2>7. n >= d /\ off = n - d  BY <1>5, <1>9, <2>6
  <2> QED BY <2>3, <2>4, <2>5, <2>6, <2>7 DEF Lifecycle!Spend, n, d, on, off, owed, ph
<1> QED BY <1>10, <1>11

\* PTT stays up, or down, for the whole of any other callback.
LEMMA SteadyRefines ==
  ASSUME TransmitAssumption, Core, Core', Tiled', NEW in \in Input, NEW p \in State,
         NEW status \in BOOLEAN, Progress(p, in.frames), Finish(in, p, status)
  PROVE  /\ p.txState = "active" /\ st.txState # "finishing" => Lifecycle!Key(in.frames)
         /\ p.txState = "idle" /\ st.txState = "idle" => Lifecycle!Idle(in.frames)
<1> DEFINE n == in.frames
           on == SpanFrames(PttSpans)'
           off == SpanFrames((1 .. Len(out.spans)) \ PttSpans)'
           owed == Owed'
           ph == LifecyclePhase'
<1>1. PICK e \in Works :
        /\ Covers(cfg, in.frames, p, e) /\ Renders(cfg, p, status, e)
        /\ st' = e.s /\ out'.spans = e.spans /\ out'.arm = e.arm
  BY FinishDelivers
<1>2. cfg' = cfg  BY FinishDelivers
<1>3. st' \in State /\ Coherent(st') /\ st \in State /\ Coherent(st)
  BY <1>1, WorkFields, CoreFacts DEF Renders
<1>4. /\ owed = OwedBy(cfg, st')
      /\ st'.txState = "idle" => ph = "idle"
      /\ st'.txState = "active" => ph = "keyed"
      /\ on = Sum(e.spans, "on") /\ off = Sum(e.spans, "off")
  BY <1>1, <1>2, LifecycleNext DEF Core
<1>5. /\ on \in Nat /\ off \in Nat /\ on + off = n
      /\ IF st'.ptt THEN off = 0 ELSE on = OwedBy(cfg, p)
      /\ p.txState \in {"idle", "active"} => st'.txState = p.txState
  <2> HIDE DEF on, off, n, owed
  <2> QED BY <1>1, <1>4, Zenon DEF Covers, n
<1>6. p.txState \in {"idle", "active"} => out'.arm = NoArm
  <2>1. p.ptt /\ ~st'.ptt => p.txState # st'.txState
    BY <1>3 DEF Coherent, Progress
  <2> QED BY <1>1, <1>5, <2>1 DEF Renders
<1>7. \A s \in State : s.txState \in {"idle", "active"} /\ Progress(s, in.frames) =>
                         OwedBy(cfg, s) = 0
  <2> SUFFICES ASSUME NEW s \in State, s.txState \in {"idle", "active"},
                      Progress(s, in.frames)
               PROVE  OwedBy(cfg, s) = 0
    OBVIOUS
  <2>1. /\ s.turnoffFrames = 0 /\ s.finishFrames = 0
        /\ s.phase # "CtcssTail" /\ s.phase # "CtcssGap" /\ s.phase # "DcsTail"
    BY DEF Progress
  <2>2. OwedBy(cfg, s) = s.turnoffFrames + s.finishFrames  BY <2>1, Zenon DEF OwedBy
  <2> QED BY <2>1, <2>2
<1>8. st'.txState \in {"idle", "active"} => owed = 0
  <2>1. Progress(st', in.frames)  BY <1>3 DEF Coherent, Progress, Input
  <2> QED BY <1>3, <1>4, <1>7, <2>1
<1>9. ASSUME p.txState = "active", st.txState # "finishing"
      PROVE  Lifecycle!Key(in.frames)
  <2>1. st'.txState = "active" /\ st'.ptt
    BY <1>3, <1>5, <1>9 DEF Coherent, Progress
  <2>2. LifecyclePhase \in {"idle", "keyed", "tail"}
    BY <1>3, <1>9, LifecycleView DEF Coherent, State
  <2>3. ph = "keyed" /\ owed = 0 /\ out'.arm = NoArm  BY <1>4, <1>6, <1>8, <1>9, <2>1
  <2>4. off = 0 /\ on + off = n  BY <1>5, <2>1
  <2> HIDE DEF n, on, off, owed, ph
  <2>5. on = n /\ off = 0  BY <1>5, <2>4
  <2> QED BY <2>2, <2>3, <2>5 DEF Lifecycle!Key, n, on, off, owed, ph
<1>10. ASSUME p.txState = "idle", st.txState = "idle"
       PROVE  Lifecycle!Idle(in.frames)
  <2>1. st'.txState = "idle" /\ ~st'.ptt
    BY <1>3, <1>5, <1>10 DEF Coherent, Progress
  <2>2. LifecyclePhase = "idle" /\ Owed = 0
    <3>2. Progress(st, in.frames)  BY <1>3 DEF Coherent, Progress, Input
    <3>3. OwedBy(cfg, st) = 0  BY <1>3, <1>7, <1>10, <3>2
    <3> QED BY <1>3, <1>10, <3>3, LifecycleView
  <2>3. ph = "idle" /\ owed = 0 /\ out'.arm = NoArm  BY <1>4, <1>6, <1>8, <1>10, <2>1
  <2>4. on = 0  BY <1>5, <1>7, <1>10, <2>1
  <2> HIDE DEF n, on, off, owed, ph
  <2>5. on = 0 /\ off = n  BY <1>5, <2>4
  <2> QED BY <2>2, <2>3, <2>5 DEF Lifecycle!Idle, n, on, off, owed, ph
<1> QED BY <1>9, <1>10

\* A step that renders nothing.
LEMMA SilentLifecycle ==
  ASSUME Core', Tiled', out'.spans = << >>, out'.arm = NoArm
  PROVE  /\ SpanFrames(PttSpans)' = 0
         /\ SpanFrames((1 .. Len(out.spans)) \ PttSpans)' = 0
         /\ ~(out'.arm # NoArm)
BY LifecycleNext, SumEmpty DEF Core

LEMMA HeldRefines ==
  ASSUME TransmitAssumption, Core, Core', Tiled', NEW in \in Input,
         HeldTick(in) \/ RejectedTick(in)
  PROVE  Lifecycle!Skip
<1>1. st \in State /\ cfg \in Config  BY CoreFacts
<1>2. SameCore(st, st')
  <2>1. CASE HeldTick(in)
    <3>1. SameCore(st, Listen(cfg, st, in))  BY <1>1, ListenCore
    <3> QED BY <2>1, <3>1 DEF HeldTick
  <2>2. CASE RejectedTick(in)  BY <2>2 DEF RejectedTick, SameCore
  <2> QED BY <2>1, <2>2
<1>3. cfg' = cfg /\ out'.spans = << >> /\ out'.arm = NoArm
  <2>1. CASE HeldTick(in)  BY <2>1 DEF HeldTick, NoOutput
  <2>2. CASE RejectedTick(in)  BY <2>2 DEF RejectedTick, NoOutput
  <2> QED BY <2>1, <2>2
<1>4. Owed' = Owed
  <2>1. OwedBy(cfg, st) = OwedBy(cfg, st')  BY <1>2, OwedByCore
  <2> QED BY <1>1, <1>3, <2>1, LifecycleView, LifecycleNext DEF Core
<1>5. LifecyclePhase' = LifecyclePhase  BY <1>2 DEF LifecyclePhase, SameCore
<1> QED BY <1>3, <1>4, <1>5, SilentLifecycle DEF Lifecycle!Skip

\* An update keeps a drain once begun, and what is left of a tail; only the
\* drain that the tail is to end with is the new policy's.
LEMMA UpdateRefines ==
  ASSUME TransmitAssumption, Core, Core', Tiled', NEW c \in Policies, UpdateConfig(c)
  PROVE  Lifecycle!Next
<1>1. /\ st \in State /\ cfg \in Config /\ c \in Config /\ Coherent(st)
  BY CoreFacts DEF TransmitAssumption, ValidPolicy
<1>2. cfg' = c /\ st' = st /\ out'.spans = << >> /\ out'.arm = NoArm
  BY DEF UpdateConfig, Startup
<1>3. LifecyclePhase' = LifecyclePhase  BY <1>2 DEF LifecyclePhase
<1>4. Owed = OwedBy(cfg, st) /\ Owed' = OwedBy(c, st)
  BY <1>1, <1>2, LifecycleView, LifecycleNext DEF Core
<1>5. CASE st.txState = "toc"
  <2> DEFINE a == c.toneOff = "TailTone"
             b == cfg.toneOff = "TailTone"
             changes == {FinishFrames(y) - FinishFrames(z) : y, z \in BOOLEAN}
  <2>1. PICK y \in BOOLEAN, z \in BOOLEAN :
          OwedBy(c, st) = OwedBy(cfg, st) + (FinishFrames(y) - FinishFrames(z))
    <3>1. /\ FinishFrames(a) \in Nat /\ FinishFrames(b) \in Nat
          /\ FinishFrames(FALSE) \in Nat /\ IntervalFrames \in Nat
          /\ st.turnoffFrames \in Nat /\ st.finishFrames \in Nat
      BY <1>1, FinishPositive, IntervalPositive DEF State
    <3>2. a \in BOOLEAN /\ b \in BOOLEAN  OBVIOUS
    <3>4. CASE st.phase = "CtcssTail"
      <4>1. OwedBy(c, st) = st.turnoffFrames + IntervalFrames + FinishFrames(a)
            /\ OwedBy(cfg, st) = st.turnoffFrames + IntervalFrames + FinishFrames(b)
        BY <3>4, Zenon DEF OwedBy
      <4> HIDE DEF a, b
      <4>2. OwedBy(c, st) = OwedBy(cfg, st) + (FinishFrames(a) - FinishFrames(b))
        BY <3>1, <4>1
      <4> QED BY <3>2, <4>2, Zenon
    <3>5. CASE st.phase = "CtcssGap"
      <4>0. st.phase # "CtcssTail"  BY <3>5
      <4>1. OwedBy(c, st) = st.turnoffFrames + FinishFrames(a)
            /\ OwedBy(cfg, st) = st.turnoffFrames + FinishFrames(b)
        BY <3>5, <4>0, Zenon DEF OwedBy
      <4> HIDE DEF a, b
      <4>2. OwedBy(c, st) = OwedBy(cfg, st) + (FinishFrames(a) - FinishFrames(b))
        BY <3>1, <4>1
      <4> QED BY <3>2, <4>2, Zenon
    <3>6. CASE st.phase # "CtcssTail" /\ st.phase # "CtcssGap"
      <4>1. OwedBy(c, st) = OwedBy(cfg, st)  BY <3>6, Zenon DEF OwedBy
      <4>2. OwedBy(cfg, st) \in Nat  BY OwedByType, <1>1
      <4> HIDE DEF a, b
      <4>3. OwedBy(c, st) = OwedBy(cfg, st) + (FinishFrames(a) - FinishFrames(a))
        BY <3>1, <4>1, <4>2
      <4> QED BY <3>2, <4>3, Zenon
    <3> QED BY <3>4, <3>5, <3>6
  <2>2. FinishFrames(y) - FinishFrames(z) \in changes  OBVIOUS
  <2>3. PICK x \in changes : Owed' = Owed + x  BY <1>4, <2>1, <2>2
  <2>4. Owed' > 0
    <3>1. st.turnoffFrames > 0  BY <1>1, <1>5 DEF Coherent, Progress
    <3> QED BY <1>1, <1>4, <3>1, OwedByType
  <2>5. LifecyclePhase = "tail"  BY <1>1, <1>5, LifecycleView
  <2>6. Lifecycle!Reconsider
    BY <1>2, <1>3, <2>3, <2>4, <2>5, SilentLifecycle DEF Lifecycle!Reconsider
  <2> QED BY <2>6 DEF Lifecycle!Next
<1>6. CASE st.txState # "toc"
  <2>1. st.phase # "CtcssTail" /\ st.phase # "CtcssGap" /\ st.phase # "DcsTail"
    BY <1>1, <1>6 DEF Coherent, Progress, State
  <2>2. OwedBy(c, st) = OwedBy(cfg, st)  BY <2>1, Zenon DEF OwedBy
  <2>3. Lifecycle!Skip
    BY <1>2, <1>3, <1>4, <2>2, SilentLifecycle DEF Lifecycle!Skip
  <2> QED BY <2>3 DEF Lifecycle!Next
<1> QED BY <1>5, <1>6

LEMMA AdmittedRefines ==
  ASSUME TransmitAssumption, Core, Core', Tiled', NEW in \in Inputs, AdmittedTick(in)
  PROVE  Lifecycle!Next
<1> DEFINE t == Ticked(in)
           n == in.frames
           counts == {i.frames : i \in Inputs}
           lengths == UNION {Debts(c) : c \in Policies}
<1>0. in \in Input /\ n \in counts  BY DEF TransmitAssumption
<1>1. /\ t \in State /\ Progress(t, 0) /\ t.txState = st.txState /\ SameCore(st, t)
  BY <1>0, TickedFacts, TickedCore
<1>2. /\ cfg \in Policies /\ cfg \in Config /\ ValidPolicy(cfg) /\ n \in Nat \ {0}
      /\ Coherent(st) /\ st \in State
  BY <1>0, CoreFacts DEF Input
<1>3. Progress(t, n)  BY <1>1, <1>2 DEF Progress
<1> SUFFICES Lifecycle!Idle(n) \/ Lifecycle!Key(n) \/ Lifecycle!BeginTurnoff(n)
               \/ Lifecycle!Turnoff(n)
  BY <1>0 DEF Lifecycle!Next
<1> HIDE DEF t, counts
<1>4. CASE IdleTick(in)
  <2>1. Finish(in, t, FALSE) /\ st.txState = "idle"  BY <1>4 DEF IdleTick, t
  <2> QED BY <1>0, <1>1, <1>3, <2>1, SteadyRefines
<1>5. CASE KeyTick(in)
  <2> DEFINE p == KeyUp(cfg, t, in)
  <2>1. Finish(in, p, TRUE) /\ st.txState = "idle"  BY <1>5 DEF KeyTick, t
  <2>2. p \in State /\ Progress(p, n) /\ p.txState = "active"
    BY <1>0, <1>1, <1>2, KeyUpProgress
  <2> HIDE DEF p
  <2> QED BY <1>0, <2>1, <2>2, SteadyRefines
<1>6. CASE TalkTick(in)
  <2> DEFINE p == StayKeyed(cfg, t, in)
  <2>1. Finish(in, p, FALSE) /\ st.txState = "active"  BY <1>6 DEF TalkTick, t
  <2>2. p \in State /\ SameCore(t, p)  BY <1>0, <1>1, <1>2, <2>1, StayKeyedProgress
  <2> HIDE DEF p
  <2>3. Progress(p, n) /\ p.txState = "active"
    BY <1>1, <1>2, <1>3, <2>1, <2>2, ProgressSameCore DEF SameCore
  <2> QED BY <1>0, <2>1, <2>2, <2>3, SteadyRefines
<1>7. CASE ReleaseTick(in)
  <2> DEFINE p == BeginRelease(cfg, t, in)
  <2>1. Finish(in, p, FALSE) /\ st.txState = "active"  BY <1>7 DEF ReleaseTick, t
  <2>2. Keyed(t)  BY <1>1, <2>1 DEF Keyed
  <2>3. p \in State /\ Progress(p, n) /\ p.txState \in {"toc", "finishing"}
    BY <1>0, <1>1, <1>2, <2>2, BeginReleaseProgress
  <2>4. OwedBy(cfg, p) \in Debts(cfg)  BY <1>0, <1>1, <1>2, <2>2, BeginReleaseDebt
  <2> HIDE DEF p
  <2>5. Lifecycle!Spend(n, OwedBy(cfg, p))  BY <1>0, <2>1, <2>3, SpendRefines
  <2>6. OwedBy(cfg, p) \in lengths  BY <1>2, <2>4
  <2>7. LifecyclePhase = "keyed"  BY <1>2, <2>1, LifecycleView
  <2> QED BY <2>5, <2>6, <2>7 DEF Lifecycle!BeginTurnoff
<1>8. CASE RekeyDcsTick(in)
  <2> DEFINE p == RekeyDcsTail(t)
  <2>1. Finish(in, p, FALSE) /\ st.txState = "toc"  BY <1>8 DEF RekeyDcsTick, t
  <2>2. p \in State /\ Progress(p, n) /\ p.txState = "active"
    BY <1>1, <1>2, <2>1, RekeyDcsTailProgress
  <2> HIDE DEF p
  <2> QED BY <1>0, <2>1, <2>2, SteadyRefines
<1>9. CASE RekeyCtcssTick(in)
  <2> DEFINE p == RekeyCtcssTail(cfg, t)
  <2>1. Finish(in, p, FALSE) /\ st.txState = "toc"  BY <1>9 DEF RekeyCtcssTick, t
  <2>2. p \in State /\ Progress(p, n) /\ p.txState = "active"
    BY <1>1, <1>2, <2>1, RekeyCtcssTailProgress
  <2> HIDE DEF p
  <2> QED BY <1>0, <2>1, <2>2, SteadyRefines
<1>10. CASE TurnoffTick(in)
  <2>1. Finish(in, t, FALSE) /\ st.txState \in {"toc", "finishing"}
    BY <1>10 DEF TurnoffTick, t
  <2>2. Lifecycle!Spend(n, OwedBy(cfg, t))  BY <1>0, <1>1, <1>3, <2>1, SpendRefines
  <2>3. OwedBy(cfg, t) = Owed
    <3>1. OwedBy(cfg, st) = OwedBy(cfg, t)  BY <1>1, OwedByCore
    <3> QED BY <1>2, <3>1, LifecycleView
  <2>4. LifecyclePhase \in {"tail", "drain"}  BY <1>2, <2>1, LifecycleView
  <2> QED BY <2>2, <2>3, <2>4 DEF Lifecycle!Turnoff
<1> QED BY <1>4, <1>5, <1>6, <1>7, <1>8, <1>9, <1>10 DEF AdmittedTick

\* Every callback is a step of the lifecycle: from its release a transmission
\* holds PTT for exactly the frames its turn-off owes, to the sample and for
\* every sequence of callback sizes, and falls with one receiver-blanking arm; a
\* final drain that has begun is never rekeyed or prolonged, and an update can
\* exchange only the drain that an unfinished tail is to end with
\* (prepare_transmitter, advance_render_timeline and complete_transmission).
THEOREM SpecImplementsLifecycle == Spec => ImplementsLifecycle
<1>1. Init => Inv /\ Tiled /\ Lifecycle!Init
  <2> SUFFICES ASSUME Init PROVE Inv /\ Tiled /\ Lifecycle!Init
    OBVIOUS
  <2>1. Inv  BY TransmitAssumption, InitEstablishes
  <2>2. st = InitialState /\ out.spans = << >> /\ out.arm = NoArm /\ out.result = "none"
    BY DEF Init, Startup
  <2>3. Tiled  BY <2>2 DEF Tiled
  <2>4. LifecyclePhase = "idle"  BY <2>2 DEF LifecyclePhase, InitialState
  <2>5. Owed = 0  BY <2>2 DEF Owed, InitialState
  <2>6. /\ SpanFrames(PttSpans) = 0
        /\ SpanFrames((1 .. Len(out.spans)) \ PttSpans) = 0
    BY <2>2, <2>3, SpanFramesAreSums, SumEmpty
  <2> QED BY <2>1, <2>2, <2>3, <2>4, <2>5, <2>6 DEF Lifecycle!Init
<1>2. Inv /\ Tiled /\ [Next]_vars => Inv' /\ Tiled' /\ [Lifecycle!Next]_(Lifecycle!vars)
  <2>1. ASSUME Inv, Tiled, UNCHANGED vars
        PROVE  Inv' /\ Tiled' /\ UNCHANGED Lifecycle!vars
    <3>1. Inv' /\ Tiled'
      BY <2>1 DEF Inv, TypeOK, TurnoffCoherent, Tiled, vars
    <3>2. UNCHANGED Lifecycle!vars
      BY <2>1 DEF Lifecycle!vars, LifecyclePhase, Owed, SpanFrames, PttSpans, vars
    <3> QED BY <3>1, <3>2
  <2>2. ASSUME Inv, Next PROVE Inv' /\ Tiled' /\ Core /\ Core'
    <3>1. Core  BY <2>2, InvCore
    <3>2. Inv' /\ Tiled'
      BY <2>2, <3>1, TransmitAssumption, StepPreserves, StepSpansTile DEF StepSpans
    <3> QED BY <3>1, <3>2 DEF Inv, Core, TypeOK
  <2>3. ASSUME Inv, Tiled, NEW in \in Inputs, Tick(in) PROVE Lifecycle!Next
    <3>1. in \in Input /\ Next  BY <2>3, TransmitAssumption DEF TransmitAssumption, Next
    <3>2. Core /\ Core' /\ Tiled'  BY <2>2, <2>3, <3>1
    <3>3. CASE HeldTick(in) \/ RejectedTick(in)
      BY <2>3, <3>1, <3>2, <3>3, TransmitAssumption, HeldRefines DEF Lifecycle!Next
    <3>4. CASE AdmittedTick(in)
      BY <2>3, <3>2, <3>4, TransmitAssumption, AdmittedRefines
    <3> QED BY <2>3, <3>3, <3>4 DEF Tick
  <2>4. ASSUME Inv, Tiled, NEW c \in Policies, UpdateConfig(c) PROVE Lifecycle!Next
    <3>1. Next  BY <2>4 DEF Next
    <3> QED BY <2>2, <2>4, <3>1, TransmitAssumption, UpdateRefines
  <2> QED BY <2>1, <2>2, <2>3, <2>4 DEF Next
<1> QED BY <1>1, <1>2, PTL DEF Spec, ImplementsLifecycle, Lifecycle!Spec
----------------------------------------------------------------------------
(* What the tone fields of a state must agree on *)

\* A policy that has a tone for every decode.
HasTones(c) == c.ctcssTx /\ c.default # 0 /\ \A t \in Tones : c.mapped[t] # 0

\* A turn-off that began with the oscillator on.
TonedPhases == {"CtcssTail", "CtcssGap", "NoTone"}

\* No turn-off option is ever queued, a tail tone is selected in a CTCSS tail
\* only, and no disable is left queued while PTT is up.  Where c has been in force
\* since PTT rose (kept), a DCS policy has no CTCSS frequency and no CTCSS tail,
\* and one with a tone for every decode has a frequency wherever the oscillator
\* is on or a rekey would turn it on.
TonesAgree(c, kept, s) ==
  /\ s.modeOption # "turnoff" /\ s.option # "turnoff"
  /\ s.tail => s.phase = "CtcssTail"
  /\ s.txState # "idle" => s.modeOption # "disable" /\ s.option # "disable"
  /\ kept /\ c.dcsTx /\ s.ptt => s.freq = 0 /\ s.phase # "CtcssTail"
  /\ kept /\ HasTones(c) /\ s.ptt /\ (s.enabled \/ s.phase \in TonedPhases) => s.freq # 0

\* t has every field of s that TonesAgree and an intent's tones are about.
SameTones(s, t) ==
  /\ t.txState = s.txState /\ t.ptt = s.ptt /\ t.phase = s.phase
  /\ t.modeOption = s.modeOption /\ t.option = s.option
  /\ t.enabled = s.enabled /\ t.tail = s.tail /\ t.freq = s.freq

\* t is what inhibit, a turn-off phase, the completion or the settle may make of
\* s: the frequency stays, and nothing that sounds is turned on.
Fades(s, t) ==
  /\ t.freq = s.freq /\ (t.enabled => s.enabled) /\ (t.ptt => s.ptt)
  /\ t.tail => s.tail /\ t.phase = s.phase
  /\ t.phase \in {s.phase, "None"} \/ (s.phase = "CtcssTail" /\ t.phase = "CtcssGap")
  /\ t.modeOption \in {s.modeOption, "hold"}
       \/ (t.txState = "idle" /\ t.modeOption = "disable")
  /\ t.option \in {s.option, "hold"} \/ (t.txState = "idle" /\ t.option = "disable")
  /\ s.txState = "idle" => t.txState = "idle"

LEMMA SameTonesFades ==
  ASSUME NEW s, NEW t, SameTones(s, t)
  PROVE  Fades(s, t)
BY DEF SameTones, Fades

LEMMA FadesAgrees ==
  ASSUME NEW c, NEW kept, NEW s, NEW t, TonesAgree(c, kept, s), Fades(s, t)
  PROVE  TonesAgree(c, kept, t)
BY DEF TonesAgree, Fades, TonedPhases

\* apply_ctcss_option given a disable, as inhibit and the settle give it.
LEMMA DisableFades ==
  ASSUME NEW c, NEW s \in State
  PROVE  LET t == ApplyOption(c, s, "disable") IN
         Fades(s, t) /\ ~t.enabled /\ ~t.tail /\ t \in State /\ SameCore(s, t)
<1> DEFINE t == ApplyOption(c, s, "disable")
<1>1. t \in State /\ SameCore(s, t)  BY ApplyOptionCore DEF Options
<1>2. /\ t.txState = s.txState /\ t.ptt = s.ptt /\ t.phase = s.phase
      /\ t.modeOption = "hold" /\ t.option = "hold" /\ t.freq = s.freq
      /\ t.enabled = FALSE /\ t.tail = FALSE
  BY DEF ApplyOption, State
<1> HIDE DEF t
<1>3. Fades(s, t) /\ ~t.enabled /\ ~t.tail  BY <1>2 DEF Fades
<1> QED BY <1>1, <1>3 DEF t

(* What prepare_transmitter makes of them *)

\* signal_mode changes a queued option to a start only, and retunes to a tone
\* only under a policy that transmits CTCSS.
LEMMA SignalModeTones ==
  ASSUME NEW c \in Config, NEW s \in State, NEW ms \in Nat, NEW in \in Input
  PROVE  LET t == AdvanceSignalMode(c, s, ms, in) IN
         /\ t.txState = s.txState /\ t.ptt = s.ptt /\ t.phase = s.phase
         /\ t.option = s.option /\ t.enabled = s.enabled /\ t.tail = s.tail
         /\ t.modeOption \in {s.modeOption, "start"}
         /\ t.freq = s.freq \/ (c.ctcssTx /\ t.freq # 0)
<1> DEFINE t == AdvanceSignalMode(c, s, ms, in)
<1>1. /\ t.txState = s.txState /\ t.ptt = s.ptt /\ t.phase = s.phase
      /\ t.option = s.option /\ t.enabled = s.enabled /\ t.tail = s.tail
  BY DEF AdvanceSignalMode, State
<1>2. t.modeOption \in {s.modeOption, "start"}
  BY DEF AdvanceSignalMode, State
<1>3. t.freq = s.freq \/ (c.ctcssTx /\ t.freq # 0)
  BY DEF AdvanceSignalMode, State
<1> QED BY <1>1, <1>2, <1>3

\* A listening state's own tones agree, and outside a turn-off the two
\* primitives share one option.
Listening(c, kept, s) ==
  TonesAgree(c, kept, s) /\ (s.phase = "None" => s.option = s.modeOption)

LEMMA ListenTones ==
  ASSUME TransmitAssumption, NEW c \in Config, ValidPolicy(c), NEW kept,
         NEW s \in State, NEW in \in Input, TonesAgree(c, kept, s)
  PROVE  Listening(c, kept, Listen(c, s, in))
<1> DEFINE u == [s EXCEPT !.rxRem = Remainder(@, in.frames)]
           ms == ElapsedMs(s.rxRem, in.frames)
           h == AdvanceSignalMode(c, u, ms, in)
           t == Listen(c, s, in)
<1>1. s.rxRem \in Nat /\ in.frames \in Nat  BY DEF State, Input
<1>2. u \in State /\ SameTones(s, u)  BY <1>1, ElapsedType DEF State, SameTones
<1>3. h \in State  BY <1>1, <1>2, ElapsedType, SignalModeCore
<1>4. /\ h.txState = u.txState /\ h.ptt = u.ptt /\ h.phase = u.phase
      /\ h.option = u.option /\ h.enabled = u.enabled /\ h.tail = u.tail
      /\ h.modeOption \in {u.modeOption, "start"}
      /\ h.freq = u.freq \/ (c.ctcssTx /\ h.freq # 0)
  <2>1. ms \in Nat  BY <1>1, ElapsedType
  <2> HIDE DEF u, ms
  <2> QED BY <1>2, <2>1, SignalModeTones
<1>5. t = IF h.phase = "None" THEN [h EXCEPT !.option = h.modeOption] ELSE h
  BY DEF Listen
<1> HIDE DEF h, u, t
<1>6. /\ t.txState = h.txState /\ t.ptt = h.ptt /\ t.phase = h.phase
      /\ t.enabled = h.enabled /\ t.tail = h.tail /\ t.freq = h.freq
      /\ t.modeOption = h.modeOption
      /\ t.option = IF h.phase = "None" THEN h.modeOption ELSE h.option
  BY <1>3, <1>5 DEF State
<1>7. c.dcsTx => ~c.ctcssTx  BY DEF ValidPolicy
<1>8. TonesAgree(c, kept, t)
  BY <1>2, <1>4, <1>6, <1>7 DEF TonesAgree, SameTones
<1>9. t.phase = "None" => t.option = t.modeOption  BY <1>6
<1> QED BY <1>8, <1>9 DEF Listening, t

LEMMA SelectStartTones ==
  ASSUME NEW c \in Config, NEW s \in State, NEW in \in Input
  PROVE  LET t == SelectStart(c, s, in) IN
         /\ t.txState = s.txState /\ t.ptt = s.ptt /\ t.phase = s.phase /\ t.tail = s.tail
         /\ \/ /\ CtcssTransmitEnabled(c) /\ ~in.inhibit
               /\ t.modeOption = "start" /\ t.option = "start" /\ t.enabled = TRUE
               /\ HasTones(c) => t.freq # 0
            \/ /\ t.modeOption = s.modeOption /\ t.option = s.option
               /\ t.enabled = s.enabled /\ t.freq = 0
               /\ CtcssTransmitEnabled(c) /\ ~in.inhibit => ~HasTones(c) /\ ~c.external
<1> DEFINE f == IF in.forced # 0 THEN in.forced
                ELSE IF s.smode = "ctcss" /\ in.decoded # NoTone
                       THEN c.mapped[in.decoded] ELSE c.default
           t == SelectStart(c, s, in)
           on == [s EXCEPT !.freq = f, !.modeOption = "start",
                           !.option = "start", !.enabled = TRUE, !.turnoffMs = 0]
           off == [s EXCEPT !.freq = 0]
           wanted == CtcssTransmitEnabled(c) /\ ~in.inhibit
<1>1. HasTones(c) => f # 0
  <2>1. in.decoded \in Tones \cup {NoTone}  BY DEF Input
  <2> QED BY <2>1 DEF HasTones
<1>2. t = IF wanted /\ (f # 0 \/ c.external) THEN on ELSE off  BY DEF SelectStart
<1> HIDE DEF f, t
<1>3. CASE wanted /\ (f # 0 \/ c.external)
  <2>1. t = on  BY <1>2, <1>3
  <2>2. /\ t.txState = s.txState /\ t.ptt = s.ptt /\ t.phase = s.phase /\ t.tail = s.tail
        /\ t.modeOption = "start" /\ t.option = "start" /\ t.enabled = TRUE /\ t.freq = f
    BY <2>1 DEF State
  <2> QED BY <1>1, <1>3, <2>2 DEF t
<1>4. CASE ~(wanted /\ (f # 0 \/ c.external))
  <2>1. t = off  BY <1>2, <1>4
  <2>2. /\ t.txState = s.txState /\ t.ptt = s.ptt /\ t.phase = s.phase /\ t.tail = s.tail
        /\ t.modeOption = s.modeOption /\ t.option = s.option /\ t.enabled = s.enabled
        /\ t.freq = 0
    BY <2>1 DEF State
  <2> QED BY <1>1, <1>4, <2>2 DEF t
<1> QED BY <1>3, <1>4

\* What applying the pending option leaves of a state with no turn-off queued.
LEMMA ApplyPendingTones ==
  ASSUME NEW c, NEW s \in State, s.option \in {"hold", "start", "disable"},
         s.option = s.modeOption, ~s.tail
  PROVE  LET t == ApplyPending(c, s) IN
         /\ t.txState = s.txState /\ t.ptt = s.ptt /\ t.phase = s.phase
         /\ t.modeOption = "hold" /\ t.option = "hold" /\ t.freq = s.freq /\ ~t.tail
         /\ t.enabled <=> s.option = "start" \/ (s.option = "hold" /\ s.enabled)
<1>1. CASE s.option = "hold"
  <2>1. ApplyPending(c, s) = s  BY <1>1 DEF ApplyPending
  <2>2. s.enabled \in BOOLEAN  BY DEF State
  <2> QED BY <1>1, <2>1, <2>2
<1>2. CASE s.option # "hold"
  <2>1. ApplyPending(c, s) = ApplyOption(c, s, s.option)  BY <1>2 DEF ApplyPending
  <2> DEFINE t == ApplyOption(c, s, s.option)
  <2>2. /\ t.txState = s.txState /\ t.ptt = s.ptt /\ t.phase = s.phase
        /\ t.modeOption = "hold" /\ t.option = "hold" /\ t.freq = s.freq
        /\ t.enabled <=> s.option = "start" \/ (s.option = "turnoff" /\ s.enabled)
        /\ s.option # "turnoff" => t.tail = FALSE
    BY DEF ApplyOption, State
  <2> HIDE DEF t
  <2> QED BY <1>2, <2>1, <2>2 DEF t
<1> QED BY <1>1, <1>2

\* The state the renderer starts from: inhibit is applied to it first.
Live(c, p, in) == IF in.inhibit THEN ApplyOption(c, p, "disable") ELSE p

LEMMA LiveAgrees ==
  ASSUME NEW c, NEW kept, NEW in \in Input, NEW p \in State, TonesAgree(c, kept, p)
  PROVE  TonesAgree(c, kept, Live(c, p, in))
<1>1. Fades(p, ApplyOption(c, p, "disable"))  BY DisableFades
<1> QED BY <1>1, FadesAgrees DEF Live

\* PTT rises with the frequency of the policy in force, whatever an earlier
\* policy left queued.
LEMMA KeyUpTones ==
  ASSUME TransmitAssumption, NEW c \in Config, ValidPolicy(c), NEW kept,
         NEW s \in State, NEW in \in Input, Listening(c, kept, s),
         s.phase = "None"
  PROVE  TonesAgree(c, kept, Live(c, KeyUp(c, s, in), in))
<1> DEFINE a == SelectStart(c, s, in)
           t == ApplyPending(c, a)
           p == KeyUp(c, s, in)
           l == Live(c, p, in)
           off == ApplyOption(c, p, "disable")
<1>1. a \in State  BY SelectStartCore
<1>2. /\ a.txState = s.txState /\ a.ptt = s.ptt /\ a.phase = s.phase /\ a.tail = s.tail
      /\ \/ /\ CtcssTransmitEnabled(c) /\ ~in.inhibit
            /\ a.modeOption = "start" /\ a.option = "start" /\ a.enabled = TRUE
            /\ HasTones(c) => a.freq # 0
         \/ /\ a.modeOption = s.modeOption /\ a.option = s.option
            /\ a.enabled = s.enabled /\ a.freq = 0
            /\ CtcssTransmitEnabled(c) /\ ~in.inhibit => ~HasTones(c) /\ ~c.external
  BY SelectStartTones
<1>3. s.option = s.modeOption /\ ~s.tail /\ s.modeOption \in {"hold", "start", "disable"}
  BY DEF Listening, TonesAgree, State, Options
<1> HIDE DEF a
<1>4. a.option = a.modeOption /\ ~a.tail /\ a.option \in {"hold", "start", "disable"}
  BY <1>2, <1>3
<1>5. t \in State  BY <1>1, ApplyPendingCore
<1>6. t.modeOption = "hold" /\ t.option = "hold" /\ t.freq = a.freq /\ ~t.tail
  BY <1>1, <1>4, ApplyPendingTones
<1>7. p \in State /\ p.txState = "active"  BY KeyUpProgress, 0 \in Nat
<1>8. /\ p.phase = "None" /\ p.modeOption = "hold" /\ p.option = "hold"
      /\ p.freq = a.freq /\ ~p.tail
  <2>1. p = [t EXCEPT !.txState = "active", !.ptt = TRUE, !.phase = "None",
                      !.turnoffFrames = 0, !.legacyFrames = 0, !.finishFrames = 0,
                      !.dcsMs = IF c.dcsTx THEN 0 ELSE @,
                      !.smodeTimer = HoldMs, !.settleMs = c.settleMs]
    BY DEF KeyUp, a
  <2> HIDE DEF t, p
  <2> QED BY <1>5, <1>6, <2>1 DEF State
<1>9. /\ off.phase = p.phase /\ off.modeOption = "hold" /\ off.option = "hold"
      /\ off.freq = p.freq /\ off.enabled = FALSE /\ off.tail = FALSE
  <2> HIDE DEF p
  <2> QED BY <1>7 DEF ApplyOption, State
<1> HIDE DEF t, p, off
<1>10. /\ l.phase = "None" /\ l.modeOption = "hold" /\ l.option = "hold"
       /\ l.freq = a.freq /\ ~l.tail /\ (in.inhibit => ~l.enabled)
  BY <1>8, <1>9 DEF Live, off
<1> HIDE DEF l
<1>11. c.dcsTx => a.freq = 0
  BY <1>2 DEF CtcssTransmitEnabled, ValidPolicy
<1>12. HasTones(c) /\ ~in.inhibit => a.freq # 0
  <2>1. HasTones(c) => CtcssTransmitEnabled(c)  BY DEF HasTones, CtcssTransmitEnabled
  <2> QED BY <1>2, <2>1
<1>13. TonesAgree(c, kept, l)
  BY <1>10, <1>11, <1>12 DEF TonesAgree, TonedPhases
<1> QED BY <1>13 DEF l, p

\* A request that lasts turns the oscillator on again once inhibit ends.
LEMMA StayKeyedTones ==
  ASSUME TransmitAssumption, NEW c \in Config, ValidPolicy(c), NEW kept,
         NEW s \in State, NEW in \in Input, Listening(c, kept, s),
         Progress(s, 0), s.txState = "active"
  PROVE  /\ TonesAgree(c, kept, Live(c, StayKeyed(c, s, in), in))
         /\ LET p == StayKeyed(c, s, in) IN
            ~in.inhibit /\ (c.external \/ HasTones(c)) =>
              /\ p.enabled /\ p.txState = "active" /\ p.ptt
              /\ kept /\ HasTones(c) => p.freq # 0
              /\ ~p.tail
<1> DEFINE h == [s EXCEPT !.smodeTimer = HoldMs]
           b == SelectStart(c, h, in)
           a == IF ~in.inhibit /\ ~s.enabled THEN b ELSE h
           p == StayKeyed(c, s, in)
           l == Live(c, p, in)
           off == ApplyOption(c, p, "disable")
<1>1. h \in State /\ SameTones(s, h)  BY DEF State, SameTones, TransmitAssumption
<1> HIDE DEF h
<1>2. b \in State  BY <1>1, SelectStartCore
<1>3. /\ b.txState = h.txState /\ b.ptt = h.ptt /\ b.phase = h.phase /\ b.tail = h.tail
      /\ \/ /\ CtcssTransmitEnabled(c) /\ ~in.inhibit
            /\ b.modeOption = "start" /\ b.option = "start" /\ b.enabled = TRUE
            /\ HasTones(c) => b.freq # 0
         \/ /\ b.modeOption = h.modeOption /\ b.option = h.option
            /\ b.enabled = h.enabled /\ b.freq = 0
            /\ CtcssTransmitEnabled(c) /\ ~in.inhibit => ~HasTones(c) /\ ~c.external
  BY <1>1, SelectStartTones
<1> HIDE DEF b
<1>4. /\ s.option = s.modeOption /\ ~s.tail /\ s.modeOption \in {"hold", "start"}
      /\ s.phase = "None" /\ s.ptt /\ s.enabled \in BOOLEAN
      /\ kept /\ c.dcsTx => s.freq = 0
      /\ kept /\ HasTones(c) /\ s.enabled => s.freq # 0
  BY DEF Listening, TonesAgree, State, Options, Progress
<1>5. c.dcsTx => ~CtcssTransmitEnabled(c)  BY DEF CtcssTransmitEnabled, ValidPolicy
<1>6. c.external \/ HasTones(c) => CtcssTransmitEnabled(c)
  BY DEF HasTones, CtcssTransmitEnabled
<1>7. /\ a \in State /\ a.txState = "active" /\ a.ptt /\ a.phase = "None" /\ ~a.tail
      /\ a.option = a.modeOption /\ a.option \in {"hold", "start"}
      /\ kept /\ c.dcsTx => a.freq = 0
      /\ ~in.inhibit /\ kept /\ HasTones(c) => a.freq # 0
      /\ ~in.inhibit /\ (c.external \/ HasTones(c)) => a.enabled
  BY <1>1, <1>2, <1>3, <1>4, <1>5, <1>6 DEF SameTones
<1>8. p = ApplyPending(c, a)  BY DEF StayKeyed, a, b, h
<1> HIDE DEF a, p
<1>9. p \in State  BY <1>7, <1>8, ApplyPendingCore
<1>10. /\ p.txState = "active" /\ p.ptt /\ p.phase = "None" /\ ~p.tail
       /\ p.modeOption = "hold" /\ p.option = "hold" /\ p.freq = a.freq
       /\ ~in.inhibit /\ (c.external \/ HasTones(c)) => p.enabled
  <2>1. a.option \in {"hold", "start", "disable"}  BY <1>7
  <2>2. LET t == ApplyPending(c, a) IN
        /\ t.txState = a.txState /\ t.ptt = a.ptt /\ t.phase = a.phase
        /\ t.modeOption = "hold" /\ t.option = "hold" /\ t.freq = a.freq /\ ~t.tail
        /\ t.enabled <=> a.option = "start" \/ (a.option = "hold" /\ a.enabled)
    BY <1>7, <2>1, ApplyPendingTones
  <2> QED BY <1>7, <1>8, <2>2
<1>11. /\ off.txState = p.txState /\ off.ptt = p.ptt /\ off.phase = p.phase
       /\ off.modeOption = "hold" /\ off.option = "hold"
       /\ off.freq = p.freq /\ off.enabled = FALSE /\ off.tail = FALSE
  BY <1>9 DEF ApplyOption, State
<1> HIDE DEF off
<1>12. /\ l.phase = "None" /\ l.modeOption = "hold" /\ l.option = "hold"
       /\ l.freq = a.freq /\ ~l.tail /\ (in.inhibit => ~l.enabled)
  BY <1>10, <1>11 DEF Live, off
<1> HIDE DEF l
<1>13. TonesAgree(c, kept, l)
  BY <1>7, <1>12 DEF TonesAgree, TonedPhases
<1> QED BY <1>7, <1>10, <1>13 DEF l, p

\* Whichever turn-off begins, one that a rekey could turn on again began on.
LEMMA BeginReleaseTones ==
  ASSUME TransmitAssumption, NEW c \in Config, ValidPolicy(c), NEW kept,
         NEW s \in State, NEW in \in Input, Listening(c, kept, s), Keyed(s)
  PROVE  TonesAgree(c, kept, BeginRelease(c, s, in))
<1> DEFINE dcs   == c.dcsTx /\ c.dcsTurnoff
           toned == s.enabled /\ ~in.inhibit
                      /\ c.toneOff # "None" /\ CtcssTransmitEnabled(c)
           p == BeginRelease(c, s, in)
<1>0. /\ ~s.tail /\ s.modeOption \in {"hold", "start"} /\ s.option = s.modeOption
      /\ s.ptt
      /\ kept /\ c.dcsTx => s.freq = 0
      /\ kept /\ HasTones(c) /\ s.enabled => s.freq # 0
  BY DEF Listening, TonesAgree, State, Options, Progress, Keyed
<1>1. CASE dcs
  <2>1. p = StartDcsTail(c, s)  BY <1>1 DEF BeginRelease
  <2>2. /\ p.phase = "DcsTail" /\ p.modeOption = s.modeOption /\ p.option = s.option
        /\ p.enabled = s.enabled /\ p.tail = s.tail /\ p.freq = s.freq
    BY <2>1 DEF StartDcsTail, State
  <2> HIDE DEF p
  <2>3. TonesAgree(c, kept, p)  BY <1>0, <2>2 DEF TonesAgree, TonedPhases
  <2> QED BY <2>3 DEF p
<1>2. CASE ~dcs /\ toned
  <2>0. ~c.dcsTx  BY <1>2 DEF CtcssTransmitEnabled, ValidPolicy
  <2>1. PICK x \in {"CtcssTail", "NoTone"}, n \in Nat, m \in Nat,
             o \in {"turnoff", "disable"} :
          /\ p = ApplyOption(c, [s EXCEPT !.txState = "toc", !.phase = x,
                                          !.turnoffFrames = n, !.legacyFrames = m], o)
          /\ o = "turnoff" => x = "CtcssTail"
    <3>1. CASE c.toneOff = "ToneRemove"
      <4>1. p = StartNoTone(c, s)  BY <1>2, <3>1 DEF BeginRelease
      <4>2. DurationFrames(c.ctcssTailMs) \in Nat  BY DurationType DEF Config
      <4> HIDE DEF p
      <4>3. [s EXCEPT !.txState = "toc", !.phase = "NoTone",
                      !.turnoffFrames = DurationFrames(c.ctcssTailMs)]
            = [s EXCEPT !.txState = "toc", !.phase = "NoTone",
                        !.turnoffFrames = DurationFrames(c.ctcssTailMs),
                        !.legacyFrames = s.legacyFrames]
        BY DEF State
      <4>4. s.legacyFrames \in Nat  BY DEF State
      <4> QED BY <4>1, <4>2, <4>3, <4>4 DEF StartNoTone
    <3>2. CASE c.toneOff # "ToneRemove"
      <4>1. p = StartCtcssTail(c, s)  BY <1>2, <3>2 DEF BeginRelease
      <4>2. /\ CtcssTailFrames(c.ctcssTailMs) \in Nat
            /\ DurationFrames(c.ctcssTailMs) \in Nat
        BY TailPositive, DurationType DEF Config
      <4> HIDE DEF p
      <4> QED BY <4>1, <4>2 DEF StartCtcssTail
    <3> QED BY <3>1, <3>2
  <2> DEFINE u == [s EXCEPT !.txState = "toc", !.phase = x, !.turnoffFrames = n,
                            !.legacyFrames = m]
  <2>2. u \in State  BY SetCountdowns
  <2>3. u.phase = x /\ u.freq = s.freq  BY DEF State
  <2>4. p = ApplyOption(c, u, o)  BY <2>1
  <2> HIDE DEF u, p
  <2>5. /\ p.phase = x /\ p.modeOption = "hold" /\ p.option = "hold" /\ p.freq = s.freq
        /\ p.tail => o = "turnoff"
    BY <2>2, <2>3, <2>4 DEF ApplyOption, State
  <2>6. TonesAgree(c, kept, p)
    BY <1>0, <1>2, <2>0, <2>1, <2>5 DEF TonesAgree, TonedPhases
  <2> QED BY <2>6 DEF p
<1>3. CASE ~dcs /\ ~toned
  <2> DEFINE muted == ApplyOption(c, s, "disable")
  <2>1. p = StartFinishing(muted, FALSE)  BY <1>3 DEF BeginRelease
  <2>2. muted \in State  BY ApplyOptionCore DEF Options
  <2>3. /\ muted.modeOption = "hold" /\ muted.option = "hold" /\ muted.freq = s.freq
        /\ muted.enabled = FALSE /\ muted.tail = FALSE
    BY DEF ApplyOption, State
  <2> HIDE DEF muted
  <2>4. /\ p.phase = "None" /\ p.modeOption = "hold" /\ p.option = "hold"
        /\ p.freq = s.freq /\ p.enabled = FALSE /\ p.tail = FALSE
    BY <2>1, <2>2, <2>3 DEF StartFinishing, State
  <2> HIDE DEF p
  <2>5. TonesAgree(c, kept, p)  BY <1>0, <2>4 DEF TonesAgree, TonedPhases
  <2> QED BY <2>5 DEF p
<1> QED BY <1>1, <1>2, <1>3

LEMMA RekeyTones ==
  ASSUME TransmitAssumption, NEW c \in Config, NEW kept, NEW s \in State,
         TonesAgree(c, kept, s), Progress(s, 0), s.txState = "toc"
  PROVE  /\ s.phase = "DcsTail" => TonesAgree(c, kept, RekeyDcsTail(s))
         /\ s.phase # "DcsTail" => TonesAgree(c, kept, RekeyCtcssTail(c, s))
<1>1. ASSUME s.phase = "DcsTail" PROVE TonesAgree(c, kept, RekeyDcsTail(s))
  <2> DEFINE p == RekeyDcsTail(s)
  <2>1. /\ p.txState = "active" /\ p.ptt = s.ptt /\ p.phase = "None"
        /\ p.modeOption = s.modeOption /\ p.option = s.option
        /\ p.enabled = s.enabled /\ p.tail = s.tail /\ p.freq = s.freq
    BY DEF RekeyDcsTail, State
  <2> HIDE DEF p
  <2>2. TonesAgree(c, kept, p)  BY <1>1, <2>1 DEF TonesAgree, TonedPhases
  <2> QED BY <2>2 DEF p
<1>2. ASSUME s.phase # "DcsTail" PROVE TonesAgree(c, kept, RekeyCtcssTail(c, s))
  <2> DEFINE u == [s EXCEPT !.txState = "active", !.phase = "None",
                            !.turnoffFrames = 0, !.legacyFrames = 0,
                            !.smodeTimer = HoldMs]
             p == RekeyCtcssTail(c, s)
  <2>1. /\ u.txState = "active" /\ u.ptt = s.ptt /\ u.phase = "None" /\ u.freq = s.freq
    BY DEF State
  <2>2. u \in State
    <3> DEFINE v == [s EXCEPT !.txState = "active", !.phase = "None",
                              !.turnoffFrames = 0, !.legacyFrames = 0]
    <3>1. v \in State  BY SetCountdowns, 0 \in Nat
    <3> HIDE DEF v
    <3>2. [v EXCEPT !.smodeTimer = HoldMs] \in State
      BY <3>1 DEF State, TransmitAssumption
    <3> QED BY <3>2 DEF v
  <2>3. p = ApplyOption(c, u, "start")  BY DEF RekeyCtcssTail
  <2> HIDE DEF u, p
  <2>4. /\ p.txState = "active" /\ p.ptt = s.ptt /\ p.phase = "None" /\ p.freq = s.freq
        /\ p.modeOption = "hold" /\ p.option = "hold" /\ ~p.tail
    BY <2>1, <2>2, <2>3 DEF ApplyOption, State
  <2>5. s.phase \in TonedPhases
    BY <1>2 DEF Progress, State, TonedPhases
  <2>6. TonesAgree(c, kept, p)  BY <2>4, <2>5 DEF TonesAgree
  <2> QED BY <2>6 DEF p
<1> QED BY <1>1, <1>2

(* What the renderer makes of them *)

\* What a span's intent lets through: no oscillator in an inhibited callback
\* (quiet), no CTCSS tone while a DCS policy that has been kept has PTT up.
SpanAgrees(c, quiet, kept, intent) ==
  /\ quiet => ~intent.enabled
  /\ kept /\ c.dcsTx /\ intent.ptt => intent.freq = 0 /\ ~intent.tail

\* Every span so far agrees, and the state the next one is taken from does.
Hears(c, quiet, kept, w) ==
  /\ TonesAgree(c, kept, w.s) /\ (quiet => ~w.s.enabled)
  /\ \A i \in 1 .. Len(w.spans) : SpanAgrees(c, quiet, kept, w.spans[i].intent)

LEMMA IntentAgrees ==
  ASSUME NEW c, NEW quiet, NEW kept, NEW s \in State, TonesAgree(c, kept, s),
         quiet => ~s.enabled
  PROVE  SpanAgrees(c, quiet, kept, Intent(s))
<1>1. /\ Intent(s).ptt = s.ptt /\ (Intent(s).enabled <=> s.enabled)
      /\ Intent(s).freq = s.freq /\ (Intent(s).tail <=> s.tail)
  BY DEF Intent, State
<1> QED BY <1>1 DEF SpanAgrees, TonesAgree

LEMMA SetHears ==
  ASSUME NEW c, NEW quiet, NEW kept, NEW w \in Works, NEW g \in State,
         Hears(c, quiet, kept, w), Fades(w.s, g)
  PROVE  Hears(c, quiet, kept, [w EXCEPT !.s = g])
<1> DEFINE e == [w EXCEPT !.s = g]
<1>1. e.s = g /\ e.spans = w.spans  BY DEF Works
<1>2. TonesAgree(c, kept, g)  BY FadesAgrees DEF Hears
<1>3. quiet => ~g.enabled  BY DEF Hears, Fades
<1> HIDE DEF e
<1>4. Hears(c, quiet, kept, e)  BY <1>1, <1>2, <1>3 DEF Hears
<1> QED BY <1>4 DEF e

\* append_current_span publishes the tones of the state it is given.
LEMMA EmitHears ==
  ASSUME NEW c, NEW quiet, NEW kept, NEW w \in Works, NEW s \in State, NEW n \in 0 .. w.left,
         Hears(c, quiet, kept, w), SameTones(w.s, s)
  PROVE  LET e == Emit(w, s, n) IN
         Hears(c, quiet, kept, e) /\ SameTones(w.s, e.s)
<1> DEFINE last == Len(w.spans)
           t == [s EXCEPT !.burst = FALSE]
           m == [w EXCEPT !.s = t, !.left = w.left - n]
           merged == [w.spans EXCEPT ![last].frames = @ + n]
           longer == Append(w.spans, Span(Intent(s), n))
           e == Emit(w, s, n)
<1>0. w.left \in Nat /\ w.spans \in Seq(Spans) /\ last \in Nat  BY DEF Works
<1>1. t \in State /\ SameTones(s, t)  BY DEF State, SameTones
<1>2. SameTones(w.s, t)  BY <1>1 DEF SameTones
<1>3. TonesAgree(c, kept, s) /\ (quiet => ~s.enabled)
  <2>1. Fades(w.s, s)  BY SameTonesFades
  <2> QED BY <2>1, FadesAgrees DEF Hears, Fades
<1>4. TonesAgree(c, kept, t) /\ (quiet => ~t.enabled)
  <2>1. Fades(w.s, t)  BY <1>2, SameTonesFades
  <2> QED BY <2>1, FadesAgrees DEF Hears, Fades
<1>5. \A i \in 1 .. Len(w.spans) : SpanAgrees(c, quiet, kept, w.spans[i].intent)
  BY DEF Hears
<1> HIDE DEF t
<1>6. m.s = t /\ m.spans = w.spans /\ m \in Works
  <2>1. w.left - n \in Nat  BY <1>0
  <2> QED BY <1>1, <2>1 DEF Works
<1>7. CASE n = 0
  <2>1. e = [w EXCEPT !.s = s]  BY <1>7 DEF Emit
  <2> HIDE DEF e
  <2>2. e.s = s /\ e.spans = w.spans  BY <2>1 DEF Works
  <2>3. Hears(c, quiet, kept, e) /\ SameTones(w.s, e.s)  BY <1>3, <1>5, <2>2 DEF Hears
  <2> QED BY <2>3 DEF e
<1>8. CASE n # 0 /\ last > 0 /\ w.spans[last].intent = Intent(s)
  <2>1. e = [m EXCEPT !.spans[last].frames = @ + n]  BY <1>8 DEF Emit, t
  <2>2. w.spans[last] \in Spans /\ last \in 1 .. Len(w.spans)  BY <1>0, <1>8
  <2>3. [w.spans[last] EXCEPT !.frames = @ + n] \in Spans  BY <1>8, <2>2 DEF Spans
  <2>4. merged \in Seq(Spans) /\ Len(merged) = Len(w.spans)  BY <1>0, <2>2, <2>3
  <2>5. \A i \in 1 .. Len(w.spans) : merged[i].intent = w.spans[i].intent
    <3> SUFFICES ASSUME NEW i \in 1 .. Len(w.spans) PROVE merged[i].intent = w.spans[i].intent
      OBVIOUS
    <3>1. w.spans[i] \in Spans  BY <1>0
    <3> QED BY <1>0, <2>2, <3>1 DEF Spans
  <2> HIDE DEF m, e
  <2>6. e = [m EXCEPT !.spans = merged]  BY <1>6, <2>1
  <2> HIDE DEF merged
  <2>7. e.s = t /\ e.spans = merged  BY <1>6, <2>6 DEF Works
  <2>8. \A i \in 1 .. Len(e.spans) : SpanAgrees(c, quiet, kept, e.spans[i].intent)
    BY <1>5, <2>4, <2>5, <2>7
  <2>9. Hears(c, quiet, kept, e) /\ SameTones(w.s, e.s)
    BY <1>2, <1>4, <2>7, <2>8 DEF Hears
  <2> QED BY <2>9 DEF e
<1>9. CASE n # 0 /\ ~(last > 0 /\ w.spans[last].intent = Intent(s)) /\ last = MaxRenderSpans
  <2>1. e = [m EXCEPT !.ok = FALSE]  BY <1>9 DEF Emit, t
  <2> HIDE DEF m, e
  <2>2. e.s = t /\ e.spans = w.spans  BY <1>6, <2>1 DEF Works
  <2>3. Hears(c, quiet, kept, e) /\ SameTones(w.s, e.s)
    BY <1>2, <1>4, <1>5, <2>2 DEF Hears
  <2> QED BY <2>3 DEF e
<1>10. CASE n # 0 /\ ~(last > 0 /\ w.spans[last].intent = Intent(s)) /\ last # MaxRenderSpans
  <2>1. e = [m EXCEPT !.spans = Append(@, Span(Intent(s), n))]  BY <1>10 DEF Emit, t
  <2>2. Span(Intent(s), n) \in Spans  BY <1>0, <1>10, IntentType DEF Span, Spans
  <2>3. /\ Len(longer) = Len(w.spans) + 1 /\ longer[Len(w.spans) + 1].intent = Intent(s)
        /\ \A i \in 1 .. Len(w.spans) : longer[i] = w.spans[i]
    BY <1>0, <2>2 DEF Span
  <2> HIDE DEF m, e
  <2>4. e = [m EXCEPT !.spans = longer]  BY <1>6, <2>1
  <2> HIDE DEF longer
  <2>5. e.s = t /\ e.spans = longer  BY <1>6, <2>4 DEF Works
  <2>6. SpanAgrees(c, quiet, kept, Intent(s))  BY <1>3, IntentAgrees
  <2>7. \A i \in 1 .. Len(e.spans) : SpanAgrees(c, quiet, kept, e.spans[i].intent)
    <3> SUFFICES ASSUME NEW i \in 1 .. Len(w.spans) + 1
                 PROVE  SpanAgrees(c, quiet, kept, longer[i].intent)
      BY <2>3, <2>5
    <3>1. CASE i = Len(w.spans) + 1  BY <2>3, <2>6, <3>1
    <3>2. CASE i # Len(w.spans) + 1
      <4>1. i \in 1 .. Len(w.spans)  BY <1>0, <3>2
      <4> QED BY <1>5, <2>3, <4>1
    <3> QED BY <3>1, <3>2
  <2>8. Hears(c, quiet, kept, e) /\ SameTones(w.s, e.s)
    BY <1>2, <1>4, <2>5, <2>7 DEF Hears
  <2> QED BY <2>8 DEF e
<1> QED BY <1>7, <1>8, <1>9, <1>10

LEMMA EmitTurnoffHears ==
  ASSUME NEW c, NEW quiet, NEW kept, NEW w \in Works, Hears(c, quiet, kept, w)
  PROVE  LET e == EmitTurnoff(w) IN
         Hears(c, quiet, kept, e) /\ SameTones(w.s, e.s) /\ e \in Works /\ e.s \in State
<1> DEFINE n == Least(w.s.turnoffFrames, w.left)
           u == [w.s EXCEPT !.turnoffFrames = w.s.turnoffFrames - n]
<1>1. n \in 0 .. w.left /\ u \in State /\ EmitTurnoff(w) \in Works
  <2>1. n \in Nat /\ n <= w.left  BY EmitTurnoffType
  <2>2. w.left \in Nat  BY WorkFields
  <2> HIDE DEF n
  <2>3. n \in 0 .. w.left  BY <2>1, <2>2
  <2> QED BY <2>3, EmitTurnoffType DEF n
<1>2. EmitTurnoff(w) = Emit(w, u, n)  BY DEF EmitTurnoff
<1>3. SameTones(w.s, u)
  <2>1. w.s \in State  BY WorkFields
  <2> QED BY <2>1 DEF SameTones, State
<1> HIDE DEF n, u
<1> QED BY <1>1, <1>2, <1>3, EmitHears, WorkFields

LEMMA EmitFinishHears ==
  ASSUME NEW c, NEW quiet, NEW kept, NEW w \in Works, Hears(c, quiet, kept, w)
  PROVE  LET e == EmitFinish(w) IN
         Hears(c, quiet, kept, e) /\ SameTones(w.s, e.s) /\ e \in Works /\ e.s \in State
<1> DEFINE n == Least(w.s.finishFrames, w.left)
           u == [w.s EXCEPT !.finishFrames = w.s.finishFrames - n]
<1>1. n \in 0 .. w.left /\ u \in State /\ EmitFinish(w) \in Works
  <2>1. n \in Nat /\ n <= w.left  BY EmitFinishType
  <2>2. w.left \in Nat  BY WorkFields
  <2> HIDE DEF n
  <2>3. n \in 0 .. w.left  BY <2>1, <2>2
  <2> QED BY <2>3, EmitFinishType DEF n
<1>2. EmitFinish(w) = Emit(w, u, n)  BY DEF EmitFinish
<1>3. SameTones(w.s, u)
  <2>1. w.s \in State  BY WorkFields
  <2> QED BY <2>1 DEF SameTones, State
<1> HIDE DEF n, u
<1> QED BY <1>1, <1>2, <1>3, EmitHears, WorkFields

\* start_finishing of a turn-off whose tail tone is over.
LEMMA StartFinishingFades ==
  ASSUME TransmitAssumption, NEW s \in State, NEW b \in BOOLEAN, s.ptt,
         s.txState # "idle", ~s.tail
  PROVE  StartFinishing(s, b) \in State /\ Fades(s, StartFinishing(s, b))
<1> DEFINE t == StartFinishing(s, b)
<1>1. t \in State  BY StartFinishingProgress, 0 \in Nat
<1>2. /\ t.txState = "finishing" /\ t.ptt = s.ptt /\ t.phase = "None"
      /\ t.modeOption = s.modeOption /\ t.option = s.option
      /\ (t.enabled <=> s.enabled) /\ (t.tail <=> s.tail) /\ t.freq = s.freq
  BY DEF StartFinishing, State
<1> HIDE DEF t
<1>3. Fades(s, t)  BY <1>2 DEF Fades
<1> QED BY <1>1, <1>3 DEF t

LEMMA TailHears ==
  ASSUME TransmitAssumption, NEW c \in Config, NEW quiet, NEW kept, NEW w \in Works,
         Hears(c, quiet, kept, w), w.s.txState = "toc", w.s.phase = "CtcssTail"
  PROVE  Hears(c, quiet, kept, TailPhase(c, w))
<1> DEFINE e == EmitTurnoff(w)
           timed == CountTail(e.s, w.left - e.left)
           muted == ApplyOption(c, timed, "disable")
           g == [muted EXCEPT !.phase = "CtcssGap", !.turnoffFrames = IntervalFrames]
<1>1. Hears(c, quiet, kept, e) /\ SameTones(w.s, e.s) /\ e \in Works /\ e.s \in State
  BY EmitTurnoffHears
<1>2. TailPhase(c, w) = IF timed.turnoffFrames > 0 THEN [e EXCEPT !.s = timed]
                        ELSE [e EXCEPT !.s = g]
  BY DEF TailPhase
<1>9. w.left - e.left \in Nat
  <2>1. /\ e.left = w.left - Least(w.s.turnoffFrames, w.left)
        /\ Least(w.s.turnoffFrames, w.left) \in Nat
    BY EmitTurnoffType
  <2>2. w.left \in Nat  BY WorkFields
  <2> HIDE DEF e
  <2> QED BY <2>1, <2>2
<1> HIDE DEF e
<1>10. timed \in State /\ SameTones(e.s, timed)
  <2>1. timed \in State  BY <1>1, <1>9, CountTailCore
  <2>2. SameTones(e.s, timed)  BY <1>1 DEF CountTail, SameTones, State
  <2> QED BY <2>1, <2>2
<1> HIDE DEF timed
<1>11. Hears(c, quiet, kept, [e EXCEPT !.s = timed])
  BY <1>1, <1>10, SameTonesFades, SetHears
<1>3. /\ Fades(timed, muted) /\ ~muted.enabled /\ ~muted.tail /\ muted \in State
      /\ SameCore(timed, muted)
  BY <1>10, DisableFades
<1> HIDE DEF muted
<1>4. g \in State  BY <1>3, IntervalPositive DEF State
<1>5. /\ g.txState = muted.txState /\ g.ptt = muted.ptt /\ g.phase = "CtcssGap"
      /\ g.modeOption = muted.modeOption /\ g.option = muted.option
      /\ ~g.enabled /\ ~g.tail /\ g.freq = muted.freq
  BY <1>3 DEF State
<1> HIDE DEF g
<1>6. timed.phase = "CtcssTail"  BY <1>1, <1>10 DEF SameTones
<1>7. Fades(e.s, g)
  <2>1. Fades(timed, g)  BY <1>3, <1>5, <1>6 DEF Fades
  <2> QED BY <1>10, <2>1 DEF Fades, SameTones
<1>8. Hears(c, quiet, kept, [e EXCEPT !.s = g])  BY <1>1, <1>4, <1>7, SetHears
<1> QED BY <1>2, <1>8, <1>11

LEMMA GapHears ==
  ASSUME TransmitAssumption, NEW c \in Config, NEW quiet, NEW kept, NEW w \in Works,
         Hears(c, quiet, kept, w), w.s.ptt, w.s.txState = "toc", w.s.phase = "CtcssGap"
  PROVE  Hears(c, quiet, kept, GapPhase(c, w))
<1> DEFINE e == EmitTurnoff(w)
           b == c.toneOff = "TailTone"
           g == StartFinishing(e.s, b)
<1>1. Hears(c, quiet, kept, e) /\ SameTones(w.s, e.s) /\ e \in Works /\ e.s \in State
  BY EmitTurnoffHears
<1>2. GapPhase(c, w) = IF e.s.turnoffFrames > 0 THEN e ELSE [e EXCEPT !.s = g]
  BY DEF GapPhase
<1>3. b \in BOOLEAN  OBVIOUS
<1> HIDE DEF e, b
<1>4. e.s.ptt /\ e.s.txState # "idle" /\ ~e.s.tail
  BY <1>1 DEF SameTones, Hears, TonesAgree
<1>5. g \in State /\ Fades(e.s, g)  BY <1>1, <1>3, <1>4, StartFinishingFades
<1> HIDE DEF g
<1>6. Hears(c, quiet, kept, [e EXCEPT !.s = g])  BY <1>1, <1>5, SetHears
<1> QED BY <1>1, <1>2, <1>6

LEMMA DcsHears ==
  ASSUME TransmitAssumption, NEW c \in Config, NEW quiet, NEW kept, NEW w \in Works,
         Hears(c, quiet, kept, w), w.s.ptt, w.s.txState = "toc", w.s.phase = "DcsTail"
  PROVE  Hears(c, quiet, kept, DcsPhase(w))
<1> DEFINE e == EmitTurnoff(w)
           timed == [e.s EXCEPT !.dcsMs = RemainingMs(e.s.turnoffFrames)]
           g == StartFinishing(timed, FALSE)
<1>1. Hears(c, quiet, kept, e) /\ SameTones(w.s, e.s) /\ e \in Works /\ e.s \in State
  BY EmitTurnoffHears
<1>2. DcsPhase(w) = IF timed.turnoffFrames > 0 THEN [e EXCEPT !.s = timed]
                    ELSE [e EXCEPT !.s = g]
  BY DEF DcsPhase
<1> HIDE DEF e
<1>3. RemainingMs(e.s.turnoffFrames) \in Nat
  <2>1. e.s.turnoffFrames \in Nat  BY <1>1 DEF State
  <2>2. FramesPerMs \in Nat \ {0}  BY DEF TransmitAssumption
  <2> QED BY <2>1, <2>2, CeilDivNat DEF RemainingMs
<1>4. timed \in State /\ SameTones(e.s, timed)  BY <1>1, <1>3 DEF State, SameTones
<1> HIDE DEF timed
<1>5. Fades(e.s, timed)  BY <1>4, SameTonesFades
<1>6. timed.ptt /\ timed.txState # "idle" /\ ~timed.tail
  BY <1>1, <1>4 DEF SameTones, Hears, TonesAgree
<1>7. g \in State /\ Fades(timed, g)  BY <1>4, <1>6, StartFinishingFades
<1> HIDE DEF g
<1>8. Fades(e.s, g)  BY <1>4, <1>7 DEF Fades, SameTones
<1>9. /\ Hears(c, quiet, kept, [e EXCEPT !.s = timed])
      /\ Hears(c, quiet, kept, [e EXCEPT !.s = g])
  BY <1>1, <1>4, <1>5, <1>7, <1>8, SetHears
<1> QED BY <1>2, <1>9

\* A dwell or a drain that ends leaves the tones to the completion.
LEMMA CompletedFades ==
  ASSUME NEW s \in State, s.txState # "idle"
  PROVE  LET g == [s EXCEPT !.txState = "complete"] IN g \in State /\ Fades(s, g)
BY DEF State, Fades

LEMMA NoToneHears ==
  ASSUME NEW c, NEW quiet, NEW kept, NEW w \in Works,
         Hears(c, quiet, kept, w), w.s.txState = "toc"
  PROVE  Hears(c, quiet, kept, NoTonePhase(w))
<1> DEFINE e == EmitTurnoff(w)
           g == [e.s EXCEPT !.txState = "complete"]
<1>1. Hears(c, quiet, kept, e) /\ SameTones(w.s, e.s) /\ e \in Works /\ e.s \in State
  BY EmitTurnoffHears
<1>2. NoTonePhase(w) = IF e.s.turnoffFrames > 0 THEN e ELSE [e EXCEPT !.s = g]
  BY DEF NoTonePhase
<1> HIDE DEF e
<1>3. g \in State /\ Fades(e.s, g)
  BY <1>1, CompletedFades DEF SameTones
<1> HIDE DEF g
<1>4. Hears(c, quiet, kept, [e EXCEPT !.s = g])  BY <1>1, <1>3, SetHears
<1> QED BY <1>1, <1>2, <1>4

LEMMA FinishHears ==
  ASSUME NEW c, NEW quiet, NEW kept, NEW w \in Works,
         Hears(c, quiet, kept, w), w.s.txState = "finishing"
  PROVE  Hears(c, quiet, kept, FinishPhase(w))
<1> DEFINE e == EmitFinish(w)
           g == [e.s EXCEPT !.txState = "complete"]
<1>1. Hears(c, quiet, kept, e) /\ SameTones(w.s, e.s) /\ e \in Works /\ e.s \in State
  BY EmitFinishHears
<1>2. FinishPhase(w) = IF e.s.finishFrames > 0 THEN e ELSE [e EXCEPT !.s = g]
  BY DEF FinishPhase
<1> HIDE DEF e
<1>3. g \in State /\ Fades(e.s, g)
  BY <1>1, CompletedFades DEF SameTones
<1> HIDE DEF g
<1>4. Hears(c, quiet, kept, [e EXCEPT !.s = g])  BY <1>1, <1>3, SetHears
<1> QED BY <1>1, <1>2, <1>4

\* tx_complete queues a disable and drops PTT; the tail tone is over by then.
LEMMA CompleteHears ==
  ASSUME NEW c \in Config, NEW quiet, NEW kept, NEW w \in Works, Progress(w.s, w.left),
         Hears(c, quiet, kept, w), w.s.txState = "complete"
  PROVE  Hears(c, quiet, kept, Complete(c, w)) /\ Hears(c, quiet, kept, CompletePhase(c, w))
<1> DEFINE e == Complete(c, w)
           s == w.s
           t == [s EXCEPT !.txState = "idle", !.ptt = FALSE,
                          !.modeOption = "disable", !.option = "disable", !.phase = "None"]
           g == [e.s EXCEPT !.turnoffFrames = 0, !.legacyFrames = 0, !.finishFrames = 0]
           f == CompletePhase(c, w)
<1>1. e \in Works  BY CompleteType DEF Completes
<1>2. e.s = t /\ e.spans = w.spans  BY DEF Complete, Works
<1>3. s \in State /\ s.phase \in {"None", "NoTone"} /\ TonesAgree(c, kept, s)
      /\ (quiet => ~s.enabled)
  BY WorkFields DEF Progress, Hears
<1> HIDE DEF s
<1>4. /\ t.txState = "idle" /\ ~t.ptt /\ t.phase = "None"
      /\ t.modeOption = "disable" /\ t.option = "disable"
      /\ (t.enabled <=> s.enabled) /\ (t.tail <=> s.tail) /\ t.freq = s.freq
  BY <1>3 DEF State
<1>5. ~s.tail  BY <1>3 DEF TonesAgree
<1> HIDE DEF t
<1>6. Fades(s, t)  BY <1>4, <1>5 DEF Fades
<1>7. TonesAgree(c, kept, t) /\ (quiet => ~t.enabled)
  BY <1>3, <1>6, FadesAgrees DEF Fades
<1>8. f = [e EXCEPT !.s.turnoffFrames = 0, !.s.legacyFrames = 0, !.s.finishFrames = 0]
  BY DEF CompletePhase
<1> HIDE DEF e
<1>9. Hears(c, quiet, kept, e)  BY <1>2, <1>7 DEF Hears
<1>10. e.s \in State  BY <1>1, WorkFields
<1>11. f = [e EXCEPT !.s = g]  BY <1>1, <1>8 DEF Works
<1>12. g \in State /\ SameTones(e.s, g)  BY <1>10 DEF State, SameTones
<1> HIDE DEF g, f
<1>13. Fades(e.s, g)  BY <1>12, SameTonesFades
<1>14. Hears(c, quiet, kept, f)  BY <1>1, <1>9, <1>11, <1>12, <1>13, SetHears
<1> QED BY <1>9, <1>14 DEF e, f

LEMMA StatePhaseHears ==
  ASSUME TransmitAssumption, NEW c \in Config, NEW quiet, NEW kept, NEW w \in Works,
         Progress(w.s, w.left), Hears(c, quiet, kept, w)
  PROVE  Hears(c, quiet, kept, StatePhase(c, w))
<1>0. w.s \in State /\ w.left \in Nat  BY WorkFields
<1>1. CASE w.s.txState \in {"idle", "active"}
  <2>1. StatePhase(c, w) = Emit(w, w.s, w.left)
    <3>1. w.s.txState = "idle" \/ w.s.txState = "active"  BY <1>1
    <3>2. CASE w.s.txState = "idle"  BY <3>2, Zenon DEF StatePhase
    <3>3. CASE w.s.txState = "active"  BY <3>3, Zenon DEF StatePhase
    <3> QED BY <3>1, <3>2, <3>3
  <2>2. SameTones(w.s, w.s) /\ w.left \in 0 .. w.left  BY <1>0 DEF SameTones
  <2> QED BY <1>0, <2>1, <2>2, EmitHears
<1>2. CASE w.s.txState = "toc"
  <2>0. StatePhase(c, w) = TurnoffPhase(c, w) /\ w.s.ptt
    <3>1. StatePhase(c, w) = TurnoffPhase(c, w)  BY <1>2, Zenon DEF StatePhase
    <3> QED BY <1>2, <3>1 DEF Progress
  <2>1. CASE w.s.phase = "CtcssTail"
    <3>1. TurnoffPhase(c, w) = TailPhase(c, w)  BY <2>1, Zenon DEF TurnoffPhase
    <3> QED BY <1>2, <2>0, <2>1, <3>1, TailHears
  <2>2. CASE w.s.phase = "CtcssGap"
    <3>1. TurnoffPhase(c, w) = GapPhase(c, w)  BY <2>2, Zenon DEF TurnoffPhase
    <3> QED BY <1>2, <2>0, <2>2, <3>1, GapHears
  <2>3. CASE w.s.phase = "DcsTail"
    <3>1. TurnoffPhase(c, w) = DcsPhase(w)  BY <2>3, Zenon DEF TurnoffPhase
    <3> QED BY <1>2, <2>0, <2>3, <3>1, DcsHears
  <2>4. CASE w.s.phase = "NoTone"
    <3>1. TurnoffPhase(c, w) = NoTonePhase(w)  BY <2>4, Zenon DEF TurnoffPhase
    <3> QED BY <1>2, <2>0, <2>4, <3>1, NoToneHears
  <2>5. w.s.phase \in {"CtcssTail", "CtcssGap", "DcsTail", "NoTone"}
    BY <1>0, <1>2 DEF State, Progress
  <2> QED BY <2>1, <2>2, <2>3, <2>4, <2>5
<1>3. CASE w.s.txState = "finishing"
  <2>1. StatePhase(c, w) = FinishPhase(w)  BY <1>3, Zenon DEF StatePhase
  <2> QED BY <1>3, <2>1, FinishHears
<1>4. CASE w.s.txState = "complete"
  <2>1. StatePhase(c, w) = CompletePhase(c, w)  BY <1>4, Zenon DEF StatePhase
  <2> QED BY <1>4, <2>1, CompleteHears
<1> QED BY <1>0, <1>1, <1>2, <1>3, <1>4 DEF State

LEMMA PhaseHears ==
  ASSUME TransmitAssumption, NEW c \in Config, NEW quiet, NEW kept, NEW w \in Works,
         Progress(w.s, w.left), Hears(c, quiet, kept, w)
  PROVE  LET e == Phase(c, w) IN
         e \in Works /\ Progress(e.s, e.left) /\ Hears(c, quiet, kept, e)
<1>1. Phase(c, w) \in Works /\ Progress(Phase(c, w).s, Phase(c, w).left)
  BY PhaseAdvances DEF Advances
<1>2. CASE w.left = 0
  <2>1. Phase(c, w) = w  BY <1>2, Zenon DEF Phase
  <2> QED BY <1>1, <2>1
<1>3. CASE w.left # 0
  <2>1. Phase(c, w) = StatePhase(c, w)  BY <1>3, Zenon DEF Phase
  <2> QED BY <1>1, <1>3, <2>1, StatePhaseHears
<1> QED BY <1>2, <1>3

LEMMA RenderTimelineHears ==
  ASSUME TransmitAssumption, NEW c \in Config, NEW quiet, NEW kept, NEW w \in Works,
         Progress(w.s, w.left), Hears(c, quiet, kept, w)
  PROVE  Hears(c, quiet, kept, RenderTimeline(c, w))
<1> DEFINE w1 == Phase(c, w)   w2 == Phase(c, w1)  w3 == Phase(c, w2)
           w4 == Phase(c, w3)  w5 == Phase(c, w4)
<1>1. w1 \in Works /\ Progress(w1.s, w1.left) /\ Hears(c, quiet, kept, w1)
  BY PhaseHears
<1> HIDE DEF w1
<1>2. w2 \in Works /\ Progress(w2.s, w2.left) /\ Hears(c, quiet, kept, w2)
  BY <1>1, PhaseHears
<1> HIDE DEF w2
<1>3. w3 \in Works /\ Progress(w3.s, w3.left) /\ Hears(c, quiet, kept, w3)
  BY <1>2, PhaseHears
<1> HIDE DEF w3
<1>4. w4 \in Works /\ Progress(w4.s, w4.left) /\ Hears(c, quiet, kept, w4)
  BY <1>3, PhaseHears
<1> HIDE DEF w4
<1>5. w5 \in Works /\ Progress(w5.s, w5.left) /\ Hears(c, quiet, kept, w5)
  BY <1>4, PhaseHears
<1> HIDE DEF w5
<1>6. CASE w5.s.txState = "complete"
  <2>1. RenderTimeline(c, w) = Complete(c, w5)
    BY <1>6, Zenon DEF RenderTimeline, Conclude, w1, w2, w3, w4, w5
  <2> QED BY <1>5, <1>6, <2>1, CompleteHears
<1>7. CASE w5.s.txState # "complete"
  <2>1. RenderTimeline(c, w) = w5
    BY <1>7, Zenon DEF RenderTimeline, Conclude, w1, w2, w3, w4, w5
  <2> QED BY <1>5, <2>1
<1> QED BY <1>6, <1>7

\* The settle applies a disable that is still queued and touches no other tone.
LEMMA SettleFades ==
  ASSUME NEW c \in Config, NEW s \in State, NEW ms \in Nat, NEW in \in Input
  PROVE  LET t == Settle(c, s, ms, in) IN
         t \in State /\ Fades(s, t) /\ (s.option # "disable" => SameTones(s, t))
<1> DEFINE left == IF in.physical THEN Consume(s.settleMs, ms) ELSE s.settleMs
           u == [s EXCEPT !.settleMs = left]
           halt == c.cpuSaver /\ ~in.request /\ ~s.ptt /\ s.txState = "idle"
           v == [u EXCEPT !.halted = halt]
           d == ApplyOption(c, v, "disable")
           t == Settle(c, s, ms, in)
<1>1. left \in Nat /\ halt \in BOOLEAN
  <2>1. s.settleMs \in Nat  BY DEF State
  <2> QED BY <2>1, ConsumeType
<1>2. t = IF ~v.halted /\ v.option = "disable" THEN d ELSE v
  BY DEF Settle, v, u, left, halt
<1> HIDE DEF left, halt
<1>3. u \in State /\ SameTones(s, u)  BY <1>1 DEF State, SameTones
<1> HIDE DEF u
<1>4. v \in State /\ SameTones(u, v)  BY <1>1, <1>3 DEF State, SameTones
<1> HIDE DEF v
<1>5. SameTones(s, v)  BY <1>3, <1>4 DEF SameTones
<1>6. d \in State /\ Fades(v, d)  BY <1>4, DisableFades
<1>7. Fades(s, v)  BY <1>5, SameTonesFades
<1>8. Fades(s, d)  BY <1>5, <1>6 DEF Fades, SameTones
<1>9. v.option = s.option  BY <1>5 DEF SameTones
<1> HIDE DEF d, t
<1> QED BY <1>2, <1>4, <1>5, <1>6, <1>7, <1>8, <1>9 DEF t

\* A callback rendered from a state that agrees lets nothing through that does
\* not, and leaves a state that agrees.
LEMMA RenderedHears ==
  ASSUME TransmitAssumption, NEW c \in Config, NEW kept, NEW p \in State, NEW ms \in Nat,
         NEW in \in Input, NEW status \in BOOLEAN, Progress(p, in.frames),
         TonesAgree(c, kept, Live(c, p, in))
  PROVE  Hears(c, in.inhibit, kept, Rendered(c, p, ms, in, status))
<1> DEFINE live == Live(c, p, in)
           w0 == Work(live, in.frames, status)
           w == RenderTimeline(c, w0)
           s == Settle(c, w.s, ms, in)
           r == [w EXCEPT !.s = s]
<1>0. Rendered(c, p, ms, in, status) = r  BY DEF Rendered, Live
<1>1. /\ live \in State /\ SameCore(p, live) /\ (in.inhibit => ~live.enabled)
  BY DisableFades DEF Live, SameCore
<1>2. TonesAgree(c, kept, live)  OBVIOUS
<1> HIDE DEF live
<1>3. w0 \in Works /\ w0.s = live /\ w0.left = in.frames /\ w0.spans = << >>
  <2>1. in.frames \in Nat  BY DEF Input
  <2>2. << >> \in Seq(Spans)  OBVIOUS
  <2> QED BY <1>1, <2>1, <2>2 DEF Work, Works
<1> HIDE DEF w0
<1>4. in.frames \in Nat  BY DEF Input
<1>5. Progress(w0.s, w0.left)  BY <1>1, <1>3, <1>4, ProgressSameCore
<1>6. Hears(c, in.inhibit, kept, w0)  BY <1>1, <1>2, <1>3 DEF Hears
<1>7. w \in Works  BY <1>3, <1>5, RenderTimelineType
<1>8. Hears(c, in.inhibit, kept, w)  BY <1>3, <1>5, <1>6, RenderTimelineHears
<1> HIDE DEF w
<1>9. w.s \in State  BY <1>7, WorkFields
<1>10. s \in State /\ Fades(w.s, s)  BY <1>9, SettleFades
<1> HIDE DEF s
<1> QED BY <1>0, <1>7, <1>8, <1>10, SetHears

\* A keyed callback is one span of the state it was prepared to.
LEMMA RenderedKeyed ==
  ASSUME TransmitAssumption, NEW c \in Config, NEW p \in State, NEW ms \in Nat,
         NEW in \in Input, NEW status \in BOOLEAN,
         p.txState = "active", p.option # "disable", ~in.inhibit
  PROVE  LET e == Rendered(c, p, ms, in, status) IN
         /\ DOMAIN e.spans = {1} /\ e.spans[1].intent = Intent(p)
         /\ SameTones(p, e.s)
<1> DEFINE w0 == Work(p, in.frames, status)
           q == [p EXCEPT !.burst = FALSE]
           one == << Span(Intent(p), in.frames) >>
           w == Emit(w0, p, in.frames)
           s == Settle(c, w.s, ms, in)
           r == [w EXCEPT !.s = s]
<1>1. in.frames \in Nat /\ in.frames # 0  BY DEF Input
<1>2. q \in State /\ SameTones(p, q)  BY DEF State, SameTones
<1>3. /\ w0 \in Works /\ w0.s = p /\ w0.left = in.frames /\ w0.spans = << >>
  <2>1. << >> \in Seq(Spans)  OBVIOUS
  <2> QED BY <1>1, <2>1 DEF Work, Works
<1> HIDE DEF q, w0
<1>4. w \in Works /\ w.left = 0 /\ w.s = q /\ w.spans = one
  <2> DEFINE m == [w0 EXCEPT !.s = q, !.left = @ - in.frames]
  <2>1. w \in Works /\ w.left = 0  BY <1>1, <1>3, EmitType
  <2>2. m \in Works /\ m.s = q /\ m.spans = << >>
    <3>1. w0.left - in.frames \in Nat  BY <1>1, <1>3
    <3>2. m \in Works  BY <1>2, <1>3, <3>1 DEF Works
    <3> QED BY <1>3, <3>2 DEF Works
  <2>3. w = [m EXCEPT !.spans = Append(@, Span(Intent(p), in.frames))]
    <3>1. in.frames # 0 /\ ~(Len(w0.spans) > 0) /\ Len(w0.spans) # MaxRenderSpans
      BY <1>1, <1>3 DEF MaxRenderSpans
    <3> QED BY <3>1, Zenon DEF Emit, q
  <2> HIDE DEF m
  <2>4. Append(m.spans, Span(Intent(p), in.frames)) = one  BY <2>2
  <2> HIDE DEF one, w
  <2>5. w = [m EXCEPT !.spans = one]  BY <2>3, <2>4
  <2> QED BY <2>1, <2>2, <2>5 DEF Works
<1>5. RenderTimeline(c, w0) = w
  <2>1. StatePhase(c, w0) = w
    <3>1. w0.s.txState = "active"  BY <1>3
    <3>2. StatePhase(c, w0) = Emit(w0, w0.s, w0.left)  BY <3>1, Zenon DEF StatePhase
    <3> QED BY <1>3, <3>2
  <2>2. w0.left # 0 /\ w.left = 0  BY <1>1, <1>3, <1>4
  <2>3. w.s.txState # "complete"
    <3>1. w.s = q  BY <1>4
    <3> QED BY <1>2, <3>1 DEF SameTones
  <2> HIDE DEF w
  <2>4. Phase(c, w0) = w  BY <2>1, <2>2, Zenon DEF Phase
  <2>5. Phase(c, w) = w  BY <2>2, Zenon DEF Phase
  <2>6. Conclude(c, w) = w  BY <2>3, Zenon DEF Conclude
  <2> QED BY <2>4, <2>5, <2>6, Zenon DEF RenderTimeline
<1>6. Rendered(c, p, ms, in, status) = r
  <2>1. Rendered(c, p, ms, in, status)
          = [RenderTimeline(c, w0) EXCEPT !.s = Settle(c, @, ms, in)]
    BY DEF Rendered, w0
  <2> QED BY <1>5, <2>1
<1>8. r.s = s /\ r.spans = one
  <2> HIDE DEF w, s
  <2> QED BY <1>4 DEF Works
<1> HIDE DEF w, r
<1>9. q.option # "disable"  BY <1>2 DEF SameTones
<1>10. SameTones(q, s)  BY <1>2, <1>4, <1>9, SettleFades
<1> HIDE DEF s
<1>11. SameTones(p, r.s)  BY <1>2, <1>8, <1>10 DEF SameTones
<1>12. DOMAIN one = {1} /\ one[1].intent = Intent(p)  BY DEF Span
<1> QED BY <1>6, <1>8, <1>11, <1>12

(* What a callback leaves *)

LEMMA TickedTones ==
  ASSUME TransmitAssumption, Core, NEW kept, NEW in \in Input, TonesAgree(cfg, kept, st)
  PROVE  Listening(cfg, kept, Ticked(in))
<1> DEFINE h == Listen(cfg, st, in)
           t == [h EXCEPT !.txRem = Remainder(h.txRem, in.frames)]
<1>1. h \in State  BY CoreFacts, ListenCore
<1>2. Listening(cfg, kept, h)  BY CoreFacts, ListenTones
<1>3. Ticked(in) = t  BY DEF Ticked
<1> HIDE DEF h
<1>4. SameTones(h, t)  BY <1>1 DEF State, SameTones
<1> HIDE DEF t
<1>5. TonesAgree(cfg, kept, t)
  BY <1>2, <1>4, SameTonesFades, FadesAgrees DEF Listening
<1> QED BY <1>2, <1>3, <1>4, <1>5 DEF Listening, SameTones

\* Every branch of prepare_transmitter hands on a state that agrees.
LEMMA PreparedTones ==
  ASSUME TransmitAssumption, Core, NEW kept, NEW in \in Input, AdmittedTick(in),
         TonesAgree(cfg, kept, st)
  PROVE  \E p \in State, status \in BOOLEAN :
           /\ Progress(p, in.frames) /\ Finish(in, p, status)
           /\ TonesAgree(cfg, kept, Live(cfg, p, in))
<1> DEFINE t == Ticked(in)
<1>1. /\ t \in State /\ Progress(t, 0) /\ t.txState = st.txState /\ t.phase = st.phase
  <2>1. SameCore(st, t)  BY TickedCore
  <2> QED BY <2>1, TickedFacts DEF SameCore
<1>2. cfg \in Config /\ ValidPolicy(cfg) /\ in.frames \in Nat \ {0}
  BY CoreFacts DEF Input
<1>3. Progress(t, in.frames)  BY <1>1, <1>2 DEF Progress
<1>0. Listening(cfg, kept, t) /\ TonesAgree(cfg, kept, t)
  BY TickedTones DEF Listening
<1> HIDE DEF t
<1>4. CASE IdleTick(in) \/ TurnoffTick(in)
  <2>1. Finish(in, t, FALSE)  BY <1>4 DEF IdleTick, TurnoffTick, t
  <2> QED BY <1>0, <1>1, <1>3, <2>1, LiveAgrees
<1>5. CASE KeyTick(in)
  <2>1. Finish(in, KeyUp(cfg, t, in), TRUE) /\ st.txState = "idle"
    BY <1>5 DEF KeyTick, t
  <2>2. KeyUp(cfg, t, in) \in State /\ Progress(KeyUp(cfg, t, in), in.frames)
    BY <1>1, <1>2, KeyUpProgress
  <2>3. t.phase = "None"  BY <1>1, <2>1 DEF Progress
  <2>4. TonesAgree(cfg, kept, Live(cfg, KeyUp(cfg, t, in), in))
    BY <1>0, <1>1, <1>2, <2>3, KeyUpTones
  <2> QED BY <2>1, <2>2, <2>4
<1>6. CASE TalkTick(in)
  <2> DEFINE p == StayKeyed(cfg, t, in)
  <2>1. Finish(in, p, FALSE) /\ st.txState = "active"  BY <1>6 DEF TalkTick, t
  <2>2. p \in State /\ SameCore(t, p)  BY <1>1, <1>2, <2>1, StayKeyedProgress
  <2>3. TonesAgree(cfg, kept, Live(cfg, p, in))
    BY <1>0, <1>1, <1>2, <2>1, StayKeyedTones
  <2> HIDE DEF p
  <2>4. Progress(p, in.frames)  BY <1>2, <1>3, <2>2, ProgressSameCore
  <2> QED BY <2>1, <2>2, <2>3, <2>4
<1>7. CASE ReleaseTick(in)
  <2> DEFINE p == BeginRelease(cfg, t, in)
  <2>1. Finish(in, p, FALSE) /\ st.txState = "active"
    BY <1>7 DEF ReleaseTick, t
  <2>2. Keyed(t)  BY <1>1, <2>1 DEF Keyed
  <2>3. p \in State /\ Progress(p, in.frames)
    BY <1>1, <1>2, <2>2, BeginReleaseProgress
  <2>4. TonesAgree(cfg, kept, p)  BY <1>0, <1>1, <1>2, <2>2, BeginReleaseTones
  <2> HIDE DEF p
  <2>5. TonesAgree(cfg, kept, Live(cfg, p, in))  BY <2>3, <2>4, LiveAgrees
  <2> QED BY <2>1, <2>3, <2>5
<1>8. CASE RekeyDcsTick(in)
  <2> DEFINE p == RekeyDcsTail(t)
  <2>1. Finish(in, p, FALSE) /\ st.txState = "toc" /\ st.phase = "DcsTail"
    BY <1>8 DEF RekeyDcsTick, t
  <2>2. p \in State /\ Progress(p, in.frames)
    BY <1>1, <1>2, <2>1, RekeyDcsTailProgress
  <2>3. TonesAgree(cfg, kept, p)  BY <1>0, <1>1, <1>2, <2>1, RekeyTones
  <2> HIDE DEF p
  <2>4. TonesAgree(cfg, kept, Live(cfg, p, in))  BY <2>2, <2>3, LiveAgrees
  <2> QED BY <2>1, <2>2, <2>4
<1>9. CASE RekeyCtcssTick(in)
  <2> DEFINE p == RekeyCtcssTail(cfg, t)
  <2>1. Finish(in, p, FALSE) /\ st.txState = "toc" /\ st.phase # "DcsTail"
    BY <1>9 DEF RekeyCtcssTick, t
  <2>2. p \in State /\ Progress(p, in.frames)
    BY <1>1, <1>2, <2>1, RekeyCtcssTailProgress
  <2>3. TonesAgree(cfg, kept, p)  BY <1>0, <1>1, <1>2, <2>1, RekeyTones
  <2> HIDE DEF p
  <2>4. TonesAgree(cfg, kept, Live(cfg, p, in))  BY <2>2, <2>3, LiveAgrees
  <2> QED BY <2>1, <2>2, <2>4
<1> QED BY <1>4, <1>5, <1>6, <1>7, <1>8, <1>9 DEF AdmittedTick

\* What a callback that reaches the renderer publishes, from the state p it was
\* prepared to.
LEMMA FinishPublishes ==
  ASSUME TransmitAssumption, Core, NEW kept, NEW in \in Input, NEW p \in State,
         NEW status \in BOOLEAN, Progress(p, in.frames), Finish(in, p, status),
         TonesAgree(cfg, kept, Live(cfg, p, in))
  PROVE  /\ out'.inhibit = in.inhibit /\ out'.request = in.request /\ out'.result = "ok"
         /\ out'.spans \in Seq(Spans) /\ TonesAgree(cfg, kept, st')
         /\ \A i \in 1 .. Len(out'.spans) :
              SpanAgrees(cfg, in.inhibit, kept, out'.spans[i].intent)
         /\ p.txState = "active" /\ ~in.inhibit =>
              /\ DOMAIN out'.spans = {1} /\ out'.spans[1].intent = Intent(p)
              /\ SameTones(p, st')
<1> DEFINE ms == ElapsedMs(st.txRem, in.frames)
           w == Rendered(cfg, p, ms, in, status)
           done == [result |-> "ok", raised |-> ~st.ptt /\ w.s.ptt,
                    released |-> st.ptt /\ ~w.s.ptt,
                    status |-> w.status, arm |-> w.arm,
                    spans |-> w.spans, frames |-> in.frames,
                    request |-> in.request, inhibit |-> in.inhibit]
<1>1. cfg \in Config /\ ms \in Nat
  <2>1. st.txRem \in Nat /\ in.frames \in Nat  BY CoreFacts DEF State, Input
  <2> QED BY <2>1, CoreFacts, ElapsedType
<1>2. Commit(in, w)  BY DEF Finish
<1> HIDE DEF ms
<1>3. /\ Covers(cfg, in.frames, p, w) /\ Hears(cfg, in.inhibit, kept, w)
  BY <1>1, RenderedCovers, RenderedHears
<1>4. p.txState = "active" /\ ~in.inhibit =>
        /\ DOMAIN w.spans = {1} /\ w.spans[1].intent = Intent(p) /\ SameTones(p, w.s)
  <2> SUFFICES ASSUME p.txState = "active", ~in.inhibit
               PROVE  /\ DOMAIN w.spans = {1} /\ w.spans[1].intent = Intent(p)
                      /\ SameTones(p, w.s)
    OBVIOUS
  <2>1. Live(cfg, p, in) = p  BY DEF Live
  <2>2. p.option # "disable"  BY <2>1 DEF TonesAgree
  <2> QED BY <1>1, <2>2, RenderedKeyed
<1> HIDE DEF w
<1>5. w.ok /\ w.spans \in Seq(Spans)  BY <1>3 DEF Covers
<1>6. st' = w.s /\ out' = done  BY <1>2, <1>5 DEF Commit
<1>7. /\ out'.spans = w.spans /\ out'.inhibit = in.inhibit /\ out'.request = in.request
      /\ out'.result = "ok"
  BY <1>6
<1> HIDE DEF done
<1> QED BY <1>3, <1>4, <1>5, <1>6, <1>7 DEF Hears

(* The line *)

\* The spans of the last callback agree with what it was told and with the
\* policy, and the retained state agrees with the policy.
SpansAgree(quiet, kept) ==
  /\ out'.inhibit = quiet /\ out'.spans \in Seq(Spans)
  /\ TonesAgree(cfg, kept, st')
  /\ \A i \in 1 .. Len(out'.spans) : SpanAgrees(cfg, quiet, kept, out'.spans[i].intent)

\* A policy in force before PTT rises has been in force since.
LEMMA UnkeyedIsKept ==
  ASSUME NEW c, NEW kept, NEW s, TonesAgree(c, kept, s)
  PROVE  TonesAgree(c, kept \/ ~s.ptt, s)
BY DEF TonesAgree

LEMMA TickAgrees ==
  ASSUME TransmitAssumption, Core, NEW kept, NEW in \in Input, Tick(in),
         TonesAgree(cfg, kept, st)
  PROVE  SpansAgree(in.inhibit, kept) /\ cfg' = cfg
<1>1. CASE HeldTick(in) \/ RejectedTick(in)
  <2>1. PICK x \in {"held", "rejected"} : out' = NoOutput(x, in)
    BY <1>1 DEF HeldTick, RejectedTick
  <2>2. out'.inhibit = in.inhibit /\ out'.spans = << >>  BY <2>1 DEF NoOutput
  <2>3. out'.spans \in Seq(Spans) /\ Len(out'.spans) = 0  BY <2>2
  <2>4. TonesAgree(cfg, kept, st') /\ cfg' = cfg
    <3>1. CASE HeldTick(in)
      <4>1. st' = Listen(cfg, st, in) /\ cfg' = cfg  BY <3>1 DEF HeldTick
      <4> QED BY <4>1, CoreFacts, ListenTones DEF Listening
    <3>2. CASE RejectedTick(in)
      BY <3>2 DEF RejectedTick
    <3> QED BY <1>1, <3>1, <3>2
  <2>5. \A i \in 1 .. Len(out'.spans) :
          SpanAgrees(cfg, in.inhibit, kept, out'.spans[i].intent)
    BY <2>3
  <2> QED BY <2>2, <2>3, <2>4, <2>5 DEF SpansAgree
<1>2. CASE AdmittedTick(in)
  <2>1. PICK p \in State, status \in BOOLEAN :
          /\ Progress(p, in.frames) /\ Finish(in, p, status)
          /\ TonesAgree(cfg, kept, Live(cfg, p, in))
    BY <1>2, PreparedTones
  <2>2. cfg' = cfg  BY <2>1 DEF Finish, Commit
  <2> QED BY <2>1, <2>2, FinishPublishes DEF SpansAgree
<1> QED BY <1>1, <1>2 DEF Tick

\* What may be heard together in one span.
Discreet(quiet, kept, parts) ==
  /\ quiet => parts \cap {"ctcss", "no frequency"} = {}
  /\ kept => /\ ~({"ctcss", "dcs"} \subseteq parts)
             /\ ~({"ctcss", "dcs turn-off"} \subseteq parts)

\* What can be heard in one span of an intent that agrees.
LEMMA SampleAgrees ==
  ASSUME NEW c \in Config, NEW quiet, NEW kept, NEW intent \in Intents, NEW route,
         NEW test \in BOOLEAN, SpanAgrees(c, quiet, kept, intent)
  PROVE  Discreet(quiet, kept, RouteSample(c, route, intent, Program(test)))
<1> DEFINE parts == RouteSample(c, route, intent, Program(test))
<1>1. quiet => RenderCtcss(c, intent) = {}
  BY DEF SpanAgrees, RenderCtcss
<1>2. RenderDcs(c, intent) \subseteq {"dcs", "dcs turn-off"}
  BY DEF RenderDcs
<1>3. "ctcss" \in RenderCtcss(c, intent) =>
        intent.ptt /\ (intent.tail \/ intent.freq # 0)
  BY DEF RenderCtcss
<1>4. RenderDcs(c, intent) # {} => intent.ptt /\ c.dcsTx
  BY DEF RenderDcs
<1>5. kept /\ "ctcss" \in RenderCtcss(c, intent) => RenderDcs(c, intent) = {}
  BY <1>3, <1>4 DEF SpanAgrees
<1>6. Program(test) \subseteq {"test", "voice"}  BY DEF Program
<1>7. RenderCtcss(c, intent) \subseteq {"ctcss", "no frequency"}  BY DEF RenderCtcss
<1>8. parts \subseteq Program(test) \cup RenderCtcss(c, intent) \cup RenderDcs(c, intent)
  BY DEF RouteSample
<1> HIDE DEF parts
<1>9. Discreet(quiet, kept, parts)
  BY <1>1, <1>2, <1>5, <1>6, <1>7, <1>8 DEF Discreet
<1> QED BY <1>9 DEF parts

\* The spans routed to one output.
LEMMA RoutedAgrees ==
  ASSUME NEW quiet, NEW kept, NEW route, NEW test \in BOOLEAN,
         cfg \in Config, SpansAgree(quiet, kept)
  PROVE  \A i \in DOMAIN Routed(route, test) : Discreet(quiet, kept, Routed(route, test)[i])
<1> DEFINE spans == out'.spans
           Parts(i) == RouteSample(cfg, route, spans[i].intent, Program(test))
<1>1. /\ spans \in Seq(Spans)
      /\ \A i \in 1 .. Len(spans) : SpanAgrees(cfg, quiet, kept, spans[i].intent)
  BY DEF SpansAgree
<1>2. Routed(route, test) = [i \in DOMAIN spans |-> Parts(i)]
  BY DEF Routed
<1> HIDE DEF spans
<1>3. DOMAIN spans = 1 .. Len(spans)  BY <1>1
<1>4. ASSUME NEW i \in 1 .. Len(spans) PROVE Discreet(quiet, kept, Parts(i))
  <2>1. spans[i] \in Spans  BY <1>1
  <2>2. spans[i].intent \in Intents  BY <2>1 DEF Spans
  <2>3. SpanAgrees(cfg, quiet, kept, spans[i].intent)  BY <1>1
  <2> QED BY <2>2, <2>3, SampleAgrees
<1> HIDE DEF Parts
<1> QED BY <1>2, <1>3, <1>4

(* The invariant *)

\* What the line may carry, as the two invariants state it.
LineAgrees == InhibitSilences /\ OneSignal

\* The inductive invariant.
OutInv == Core /\ TonesAgree(cfg, settled, st) /\ LineAgrees

LEMMA SilentAgrees ==
  ASSUME NEW status, line' = Silent(status)
  PROVE  LineAgrees'
<1>1. line'.a = << >> /\ line'.b = << >> /\ line'.external = FALSE  BY DEF Silent
<1>2. Heard' = {}  BY <1>1 DEF Heard
<1> QED BY <1>1, <1>2 DEF LineAgrees, InhibitSilences, OneSignal

LEMMA OutputInitEstablishes ==
  ASSUME TransmitAssumption, OutputInit
  PROVE  OutInv
<1>1. Core  BY InitEstablishes, InvCore DEF OutputInit
<1>2. st = InitialState /\ line = Silent("none")  BY DEF OutputInit, Init
<1>3. TonesAgree(cfg, settled, st)
  BY <1>2 DEF TonesAgree, InitialState, TonedPhases
<1>4. line.a = << >> /\ line.b = << >> /\ line.external = FALSE  BY <1>2 DEF Silent
<1>5. Heard = {}  BY <1>4 DEF Heard
<1>6. LineAgrees  BY <1>4, <1>5 DEF LineAgrees, InhibitSilences, OneSignal
<1> QED BY <1>1, <1>3, <1>6 DEF OutInv

\* A tick keeps the invariant's part about the state; what becomes of the line
\* is for the callback around it.
LEMMA TickKeeps ==
  ASSUME TransmitAssumption, OutInv, NEW in \in Inputs, Tick(in), Settled
  PROVE  /\ Core' /\ TonesAgree(cfg', settled', st') /\ cfg' = cfg
         /\ SpansAgree(in.inhibit, settled')
<1>0. Core /\ TonesAgree(cfg, settled, st) /\ in \in Input
  BY DEF OutInv, TransmitAssumption
<1>1. Inv'
  <2>1. Next  BY DEF Next
  <2> QED BY <1>0, <2>1, StepPreserves
<1>2. Core'  BY <1>1, InvCore, PTL
<1>3. TonesAgree(cfg, settled', st)
  BY <1>0, UnkeyedIsKept DEF Settled
<1>4. SpansAgree(in.inhibit, settled') /\ cfg' = cfg
  BY <1>0, <1>3, TickAgrees
<1> QED BY <1>2, <1>4 DEF SpansAgree

LEMMA DeliverAgrees ==
  ASSUME TransmitAssumption, OutInv, NEW in \in Inputs, Deliver(in)
  PROVE  OutInv'
<1>1. /\ Core' /\ TonesAgree(cfg', settled', st') /\ cfg' = cfg
      /\ SpansAgree(in.inhibit, settled')
  BY TickKeeps DEF Deliver
<1>2. CASE out'.result = "rejected"
  <2>1. line' = Silent("invalid")  BY <1>2 DEF Deliver
  <2>2. LineAgrees'  BY <2>1, SilentAgrees
  <2> QED BY <1>1, <2>2 DEF OutInv
<1>3. CASE out'.result # "rejected"
  <2>1. PICK test \in BOOLEAN :
          line' = [status |-> "ok", a |-> Routed(RouteA, test), b |-> Routed(RouteB, test),
                   ptt |-> st'.ptt, external |-> ExternalEnable(cfg, st', in)]
    BY <1>3 DEF Deliver
  <2>2. /\ line'.a = Routed(RouteA, test) /\ line'.b = Routed(RouteB, test)
        /\ line'.external = ExternalEnable(cfg, st', in)
    BY <2>1
  <2>3. cfg \in Config  BY CoreFacts DEF OutInv
  <2>4. /\ \A i \in DOMAIN line'.a : Discreet(in.inhibit, settled', line'.a[i])
        /\ \A i \in DOMAIN line'.b : Discreet(in.inhibit, settled', line'.b[i])
    BY <1>1, <2>2, <2>3, RoutedAgrees
  <2>5. \A parts \in Heard' : Discreet(in.inhibit, settled', parts)
    BY <2>4 DEF Heard
  <2>6. out'.inhibit = in.inhibit  BY <1>1 DEF SpansAgree
  <2>7. in.inhibit => ~line'.external  BY <2>2 DEF ExternalEnable
  <2>8. InhibitSilences'  BY <2>5, <2>6, <2>7 DEF InhibitSilences, Discreet
  <2>9. OneSignal'  BY <2>5 DEF OneSignal, Discreet
  <2> QED BY <1>1, <2>8, <2>9 DEF OutInv, LineAgrees
<1> QED BY <1>2, <1>3

LEMMA OutputStep ==
  ASSUME TransmitAssumption, OutInv, OutputNext
  PROVE  OutInv'
<1>1. ASSUME NEW in \in Inputs, RefuseForced(in) \/ FailEarly(in) PROVE OutInv'
  <2>1. UNCHANGED <<cfg, st, settled>>  BY <1>1 DEF RefuseForced, FailEarly
  <2>2. line' = Silent("unsupported") \/ line' = Silent("provider failed")
    BY <1>1 DEF RefuseForced, FailEarly
  <2>3. LineAgrees'  BY <2>2, SilentAgrees
  <2>4. Core'  BY <2>1 DEF OutInv, Core, TurnoffCoherent
  <2>5. TonesAgree(cfg', settled', st')  BY <2>1 DEF OutInv
  <2> QED BY <2>3, <2>4, <2>5 DEF OutInv
<1>2. ASSUME NEW in \in Inputs, FailLate(in) PROVE OutInv'
  <2>1. Core' /\ TonesAgree(cfg', settled', st')  BY <1>2, TickKeeps DEF FailLate
  <2>2. LineAgrees'  BY <1>2, SilentAgrees DEF FailLate
  <2> QED BY <2>1, <2>2 DEF OutInv
<1>3. ASSUME NEW in \in Inputs, Deliver(in) PROVE OutInv'
  BY <1>3, DeliverAgrees
<1>4. ASSUME NEW c \in Policies, Update(c) PROVE OutInv'
  <2>1. /\ UpdateConfig(c) /\ line' = Silent("none") /\ settled' = ~st.ptt
    BY <1>4 DEF Update
  <2>2. cfg' = c /\ st' = st  BY <2>1 DEF UpdateConfig
  <2>3. Core'  BY <2>2 DEF OutInv, Core, TurnoffCoherent
  <2>4. TonesAgree(c, ~st.ptt, st)
    BY DEF OutInv, TonesAgree
  <2>5. LineAgrees'  BY <2>1, SilentAgrees
  <2> QED BY <2>1, <2>2, <2>3, <2>4, <2>5 DEF OutInv
<1> QED BY <1>1, <1>2, <1>3, <1>4 DEF OutputNext

\* The inductive invariant of the callback: the tones of the retained state agree
\* with the policy, and what was last delivered with both.
THEOREM OutputInvariant == OutputSpec => []OutInv
<1>1. OutputInit => OutInv  BY TransmitAssumption, OutputInitEstablishes
<1>2. OutInv /\ [OutputNext]_output => OutInv'
  <2>1. ASSUME OutInv, OutputNext PROVE OutInv'
    BY <2>1, TransmitAssumption, OutputStep
  <2>2. ASSUME OutInv, UNCHANGED output PROVE OutInv'
    <3>1. UNCHANGED <<cfg, st, out, line, settled>>  BY <2>2 DEF output
    <3>2. Heard' = Heard  BY <3>1 DEF Heard
    <3>3. LineAgrees'
      BY <2>2, <3>1, <3>2 DEF OutInv, LineAgrees, InhibitSilences, OneSignal
    <3>4. Core'  BY <2>2, <3>1 DEF OutInv, Core, TurnoffCoherent
    <3>5. TonesAgree(cfg', settled', st')  BY <2>2, <3>1 DEF OutInv
    <3> QED BY <3>3, <3>4, <3>5 DEF OutInv
  <2> QED BY <2>1, <2>2
<1> QED BY <1>1, <1>2, PTL DEF OutputSpec

\* An inhibited callback delivers no CTCSS and enables no external encoder, in
\* whichever phase it finds the transmitter and whatever was queued (tick applies
\* inhibit to the prepared state, transmit to the encoder).
THEOREM InhibitIsLive == OutputSpec => []InhibitSilences
<1>1. OutInv => InhibitSilences  BY DEF OutInv, LineAgrees
<1> QED BY <1>1, OutputInvariant, PTL

\* CTCSS and DCS are never heard together under a policy that PTT rose under:
\* one frequency or tail tone and one code never meet in a span (select_start_ctcss,
\* start_ctcss_tail and render_dcs).
THEOREM SignalsExclude == OutputSpec => []OneSignal
<1>1. OutInv => OneSignal  BY DEF OutInv, LineAgrees
<1> QED BY <1>1, OutputInvariant, PTL

(* A keyed callback carries its tone *)

\* What every span of the callback's outputs must carry.
Carries ==
  /\ cfg.external => line'.external
  /\ (cfg.ctcssTx /\ cfg.default # 0 /\ \A t \in Tones : cfg.mapped[t] # 0) =>
       /\ RouteA \in ToneRoutes => \A i \in DOMAIN line'.a : line'.a[i] \cap Tone # {}
       /\ RouteB \in ToneRoutes => \A i \in DOMAIN line'.b : line'.b[i] \cap Tone # {}

\* A callback that stays keyed is one span of a state with the oscillator on.
LEMMA TalkSounds ==
  ASSUME TransmitAssumption, Core, NEW kept, NEW in \in Input, TalkTick(in),
         TonesAgree(cfg, kept, st), ~in.inhibit, cfg.external \/ HasTones(cfg)
  PROVE  /\ st'.ptt /\ st'.enabled /\ DOMAIN out'.spans = {1}
         /\ LET intent == out'.spans[1].intent IN
            intent.ptt /\ intent.enabled /\ (kept /\ HasTones(cfg) => intent.freq # 0)
<1> DEFINE t == Ticked(in)
           p == StayKeyed(cfg, t, in)
<1>0. Finish(in, p, FALSE) /\ st.txState = "active"  BY DEF TalkTick
<1>1. /\ t \in State /\ Progress(t, 0) /\ t.txState = "active"
  BY <1>0, TickedFacts
<1>2. cfg \in Config /\ ValidPolicy(cfg) /\ in.frames \in Nat \ {0}
  BY CoreFacts DEF Input
<1>3. Listening(cfg, kept, t)  BY TickedTones
<1> HIDE DEF t
<1>4. p \in State /\ SameCore(t, p)  BY <1>1, <1>2, StayKeyedProgress
<1>5. /\ TonesAgree(cfg, kept, Live(cfg, p, in))
      /\ p.enabled /\ p.txState = "active" /\ p.ptt
      /\ kept /\ HasTones(cfg) => p.freq # 0
  BY <1>1, <1>2, <1>3, StayKeyedTones
<1> HIDE DEF p
<1>6. Progress(p, in.frames)  BY <1>1, <1>2, <1>4 DEF Progress, SameCore
<1>7. DOMAIN out'.spans = {1} /\ out'.spans[1].intent = Intent(p) /\ SameTones(p, st')
  BY <1>0, <1>4, <1>5, <1>6, FinishPublishes
<1>8. Intent(p).ptt = p.ptt /\ Intent(p).enabled = p.enabled /\ Intent(p).freq = p.freq
  BY DEF Intent
<1> QED BY <1>5, <1>7, <1>8 DEF SameTones

\* Of the ticks that answer "ok" to a lasting request, only one finds PTT keyed.
LEMMA OkIsTalk ==
  ASSUME TransmitAssumption, Core, NEW kept, NEW in \in Input, Tick(in),
         TonesAgree(cfg, kept, st), st.txState = "active", out'.result = "ok", out'.request
  PROVE  TalkTick(in)
<1>1. ~HeldTick(in) /\ ~RejectedTick(in)
  BY DEF HeldTick, RejectedTick, NoOutput
<1>2. AdmittedTick(in)  BY <1>1 DEF Tick
<1>3. in.request
  <2>1. PICK p \in State, status \in BOOLEAN :
          /\ Progress(p, in.frames) /\ Finish(in, p, status)
          /\ TonesAgree(cfg, kept, Live(cfg, p, in))
    BY <1>2, PreparedTones
  <2>2. out'.request = in.request  BY <2>1, FinishPublishes
  <2> QED BY <2>2
<1>4. ~IdleTick(in)  BY DEF IdleTick
<1>5. ~KeyTick(in)  BY DEF KeyTick
<1>6. ~ReleaseTick(in)  BY <1>3 DEF ReleaseTick
<1>7. ~RekeyDcsTick(in)  BY DEF RekeyDcsTick
<1>8. ~RekeyCtcssTick(in)  BY DEF RekeyCtcssTick
<1>9. ~TurnoffTick(in)  BY DEF TurnoffTick
<1> QED BY <1>2, <1>4, <1>5, <1>6, <1>7, <1>8, <1>9, Zenon DEF AdmittedTick

LEMMA DeliverCarries ==
  ASSUME TransmitAssumption, OutInv, NEW in \in Inputs, Deliver(in),
         st.txState = "active", out'.result = "ok", out'.request, ~out'.inhibit
  PROVE  Carries
<1>0. Core /\ TonesAgree(cfg, settled, st) /\ in \in Input
  BY DEF OutInv, TransmitAssumption
<1>1. TonesAgree(cfg, settled', st)
  BY <1>0, UnkeyedIsKept DEF Deliver, Settled
<1>2. TalkTick(in)  BY <1>0, OkIsTalk DEF Deliver
<1>3. ~in.inhibit
  <2>1. SpansAgree(in.inhibit, settled)  BY <1>0, TickAgrees DEF Deliver
  <2> QED BY <2>1 DEF SpansAgree
<1>4. PICK test \in BOOLEAN :
        line' = [status |-> "ok", a |-> Routed(RouteA, test), b |-> Routed(RouteB, test),
                 ptt |-> st'.ptt, external |-> ExternalEnable(cfg, st', in)]
  BY DEF Deliver
<1>5. /\ line'.a = Routed(RouteA, test) /\ line'.b = Routed(RouteB, test)
      /\ line'.external = ExternalEnable(cfg, st', in)
  BY <1>4
<1>6. cfg.external => line'.external
  <2>1. cfg.external => st'.ptt /\ st'.enabled  BY <1>0, <1>2, <1>3, TalkSounds
  <2> QED BY <1>3, <1>5, <2>1 DEF ExternalEnable
<1>7. ASSUME HasTones(cfg), NEW route \in ToneRoutes, NEW i \in DOMAIN Routed(route, test)
      PROVE  Routed(route, test)[i] \cap Tone # {}
  <2> DEFINE intent == out'.spans[1].intent
             parts == RouteSample(cfg, route, intent, Program(test))
  <2>1. /\ DOMAIN out'.spans = {1} /\ intent.ptt /\ intent.enabled
        /\ settled' => intent.freq # 0
    BY <1>0, <1>1, <1>2, <1>3, <1>7, TalkSounds
  <2>2. i = 1 /\ Routed(route, test)[i] = parts  BY <1>7, <2>1 DEF Routed
  <2>3. ~cfg.external
    BY <1>0, <1>7, CoreFacts DEF HasTones, ValidPolicy
  <2>4. RenderCtcss(cfg, intent) \subseteq parts  BY <1>7, <2>1 DEF RouteSample
  <2>5. RenderCtcss(cfg, intent)
          = {IF intent.tail \/ intent.freq # 0 THEN "ctcss" ELSE "no frequency"}
    BY <2>1, <2>3 DEF RenderCtcss
  <2> HIDE DEF parts, intent
  <2>6. RenderCtcss(cfg, intent) \cap Tone # {}  BY <2>1, <2>5 DEF Tone
  <2> QED BY <2>2, <2>4, <2>6
<1>8. HasTones(cfg) =>
        /\ RouteA \in ToneRoutes => \A i \in DOMAIN line'.a : line'.a[i] \cap Tone # {}
        /\ RouteB \in ToneRoutes => \A i \in DOMAIN line'.b : line'.b[i] \cap Tone # {}
  BY <1>5, <1>7
<1> QED BY <1>6, <1>8 DEF Carries, HasTones

\* A line that a callback fails, refuses or has not reached is not delivered.
LEMMA SilentIsNotOk ==
  ASSUME NEW status \in {"none", "unsupported", "provider failed"}, line' = Silent(status)
  PROVE  line'.status # "ok"
<1>1. line'.status = status  BY DEF Silent
<1> QED BY <1>1

\* A callback that finds PTT keyed, is not inhibited and is asked to stay keyed
\* delivers the policy's tone on each output that takes tones, or enables the
\* external encoder, whatever inhibit, retune, failure or update came before
\* (the reselection of prepare_transmitter's ACTIVE branch).
THEOREM KeyedIsHeard == OutputSpec => KeyedCarriesTone
<1> DEFINE Asked == /\ st.txState = "active" /\ line'.status = "ok" /\ out'.result = "ok"
                    /\ out'.request /\ ~out'.inhibit
<1>1. OutInv /\ [OutputNext]_output => [Asked => Carries]_output
  <2> SUFFICES ASSUME OutInv, OutputNext, Asked PROVE Carries
    OBVIOUS
  <2>1. CASE \E in \in Inputs : RefuseForced(in) \/ FailEarly(in) \/ FailLate(in)
    <3>1. line' = Silent("unsupported") \/ line' = Silent("provider failed")
      BY <2>1 DEF RefuseForced, FailEarly, FailLate
    <3>2. line'.status # "ok"  BY <3>1, SilentIsNotOk
    <3> QED BY <3>2
  <2>2. CASE \E in \in Inputs : Deliver(in)
    BY <2>2, TransmitAssumption, DeliverCarries
  <2>3. CASE \E c \in Policies : Update(c)
    <3>1. line' = Silent("none")  BY <2>3 DEF Update
    <3>2. line'.status # "ok"  BY <3>1, SilentIsNotOk
    <3> QED BY <3>2
  <2> QED BY <2>1, <2>2, <2>3 DEF OutputNext
<1>2. OutInv /\ [OutputNext]_output =>
        [(/\ st.txState = "active" /\ line'.status = "ok" /\ out'.result = "ok"
          /\ out'.request /\ ~out'.inhibit)
         => /\ cfg.external => line'.external
            /\ (cfg.ctcssTx /\ cfg.default # 0 /\ \A t \in Tones : cfg.mapped[t] # 0) =>
                 /\ RouteA \in ToneRoutes => \A i \in DOMAIN line'.a : line'.a[i] \cap Tone # {}
                 /\ RouteB \in ToneRoutes
                      => \A i \in DOMAIN line'.b : line'.b[i] \cap Tone # {}]_output
  BY <1>1, Zenon DEF Carries
<1> QED BY <1>2, OutputInvariant, PTL DEF OutputSpec, KeyedCarriesTone
=============================================================================
