--------------------------- MODULE ReceptionProofs ---------------------------
(***************************************************************************)
(* The receive owner keeps its types, keys the receiver exactly when both  *)
(* delays are over, publishes every change, and admits speech and delayed  *)
(* audio of the current burst only; and receiver blanking is a countdown   *)
(* of samples: milliseconds and remainder implement SampleCountdown.  For  *)
(* every rate, length of a millisecond, delay, set of policies and inputs, *)
(* and whatever providers fail.                                            *)
(***************************************************************************)
EXTENDS Reception, TLAPS

(* Arithmetic *)

LEMMA DivMod ==
  ASSUME NEW x \in Nat, NEW F \in Nat \ {0}
  PROVE  /\ x \div F \in Nat /\ x % F \in 0 .. F - 1
         /\ x = F * (x \div F) + (x % F)
OBVIOUS

LEMMA NonNegativeProduct ==
  ASSUME NEW a \in Nat, NEW b \in Nat
  PROVE  a * b \in Nat
OBVIOUS

\* m milliseconds less r frames are over within n frames exactly when e whole
\* milliseconds of r + n cover m; otherwise n frames fewer are left.
LEMMA SpanArithmetic ==
  ASSUME NEW F \in Nat \ {0}, NEW m \in Nat \ {0}, NEW r \in 0 .. F - 1,
         NEW n \in Nat, NEW e \in Nat, NEW q \in 0 .. F - 1, r + n = F * e + q
  PROVE  /\ m * F - r \in Nat \ {0}
         /\ e >= m => m * F - r <= n
         /\ e < m => n < m * F - r /\ (m - e) * F - q = (m * F - r) - n
<1>1. m * F = F + (m - 1) * F /\ (m - 1) * F \in Nat
  BY NonNegativeProduct
<1>2. ASSUME e >= m PROVE m * F - r <= n
  <2>1. F * e = m * F + (e - m) * F /\ (e - m) * F \in Nat
    BY <1>2, NonNegativeProduct
  <2> QED
    BY <2>1
<1>3. ASSUME e < m PROVE n < m * F - r /\ (m - e) * F - q = (m * F - r) - n
  <2>1. m * F = F * e + F + (m - e - 1) * F /\ (m - e - 1) * F \in Nat
    <3>1. m - e - 1 \in Nat
      BY <1>3
    <3> QED
      BY <3>1, NonNegativeProduct
  <2>2. (m - e) * F = F + (m - e - 1) * F
    OBVIOUS
  <2>3. F * e \in Nat
    BY NonNegativeProduct
  <2> QED
    BY <2>1, <2>2, <2>3
<1> QED
  BY <1>1, <1>2, <1>3
-----------------------------------------------------------------------------
(* The blanking timer *)

\* The fields the timer and its history live in are there.
Shape(r) == {"blankMs", "blankRem", "told", "q", "vad"} \subseteq DOMAIN r

Timing(r) ==
  Shape(r) /\ r.blankMs \in Nat /\ r.blankRem \in 0 .. FramesPerMs - 1

Left(r) == IF r.blankMs = 0 THEN 0 ELSE DurationFrames(r.blankMs) - r.blankRem

LEMMA LeftType ==
  ASSUME ReceptionAssumption, NEW r, Timing(r)
  PROVE  Left(r) \in Nat /\ (Left(r) = 0 <=> r.blankMs = 0)
<1>1. CASE r.blankMs = 0
  BY <1>1 DEF Left
<1>2. CASE r.blankMs # 0
  <2>1. FramesPerMs \in Nat \ {0} /\ r.blankMs \in Nat \ {0}
        /\ r.blankRem \in 0 .. FramesPerMs - 1
    BY <1>2 DEF ReceptionAssumption, Timing
  <2>2. /\ r.blankMs * FramesPerMs
             = FramesPerMs + (r.blankMs - 1) * FramesPerMs
        /\ (r.blankMs - 1) * FramesPerMs \in Nat
    BY <2>1, NonNegativeProduct
  <2> QED
    BY <1>2, <2>1, <2>2 DEF Left, DurationFrames
<1> QED
  BY <1>1, <1>2

LEMMA ArmTiming ==
  ASSUME ReceptionAssumption, NEW in \in Input, NEW r, Timing(r)
  PROVE  /\ Timing(Arm(in, r))
         /\ Left(Arm(in, r)) = IF DurationFrames(in.arm) = 0 THEN Left(r)
                               ELSE DurationFrames(in.arm)
<1>1. in.arm \in Nat /\ FramesPerMs \in Nat \ {0}
  BY DEF Input, ReceptionAssumption
<1>2. CASE in.arm = 0
  BY <1>1, <1>2 DEF Arm, DurationFrames
<1>3. CASE in.arm # 0
  <2>1. DurationFrames(in.arm) # 0 /\ DurationFrames(in.arm) \in Nat
    <3>1. in.arm * FramesPerMs = FramesPerMs + (in.arm - 1) * FramesPerMs
          /\ (in.arm - 1) * FramesPerMs \in Nat
      BY <1>1, <1>3, NonNegativeProduct
    <3> QED
      BY <1>1, <3>1 DEF DurationFrames
  <2>2. Arm(in, r) = [r EXCEPT !.blankMs = in.arm, !.blankRem = 0]
    BY <1>3 DEF Arm
  <2> DEFINE s == Arm(in, r)
  <2>3. Shape(s) /\ s.blankMs = in.arm /\ s.blankRem = 0
    BY <2>2 DEF Timing, Shape
  <2> HIDE DEF s
  <2> QED
    BY <1>1, <1>3, <2>1, <2>3 DEF Timing, Left, s
<1> QED
  BY <1>2, <1>3

\* A span of n frames takes n frames of what is left, or all of it.
LEMMA BlankTiming ==
  ASSUME ReceptionAssumption, NEW n \in Nat, NEW r, Timing(r)
  PROVE  /\ Timing(Blank(r, n))
         /\ Muted(r, n) = IF Left(r) <= n THEN Left(r) ELSE n
         /\ Left(Blank(r, n)) = Left(r) - Muted(r, n)
<1>1. CASE r.blankMs = 0
  BY <1>1 DEF Blank, Muted, Left
<1>2. CASE r.blankMs # 0
  <2> DEFINE F == FramesPerMs
             m == r.blankMs
             f == r.blankRem
             e == ElapsedMs(f, n)
             q == Remainder(f, n)
             s == Blank(r, n)
  <2>1. F \in Nat \ {0} /\ m \in Nat \ {0} /\ f \in 0 .. F - 1
    BY <1>2 DEF ReceptionAssumption, Timing
  <2>2. e \in Nat /\ q \in 0 .. F - 1 /\ f + n = F * e + q
    <3> DEFINE x == f + n
    <3>1. x \in Nat /\ e = x \div F /\ q = x % F
      BY <2>1 DEF ElapsedMs, Remainder
    <3> HIDE DEF F, m, f, e, q, s, x
    <3>2. e \in Nat /\ q \in 0 .. F - 1 /\ x = F * e + q
      BY <2>1, <3>1, DivMod
    <3> QED
      BY <3>2 DEF x
  <2>3. s = [r EXCEPT !.blankMs = Consume(m, e), !.blankRem = q]
    BY <1>2 DEF Blank
  <2>4. Shape(s) /\ s.blankMs = Consume(m, e) /\ s.blankRem = q
    BY <2>3 DEF Timing, Shape
  <2>5. Consume(m, e) = IF e >= m THEN 0 ELSE m - e
    BY <2>1, <2>2 DEF Consume
  <2>6. Left(r) = m * F - f /\ Muted(r, n) = Least(m * F - f, n)
    BY <1>2 DEF Left, Muted, DurationFrames
  <2> HIDE DEF F, m, f, e, q, s
  <2>7. m * F - f \in Nat \ {0}
    BY <2>1, <2>2, SpanArithmetic
  <2>8. CASE e >= m
    <3>1. m * F - f <= n
      BY <2>1, <2>2, <2>8, SpanArithmetic
    <3>2. Left(s) = 0 /\ s.blankMs = 0
      BY <2>4, <2>5, <2>8 DEF Left
    <3> QED
      BY <2>2, <2>4, <2>6, <2>7, <3>1, <3>2 DEF Timing, Least, s, F
  <2>9. CASE e < m
    <3>1. n < m * F - f /\ (m - e) * F - q = (m * F - f) - n
      BY <2>1, <2>2, <2>9, SpanArithmetic
    <3>2. s.blankMs = m - e /\ m - e \in Nat \ {0}
      BY <2>1, <2>2, <2>4, <2>5, <2>9
    <3>3. Left(s) = (m - e) * F - q
      BY <2>4, <3>2 DEF Left, DurationFrames, F
    <3> QED
      BY <2>2, <2>4, <2>6, <2>7, <3>1, <3>2, <3>3 DEF Timing, Least, s, F
  <2> QED
    BY <2>1, <2>2, <2>8, <2>9
<1> QED
  BY <1>1, <1>2
-----------------------------------------------------------------------------
(* What the rest of a callback leaves alone *)

Carries(w) == {"r", "ok", "muted"} \subseteq DOMAIN w /\ Shape(w.r)

SameTimer(r, s) == Shape(s) /\ s.blankMs = r.blankMs /\ s.blankRem = r.blankRem

Keeps(w, v) == Carries(v) /\ SameTimer(w.r, v.r) /\ v.muted = w.muted

LEMMA KeepsTwice ==
  ASSUME NEW u, NEW v, NEW w, Keeps(u, v), Keeps(v, w)
  PROVE  Keeps(u, w)
BY DEF Keeps, SameTimer

LEMMA DrainedKeeps ==
  ASSUME NEW r, Shape(r)
  PROVE  SameTimer(r, Drained(r))
BY DEF Drained, SameTimer, Shape

LEMMA ShiftKeeps ==
  ASSUME NEW r, Shape(r), NEW n, NEW s
  PROVE  SameTimer(r, Shift(r, n, s))
<1>1. CASE Len(r.delay) = 0
  BY <1>1 DEF Shift, SameTimer
<1>2. CASE Len(r.delay) # 0
  <2>1. PICK d, i : Shift(r, n, s) = [r EXCEPT !.delay = d, !.index = i]
    BY <1>2, Zenon DEF Shift
  <2> QED
    BY <2>1 DEF SameTimer, Shape
<1> QED
  BY <1>1, <1>2

LEMMA FailKeeps ==
  ASSUME NEW w, Carries(w)
  PROVE  Keeps(w, Fail(w))
<1>1. SameTimer(w.r, Drained(w.r))
  BY DrainedKeeps DEF Carries
<1> DEFINE d == Drained(w.r)
           s == [d EXCEPT !.needsReset = TRUE]
<1>2. Fail(w) = [w EXCEPT !.ok = FALSE] \/ Fail(w) = [w EXCEPT !.ok = FALSE, !.r = s]
  BY DEF Fail
<1> HIDE DEF d
<1>3. SameTimer(w.r, s)
  BY <1>1 DEF SameTimer, Shape, d
<1> HIDE DEF s
<1> QED
  BY <1>2, <1>3 DEF Keeps, Carries, SameTimer

LEMMA PlainKeeps ==
  ASSUME NEW in, NEW w, Carries(w)
  PROVE  Keeps(w, Plain(in, w))
<1> DEFINE t == Shift(w.r, in.frames, Unqualified)
           v == [w EXCEPT !.r = t]
<1>1. SameTimer(w.r, t)
  BY ShiftKeeps DEF Carries
<1> HIDE DEF t
<1>2. Keeps(w, v)
  BY <1>1 DEF Keeps, Carries, SameTimer
<1>3. Keeps(v, Fail(v))
  BY <1>2, FailKeeps DEF Keeps
<1>4. \/ Plain(in, w) = Fail(v)
      \/ \E a : Plain(in, w) = [v EXCEPT !.audio = a]
  BY Zenon DEF Plain, t
<1> HIDE DEF v
<1>5. ASSUME NEW a PROVE Keeps(v, [v EXCEPT !.audio = a])
  BY <1>2 DEF Keeps, Carries, SameTimer
<1> QED
  BY <1>2, <1>3, <1>4, <1>5, KeepsTwice

LEMMA RearmKeeps ==
  ASSUME NEW in, NEW w, Carries(w)
  PROVE  Keeps(w, Rearm(in, w))
<1> DEFINE a == Reset(w.r.vad, ~in.broken.rearm)
           r == [w.r EXCEPT !.vad = a]
           v == [w EXCEPT !.r = r]
           d == Drained(r)
           s == [d EXCEPT !.needsReset = FALSE]
<1>1. \/ Rearm(in, w) = w
      \/ Rearm(in, w) = Fail(v)
      \/ Rearm(in, w) = [w EXCEPT !.r = s]
  BY DEF Rearm
<1> HIDE DEF a
<1>2. SameTimer(w.r, r)
  BY DEF Carries, SameTimer, Shape
<1> HIDE DEF r
<1>3. Keeps(w, v)
  BY <1>2 DEF Keeps, Carries, SameTimer
<1>4. Keeps(v, Fail(v))
  BY <1>3, FailKeeps DEF Keeps
<1>5. SameTimer(r, d)
  BY <1>2, DrainedKeeps DEF SameTimer
<1> HIDE DEF d
<1>6. SameTimer(w.r, s)
  BY <1>2, <1>5 DEF SameTimer, Shape
<1> HIDE DEF s
<1>7. Keeps(w, [w EXCEPT !.r = s]) /\ Keeps(w, w)
  BY <1>6 DEF Keeps, Carries, SameTimer
<1> HIDE DEF v
<1> QED
  BY <1>1, <1>3, <1>4, <1>7, KeepsTwice

LEMMA AdmitKeeps ==
  ASSUME NEW c, NEW in, NEW w, Carries(w)
  PROVE  Keeps(w, Admit(c, in, w))
<1> DEFINE raw  == w.r.q.keyed
           base == IF raw THEN w.r ELSE Drained(w.r)
           t(s) == Shift(base, in.frames, s)
<1>1. PICK s, k, x, a :
        Admit(c, in, w) = [w EXCEPT !.keyed = k, !.r = [t(s) EXCEPT !.valid = x],
                                    !.audio = a]
  BY Zenon DEF Admit
<1>2. SameTimer(w.r, base)
  BY DrainedKeeps DEF Carries, SameTimer
<1> HIDE DEF base
<1>3. SameTimer(base, t(s))
  BY <1>2, ShiftKeeps DEF SameTimer
<1> DEFINE y == t(s)
<1> HIDE DEF y
<1>4. SameTimer(w.r, y)
  BY <1>2, <1>3 DEF SameTimer, y
<1> DEFINE z == [y EXCEPT !.valid = x]
<1>5. SameTimer(w.r, z)
  BY <1>4 DEF SameTimer, Shape
<1>6. Admit(c, in, w) = [w EXCEPT !.keyed = k, !.r = z, !.audio = a]
  BY <1>1 DEF y
<1> HIDE DEF z
<1> QED
  BY <1>5, <1>6 DEF Keeps, Carries, SameTimer

LEMMA SpeechKeeps ==
  ASSUME NEW c, NEW in, NEW w, Carries(w)
  PROVE  Keeps(w, Speech(c, in, w))
<1> DEFINE ready == Rearm(in, w)
           heard == Process(ready.r.vad, in.frames, ready.r.q.keyed, in)
           a     == heard.v
           known == [ready EXCEPT !.r.vad = a]
<1>1. \/ Speech(c, in, w) = ready
      \/ Speech(c, in, w) = Fail(ready)
      \/ Speech(c, in, w) = Fail(known)
      \/ Speech(c, in, w) = Admit(c, in, known)
  BY Zenon DEF Speech
<1>2. Keeps(w, ready)
  BY RearmKeeps
<1> HIDE DEF ready, a
<1>3. Keeps(ready, known)
  BY <1>2 DEF Keeps, Carries, SameTimer, Shape
<1> HIDE DEF known
<1>4. /\ Keeps(ready, Fail(ready)) /\ Keeps(known, Fail(known))
      /\ Keeps(known, Admit(c, in, known))
  BY <1>2, <1>3, FailKeeps, AdmitKeeps DEF Keeps
<1> QED
  BY <1>1, <1>2, <1>3, <1>4, KeepsTwice

LEMMA FilterKeeps ==
  ASSUME NEW in, NEW w, Carries(w)
  PROVE  Keeps(w, Filter(in, w))
<1> DEFINE a == w.r.vad.mode # 0
           v == [w EXCEPT !.r.vad.ahead = a]
<1>1. Filter(in, w) = w \/ Filter(in, w) = Fail(v)
  BY DEF Filter
<1> HIDE DEF a
<1>2. Keeps(w, v) /\ Keeps(w, w)
  BY DEF Keeps, Carries, SameTimer, Shape
<1> HIDE DEF v
<1>3. Keeps(v, Fail(v))
  BY <1>2, FailKeeps DEF Keeps
<1> QED
  BY <1>1, <1>2, <1>3, KeepsTwice

\* Whatever comes of it, a callback arms, mutes and advances.
LEMMA RunBlanks ==
  ASSUME ReceptionAssumption, NEW c, NEW in \in Input, NEW r, Timing(r)
  PROVE  LET armed == Arm(in, r)
             w == Run(c, r, in)
         IN  /\ Carries(w)
             /\ SameTimer(Blank(armed, in.frames), w.r)
             /\ w.muted = Muted(armed, in.frames)
<1> DEFINE armed == Arm(in, r)
           muted == Muted(armed, in.frames)
           after == Blank(armed, in.frames)
           first == Qualified(c, r, in)
           next  == IF r.vad.mode = 0 THEN Plain(in, first) ELSE Speech(c, in, first)
<1>1. Timing(after)
  BY ArmTiming, BlankTiming DEF Input
<1>2. PICK q : first = Work([after EXCEPT !.q = q], muted)
  BY Zenon DEF Qualified
<1>3. Run(c, r, in) = Filter(in, next)
  BY DEF Run
<1> HIDE DEF armed, muted, after, first
<1>4. Carries(first) /\ SameTimer(after, first.r) /\ first.muted = muted
  BY <1>1, <1>2 DEF Work, Carries, SameTimer, Shape, Timing
<1>5. Keeps(first, next)
  BY <1>4, PlainKeeps, SpeechKeeps
<1> HIDE DEF next
<1>6. Keeps(next, Filter(in, next))
  BY <1>5, FilterKeeps DEF Keeps
<1>7. Keeps(first, Run(c, r, in))
  BY <1>3, <1>5, <1>6, KeepsTwice
<1> QED
  BY <1>4, <1>7 DEF Keeps, SameTimer, armed, muted, after
-----------------------------------------------------------------------------
(* Blanking is a countdown *)

TimerInv == Timing(rx) /\ "muted" \in DOMAIN out

LEMMA CallbackCounts ==
  ASSUME TimerInv, NEW in \in Inputs, Callback(in)
  PROVE  TimerInv' /\ Countdown!Next
<1> DEFINE armed == Arm(in, rx)
           w == Run(cfg, rx, in)
<1>1. in \in Input /\ in.frames \in Nat
  BY ReceptionAssumption DEF Input
<1>2. /\ Carries(w) /\ SameTimer(Blank(armed, in.frames), w.r)
      /\ w.muted = Muted(armed, in.frames)
  BY <1>1, ReceptionAssumption, RunBlanks DEF TimerInv
<1>3. SameTimer(w.r, rx') /\ out'.muted = w.muted /\ "muted" \in DOMAIN out'
  <2>1. CASE w.ok
    <3>1. PICK told : rx' = [w.r EXCEPT !.told = told]
      BY <2>1, Zenon DEF Callback, Publish
    <3>2. out'.muted = w.muted /\ "muted" \in DOMAIN out'
      BY <2>1 DEF Callback, Publish
    <3> QED
      BY <1>2, <3>1, <3>2 DEF Carries, SameTimer, Shape
  <2>2. CASE ~w.ok
    BY <1>2, <2>2 DEF Callback, Withhold, Carries, SameTimer
  <2> QED
    BY <2>1, <2>2
<1> HIDE DEF w
<1>4. /\ Timing(armed)
      /\ Left(armed) = IF DurationFrames(in.arm) = 0 THEN Left(rx)
                       ELSE DurationFrames(in.arm)
  BY <1>1, ReceptionAssumption, ArmTiming DEF TimerInv
<1> HIDE DEF armed
<1> DEFINE b == Blank(armed, in.frames)
<1>5. /\ Timing(b)
      /\ Muted(armed, in.frames) = IF Left(armed) <= in.frames THEN Left(armed)
                                   ELSE in.frames
      /\ Left(b) = Left(armed) - Muted(armed, in.frames)
  BY <1>1, <1>4, ReceptionAssumption, BlankTiming
<1> HIDE DEF b
<1>6. SameTimer(b, rx') /\ out'.muted = Muted(armed, in.frames)
  BY <1>2, <1>3 DEF SameTimer, b
<1>7. Timing(rx') /\ Left(rx') = Left(b)
  BY <1>5, <1>6 DEF SameTimer, Timing, Left
<1>8. BlankLeft = Left(rx) /\ BlankLeft' = Left(rx')
  BY DEF BlankLeft, Left
<1>9. Countdown!Span(in.frames, DurationFrames(in.arm))
  BY <1>4, <1>5, <1>6, <1>7, <1>8 DEF Countdown!Span
<1>10. /\ in.frames \in {i.frames : i \in Inputs}
       /\ DurationFrames(in.arm) \in {DurationFrames(i.arm) : i \in Inputs}
  OBVIOUS
<1>11. Countdown!Next
  BY <1>9, <1>10, Zenon DEF Countdown!Next
<1> QED
  BY <1>3, <1>7, <1>11 DEF TimerInv

LEMMA UpdateCounts ==
  ASSUME TimerInv, NEW c, Update(c)
  PROVE  TimerInv' /\ Countdown!Next
<1> DEFINE d == UpdateDetector(c, rx)
           v == UpdateSpeech(c, d)
<1>1. Timing(d) /\ Left(d) \in {Left(rx), 0}
  <2>1. d = rx \/ d = [rx EXCEPT !.blankMs = 0, !.blankRem = 0]
    BY DEF UpdateDetector
  <2>2. 0 \in 0 .. FramesPerMs - 1
    BY ReceptionAssumption DEF ReceptionAssumption
  <2> HIDE DEF d
  <2>3. CASE d = rx
    BY <2>3 DEF TimerInv
  <2>4. CASE d = [rx EXCEPT !.blankMs = 0, !.blankRem = 0]
    <3>1. Shape(d) /\ d.blankMs = 0 /\ d.blankRem = 0
      BY <2>4 DEF TimerInv, Timing, Shape
    <3> QED
      BY <2>2, <3>1 DEF Timing, Left
  <2> QED
    BY <2>1, <2>3, <2>4
<1> HIDE DEF d
<1>2. SameTimer(d, v)
  <2> DEFINE e == Drained(d)
  <2>1. SameTimer(d, e)
    BY <1>1, DrainedKeeps DEF Timing
  <2>2. \/ \E a : v = [d EXCEPT !.needsReset = a]
        \/ \E a : v = [e EXCEPT !.vad = a, !.needsReset = FALSE]
    BY Zenon DEF UpdateSpeech, Retained
  <2> HIDE DEF e, v
  <2> QED
    BY <1>1, <2>1, <2>2 DEF SameTimer, Shape, Timing
<1> HIDE DEF v
<1>3. SameTimer(v, rx')
  <2> DEFINE e == Drained(v)
  <2>1. SameTimer(v, e)
    BY <1>2, DrainedKeeps DEF SameTimer
  <2>2. rx' = v \/ \E a : rx' = [e EXCEPT !.delay = a]
    BY Zenon DEF Update, UpdateDelay, v, d
  <2> HIDE DEF e
  <2> QED
    BY <1>2, <2>1, <2>2 DEF SameTimer, Shape
<1>4. Timing(rx') /\ Left(rx') = Left(d)
  BY <1>1, <1>2, <1>3 DEF SameTimer, Timing, Left
<1>5. out'.muted = 0 /\ "muted" \in DOMAIN out'
  <2>1. out' = [out EXCEPT !.result = "none", !.muted = 0, !.audio = {}, !.edges = {}]
    BY DEF Update
  <2> QED
    BY <2>1 DEF TimerInv
<1>6. BlankLeft = Left(rx) /\ BlankLeft' = Left(rx')
  BY DEF BlankLeft, Left
<1> QED
  BY <1>1, <1>4, <1>5, <1>6 DEF TimerInv, Countdown!Next, Countdown!Rest

\* Receiver blanking implements the countdown of samples: whatever the length
\* of a millisecond and the spans callbacks arrive in, a released transmitter
\* mutes the receiver for exactly the armed number of frames.
THEOREM BlankingCounts == Spec => ImplementsCountdown
<1>1. Init => TimerInv /\ Countdown!Init
  <2> SUFFICES ASSUME Init PROVE TimerInv /\ Countdown!Init
    OBVIOUS
  <2>1. /\ rx.blankMs = 0 /\ rx.blankRem = 0 /\ Shape(rx)
        /\ out.muted = 0 /\ "muted" \in DOMAIN out
    BY DEF Init, Shape
  <2>2. 0 \in 0 .. FramesPerMs - 1
    BY ReceptionAssumption DEF ReceptionAssumption
  <2> QED
    BY <2>1, <2>2 DEF TimerInv, Timing, Countdown!Init, BlankLeft
<1>2. TimerInv /\ [Next]_vars => TimerInv' /\ [Countdown!Next]_(Countdown!vars)
  <2> SUFFICES ASSUME TimerInv, [Next]_vars
               PROVE  TimerInv' /\ [Countdown!Next]_(Countdown!vars)
    OBVIOUS
  <2>1. CASE UNCHANGED vars
    BY <2>1 DEF vars, TimerInv, Timing, Shape, BlankLeft, Countdown!vars
  <2>2. CASE Next
    BY <2>2, CallbackCounts, UpdateCounts DEF Next
  <2> QED
    BY <2>1, <2>2
<1> QED
  BY <1>1, <1>2, PTL DEF Spec, ImplementsCountdown, Countdown!Spec
----------------------------------------------------------------------------
(* The inductive invariant *)

RxType ==
  [blankMs : Nat, blankRem : 0 .. FramesPerMs - 1, q : QualificationState,
   vad : VadState, needsReset : BOOLEAN, delay : Seq(Sample), index : Nat,
   valid : Nat, told : [carrier : BOOLEAN, subaudible : BOOLEAN, keyed : BOOLEAN]]

OutType ==
  [result : {"none", "ok", "failed"}, carrier : BOOLEAN, raw : BOOLEAN,
   keyed : BOOLEAN, burst : 0 .. BurstModulus - 1, muted : Nat,
   audio : SUBSET (Sample \ {Silence}),
   edges : SUBSET ({"carrier", "subaudible", "keyed"} \X BOOLEAN)]

PastType ==
  [admitted : 0 .. MaxTxOffFrames, released : 0 .. MaxTxOffFrames,
   steady : 0 .. MaxTxOffFrames, spoken : BOOLEAN, voiced : BOOLEAN, quiet : Nat,
   ended : BOOLEAN, burst : 0 .. BurstModulus - 1,
   view : [carrier : BOOLEAN, subaudible : BOOLEAN, keyed : BOOLEAN]]

\* The delay is the one the policy asks for.
Storage(c, r) ==
  /\ Len(r.delay) = DelayFrames(c)
  /\ r.index \in 0 .. Len(r.delay) /\ r.valid \in 0 .. Len(r.delay)

\* The analysis is the one the policy asks for.
Analysis(c, r) == r.vad.mode = EffectiveMode(c) /\ r.vad.hang = c.hang

\* The newest `valid' samples of the delay were captured in the current burst.
Owned(r) ==
  \A k \in 0 .. Len(r.delay) - 1 :
    k >= Len(r.delay) - r.valid =>
      r.delay[((r.index + k) % Len(r.delay)) + 1] = r.vad.burst

\* What an analysis that needs no reset knows is of the burst that is open.
Heard(r) ==
  /\ ~r.vad.ahead /\ ~r.vad.rearm
  /\ r.vad.latched => r.vad.raw
  /\ r.vad.active => r.vad.latched
  /\ r.vad.age # Never => r.vad.latched
  /\ ~r.vad.raw => r.valid = 0
  /\ Owned(r)

Plainness(r) == \A i \in 1 .. Len(r.delay) : r.delay[i] \in {Silence, Unqualified}

RxGood(c, r) ==
  /\ r \in RxType
  /\ Storage(c, r) /\ Analysis(c, r)
  /\ r.vad.mode = 0 => Plainness(r)
  /\ r.vad.mode # 0 /\ ~r.needsReset => Heard(r)

\* The history of the burst covers what its analysis knows.
Witnessed(r, p) ==
  /\ r.vad.latched => p.spoken
  /\ r.vad.active => p.voiced
  /\ r.vad.age # Never /\ r.vad.age < r.vad.hang => p.quiet <= r.vad.age

\* The delays have waited as long as the signal was there, since the last update.
Counted(c, q, p) ==
  /\ q.admission <= p.admitted /\ q.release <= p.released
  /\ ~q.keyed => q.admission >= Least(Least(p.admitted, p.steady),
                                      QualificationFrames(c.rxOn))
  /\ c.txOff # 0 => q.release >= Least(p.released, p.steady)

Numbered(r, p) ==
  /\ p.burst # 0 => p.burst = r.vad.burst
  /\ r.vad.mode # 0 /\ p.ended => r.needsReset \/ ~r.vad.raw

\* What a finished callback said is what its state says.
Reported ==
  out.result = "ok" =>
    /\ rx.told.carrier = out.carrier /\ rx.told.subaudible = rx.q.subaudible
    /\ rx.told.keyed = out.keyed
    /\ rx.vad.mode # 0 => ~rx.needsReset /\ out.keyed = Admitted(rx.vad)

Safe ==
  /\ cfg \in Policies /\ RxGood(cfg, rx) /\ out \in OutType /\ past \in PastType
  /\ Counted(cfg, rx.q, past)
  /\ rx.vad.mode # 0 /\ ~rx.needsReset => Witnessed(rx, past)
  /\ Numbered(rx, past)
  /\ past.view = rx.told
  /\ Reported
  /\ DelayHoldsOneBurst
-----------------------------------------------------------------------------
(* Arithmetic *)

LEMMA ScaledMonotone ==
  ASSUME NEW a \in Nat, NEW b \in Nat, NEW i \in Nat, a <= b
  PROVE  a * i \in Nat /\ b * i \in Nat /\ a * i <= b * i
<1>1. b * i = a * i + (b - a) * i /\ (b - a) * i \in Nat /\ a * i \in Nat
  BY NonNegativeProduct
<1> QED
  BY <1>1

LEMMA ModUnique ==
  ASSUME NEW L \in Nat \ {0}, NEW p \in Nat, NEW q \in Nat, NEW s \in 0 .. L - 1,
         p = L * q + s
  PROVE  p % L = s
<1> DEFINE d == p \div L
           m == p % L
<1>1. d \in Nat /\ m \in 0 .. L - 1 /\ p = L * d + m
  BY DivMod
<1> HIDE DEF d, m
<1>2. CASE d > q
  <2>1. L * d = L * q + L + (d - q - 1) * L /\ (d - q - 1) * L \in Nat
    <3>1. d - q - 1 \in Nat
      BY <1>1, <1>2
    <3> QED
      BY <1>1, <3>1, NonNegativeProduct
  <2>2. L * q \in Nat
    BY NonNegativeProduct
  <2> QED
    BY <1>1, <2>1, <2>2
<1>3. CASE d < q
  <2>1. L * q = L * d + L + (q - d - 1) * L /\ (q - d - 1) * L \in Nat
    <3>1. q - d - 1 \in Nat
      BY <1>1, <1>3
    <3> QED
      BY <1>1, <3>1, NonNegativeProduct
  <2>2. L * d \in Nat
    BY <1>1, NonNegativeProduct
  <2> QED
    BY <1>1, <2>1, <2>2
<1> QED
  BY <1>1, <1>2, <1>3 DEF m

\* Steps round a ring of L places add up, and L of them are none.
LEMMA Ring ==
  ASSUME NEW L \in Nat \ {0}, NEW a \in Nat, NEW b \in Nat
  PROVE  /\ a % L \in 0 .. L - 1
         /\ ((a % L) + b) % L = (a + b) % L
         /\ (a + L) % L = a % L
<1> DEFINE d == a \div L
           m == a % L
           e == (m + b) \div L
           n == (m + b) % L
<1>1. d \in Nat /\ m \in 0 .. L - 1 /\ a = L * d + m
  BY DivMod
<1>2. m + b \in Nat
  BY <1>1
<1> HIDE DEF d, m
<1>3. e \in Nat /\ n \in 0 .. L - 1 /\ m + b = L * e + n
  BY <1>2, DivMod
<1> HIDE DEF e, n
<1>4. a + b = L * (d + e) + n
  BY <1>1, <1>3
<1>5. (a + b) % L = n
  <2>1. a + b \in Nat /\ d + e \in Nat
    BY <1>1, <1>3
  <2> QED
    BY <1>3, <1>4, <2>1, ModUnique
<1>6. (a + L) % L = m
  <2>1. a + L = L * (d + 1) + m /\ a + L \in Nat /\ d + 1 \in Nat
    BY <1>1
  <2> QED
    BY <1>1, <2>1, ModUnique
<1> QED
  BY <1>1, <1>5, <1>6 DEF m, n

-----------------------------------------------------------------------------
(* Qualification *)

LEMMA DelayLengths ==
  ASSUME ReceptionAssumption, NEW c \in Config
  PROVE  /\ QualificationFrames(c.rxOn) \in 0 .. MaxTxOffFrames
         /\ QualificationFrames(c.txOff) \in 0 .. MaxTxOffFrames
         /\ MaxTxOffFrames \in Nat
<1>1. /\ c.rxOn \in 0 .. MaxIntervals /\ c.txOff \in 0 .. MaxIntervals
      /\ MaxIntervals \in Nat /\ IntervalFrames \in Nat
  BY DEF Config, ReceptionAssumption
<1> QED
  BY <1>1, ScaledMonotone DEF QualificationFrames, MaxTxOffFrames

\* What one callback makes of the two delays.
LEMMA Qualifies ==
  ASSUME ReceptionAssumption, NEW c \in Config, NEW in \in Input, NEW b \in BOOLEAN,
         NEW q \in QualificationState, NEW u,
         u = AdvanceQualification(CallbackQualification(c, in), c.toned, in, b, q)
  PROVE  LET needed == QualificationFrames(c.rxOn)
             waited == IF needed = 0 THEN 0 ELSE Least(q.admission + in.frames, needed)
             open   == u.carrier /\ u.subaudible
         IN  /\ u \in QualificationState
             /\ u.release = IF in.ptt \/ c.txOff = 0 THEN 0
                            ELSE Least(q.release + in.frames, MaxTxOffFrames)
             /\ ~open => ~u.keyed /\ u.admission = 0
             /\ open /\ q.keyed => u.keyed /\ u.admission = q.admission
             /\ open /\ ~q.keyed =>
                  /\ u.admission = waited
                  /\ u.keyed = (waited >= needed
                                /\ u.release >= QualificationFrames(c.txOff))
<1> DEFINE k == CallbackQualification(c, in)
           x == Resolve(k, c.toned, in, b, q)
           y == AdvanceRelease(k, in, x)
<1>1. k.rxOn = c.rxOn /\ k.txOff = c.txOff
  BY DEF CallbackQualification, Qualification
<1>2. in.frames \in Nat \ {0} /\ in.ptt \in BOOLEAN /\ in.carrier \in BOOLEAN
      /\ in.tone \in BOOLEAN /\ c.toned \in BOOLEAN
  BY DEF Input, Config
<1> HIDE DEF k
<1>3. x \in QualificationState /\ x.keyed = q.keyed /\ x.admission = q.admission
      /\ x.release = q.release
  <2>1. PICK s \in BOOLEAN, t \in BOOLEAN : x = [q EXCEPT !.carrier = s, !.subaudible = t]
    BY Zenon DEF Resolve
  <2> HIDE DEF x
  <2> QED
    BY <2>1 DEF QualificationState
<1> HIDE DEF x
<1> DEFINE f == IF in.ptt \/ c.txOff = 0 THEN 0
                ELSE Least(q.release + in.frames, MaxTxOffFrames)
<1>4. f \in 0 .. MaxTxOffFrames
  BY <1>2, DelayLengths DEF Least, QualificationState
<1>5. y = [x EXCEPT !.release = f]
  BY <1>1, <1>3 DEF AdvanceRelease
<1> HIDE DEF y, f
<1>6. y \in QualificationState /\ y.keyed = q.keyed /\ y.admission = q.admission
      /\ y.release = f
  BY <1>3, <1>4, <1>5 DEF QualificationState
<1> DEFINE needed == QualificationFrames(c.rxOn)
           waited == IF needed = 0 THEN 0 ELSE Least(q.admission + in.frames, needed)
<1>7. needed \in 0 .. MaxTxOffFrames /\ waited \in 0 .. MaxTxOffFrames
  BY <1>2, DelayLengths DEF Least, QualificationState
<1>8. u = Qualify(k, in.frames, y)
  BY DEF AdvanceQualification, k, x, y
<1>9. /\ ~(y.carrier /\ y.subaudible) => u = [y EXCEPT !.keyed = FALSE, !.admission = 0]
      /\ (y.carrier /\ y.subaudible) /\ y.keyed => u = y
      /\ (y.carrier /\ y.subaudible) /\ ~y.keyed =>
           u = [y EXCEPT !.admission = waited,
                         !.keyed = waited >= needed
                                   /\ y.release >= QualificationFrames(c.txOff)]
  BY <1>1, <1>6, <1>8 DEF Qualify, ReleaseQualified
<1> HIDE DEF needed, waited
<1>10. 0 \in 0 .. MaxTxOffFrames
  BY DelayLengths
<1> DEFINE over == waited >= needed /\ y.release >= QualificationFrames(c.txOff)
<1>11. over \in BOOLEAN
  OBVIOUS
<1> HIDE DEF over
<1>12. CASE ~(y.carrier /\ y.subaudible)
  BY <1>6, <1>9, <1>10, <1>12 DEF QualificationState, f
<1>13. CASE (y.carrier /\ y.subaudible) /\ y.keyed
  BY <1>6, <1>9, <1>13 DEF QualificationState, f
<1>14. CASE (y.carrier /\ y.subaudible) /\ ~y.keyed
  <2>1. u = [y EXCEPT !.admission = waited, !.keyed = over]
    BY <1>9, <1>14 DEF over
  <2>2. /\ u \in QualificationState /\ u.admission = waited /\ u.keyed = over
        /\ u.release = f /\ u.carrier = y.carrier /\ u.subaudible = y.subaudible
    BY <1>6, <1>7, <1>11, <2>1 DEF QualificationState
  <2> QED
    BY <1>6, <1>14, <2>2 DEF over, waited, needed, f
<1> QED
  BY <1>12, <1>13, <1>14
\* The delays keep up with the history, and the receiver is keyed when both are over.
LEMMA CountsOn ==
  ASSUME ReceptionAssumption, NEW c \in Config, NEW in \in Input, NEW b \in BOOLEAN,
         NEW q \in QualificationState, NEW u,
         u = AdvanceQualification(CallbackQualification(c, in), c.toned, in, b, q),
         NEW p \in PastType, NEW v \in PastType, Counted(c, q, p),
         v.admitted = IF u.carrier /\ u.subaudible
                        THEN Least(p.admitted + in.frames, MaxTxOffFrames) ELSE 0,
         v.released = IF in.ptt THEN 0 ELSE Least(p.released + in.frames, MaxTxOffFrames),
         v.steady = Least(p.steady + in.frames, MaxTxOffFrames)
  PROVE  /\ u \in QualificationState /\ Counted(c, u, v)
         /\ ~q.keyed /\ u.keyed => /\ v.admitted >= QualificationFrames(c.rxOn)
                                   /\ v.released >= QualificationFrames(c.txOff)
         /\ (/\ u.carrier /\ u.subaudible
             /\ Least(v.admitted, v.steady) >= QualificationFrames(c.rxOn)
             /\ Least(v.released, v.steady) >= QualificationFrames(c.txOff)) => u.keyed
<1> DEFINE n      == in.frames
           most   == MaxTxOffFrames
           on     == QualificationFrames(c.rxOn)
           off    == QualificationFrames(c.txOff)
           waited == IF on = 0 THEN 0 ELSE Least(q.admission + n, on)
           open   == u.carrier /\ u.subaudible
<1>1. /\ n \in Nat \ {0} /\ in.ptt \in BOOLEAN /\ most \in Nat
      /\ on \in 0 .. most /\ off \in 0 .. most /\ (c.txOff = 0 => off = 0)
  <2>1. IntervalFrames \in Nat
    BY DEF ReceptionAssumption
  <2>2. 0 * IntervalFrames = 0
    BY <2>1
  <2> QED
    BY <2>2, DelayLengths DEF Input, QualificationFrames
<1>2. /\ u \in QualificationState
      /\ u.release = IF in.ptt \/ c.txOff = 0 THEN 0 ELSE Least(q.release + n, most)
      /\ ~open => ~u.keyed /\ u.admission = 0
      /\ open /\ q.keyed => u.keyed /\ u.admission = q.admission
      /\ open /\ ~q.keyed => /\ u.admission = waited
                             /\ u.keyed = (waited >= on /\ u.release >= off)
  BY Qualifies
<1>3. /\ q.admission \in 0 .. most /\ q.release \in 0 .. most /\ q.keyed \in BOOLEAN
      /\ u.admission \in 0 .. most /\ u.release \in 0 .. most /\ u.keyed \in BOOLEAN
      /\ p.admitted \in 0 .. most /\ p.released \in 0 .. most /\ p.steady \in 0 .. most
  BY <1>2 DEF QualificationState, PastType
<1>4. /\ q.admission <= p.admitted /\ q.release <= p.released
      /\ ~q.keyed => q.admission >= Least(Least(p.admitted, p.steady), on)
      /\ c.txOff # 0 => q.release >= Least(p.released, p.steady)
  BY DEF Counted
<1>5. /\ v.admitted = IF open THEN Least(p.admitted + n, most) ELSE 0
      /\ v.released = IF in.ptt THEN 0 ELSE Least(p.released + n, most)
      /\ v.steady = Least(p.steady + n, most)
  OBVIOUS
<1> HIDE DEF n, most, on, off, open
<1>6. u.release <= v.released /\ (c.txOff # 0 => u.release >= Least(v.released, v.steady))
  BY <1>1, <1>2, <1>3, <1>4, <1>5 DEF Least
<1>7. Least(v.released, v.steady) >= off => u.release >= off
  BY <1>1, <1>3, <1>5, <1>6 DEF Least
<1>8. CASE ~open
  <2>1. u.admission = 0 /\ ~u.keyed /\ v.admitted = 0 /\ v.steady \in Nat
    BY <1>1, <1>2, <1>3, <1>5, <1>8 DEF Least
  <2> QED
    BY <1>1, <1>2, <1>6, <1>8, <2>1 DEF Counted, Least, on, off, open
<1>9. CASE open /\ q.keyed
  <2>1. u.keyed
    BY <1>2, <1>9
  <2>2. u.admission <= v.admitted
    <3>1. u.admission = q.admission
      BY <1>2, <1>9
    <3> QED
      BY <1>1, <1>3, <1>4, <1>5, <1>9, <3>1 DEF Least
  <2> QED
    BY <1>2, <1>6, <1>9, <2>1, <2>2 DEF Counted, on, off
<1>10. CASE open /\ ~q.keyed
  <2>1. /\ u.admission = waited
        /\ u.keyed = (waited >= on /\ u.release >= off)
        /\ v.admitted = Least(p.admitted + n, most)
    BY <1>2, <1>5, <1>10
  <2>2. waited <= v.admitted /\ (waited >= on => v.admitted >= on)
    BY <1>1, <1>3, <1>4, <2>1 DEF Least
  <2>3. waited >= Least(Least(v.admitted, v.steady), on)
    BY <1>1, <1>3, <1>4, <1>5, <1>10, <2>1 DEF Least
  <2>4. Least(v.admitted, v.steady) >= on => waited >= on
    BY <1>1, <1>3, <1>5, <2>1, <2>3 DEF Least
  <2>5. v.released \in 0 .. most
    BY DEF PastType, most
  <2>6. u.release >= off => v.released >= off
    BY <1>1, <1>3, <1>6, <2>5
  <2> HIDE DEF waited
  <2> QED
    BY <1>2, <1>6, <1>7, <2>1, <2>2, <2>3, <2>4, <2>6 DEF Counted, on, off
<1> QED
  BY <1>8, <1>9, <1>10
-----------------------------------------------------------------------------
(* The delay *)

\* What is left alone by the operations on the delay.
Beside(r, t) ==
  t.q = r.q /\ t.told = r.told /\ t.vad = r.vad /\ t.needsReset = r.needsReset

LEMMA DrainedDelay ==
  ASSUME NEW r \in RxType
  PROVE  /\ Drained(r) \in RxType /\ Beside(r, Drained(r))
         /\ Drained(r).delay = r.delay /\ Drained(r).index = 0 /\ Drained(r).valid = 0
BY DEF Drained, RxType, Beside

LEMMA EmptyDelayType ==
  ASSUME ReceptionAssumption, NEW c \in Config
  PROVE  /\ DelayFrames(c) \in Nat /\ EmptyDelay(c) \in Seq(Sample)
         /\ Len(EmptyDelay(c)) = DelayFrames(c)
         /\ \A i \in 1 .. DelayFrames(c) : EmptyDelay(c)[i] = Silence
<1>1. DelayFrames(c) \in Nat
  BY DEF DelayFrames, Config, ReceptionAssumption
<1>2. Silence \in Sample
  BY DEF Silence, Sample, Unqualified, ReceptionAssumption
<1> QED
  BY <1>1, <1>2 DEF EmptyDelay

LEMMA ShiftDelay ==
  ASSUME NEW r \in RxType, r.index \in 0 .. Len(r.delay), NEW n \in Nat, NEW s \in Sample
  PROVE  LET t   == Shift(r, n, s)
             len == Len(r.delay)
         IN  /\ t \in RxType /\ Beside(r, t) /\ t.valid = r.valid
             /\ Len(t.delay) = len /\ t.index \in 0 .. len
             /\ len # 0 => t.index = (r.index + n) % len
             /\ \A i \in 1 .. len :
                  /\ t.delay[i] = IF \E k \in 0 .. n - 1 : (r.index + k) % len = i - 1
                                    THEN s ELSE r.delay[i]
                  /\ t.delay[i] \in {s, r.delay[i]}
<1> DEFINE len == Len(r.delay)
           d   == [i \in 1 .. len |-> IF \E k \in 0 .. n - 1 : (r.index + k) % len = i - 1
                                        THEN s ELSE r.delay[i]]
           x   == (r.index + n) % len
           t   == Shift(r, n, s)
<1>1. r.delay \in Seq(Sample) /\ len \in Nat /\ r.index \in Nat
  BY DEF RxType
<1>2. CASE len = 0
  BY <1>1, <1>2 DEF Shift, Beside
<1>3. CASE len # 0
  <2>1. t = [r EXCEPT !.delay = d, !.index = x]
    BY <1>3 DEF Shift
  <2>2. d \in Seq(Sample) /\ Len(d) = len
    BY <1>1
  <2>3. x \in 0 .. len - 1
    <3> DEFINE y == r.index + n
    <3>1. y \in Nat
      BY <1>1
    <3> HIDE DEF y, len
    <3>2. y % len \in 0 .. len - 1
      BY <1>1, <1>3, <3>1, Ring
    <3> QED
      BY <3>2 DEF y
  <2>4. \A i \in 1 .. len :
          /\ d[i] = IF \E k \in 0 .. n - 1 : (r.index + k) % len = i - 1
                      THEN s ELSE r.delay[i]
          /\ d[i] \in {s, r.delay[i]}
    OBVIOUS
  <2> HIDE DEF d, x, t, len
  <2>5. x \in Nat /\ x \in 0 .. len
    BY <1>1, <2>3
  <2>6. t.delay = d /\ t.index = x
    BY <2>1 DEF RxType
  <2>7. t \in RxType
    BY <2>1, <2>2, <2>5 DEF RxType
  <2>8. Beside(r, t) /\ t.valid = r.valid
    BY <2>1 DEF RxType, Beside
  <2> QED
    BY <1>3, <2>2, <2>4, <2>5, <2>6, <2>7, <2>8 DEF t, x, len
<1> QED
  BY <1>2, <1>3

\* A span of the current burst goes in: what is valid stays the burst's.
LEMMA ShiftOwns ==
  ASSUME NEW r \in RxType, r.index \in 0 .. Len(r.delay), r.valid \in 0 .. Len(r.delay),
         NEW n \in Nat \ {0}, r.vad.burst \in Sample, Owned(r), NEW u \in RxType,
         LET t == Shift(r, n, r.vad.burst)
         IN  u.delay = t.delay /\ u.index = t.index /\ u.vad = t.vad,
         u.valid = Least(r.valid + n, Len(r.delay))
  PROVE  Owned(u) /\ u.valid \in 0 .. Len(r.delay)
<1> DEFINE len == Len(r.delay)
           b   == r.vad.burst
           t   == Shift(r, n, b)
<1>1. len \in Nat /\ r.index \in Nat /\ r.valid \in Nat
  BY DEF RxType
<1>2. u.valid \in 0 .. len
  BY <1>1 DEF Least
<1>3. /\ Len(t.delay) = len /\ t.vad = r.vad /\ (len # 0 => t.index = (r.index + n) % len)
      /\ \A i \in 1 .. len :
           t.delay[i] = IF \E k \in 0 .. n - 1 : (r.index + k) % len = i - 1
                          THEN b ELSE r.delay[i]
  <2>1. /\ Beside(r, t) /\ Len(t.delay) = len /\ (len # 0 => t.index = (r.index + n) % len)
        /\ \A i \in 1 .. len :
             t.delay[i] = IF \E k \in 0 .. n - 1 : (r.index + k) % len = i - 1
                            THEN b ELSE r.delay[i]
    BY ShiftDelay
  <2>2. t.vad = r.vad
    BY <2>1 DEF Beside
  <2> QED
    BY <2>1, <2>2
<1>4. u.delay = t.delay /\ u.index = t.index /\ u.vad = t.vad
  OBVIOUS
<1>5. \A k \in 0 .. len - 1 : k >= len - r.valid =>
        r.delay[((r.index + k) % len) + 1] = b
  BY DEF Owned
<1>6. u.valid = Least(r.valid + n, len) /\ r.valid \in 0 .. len
  OBVIOUS
<1> HIDE DEF len, b, t
<1>7. ASSUME NEW k \in 0 .. len - 1, k >= len - u.valid
      PROVE  u.delay[((u.index + k) % len) + 1] = b
  <2> DEFINE y == r.index + n
             p == (u.index + k) % len
  <2>1. len \in Nat \ {0} /\ y \in Nat /\ k \in Nat /\ y + k \in Nat
    BY <1>1, <1>7
  <2>2. u.index = y % len
    BY <1>3, <1>4, <2>1
  <2> HIDE DEF y
  <2>3. p = (y + k) % len /\ p \in 0 .. len - 1
    <3>1. p = ((y % len) + k) % len
      BY <2>2
    <3>2. ((y % len) + k) % len = (y + k) % len /\ (y + k) % len \in 0 .. len - 1
      BY <2>1, Ring
    <3> QED
      BY <3>1, <3>2
  <2> HIDE DEF p
  <2>4. p + 1 \in 1 .. len /\ (p + 1) - 1 = p
    BY <2>1, <2>3
  <2>5. u.delay[p + 1] = IF \E j \in 0 .. n - 1 : (r.index + j) % len = p
                           THEN b ELSE r.delay[p + 1]
    BY <1>3, <1>4, <2>4
  <2>6. CASE n + k >= len
    <3> DEFINE j == n + k - len
               z == r.index + j
    <3>1. j \in 0 .. n - 1
      BY <1>7, <2>1, <2>6
    <3>2. z \in Nat /\ y + k = z + len
      BY <1>1, <2>1, <3>1 DEF y
    <3>3. z % len = p
      <4> HIDE DEF z
      <4> QED
        BY <2>1, <2>3, <3>2, Ring
    <3> QED
      BY <2>5, <3>1, <3>3 DEF p
  <2>7. CASE n + k < len
    <3>1. n + k \in 0 .. len - 1 /\ n + k >= len - r.valid
      <4>1. n \in Nat /\ r.valid \in Nat /\ u.valid <= r.valid + n /\ u.valid \in Nat
        BY <1>1, <1>2, <1>6 DEF Least
      <4>2. k >= len - u.valid /\ k \in Nat /\ len \in Nat
        BY <1>7, <2>1
      <4> QED
        BY <2>7, <4>1, <4>2
    <3>2. r.delay[((r.index + (n + k)) % len) + 1] = b
      BY <1>5, <3>1
    <3>3. r.index + (n + k) = y + k
      BY <1>1, <2>1 DEF y
    <3> QED
      BY <2>3, <2>5, <3>2, <3>3 DEF p
  <2> QED
    BY <2>1, <2>6, <2>7
<1> QED
  BY <1>2, <1>3, <1>4, <1>7 DEF Owned, len, b

\* What a full delay lets out belongs to the burst.
LEMMA DeliveredOwned ==
  ASSUME NEW r \in RxType, r.index \in 0 .. Len(r.delay), r.valid \in 0 .. Len(r.delay),
         NEW n \in Nat \ {0}, Owned(r)
  PROVE  Delivered(r, n, r.vad.burst, TRUE) \subseteq {Silence, r.vad.burst}
<1> DEFINE len == Len(r.delay)
           b   == r.vad.burst
<1>1. len \in Nat /\ r.index \in Nat /\ r.valid \in Nat
  BY DEF RxType
<1>2. CASE len = 0
  BY <1>2 DEF Delivered
<1>3. CASE len # 0
  <2> SUFFICES ASSUME NEW k \in 0 .. n - 1, r.valid + k >= len
               PROVE  Preceding(r, b, k) = b
    BY <1>3 DEF Delivered
  <2>1. k < len => k \in 0 .. len - 1 /\ k >= len - r.valid
    BY <1>1
  <2> QED
    BY <2>1 DEF Preceding, Owned
<1> QED
  BY <1>2, <1>3
-----------------------------------------------------------------------------
(* The analysis *)

LEMMA ReportType ==
  ASSUME ReceptionAssumption, NEW in \in Input
  PROVE  /\ in.frames \in Nat \ {0}
         /\ in.speech.heard \in BOOLEAN /\ in.speech.active \in BOOLEAN
         /\ in.speech.scored \in BOOLEAN /\ in.speech.lag \in 0 .. MaxLag
         /\ in.speech.active => in.speech.heard
         /\ in.speech.heard => in.speech.scored
         /\ in.broken.rearm \in BOOLEAN
<1>1. /\ in.frames \in Nat \ {0} /\ in.broken.rearm \in BOOLEAN
      /\ in.speech \in SpeechReports /\ MaxLag \in Nat
  BY DEF Input, ReceptionAssumption
<1> DEFINE s == in.speech
<1> HIDE DEF s
<1>2. \/ s \in [heard : {FALSE}, active : {FALSE}, scored : BOOLEAN, lag : {0}]
      \/ s \in [heard : {TRUE}, active : BOOLEAN, scored : {TRUE}, lag : 0 .. MaxLag]
  BY <1>1 DEF SpeechReports, s
<1>3. /\ s.heard \in BOOLEAN /\ s.active \in BOOLEAN /\ s.scored \in BOOLEAN
      /\ s.lag \in 0 .. MaxLag /\ (s.active => s.heard) /\ (s.heard => s.scored)
  <2>1. CASE s \in [heard : {FALSE}, active : {FALSE}, scored : BOOLEAN, lag : {0}]
    <3>1. s.heard \in {FALSE} /\ s.active \in {FALSE} /\ s.scored \in BOOLEAN
          /\ s.lag \in {0}
      BY <2>1
    <3>2. s.heard = FALSE /\ s.active = FALSE
      BY <3>1
    <3>3. s.lag \in 0 .. MaxLag
      BY <1>1, <3>1
    <3> QED
      BY <3>1, <3>2, <3>3, Zenon
  <2>2. CASE s \in [heard : {TRUE}, active : BOOLEAN, scored : {TRUE},
                    lag : 0 .. MaxLag]
    <3>1. s.heard \in {TRUE} /\ s.active \in BOOLEAN /\ s.scored \in {TRUE}
          /\ s.lag \in 0 .. MaxLag
      BY <2>2
    <3>2. s.heard = TRUE /\ s.scored = TRUE
      BY <3>1
    <3> QED
      BY <3>1, <3>2, Zenon
  <2> QED
    BY <1>2, <2>1, <2>2
<1> QED
  BY <1>1, <1>3 DEF s

LEMMA NextBurstType ==
  ASSUME ReceptionAssumption, NEW b \in 0 .. BurstModulus - 1
  PROVE  NextBurst(b) \in 0 .. BurstModulus - 1 /\ NextBurst(b) # b
BY DEF NextBurst, ReceptionAssumption

\* A burst that is over is forgotten, but for its number.
Forgotten(v) == ~v.raw /\ ~v.latched /\ ~v.active /\ v.age = Never

\* Nothing is known of a burst that is not open.
Burst(v) ==
  /\ v.latched => v.raw
  /\ v.active => v.latched
  /\ v.age # Never => v.latched

LEMMA ResetVad ==
  ASSUME ReceptionAssumption, NEW v \in VadState, NEW works \in BOOLEAN
  PROVE  /\ Reset(v, works) \in VadState /\ Forgotten(Reset(v, works))
         /\ Reset(v, works).mode = v.mode /\ Reset(v, works).hang = v.hang
         /\ Reset(v, works).burst = v.burst /\ ~Reset(v, works).ahead
         /\ Reset(v, works).rearm = ~works
<1> DEFINE u == SetRaw(v, FALSE)
           t == Reset(v, works)
<1>1. Never \in Never .. MaxHang
  BY DEF Never, ReceptionAssumption
<1>2. /\ u \in VadState /\ u.mode = v.mode /\ u.hang = v.hang /\ u.burst = v.burst
      /\ ~u.raw /\ ~u.latched /\ ~u.active /\ u.age = Never
  BY <1>1 DEF SetRaw, VadState
<1>3. t = [u EXCEPT !.ahead = FALSE, !.rearm = ~works]
  BY DEF Reset
<1> HIDE DEF u, t
<1>4. t \in VadState
  BY <1>2, <1>3 DEF VadState
<1> QED
  BY <1>2, <1>3, <1>4 DEF VadState, Forgotten, t

\* One span of the analysis that needs no rearm.
Goes(v, in, raw, h) ==
  /\ h.v \in VadState /\ h.v.mode = v.mode /\ h.v.hang = v.hang /\ h.ok \in BOOLEAN
  /\ h.ok =>
       /\ ~h.v.ahead /\ ~h.v.rearm /\ h.v.raw = raw /\ Burst(h.v)
       /\ h.v.burst = IF raw /\ ~v.raw THEN NextBurst(v.burst) ELSE v.burst
       /\ raw => /\ h.v.latched = (v.latched \/ in.speech.heard)
                 /\ h.v.active = IF in.speech.scored THEN in.speech.active ELSE v.active
                 /\ h.v.age = IF in.speech.heard THEN Least(in.speech.lag, v.hang)
                              ELSE Older(v, in.frames)

LEMMA OpenVad ==
  ASSUME ReceptionAssumption, NEW in \in Input, NEW v \in VadState, Burst(v),
         ~v.ahead, ~v.rearm
  PROVE  Goes(v, in, TRUE, ProcessOpen(v, in.frames, in))
<1> DEFINE u == SetRaw(v, TRUE)
           o == Least((IF v.raw THEN u.opened ELSE 0) + in.frames, MaxLag + 1)
           x == [u EXCEPT !.opened = o]
           h == ProcessOpen(v, in.frames, in)
           t == Reset(x, ~in.broken.rearm)
           y == Observe(x, in.frames, in.speech)
<1>1. /\ u \in VadState /\ u.mode = v.mode /\ u.hang = v.hang
      /\ u.burst = IF ~v.raw THEN NextBurst(v.burst) ELSE v.burst
      /\ u.raw /\ u.latched = v.latched /\ u.active = v.active /\ u.age = v.age
      /\ ~u.ahead /\ ~u.rearm
  <2>1. v.burst \in 0 .. BurstModulus - 1
    BY DEF VadState
  <2>2. NextBurst(v.burst) \in 0 .. BurstModulus - 1
    BY <2>1, NextBurstType
  <2> DEFINE n == NextBurst(v.burst)
  <2>3. u = [v EXCEPT !.raw = TRUE, !.burst = IF ~v.raw THEN n ELSE @,
                      !.latched = TRUE /\ @, !.active = TRUE /\ @, !.age = @]
    BY DEF SetRaw
  <2> HIDE DEF n, u
  <2> QED
    BY <2>1, <2>2, <2>3 DEF VadState, n
<1>2. \/ h = Failed(t)
      \/ h = Analysed(y)
  BY DEF ProcessOpen
<1>3. o \in 0 .. MaxLag + 1
  <2>1. u.opened \in 0 .. MaxLag + 1 /\ in.frames \in Nat /\ MaxLag \in Nat
    BY <1>1, ReportType DEF VadState, ReceptionAssumption
  <2> HIDE DEF u
  <2> QED
    BY <2>1 DEF Least
<1> HIDE DEF u, o, h
<1>4. /\ x \in VadState /\ x.mode = v.mode /\ x.hang = v.hang /\ x.burst = u.burst
      /\ x.raw /\ x.latched = v.latched /\ x.active = v.active /\ x.age = v.age
      /\ ~x.ahead /\ ~x.rearm
  BY <1>1, <1>3 DEF VadState
<1> HIDE DEF x
<1>5. CASE h = Failed(t)
  <2>1. t \in VadState /\ t.mode = v.mode /\ t.hang = v.hang
    BY <1>4, ReportType, ResetVad
  <2>2. h.v = t /\ h.ok = FALSE
    BY <1>5 DEF Failed
  <2> QED
    BY <2>1, <2>2 DEF Goes, h
<1>6. CASE h = Analysed(y)
  <2> DEFINE l == x.latched \/ in.speech.heard
             a == IF in.speech.scored THEN in.speech.active ELSE x.active
             g == IF in.speech.heard THEN Least(in.speech.lag, x.hang)
                  ELSE Older(x, in.frames)
  <2>1. y = [x EXCEPT !.latched = l, !.active = a, !.age = g]
    BY DEF Observe
  <2>2. l \in BOOLEAN /\ a \in BOOLEAN /\ g \in Never .. MaxHang
    <3>1. x.hang \in 0 .. MaxHang /\ x.age \in Never .. MaxHang /\ MaxHang \in Nat
          /\ x.latched \in BOOLEAN /\ x.active \in BOOLEAN
      BY <1>4 DEF VadState, ReceptionAssumption
    <3> QED
      BY <3>1, ReportType DEF Older, Least, Never
  <2>3. Older(x, in.frames) = Older(v, in.frames)
    BY <1>4 DEF Older
  <2>4. (a => l) /\ (g # Never => l)
    BY <1>4, <2>3, ReportType DEF Burst, Older
  <2> HIDE DEF l, a, g, y
  <2>5. /\ y \in VadState /\ y.mode = v.mode /\ y.hang = v.hang /\ y.burst = u.burst
        /\ y.raw /\ y.latched = l /\ y.active = a /\ y.age = g /\ ~y.ahead /\ ~y.rearm
    BY <1>4, <2>1, <2>2 DEF VadState
  <2>6. h.v = y /\ h.ok = TRUE
    BY <1>6 DEF Analysed, y
  <2>7. Burst(y)
    BY <2>4, <2>5 DEF Burst
  <2>8. l = (v.latched \/ in.speech.heard)
        /\ a = (IF in.speech.scored THEN in.speech.active ELSE v.active)
        /\ g = (IF in.speech.heard THEN Least(in.speech.lag, v.hang)
                ELSE Older(v, in.frames))
    BY <1>4, <2>3 DEF l, a, g
  <2>9. y.burst = IF ~v.raw THEN NextBurst(v.burst) ELSE v.burst
    BY <1>1, <2>5
  <2> HIDE DEF y
  <2> QED
    BY <2>5, <2>6, <2>7, <2>8, <2>9 DEF Goes, h
<1> QED
  BY <1>2, <1>5, <1>6 DEF h

LEMMA ProcessVad ==
  ASSUME ReceptionAssumption, NEW in \in Input, NEW v \in VadState, Burst(v),
         ~v.ahead, ~v.rearm, NEW raw \in BOOLEAN
  PROVE  Goes(v, in, raw, Process(v, in.frames, raw, in))
<1>1. CASE raw
  BY <1>1, OpenVad DEF Process
<1>2. CASE ~raw
  <2> DEFINE h == Process(v, in.frames, raw, in)
             t == Reset(v, ~in.broken.rearm)
  <2>1. h = ProcessClosed(v, in)
    BY <1>2 DEF Process
  <2>2. CASE v.raw
    <3>1. h.v = t /\ h.ok = ~t.rearm
      BY <2>1, <2>2 DEF ProcessClosed
    <3>2. /\ t \in VadState /\ Forgotten(t) /\ t.mode = v.mode /\ t.hang = v.hang
          /\ t.burst = v.burst /\ ~t.ahead /\ t.rearm \in BOOLEAN
      BY ReportType, ResetVad DEF VadState
    <3>3. t.raw = FALSE /\ raw = FALSE /\ ~t.latched /\ ~t.active /\ t.age = Never
      BY <1>2, <3>2 DEF Forgotten, VadState
    <3> HIDE DEF t, h
    <3>4. Burst(t)
      BY <3>3 DEF Burst
    <3> QED
      BY <3>1, <3>2, <3>3, <3>4 DEF Goes, h
  <2>3. CASE ~v.raw
    <3>1. h.v = v /\ h.ok = TRUE
      BY <2>1, <2>3 DEF ProcessClosed, Analysed
    <3>2. v.raw = FALSE /\ raw = FALSE
      BY <1>2, <2>3 DEF VadState
    <3> HIDE DEF h
    <3> QED
      BY <3>1, <3>2 DEF Goes, h
  <2> QED
    BY <2>2, <2>3
<1> QED
  BY <1>1, <1>2
-----------------------------------------------------------------------------
(* A callback in progress *)

WorkType ==
  [r : RxType, ok : BOOLEAN, muted : Nat, keyed : BOOLEAN, audio : SUBSET Sample]

Stage(c, w) == w \in WorkType /\ Storage(c, w.r) /\ Analysis(c, w.r)

\* The indications are settled before, and what was told changes only after.
Settled(w, v) == v.r.q = w.r.q /\ v.r.told = w.r.told

LEMMA FailStage ==
  ASSUME NEW c, NEW w, Stage(c, w)
  PROVE  /\ Stage(c, Fail(w)) /\ Settled(w, Fail(w)) /\ ~Fail(w).ok
         /\ Fail(w).r.vad = w.r.vad /\ Fail(w).r.delay = w.r.delay
         /\ w.r.vad.mode = 0 => Fail(w).r = w.r
         /\ w.r.vad.mode # 0 => Fail(w).r.needsReset
<1> DEFINE d == Drained(w.r)
           s == [d EXCEPT !.needsReset = TRUE]
           v == Fail(w)
<1>1. w.r \in RxType /\ w \in WorkType
  BY DEF Stage, WorkType
<1>2. CASE w.r.vad.mode = 0
  <2>1. v = [w EXCEPT !.ok = FALSE]
    BY <1>2 DEF Fail
  <2> HIDE DEF v
  <2>2. v \in WorkType /\ v.r = w.r /\ ~v.ok
    BY <1>1, <2>1 DEF WorkType
  <2> QED
    BY <1>2, <2>2 DEF Stage, Settled, Storage, Analysis, v
<1>3. CASE w.r.vad.mode # 0
  <2>1. v = [w EXCEPT !.ok = FALSE, !.r = s]
    BY <1>3 DEF Fail
  <2>2. /\ d \in RxType /\ Beside(w.r, d)
        /\ d.delay = w.r.delay /\ d.index = 0 /\ d.valid = 0
    BY <1>1, DrainedDelay
  <2> HIDE DEF d
  <2>3. /\ s \in RxType /\ s.q = w.r.q /\ s.told = w.r.told /\ s.vad = w.r.vad
        /\ s.needsReset /\ s.delay = w.r.delay /\ s.index = 0 /\ s.valid = 0
    BY <2>2 DEF RxType, Beside
  <2> HIDE DEF s, v
  <2>4. v \in WorkType /\ v.r = s /\ ~v.ok
    BY <1>1, <2>1, <2>3 DEF WorkType
  <2>5. Storage(c, s) /\ Analysis(c, s)
    <3>1. Len(w.r.delay) \in Nat
      BY <1>1 DEF RxType
    <3> QED
      BY <2>3, <3>1 DEF Stage, Storage, Analysis
  <2> QED
    BY <1>3, <2>3, <2>4, <2>5 DEF Stage, Settled, v
<1> QED
  BY <1>2, <1>3

LEMMA PlainStage ==
  ASSUME ReceptionAssumption, NEW c, NEW w, Stage(c, w), w.r.vad.mode = 0, Plainness(w.r),
         NEW in \in Input, w.ok
  PROVE  LET v == Plain(in, w)
         IN  /\ Stage(c, v) /\ Settled(w, v) /\ v.r.vad = w.r.vad /\ Plainness(v.r)
             /\ v.audio \subseteq {Silence, Unqualified} \/ ~v.ok
             /\ v.keyed = w.keyed \/ ~v.ok
<1> DEFINE n == in.frames
           t == Shift(w.r, n, Unqualified)
           m == [w EXCEPT !.r = t]
           a == IF w.r.q.carrier THEN {Preceding(w.r, Unqualified, k) : k \in 0 .. n - 1}
                ELSE {}
           v == Plain(in, w)
           len == Len(w.r.delay)
<1>1. /\ w.r \in RxType /\ w \in WorkType /\ n \in Nat /\ n # 0
      /\ w.r.index \in 0 .. len /\ len \in Nat
      /\ Unqualified \in Sample /\ Silence \in Sample
  BY ReportType DEF Stage, WorkType, Storage, RxType, Sample, Silence, Unqualified,
                    ReceptionAssumption
<1>2. /\ t \in RxType /\ Beside(w.r, t) /\ t.valid = w.r.valid
      /\ Len(t.delay) = len /\ t.index \in 0 .. len
      /\ \A i \in 1 .. len : t.delay[i] \in {Unqualified, w.r.delay[i]}
  <2> DEFINE r == w.r
             u == Unqualified
             x == Shift(r, n, u)
  <2>1. /\ r \in RxType /\ r.index \in 0 .. Len(r.delay) /\ n \in Nat /\ u \in Sample
    BY <1>1
  <2> HIDE DEF n, r, u
  <2>2. /\ x \in RxType /\ Beside(r, x) /\ x.valid = r.valid
        /\ Len(x.delay) = Len(r.delay) /\ x.index \in 0 .. Len(r.delay)
    BY <2>1, ShiftDelay
  <2>3. \A i \in 1 .. Len(r.delay) : x.delay[i] \in {u, r.delay[i]}
    BY <2>1, ShiftDelay
  <2> QED
    BY <2>2, <2>3 DEF r, u
<1>3. Plainness(t)
  BY <1>2 DEF Plainness
<1>4. v = IF in.broken.deemphasis THEN Fail(m) ELSE [m EXCEPT !.audio = a]
  BY DEF Plain
<1>5. a \subseteq {Silence, Unqualified}
  <2>1. ASSUME NEW k \in 0 .. n - 1
        PROVE  Preceding(w.r, Unqualified, k) \in {Silence, Unqualified}
    <3> DEFINE x == w.r.index + k
    <3>1. CASE k < len
      <4>1. x \in Nat /\ len \in Nat \ {0}
        BY <1>1, <3>1
      <4>2. x % len \in 0 .. len - 1
        <5> HIDE DEF x, len
        <5> QED
          BY <4>1, Ring
      <4>3. (x % len) + 1 \in 1 .. len
        <5> DEFINE y == x % len
        <5> HIDE DEF y, len
        <5> QED
          BY <1>1, <4>2 DEF y
      <4>4. w.r.delay[(x % len) + 1] \in {Silence, Unqualified}
        BY <4>3 DEF Plainness
      <4> QED
        BY <3>1, <4>4 DEF Preceding
    <3>2. CASE ~(k < len)
      BY <3>2 DEF Preceding
    <3> QED
      BY <3>1, <3>2
  <2> QED
    BY <2>1
<1> HIDE DEF t, a, v, len, n
<1>6. /\ m \in WorkType /\ m.r = t /\ m.ok /\ m.keyed = w.keyed
  BY <1>1, <1>2 DEF WorkType
<1> HIDE DEF m
<1>7. Stage(c, m) /\ Settled(w, m) /\ m.r.vad = w.r.vad
  BY <1>2, <1>6 DEF Stage, Storage, Analysis, Settled, Beside, len
<1>8. CASE in.broken.deemphasis
  <2>1. v = Fail(m)
    BY <1>4, <1>8
  <2>2. Stage(c, v) /\ Settled(m, v) /\ ~v.ok /\ v.r.vad = m.r.vad /\ v.r = m.r
    BY <1>7, <2>1, FailStage
  <2> QED
    BY <1>3, <1>6, <1>7, <2>2 DEF Settled, v
<1>9. CASE ~in.broken.deemphasis
  <2>1. v = [m EXCEPT !.audio = a]
    BY <1>4, <1>9
  <2>2. v \in WorkType /\ v.r = m.r /\ v.keyed = m.keyed /\ v.audio = a
    BY <1>1, <1>5, <1>6, <2>1 DEF WorkType
  <2> QED
    BY <1>3, <1>5, <1>6, <1>7, <2>2 DEF Stage, Settled, v
<1> QED
  BY <1>8, <1>9
\* The analysis a callback goes on with.
Fresh(r) == IF r.needsReset THEN Reset(r.vad, TRUE) ELSE r.vad

\* After a pending reset, if it succeeds, what is heard goes on from there.
LEMMA RearmStage ==
  ASSUME ReceptionAssumption, NEW c, NEW w, Stage(c, w), w.ok, w.r.vad.mode # 0,
         ~w.r.needsReset => Heard(w.r), NEW in \in Input
  PROVE  LET v == Rearm(in, w)
         IN  /\ Stage(c, v) /\ Settled(w, v) /\ v.r.vad.mode = w.r.vad.mode
             /\ ~v.ok => v.r.needsReset
             /\ v.ok => ~v.r.needsReset /\ Heard(v.r) /\ v.r.vad = Fresh(w.r)
<1> DEFINE a == Reset(w.r.vad, ~in.broken.rearm)
           r == [w.r EXCEPT !.vad = a]
           m == [w EXCEPT !.r = r]
           d == Drained(r)
           s == [d EXCEPT !.needsReset = FALSE]
           v == Rearm(in, w)
<1>1. /\ w.r \in RxType /\ w \in WorkType /\ w.r.vad \in VadState
      /\ in.broken.rearm \in BOOLEAN /\ Len(w.r.delay) \in Nat
  BY ReportType DEF Stage, WorkType, RxType
<1>2. CASE ~w.r.needsReset
  BY <1>2 DEF Rearm, Settled, Fresh
<1>3. CASE w.r.needsReset
  <2>1. v = IF a.rearm THEN Fail(m) ELSE [w EXCEPT !.r = s]
    BY <1>3 DEF Rearm
  <2>2. /\ a \in VadState /\ Forgotten(a) /\ a.mode = w.r.vad.mode
        /\ a.hang = w.r.vad.hang /\ ~a.ahead /\ a.rearm = in.broken.rearm
    BY <1>1, ResetVad
  <2>3. ~in.broken.rearm => a = Reset(w.r.vad, TRUE)
    BY <1>1
  <2> HIDE DEF a, v
  <2>4. /\ r \in RxType /\ r.vad = a /\ r.q = w.r.q /\ r.told = w.r.told
        /\ r.delay = w.r.delay /\ r.index = w.r.index /\ r.valid = w.r.valid
    BY <1>1, <2>2 DEF RxType
  <2> HIDE DEF r
  <2>5. m \in WorkType /\ m.r = r
    BY <1>1, <2>4 DEF WorkType
  <2> HIDE DEF m
  <2>6. Stage(c, m) /\ Settled(w, m)
    BY <2>2, <2>4, <2>5 DEF Stage, Storage, Analysis, Settled
  <2>7. CASE a.rearm
    <3>1. /\ Stage(c, v) /\ Settled(m, v) /\ ~v.ok /\ v.r.vad = m.r.vad
          /\ v.r.needsReset
      BY <2>1, <2>2, <2>4, <2>5, <2>6, <2>7, FailStage
    <3> QED
      BY <2>2, <2>4, <2>5, <2>6, <3>1 DEF Settled, v
  <2>8. CASE ~a.rearm
    <3>1. v = [w EXCEPT !.r = s]
      BY <2>1, <2>8
    <3>2. /\ d \in RxType /\ Beside(r, d) /\ d.delay = r.delay
          /\ d.index = 0 /\ d.valid = 0
      BY <2>4, DrainedDelay
    <3> HIDE DEF d
    <3>3. /\ s \in RxType /\ s.q = w.r.q /\ s.told = w.r.told /\ s.vad = a
          /\ ~s.needsReset /\ s.delay = w.r.delay /\ s.index = 0 /\ s.valid = 0
      BY <2>4, <3>2 DEF RxType, Beside
    <3> HIDE DEF s
    <3>4. v \in WorkType /\ v.r = s /\ v.ok
      BY <1>1, <3>1, <3>3 DEF WorkType
    <3>5. Stage(c, v)
      BY <1>1, <2>2, <3>3, <3>4 DEF Stage, Storage, Analysis
    <3>6. Heard(s)
      BY <1>1, <2>2, <2>8, <3>3 DEF Heard, Forgotten, Owned
    <3>7. a = Fresh(w.r)
      BY <1>1, <1>3, <2>2, <2>3, <2>8 DEF Fresh
    <3> QED
      BY <1>3, <2>2, <3>3, <3>4, <3>5, <3>6, <3>7 DEF Settled, v
  <2> QED
    BY <2>7, <2>8
<1> QED
  BY <1>2, <1>3

\* The decision gates what the delay lets out, and the delay goes on.
LEMMA AdmitStage ==
  ASSUME ReceptionAssumption, NEW c \in Config, c.externalDelay => c.squelchDelay = 0,
         NEW w, Stage(c, w), w.ok, w.r.vad.mode # 0, ~w.r.needsReset,
         w.r.vad.raw = w.r.q.keyed, ~w.r.vad.ahead, ~w.r.vad.rearm, Burst(w.r.vad),
         w.r.q.keyed => Owned(w.r), NEW in \in Input
  PROVE  LET v == Admit(c, in, w)
         IN  /\ Stage(c, v) /\ Settled(w, v) /\ v.ok /\ v.r.vad = w.r.vad
             /\ ~v.r.needsReset /\ Heard(v.r)
             /\ v.keyed = Admitted(v.r.vad)
             /\ v.audio \subseteq {Silence, v.r.vad.burst}
<1> DEFINE n    == in.frames
           raw  == w.r.q.keyed
           b    == w.r.vad.burst
           s    == IF raw THEN b ELSE Silence
           base == IF raw THEN w.r ELSE Drained(w.r)
           key  == raw /\ Admitted(w.r.vad)
           len  == Len(base.delay)
           t    == Shift(base, n, s)
           x    == IF raw THEN Least(t.valid + n, len) ELSE t.valid
           y    == [t EXCEPT !.valid = x]
           a    == IF c.externalDelay \/ key THEN Delivered(base, n, s, raw) ELSE {}
           v    == Admit(c, in, w)
<1>1. /\ w.r \in RxType /\ w \in WorkType /\ n \in Nat \ {0} /\ raw \in BOOLEAN
      /\ b \in Sample /\ Silence \in Sample /\ s \in Sample
      /\ w.r.index \in 0 .. Len(w.r.delay) /\ w.r.valid \in 0 .. Len(w.r.delay)
      /\ Len(w.r.delay) \in Nat
  <2>1. w.r.vad.burst \in 0 .. BurstModulus - 1 /\ w.r.q.keyed \in BOOLEAN
        /\ w.r \in RxType /\ w \in WorkType
    BY DEF Stage, WorkType, RxType, VadState, QualificationState
  <2> QED
    BY <2>1, ReportType DEF Stage, Storage, RxType, Sample, Silence, Unqualified,
                            ReceptionAssumption
<1>2. v = [w EXCEPT !.keyed = key, !.r = y, !.audio = a]
  BY <1>1 DEF Admit
<1>3. /\ base \in RxType /\ Beside(w.r, base) /\ base.delay = w.r.delay
      /\ base.index \in 0 .. len /\ base.valid \in 0 .. len
      /\ raw => base = w.r
      /\ ~raw => base.valid = 0
  <2>1. CASE raw
    BY <1>1, <2>1 DEF Beside
  <2>2. CASE ~raw
    BY <1>1, <2>2, DrainedDelay
  <2> QED
    BY <2>1, <2>2
<1> HIDE DEF base
<1>4. /\ t \in RxType /\ Beside(base, t) /\ t.valid = base.valid
      /\ Len(t.delay) = len /\ t.index \in 0 .. len
  <2>1. /\ s \in Sample /\ n \in Nat /\ base \in RxType
        /\ base.index \in 0 .. Len(base.delay)
    BY <1>1, <1>3
  <2> HIDE DEF s, n
  <2> QED
    BY <2>1, ShiftDelay
<1>5. x \in 0 .. len /\ x \in Nat /\ (raw => x = Least(base.valid + n, len))
      /\ (~raw => x = 0)
  BY <1>1, <1>3, <1>4 DEF Least
<1> HIDE DEF x
<1>6. /\ y \in RxType /\ Beside(w.r, y) /\ y.valid = x /\ y.delay = t.delay
      /\ y.index = t.index
  <2> DEFINE z == t
  <2>1. y = [z EXCEPT !.valid = x]
    OBVIOUS
  <2> HIDE DEF t, y
  <2> QED
    BY <1>3, <1>4, <1>5, <2>1 DEF RxType, Beside, z
<1>7. a \subseteq {Silence, b} /\ a \subseteq Sample
  <2>1. CASE raw
    <3>1. Delivered(base, n, s, raw) \subseteq {Silence, b}
      <4>1. Owned(base) /\ base.vad.burst = b /\ s = b /\ raw = TRUE
        BY <1>1, <1>3, <2>1
      <4>2. Delivered(base, n, base.vad.burst, TRUE) \subseteq {Silence, base.vad.burst}
        BY <1>1, <1>3, <4>1, DeliveredOwned
      <4> QED
        BY <4>1, <4>2
    <3> QED
      BY <1>1, <3>1
  <2>2. CASE ~raw
    <3>1. CASE c.externalDelay
      <4>1. len = 0
        BY <1>3, <3>1 DEF Stage, Storage, DelayFrames
      <4>2. Delivered(base, n, s, raw) = {Silence}
        BY <2>2, <4>1 DEF Delivered
      <4> QED
        BY <1>1, <4>2
    <3>2. CASE ~c.externalDelay
      BY <2>2, <3>2
    <3> QED
      BY <3>1, <3>2
  <2> QED
    BY <2>1, <2>2
<1>8. key \in BOOLEAN /\ key = Admitted(w.r.vad)
  BY <1>1 DEF Admitted
<1> HIDE DEF y, a, key, v
<1>9. v \in WorkType /\ v.r = y /\ v.keyed = key /\ v.audio = a /\ v.ok
  BY <1>1, <1>2, <1>6, <1>7, <1>8 DEF WorkType
<1>10. Stage(c, v)
  BY <1>3, <1>4, <1>5, <1>6, <1>9 DEF Stage, Storage, Analysis, Beside
<1>11. Heard(y)
  <2>1. Owned(y)
    <3>1. CASE raw
      <4>1. Owned(base) /\ s = base.vad.burst /\ base.vad.burst = b
        BY <1>1, <1>3, <3>1
      <4>2. y.vad = t.vad
        BY <1>3, <1>4, <1>6 DEF Beside
      <4>3. y.valid = Least(base.valid + n, Len(base.delay))
        BY <1>5, <1>6, <3>1
      <4> QED
        BY <1>1, <1>3, <1>6, <4>1, <4>2, <4>3, ShiftOwns
    <3>2. CASE ~raw
      BY <1>4, <1>5, <1>6, <3>2 DEF Owned
    <3> QED
      BY <3>1, <3>2
  <2> QED
    BY <1>5, <1>6, <2>1 DEF Heard, Burst, Beside
<1> QED
  BY <1>6, <1>7, <1>8, <1>9, <1>10, <1>11 DEF Settled, Beside, v
\* A callback that succeeds with speech admission.
Spoke(a, in, v) ==
  /\ ~v.r.needsReset /\ Heard(v.r)
  /\ Goes(a, in, v.r.q.keyed, [v |-> v.r.vad, ok |-> TRUE])
  /\ v.keyed = Admitted(v.r.vad)
  /\ v.audio \subseteq {Silence, v.r.vad.burst}

LEMMA SpeechStage ==
  ASSUME ReceptionAssumption, NEW c \in Config, c.externalDelay => c.squelchDelay = 0,
         NEW w, Stage(c, w), w.ok, w.r.vad.mode # 0, ~w.r.needsReset => Heard(w.r),
         NEW in \in Input
  PROVE  LET v == Speech(c, in, w)
         IN  /\ Stage(c, v) /\ Settled(w, v) /\ v.r.vad.mode = w.r.vad.mode
             /\ ~v.ok => v.r.needsReset
             /\ v.ok => Spoke(Fresh(w.r), in, v)
<1> DEFINE ready == Rearm(in, w)
           raw   == ready.r.q.keyed
           heard == Process(ready.r.vad, in.frames, raw, in)
           a     == heard.v
           s     == [ready.r EXCEPT !.vad = a]
           known == [ready EXCEPT !.r = s]
           v     == Speech(c, in, w)
<1>1. v = IF ~ready.ok THEN ready
          ELSE IF in.broken.deemphasis THEN Fail(ready)
          ELSE IF ~heard.ok THEN Fail(known)
          ELSE Admit(c, in, known)
  BY DEF Speech
<1>2. /\ Stage(c, ready) /\ Settled(w, ready) /\ ready.r.vad.mode = w.r.vad.mode
      /\ ~ready.ok => ready.r.needsReset
      /\ ready.ok => ~ready.r.needsReset /\ Heard(ready.r) /\ ready.r.vad = Fresh(w.r)
  BY RearmStage
<1> HIDE DEF ready, v
<1>3. CASE ~ready.ok
  BY <1>1, <1>2, <1>3 DEF v
<1>4. CASE ready.ok
  <2>1. /\ ready.r \in RxType /\ ready \in WorkType /\ ready.r.vad \in VadState
        /\ raw \in BOOLEAN /\ Len(ready.r.delay) \in Nat
    BY <1>2 DEF Stage, WorkType, RxType, QualificationState
  <2>2. Burst(ready.r.vad) /\ ~ready.r.vad.ahead /\ ~ready.r.vad.rearm
    BY <1>2, <1>4 DEF Heard, Burst
  <2>3. Goes(ready.r.vad, in, raw, heard)
    BY <2>1, <2>2, ProcessVad
  <2> HIDE DEF heard, raw
  <2>4. a \in VadState /\ a.mode = ready.r.vad.mode /\ a.hang = ready.r.vad.hang
    BY <2>3 DEF Goes
  <2> HIDE DEF a
  <2>5. /\ s \in RxType /\ s.vad = a /\ s.q = ready.r.q /\ s.told = ready.r.told
        /\ s.delay = ready.r.delay /\ s.index = ready.r.index /\ s.valid = ready.r.valid
        /\ s.needsReset = ready.r.needsReset
    BY <2>1, <2>4 DEF RxType
  <2> HIDE DEF s
  <2>6. known \in WorkType /\ known.r = s /\ known.ok
    BY <1>4, <2>1, <2>5 DEF WorkType
  <2> HIDE DEF known
  <2>7. Stage(c, known) /\ Settled(ready, known)
    BY <1>2, <2>4, <2>5, <2>6 DEF Stage, Storage, Analysis, Settled
  <2>8. CASE in.broken.deemphasis
    <3>1. v = Fail(ready)
      BY <1>1, <1>4, <2>8
    <3>2. /\ Stage(c, v) /\ Settled(ready, v) /\ ~v.ok /\ v.r.vad = ready.r.vad
          /\ v.r.needsReset
      BY <1>2, <3>1, FailStage
    <3> QED
      BY <1>2, <3>2 DEF Settled, v
  <2>9. CASE ~in.broken.deemphasis /\ ~heard.ok
    <3>1. v = Fail(known)
      BY <1>1, <1>4, <2>9
    <3>2. /\ Stage(c, v) /\ Settled(known, v) /\ ~v.ok /\ v.r.vad = known.r.vad
          /\ v.r.needsReset
      BY <1>2, <2>4, <2>5, <2>6, <2>7, <3>1, FailStage
    <3> QED
      BY <1>2, <2>4, <2>5, <2>6, <2>7, <3>2 DEF Settled, v
  <2>10. CASE ~in.broken.deemphasis /\ heard.ok
    <3>1. v = Admit(c, in, known)
      BY <1>1, <1>4, <2>10
    <3>2. /\ ~a.ahead /\ ~a.rearm /\ a.raw = raw /\ Burst(a)
          /\ a.burst = IF raw /\ ~ready.r.vad.raw THEN NextBurst(ready.r.vad.burst)
                       ELSE ready.r.vad.burst
      BY <2>3, <2>10 DEF Goes, a
    <3>3. known.r.q.keyed => Owned(known.r)
      <4>1. CASE ready.r.vad.raw
        <5>1. a.burst = ready.r.vad.burst
          BY <3>2, <4>1
        <5> QED
          BY <1>2, <1>4, <2>5, <2>6, <5>1 DEF Heard, Owned
      <4>2. CASE ~ready.r.vad.raw
        <5>1. s.valid = 0 /\ Len(s.delay) \in Nat
          BY <1>2, <1>4, <2>1, <2>5, <4>2 DEF Heard
        <5> QED
          BY <2>6, <5>1 DEF Owned
      <4> QED
        BY <4>1, <4>2
    <3>4. /\ known.r.vad.raw = known.r.q.keyed /\ known.r.vad.mode # 0
          /\ ~known.r.vad.ahead /\ ~known.r.vad.rearm /\ Burst(known.r.vad)
          /\ ~known.r.needsReset
      BY <1>2, <1>4, <2>4, <2>5, <2>6, <3>2 DEF raw
    <3>5. /\ Stage(c, v) /\ Settled(known, v) /\ v.ok /\ v.r.vad = known.r.vad
          /\ ~v.r.needsReset /\ Heard(v.r)
          /\ v.keyed = Admitted(v.r.vad)
          /\ v.audio \subseteq {Silence, v.r.vad.burst}
      BY <2>6, <2>7, <3>1, <3>3, <3>4, AdmitStage
    <3>6. v.r.vad = a /\ v.r.q.keyed = raw
      BY <2>5, <2>6, <2>7, <3>5 DEF Settled, raw
    <3>7. Goes(ready.r.vad, in, raw, [v |-> a, ok |-> TRUE])
      <4> DEFINE h == [v |-> a, ok |-> TRUE]
      <4>1. h.v = a /\ h.ok = TRUE
        OBVIOUS
      <4> HIDE DEF h
      <4> QED
        BY <2>3, <2>10, <4>1 DEF Goes, a, h
    <3>8. Settled(w, v) /\ v.r.vad.mode = w.r.vad.mode
      BY <1>2, <2>4, <2>7, <3>5, <3>6 DEF Settled
    <3>9. Spoke(Fresh(w.r), in, v)
      BY <1>2, <1>4, <3>5, <3>6, <3>7 DEF Spoke
    <3> QED
      BY <3>5, <3>8, <3>9 DEF v
  <2> QED
    BY <2>8, <2>9, <2>10
<1> QED
  BY <1>3, <1>4

LEMMA FilterStage ==
  ASSUME NEW c, NEW w, Stage(c, w), NEW in
  PROVE  LET v == Filter(in, w)
         IN  /\ Stage(c, v) /\ Settled(w, v) /\ v.r.vad.mode = w.r.vad.mode
             /\ v = w \/ (~v.ok /\ v.r.delay = w.r.delay)
             /\ v = w \/ w.r.vad.mode = 0 \/ v.r.needsReset
<1> DEFINE b == w.r.vad.mode # 0
           a == [w.r.vad EXCEPT !.ahead = b]
           s == [w.r EXCEPT !.vad = a]
           m == [w EXCEPT !.r = s]
           v == Filter(in, w)
<1>1. v = IF w.ok /\ in.broken.filter THEN Fail(m) ELSE w
  BY DEF Filter
<1>2. CASE ~(w.ok /\ in.broken.filter)
  BY <1>1, <1>2 DEF Settled
<1>3. CASE w.ok /\ in.broken.filter
  <2>1. /\ w.r \in RxType /\ w \in WorkType /\ w.r.vad \in VadState /\ b \in BOOLEAN
    BY DEF Stage, WorkType, RxType
  <2> HIDE DEF b
  <2>2. a \in VadState /\ a.mode = w.r.vad.mode /\ a.hang = w.r.vad.hang
    BY <2>1 DEF VadState
  <2> HIDE DEF a
  <2>3. /\ s \in RxType /\ s.vad = a /\ s.q = w.r.q /\ s.told = w.r.told
        /\ s.delay = w.r.delay /\ s.index = w.r.index /\ s.valid = w.r.valid
    BY <2>1, <2>2 DEF RxType
  <2> HIDE DEF s
  <2>4. m \in WorkType /\ m.r = s
    BY <2>1, <2>3 DEF WorkType
  <2> HIDE DEF m
  <2>5. Stage(c, m) /\ Settled(w, m)
    BY <2>2, <2>3, <2>4 DEF Stage, Storage, Analysis, Settled
  <2>6. /\ Stage(c, Fail(m)) /\ Settled(m, Fail(m)) /\ ~Fail(m).ok
        /\ Fail(m).r.vad = m.r.vad /\ Fail(m).r.delay = m.r.delay
        /\ m.r.vad.mode = 0 => Fail(m).r = m.r
        /\ m.r.vad.mode # 0 => Fail(m).r.needsReset
    BY <2>5, FailStage
  <2>7. v = Fail(m)
    BY <1>1, <1>3
  <2> HIDE DEF v
  <2> QED
    BY <2>2, <2>3, <2>4, <2>5, <2>6, <2>7 DEF Settled, v
<1> QED
  BY <1>2, <1>3
\* What a callback leaves behind, whichever provider fails.
Ran(c, in, r, w) ==
  /\ w \in WorkType /\ RxGood(c, w.r) /\ w.r.told = r.told
  /\ \E b \in BOOLEAN :
       w.r.q = AdvanceQualification(CallbackQualification(c, in), c.toned, in, b, r.q)
  /\ w.r.vad.mode = r.vad.mode
  /\ r.vad.mode = 0 /\ w.ok =>
       w.r.vad = r.vad /\ w.audio \subseteq {Silence, Unqualified}
  /\ r.vad.mode # 0 /\ ~w.ok => w.r.needsReset
  /\ r.vad.mode # 0 /\ w.ok => Spoke(Fresh(r), in, w)

LEMMA RunStage ==
  ASSUME ReceptionAssumption, NEW c, ValidPolicy(c), NEW r, RxGood(c, r), NEW in \in Input
  PROVE  Ran(c, in, r, Run(c, r, in))
<1> DEFINE armed == Arm(in, r)
           muted == Muted(armed, in.frames)
           after == Blank(armed, in.frames)
           b     == muted # 0
           q     == AdvanceQualification(CallbackQualification(c, in), c.toned, in, b, r.q)
           s     == [after EXCEPT !.q = q]
           first == Qualified(c, r, in)
           next  == IF r.vad.mode = 0 THEN Plain(in, first) ELSE Speech(c, in, first)
           w     == Run(c, r, in)
<1>1. /\ c \in Config /\ (c.externalDelay => c.squelchDelay = 0)
      /\ r \in RxType /\ r.q \in QualificationState /\ in.frames \in Nat /\ in.arm \in Nat
  BY DEF ValidPolicy, RxGood, RxType, Input
<1>2. Timing(r)
  BY <1>1 DEF Timing, Shape, RxType
<1>3. Timing(armed) /\ Left(armed) \in Nat
  BY <1>1, <1>2, ArmTiming, LeftType
<1>4. Timing(after) /\ muted \in Nat
  <2> HIDE DEF armed
  <2>1. /\ Timing(after)
        /\ muted = IF Left(armed) <= in.frames THEN Left(armed) ELSE in.frames
    BY <1>1, <1>3, BlankTiming
  <2> QED
    BY <1>1, <1>3, <2>1
<1>5. armed \in RxType /\ \A f \in {"q", "vad", "needsReset", "delay", "index", "valid",
                                    "told"} : armed[f] = r[f]
  <2>1. armed = r \/ armed = [r EXCEPT !.blankMs = in.arm, !.blankRem = 0]
    BY DEF Arm
  <2>2. 0 \in 0 .. FramesPerMs - 1
    BY DEF ReceptionAssumption
  <2> HIDE DEF armed
  <2> QED
    BY <1>1, <2>1, <2>2 DEF RxType
<1> HIDE DEF armed, muted
<1>6. after \in RxType /\ \A f \in {"q", "vad", "needsReset", "delay", "index", "valid",
                                    "told"} : after[f] = r[f]
  <2>1. \/ after = armed
        \/ \E x, y : after = [armed EXCEPT !.blankMs = x, !.blankRem = y]
    BY Zenon DEF Blank
  <2>2. after.blankMs \in Nat /\ after.blankRem \in 0 .. FramesPerMs - 1
    BY <1>4 DEF Timing
  <2> HIDE DEF after
  <2>3. CASE after = armed
    BY <1>5, <2>3
  <2>4. ASSUME NEW x, NEW y, after = [armed EXCEPT !.blankMs = x, !.blankRem = y]
        PROVE  after \in RxType /\ \A f \in {"q", "vad", "needsReset", "delay", "index",
                                             "valid", "told"} : after[f] = r[f]
    <3>1. x \in Nat /\ y \in 0 .. FramesPerMs - 1
      BY <1>5, <2>2, <2>4 DEF RxType
    <3> QED
      BY <1>5, <2>4, <3>1 DEF RxType
  <2> QED
    BY <2>1, <2>3, <2>4
<1> HIDE DEF after
<1>7. q \in QualificationState
  <2>1. b \in BOOLEAN
    OBVIOUS
  <2> HIDE DEF b
  <2> QED
    BY <1>1, <2>1, Qualifies
<1>8. b \in BOOLEAN /\ first = Work(s, muted)
  BY DEF Qualified, s, q, b, muted, after, armed
<1> HIDE DEF b, q
<1>9. /\ s \in RxType /\ s.q = q /\ s.vad = r.vad /\ s.needsReset = r.needsReset
      /\ s.delay = r.delay /\ s.index = r.index /\ s.valid = r.valid /\ s.told = r.told
  BY <1>6, <1>7 DEF RxType
<1> HIDE DEF s, first
<1>10. first \in WorkType /\ first.r = s /\ first.ok
  BY <1>4, <1>7, <1>8, <1>9 DEF Work, WorkType, QualificationState
<1>11. Stage(c, first)
  BY <1>9, <1>10 DEF RxGood, Stage, Storage, Analysis
<1>12. w = Filter(in, next)
  BY DEF Run, first
<1> HIDE DEF w
<1>13. CASE r.vad.mode = 0
  <2>1. next = Plain(in, first)
    BY <1>13
  <2>2. Plainness(first.r) /\ first.r.vad.mode = 0
    BY <1>9, <1>10, <1>13 DEF RxGood, Plainness
  <2> HIDE DEF next
  <2>3. /\ Stage(c, next) /\ Settled(first, next) /\ next.r.vad = first.r.vad
        /\ Plainness(next.r)
        /\ next.audio \subseteq {Silence, Unqualified} \/ ~next.ok
    BY <1>10, <1>11, <2>1, <2>2, PlainStage
  <2>4. /\ Stage(c, w) /\ Settled(next, w) /\ w.r.vad.mode = next.r.vad.mode
        /\ w = next \/ (~w.ok /\ w.r.delay = next.r.delay)
    BY <1>12, <2>3, FilterStage
  <2>5. Plainness(w.r)
    BY <2>3, <2>4 DEF Plainness
  <2>6. w \in WorkType /\ w.r \in RxType /\ RxGood(c, w.r)
    BY <1>9, <1>10, <1>13, <2>3, <2>4, <2>5 DEF RxGood, Stage, WorkType
  <2>7. w.r.told = r.told /\ w.r.q = q
    BY <1>9, <1>10, <2>3, <2>4 DEF Settled
  <2>8. w.ok => w.r.vad = r.vad /\ w.audio \subseteq {Silence, Unqualified}
    BY <1>9, <1>10, <2>3, <2>4
  <2> QED
    BY <1>8, <1>9, <1>10, <1>13, <2>3, <2>4, <2>6, <2>7, <2>8 DEF Ran, q, w
<1>14. CASE r.vad.mode # 0
  <2>1. next = Speech(c, in, first)
    BY <1>14
  <2>2. /\ ~first.r.needsReset => Heard(first.r)
        /\ first.r.vad.mode # 0
    BY <1>9, <1>10, <1>14 DEF RxGood, Heard, Owned
  <2> HIDE DEF next
  <2>3. /\ Stage(c, next) /\ Settled(first, next) /\ next.r.vad.mode = first.r.vad.mode
        /\ ~next.ok => next.r.needsReset
        /\ next.ok => Spoke(Fresh(first.r), in, next)
    BY <1>1, <1>10, <1>11, <2>1, <2>2, SpeechStage
  <2>4. Fresh(first.r) = Fresh(r)
    BY <1>9, <1>10 DEF Fresh
  <2>5. /\ Stage(c, w) /\ Settled(next, w) /\ w.r.vad.mode = next.r.vad.mode
        /\ w = next \/ ~w.ok
        /\ w = next \/ w.r.needsReset
    BY <1>12, <2>2, <2>3, FilterStage
  <2>6. (~w.ok => w.r.needsReset) /\ (w.ok => Spoke(Fresh(r), in, w))
    BY <2>3, <2>4, <2>5
  <2>7. w.r.needsReset \/ Heard(w.r)
    BY <2>6 DEF Spoke
  <2>8. w \in WorkType /\ w.r \in RxType /\ RxGood(c, w.r)
    BY <2>2, <2>3, <2>5, <2>7 DEF RxGood, Stage, WorkType
  <2>9. w.r.told = r.told /\ w.r.q = q
    BY <1>9, <1>10, <2>3, <2>5 DEF Settled
  <2> QED
    BY <1>8, <1>9, <1>10, <1>14, <2>3, <2>5, <2>6, <2>8, <2>9 DEF Ran, q, w
<1> QED
  BY <1>13, <1>14 DEF w
-----------------------------------------------------------------------------
(* A callback *)

View == {"carrier", "subaudible", "keyed"}
ViewType == [carrier : BOOLEAN, subaudible : BOOLEAN, keyed : BOOLEAN]

Applied(edges, told) ==
  [k \in View |-> IF \E v \in BOOLEAN : <<k, v>> \in edges
                    THEN <<k, TRUE>> \in edges ELSE told[k]]

\* The edges a callback pushes turn what was told into what it says now.
LEMMA EdgesApply ==
  ASSUME NEW told \in ViewType, NEW now \in ViewType, NEW edges,
         edges = {<<k, now[k]>> : k \in {j \in View : now[j] # told[j]}}
  PROVE  edges \subseteq View \X BOOLEAN /\ Applied(edges, told) = now
<1>1. \A k \in View : now[k] \in BOOLEAN /\ told[k] \in BOOLEAN
  BY DEF ViewType, View
<1>2. edges \subseteq View \X BOOLEAN
  BY <1>1
<1> DEFINE e(k) == IF \E v \in BOOLEAN : <<k, v>> \in edges
                     THEN <<k, TRUE>> \in edges ELSE told[k]
<1>3. ASSUME NEW k \in View PROVE e(k) = now[k]
  <2>1. CASE now[k] = told[k]
    <3>1. \A v \in BOOLEAN : <<k, v>> \notin edges
      BY <2>1
    <3> QED
      BY <2>1, <3>1
  <2>2. CASE now[k] # told[k]
    <3>1. <<k, now[k]>> \in edges
      BY <2>2
    <3>2. <<k, TRUE>> \in edges => now[k] = TRUE
      OBVIOUS
    <3>3. CASE now[k] = TRUE
      <4>1. <<k, TRUE>> \in edges
        BY <3>1, <3>3
      <4> QED
        BY <3>3, <4>1
    <3>4. CASE now[k] = FALSE
      <4>1. <<k, TRUE>> \notin edges /\ <<k, FALSE>> \in edges
        BY <3>1, <3>2, <3>4
      <4>2. \E v \in BOOLEAN : <<k, v>> \in edges
        BY <4>1
      <4>3. e(k) = (<<k, TRUE>> \in edges)
        BY <4>2, Zenon
      <4>4. (<<k, TRUE>> \in edges) = FALSE
        <5> DEFINE y == <<k, TRUE>>
        <5>1. y \notin edges
          BY <4>1
        <5> HIDE DEF y
        <5>2. (y \in edges) = FALSE
          BY <5>1
        <5> QED
          BY <5>2 DEF y
      <4> QED
        BY <3>4, <4>3, <4>4, Zenon
    <3> QED
      BY <1>1, <3>3, <3>4
  <2> QED
    BY <2>1, <2>2
<1> HIDE DEF e
<1>4. [k \in View |-> e(k)] = now
  <2>1. now = [k \in View |-> now[k]]
    BY DEF View, ViewType
  <2> QED
    BY <1>3, <2>1
<1> QED
  BY <1>2, <1>4 DEF e, Applied

\* What a callback publishes and remembers.
LEMMA CallbackParts ==
  ASSUME Safe, NEW in \in Inputs, Callback(in)
  PROVE  LET w  == Run(cfg, rx, in)
             ok == w.ok
             raw == w.r.q.keyed
             heard == ok /\ in.speech.heard
         IN  /\ cfg' = cfg /\ Ran(cfg, in, rx, w)
             /\ rx' \in RxType
             /\ \A f \in {"q", "vad", "needsReset", "delay", "index", "valid"} :
                  rx'[f] = w.r[f]
             /\ rx'.told = IF ok THEN [carrier |-> w.r.q.carrier,
                                       subaudible |-> w.r.q.subaudible,
                                       keyed |-> w.keyed]
                           ELSE rx.told
             /\ out' \in OutType
             /\ out'.result = IF ok THEN "ok" ELSE "failed"
             /\ ok => /\ out'.carrier = w.r.q.carrier /\ out'.raw = w.r.q.keyed
                      /\ out'.keyed = w.keyed /\ out'.audio = w.audio \ {Silence}
                      /\ out'.burst = IF w.r.vad.mode = 0 THEN 0 ELSE w.r.vad.burst
             /\ past' \in PastType
             /\ past'.admitted = IF w.r.q.carrier /\ w.r.q.subaudible
                                   THEN Least(past.admitted + in.frames, MaxTxOffFrames)
                                   ELSE 0
             /\ past'.released = IF in.ptt THEN 0
                                 ELSE Least(past.released + in.frames, MaxTxOffFrames)
             /\ past'.steady = Least(past.steady + in.frames, MaxTxOffFrames)
             /\ past'.spoken = (raw /\ ok /\ (past.spoken \/ heard))
             /\ past'.voiced = (raw /\ ok /\ IF in.speech.scored THEN in.speech.active
                                             ELSE past.voiced)
             /\ past'.quiet = IF heard THEN in.speech.lag
                              ELSE Least(past.quiet + in.frames, MaxHang)
             /\ past'.ended = (~raw \/ (past.ended /\ ~ok))
             /\ past'.burst = IF ~ok THEN 0 ELSE IF raw THEN out'.burst ELSE past.burst
             /\ past'.view = rx'.told
<1> DEFINE w == Run(cfg, rx, in)
           ok == w.ok
           now == [carrier |-> w.r.q.carrier, subaudible |-> w.r.q.subaudible,
                   keyed |-> w.keyed]
           edges == {<<k, now[k]>> : k \in {j \in View : now[j] # rx.told[j]}}
           heard == ok /\ in.speech.heard
<1>1. in \in Input /\ ValidPolicy(cfg) /\ RxGood(cfg, rx)
  BY ReceptionAssumption DEF ReceptionAssumption, Safe
<1>2. Ran(cfg, in, rx, w)
  BY <1>1, ReceptionAssumption, RunStage
<1>3. /\ cfg' = cfg /\ Remember(in)
      /\ ok => /\ rx' = [w.r EXCEPT !.told = now]
               /\ out' = [result |-> "ok", carrier |-> w.r.q.carrier,
                          raw |-> w.r.q.keyed, keyed |-> w.keyed,
                          burst |-> IF w.r.vad.mode = 0 THEN 0 ELSE w.r.vad.burst,
                          muted |-> w.muted, audio |-> w.audio \ {Silence},
                          edges |-> edges]
      /\ ~ok => /\ rx' = w.r
                /\ out' = [result |-> "failed", carrier |-> FALSE, raw |-> FALSE,
                           keyed |-> FALSE, burst |-> 0, muted |-> w.muted, audio |-> {},
                           edges |-> {}]
  <2> DEFINE pushed == {<<k, now[k]>> : k \in {j \in DOMAIN now : now[j] # rx.told[j]}}
  <2>1. DOMAIN now = View
    BY DEF View
  <2>2. cfg' = cfg /\ Remember(in) /\ IF ok THEN Publish(w) ELSE Withhold(w)
    BY DEF Callback
  <2> HIDE DEF w
  <2>3. w.r.told = rx.told
    BY <1>2 DEF Ran
  <2>4. ok => /\ rx' = [w.r EXCEPT !.told = now]
              /\ out' = [result |-> "ok", carrier |-> w.r.q.carrier,
                         raw |-> w.r.q.keyed, keyed |-> w.keyed,
                         burst |-> IF w.r.vad.mode = 0 THEN 0 ELSE w.r.vad.burst,
                         muted |-> w.muted, audio |-> w.audio \ {Silence},
                         edges |-> pushed]
    BY <2>2, <2>3 DEF Publish
  <2> HIDE DEF now
  <2>5. pushed = edges
    BY <2>1
  <2> HIDE DEF pushed, edges
  <2> QED
    BY <2>2, <2>4, <2>5 DEF Withhold
<1> HIDE DEF w, now
<1>4. /\ w \in WorkType /\ w.r \in RxType /\ w.r.q \in QualificationState
      /\ w.r.vad \in VadState /\ w.r.told = rx.told /\ rx.told \in ViewType
      /\ w.keyed \in BOOLEAN /\ w.muted \in Nat /\ w.audio \subseteq Sample
      /\ ok \in BOOLEAN
  BY <1>1, <1>2 DEF Ran, WorkType, RxGood, RxType, ViewType
<1>5. now \in ViewType
  BY <1>4 DEF now, ViewType, QualificationState
<1>6. edges \subseteq View \X BOOLEAN
  BY <1>4, <1>5, EdgesApply
<1> HIDE DEF edges
<1>7. /\ rx' \in RxType
      /\ \A f \in {"q", "vad", "needsReset", "delay", "index", "valid"} : rx'[f] = w.r[f]
      /\ rx'.told = IF ok THEN now ELSE rx.told
  <2>1. CASE ok
    BY <1>3, <1>4, <1>5, <2>1 DEF RxType, ViewType
  <2>2. CASE ~ok
    BY <1>3, <1>4, <2>2
  <2> QED
    BY <2>1, <2>2
<1>8. out' \in OutType /\ out'.result = (IF ok THEN "ok" ELSE "failed")
  <2>1. 0 \in 0 .. BurstModulus - 1
    BY ReceptionAssumption DEF ReceptionAssumption
  <2>2. CASE ok
    <3> DEFINE b == IF w.r.vad.mode = 0 THEN 0 ELSE w.r.vad.burst
               a == w.audio \ {Silence}
    <3>1. b \in 0 .. BurstModulus - 1
      BY <1>4, <2>1 DEF VadState
    <3>2. w.r.q.carrier \in BOOLEAN /\ w.r.q.keyed \in BOOLEAN
      BY <1>4 DEF QualificationState
    <3>3. a \subseteq Sample \ {Silence}
      BY <1>4
    <3>4. out' = [result |-> "ok", carrier |-> w.r.q.carrier,
                  raw |-> w.r.q.keyed, keyed |-> w.keyed, burst |-> b,
                  muted |-> w.muted, audio |-> a, edges |-> edges]
      BY <1>3, <2>2
    <3> HIDE DEF a, b
    <3> QED
      BY <1>4, <1>6, <2>2, <3>1, <3>2, <3>3, <3>4 DEF OutType, View
  <2>3. CASE ~ok
    <3> DEFINE a == {}
    <3>1. /\ a \in SUBSET (Sample \ {Silence})
          /\ a \in SUBSET ({"carrier", "subaudible", "keyed"} \X BOOLEAN)
      OBVIOUS
    <3>2. out' = [result |-> "failed", carrier |-> FALSE, raw |-> FALSE, keyed |-> FALSE,
                  burst |-> 0, muted |-> w.muted, audio |-> a, edges |-> a]
      BY <1>3, <2>3
    <3> HIDE DEF a
    <3> QED
      BY <1>4, <2>1, <2>3, <3>1, <3>2 DEF OutType
  <2> QED
    BY <2>2, <2>3
<1>9. ok => /\ out'.carrier = w.r.q.carrier /\ out'.raw = w.r.q.keyed
            /\ out'.keyed = w.keyed /\ out'.audio = w.audio \ {Silence}
            /\ out'.burst = IF w.r.vad.mode = 0 THEN 0 ELSE w.r.vad.burst
            /\ out'.edges = edges
  BY <1>3
<1>10. ~ok => out'.edges = {}
  BY <1>3
<1>11. rx'.q = w.r.q /\ (out'.result = "ok") = ok
  BY <1>4, <1>7, <1>8
<1> DEFINE view == [k \in View |-> IF \E v \in BOOLEAN : <<k, v>> \in out'.edges
                                     THEN <<k, TRUE>> \in out'.edges ELSE past.view[k]]
<1>12. view = rx'.told
  <2>1. past.view = rx.told
    BY DEF Safe
  <2>2. CASE ok
    <3> DEFINE told == rx.told
    <3>1. told \in ViewType /\ edges = {<<k, now[k]>> : k \in {j \in View : now[j] # told[j]}}
      BY <1>4 DEF edges
    <3>2. out'.edges = edges /\ past.view = rx.told
      BY <1>9, <2>1, <2>2
    <3> HIDE DEF told
    <3>3. Applied(edges, told) = now
      BY <1>5, <3>1, EdgesApply
    <3>4. view = now
      BY <3>2, <3>3, Zenon DEF Applied, told, view
    <3> QED
      BY <1>7, <2>2, <3>4
  <2>3. CASE ~ok
    <3>1. view = [k \in View |-> rx.told[k]]
      BY <1>10, <2>1, <2>3
    <3> QED
      BY <1>4, <1>7, <2>3, <3>1 DEF View, ViewType
  <2> QED
    BY <2>2, <2>3
<1> HIDE DEF view
<1>13. past' = [admitted |-> IF w.r.q.carrier /\ w.r.q.subaudible
                               THEN Least(past.admitted + in.frames, MaxTxOffFrames) ELSE 0,
                released |-> IF in.ptt THEN 0
                             ELSE Least(past.released + in.frames, MaxTxOffFrames),
                steady   |-> Least(past.steady + in.frames, MaxTxOffFrames),
                spoken   |-> ~(~w.r.q.keyed \/ ~ok) /\ (past.spoken \/ heard),
                voiced   |-> ~(~w.r.q.keyed \/ ~ok) /\ IF in.speech.scored
                                                         THEN in.speech.active
                                                         ELSE past.voiced,
                quiet    |-> IF heard THEN in.speech.lag
                             ELSE Least(past.quiet + in.frames, MaxHang),
                ended    |-> ~w.r.q.keyed \/ (past.ended /\ ~ok),
                burst    |-> IF ~ok THEN 0 ELSE IF w.r.q.keyed THEN out'.burst
                                                ELSE past.burst,
                view     |-> view]
  <2>1. DOMAIN Told = View
    BY DEF Told, View
  <2> QED
    BY <1>3, <1>11, <2>1, Zenon DEF Remember, view
<1> DEFINE raw == w.r.q.keyed
           admitted == IF w.r.q.carrier /\ w.r.q.subaudible
                         THEN Least(past.admitted + in.frames, MaxTxOffFrames) ELSE 0
           released == IF in.ptt THEN 0 ELSE Least(past.released + in.frames, MaxTxOffFrames)
           steady == Least(past.steady + in.frames, MaxTxOffFrames)
           spoken == ~(~raw \/ ~ok) /\ (past.spoken \/ heard)
           voiced == ~(~raw \/ ~ok) /\ IF in.speech.scored THEN in.speech.active
                                       ELSE past.voiced
           quiet == IF heard THEN in.speech.lag ELSE Least(past.quiet + in.frames, MaxHang)
           ended == ~raw \/ (past.ended /\ ~ok)
           burst == IF ~ok THEN 0 ELSE IF raw THEN out'.burst ELSE past.burst
<1>14. /\ admitted \in 0 .. MaxTxOffFrames /\ released \in 0 .. MaxTxOffFrames
       /\ steady \in 0 .. MaxTxOffFrames
  <2>1. /\ past.admitted \in 0 .. MaxTxOffFrames /\ past.released \in 0 .. MaxTxOffFrames
        /\ past.steady \in 0 .. MaxTxOffFrames /\ MaxTxOffFrames \in Nat
        /\ in.frames \in Nat
    BY <1>1, ReceptionAssumption, DelayLengths, ReportType DEF Safe, PastType, ValidPolicy
  <2> QED
    BY <2>1 DEF Least
<1>15. quiet \in Nat
  <2>1. past.quiet \in Nat /\ in.frames \in Nat /\ in.speech.lag \in Nat /\ MaxHang \in Nat
    BY <1>1, ReceptionAssumption, ReportType DEF Safe, PastType, ReceptionAssumption
  <2> QED
    BY <2>1 DEF Least
<1>16. burst \in 0 .. BurstModulus - 1
  <2>1. /\ 0 \in 0 .. BurstModulus - 1 /\ past.burst \in 0 .. BurstModulus - 1
        /\ out'.burst \in 0 .. BurstModulus - 1
    BY <1>8, ReceptionAssumption DEF ReceptionAssumption, Safe, PastType, OutType
  <2> QED
    BY <2>1
<1>17. spoken \in BOOLEAN /\ voiced \in BOOLEAN /\ ended \in BOOLEAN
  <2>1. in.speech.active \in BOOLEAN /\ past.voiced \in BOOLEAN
    BY <1>1, ReceptionAssumption, ReportType DEF Safe, PastType
  <2> QED
    BY <2>1
<1>18. rx'.told \in [carrier : BOOLEAN, subaudible : BOOLEAN, keyed : BOOLEAN]
  BY <1>7 DEF RxType
<1>19. /\ raw \in BOOLEAN
       /\ spoken = (raw /\ ok /\ (past.spoken \/ heard))
       /\ voiced = (raw /\ ok /\ IF in.speech.scored THEN in.speech.active ELSE past.voiced)
  BY <1>4, Zenon DEF QualificationState
<1>20. /\ past'.admitted = admitted /\ past'.released = released
       /\ past'.steady = steady /\ past'.spoken = spoken /\ past'.voiced = voiced
       /\ past'.quiet = quiet /\ past'.ended = ended /\ past'.burst = burst
       /\ past'.view = rx'.told /\ past' \in PastType
  <2>1. past' = [admitted |-> admitted, released |-> released, steady |-> steady,
                 spoken |-> spoken, voiced |-> voiced, quiet |-> quiet, ended |-> ended,
                 burst |-> burst, view |-> rx'.told]
    BY <1>12, <1>13
  <2> HIDE DEF admitted, released, steady, spoken, voiced, quiet, ended, burst
  <2> QED
    BY <1>14, <1>15, <1>16, <1>17, <1>18, <2>1 DEF PastType
<1> QED
  BY <1>2, <1>3, <1>7, <1>8, <1>9, <1>19, <1>20 DEF now, w
\* The history keeps up with what an analysis learns in one callback.
LEMMA WitnessedOn ==
  ASSUME ReceptionAssumption, NEW in \in Input, NEW r \in RxType,
         NEW p \in PastType, NEW v \in PastType,
         ~r.needsReset => Burst(r.vad) /\ Witnessed(r, p),
         NEW w, w.r \in RxType, Spoke(Fresh(r), in, w), w.r.vad.raw = w.r.q.keyed,
         v.spoken = (w.r.q.keyed /\ (p.spoken \/ in.speech.heard)),
         v.voiced = (w.r.q.keyed /\ IF in.speech.scored THEN in.speech.active
                                    ELSE p.voiced),
         v.quiet = IF in.speech.heard THEN in.speech.lag
                   ELSE Least(p.quiet + in.frames, MaxHang)
  PROVE  Witnessed(w.r, v)
<1> DEFINE a == Fresh(r)
           x == w.r.vad
<1>1. /\ Burst(a) /\ a.hang \in 0 .. MaxHang /\ a.age \in Never .. MaxHang
      /\ a.latched => p.spoken
      /\ a.active => p.voiced
      /\ a.age # Never /\ a.age < a.hang => p.quiet <= a.age
  <2>1. r.vad \in VadState
    BY DEF RxType
  <2>2. CASE r.needsReset
    <3>1. a = Reset(r.vad, TRUE)
      BY <2>2 DEF Fresh
    <3>2. a \in VadState /\ Forgotten(a)
      BY <2>1, <3>1, ResetVad
    <3> HIDE DEF a
    <3> QED
      BY <3>2 DEF Forgotten, Burst, VadState
  <2>3. CASE ~r.needsReset
    <3>1. a = r.vad
      BY <2>3 DEF Fresh
    <3> HIDE DEF a
    <3> QED
      BY <2>1, <2>3, <3>1 DEF Witnessed, VadState
  <2> QED
    BY <2>2, <2>3
<1>2. /\ x.raw = w.r.q.keyed /\ Burst(x) /\ x.hang = a.hang /\ x \in VadState
      /\ x.raw => /\ x.latched = (a.latched \/ in.speech.heard)
                  /\ x.active = IF in.speech.scored THEN in.speech.active ELSE a.active
                  /\ x.age = IF in.speech.heard THEN Least(in.speech.lag, a.hang)
                             ELSE Older(a, in.frames)
  BY DEF Spoke, Goes, RxType
<1>3. /\ in.speech.heard \in BOOLEAN /\ in.speech.scored \in BOOLEAN
      /\ in.speech.active \in BOOLEAN /\ in.speech.lag \in Nat /\ in.frames \in Nat
      /\ p.quiet \in Nat /\ MaxHang \in Nat /\ p.spoken \in BOOLEAN /\ p.voiced \in BOOLEAN
  BY ReportType DEF PastType, ReceptionAssumption
<1> HIDE DEF a, x
<1>4. CASE ~x.raw
  BY <1>2, <1>4 DEF Burst, Witnessed, x
<1>5. CASE x.raw
  <2>1. x.latched => v.spoken
    BY <1>1, <1>2, <1>3, <1>5
  <2>2. x.active => v.voiced
    <3>1. CASE in.speech.scored
      BY <1>2, <1>3, <1>5, <3>1
    <3>2. CASE ~in.speech.scored
      BY <1>1, <1>2, <1>3, <1>5, <3>2
    <3> QED
      BY <3>1, <3>2
  <2>3. x.age # Never /\ x.age < x.hang => v.quiet <= x.age
    <3>1. CASE in.speech.heard
      BY <1>1, <1>2, <1>3, <1>5, <3>1 DEF Least
    <3>2. CASE ~in.speech.heard
      <4>1. x.age = Older(a, in.frames) /\ v.quiet = Least(p.quiet + in.frames, MaxHang)
        BY <1>2, <1>5, <3>2
      <4> QED
        BY <1>1, <1>2, <1>3, <4>1 DEF Least, Older, Never
    <3> QED
      BY <3>1, <3>2
  <2> QED
    BY <2>1, <2>2, <2>3 DEF Witnessed, x
<1> QED
  BY <1>4, <1>5

LEMMA CallbackSafe ==
  ASSUME Safe, NEW in \in Inputs, Callback(in)
  PROVE  Safe'
<1> DEFINE w == Run(cfg, rx, in)
           ok == w.ok
           raw == w.r.q.keyed
           heard == ok /\ in.speech.heard
<1>1. /\ cfg' = cfg /\ Ran(cfg, in, rx, w)
      /\ rx' \in RxType
      /\ \A f \in {"q", "vad", "needsReset", "delay", "index", "valid"} : rx'[f] = w.r[f]
      /\ rx'.told = IF ok THEN [carrier |-> w.r.q.carrier, subaudible |-> w.r.q.subaudible,
                                keyed |-> w.keyed] ELSE rx.told
      /\ out' \in OutType /\ out'.result = IF ok THEN "ok" ELSE "failed"
  BY CallbackParts
<1>2. ok => /\ out'.carrier = w.r.q.carrier /\ out'.raw = w.r.q.keyed
            /\ out'.keyed = w.keyed /\ out'.audio = w.audio \ {Silence}
            /\ out'.burst = IF w.r.vad.mode = 0 THEN 0 ELSE w.r.vad.burst
  BY CallbackParts
<1>3. /\ past' \in PastType
      /\ past'.admitted = IF w.r.q.carrier /\ w.r.q.subaudible
                            THEN Least(past.admitted + in.frames, MaxTxOffFrames) ELSE 0
      /\ past'.released = IF in.ptt THEN 0 ELSE Least(past.released + in.frames, MaxTxOffFrames)
      /\ past'.steady = Least(past.steady + in.frames, MaxTxOffFrames)
  BY CallbackParts
<1>4. /\ past'.spoken = (raw /\ ok /\ (past.spoken \/ heard))
      /\ past'.voiced = (raw /\ ok /\ IF in.speech.scored THEN in.speech.active
                                      ELSE past.voiced)
      /\ past'.quiet = IF heard THEN in.speech.lag ELSE Least(past.quiet + in.frames, MaxHang)
      /\ past'.ended = (~raw \/ (past.ended /\ ~ok))
      /\ past'.burst = IF ~ok THEN 0 ELSE IF raw THEN out'.burst ELSE past.burst
      /\ past'.view = rx'.told
  BY CallbackParts
<1> HIDE DEF w
<1>5. /\ in \in Input /\ cfg \in Policies /\ ValidPolicy(cfg) /\ RxGood(cfg, rx)
      /\ rx \in RxType /\ past \in PastType /\ cfg \in Config /\ rx.q \in QualificationState
  BY ReceptionAssumption DEF ReceptionAssumption, Safe, RxGood, ValidPolicy, RxType
<1>6. /\ w \in WorkType /\ RxGood(cfg, w.r) /\ w.r \in RxType /\ w.r.q \in QualificationState
      /\ w.r.vad.mode = rx.vad.mode
      /\ rx.vad.mode = 0 /\ ok =>
           w.r.vad = rx.vad /\ w.audio \subseteq {Silence, Unqualified}
      /\ rx.vad.mode # 0 /\ ~ok => w.r.needsReset
      /\ rx.vad.mode # 0 /\ ok => Spoke(Fresh(rx), in, w)
  BY <1>1 DEF Ran, RxGood, RxType
<1>7. /\ rx'.q = w.r.q /\ rx'.vad = w.r.vad /\ rx'.needsReset = w.r.needsReset
      /\ rx'.delay = w.r.delay /\ rx'.index = w.r.index /\ rx'.valid = w.r.valid
  BY <1>1
<1>8. RxGood(cfg', rx')
  BY <1>1, <1>6, <1>7 DEF RxGood, Storage, Analysis, Plainness, Heard, Owned
<1>9. Counted(cfg', rx'.q, past')
  <2>1. PICK b \in BOOLEAN :
          w.r.q = AdvanceQualification(CallbackQualification(cfg, in), cfg.toned, in, b, rx.q)
    BY <1>1 DEF Ran
  <2>2. Counted(cfg, rx.q, past)
    BY DEF Safe
  <2>3. Counted(cfg, w.r.q, past')
    BY <1>3, <1>5, <2>1, <2>2, ReceptionAssumption, CountsOn
  <2> QED
    BY <1>1, <1>7, <2>3
<1>10. ok /\ rx.vad.mode # 0 => w.r.vad.raw = raw
  BY <1>6 DEF Spoke, Goes
<1>11. rx'.vad.mode # 0 /\ ~rx'.needsReset => Witnessed(rx', past')
  <2> SUFFICES ASSUME rx'.vad.mode # 0, ~rx'.needsReset PROVE Witnessed(rx', past')
    OBVIOUS
  <2>1. ok /\ rx.vad.mode # 0 /\ Spoke(Fresh(rx), in, w)
    BY <1>6, <1>7
  <2>2. ~rx.needsReset => Burst(rx.vad) /\ Witnessed(rx, past)
    BY <1>5, <2>1 DEF Safe, RxGood, Heard, Burst
  <2>3. /\ past'.spoken = (raw /\ (past.spoken \/ in.speech.heard))
        /\ past'.voiced = (raw /\ IF in.speech.scored THEN in.speech.active ELSE past.voiced)
        /\ past'.quiet = IF in.speech.heard THEN in.speech.lag
                         ELSE Least(past.quiet + in.frames, MaxHang)
    <3>1. ok = TRUE
      BY <1>6, <2>1 DEF WorkType
    <3> HIDE DEF raw
    <3> QED
      BY <1>4, <3>1, Zenon
  <2>4. Witnessed(w.r, past')
    BY <1>3, <1>5, <1>6, <1>10, <2>1, <2>2, <2>3, ReceptionAssumption, WitnessedOn
  <2> QED
    BY <1>7, <2>4 DEF Witnessed
<1>12. Numbered(rx', past')
  <2>1. past'.burst # 0 => past'.burst = rx'.vad.burst
    <3> SUFFICES ASSUME past'.burst # 0 PROVE past'.burst = rx'.vad.burst
      OBVIOUS
    <3>1. ok
      BY <1>4
    <3>2. CASE raw
      BY <1>2, <1>4, <1>7, <3>1, <3>2
    <3>3. CASE ~raw
      <4>1. past'.burst = past.burst /\ past.burst = rx.vad.burst
        BY <1>4, <3>1, <3>3 DEF Safe, Numbered
      <4>2. CASE rx.vad.mode = 0
        BY <1>6, <1>7, <3>1, <4>1, <4>2
      <4>3. CASE rx.vad.mode # 0
        <5>1. w.r.vad.burst = Fresh(rx).burst
          BY <1>6, <3>1, <3>3, <4>3 DEF Spoke, Goes
        <5>2. Fresh(rx).burst = rx.vad.burst
          BY <1>5, ReceptionAssumption, ResetVad DEF Fresh, RxType
        <5> QED
          BY <1>7, <4>1, <5>1, <5>2
      <4> QED
        BY <4>2, <4>3
    <3> QED
      BY <3>2, <3>3
  <2>2. rx'.vad.mode # 0 /\ past'.ended => rx'.needsReset \/ ~rx'.vad.raw
    BY <1>4, <1>6, <1>7, <1>10
  <2> QED
    BY <2>1, <2>2 DEF Numbered
<1>13. Reported'
  <2> SUFFICES ASSUME ok PROVE Reported'
    BY <1>1 DEF Reported
  <2>1. /\ rx'.told.carrier = out'.carrier /\ rx'.told.subaudible = rx'.q.subaudible
        /\ rx'.told.keyed = out'.keyed
    BY <1>1, <1>2, <1>7
  <2>2. rx'.vad.mode # 0 => ~rx'.needsReset /\ out'.keyed = Admitted(rx'.vad)
    BY <1>2, <1>6, <1>7 DEF Spoke
  <2> QED
    BY <2>1, <2>2 DEF Reported
<1>14. DelayHoldsOneBurst'
  <2> SUFFICES ASSUME ok PROVE DelayHoldsOneBurst'
    BY <1>1 DEF DelayHoldsOneBurst
  <2>1. out'.audio \subseteq {IF rx'.vad.mode = 0 THEN Unqualified ELSE out'.burst}
    <3>1. CASE rx.vad.mode = 0
      BY <1>2, <1>6, <1>7, <3>1
    <3>2. CASE rx.vad.mode # 0
      <4>1. w.audio \subseteq {Silence, w.r.vad.burst}
        BY <1>6, <3>2 DEF Spoke
      <4> QED
        BY <1>2, <1>6, <1>7, <3>2, <4>1
    <3> QED
      BY <3>1, <3>2
  <2> QED
    BY <2>1 DEF DelayHoldsOneBurst
<1> QED
  BY <1>1, <1>3, <1>4, <1>5, <1>8, <1>9, <1>11, <1>12, <1>13, <1>14 DEF Safe
-----------------------------------------------------------------------------
(* An update *)

LEMMA EffectiveModeType ==
  ASSUME NEW c \in Config
  PROVE  EffectiveMode(c) \in 0 .. 2 /\ (EffectiveMode(c) = 0 <=> c.vadMode = 0)
BY DEF Config, EffectiveMode

\* Kept but for a reset that is due, or new but for the number of the burst.
LEMMA SpeechUpdate ==
  ASSUME ReceptionAssumption, NEW c \in Config, NEW r \in RxType
  PROVE  LET v == UpdateSpeech(c, r)
         IN  /\ v \in RxType /\ v.q = r.q /\ v.told = r.told /\ v.delay = r.delay
             /\ Analysis(c, v) /\ v.vad.burst = r.vad.burst
             /\ Replaced(c, r) =>
                  /\ Forgotten(v.vad) /\ ~v.vad.ahead /\ ~v.vad.rearm /\ ~v.needsReset
                  /\ v.index = 0 /\ v.valid = 0
             /\ ~Replaced(c, r) =>
                  /\ v.vad = r.vad /\ v.index = r.index /\ v.valid = r.valid
                  /\ r.needsReset \/ c.channel # cfg.channel => v.needsReset
<1> DEFINE v == UpdateSpeech(c, r)
<1>1. r.vad \in VadState /\ c.hang \in 0 .. MaxHang
  BY DEF RxType, Config
<1>2. CASE Replaced(c, r)
  <2> DEFINE e == NewVad(EffectiveMode(c), c.hang)
             a == [e EXCEPT !.burst = r.vad.burst]
             d == Drained(r)
  <2>1. v = [d EXCEPT !.vad = a, !.needsReset = FALSE]
    BY <1>2 DEF UpdateSpeech
  <2>2. /\ a \in VadState /\ Forgotten(a) /\ ~a.ahead /\ ~a.rearm
        /\ a.mode = EffectiveMode(c) /\ a.hang = c.hang /\ a.burst = r.vad.burst
    <3>1. EffectiveMode(c) \in 0 .. 2
      BY EffectiveModeType
    <3>2. 0 \in 0 .. MaxLag + 1 /\ Never \in Never .. MaxHang
      BY DEF ReceptionAssumption, Never
    <3>3. r.vad.burst \in 0 .. BurstModulus - 1 /\ 0 \in 0 .. BurstModulus - 1
      BY <1>1 DEF VadState, ReceptionAssumption
    <3>4. /\ e \in VadState /\ Forgotten(e) /\ ~e.ahead /\ ~e.rearm
          /\ e.mode = EffectiveMode(c) /\ e.hang = c.hang
      BY <1>1, <3>1, <3>2, <3>3 DEF NewVad, VadState, Forgotten
    <3> HIDE DEF e
    <3> QED
      BY <3>3, <3>4 DEF VadState, Forgotten
  <2>3. d \in RxType /\ Beside(r, d) /\ d.delay = r.delay /\ d.index = 0 /\ d.valid = 0
    BY DrainedDelay
  <2> HIDE DEF a, d, v
  <2>4. /\ v \in RxType /\ v.vad = a /\ ~v.needsReset /\ v.q = d.q /\ v.told = d.told
        /\ v.delay = d.delay /\ v.index = d.index /\ v.valid = d.valid
    BY <2>1, <2>2, <2>3 DEF RxType
  <2> QED
    BY <1>2, <2>2, <2>3, <2>4 DEF Analysis, Beside, v
<1>3. CASE ~Replaced(c, r)
  <2> DEFINE n == \/ r.needsReset \/ Qualification(c) # Qualification(cfg)
                  \/ <<c.channel, c.gain, c.externalDelay>>
                       # <<cfg.channel, cfg.gain, cfg.externalDelay>>
  <2>1. v = [r EXCEPT !.needsReset = n]
    BY <1>3 DEF UpdateSpeech, Retained
  <2>2. n \in BOOLEAN /\ (r.needsReset \/ c.channel # cfg.channel => n)
    BY DEF RxType
  <2> HIDE DEF n, v
  <2>3. /\ v \in RxType /\ v.vad = r.vad /\ v.needsReset = n /\ v.q = r.q
        /\ v.told = r.told /\ v.delay = r.delay /\ v.index = r.index /\ v.valid = r.valid
    BY <2>1, <2>2 DEF RxType
  <2>4. Analysis(c, v)
    BY <1>3, <2>3 DEF Replaced, Analysis
  <2> QED
    BY <1>3, <2>2, <2>3, <2>4 DEF v
<1> QED
  BY <1>2, <1>3

\* The storage is kept, or emptied for another length or use.
LEMMA DelayUpdate ==
  ASSUME ReceptionAssumption, NEW c \in Config, NEW r \in RxType,
         r.index \in 0 .. Len(r.delay), r.valid \in 0 .. Len(r.delay)
  PROVE  LET u == UpdateDelay(c, r)
         IN  /\ u \in RxType /\ Beside(r, u) /\ Storage(c, u)
             /\ \/ /\ u.valid = 0
                   /\ \A i \in 1 .. Len(u.delay) : u.delay[i] = Silence
                \/ u = r /\ (cfg.vadMode = 0) = (c.vadMode = 0)
<1> DEFINE d == Drained(r)
           e == EmptyDelay(c)
           u == UpdateDelay(c, r)
<1>1. CASE DelayFrames(c) # Len(r.delay) \/ (cfg.vadMode = 0) # (c.vadMode = 0)
  <2>1. u = [d EXCEPT !.delay = e]
    BY <1>1 DEF UpdateDelay
  <2>2. d \in RxType /\ Beside(r, d) /\ d.index = 0 /\ d.valid = 0
    BY DrainedDelay
  <2>3. /\ DelayFrames(c) \in Nat /\ e \in Seq(Sample) /\ Len(e) = DelayFrames(c)
        /\ \A i \in 1 .. DelayFrames(c) : e[i] = Silence
    BY EmptyDelayType
  <2> HIDE DEF d, e, u
  <2>4. u \in RxType /\ Beside(d, u) /\ u.delay = e /\ u.index = 0 /\ u.valid = 0
    BY <2>1, <2>2, <2>3 DEF RxType, Beside
  <2> QED
    BY <2>2, <2>3, <2>4 DEF Storage, Beside, u
<1>2. CASE ~(DelayFrames(c) # Len(r.delay) \/ (cfg.vadMode = 0) # (c.vadMode = 0))
  <2>1. u = r
    BY <1>2 DEF UpdateDelay
  <2> QED
    BY <1>2, <2>1 DEF Storage, Beside
<1> QED
  BY <1>1, <1>2

LEMMA UpdateSafe ==
  ASSUME Safe, NEW c \in Policies, Update(c)
  PROVE  Safe'
<1> DEFINE d == UpdateDetector(c, rx)
           v == UpdateSpeech(c, d)
<1>1. /\ c \in Config /\ cfg \in Config /\ cfg' = c /\ rx' = UpdateDelay(c, v)
      /\ out' = [out EXCEPT !.result = "none", !.muted = 0, !.audio = {}, !.edges = {}]
  BY ReceptionAssumption DEF ReceptionAssumption, ValidPolicy, Safe, Update
<1>2. /\ rx \in RxType /\ Storage(cfg, rx) /\ Analysis(cfg, rx)
      /\ (rx.vad.mode = 0 => Plainness(rx))
      /\ (rx.vad.mode # 0 /\ ~rx.needsReset => Heard(rx))
      /\ out \in OutType /\ past \in PastType
      /\ Counted(cfg, rx.q, past) /\ Numbered(rx, past) /\ past.view = rx.told
      /\ (rx.vad.mode # 0 /\ ~rx.needsReset => Witnessed(rx, past))
  BY DEF Safe, RxGood
<1>3. /\ d \in RxType /\ Beside(rx, d) /\ d.delay = rx.delay /\ d.index = rx.index
      /\ d.valid = rx.valid
  <2>1. d = rx \/ d = [rx EXCEPT !.blankMs = 0, !.blankRem = 0]
    BY DEF UpdateDetector
  <2>2. 0 \in 0 .. FramesPerMs - 1
    BY ReceptionAssumption DEF ReceptionAssumption
  <2> HIDE DEF d
  <2>3. CASE d = rx
    BY <1>2, <2>3 DEF Beside
  <2>4. CASE d = [rx EXCEPT !.blankMs = 0, !.blankRem = 0]
    BY <1>2, <2>2, <2>4 DEF RxType, Beside
  <2> QED
    BY <2>1, <2>3, <2>4
<1> HIDE DEF d
<1> DEFINE replaced == Replaced(c, d)
<1>4. /\ v \in RxType /\ v.q = d.q /\ v.told = d.told /\ v.delay = d.delay
      /\ Analysis(c, v) /\ v.vad.burst = d.vad.burst
      /\ replaced =>
           /\ Forgotten(v.vad) /\ ~v.vad.ahead /\ ~v.vad.rearm /\ ~v.needsReset
           /\ v.index = 0 /\ v.valid = 0
      /\ ~replaced =>
           /\ v.vad = d.vad /\ v.index = d.index /\ v.valid = d.valid
           /\ d.needsReset \/ c.channel # cfg.channel => v.needsReset
  BY <1>1, <1>3, ReceptionAssumption, SpeechUpdate
<1>5. v.index \in 0 .. Len(v.delay) /\ v.valid \in 0 .. Len(v.delay) /\ Len(v.delay) \in Nat
  BY <1>2, <1>3, <1>4 DEF Storage, RxType
<1>6. replaced = (<<EffectiveMode(c), c.hang>> # <<rx.vad.mode, rx.vad.hang>>)
  BY <1>3 DEF Replaced, Beside
<1> HIDE DEF v, replaced
<1>7. /\ rx' \in RxType /\ Beside(v, rx') /\ Storage(c, rx')
      /\ \/ /\ rx'.valid = 0
            /\ \A i \in 1 .. Len(rx'.delay) : rx'.delay[i] = Silence
         \/ rx' = v /\ (cfg.vadMode = 0) = (c.vadMode = 0)
  BY <1>1, <1>4, <1>5, ReceptionAssumption, DelayUpdate
<1>8. /\ EffectiveMode(c) = 0 <=> c.vadMode = 0
      /\ EffectiveMode(cfg) = 0 <=> cfg.vadMode = 0
      /\ rx'.vad = v.vad /\ rx'.needsReset = v.needsReset /\ rx'.q = rx.q
      /\ rx'.told = rx.told /\ rx'.vad.mode = EffectiveMode(c)
      /\ rx'.vad.burst = rx.vad.burst /\ Len(rx'.delay) \in Nat
  BY <1>1, <1>3, <1>4, <1>7, EffectiveModeType DEF Beside, Analysis, RxType
<1>9. ~replaced => /\ rx'.vad = rx.vad
                   /\ rx.needsReset \/ c.channel # cfg.channel => rx'.needsReset
  BY <1>3, <1>4, <1>8 DEF Beside
<1>10. replaced => Forgotten(rx'.vad) /\ ~rx'.vad.ahead /\ ~rx'.vad.rearm /\ rx'.valid = 0
  BY <1>4, <1>7, <1>8
<1>11. rx'.vad.mode = 0 => Plainness(rx')
  <2> SUFFICES ASSUME rx'.vad.mode = 0, rx' = v, (cfg.vadMode = 0) = (c.vadMode = 0)
               PROVE  Plainness(rx')
    BY <1>7 DEF Plainness
  <2>1. rx.vad.mode = 0
    BY <1>2, <1>8 DEF Analysis
  <2>2. rx'.delay = rx.delay
    BY <1>3, <1>4
  <2> QED
    BY <1>2, <2>1, <2>2 DEF Plainness
<1>12. rx'.vad.mode # 0 /\ ~rx'.needsReset => Heard(rx')
  <2> SUFFICES ASSUME rx'.vad.mode # 0, ~rx'.needsReset PROVE Heard(rx')
    OBVIOUS
  <2>1. CASE replaced
    BY <1>8, <1>10, <2>1 DEF Heard, Forgotten, Owned
  <2>2. CASE ~replaced
    <3>1. Heard(rx) /\ rx'.vad = rx.vad
      BY <1>2, <1>9, <2>2
    <3>2. CASE rx'.valid = 0
      BY <1>8, <3>1, <3>2 DEF Heard, Owned
    <3>3. CASE rx' = v
      <4>1. rx'.delay = rx.delay /\ rx'.index = rx.index /\ rx'.valid = rx.valid
        BY <1>3, <1>4, <2>2, <3>3
      <4> QED
        BY <3>1, <4>1 DEF Heard, Owned
    <3> QED
      BY <1>7, <3>2, <3>3
  <2> QED
    BY <2>1, <2>2
<1>13. RxGood(cfg', rx')
  BY <1>1, <1>4, <1>7, <1>8, <1>11, <1>12 DEF RxGood, Analysis
<1>14. out' \in OutType /\ out'.result = "none"
  <2>1. out'.result = "none"
    BY <1>1, <1>2 DEF OutType
  <2> DEFINE a == {}
  <2>2. /\ a \in SUBSET (Sample \ {Silence})
        /\ a \in SUBSET ({"carrier", "subaudible", "keyed"} \X BOOLEAN)
    OBVIOUS
  <2>3. out' = [out EXCEPT !.result = "none", !.muted = 0, !.audio = a, !.edges = a]
    BY <1>1
  <2> HIDE DEF a
  <2> QED
    BY <1>2, <2>1, <2>2, <2>3 DEF OutType
<1> DEFINE spoken == past.spoken /\ c.channel = cfg.channel
           ended == \/ past.ended
                    \/ <<EffectiveMode(c), c.hang, c.channel>>
                         # <<EffectiveMode(cfg), cfg.hang, cfg.channel>>
<1>15. /\ past' \in PastType /\ past'.steady = 0 /\ past'.spoken = spoken
       /\ past'.ended = ended /\ past'.admitted = past.admitted
       /\ past'.released = past.released /\ past'.voiced = past.voiced
       /\ past'.quiet = past.quiet /\ past'.burst = past.burst /\ past'.view = past.view
  <2>1. past' = [past EXCEPT !.steady = 0, !.spoken = spoken, !.ended = ended]
    <3>1. past' = [past EXCEPT
                    !.steady = 0,
                    !.spoken = @ /\ c.channel = cfg.channel,
                    !.ended  = @ \/ <<EffectiveMode(c), c.hang, c.channel>>
                                      # <<EffectiveMode(cfg), cfg.hang, cfg.channel>>]
      BY DEF Update
    <3> QED
      BY <3>1
  <2>2. spoken \in BOOLEAN /\ ended \in BOOLEAN /\ 0 \in 0 .. MaxTxOffFrames
    BY <1>1, <1>2, ReceptionAssumption, DelayLengths DEF PastType
  <2> HIDE DEF spoken, ended
  <2> QED
    BY <1>2, <2>1, <2>2 DEF PastType
<1>16. Counted(cfg', rx'.q, past')
  <2>1. /\ past.admitted \in Nat /\ past.released \in Nat
        /\ rx.q.admission \in Nat /\ rx.q.release \in Nat
        /\ QualificationFrames(c.rxOn) \in Nat
    <3>1. MaxTxOffFrames \in Nat /\ QualificationFrames(c.rxOn) \in 0 .. MaxTxOffFrames
      BY <1>1, ReceptionAssumption, DelayLengths
    <3>2. rx.q \in QualificationState
      BY <1>2 DEF RxType
    <3> QED
      BY <1>2, <3>1, <3>2 DEF PastType, QualificationState
  <2> QED
    BY <1>1, <1>2, <1>8, <1>15, <2>1 DEF Counted, Least
<1>17. rx'.vad.mode # 0 /\ ~rx'.needsReset => Witnessed(rx', past')
  <2> SUFFICES ASSUME rx'.vad.mode # 0, ~rx'.needsReset PROVE Witnessed(rx', past')
    OBVIOUS
  <2>1. CASE replaced
    BY <1>10, <2>1 DEF Witnessed, Forgotten
  <2>2. CASE ~replaced
    <3>1. /\ rx'.vad = rx.vad /\ Witnessed(rx, past) /\ c.channel = cfg.channel
      BY <1>2, <1>9, <2>2
    <3> QED
      BY <1>15, <3>1 DEF Witnessed
  <2> QED
    BY <2>1, <2>2
<1>18. Numbered(rx', past')
  <2>1. past'.burst # 0 => past'.burst = rx'.vad.burst
    BY <1>2, <1>8, <1>15 DEF Numbered
  <2>2. rx'.vad.mode # 0 /\ past'.ended => rx'.needsReset \/ ~rx'.vad.raw
    <3> SUFFICES ASSUME rx'.vad.mode # 0, past'.ended, ~replaced
                 PROVE  rx'.needsReset \/ ~rx'.vad.raw
      BY <1>10 DEF Forgotten
    <3>1. rx'.vad = rx.vad /\ EffectiveMode(c) = EffectiveMode(cfg) /\ c.hang = cfg.hang
      BY <1>2, <1>6, <1>9 DEF Analysis
    <3>2. past.ended \/ c.channel # cfg.channel
      BY <1>15, <3>1
    <3> QED
      BY <1>2, <1>9, <3>1, <3>2 DEF Numbered
  <2> QED
    BY <2>1, <2>2 DEF Numbered
<1>19. past'.view = rx'.told
  BY <1>2, <1>8, <1>15
<1>20. Reported' /\ DelayHoldsOneBurst'
  BY <1>14 DEF Reported, DelayHoldsOneBurst
<1> QED
  BY <1>1, <1>13, <1>14, <1>15, <1>16, <1>17, <1>18, <1>19, <1>20 DEF Safe
-----------------------------------------------------------------------------
(* The theorems *)

LEMMA InitSafe ==
  ASSUME Init
  PROVE  Safe
<1> DEFINE e == EmptyDelay(cfg)
           m == EffectiveMode(cfg)
<1>1. cfg \in Policies /\ cfg \in Config
  BY ReceptionAssumption DEF ReceptionAssumption, ValidPolicy, Init
<1>2. /\ DelayFrames(cfg) \in Nat /\ e \in Seq(Sample) /\ Len(e) = DelayFrames(cfg)
      /\ \A i \in 1 .. DelayFrames(cfg) : e[i] = Silence
  BY <1>1, ReceptionAssumption, EmptyDelayType
<1>3. m \in 0 .. 2 /\ cfg.hang \in 0 .. MaxHang
  BY <1>1, EffectiveModeType DEF Config
<1>4. /\ 0 \in 0 .. FramesPerMs - 1 /\ 0 \in 0 .. MaxTxOffFrames
      /\ 0 \in 0 .. MaxLag + 1 /\ 0 \in 0 .. BurstModulus - 1 /\ Never \in Never .. MaxHang
      /\ QualificationFrames(cfg.rxOn) \in Nat
  BY <1>1, ReceptionAssumption, DelayLengths DEF ReceptionAssumption, Never
<1> HIDE DEF e, m
<1> DEFINE a == NewVad(m, cfg.hang)
           q == [carrier |-> FALSE, subaudible |-> FALSE, keyed |-> FALSE,
                 admission |-> 0, release |-> 0]
<1>5. /\ a \in VadState /\ Forgotten(a) /\ ~a.ahead /\ ~a.rearm /\ a.mode = m
      /\ a.hang = cfg.hang
  BY <1>3, <1>4 DEF NewVad, VadState, Forgotten
<1>6. q \in QualificationState
  BY <1>4 DEF QualificationState
<1>7. /\ Told \in ViewType
      /\ rx = [blankMs |-> 0, blankRem |-> 0, q |-> q, vad |-> a, needsReset |-> FALSE,
               delay |-> e, index |-> 0, valid |-> 0, told |-> Told]
  BY DEF Init, e, m, Told, ViewType
<1>8. q.admission = 0 /\ q.release = 0
  OBVIOUS
<1> HIDE DEF a, q
<1>9. /\ rx \in RxType /\ rx.q = q /\ rx.vad = a /\ rx.delay = e /\ rx.index = 0
      /\ rx.valid = 0 /\ rx.told = Told
  BY <1>2, <1>4, <1>5, <1>6, <1>7 DEF RxType, ViewType
<1>10. RxGood(cfg, rx)
  BY <1>2, <1>5, <1>9 DEF RxGood, Storage, Analysis, Plainness, Heard, Forgotten, Owned, m
<1>11. out \in OutType /\ out.result = "none"
  <2> DEFINE z == {}
  <2>1. /\ z \in SUBSET (Sample \ {Silence})
        /\ z \in SUBSET ({"carrier", "subaudible", "keyed"} \X BOOLEAN)
    OBVIOUS
  <2>2. out = [result |-> "none", carrier |-> FALSE, raw |-> FALSE, keyed |-> FALSE,
               burst |-> 0, muted |-> 0, audio |-> z, edges |-> z]
    BY DEF Init
  <2> HIDE DEF z
  <2> QED
    BY <1>4, <2>1, <2>2 DEF OutType
<1>12. /\ past \in PastType /\ past.admitted = 0 /\ past.released = 0 /\ past.steady = 0
       /\ past.burst = 0 /\ past.view = Told
  <2>1. past = [admitted |-> 0, released |-> 0, steady |-> 0, spoken |-> FALSE,
                voiced |-> FALSE, quiet |-> 0, ended |-> TRUE, burst |-> 0, view |-> Told]
    BY DEF Init
  <2>2. Told \in [carrier : BOOLEAN, subaudible : BOOLEAN, keyed : BOOLEAN]
    BY <1>7 DEF ViewType
  <2> QED
    BY <1>4, <2>1, <2>2 DEF PastType
<1>13. Counted(cfg, rx.q, past)
  BY <1>4, <1>8, <1>9, <1>12 DEF Counted, Least
<1>14. Witnessed(rx, past) /\ Numbered(rx, past)
  BY <1>5, <1>9, <1>12 DEF Witnessed, Numbered, Forgotten
<1> QED
  BY <1>1, <1>9, <1>10, <1>11, <1>12, <1>13, <1>14
     DEF Safe, Reported, DelayHoldsOneBurst

LEMMA StepSafe ==
  ASSUME Safe, [Next]_vars
  PROVE  Safe'
<1>1. CASE UNCHANGED vars
  BY <1>1 DEF vars, Safe, RxGood, Storage, Analysis, Plainness, Heard, Owned, Counted,
              Witnessed, Numbered, Reported, DelayHoldsOneBurst
<1>2. CASE Next
  BY <1>2, CallbackSafe, UpdateSafe DEF Next
<1> QED
  BY <1>1, <1>2

\* Every callback, whatever fails in it, and every update keeps the invariant.
THEOREM ReceptionIsSafe == Spec => []Safe
<1>1. Init => Safe
  BY InitSafe
<1>2. Safe /\ [Next]_vars => Safe'
  BY StepSafe
<1> QED
  BY <1>1, <1>2, PTL DEF Spec

\* The delay, the analysis and the delays of qualification stay within their
\* bounds, and the delay is always the one the current policy asks for.
THEOREM TypeCorrect == Spec => []TypeOK
<1>1. Safe => TypeOK
  BY DEF Safe, TypeOK, RxGood, RxType, OutType, Storage
<1> QED
  BY <1>1, ReceptionIsSafe, PTL

\* Whatever callbacks fail in between, the edges rebuild what is published.
THEOREM EdgesRebuild == Spec => []EdgesReplay
<1>1. Safe => EdgesReplay
  <2> SUFFICES ASSUME Safe, out.result = "ok"
               PROVE  past.view = [carrier |-> out.carrier, subaudible |-> rx.q.subaudible,
                                   keyed |-> out.keyed]
    BY DEF EdgesReplay
  <2>1. past.view = rx.told /\ rx.told \in ViewType
    BY DEF Safe, RxGood, RxType, ViewType
  <2>2. /\ rx.told.carrier = out.carrier /\ rx.told.subaudible = rx.q.subaudible
        /\ rx.told.keyed = out.keyed
    BY DEF Safe, Reported
  <2> DEFINE g == rx.told
  <2> HIDE DEF g
  <2>3. g = [carrier |-> g.carrier, subaudible |-> g.subaudible, keyed |-> g.keyed]
    BY <2>1 DEF ViewType, g
  <2> QED
    BY <2>1, <2>2, <2>3 DEF g
<1> QED
  BY <1>1, ReceptionIsSafe, PTL

\* Whatever the reports of the analysis, the spans callbacks are cut into and
\* the failures and updates in between, only speech of this burst admits it.
THEOREM SpeechIsFresh == Spec => []FreshSpeech
<1>1. Safe => FreshSpeech
  <2> SUFFICES ASSUME Safe, out.result = "ok", out.keyed, rx.vad.mode # 0
               PROVE  /\ past.spoken
                      /\ rx.vad.mode = 2 => past.voiced \/ past.quiet < rx.vad.hang
    BY DEF FreshSpeech
  <2>1. ~rx.needsReset /\ Admitted(rx.vad)
    BY DEF Safe, Reported
  <2>2. Witnessed(rx, past) /\ Heard(rx)
    BY <2>1 DEF Safe, RxGood
  <2>3. /\ rx.vad.age \in Int /\ rx.vad.hang \in Int /\ past.quiet \in Int
        /\ rx.vad.mode \in 0 .. 2
    BY DEF Safe, RxGood, RxType, VadState, PastType, Never
  <2> QED
    BY <2>1, <2>2, <2>3 DEF Witnessed, Heard, Admitted
<1> QED
  BY <1>1, ReceptionIsSafe, PTL

\* For every length of the delay and of the spans, nothing comes out of it that
\* was not captured in the burst that is admitted.
THEOREM DelayIsOneBurst == Spec => []DelayHoldsOneBurst
<1>1. Safe => DelayHoldsOneBurst
  BY DEF Safe
<1> QED
  BY <1>1, ReceptionIsSafe, PTL

\* However long the two delays are, the receiver is keyed by the callback in
\* which both are over, and by no earlier one.
THEOREM KeyedOnTime == Spec => KeyedExactly
<1> DEFINE A == out'.result # "none" =>
                  /\ ~rx.q.keyed /\ rx'.q.keyed => Waited(past'.admitted, past'.released)
                  /\ (/\ rx'.q.carrier /\ rx'.q.subaudible
                      /\ Waited(Least(past'.admitted, past'.steady),
                                Least(past'.released, past'.steady)))
                     => rx'.q.keyed
<1>1. Safe /\ [Next]_vars => [A]_vars
  <2> SUFFICES ASSUME Safe, Next PROVE A
    OBVIOUS
  <2>1. ASSUME NEW in \in Inputs, Callback(in) PROVE A
    <3> DEFINE w == Run(cfg, rx, in)
    <3>1. /\ Ran(cfg, in, rx, w) /\ rx'.q = w.r.q /\ past' \in PastType
          /\ past'.admitted = IF w.r.q.carrier /\ w.r.q.subaudible
                                THEN Least(past.admitted + in.frames, MaxTxOffFrames)
                                ELSE 0
          /\ past'.released = IF in.ptt THEN 0
                              ELSE Least(past.released + in.frames, MaxTxOffFrames)
          /\ past'.steady = Least(past.steady + in.frames, MaxTxOffFrames)
      BY <2>1, CallbackParts
    <3> HIDE DEF w
    <3>2. PICK b \in BOOLEAN :
            w.r.q = AdvanceQualification(CallbackQualification(cfg, in), cfg.toned, in, b,
                                         rx.q)
      BY <3>1 DEF Ran
    <3>3. /\ in \in Input /\ cfg \in Config /\ rx.q \in QualificationState
          /\ past \in PastType /\ Counted(cfg, rx.q, past)
      BY ReceptionAssumption
         DEF ReceptionAssumption, ValidPolicy, Safe, RxGood, RxType
    <3>4. /\ ~rx.q.keyed /\ w.r.q.keyed =>
               /\ past'.admitted >= QualificationFrames(cfg.rxOn)
               /\ past'.released >= QualificationFrames(cfg.txOff)
          /\ (/\ w.r.q.carrier /\ w.r.q.subaudible
              /\ Least(past'.admitted, past'.steady) >= QualificationFrames(cfg.rxOn)
              /\ Least(past'.released, past'.steady) >= QualificationFrames(cfg.txOff))
             => w.r.q.keyed
      BY <3>1, <3>2, <3>3, ReceptionAssumption, CountsOn
    <3> QED
      BY <3>1, <3>4 DEF Waited
  <2>2. ASSUME NEW c \in Policies, Update(c) PROVE A
    <3>1. out' = [out EXCEPT !.result = "none", !.muted = 0, !.audio = {}, !.edges = {}]
          /\ out \in OutType
      BY <2>2 DEF Update, Safe
    <3> QED
      BY <3>1 DEF OutType
  <2> QED
    BY <2>1, <2>2 DEF Next
<1> QED
  BY <1>1, ReceptionIsSafe, PTL DEF Spec, KeyedExactly

\* A kerchunk burst that speech has admitted stays admitted to its end.
THEOREM LatchIsKept == Spec => LatchHolds
<1> DEFINE A == (/\ out.result = "ok" /\ out.keyed /\ out'.result = "ok" /\ out'.raw
                 /\ rx.vad.mode = 1) => out'.keyed
<1>1. Safe /\ [Next]_vars => [A]_vars
  <2> SUFFICES ASSUME Safe, Next, out.result = "ok", out.keyed, out'.result = "ok",
                      out'.raw, rx.vad.mode = 1
               PROVE  out'.keyed
    OBVIOUS
  <2>1. ASSUME NEW in \in Inputs, Callback(in) PROVE out'.keyed
    <3> DEFINE w == Run(cfg, rx, in)
    <3>1. /\ Ran(cfg, in, rx, w) /\ (out'.result = "ok") = w.ok
          /\ w.ok => out'.keyed = w.keyed /\ out'.raw = w.r.q.keyed
      <4>1. out'.result = IF w.ok THEN "ok" ELSE "failed"
        BY <2>1, CallbackParts
      <4>2. Ran(cfg, in, rx, w) /\ (w.ok => out'.keyed = w.keyed /\ out'.raw = w.r.q.keyed)
        BY <2>1, CallbackParts
      <4>3. w.ok \in BOOLEAN
        BY <4>2 DEF Ran, WorkType
      <4> QED
        BY <4>1, <4>2, <4>3
    <3> HIDE DEF w
    <3>2. /\ rx.vad \in VadState /\ rx.vad.mode # 0
          /\ ~rx.needsReset /\ out.keyed = Admitted(rx.vad)
      <4>1. rx.vad.mode # 0
        OBVIOUS
      <4>2. ~rx.needsReset /\ out.keyed = Admitted(rx.vad)
        BY <4>1 DEF Safe, Reported
      <4> QED
        BY <4>1, <4>2 DEF Safe, RxGood, RxType
    <3>3. rx.vad.latched
      BY <3>2 DEF Admitted
    <3>4. Spoke(rx.vad, in, w) /\ w.r.q.keyed /\ w.r.vad.mode = 1
      <4>1. w.ok /\ w.r.q.keyed /\ w.r.vad.mode = 1 /\ Spoke(Fresh(rx), in, w)
        BY <3>1, <3>2 DEF Ran
      <4>2. Fresh(rx) = rx.vad
        BY <3>2 DEF Fresh
      <4> QED
        BY <4>1, <4>2
    <3>5. w.r.vad.raw /\ w.r.vad.latched
      BY <3>3, <3>4 DEF Spoke, Goes
    <3> QED
      BY <3>1, <3>4, <3>5 DEF Spoke, Admitted
  <2>2. ASSUME NEW c \in Policies, Update(c) PROVE FALSE
    <3>1. out' = [out EXCEPT !.result = "none", !.muted = 0, !.audio = {}, !.edges = {}]
          /\ out \in OutType
      BY <2>2 DEF Update, Safe
    <3> QED
      BY <3>1 DEF OutType
  <2> QED
    BY <2>1, <2>2 DEF Next
<1> QED
  BY <1>1, ReceptionIsSafe, PTL DEF Spec, LatchHolds

\* Numbers wrap, but a burst is never confused with the one before it.
THEOREM BurstsAreDistinct == Spec => NewBurstNewId
<1> DEFINE A == (/\ out'.result = "ok" /\ out'.raw /\ rx.vad.mode # 0
                 /\ past.ended /\ past.burst # 0) => out'.burst # past.burst
<1>1. Safe /\ [Next]_vars => [A]_vars
  <2> SUFFICES ASSUME Safe, Next, out'.result = "ok", out'.raw, rx.vad.mode # 0,
                      past.ended, past.burst # 0
               PROVE  out'.burst # past.burst
    OBVIOUS
  <2>1. ASSUME NEW in \in Inputs, Callback(in) PROVE out'.burst # past.burst
    <3> DEFINE w == Run(cfg, rx, in)
               a == Fresh(rx)
    <3>1. /\ Ran(cfg, in, rx, w)
          /\ w.ok => /\ out'.raw = w.r.q.keyed
                     /\ out'.burst = IF w.r.vad.mode = 0 THEN 0 ELSE w.r.vad.burst
      BY <2>1, CallbackParts
    <3>2. out'.result = IF w.ok THEN "ok" ELSE "failed"
      BY <2>1, CallbackParts
    <3> HIDE DEF w
    <3>3. w.ok
      BY <3>2
    <3>4. Spoke(a, in, w) /\ w.r.q.keyed /\ w.r.vad.mode # 0
      BY <3>1, <3>3 DEF Ran
    <3>5. /\ rx \in RxType /\ rx.vad \in VadState /\ past.burst = rx.vad.burst
          /\ (rx.needsReset \/ ~rx.vad.raw)
      BY DEF Safe, RxGood, RxType, Numbered
    <3>6. ~a.raw /\ a.burst = rx.vad.burst
      <4>1. CASE rx.needsReset
        BY <3>5, <4>1, ReceptionAssumption, ResetVad DEF Fresh, Forgotten
      <4>2. CASE ~rx.needsReset
        BY <3>5, <4>2 DEF Fresh
      <4> QED
        BY <4>1, <4>2
    <3> HIDE DEF a
    <3>7. w.r.vad.burst = NextBurst(rx.vad.burst)
      BY <3>4, <3>6 DEF Spoke, Goes
    <3>8. NextBurst(rx.vad.burst) # rx.vad.burst
      BY <3>5, ReceptionAssumption, NextBurstType DEF VadState
    <3> QED
      BY <3>1, <3>3, <3>4, <3>5, <3>7, <3>8
  <2>2. ASSUME NEW c \in Policies, Update(c) PROVE FALSE
    <3>1. out' = [out EXCEPT !.result = "none", !.muted = 0, !.audio = {}, !.edges = {}]
          /\ out \in OutType
      BY <2>2 DEF Update, Safe
    <3> QED
      BY <3>1 DEF OutType
  <2> QED
    BY <2>1, <2>2 DEF Next
<1> QED
  BY <1>1, ReceptionIsSafe, PTL DEF Spec, NewBurstNewId
=============================================================================
