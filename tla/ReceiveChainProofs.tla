------------------------- MODULE ReceiveChainProofs -------------------------
(***************************************************************************)
(* The receive path, for every detector, span length, sample and constant. *)
(***************************************************************************)
EXTENDS ReceiveChain, FiniteSetTheorems, WellFoundedInduction, TLAPS

Added(c, a, x) == Plus(a, x)
HeardBy(c, a, x) == Hear(a, x)
Adding == INSTANCE LeftFold WITH Step <- Added
Heard == INSTANCE LeftFold WITH Step <- HeardBy
Native == INSTANCE LeftFold WITH Step <- FrontendStep
Offset == INSTANCE LeftFold WITH Step <- OffsetStep
Filter == INSTANCE LeftFold WITH Step <- FilterStep
Smooth == INSTANCE LeftFold WITH Step <- SmoothStep
Slice == INSTANCE LeftFold WITH Step <- SliceStep
Meter == INSTANCE LeftFold WITH Step <- MeterStep
Hang == INSTANCE LeftFold WITH Step <- HoldStep
Line == INSTANCE LeftFold WITH Step <- DelayStep
Gate == INSTANCE LeftFold WITH Step <- GateStep
Frames == INSTANCE LeftFold WITH Step <- FrameStep

\* `<' is well-founded on the naturals: every set of them has a least element.
LEMMA LeastIs ==
  /\ Adding!Least /\ Heard!Least /\ Native!Least /\ Offset!Least /\ Filter!Least /\ Smooth!Least
  /\ Slice!Least /\ Meter!Least /\ Hang!Least /\ Line!Least /\ Gate!Least /\ Frames!Least
<1>1. ASSUME NEW T \in SUBSET Nat, T # {}
      PROVE  \E x \in T : \A y \in T : x <= y
  <2> DEFINE R == OpToRel(<, Nat)
  <2>1. IsWellFoundedOn(R, Nat)
    BY NatLessThanWellFounded
  <2>2. \A x, y \in Nat : <<x, y>> \in R <=> x < y
    BY DEF OpToRel
  <2> HIDE DEF R
  <2>3. PICK x \in T : \A y \in T : ~(<<y, x>> \in R)
    BY <1>1, <2>1, WFMin
  <2>4. x \in Nat
    OBVIOUS
  <2>5. ASSUME NEW y \in T PROVE x <= y
    <3>1. y \in Nat
      OBVIOUS
    <3>2. ~(y < x)
      BY <2>2, <2>3, <2>4, <3>1
    <3> QED BY <2>4, <3>1, <3>2
  <2> QED BY <2>5
<1> QED BY <1>1
     DEF Adding!Least, Heard!Least, Native!Least, Offset!Least, Filter!Least, Smooth!Least,
         Slice!Least, Meter!Least, Hang!Least, Line!Least, Gate!Least, Frames!Least

LEMMA TotalIsFold ==
  ASSUME NEW xs
  PROVE  Total(xs) = Adding!Fold(0, 0, xs)
BY DEF Total, Added, Plus, Adding!Fold, FoldLeft, MapThenFoldSet, Max, Adding!Greatest

LEMMA HearIsFold ==
  ASSUME NEW run, NEW xs
  PROVE  FoldLeft(Hear, run, xs) = Heard!Fold(0, run, xs)
BY DEF HeardBy, Heard!Fold, FoldLeft, MapThenFoldSet, Max, Heard!Greatest

LEMMA FrontendIsFold ==
  ASSUME NEW c, NEW front, NEW xs
  PROVE  Frontend(c, front, xs)
           = Native!Fold(c, [front |-> front, base |-> <<>>, gates |-> <<>>], xs)
BY DEF Frontend, Native!Fold, FoldLeft, MapThenFoldSet, Max, Native!Greatest

LEMMA OffsetsAreFold ==
  ASSUME NEW decimate, NEW decimator, NEW n
  PROVE  EmissionOffsets(decimate, decimator, n)
           = Offset!Fold(decimate, [decimator |-> decimator, offsets |-> <<>>],
                         [k \in 1 .. n |-> k]).offsets
BY DEF EmissionOffsets, Offset!Fold, FoldLeft, MapThenFoldSet, Max, Offset!Greatest

LEMMA FilteredIsFold ==
  ASSUME NEW f, NEW h, NEW xs
  PROVE  Filtered(f, h, xs) = Filter!Fold(f, [s |-> h, xs |-> <<>>], xs)
BY DEF Filtered, Filter!Fold, FoldLeft, MapThenFoldSet, Max, Filter!Greatest

LEMMA SmoothedIsFold ==
  ASSUME NEW d, NEW acc, NEW xs
  PROVE  Smoothed(d, acc, xs) = Smooth!Fold(d, [s |-> acc, xs |-> <<>>], xs)
BY DEF Smoothed, Smooth!Fold, FoldLeft, MapThenFoldSet, Max, Smooth!Greatest

LEMMA SlicedIsFold ==
  ASSUME NEW c, NEW center, NEW xs
  PROVE  Sliced(c, center, xs) = Slice!Fold(c, [s |-> center, xs |-> <<>>], xs)
BY DEF Sliced, Slice!Fold, FoldLeft, MapThenFoldSet, Max, Slice!Greatest

LEMMA MeteredIsFold ==
  ASSUME NEW decay, NEW envelope, NEW xs
  PROVE  Metered(decay, envelope, xs) = Meter!Fold(decay, [s |-> envelope, xs |-> <<>>], xs)
BY DEF Metered, Meter!Fold, FoldLeft, MapThenFoldSet, Max, Meter!Greatest

LEMMA HoldIsFold ==
  ASSUME NEW c, NEW v, NEW emissions
  PROVE  HoldOver(c, v, emissions) = Hang!Fold(c, v, emissions)
BY DEF HoldOver, HoldStep, VoxAdvance, Spend, Hang!Fold, FoldLeft, MapThenFoldSet, Max, Hang!Greatest

LEMMA SegmentIsFold ==
  ASSUME NEW d, NEW a, NEW voice, NEW start, NEW end, start # end, ~a.outzero
  PROVE  DelaySegment(d, a, voice, start, end) = Line!Fold(d, a, SubSeq(voice, start + 1, end))
BY DEF DelaySegment, Line!Fold, FoldLeft, MapThenFoldSet, Max, Line!Greatest

LEMMA GatedIsFold ==
  ASSUME NEW span, NEW lag, NEW boundaries
  PROVE  Gated(span, lag, boundaries)
           = LET a == Gate!Fold(span, [from |-> 0, lag |-> lag], boundaries)
             IN  DelaySegment(span.delay, a.lag, span.voice, a.from, Len(span.offsets))
BY DEF Gated, Gate!Fold, FoldLeft, MapThenFoldSet, Max, Gate!Greatest

LEMMA FramesAreFold ==
  ASSUME NEW c, NEW p, NEW xs, NEW external
  PROVE  FrameByFrame(c, p, xs, external)
           = Frames!Fold([cfg |-> c, external |-> external], [p |-> p, out |-> Silent], xs)
BY DEF FrameByFrame, Frames!Fold, FoldLeft, MapThenFoldSet, Max, Frames!Greatest
----------------------------------------------------------------------------
(* Lists of anything *)

IsList(xs, n) == xs = [i \in 1 .. n |-> xs[i]]

LEMMA ListIs ==
  ASSUME NEW n \in Nat, NEW xs, IsList(xs, n)
  PROVE  /\ xs \in Seq({xs[i] : i \in 1 .. n})
         /\ Len(xs) = n /\ DOMAIN xs = 1 .. n
<1> DEFINE S == {xs[i] : i \in 1 .. n}
<1>1. xs \in [1 .. n -> S]
  BY DEF IsList
<1>2. xs \in Seq(S)
  BY <1>1
<1>3. Len(xs) = n
  BY <1>1, <1>2
<1> QED BY <1>1, <1>2, <1>3

LEMMA AppendList ==
  ASSUME NEW n \in Nat, NEW xs, IsList(xs, n), NEW x
  PROVE  /\ IsList(Append(xs, x), n + 1)
         /\ Append(xs, x)[n + 1] = x /\ \A i \in 1 .. n : Append(xs, x)[i] = xs[i]
<1> DEFINE S == {xs[i] : i \in 1 .. n} \cup {x}
           ys == Append(xs, x)
<1>1. xs \in Seq(S) /\ Len(xs) = n
  <2>1. xs \in [1 .. n -> S]
    BY DEF IsList
  <2> QED BY <2>1, ListIs
<1>2. ys \in Seq(S) /\ Len(ys) = n + 1 /\ ys[n + 1] = x /\ \A i \in 1 .. n : ys[i] = xs[i]
  BY <1>1
<1> HIDE DEF ys
<1>3. ys = [i \in 1 .. n + 1 |-> ys[i]]
  BY <1>2
<1> QED BY <1>2, <1>3 DEF IsList, ys

LEMMA JoinList ==
  ASSUME NEW n \in Nat, NEW xs, IsList(xs, n), NEW x
  PROVE  xs \o <<>> = xs /\ xs \o <<x>> = Append(xs, x)
<1> DEFINE S == {xs[i] : i \in 1 .. n} \cup {x}
<1>1. xs \in Seq(S)
  <2>1. xs \in [1 .. n -> S]
    BY DEF IsList
  <2> QED BY <2>1
<1>2. x \in S
  OBVIOUS
<1> HIDE DEF S
<1> QED BY <1>1, <1>2

LEMMA ShortLists == IsList(<<>>, 0) /\ \A x : IsList(<<x>>, 1) /\ Len(<<x>>) = 1
BY DEF IsList
----------------------------------------------------------------------------
(* Fixed-point arithmetic stays where it should *)

LEMMA Constants ==
  /\ Half \in Nat \ {0} /\ ByteBase \in Nat \ {0} /\ WordHalf \in Nat \ {0}
  /\ GainUnit \in Nat \ {0} /\ 2 * Half = ByteBase * ByteBase
BY StagesAssumption DEF StagesAssumption

LEMMA WrapIn ==
  ASSUME NEW x \in Int, NEW half \in Nat \ {0}
  PROVE  Wrap(x, half) \in -half .. half - 1
<1> DEFINE m == 2 * half
           y == x + half
<1>1. m \in Nat /\ m > 0 /\ y \in Int
  OBVIOUS
<1> HIDE DEF m, y
<1>2. y % m \in 0 .. m - 1
  BY <1>1
<1>3. (y % m) - half \in -half .. half - 1
  BY <1>2 DEF m
<1> QED BY <1>3 DEF Wrap, m, y

LEMMA WrapSame ==
  ASSUME NEW half \in Nat \ {0}, NEW x \in -half .. half - 1
  PROVE  Wrap(x, half) = x
<1> DEFINE m == 2 * half
           y == x + half
<1>1. m \in Nat /\ m > 0 /\ y \in 0 .. m - 1
  OBVIOUS
<1> HIDE DEF m, y
<1>2. y % m = y
  BY <1>1
<1>3. y - half = x
  BY DEF y
<1> QED BY <1>2, <1>3 DEF Wrap, m, y

LEMMA QuotientIn ==
  ASSUME NEW a \in Int, NEW b \in Nat \ {0}
  PROVE  Quotient(a, b) \in Int
<1>1. a \div b \in Int /\ (-a) \div b \in Int
  OBVIOUS
<1> QED BY <1>1 DEF Quotient

LEMMA TotalIn ==
  ASSUME NEW n \in Nat, NEW xs \in [1 .. n -> Int]
  PROVE  Total(xs) \in Int
<1>1. PICK t : Adding!Trajectory(0, 0, xs, n, t) /\ t[n] = Adding!Fold(0, 0, xs)
  <2>1. DOMAIN xs = 1 .. n
    OBVIOUS
  <2> QED BY <2>1, LeastIs, Adding!FoldSteps, Zenon
<1> DEFINE T == {k \in 0 .. n : t[k] \in Int}
<1>2. 0 \in T
  BY <1>1 DEF Adding!Trajectory
<1>3. ASSUME NEW k \in 1 .. n, k - 1 \in T PROVE k \in T
  <2>1. t[k] = Added(0, t[k - 1], xs[k]) /\ t[k - 1] \in Int
    BY <1>1, <1>3 DEF Adding!Trajectory
  <2> QED BY <2>1 DEF Added, Plus
<1> HIDE DEF T
<1>4. \A k \in 0 .. n : k \in T
  BY <1>2, <1>3, LeastIs, Adding!Upwards, Zenon
<1>5. t[n] \in Int
  BY <1>4 DEF T
<1> QED BY <1>1, <1>5, TotalIsFold

LEMMA DotIn ==
  ASSUME NEW taps \in Seq(Int), NEW h, \A i \in 1 .. Len(taps) : h[i] \in Int
  PROVE  Dot(taps, h) \in Int
<1>1. [i \in DOMAIN taps |-> taps[i] * h[i]] \in [1 .. Len(taps) -> Int]
  OBVIOUS
<1>2. Len(taps) \in Nat
  OBVIOUS
<1> QED BY <1>1, <1>2, TotalIn DEF Dot

LEMMA RailIn ==
  ASSUME NEW x \in Int, NEW adjust \in Nat \ {0}, NEW gain \in Int
  PROVE  Rail(x, adjust, gain) \in Codes
<1>1. Quotient(x, adjust) * gain \in Int
  BY QuotientIn
<1>2. Quotient(Quotient(x, adjust) * gain, GainUnit) \in Int
  BY <1>1, QuotientIn, Constants
<1> QED BY <1>2, Constants DEF Rail, Between, Codes
----------------------------------------------------------------------------
(* The frontend *)

\* The bytes the historical shift never reaches are zero.
Dead(h) == \A k \in DOMAIN h : k > Entries(h) + 1 => h[k] = 0

FrontOK(c, f) ==
  /\ f = [history |-> f.history, decimator |-> f.decimator, closed |-> f.closed,
          power |-> f.power, samples |-> f.samples, rssi |-> f.rssi]
  /\ f.history \in [1 .. 2 * Len(c.baseTaps) -> Int] /\ Dead(f.history)
  /\ f.decimator \in Nat \ {0}

LEMMA ConfigFacts ==
  ASSUME NEW c \in Configs
  PROVE  /\ c.baseTaps \in Seq(Int) /\ Len(c.baseTaps) \in Nat \ {0}
         /\ c.baseAdjust \in Nat \ {0} /\ c.baseGain \in Int
         /\ c.decimate \in Nat \ {0}
         /\ c.lsd \in FilterConfig /\ Len(c.lsd.taps) \in Nat \ {0}
         /\ c.slicer \in CenterSlicerConfig /\ c.vox \in VoxConfig
         /\ c.ctcss \in BOOLEAN /\ c.dcs \in BOOLEAN /\ c.saver \in BOOLEAN
         /\ c.saver => ~HasVoice(c)
         /\ HasDelay(c) => HasVoice(c)
<1>1. c \in Config /\ Accepted(c)
  BY PathAssumption DEF PathAssumption
<1>2. c.baseTaps \in Seq(Int) /\ c.baseTaps # <<>>
  BY <1>1 DEF Config, Accepted
<1>3. c.lsd \in FilterConfig /\ c.lsd.taps \in Seq(Int) /\ c.lsd.taps # <<>>
  BY <1>1 DEF Config, FilterConfig, Accepted
<1>4. \A s \in Seq(Int) : s # <<>> => Len(s) \in Nat \ {0}
  OBVIOUS
<1>5. Len(c.baseTaps) \in Nat \ {0} /\ Len(c.lsd.taps) \in Nat \ {0}
  BY <1>2, <1>3, <1>4
<1>6. /\ c.baseAdjust \in Nat \ {0} /\ c.baseGain \in Int /\ c.decimate \in Nat \ {0}
      /\ c.slicer \in CenterSlicerConfig /\ c.vox \in VoxConfig
      /\ c.ctcss \in BOOLEAN /\ c.dcs \in BOOLEAN /\ c.saver \in BOOLEAN
  BY <1>1 DEF Config
<1> QED BY <1>1, <1>2, <1>3, <1>5, <1>6 DEF Accepted

LEMMA EntriesIs ==
  ASSUME NEW e \in Nat, NEW h \in [1 .. 2 * e -> Int]
  PROVE  Entries(h) = e /\ Len(h) = 2 * e /\ DOMAIN h = 1 .. 2 * e
<1>1. 2 * e \in Nat /\ (2 * e) \div 2 = e
  OBVIOUS
<1>2. Len(h) = 2 * e
  BY <1>1
<1> QED BY <1>1, <1>2 DEF Entries

LEMMA HistoryShifts ==
  ASSUME NEW e \in Nat \ {0}, NEW h \in [1 .. 2 * e -> Int], Dead(h), NEW x \in Int
  PROVE  /\ LegacyHistoryShift(h, PcmCode(x)) \in [1 .. 2 * e -> Int]
         /\ Dead(LegacyHistoryShift(h, PcmCode(x)))
<1> DEFINE y == PcmCode(x)
           g == LegacyHistoryShift(h, y)
<1>1. y \in Int
  BY Constants DEF PcmCode, Between
<1>2. \A f \in [1 .. 2 * e -> Int] : Entries(f) = e /\ DOMAIN f = 1 .. 2 * e
  BY EntriesIs
<1> HIDE DEF y
<1>3. CodeBytes(y)[1] \in Int /\ CodeBytes(y)[2] \in Int
  <2>1. y % ByteBase \in Int
    BY <1>1, Constants
  <2>2. y % (2 * Half) \in Int
    <3> DEFINE m == 2 * Half
    <3>1. m \in Nat \ {0}
      BY Constants
    <3> HIDE DEF m
    <3>2. y % m \in Int
      BY <1>1, <3>1
    <3> QED BY <3>2 DEF m
  <2>3. (y % (2 * Half)) \div ByteBase \in Int
    BY <2>2, Constants
  <2> QED BY <2>1, <2>3 DEF CodeBytes
<1>4. ASSUME NEW k \in 1 .. 2 * e PROVE g[k] \in Int
  <2>1. CASE k <= 2
    <3>1. k = 1 \/ k = 2
      BY <2>1
    <3> QED BY <1>2, <1>3, <2>1, <3>1 DEF LegacyHistoryShift
  <2>2. CASE k > 2 /\ k <= e + 1
    <3>1. k - 2 \in 1 .. 2 * e
      BY <2>2
    <3> QED BY <1>2, <2>2, <3>1 DEF LegacyHistoryShift
  <2>3. CASE k > e + 1
    <3>1. k > 2
      BY <2>3
    <3> QED BY <1>2, <2>3, <3>1 DEF LegacyHistoryShift
  <2> QED BY <2>1, <2>2, <2>3
<1>5. g \in [1 .. 2 * e -> Int]
  BY <1>2, <1>4 DEF LegacyHistoryShift
<1>6. ASSUME NEW k \in 1 .. 2 * e, k > e + 1 PROVE g[k] = 0
  <2>1. k > 2 /\ h[k] = 0
    BY <1>2, <1>6 DEF Dead
  <2> QED BY <1>2, <1>6, <2>1 DEF LegacyHistoryShift
<1>7. Dead(g)
  BY <1>2, <1>5, <1>6 DEF Dead
<1> QED BY <1>5, <1>7 DEF y

LEMMA NoiseKeeps ==
  ASSUME NEW c, NEW f
  PROVE  LET g == AdvanceNoise(c, f)
         IN  /\ g = [history |-> f.history, decimator |-> f.decimator, closed |-> g.closed,
                     power |-> g.power, samples |-> g.samples, rssi |-> g.rssi]
             /\ g.history = f.history /\ g.decimator = f.decimator
BY DEF AdvanceNoise

LEMMA FrontendSampleIs ==
  ASSUME NEW c \in Configs, NEW f, FrontOK(c, f), NEW x \in Int
  PROVE  LET g == FrontendSample(c, f, x)
         IN  /\ FrontOK(c, g)
             /\ g.decimator = IF f.decimator <= 1 THEN c.decimate ELSE f.decimator - 1
             /\ BasebandSample(c, g.history) \in Codes
<1> DEFINE h == LegacyHistoryShift(f.history, PcmCode(x))
           d == IF f.decimator <= 1 THEN c.decimate ELSE f.decimator - 1
           k == [history |-> h, decimator |-> d, closed |-> f.closed,
                 power |-> f.power, samples |-> f.samples, rssi |-> f.rssi]
           e == Len(c.baseTaps)
           g == FrontendSample(c, f, x)
<1>1. e \in Nat \ {0} /\ c.decimate \in Nat \ {0}
  BY ConfigFacts
<1>2. h \in [1 .. 2 * e -> Int] /\ Dead(h)
  <2> HIDE DEF e
  <2>1. f.history \in [1 .. 2 * e -> Int] /\ Dead(f.history)
    BY DEF FrontOK, e
  <2> QED BY <1>1, <2>1, HistoryShifts
<1>3. d \in Nat \ {0}
  BY <1>1 DEF FrontOK
<1>5. g = IF c.carrier = "noise" THEN AdvanceNoise(c, k) ELSE k
  BY DEF FrontendSample
<1> HIDE DEF h, d
<1>6. /\ g = [history |-> h, decimator |-> d, closed |-> g.closed,
              power |-> g.power, samples |-> g.samples, rssi |-> g.rssi]
      /\ g.history = h /\ g.decimator = d
  <2>1. /\ k = [history |-> k.history, decimator |-> k.decimator, closed |-> k.closed,
                power |-> k.power, samples |-> k.samples, rssi |-> k.rssi]
        /\ k.history = h /\ k.decimator = d
    OBVIOUS
  <2> HIDE DEF k, g
  <2>2. CASE c.carrier = "noise"
    <3>1. g = AdvanceNoise(c, k)
      BY <1>5, <2>2
    <3> QED BY <2>1, <3>1, NoiseKeeps
  <2>3. CASE c.carrier # "noise"
    BY <1>5, <2>1, <2>3
  <2> QED BY <2>2, <2>3
<1>7. BasebandSample(c, h) \in Codes
  <2>1. \A i \in 1 .. e : EntriesOf(h)[i] \in Int
    <3>1. Entries(h) = e
      <4> HIDE DEF e
      <4> QED BY <1>1, <1>2, EntriesIs
    <3>2. ASSUME NEW i \in 1 .. e PROVE Entry(h, i) \in Int
      <4>1. 2 * i - 1 \in 1 .. 2 * e /\ 2 * i \in 1 .. 2 * e
        BY <1>1
      <4>2. h[2 * i - 1] + ByteBase * h[2 * i] \in Int
        BY <1>2, <4>1, Constants
      <4> QED BY <4>2, WrapIn, Constants DEF Entry, Narrow
    <3> QED BY <3>1, <3>2 DEF EntriesOf
  <2>2. Dot(c.baseTaps, EntriesOf(h)) \in Int
    BY <2>1, DotIn, ConfigFacts
  <2> QED BY <2>2, RailIn, ConfigFacts DEF BasebandSample
<1> HIDE DEF g, k
<1>8. FrontOK(c, g)
  BY <1>2, <1>3, <1>6 DEF FrontOK, e
<1>9. g.decimator = IF f.decimator <= 1 THEN c.decimate ELSE f.decimator - 1
  BY <1>6 DEF d
<1> QED BY <1>6, <1>7, <1>8, <1>9 DEF g

\* The frontend over a span, and the decimator run a second time: as many offsets
\* as samples, none outside the span, and an interval between emissions.
SpanOK(c, k, a, o) ==
  /\ a = [front |-> a.front, base |-> a.base, gates |-> a.gates]
  /\ FrontOK(c, a.front) /\ a.base \in Seq(Codes) /\ IsList(a.gates, k)
  /\ o = [decimator |-> a.front.decimator, offsets |-> o.offsets]
  /\ o.offsets \in Seq(1 .. k) /\ Len(o.offsets) = Len(a.base)
  /\ Len(a.base) = 0 \/ /\ a.front.decimator <= c.decimate
                        /\ Len(a.base) * c.decimate + 1 - a.front.decimator <= k

LEMMA SpanMade ==
  ASSUME NEW c, NEW k, NEW a, NEW o,
         a = [front |-> a.front, base |-> a.base, gates |-> a.gates],
         FrontOK(c, a.front), a.base \in Seq(Codes), IsList(a.gates, k),
         o = [decimator |-> a.front.decimator, offsets |-> o.offsets],
         o.offsets \in Seq(1 .. k), Len(o.offsets) = Len(a.base),
         Len(a.base) = 0 \/ /\ a.front.decimator <= c.decimate
                            /\ Len(a.base) * c.decimate + 1 - a.front.decimator <= k
  PROVE  SpanOK(c, k, a, o)
BY Zenon DEF SpanOK

LEMMA SpanStarts ==
  ASSUME NEW c, NEW f, FrontOK(c, f)
  PROVE  SpanOK(c, 0, [front |-> f, base |-> <<>>, gates |-> <<>>],
                [decimator |-> f.decimator, offsets |-> <<>>])
BY ShortLists DEF SpanOK

LEMMA SpanSteps ==
  ASSUME NEW c \in Configs, NEW k \in Nat, NEW a, NEW o, SpanOK(c, k, a, o), NEW x \in Int
  PROVE  SpanOK(c, k + 1, FrontendStep(c, a, x), OffsetStep(c.decimate, o, k + 1))
<1> DEFINE b == FrontendStep(c, a, x)
           r == OffsetStep(c.decimate, o, k + 1)
           g == FrontendSample(c, a.front, x)
           gate == c.carrier = "noise" /\ ~g.closed
           y == BasebandSample(c, g.history)
<1>1. /\ FrontOK(c, g) /\ y \in Codes
      /\ g.decimator = IF a.front.decimator <= 1 THEN c.decimate ELSE a.front.decimator - 1
  BY FrontendSampleIs DEF SpanOK
<1>2. /\ a.front.decimator \in Nat \ {0} /\ g.decimator \in Nat \ {0}
      /\ c.decimate \in Nat \ {0} /\ Len(a.base) \in Nat /\ Len(o.offsets) = Len(a.base)
  BY <1>1, ConfigFacts DEF SpanOK, FrontOK
<1>3. b = [front |-> g, base |-> IF a.front.decimator <= 1 THEN Append(a.base, y) ELSE a.base,
           gates |-> Append(a.gates, gate)]
  BY DEF FrontendStep, Emits
<1>4. r = [decimator |-> g.decimator,
           offsets |-> IF a.front.decimator <= 1 THEN Append(o.offsets, k + 1) ELSE o.offsets]
  <2>1. o.decimator = a.front.decimator
    BY DEF SpanOK
  <2> HIDE DEF g
  <2> QED BY <1>1, <2>1 DEF OffsetStep
<1>5. IsList(Append(a.gates, gate), k + 1)
  BY AppendList DEF SpanOK
<1> HIDE DEF b, r, g, y, gate
<1>b. /\ b = [front |-> b.front, base |-> b.base, gates |-> b.gates]
      /\ b.front = g /\ b.gates = Append(a.gates, gate)
      /\ r = [decimator |-> g.decimator, offsets |-> r.offsets]
  <2> QED BY <1>3, <1>4
<1>6. o.offsets \in Seq(1 .. k + 1) /\ a.base \in Seq(Codes)
  <2>1. o.offsets \in Seq(1 .. k)
    BY DEF SpanOK
  <2> QED BY <2>1 DEF SpanOK
<1>7. CASE a.front.decimator <= 1
  <2>1. b.base = Append(a.base, y) /\ r.offsets = Append(o.offsets, k + 1)
    BY <1>3, <1>4, <1>7
  <2>2. b.base \in Seq(Codes) /\ Len(b.base) = Len(a.base) + 1
    BY <1>1, <1>6, <2>1
  <2>3. r.offsets \in Seq(1 .. k + 1) /\ Len(r.offsets) = Len(o.offsets) + 1
    BY <1>6, <2>1
  <2>4. Len(b.base) * c.decimate + 1 - g.decimator <= k + 1
    <3> DEFINE l == Len(a.base)
               d == c.decimate
    <3>1. l = 0 \/ l * d + 1 - a.front.decimator <= k
      BY DEF SpanOK
    <3>2. l \in Nat /\ d \in Nat \ {0} /\ g.decimator = d /\ a.front.decimator = 1
      BY <1>1, <1>2, <1>7
    <3>3. Len(b.base) = l + 1
      BY <2>2
    <3> HIDE DEF l, d
    <3>4. (l + 1) * d = l * d + d /\ l * d \in Nat /\ 0 * d = 0
      BY <3>2
    <3>5. l * d <= k
      BY <3>1, <3>2, <3>4
    <3> QED BY <3>2, <3>3, <3>4, <3>5 DEF d
  <2>5. g.decimator <= c.decimate
    BY <1>1, <1>2, <1>7
  <2>7. FrontOK(c, b.front) /\ IsList(b.gates, k + 1)
    BY <1>1, <1>b, <1>5
  <2>8. r = [decimator |-> b.front.decimator, offsets |-> r.offsets]
    BY <1>b
  <2>9. /\ Len(r.offsets) = Len(b.base)
        /\ r.offsets \in Seq(1 .. k + 1) /\ b.base \in Seq(Codes)
        /\ Len(b.base) = 0 \/ /\ b.front.decimator <= c.decimate
                              /\ Len(b.base) * c.decimate + 1 - b.front.decimator <= k + 1
    BY <1>1, <1>2, <1>b, <1>5, <2>2, <2>3, <2>4, <2>5
  <2>10. b = [front |-> b.front, base |-> b.base, gates |-> b.gates]
    BY <1>b
  <2>11. SpanOK(c, k + 1, b, r)
    BY <2>7, <2>8, <2>9, <2>10, SpanMade
  <2> QED BY <2>11 DEF b, r
<1>8. CASE a.front.decimator > 1
  <2>1. b.base = a.base /\ r.offsets = o.offsets /\ g.decimator = a.front.decimator - 1
    BY <1>1, <1>2, <1>3, <1>4, <1>8
  <2>2. Len(b.base) = 0 \/ /\ g.decimator <= c.decimate
                           /\ Len(b.base) * c.decimate + 1 - g.decimator <= k + 1
    <3> DEFINE m == Len(a.base) * c.decimate
    <3>1. Len(a.base) = 0 \/ (a.front.decimator <= c.decimate /\ m + 1 - a.front.decimator <= k)
      BY DEF SpanOK
    <3>2. m \in Nat
      BY <1>2
    <3>3. m = Len(b.base) * c.decimate
      BY <2>1
    <3> HIDE DEF m
    <3>4. CASE a.front.decimator <= c.decimate /\ m + 1 - a.front.decimator <= k
      <4>1. g.decimator <= c.decimate /\ m + 1 - g.decimator <= k + 1
        BY <1>2, <2>1, <3>2, <3>4
      <4> QED BY <3>3, <4>1
    <3> QED BY <2>1, <3>1, <3>4
  <2>7. FrontOK(c, b.front) /\ IsList(b.gates, k + 1)
    BY <1>1, <1>b, <1>5
  <2>8. r = [decimator |-> b.front.decimator, offsets |-> r.offsets]
    BY <1>b
  <2>9. /\ Len(r.offsets) = Len(b.base)
        /\ r.offsets \in Seq(1 .. k + 1) /\ b.base \in Seq(Codes)
        /\ Len(b.base) = 0 \/ /\ b.front.decimator <= c.decimate
                              /\ Len(b.base) * c.decimate + 1 - b.front.decimator <= k + 1
    BY <1>1, <1>2, <1>b, <1>5, <1>6, <2>1, <2>2
  <2>10. b = [front |-> b.front, base |-> b.base, gates |-> b.gates]
    BY <1>b
  <2>11. SpanOK(c, k + 1, b, r)
    BY <2>7, <2>8, <2>9, <2>10, SpanMade
  <2> QED BY <2>11 DEF b, r
<1> QED BY <1>2, <1>7, <1>8 DEF b, r

LEMMA SpanFolds ==
  ASSUME NEW c \in Configs, NEW f, FrontOK(c, f), NEW n \in Nat, NEW xs \in [1 .. n -> Int]
  PROVE  SpanOK(c, n, Frontend(c, f, xs),
                Offset!Fold(c.decimate, [decimator |-> f.decimator, offsets |-> <<>>],
                            [k \in 1 .. n |-> k]))
<1> DEFINE a0 == [front |-> f, base |-> <<>>, gates |-> <<>>]
           o0 == [decimator |-> f.decimator, offsets |-> <<>>]
           ks == [k \in 1 .. n |-> k]
<1>0. DOMAIN xs = 1 .. n /\ DOMAIN ks = 1 .. n
  OBVIOUS
<1>1. SpanOK(c, 0, a0, o0)
  BY SpanStarts
<1>2. Frontend(c, f, xs) = Native!Fold(c, a0, xs)
  BY FrontendIsFold
<1>a. \A k \in 1 .. n : ks[k] = k
  OBVIOUS
<1> HIDE DEF a0, o0, ks
<1>4. PICK t : Native!Trajectory(c, a0, xs, n, t) /\ t[n] = Native!Fold(c, a0, xs)
  BY <1>0, LeastIs, Native!FoldSteps, Zenon
<1>5. PICK u : Offset!Trajectory(c.decimate, o0, ks, n, u) /\ u[n] = Offset!Fold(c.decimate, o0, ks)
  BY <1>0, LeastIs, Offset!FoldSteps, Zenon
<1> DEFINE T == {k \in 0 .. n : SpanOK(c, k, t[k], u[k])}
<1>6. 0 \in T
  BY <1>1, <1>4, <1>5 DEF Native!Trajectory, Offset!Trajectory
<1>7. ASSUME NEW k \in 1 .. n, k - 1 \in T PROVE k \in T
  <2> DEFINE j == k - 1
  <2>1. j \in Nat /\ k = j + 1 /\ xs[k] \in Int
    OBVIOUS
  <2>2. SpanOK(c, j, t[j], u[j])
    BY <1>7
  <2>3. t[k] = FrontendStep(c, t[j], xs[k])
    BY <1>4 DEF Native!Trajectory
  <2>4. u[k] = OffsetStep(c.decimate, u[j], k)
    BY <1>5, <1>a DEF Offset!Trajectory
  <2> HIDE DEF j
  <2>5. SpanOK(c, j + 1, FrontendStep(c, t[j], xs[k]), OffsetStep(c.decimate, u[j], j + 1))
    BY <2>1, <2>2, SpanSteps
  <2>6. SpanOK(c, k, t[k], u[k])
    BY <2>1, <2>3, <2>4, <2>5
  <2> QED BY <2>6
<1> HIDE DEF T
<1>8. \A k \in 0 .. n : k \in T
  BY <1>6, <1>7, LeastIs, Native!Upwards, Zenon
<1>9. SpanOK(c, n, t[n], u[n])
  BY <1>8 DEF T
<1> QED BY <1>2, <1>4, <1>5, <1>9 DEF o0, ks

LEMMA SpanKeeps ==
  ASSUME NEW c \in Configs, NEW f, FrontOK(c, f), NEW n \in Nat, NEW xs \in [1 .. n -> Int]
  PROVE  \E o : /\ SpanOK(c, n, Frontend(c, f, xs), o)
                /\ o.offsets = EmissionOffsets(c.decimate, f.decimator, n)
BY SpanFolds, OffsetsAreFold

\* There is room in the workspaces for what a callback emits.
LEMMA DivisionBounds ==
  ASSUME NEW d \in Nat \ {0}, NEW l \in Nat, NEW m \in Nat, l * d <= m
  PROVE  l <= m \div d
<1> DEFINE q == m \div d
<1>1. q \in Nat /\ m < d * q + d
  BY DEF q
<1> HIDE DEF q
<1>2. CASE l >= q + 1
  <2>1. PICK e \in Nat : l = q + 1 + e
    <3>1. l - q - 1 \in Nat /\ l = q + 1 + (l - q - 1)
      BY <1>1, <1>2
    <3> QED BY <3>1
  <2>2. l * d = d * q + d + e * d /\ e * d \in Nat
    BY <1>1, <2>1
  <2>3. d * q \in Nat
    BY <1>1
  <2> QED BY <1>1, <2>2, <2>3
<1> QED BY <1>1, <1>2 DEF q

LEMMA BasebandFits ==
  ASSUME NEW c \in Configs, NEW k \in 1 .. MaxFrames, NEW a, NEW o, SpanOK(c, k, a, o)
  PROVE  Len(a.base) <= BasebandCapacity(c)
<1> DEFINE l == Len(a.base)
           d == c.decimate
           m == MaxFrames + 2 * d - 2
<1>1. d \in Nat \ {0} /\ l \in Nat /\ MaxFrames \in Nat \ {0} /\ m \in Nat
  BY ConfigFacts, PathAssumption DEF PathAssumption, SpanOK
<1>2. l = 0 \/ (a.front.decimator <= d /\ l * d + 1 - a.front.decimator <= k)
  BY DEF SpanOK
<1>3. a.front.decimator \in Nat
  BY DEF SpanOK, FrontOK
<1>4. 0 * d = 0 /\ l * d \in Nat
  BY <1>1
<1>5. m - (MaxFrames + d - 1) \in Nat
  BY <1>1
<1> HIDE DEF l, d, m
<1>6. l * d <= m
  BY <1>1, <1>2, <1>3, <1>4, <1>5
<1> QED BY <1>1, <1>6, DivisionBounds DEF BasebandCapacity, l, d, m
----------------------------------------------------------------------------
(* The slicer *)

\* The extrema are codes in their order, no further apart than half the codes.
CenterOK(s) ==
  /\ s = [maximum |-> s.maximum, minimum |-> s.minimum, peak |-> s.peak]
  /\ s.maximum \in Codes /\ s.minimum \in Codes /\ s.peak \in Codes
  /\ s.minimum <= s.maximum /\ s.maximum - s.minimum <= Half - 1

LEMMA HalfIs ==
  ASSUME NEW a \in Int
  PROVE  /\ Quotient(a, 2) \in Int /\ 2 * Quotient(a, 2) - a \in -1 .. 1
         /\ a >= 0 => 2 * Quotient(a, 2) <= a
         /\ a <= 0 => 2 * Quotient(a, 2) >= a
BY DEF Quotient

LEMMA TrackKeeps ==
  ASSUME NEW c \in CenterSlicerConfig, NEW s, CenterOK(s), NEW x \in Codes
  PROVE  LET t == Track(c, s, x)
         IN  /\ t.maximum \in Codes /\ t.minimum \in Codes
             /\ t.minimum <= x /\ x <= t.maximum /\ t.maximum - t.minimum <= Half - 1
<1> USE Constants DEF Codes
<1>1. c.setpoint \in 0 .. Half - 1
  BY DEF CenterSlicerConfig
<1>2. CASE x > s.maximum
  <2> DEFINE low == IF s.minimum < x - c.setpoint THEN x - c.setpoint ELSE s.minimum
  <2>1. Track(c, s, x) = [maximum |-> x, minimum |-> low, peak |-> s.peak]
    BY <1>2 DEF Track, CenterOK
  <2>2. low \in Codes /\ low <= x /\ x - low <= Half - 1
    BY <1>1, <1>2 DEF CenterOK
  <2> HIDE DEF low
  <2> QED BY <2>1, <2>2
<1>3. CASE x < s.minimum
  <2> DEFINE high == IF s.maximum > x + c.setpoint THEN x + c.setpoint ELSE s.maximum
  <2>1. Track(c, s, x) = [maximum |-> high, minimum |-> x, peak |-> s.peak]
    BY <1>3 DEF Track, CenterOK
  <2>2. high \in Codes /\ x <= high /\ high - x <= Half - 1
    BY <1>1, <1>3 DEF CenterOK
  <2> HIDE DEF high
  <2> QED BY <2>1, <2>2
<1>4. CASE s.minimum <= x /\ x <= s.maximum
  <2>1. Track(c, s, x) = s
    BY <1>4 DEF Track, CenterOK
  <2> QED BY <1>4, <2>1 DEF CenterOK
<1> QED BY <1>2, <1>3, <1>4 DEF CenterOK

LEMMA DischargeKeeps ==
  ASSUME NEW c \in CenterSlicerConfig, NEW t, NEW x \in Codes,
         t.maximum \in Codes, t.minimum \in Codes, t.minimum <= x, x <= t.maximum,
         t.maximum - t.minimum <= Half - 1
  PROVE  CenterOK(Discharge(c, t)) /\ Centered(Discharge(c, t), x) \in Codes
<1> USE Constants DEF Codes
<1> DEFINE max == IF t.maximum - c.decay < t.minimum THEN t.minimum ELSE t.maximum - c.decay
           min == IF t.minimum + c.decay > max THEN max ELSE t.minimum + c.decay
           s == Discharge(c, t)
<1>1. c.decay \in Nat
  BY DEF CenterSlicerConfig
<1>2. max \in t.minimum .. t.maximum
  BY <1>1
<1>3. min \in t.minimum .. max
  BY <1>1, <1>2
<1>4. s = [maximum |-> max, minimum |-> min, peak |-> Quotient(max - min, 2)]
  BY DEF Discharge
<1> HIDE DEF max, min, s
<1>5. max \in Codes /\ min \in Codes /\ max - min \in 0 .. Half - 1
  BY <1>2, <1>3
<1>6. Quotient(max - min, 2) \in Codes
  <2> DEFINE d == max - min
  <2>1. d \in Int /\ d \in 0 .. Half - 1
    BY <1>5
  <2> HIDE DEF d
  <2>2. Quotient(d, 2) \in Int /\ 2 * Quotient(d, 2) - d \in -1 .. 1 /\ 2 * Quotient(d, 2) <= d
    BY <2>1, HalfIs
  <2>3. Quotient(d, 2) \in Codes
    BY <2>1, <2>2
  <2> QED BY <2>3 DEF d
<1>7. x - Quotient(max + min, 2) \in Codes
  <2> DEFINE d == max + min
             q == Quotient(d, 2)
  <2>1. d \in Int /\ 2 * t.minimum <= d /\ d <= 2 * t.maximum
    BY <1>2, <1>3
  <2> HIDE DEF d
  <2>2. q \in Int /\ 2 * q - d \in -1 .. 1
    BY <2>1, HalfIs
  <2> HIDE DEF q
  <2>3. t.minimum <= q /\ q <= t.maximum
    BY <2>1, <2>2
  <2>4. x - q \in Codes
    BY <2>2, <2>3
  <2> QED BY <2>4 DEF q, d
<1>8. CenterOK(s)
  BY <1>2, <1>3, <1>4, <1>5, <1>6 DEF CenterOK
<1>9. Centered(s, x) \in Codes
  BY <1>4, <1>7 DEF Centered
<1> QED BY <1>8, <1>9 DEF s

LEMMA SliceStateKeeps ==
  ASSUME NEW c \in CenterSlicerConfig, NEW s, CenterOK(s), NEW x \in Codes
  PROVE  CenterOK(SliceState(c, s, x)) /\ Centered(SliceState(c, s, x), x) \in Codes
<1> DEFINE t == Track(c, s, x)
<1>1. /\ t.maximum \in Codes /\ t.minimum \in Codes
      /\ t.minimum <= x /\ x <= t.maximum /\ t.maximum - t.minimum <= Half - 1
  BY TrackKeeps
<1> HIDE DEF t
<1>2. CenterOK(Discharge(c, t)) /\ Centered(Discharge(c, t), x) \in Codes
  BY <1>1, DischargeKeeps
<1> QED BY <1>2 DEF SliceState, t

\* Extrema that fit are not changed by narrowing them.
LEMMA NarrowingNothing ==
  ASSUME NEW s, CenterOK(s)
  PROVE  SliceNarrowed(s) = s
<1>1. \A x \in Codes : Narrow(x) = x
  BY WrapSame, Constants DEF Narrow, Codes
<1> QED BY <1>1 DEF SliceNarrowed, CenterOK
----------------------------------------------------------------------------
(* The stages of the low-speed and voice paths *)

LEMMA StagesEmit ==
  \A c : Filter!Emitting(c) /\ Smooth!Emitting(c) /\ Slice!Emitting(c) /\ Meter!Emitting(c)
<1>1. ASSUME NEW c, NEW s, NEW x
      PROVE  Filter!Moves(c, s, x) /\ Smooth!Moves(c, s, x) /\ Slice!Moves(c, s, x)
               /\ Meter!Moves(c, s, x)
  <2>1. Filter!Moves(c, s, x)
    BY DEF Filter!Moves, FilterStep
  <2>2. Smooth!Moves(c, s, x)
    BY DEF Smooth!Moves, SmoothStep
  <2>3. Slice!Moves(c, s, x)
    BY DEF Slice!Moves, SliceStep
  <2>4. Meter!Moves(c, s, x)
    BY DEF Meter!Moves, MeterStep
  <2> QED BY <2>1, <2>2, <2>3, <2>4
<1> QED BY <1>1 DEF Filter!Emitting, Smooth!Emitting, Slice!Emitting, Meter!Emitting

LEMMA FirHistoryIn ==
  ASSUME NEW f \in FilterConfig, NEW e \in Nat, NEW h \in [1 .. e -> Int], Len(f.taps) = e,
         NEW x \in Int
  PROVE  FirHistory(f, h, x) \in [1 .. e -> Int] /\ FirSample(f, FirHistory(f, h, x)) \in Codes
<1> DEFINE g == FirHistory(f, h, x)
<1>1. f.taps \in Seq(Int) /\ f.inputGain \in Int /\ f.outputGain \in Int /\ f.adjust \in Nat \ {0}
  BY DEF FilterConfig
<1>2. Narrow(Quotient(Word(x * f.inputGain), GainUnit)) \in Int
  <2>1. x * f.inputGain \in Int
    BY <1>1
  <2>2. Word(x * f.inputGain) \in Int
    <3> DEFINE y == x * f.inputGain
    <3>1. y \in Int
      BY <2>1
    <3> HIDE DEF y
    <3>2. Word(y) \in -WordHalf .. WordHalf - 1
      BY <3>1, WrapIn, Constants DEF Word
    <3> QED BY <3>2, Constants DEF y
  <2>3. Quotient(Word(x * f.inputGain), GainUnit) \in Int
    BY <2>2, QuotientIn, Constants
  <2> QED BY <2>3, WrapIn, Constants DEF Narrow
<1>3. ASSUME NEW k \in 1 .. e PROVE g[k] \in Int
  <2>1. CASE k = 1
    BY <1>2, <2>1 DEF FirHistory
  <2>2. CASE k > 1
    <3>1. k - 1 \in 1 .. e
      BY <2>2
    <3> QED BY <2>2, <3>1 DEF FirHistory
  <2> QED BY <2>1, <2>2
<1>4. g \in [1 .. e -> Int]
  BY <1>3 DEF FirHistory
<1> HIDE DEF g
<1>5. Dot(f.taps, g) \in Int
  BY <1>1, <1>4, DotIn
<1>6. FirSample(f, g) \in Codes
  BY <1>1, <1>5, RailIn DEF FirSample
<1> QED BY <1>4, <1>6 DEF g

LEMMA FilteredKeeps ==
  ASSUME NEW f \in FilterConfig, NEW e \in Nat, NEW h \in [1 .. e -> Int], Len(f.taps) = e,
         NEW n \in Nat, NEW xs \in [1 .. n -> Codes]
  PROVE  LET a == Filtered(f, h, xs)
         IN  a.s \in [1 .. e -> Int] /\ a.xs \in [1 .. n -> Codes]
<1> DEFINE b == [s |-> h, xs |-> <<>>]
           OK(k, a) == /\ a = [s |-> a.s, xs |-> a.xs] /\ a.s \in [1 .. e -> Int]
                       /\ a.xs \in Seq(Codes) /\ Len(a.xs) = k
<1>1. DOMAIN xs = 1 .. n /\ OK(0, b)
  OBVIOUS
<1>2. ASSUME NEW k \in Nat, NEW a, OK(k, a), NEW x \in Codes PROVE OK(k + 1, FilterStep(f, a, x))
  <2> DEFINE g == FirHistory(f, a.s, x)
             y == FirSample(f, g)
  <2>1. x \in Int
    BY Constants DEF Codes
  <2>2. g \in [1 .. e -> Int] /\ y \in Codes
    BY <1>2, <2>1, FirHistoryIn
  <2>3. FilterStep(f, a, x) = [s |-> g, xs |-> Append(a.xs, y)]
    BY DEF FilterStep
  <2> HIDE DEF g, y
  <2>4. Append(a.xs, y) \in Seq(Codes) /\ Len(Append(a.xs, y)) = k + 1
    BY <1>2, <2>2
  <2> QED BY <2>2, <2>3, <2>4
<1> HIDE DEF b, OK
<1>3. PICK t : Filter!Trajectory(f, b, xs, n, t) /\ t[n] = Filter!Fold(f, b, xs)
  BY <1>1, LeastIs, Filter!FoldSteps, Zenon
<1> DEFINE T == {k \in 0 .. n : OK(k, t[k])}
<1>4. 0 \in T
  BY <1>1, <1>3 DEF Filter!Trajectory
<1>5. ASSUME NEW k \in 1 .. n, k - 1 \in T PROVE k \in T
  <2>1. k - 1 \in Nat /\ k - 1 + 1 = k /\ xs[k] \in Codes /\ OK(k - 1, t[k - 1])
    BY <1>5
  <2>2. t[k] = FilterStep(f, t[k - 1], xs[k])
    BY <1>3 DEF Filter!Trajectory
  <2>3. OK(k - 1 + 1, t[k])
    BY <1>2, <2>1, <2>2
  <2> QED BY <2>1, <2>3
<1> HIDE DEF T
<1>6. \A k \in 0 .. n : k \in T
  BY <1>4, <1>5, LeastIs, Filter!Upwards, Zenon
<1>7. OK(n, t[n])
  BY <1>6 DEF T
<1>8. Filtered(f, h, xs) = t[n]
  BY <1>3, FilteredIsFold DEF b
<1> QED BY <1>7, <1>8 DEF OK

LEMMA SlicedKeeps ==
  ASSUME NEW c \in CenterSlicerConfig, NEW s, CenterOK(s),
         NEW n \in Nat, NEW xs \in [1 .. n -> Codes]
  PROVE  CenterOK(Sliced(c, s, xs).s)
<1> DEFINE b == [s |-> s, xs |-> <<>>]
<1>1. DOMAIN xs = 1 .. n /\ b.s = s
  OBVIOUS
<1> HIDE DEF b
<1>3. PICK t : Slice!Trajectory(c, b, xs, n, t) /\ t[n] = Slice!Fold(c, b, xs)
  BY <1>1, LeastIs, Slice!FoldSteps, Zenon
<1> DEFINE T == {k \in 0 .. n : CenterOK(t[k].s)}
<1>4. 0 \in T
  BY <1>1, <1>3 DEF Slice!Trajectory
<1>5. ASSUME NEW k \in 1 .. n, k - 1 \in T PROVE k \in T
  <2>1. xs[k] \in Codes /\ CenterOK(t[k - 1].s)
    BY <1>5
  <2>2. t[k] = SliceStep(c, t[k - 1], xs[k])
    BY <1>3 DEF Slice!Trajectory
  <2>3. t[k].s = SliceState(c, t[k - 1].s, xs[k])
    BY <2>2 DEF SliceStep
  <2> QED BY <2>1, <2>3, SliceStateKeeps
<1> HIDE DEF T
<1>6. \A k \in 0 .. n : k \in T
  BY <1>4, <1>5, LeastIs, Slice!Upwards, Zenon
<1>7. CenterOK(t[n].s)
  BY <1>6 DEF T
<1> QED BY <1>3, <1>7, SlicedIsFold DEF b

LEMMA LowSpeedKeeps ==
  ASSUME NEW c \in Configs, NEW p, p.lsd \in [1 .. Len(c.lsd.taps) -> Int], CenterOK(p.center),
         NEW base \in Seq(Codes)
  PROVE  LET low == LowSpeed(c, p, base)
         IN  low.lsd \in [1 .. Len(c.lsd.taps) -> Int] /\ CenterOK(low.center)
<1> DEFINE filtered == Filtered(c.lsd, p.lsd, base)
           sliced == Sliced(c.slicer, p.center, filtered.xs)
           n == Len(base)
           e == Len(c.lsd.taps)
<1>1. /\ c.lsd \in FilterConfig /\ c.slicer \in CenterSlicerConfig /\ e \in Nat
      /\ n \in Nat /\ base \in [1 .. n -> Codes]
  BY ConfigFacts
<1> HIDE DEF n, e
<1>2. filtered.s \in [1 .. e -> Int] /\ filtered.xs \in [1 .. n -> Codes]
  BY <1>1, FilteredKeeps DEF e
<1> HIDE DEF filtered
<1>3. CenterOK(sliced.s)
  BY <1>1, <1>2, SlicedKeeps
<1> HIDE DEF sliced
<1>4. CenterOK(SliceNarrowed(sliced.s))
  BY <1>3, NarrowingNothing
<1> QED BY <1>2, <1>4 DEF LowSpeed, Narrowed, filtered, sliced, e

\* The VOX hold: what is left of it, and how far into the span it has come.
HangOK(v, n) == v = [hold |-> v.hold, last |-> v.last] /\ v.hold \in Nat /\ v.last \in 0 .. n

LEMMA SpendIn ==
  ASSUME NEW hold \in Nat, NEW frames \in Int
  PROVE  Spend(hold, frames) \in Nat
BY DEF Spend

LEMMA HangKeeps ==
  ASSUME NEW c \in VoxConfig, NEW n \in Nat, NEW v, HangOK(v, n), NEW m \in Nat, NEW es,
         DOMAIN es = 1 .. m, \A i \in 1 .. m : es[i].offset \in 0 .. n
  PROVE  HangOK(HoldOver(c, v, es), n)
<1>1. PICK t : Hang!Trajectory(c, v, es, m, t) /\ t[m] = Hang!Fold(c, v, es)
  BY LeastIs, Hang!FoldSteps, Zenon
<1> DEFINE T == {k \in 0 .. m : HangOK(t[k], n)}
<1>2. 0 \in T
  BY <1>1 DEF Hang!Trajectory
<1>3. ASSUME NEW k \in 1 .. m, k - 1 \in T PROVE k \in T
  <2> DEFINE w == t[k - 1]
             e == es[k]
             q == e.peak >= c.threshold
             hold == IF q THEN c.hang ELSE Spend(w.hold, e.offset - w.last)
  <2>1. HangOK(w, n) /\ e.offset \in 0 .. n
    BY <1>3
  <2>2. t[k] = HoldStep(c, w, e)
    BY <1>1 DEF Hang!Trajectory
  <2>3. t[k] = [hold |-> hold, last |-> e.offset]
    BY <2>2 DEF HoldStep, VoxAdvance
  <2> HIDE DEF w, e
  <2>4. Spend(w.hold, e.offset - w.last) \in Nat
    <3>1. e.offset - w.last \in Int /\ w.hold \in Nat
      BY <2>1 DEF HangOK
    <3> QED BY <3>1, SpendIn
  <2>5. hold \in Nat
    BY <2>4 DEF VoxConfig
  <2> HIDE DEF hold
  <2>6. HangOK(t[k], n)
    BY <2>1, <2>3, <2>5 DEF HangOK
  <2> QED BY <2>6
<1> HIDE DEF T
<1>4. \A k \in 0 .. m : k \in T
  BY <1>2, <1>3, LeastIs, Hang!Upwards, Zenon
<1>5. HangOK(t[m], n)
  BY <1>4 DEF T
<1> QED BY <1>1, <1>5, HoldIsFold

LEMMA PeaksAreList ==
  ASSUME NEW decay, NEW s, NEW n \in Nat, NEW xs, DOMAIN xs = 1 .. n
  PROVE  LET a == Metered(decay, s, xs)
         IN  a = [s |-> a.s, xs |-> a.xs] /\ IsList(a.xs, n)
<1>1. Metered(decay, s, xs) = Meter!Run(decay, s, xs)
  BY MeteredIsFold DEF Meter!Run
<1>2. LET a == Meter!Run(decay, s, xs)
      IN  a = [s |-> a.s, xs |-> a.xs] /\ a.xs = [i \in 1 .. n |-> a.xs[i]]
  BY StagesEmit, LeastIs, Meter!RunIsList, Zenon
<1> QED BY <1>1, <1>2 DEF IsList

Emissions(peaks, offsets) == [i \in DOMAIN peaks |-> [offset |-> offsets[i], peak |-> peaks[i]]]

LEMMA HoldKeeps ==
  ASSUME NEW c \in Configs, NEW p, HangOK(p.vox, 0), NEW base \in Seq(Codes), NEW n \in Nat,
         NEW offsets \in Seq(1 .. n), Len(offsets) = Len(base)
  PROVE  HangOK(Hold(c, p, base, offsets, n).vox, 0)
<1> DEFINE measured == Metered(c.vox.decay, p.envelope, base)
           es == Emissions(measured.xs, offsets)
           w == HoldOver(c.vox, p.vox, es)
           m == Len(base)
<1>1. m \in Nat /\ DOMAIN base = 1 .. m /\ c.vox \in VoxConfig
  BY ConfigFacts
<1>2. \A i \in 1 .. m : offsets[i] \in 0 .. n
  OBVIOUS
<1> HIDE DEF m
<1>3. IsList(measured.xs, m)
  BY <1>1, PeaksAreList
<1> HIDE DEF measured
<1>4. DOMAIN measured.xs = 1 .. m
  BY <1>3 DEF IsList
<1>5. DOMAIN es = 1 .. m /\ \A i \in 1 .. m : es[i].offset \in 0 .. n
  BY <1>2, <1>4 DEF Emissions
<1>6. HangOK(p.vox, n)
  BY DEF HangOK
<1> HIDE DEF es
<1>7. HangOK(w, n)
  BY <1>1, <1>5, <1>6, HangKeeps
<1> HIDE DEF w
<1>8. HangOK(VoxFinish(w, n), 0)
  <2>1. w.hold \in Nat /\ n - w.last \in Int
    BY <1>7 DEF HangOK
  <2>2. Spend(w.hold, n - w.last) \in Nat
    BY <2>1, SpendIn
  <2> QED BY <2>2 DEF VoxFinish, HangOK
<1>9. CASE c.carrier = "vox"
  BY <1>8, <1>9 DEF Hold, AdvanceVoxHold, Emissions, w, es, measured
<1>10. CASE c.carrier # "vox"
  BY <1>10 DEF Hold
<1> QED BY <1>9, <1>10
----------------------------------------------------------------------------
(* The path *)

Fields == {"front", "vox", "envelope", "lsd", "center", "hpf", "deemphasis", "voice", "delay",
           "remainder", "outzero", "ctcss", "dcs", "active", "halted"}

\* A receiver whose voice is built, or that listens for a tone or a code, is awake.
Awake(c, p) == (HasVoice(c) \/ c.ctcss \/ c.dcs) => p.active

PathOK(c, p) ==
  /\ DOMAIN p = Fields
  /\ FrontOK(c, p.front) /\ HangOK(p.vox, 0)
  /\ p.lsd \in [1 .. Len(c.lsd.taps) -> Int] /\ CenterOK(p.center)
  /\ p.remainder \in 0 .. GateInterval - 1
  /\ Awake(c, p)

LEMMA NewPathOK ==
  ASSUME NEW c \in Configs
  PROVE  PathOK(c, NewPath(c))
<1> DEFINE p == NewPath(c)
           e == Len(c.baseTaps)
           l == Len(c.lsd.taps)
<1>1. e \in Nat \ {0} /\ l \in Nat \ {0} /\ c.decimate \in Nat \ {0}
  BY ConfigFacts
<1>2. /\ p.front = [history |-> Zeros(2 * e), decimator |-> c.decimate, closed |-> TRUE,
                    power |-> 0, samples |-> 0, rssi |-> 0]
      /\ p.vox = [hold |-> 0, last |-> 0] /\ p.lsd = Zeros(l)
      /\ p.center = [maximum |-> 0, minimum |-> 0, peak |-> 0]
      /\ p.remainder = 0 /\ p.active /\ DOMAIN p = Fields
  BY DEF NewPath, Fields
<1> HIDE DEF p, e, l
<1>3. Zeros(2 * e) \in [1 .. 2 * e -> Int] /\ Dead(Zeros(2 * e)) /\ Zeros(l) \in [1 .. l -> Int]
  BY DEF Zeros, Dead
<1>4. FrontOK(c, p.front)
  BY <1>1, <1>2, <1>3 DEF FrontOK, e
<1>5. CenterOK(p.center) /\ HangOK(p.vox, 0)
  BY <1>2, Constants DEF CenterOK, HangOK, Codes
<1>6. p.remainder \in 0 .. GateInterval - 1
  BY <1>2, PathAssumption DEF PathAssumption
<1> QED BY <1>2, <1>3, <1>4, <1>5, <1>6 DEF PathOK, Awake, p, l

LEMMA ProcessKeeps ==
  ASSUME NEW c \in Configs, NEW p, PathOK(c, p), NEW n \in Nat, NEW xs \in [1 .. n -> Int],
         NEW external
  PROVE  PathOK(c, Process(c, p, xs, external).p)
<1> DEFINE front == Frontend(c, p.front, xs)
           offsets == EmissionOffsets(c.decimate, p.front.decimator, n)
           low == LowSpeed(c, p, front.base)
           hold == Hold(c, p, front.base, offsets, n)
           q == Process(c, p, xs, external).p
<1>1. Len(xs) = n
  OBVIOUS
<1>2. PICK o : SpanOK(c, n, front, o) /\ o.offsets = offsets
  BY SpanKeeps DEF PathOK
<1>3. /\ FrontOK(c, front.front) /\ front.base \in Seq(Codes)
      /\ offsets \in Seq(1 .. n) /\ Len(offsets) = Len(front.base)
  BY <1>2 DEF SpanOK
<1>4. /\ q.front = front.front /\ q.vox = hold.vox /\ q.lsd = low.lsd /\ q.center = low.center
      /\ q.remainder = Remainder(c, p.remainder, n) /\ q.active = p.active /\ DOMAIN q = Fields
  BY <1>1 DEF Process, After, Fields
<1> HIDE DEF front, offsets, q
<1>5. HangOK(hold.vox, 0)
  BY <1>3, HoldKeeps DEF PathOK
<1>6. low.lsd \in [1 .. Len(c.lsd.taps) -> Int] /\ CenterOK(low.center)
  BY <1>3, LowSpeedKeeps DEF PathOK
<1>7. Remainder(c, p.remainder, n) \in 0 .. GateInterval - 1
  <2>1. p.remainder \in 0 .. GateInterval - 1 /\ GateInterval \in Nat \ {0}
    BY PathAssumption DEF PathOK, PathAssumption
  <2>2. (p.remainder + n) % GateInterval \in 0 .. GateInterval - 1
    BY <2>1
  <2> QED BY <2>1, <2>2 DEF Remainder
<1> HIDE DEF low, hold
<1> QED BY <1>3, <1>4, <1>5, <1>6, <1>7 DEF PathOK, Awake, q

LEMMA FramesKeep ==
  ASSUME NEW c \in Configs, NEW p, PathOK(c, p), NEW n \in Nat, NEW xs \in [1 .. n -> Int],
         NEW external
  PROVE  PathOK(c, FrameByFrame(c, p, xs, external).p)
<1> DEFINE s == [cfg |-> c, external |-> external]
           b == [p |-> p, out |-> Silent]
<1>1. DOMAIN xs = 1 .. n /\ s.cfg = c /\ s.external = external /\ b.p = p
  OBVIOUS
<1> HIDE DEF s, b
<1>2. PICK t : Frames!Trajectory(s, b, xs, n, t) /\ t[n] = Frames!Fold(s, b, xs)
  BY <1>1, LeastIs, Frames!FoldSteps, Zenon
<1> DEFINE T == {k \in 0 .. n : PathOK(c, t[k].p)}
<1>3. 0 \in T
  BY <1>1, <1>2 DEF Frames!Trajectory
<1>4. ASSUME NEW k \in 1 .. n, k - 1 \in T PROVE k \in T
  <2>1. PathOK(c, t[k - 1].p) /\ <<xs[k]>> \in [1 .. 1 -> Int]
    BY <1>4
  <2>2. t[k] = FrameStep(s, t[k - 1], xs[k])
    BY <1>2 DEF Frames!Trajectory
  <2>3. t[k].p = Process(c, t[k - 1].p, <<xs[k]>>, external).p
    BY <1>1, <2>2 DEF FrameStep
  <2>4. PathOK(c, Process(c, t[k - 1].p, <<xs[k]>>, external).p)
    BY <2>1, ProcessKeeps
  <2> QED BY <2>3, <2>4
<1> HIDE DEF T
<1>5. \A k \in 0 .. n : k \in T
  BY <1>3, <1>4, LeastIs, Frames!Upwards, Zenon
<1>6. PathOK(c, t[n].p)
  BY <1>5 DEF T
<1> QED BY <1>2, <1>6, FramesAreFold DEF s, b

\* An update that keeps the detector keeps what the stream state is made for.
LEMMA UpdateKeeps ==
  ASSUME NEW c \in Configs, NEW d \in Configs, SameDetector(c, d), NEW p, PathOK(c, p)
  PROVE  UpdateControls(c, d) \in Configs /\ PathOK(UpdateControls(c, d), p)
<1> DEFINE u == UpdateControls(c, d)
<1>1. u \in Configs
  BY PathAssumption DEF PathAssumption
<1>2. c \in Config
  BY PathAssumption DEF PathAssumption
<1>3. /\ u.baseTaps = c.baseTaps /\ u.hpf = c.hpf /\ u.ctcss = c.ctcss /\ u.dcs = c.dcs
      /\ u.lsd = [d.lsd EXCEPT !.taps = c.lsd.taps]
  BY <1>2 DEF UpdateControls, Controls, Config
<1>4. d.lsd \in FilterConfig
  BY ConfigFacts
<1>5. u.lsd.taps = c.lsd.taps
  BY <1>3, <1>4 DEF FilterConfig
<1> HIDE DEF u
<1>6. FrontOK(u, p.front)
  BY <1>3 DEF PathOK, FrontOK
<1>7. Awake(u, p)
  BY <1>3 DEF PathOK, Awake, HasVoice
<1> QED BY <1>1, <1>5, <1>6, <1>7 DEF PathOK, u

LEMMA HaltedIs ==
  ASSUME NEW c, NEW p, NEW halted
  PROVE  PathOK(c, p) => PathOK(c, [p EXCEPT !.halted = halted])
<1> DEFINE q == [p EXCEPT !.halted = halted]
<1>1. SUFFICES ASSUME PathOK(c, p) PROVE PathOK(c, q)
  OBVIOUS
<1>2. DOMAIN q = DOMAIN p
  OBVIOUS
<1>3. \A f \in DOMAIN p : f # "halted" => q[f] = p[f]
  OBVIOUS
<1> HIDE DEF q
<1>4. /\ q.front = p.front /\ q.vox = p.vox /\ q.lsd = p.lsd /\ q.center = p.center
      /\ q.remainder = p.remainder /\ q.active = p.active /\ DOMAIN q = Fields
  BY <1>1, <1>2, <1>3 DEF PathOK, Fields
<1> QED BY <1>1, <1>4 DEF PathOK, Awake

\* The saver never sleeps where there is something to listen for or to deliver.
LEMMA SaverKeeps ==
  ASSUME NEW c \in Configs, NEW p, PathOK(c, p), NEW carrier, NEW ptt
  PROVE  PathOK(c, Saver(c, p, carrier, ptt))
<1> DEFINE h == Halted(c, carrier, ptt)
           q == Saver(c, p, carrier, ptt)
<1>1. DOMAIN q = DOMAIN p /\ \A f \in DOMAIN p : f \notin {"halted", "active"} => q[f] = p[f]
  BY DEF Saver
<1>2. q.active = ~h
  BY DEF Saver, PathOK, Fields
<1>3. (HasVoice(c) \/ c.ctcss \/ c.dcs) => ~h
  BY ConfigFacts DEF Halted
<1> HIDE DEF q, h
<1>4. /\ q.front = p.front /\ q.vox = p.vox /\ q.lsd = p.lsd /\ q.center = p.center
      /\ q.remainder = p.remainder /\ DOMAIN q = Fields
  BY <1>1 DEF PathOK, Fields
<1>5. Awake(c, q)
  BY <1>2, <1>3 DEF Awake
<1> QED BY <1>4, <1>5 DEF PathOK, q
----------------------------------------------------------------------------
(* The receiver *)

ReceiverOK ==
  /\ cfg \in Configs /\ PathOK(cfg, path) /\ PathOK(cfg, twin)
  /\ EmissionsHaveOffsets

LEMMA NothingEmitted ==
  ASSUME NEW c \in Configs
  PROVE  BasebandCapacity(c) \in Nat
<1> DEFINE m == MaxFrames + 2 * c.decimate - 2
<1>1. m \in Nat /\ c.decimate \in Nat \ {0}
  BY ConfigFacts, PathAssumption DEF PathAssumption
<1> HIDE DEF m
<1>2. m \div c.decimate \in Nat
  BY <1>1
<1> QED BY <1>2 DEF BasebandCapacity, m

LEMMA ReceiverInit == Init => ReceiverOK
<1>1. SUFFICES ASSUME Init PROVE ReceiverOK
  OBVIOUS
<1>2. cfg \in Configs /\ path = NewPath(cfg) /\ twin = NewPath(cfg) /\ last = Nothing
  BY <1>1 DEF Init
<1>3. PathOK(cfg, path) /\ PathOK(cfg, twin)
  BY <1>2, NewPathOK
<1>4. EmissionsHaveOffsets
  BY <1>2, NothingEmitted DEF EmissionsHaveOffsets, Nothing
<1> QED BY <1>2, <1>3, <1>4 DEF ReceiverOK

LEMMA CallbackKeeps ==
  ASSUME ReceiverOK, NEW in \in Inputs, Callback(in)
  PROVE  ReceiverOK'
<1>1. cfg \in Configs /\ cfg' = cfg
  BY DEF ReceiverOK, Callback
<1>2. CASE Refused(in)
  <2>1. last' = [Nothing EXCEPT !.status = "invalid"] /\ path' = path /\ twin' = twin
    BY <1>2 DEF Callback
  <2>2. EmissionsHaveOffsets'
    <3>1. last'.offsets = <<>> /\ last'.emitted = 0
      BY <2>1 DEF Nothing
    <3> QED BY <1>1, <3>1, NothingEmitted DEF EmissionsHaveOffsets
  <2> QED BY <1>1, <2>1, <2>2 DEF ReceiverOK
<1>3. CASE ~Refused(in)
  <2> DEFINE xs == in.samples
             n == Len(xs)
             whole == Process(cfg, path, xs, in.external)
             parts == FrameByFrame(cfg, twin, xs, in.external)
             carrier == IF in.external = "none" THEN whole.out.carrier
                        ELSE in.external = "present"
  <2>1. /\ path' = Saver(cfg, whole.p, carrier, in.ptt)
        /\ twin' = Saver(cfg, parts.p, carrier, in.ptt)
        /\ last'.frames = n /\ last'.emitted = Len(whole.out.base)
        /\ last'.offsets = whole.out.offsets
    BY <1>3 DEF Callback, Answer, Deliver
  <2>2. n \in 1 .. MaxFrames /\ xs \in [1 .. n -> Int]
    <3>1. xs \in Seq(Int)
      BY PathAssumption DEF PathAssumption, Input
    <3>2. xs # <<>> /\ ~(Len(xs) > MaxFrames)
      BY <1>3 DEF Refused
    <3>3. MaxFrames \in Nat
      BY PathAssumption DEF PathAssumption
    <3> QED BY <3>1, <3>2, <3>3
  <2>3. PathOK(cfg, path) /\ PathOK(cfg, twin) /\ n \in Nat
    BY <2>2 DEF ReceiverOK
  <2> HIDE DEF xs, n
  <2>4. PathOK(cfg, whole.p) /\ PathOK(cfg, parts.p)
    BY <1>1, <2>2, <2>3, ProcessKeeps, FramesKeep
  <2>5. PathOK(cfg, path') /\ PathOK(cfg, twin')
    <3> HIDE DEF whole, parts, carrier
    <3> QED BY <1>1, <2>1, <2>4, SaverKeeps
  <2> DEFINE front == Frontend(cfg, path.front, xs)
             offsets == EmissionOffsets(cfg.decimate, path.front.decimator, n)
  <2>6. whole.out.base = front.base /\ whole.out.offsets = offsets
    BY DEF Process, After, n
  <2> HIDE DEF whole, parts
  <2>7. PICK o : SpanOK(cfg, n, front, o) /\ o.offsets = offsets
    BY <1>1, <2>2, <2>3, SpanKeeps DEF PathOK
  <2> HIDE DEF front, offsets
  <2>8. Len(front.base) <= BasebandCapacity(cfg)
    BY <1>1, <2>2, <2>7, BasebandFits
  <2>9. offsets \in Seq(1 .. n) /\ Len(offsets) = Len(front.base)
    BY <2>7 DEF SpanOK
  <2>10. EmissionsHaveOffsets'
    BY <1>1, <2>1, <2>2, <2>6, <2>8, <2>9 DEF EmissionsHaveOffsets
  <2> QED BY <1>1, <2>5, <2>10 DEF ReceiverOK
<1> QED BY <1>2, <1>3

LEMMA ReceiverUpdateKeeps ==
  ASSUME ReceiverOK, NEW c \in Configs, Update(c)
  PROVE  ReceiverOK'
<1>1. cfg \in Configs /\ PathOK(cfg, path) /\ PathOK(cfg, twin) /\ last' = Nothing
  BY DEF ReceiverOK, Update
<1>2. cfg' \in Configs => EmissionsHaveOffsets'
  BY <1>1, NothingEmitted DEF EmissionsHaveOffsets, Nothing
<1>3. CASE SameDetector(cfg, c)
  <2>1. cfg' = UpdateControls(cfg, c) /\ path' = path /\ twin' = twin
    BY <1>3 DEF Update
  <2>2. cfg' \in Configs /\ PathOK(cfg', path) /\ PathOK(cfg', twin)
    BY <1>1, <1>3, <2>1, UpdateKeeps
  <2> QED BY <1>2, <2>1, <2>2 DEF ReceiverOK
<1>4. CASE ~SameDetector(cfg, c)
  <2>1. /\ cfg' = c /\ path' = [NewPath(c) EXCEPT !.halted = path.halted]
        /\ twin' = [NewPath(c) EXCEPT !.halted = twin.halted]
    BY <1>4 DEF Update
  <2>2. PathOK(c, path') /\ PathOK(c, twin')
    BY <2>1, NewPathOK, HaltedIs
  <2> QED BY <1>2, <2>1, <2>2 DEF ReceiverOK
<1> QED BY <1>3, <1>4

LEMMA ReceiverStutters ==
  ASSUME ReceiverOK, UNCHANGED <<cfg, path, twin>>,
         UNCHANGED last \/ (last'.offsets = <<>> /\ last'.emitted = 0)
  PROVE  ReceiverOK'
<1>1. EmissionsHaveOffsets'
  <2>1. CASE UNCHANGED last
    BY <2>1 DEF ReceiverOK, EmissionsHaveOffsets, BasebandCapacity
  <2>2. CASE last'.offsets = <<>> /\ last'.emitted = 0
    BY <2>2, NothingEmitted DEF ReceiverOK, EmissionsHaveOffsets
  <2> QED BY <2>1, <2>2
<1> QED BY <1>1 DEF ReceiverOK

LEMMA ReceiverSteps == ReceiverOK /\ [ChainNext]_chain => ReceiverOK'
<1>1. SUFFICES ASSUME ReceiverOK, [ChainNext]_chain PROVE ReceiverOK'
  OBVIOUS
<1>2. CASE Warm
  BY <1>1, <1>2, ReceiverStutters DEF Warm
<1>3. CASE \E in \in Inputs : ChainCallback(in)
  <2>1. PICK in \in Inputs : ChainCallback(in)
    BY <1>3
  <2>2. CASE NotReady
    <3>1. last'.offsets = <<>> /\ last'.emitted = 0
      BY <2>2 DEF NotReady, Nothing
    <3> QED BY <1>1, <2>2, <3>1, ReceiverStutters DEF NotReady
  <2>3. CASE Callback(in)
    BY <1>1, <2>3, CallbackKeeps
  <2>4. NotReady \/ Callback(in)
    BY <2>1 DEF ChainCallback
  <2> QED BY <2>2, <2>3, <2>4
<1>4. CASE \E c \in Configs : ChainUpdate(c)
  BY <1>1, <1>4, ReceiverUpdateKeeps DEF ChainUpdate
<1>5. CASE UNCHANGED chain
  BY <1>1, <1>5, ReceiverStutters DEF chain
<1> QED BY <1>1, <1>2, <1>3, <1>4, <1>5 DEF ChainNext

\* The stream state of both receivers is what their configuration calls for, through
\* callbacks, updates and the saver (receive_path, session).
THEOREM ReceiverIsSound == ChainSpec => []ReceiverOK
<1>1. ChainInit => ReceiverOK
  BY ReceiverInit DEF ChainInit
<1> QED BY <1>1, ReceiverSteps, PTL DEF ChainSpec

\* record_emission_offsets stays with the frontend for every decimation, length and
\* update in mid-stream, and process_baseband has the room new() reserved.
THEOREM OffsetsFit == ChainSpec => []EmissionsHaveOffsets
<1>1. ReceiverOK => EmissionsHaveOffsets
  BY DEF ReceiverOK
<1> QED BY <1>1, ReceiverIsSound, PTL

\* legacy_history_shift never fills the upper half of a history of any length.
THEOREM UpperHalfIsDead == ChainSpec => []UpperHistoryIsDead
<1>1. ReceiverOK => UpperHistoryIsDead
  BY DEF ReceiverOK, PathOK, FrontOK, Dead, UpperHistoryIsDead
<1> QED BY <1>1, ReceiverIsSound, PTL

\* center_slicer narrows nothing away, for every limit, set point below half the
\* codes and decay.
THEOREM SlicerNeverWraps == ChainSpec => []SlicerFits
<1>1. ReceiverOK => SlicerFits
  <2>1. SUFFICES ASSUME ReceiverOK, NEW x \in Codes
                 PROVE  LET s == SliceState(cfg.slicer, path.center, x)
                        IN  {s.maximum, s.minimum, s.peak, Centered(s, x)} \subseteq Codes
    BY DEF SlicerFits
  <2> DEFINE s == SliceState(cfg.slicer, path.center, x)
  <2>2. cfg.slicer \in CenterSlicerConfig /\ CenterOK(path.center)
    BY <2>1, ConfigFacts DEF ReceiverOK, PathOK
  <2>3. CenterOK(s) /\ Centered(s, x) \in Codes
    BY <2>2, SliceStateKeeps
  <2> HIDE DEF s
  <2>4. {s.maximum, s.minimum, s.peak, Centered(s, x)} \subseteq Codes
    BY <2>3 DEF CenterOK
  <2> QED BY <2>4 DEF s
<1> QED BY <1>1, ReceiverIsSound, PTL
----------------------------------------------------------------------------
(* The processors *)

Elements(s) == {s[i] : i \in DOMAIN s}

LEMMA ElementsJoin ==
  ASSUME NEW S, NEW s \in Seq(S), NEW t \in Seq(S)
  PROVE  s \o t \in Seq(S) /\ Elements(s) \subseteq Elements(s \o t)
           /\ Elements(t) \subseteq Elements(s \o t)
<1>1. s \o t \in Seq(S) /\ Len(s \o t) = Len(s) + Len(t) /\ Len(s) \in Nat /\ Len(t) \in Nat
  OBVIOUS
<1>2. ASSUME NEW i \in DOMAIN s PROVE s[i] \in Elements(s \o t)
  <2>1. i \in 1 .. Len(s \o t) /\ (s \o t)[i] = s[i]
    BY <1>1
  <2>2. i \in DOMAIN (s \o t)
    BY <1>1, <2>1
  <2> QED BY <2>1, <2>2 DEF Elements
<1>3. ASSUME NEW i \in DOMAIN t PROVE t[i] \in Elements(s \o t)
  <2>1. Len(s) + i \in 1 .. Len(s \o t) /\ (s \o t)[Len(s) + i] = t[i]
    BY <1>1
  <2>2. Len(s) + i \in DOMAIN (s \o t)
    BY <1>1, <2>1
  <2> QED BY <2>1, <2>2 DEF Elements
<1> QED BY <1>1, <1>2, <1>3 DEF Elements

LEMMA ShortElements ==
  /\ \A x : <<x>> \in Seq({x}) /\ x \in Elements(<<x>>)
  /\ \A x, y : <<x, y>> \in Seq({x, y}) /\ x \in Elements(<<x, y>>) /\ y \in Elements(<<x, y>>)
<1>1. ASSUME NEW x PROVE <<x>> \in Seq({x}) /\ x \in Elements(<<x>>)
  <2>1. 1 \in DOMAIN <<x>> /\ <<x>>[1] = x
    OBVIOUS
  <2> QED BY <2>1 DEF Elements
<1>2. ASSUME NEW x, NEW y
      PROVE  /\ <<x, y>> \in Seq({x, y})
             /\ x \in Elements(<<x, y>>) /\ y \in Elements(<<x, y>>)
  <2> DEFINE s == <<x, y>>
  <2>1. 1 \in DOMAIN s /\ 2 \in DOMAIN s /\ s[1] = x /\ s[2] = y /\ s \in Seq({x, y})
    OBVIOUS
  <2> HIDE DEF s
  <2>2. x \in Elements(s) /\ y \in Elements(s)
    BY <2>1 DEF Elements
  <2> QED BY <2>1, <2>2 DEF s
<1> QED BY <1>1, <1>2

LEMMA ShortSequences ==
  ASSUME NEW S
  PROVE  /\ <<>> \in Seq(S) /\ \A x \in S : <<x>> \in Seq(S)
         /\ \A x, y \in S : <<x, y>> \in Seq(S)
         /\ \A x, y, z, w \in S : <<x, y, z, w>> \in Seq(S)
OBVIOUS

LEMMA PairBetween ==
  ASSUME NEW S, NEW a \in S, NEW b \in S, NEW s \in Seq(S), NEW t \in Seq(S)
  PROVE  LET u == <<a, b>> \o s \o t
         IN  a \in Elements(u) /\ b \in Elements(u) /\ Elements(t) \subseteq Elements(u)
<1>1. <<a, b>> \in Seq(S) /\ a \in Elements(<<a, b>>) /\ b \in Elements(<<a, b>>)
  BY ShortSequences, ShortElements
<1>2. <<a, b>> \o s \in Seq(S) /\ Elements(<<a, b>>) \subseteq Elements(<<a, b>> \o s)
  BY <1>1, ElementsJoin
<1>3. /\ Elements(<<a, b>> \o s) \subseteq Elements((<<a, b>> \o s) \o t)
      /\ Elements(t) \subseteq Elements((<<a, b>> \o s) \o t)
  BY <1>2, ElementsJoin
<1> QED BY <1>1, <1>2, <1>3

LEMMA GivenIs ==
  ASSUME NEW calls, NEW x \in Elements(calls), CanFail(x)
  PROVE  x.port \in Given(calls)
BY DEF Elements, Given

\* The processors that can be given every frame are called over every span.
LEMMA FollowedIsGiven ==
  ASSUME NEW keyed \in BOOLEAN, NEW tail \in BOOLEAN
  PROVE  Followed \subseteq Given(Calls(keyed, tail))
<1>1. PICK calls, s, t, S :
        /\ calls = Calls(keyed, tail) /\ t = Cleaning(cfg.saver, keyed)
        /\ calls = <<Processed("deemphasis"), Processed("filter")>> \o s \o t
        /\ {Processed("deemphasis"), Processed("filter")} \subseteq S
        /\ s \in Seq(S) /\ t \in Seq(S)
  <2>1. PICK d : d = path'.ctcss.decoded
    OBVIOUS
  <2>2. PICK S : S = {Processed("deemphasis"), Processed("filter"), Bypassed("noise reduction"),
                      Optional("noise reduction"), Processed("dynamics"),
                      Processed(Chosen(tail, d))}
    OBVIOUS
  <2>3. NotchOf(tail, d) \in Seq(S)
    <3>1. Processed(Chosen(tail, d)) \in S
      BY <2>2
    <3> QED BY <3>1, ShortSequences DEF NotchOf
  <2>4. Cleaning(cfg.saver, keyed) \in Seq(S)
    <3>1. /\ Bypassed("noise reduction") \in S /\ Optional("noise reduction") \in S
          /\ Processed("dynamics") \in S
      BY <2>2
    <3> QED BY <3>1, ShortSequences DEF Cleaning
  <2>5. {Processed("deemphasis"), Processed("filter")} \subseteq S
    BY <2>2
  <2> QED BY <2>1, <2>3, <2>4, <2>5, Zenon DEF Calls
<1>2. /\ Processed("deemphasis") \in Elements(calls) /\ Processed("filter") \in Elements(calls)
      /\ Elements(t) \subseteq Elements(calls)
  BY <1>1, PairBetween
<1>3. Bypassed("noise reduction") \in Elements(t) \/ Optional("noise reduction") \in Elements(t)
  BY <1>1, ShortElements DEF Cleaning
<1>4. Has("deemphasis", "process") => "deemphasis" \in Given(calls)
  <2>1. /\ Processed("deemphasis").port = "deemphasis"
        /\ Has("deemphasis", "process") => CanFail(Processed("deemphasis"))
    BY DEF Processed, CanFail
  <2> QED BY <1>2, <2>1, GivenIs
<1>5. Has("filter", "process") => "filter" \in Given(calls)
  <2>1. /\ Processed("filter").port = "filter"
        /\ Has("filter", "process") => CanFail(Processed("filter"))
    BY DEF Processed, CanFail
  <2> QED BY <1>2, <2>1, GivenIs
<1>6. Has("noise reduction", "bypass") => "noise reduction" \in Given(calls)
  <2>1. /\ Bypassed("noise reduction").port = "noise reduction"
        /\ Has("noise reduction", "bypass") => CanFail(Bypassed("noise reduction"))
    BY DEF Bypassed, CanFail
  <2>2. /\ Optional("noise reduction").port = "noise reduction"
        /\ Has("noise reduction", "bypass") => CanFail(Optional("noise reduction"))
    <3>1. CASE Has("noise reduction", "process")
      BY <3>1 DEF Optional, Processed, CanFail
    <3>2. CASE ~Has("noise reduction", "process")
      BY <3>2, <2>1 DEF Optional, Bypassed
    <3> QED BY <3>1, <3>2
  <2> QED BY <1>2, <1>3, <2>1, <2>2, GivenIs
<1> QED BY <1>1, <1>4, <1>5, <1>6 DEF Followed

\* Every processor that does something is warmed.
LEMMA WarmsAll == {n \in Names : Has(n, "process")} \subseteq Elements(WarmOrder)
<1> DEFINE s1 == Present(Notches[1])
           s2 == Present(Notches[2])
           S == {"deemphasis", "filter", "noise reduction", "dynamics", "notch", "tail notch"}
<1>1. WarmOrder = Serial \o s1 \o s2
  BY DEF WarmOrder
<1>2. Notches[1] \in S /\ Notches[2] \in S /\ Serial \in Seq(S) /\ DOMAIN Notches = {1, 2}
  <2>0. /\ "deemphasis" \in S /\ "filter" \in S /\ "noise reduction" \in S
        /\ "dynamics" \in S /\ "notch" \in S /\ "tail notch" \in S
    OBVIOUS
  <2> HIDE DEF S
  <2>1. Serial \in Seq(S)
    BY <2>0, ShortSequences DEF Serial
  <2>2. Notches[1] = "notch" /\ Notches[2] = "tail notch" /\ DOMAIN Notches = {1, 2}
    BY DEF Notches
  <2> QED BY <2>0, <2>1, <2>2
<1>3. /\ s1 \in Seq(S) /\ (Has(Notches[1], "process") => Notches[1] \in Elements(s1))
      /\ s2 \in Seq(S) /\ (Has(Notches[2], "process") => Notches[2] \in Elements(s2))
  <2> HIDE DEF S
  <2>1. ASSUME NEW x \in S
        PROVE  Present(x) \in Seq(S) /\ (Has(x, "process") => x \in Elements(Present(x)))
    BY ShortElements, ShortSequences DEF Present
  <2> QED BY <1>2, <2>1
<1> HIDE DEF s1, s2, S
<1>4. Serial \o s1 \in Seq(S) /\ Elements(Serial) \subseteq Elements(Serial \o s1)
        /\ Elements(s1) \subseteq Elements(Serial \o s1)
  BY <1>2, <1>3, ElementsJoin
<1> DEFINE s == Serial \o s1
<1> HIDE DEF s
<1>5. Elements(s) \subseteq Elements(s \o s2) /\ Elements(s2) \subseteq Elements(s \o s2)
  BY <1>3, <1>4, ElementsJoin DEF s
<1>6. ASSUME NEW n \in Names, Has(n, "process") PROVE n \in Elements(WarmOrder)
  <2>1. CASE n \in Elements(Serial)
    BY <1>1, <1>4, <1>5, <2>1 DEF s
  <2>2. CASE n = Notches[1] \/ n = Notches[2]
    BY <1>1, <1>3, <1>4, <1>5, <1>6, <2>2 DEF s
  <2>3. n \in Elements(Serial) \/ n = Notches[1] \/ n = Notches[2]
    BY <1>2 DEF Names, Elements
  <2> QED BY <2>1, <2>2, <2>3
<1> QED BY <1>6

ChainOK ==
  /\ ReceiverOK
  /\ ~broken => behind = Even
  /\ warmed => {n \in Names : Has(n, "process")} \subseteq ready

LEMMA ChainSteps == ChainOK /\ [ChainNext]_chain => ChainOK'
<1>1. SUFFICES ASSUME ChainOK, [ChainNext]_chain PROVE ChainOK'
  OBVIOUS
<1>2. ReceiverOK'
  BY <1>1, ReceiverSteps DEF ChainOK
<1>3. CASE Warm
  <2>1. UNCHANGED <<ports, behind, broken>> /\ ~warmed
    BY <1>3 DEF Warm
  <2>2. warmed' => ready' = ready \cup {WarmOrder[i] : i \in DOMAIN WarmOrder}
    BY <1>3, <2>1 DEF Warm
  <2>3. warmed' => {n \in Names : Has(n, "process")} \subseteq ready'
    BY <2>2, WarmsAll DEF Elements
  <2> QED BY <1>1, <1>2, <2>1, <2>3 DEF ChainOK, Has
<1>4. CASE \E in \in Inputs : ChainCallback(in)
  <2>1. PICK in \in Inputs : ChainCallback(in)
    BY <1>4
  <2>2. UNCHANGED <<ports, warmed, ready>>
    BY <2>1 DEF ChainCallback
  <2>3. ~broken' => behind' = Even
    <3>1. UNCHANGED <<behind, broken>> \/ Serve
      BY <2>1 DEF ChainCallback, NotReady
    <3>2. CASE UNCHANGED <<behind, broken>>
      BY <1>1, <3>2 DEF ChainOK
    <3>3. ASSUME NEW keyed \in BOOLEAN, NEW tail \in {FALSE, cfg.ctcss},
                 Processors(Calls(keyed, tail))
          PROVE  ~broken' => behind' = Even
      <4> DEFINE calls == Calls(keyed, tail)
      <4>0. SUFFICES ASSUME ~broken' PROVE behind' = Even
        OBVIOUS
      <4>1. tail \in BOOLEAN
        BY <1>1, ConfigFacts DEF ChainOK, ReceiverOK
      <4>2. Followed \subseteq Given(calls)
        BY <4>1, FollowedIsGiven
      <4> HIDE DEF calls
      <4>3. /\ ~broken
            /\ behind' = [n \in Names |-> IF n \in Followed \ Given(calls) /\ ~broken
                                            THEN behind[n] + last'.frames ELSE behind[n]]
        BY <3>3, <4>0 DEF Processors, calls
      <4>4. behind = [n \in Names |-> 0]
        BY <1>1, <4>3 DEF ChainOK, Even
      <4>5. behind' = [n \in Names |-> behind[n]]
        BY <4>2, <4>3
      <4> QED BY <4>4, <4>5 DEF Even
    <3> QED BY <3>1, <3>2, <3>3 DEF Serve
  <2> QED BY <1>1, <1>2, <2>2, <2>3 DEF ChainOK, Has
<1>5. CASE \E c \in Configs : ChainUpdate(c)
  <2>1. /\ warmed' = warmed
        /\ \/ ports' = ports /\ UNCHANGED <<ready, behind, broken>>
           \/ ready' = Names /\ behind' = Even /\ broken' = FALSE
    BY <1>5 DEF ChainUpdate
  <2> QED BY <1>1, <1>2, <2>1 DEF ChainOK, Has
<1>6. CASE UNCHANGED chain
  BY <1>1, <1>2, <1>6 DEF ChainOK, Has, chain
<1> QED BY <1>1, <1>3, <1>4, <1>5, <1>6 DEF ChainNext

\* rx_cpu_saver, warm and receive_inner, for all that adapters may lend.
THEOREM SleepIsHarmless == ChainSpec => []SleepLosesNothing
<1>1. ChainInit => ChainOK
  BY ReceiverInit DEF ChainInit, ChainOK
<1>2. ChainOK => SleepLosesNothing
  BY DEF ChainOK, ReceiverOK, PathOK, Awake, SleepLosesNothing
<1> QED BY <1>1, <1>2, ChainSteps, PTL DEF ChainSpec
----------------------------------------------------------------------------
(* A span and one more sample.  The path over the longer span is the path over the *)
(* shorter one and then over the sample alone                                      *)

\* The span ys is the span xs of n samples and then x.
Extends(xs, n, x, ys) ==
  /\ DOMAIN xs = 1 .. n /\ DOMAIN ys = 1 .. n + 1
  /\ ys[n + 1] = x /\ \A k \in 1 .. n : ys[k] = xs[k]

\* What a stage answers over a span of n, over the sample and over both.
Follows(n, a, b, w) ==
  /\ IsList(a.xs, n)
  /\ \E s, y : b = [s |-> s, xs |-> <<y>>] /\ w = [s |-> s, xs |-> Append(a.xs, y)]

\* A FIR filter over a span and one more sample.
LEMMA FilteredSplits ==
  ASSUME NEW c, NEW s, NEW n \in Nat, NEW xs, NEW x, NEW ys, Extends(xs, n, x, ys),
         NEW a, a = Filtered(c, s, xs)
  PROVE  Follows(n, a, Filtered(c, a.s, <<x>>), Filtered(c, s, ys))
<1>1. /\ DOMAIN xs = 1 .. n /\ DOMAIN ys = 1 .. n + 1
      /\ ys[n + 1] = x /\ \A k \in 1 .. n : ys[k] = xs[k]
  BY DEF Extends
<1>2. a = Filter!Run(c, s, xs) /\ Filter!Least /\ Filter!Emitting(c)
  BY LeastIs, StagesEmit, FilteredIsFold DEF Filter!Run
<1>3. Filter!Splits(c, s, n, x, ys, Filter!Run(c, s, xs))
  BY <1>1, <1>2, Filter!RunSplits, Zenon
<1>4. Filter!Run(c, a.s, <<x>>) = Filtered(c, a.s, <<x>>) /\ Filter!Run(c, s, ys) = Filtered(c, s, ys)
  BY FilteredIsFold DEF Filter!Run
<1> QED BY <1>2, <1>3, <1>4 DEF Follows, IsList, Filter!Splits

\* The de-emphasis over a span and one more sample.
LEMMA SmoothedSplits ==
  ASSUME NEW c, NEW s, NEW n \in Nat, NEW xs, NEW x, NEW ys, Extends(xs, n, x, ys),
         NEW a, a = Smoothed(c, s, xs)
  PROVE  Follows(n, a, Smoothed(c, a.s, <<x>>), Smoothed(c, s, ys))
<1>1. /\ DOMAIN xs = 1 .. n /\ DOMAIN ys = 1 .. n + 1
      /\ ys[n + 1] = x /\ \A k \in 1 .. n : ys[k] = xs[k]
  BY DEF Extends
<1>2. a = Smooth!Run(c, s, xs) /\ Smooth!Least /\ Smooth!Emitting(c)
  BY LeastIs, StagesEmit, SmoothedIsFold DEF Smooth!Run
<1>3. Smooth!Splits(c, s, n, x, ys, Smooth!Run(c, s, xs))
  BY <1>1, <1>2, Smooth!RunSplits, Zenon
<1>4. Smooth!Run(c, a.s, <<x>>) = Smoothed(c, a.s, <<x>>) /\ Smooth!Run(c, s, ys) = Smoothed(c, s, ys)
  BY SmoothedIsFold DEF Smooth!Run
<1> QED BY <1>2, <1>3, <1>4 DEF Follows, IsList, Smooth!Splits

\* The centre slicer over a span and one more sample.
LEMMA SlicedSplits ==
  ASSUME NEW c, NEW s, NEW n \in Nat, NEW xs, NEW x, NEW ys, Extends(xs, n, x, ys),
         NEW a, a = Sliced(c, s, xs)
  PROVE  Follows(n, a, Sliced(c, a.s, <<x>>), Sliced(c, s, ys))
<1>1. /\ DOMAIN xs = 1 .. n /\ DOMAIN ys = 1 .. n + 1
      /\ ys[n + 1] = x /\ \A k \in 1 .. n : ys[k] = xs[k]
  BY DEF Extends
<1>2. a = Slice!Run(c, s, xs) /\ Slice!Least /\ Slice!Emitting(c)
  BY LeastIs, StagesEmit, SlicedIsFold DEF Slice!Run
<1>3. Slice!Splits(c, s, n, x, ys, Slice!Run(c, s, xs))
  BY <1>1, <1>2, Slice!RunSplits, Zenon
<1>4. Slice!Run(c, a.s, <<x>>) = Sliced(c, a.s, <<x>>) /\ Slice!Run(c, s, ys) = Sliced(c, s, ys)
  BY SlicedIsFold DEF Slice!Run
<1> QED BY <1>2, <1>3, <1>4 DEF Follows, IsList, Slice!Splits

\* The envelope over a span and one more sample.
LEMMA MeteredSplits ==
  ASSUME NEW c, NEW s, NEW n \in Nat, NEW xs, NEW x, NEW ys, Extends(xs, n, x, ys),
         NEW a, a = Metered(c, s, xs)
  PROVE  Follows(n, a, Metered(c, a.s, <<x>>), Metered(c, s, ys))
<1>1. /\ DOMAIN xs = 1 .. n /\ DOMAIN ys = 1 .. n + 1
      /\ ys[n + 1] = x /\ \A k \in 1 .. n : ys[k] = xs[k]
  BY DEF Extends
<1>2. a = Meter!Run(c, s, xs) /\ Meter!Least /\ Meter!Emitting(c)
  BY LeastIs, StagesEmit, MeteredIsFold DEF Meter!Run
<1>3. Meter!Splits(c, s, n, x, ys, Meter!Run(c, s, xs))
  BY <1>1, <1>2, Meter!RunSplits, Zenon
<1>4. Meter!Run(c, a.s, <<x>>) = Metered(c, a.s, <<x>>) /\ Meter!Run(c, s, ys) = Metered(c, s, ys)
  BY MeteredIsFold DEF Meter!Run
<1> QED BY <1>2, <1>3, <1>4 DEF Follows, IsList, Meter!Splits

\* Stages that are given nothing.
LEMMA StagesOfNothing ==
  ASSUME NEW c, NEW s
  PROVE  /\ Filtered(c, s, <<>>) = [s |-> s, xs |-> <<>>]
         /\ Smoothed(c, s, <<>>) = [s |-> s, xs |-> <<>>]
         /\ Sliced(c, s, <<>>) = [s |-> s, xs |-> <<>>]
         /\ Metered(c, s, <<>>) = [s |-> s, xs |-> <<>>]
<1>1. Filter!Run(c, s, <<>>) = [s |-> s, xs |-> <<>>]
  BY LeastIs, Filter!RunOfNothing, Zenon
<1>2. Smooth!Run(c, s, <<>>) = [s |-> s, xs |-> <<>>]
  BY LeastIs, Smooth!RunOfNothing, Zenon
<1>3. Meter!Run(c, s, <<>>) = [s |-> s, xs |-> <<>>]
  BY LeastIs, Meter!RunOfNothing, Zenon
<1>4. Slice!Run(c, s, <<>>) = [s |-> s, xs |-> <<>>]
  BY LeastIs, Slice!RunOfNothing, Zenon
<1> QED BY <1>1, <1>2, <1>3, <1>4, FilteredIsFold, SmoothedIsFold, SlicedIsFold, MeteredIsFold
           DEF Filter!Run, Smooth!Run, Slice!Run, Meter!Run

LEMMA AppendExtends ==
  ASSUME NEW n \in Nat, NEW xs, IsList(xs, n), NEW y
  PROVE  /\ Extends(xs, n, y, Append(xs, y)) /\ IsList(Append(xs, y), n + 1)
         /\ xs \o <<y>> = Append(xs, y) /\ xs \o <<>> = xs
<1>1. DOMAIN xs = 1 .. n
  BY DEF IsList
<1>2. IsList(Append(xs, y), n + 1)
  BY AppendList
<1>3. DOMAIN Append(xs, y) = 1 .. n + 1
  BY <1>2 DEF IsList
<1> QED BY <1>1, <1>2, <1>3, AppendList, JoinList DEF Extends

LEMMA AppendNothing == \A y : Append(<<>>, y) = <<y>> /\ <<y>> # <<>>
OBVIOUS

\* What the frontend gives for the span, for the sample, and for both: samples and
\* their offsets.
Emitted(n, a, oa, b, ob, w, ow) ==
  \/ b = <<>> /\ w = a /\ ob = <<>> /\ ow = oa
  \/ \E y \in Codes : b = <<y>> /\ w = Append(a, y) /\ ob = << 1 >> /\ ow = Append(oa, n + 1)

\* A list that a span gives, and what one more sample makes of it.
More(a, b, w) ==
  \/ b = <<>> /\ w = a
  \/ \E y \in Codes : b = <<y>> /\ w = Append(a, y)

\* The frontend over a span and a sample, and over both.
FrontFollows(n, a, oa, b, ob, w, ow) ==
  /\ w.front = b.front
  /\ \E g : b.gates = <<g>> /\ w.gates = Append(a.gates, g)
  /\ Emitted(n, a.base, oa, b.base, ob, w.base, ow)

\* The frontend over a span and one more sample: it emits nothing more, or one
\* sample whose offset is that of the frame.
LEMMA FrontSplits ==
  ASSUME NEW c \in Configs, NEW f, FrontOK(c, f), NEW n \in Nat, NEW xs \in [1 .. n -> Int],
         NEW x \in Int, NEW ys, Extends(xs, n, x, ys),
         NEW a, a = Frontend(c, f, xs), NEW b, b = Frontend(c, a.front, <<x>>),
         NEW w, w = Frontend(c, f, ys)
  PROVE  FrontFollows(n, a, EmissionOffsets(c.decimate, f.decimator, n),
                      b, EmissionOffsets(c.decimate, a.front.decimator, 1),
                      w, EmissionOffsets(c.decimate, f.decimator, n + 1))
<1> SUFFICES /\ w.front = b.front
             /\ \E g : b.gates = <<g>> /\ w.gates = Append(a.gates, g)
             /\ Emitted(n, a.base, EmissionOffsets(c.decimate, f.decimator, n),
                        b.base, EmissionOffsets(c.decimate, a.front.decimator, 1),
                        w.base, EmissionOffsets(c.decimate, f.decimator, n + 1))
  BY DEF FrontFollows
<1> DEFINE start == [front |-> f, base |-> <<>>, gates |-> <<>>]
           again == [front |-> a.front, base |-> <<>>, gates |-> <<>>]
           ostart == [decimator |-> f.decimator, offsets |-> <<>>]
           oagain == [decimator |-> a.front.decimator, offsets |-> <<>>]
           ks == [k \in 1 .. n |-> k]
           ls == [k \in 1 .. n + 1 |-> k]
           oa == Offset!Fold(c.decimate, ostart, ks)
           ob == Offset!Fold(c.decimate, oagain, << 1 >>)
           ow == Offset!Fold(c.decimate, ostart, ls)
           g == FrontendSample(c, a.front, x)
           gate == c.carrier = "noise" /\ ~g.closed
           y == BasebandSample(c, g.history)
<1>0. /\ DOMAIN xs = 1 .. n /\ DOMAIN ys = 1 .. n + 1
      /\ ys[n + 1] = x /\ \A k \in 1 .. n : ys[k] = xs[k]
  BY DEF Extends
<1>1. SpanOK(c, n, a, oa)
  BY SpanFolds
<1>2. FrontOK(c, a.front) /\ oa = [decimator |-> a.front.decimator, offsets |-> oa.offsets]
  BY <1>1, Zenon DEF SpanOK
<1>3. y \in Codes
  BY <1>2, FrontendSampleIs
<1>4. w = FrontendStep(c, a, x)
  <2>1. Native!Fold(c, start, ys) = FrontendStep(c, Native!Fold(c, start, xs), x)
    BY <1>0, LeastIs, Native!FoldAppend
  <2> QED BY <2>1, FrontendIsFold
<1>5. b = FrontendStep(c, again, x)
  <2>1. Native!Fold(c, again, <<x>>) = FrontendStep(c, again, x)
    BY LeastIs, Native!FoldOne, Zenon
  <2> QED BY <2>1, FrontendIsFold
<1>6. /\ w = [front |-> g, base |-> IF a.front.decimator <= 1 THEN Append(a.base, y) ELSE a.base,
              gates |-> Append(a.gates, gate)]
      /\ b = [front |-> g, base |-> IF a.front.decimator <= 1 THEN Append(<<>>, y) ELSE <<>>,
              gates |-> Append(<<>>, gate)]
  BY <1>4, <1>5 DEF FrontendStep, Emits
<1>7. ow = OffsetStep(c.decimate, oa, n + 1)
  <2>1. DOMAIN ks = 1 .. n /\ DOMAIN ls = 1 .. n + 1
    OBVIOUS
  <2>2. ls[n + 1] = n + 1 /\ \A k \in 1 .. n : ls[k] = ks[k]
    OBVIOUS
  <2> HIDE DEF ks, ls, ostart
  <2> QED BY <2>1, <2>2, LeastIs, Offset!FoldAppend
<1>8. ob = OffsetStep(c.decimate, oagain, 1)
  BY LeastIs, Offset!FoldOne, Zenon
<1>9. /\ EmissionOffsets(c.decimate, f.decimator, n) = oa.offsets
      /\ EmissionOffsets(c.decimate, f.decimator, n + 1) = ow.offsets
      /\ EmissionOffsets(c.decimate, a.front.decimator, 1) = ob.offsets
  <2>1. [k \in 1 .. 1 |-> k] = << 1 >>
    OBVIOUS
  <2> QED BY <2>1, OffsetsAreFold
<1> HIDE DEF oa, ob, ow, g, gate, y
<1>10. CASE a.front.decimator <= 1
  <2>1. ow.offsets = Append(oa.offsets, n + 1) /\ ob.offsets = Append(<<>>, 1)
    BY <1>2, <1>7, <1>8, <1>10 DEF OffsetStep
  <2>2. /\ b.base = <<y>> /\ w.base = Append(a.base, y) /\ w.front = b.front
        /\ b.gates = <<gate>> /\ w.gates = Append(a.gates, gate)
    BY <1>6, <1>10, AppendNothing
  <2>3. ob.offsets = << 1 >>
    BY <2>1, AppendNothing
  <2>4. Emitted(n, a.base, oa.offsets, b.base, ob.offsets, w.base, ow.offsets)
    BY <1>3, <2>1, <2>2, <2>3 DEF Emitted
  <2> QED BY <1>9, <2>2, <2>4
<1>11. CASE ~(a.front.decimator <= 1)
  <2>1. ow.offsets = oa.offsets /\ ob.offsets = <<>>
    BY <1>2, <1>7, <1>8, <1>11 DEF OffsetStep
  <2> QED BY <1>6, <1>9, <1>11, <2>1, AppendNothing DEF Emitted
<1> QED BY <1>10, <1>11

\* A list that grows as the baseband does.
Grows(a, b, w) == (b = <<>> /\ w = a) \/ \E y : b = <<y>> /\ w = Append(a, y)

\* The low-speed path over a span (u), over what one more frame emits (b, giving v)
\* and over both (z).  A detector without CTCSS has no limited samples.
LowFollows(c, m, u, v, z, b) ==
  /\ z.lsd = v.lsd /\ z.center = v.center /\ IsList(u.limited, IF c.ctcss THEN m ELSE 0)
  /\ c.ctcss => Grows(u.limited, v.limited, z.limited)
  /\ c.ctcss => (v.limited = <<>>) = (b = <<>>)
  /\ ~c.ctcss => v.limited = <<>> /\ z.limited = <<>>

LEMMA LowSpeedSplits ==
  ASSUME NEW c \in Configs, NEW p, NEW q, NEW a \in Seq(Codes), NEW b, NEW w,
         More(a, b, w),
         p.lsd \in [1 .. Len(c.lsd.taps) -> Int], CenterOK(p.center),
         NEW u, u = LowSpeed(c, p, a), q.lsd = u.lsd, q.center = u.center,
         NEW m, m = Len(a), NEW one, one = LowSpeed(c, q, b), NEW both, both = LowSpeed(c, p, w)
  PROVE  LowFollows(c, m, u, one, both, b)
<1> SUFFICES /\ LowSpeed(c, p, w).lsd = LowSpeed(c, q, b).lsd
             /\ LowSpeed(c, p, w).center = LowSpeed(c, q, b).center
             /\ IsList(u.limited, IF c.ctcss THEN Len(a) ELSE 0)
             /\ c.ctcss => Grows(u.limited, LowSpeed(c, q, b).limited, LowSpeed(c, p, w).limited)
             /\ c.ctcss => (LowSpeed(c, q, b).limited = <<>>) = (b = <<>>)
             /\ ~c.ctcss => LowSpeed(c, q, b).limited = <<>> /\ LowSpeed(c, p, w).limited = <<>>
  BY DEF LowFollows
<1> (b = <<>> /\ w = a) \/ \E y \in Codes : b = <<y>> /\ w = Append(a, y)
  BY DEF More
<1> DEFINE n == Len(a)
           v == LowSpeed(c, q, b)
           z == LowSpeed(c, p, w)
<1>0. n \in Nat /\ a \in [1 .. n -> Codes] /\ IsList(a, n) /\ (a = <<>> <=> n = 0)
  BY DEF IsList
<1> HIDE DEF n
<1>1. CASE ~c.ctcss
  <2>1. /\ u = [lsd |-> p.lsd, center |-> p.center, limited |-> <<>>]
        /\ v = [lsd |-> q.lsd, center |-> q.center, limited |-> <<>>]
        /\ z = [lsd |-> p.lsd, center |-> p.center, limited |-> <<>>]
    BY <1>1 DEF LowSpeed
  <2>2. (IF c.ctcss THEN Len(a) ELSE 0) = 0
    BY <1>1
  <2> HIDE DEF v, z
  <2>3. u.limited = <<>> /\ u.lsd = p.lsd /\ u.center = p.center
    BY <2>1
  <2>4. v.limited = <<>> /\ v.lsd = q.lsd /\ v.center = q.center
    BY <2>1
  <2>5. z.limited = <<>> /\ z.lsd = p.lsd /\ z.center = p.center
    BY <2>1
  <2>6. z.lsd = v.lsd /\ z.center = v.center
    BY <2>3, <2>4, <2>5
  <2>7. IsList(u.limited, 0)
    BY <2>3, ShortLists
  <2> QED BY <1>1, <2>2, <2>4, <2>5, <2>6, <2>7 DEF v, z
<1>2. CASE c.ctcss
  <2>1. PICK fa : fa = Filtered(c.lsd, p.lsd, a)
    OBVIOUS
  <2>2. PICK sa : sa = Sliced(c.slicer, p.center, fa.xs)
    OBVIOUS
  <2>3. /\ IsList(fa.xs, n) /\ DOMAIN fa.xs = 1 .. n /\ CenterOK(sa.s) /\ IsList(sa.xs, n)
        /\ u.lsd = fa.s /\ u.center = sa.s /\ u.limited = sa.xs
    <3>1. CASE a # <<>>
      <4>1. fa.xs \in [1 .. n -> Codes]
        BY <1>0, <2>1, FilteredKeeps, ConfigFacts
      <4>2. CenterOK(sa.s)
        BY <1>0, <2>2, <4>1, SlicedKeeps, ConfigFacts
      <4>3. u = Narrowed(fa, sa)
        BY <1>2, <2>1, <2>2, <3>1 DEF LowSpeed
      <4>4. Extends(fa.xs, n, 0, Append(fa.xs, 0))
        BY <1>0, <4>1, AppendExtends DEF IsList
      <4>5. IsList(sa.xs, n)
        <5>1. Follows(n, sa, Sliced(c.slicer, sa.s, << 0 >>),
                      Sliced(c.slicer, p.center, Append(fa.xs, 0)))
          BY <1>0, <2>2, <4>4, SlicedSplits
        <5> QED BY <5>1 DEF Follows
      <4>6. DOMAIN fa.xs = 1 .. n /\ IsList(fa.xs, n)
        BY <4>1 DEF IsList
      <4>7. u.lsd = fa.s /\ u.center = SliceNarrowed(sa.s) /\ u.limited = sa.xs
        BY <4>3 DEF Narrowed
      <4> QED BY <4>2, <4>5, <4>6, <4>7, NarrowingNothing
    <3>2. CASE a = <<>>
      <4>1. n = 0 /\ fa = [s |-> p.lsd, xs |-> <<>>]
        BY <1>0, <2>1, <3>2, StagesOfNothing
      <4>2. sa = [s |-> p.center, xs |-> <<>>]
        BY <2>2, <4>1, StagesOfNothing
      <4>3. u = [lsd |-> p.lsd, center |-> p.center, limited |-> <<>>]
        BY <3>2 DEF LowSpeed
      <4> QED BY <4>1, <4>2, <4>3, ShortLists
    <3> QED BY <3>1, <3>2
  <2>4. CASE b = <<>> /\ w = a
    <3>1. v = [lsd |-> q.lsd, center |-> q.center, limited |-> <<>>]
      BY <2>4 DEF LowSpeed
    <3> QED BY <1>2, <2>3, <2>4, <3>1 DEF Grows, n
  <2>5. ASSUME NEW y \in Codes, b = <<y>>, w = Append(a, y)
        PROVE  /\ z.lsd = v.lsd /\ z.center = v.center
               /\ \E l : v.limited = <<l>> /\ z.limited = Append(u.limited, l)
    <3>1. b # <<>> /\ w # <<>> /\ Extends(a, n, y, w)
      BY <1>0, <2>5, AppendExtends
    <3>2. PICK r, k : /\ Filtered(c.lsd, fa.s, b) = [s |-> r, xs |-> <<k>>]
                      /\ Filtered(c.lsd, p.lsd, w) = [s |-> r, xs |-> Append(fa.xs, k)]
      <4>1. Follows(n, fa, Filtered(c.lsd, fa.s, b), Filtered(c.lsd, p.lsd, w))
        BY <1>0, <2>1, <2>5, <3>1, FilteredSplits
      <4> QED BY <4>1 DEF Follows
    <3>3. Extends(fa.xs, n, k, Append(fa.xs, k))
      BY <1>0, <2>3, AppendExtends
    <3>4. PICK t, l : /\ Sliced(c.slicer, sa.s, <<k>>) = [s |-> t, xs |-> <<l>>]
                      /\ Sliced(c.slicer, p.center, Append(fa.xs, k))
                           = [s |-> t, xs |-> Append(sa.xs, l)]
      <4>1. Follows(n, sa, Sliced(c.slicer, sa.s, <<k>>),
                    Sliced(c.slicer, p.center, Append(fa.xs, k)))
        BY <1>0, <2>2, <3>3, SlicedSplits
      <4> QED BY <4>1 DEF Follows
    <3>5. v = Narrowed([s |-> r, xs |-> <<k>>], [s |-> t, xs |-> <<l>>])
      BY <1>2, <2>3, <3>1, <3>2, <3>4 DEF LowSpeed
    <3>6. z = Narrowed([s |-> r, xs |-> Append(fa.xs, k)], [s |-> t, xs |-> Append(sa.xs, l)])
      BY <1>2, <3>1, <3>2, <3>4 DEF LowSpeed
    <3> QED BY <2>3, <3>5, <3>6 DEF Narrowed
  <2>6. CASE \E y \in Codes : b = <<y>> /\ w = Append(a, y)
    <3>1. PICK y \in Codes : b = <<y>> /\ w = Append(a, y)
      BY <2>6
    <3>2. PICK l : v.limited = <<l>> /\ z.limited = Append(u.limited, l)
      BY <2>5, <3>1
    <3>3. z.lsd = v.lsd /\ z.center = v.center
      BY <2>5, <3>1
    <3>4. b # <<>> /\ v.limited # <<>>
      BY <3>1, <3>2, AppendNothing
    <3> QED BY <1>2, <2>3, <3>2, <3>3, <3>4 DEF Grows, n
  <2> QED BY <2>4, <2>6
<1> QED BY <1>1, <1>2, ConfigFacts

\* The voice path, in the same three.  A detector without voice has no samples.
VoiceFollows(c, n, u, v, z, b) ==
  /\ z.hpf = v.hpf /\ z.deemphasis = v.deemphasis
  /\ IsList(u.samples, IF HasVoice(c) THEN n ELSE 0)
  /\ HasVoice(c) => Grows(u.samples, v.samples, z.samples)
  /\ HasVoice(c) => (v.samples = <<>>) = (b = <<>>)
  /\ ~HasVoice(c) => v.samples = <<>> /\ z.samples = <<>>

LEMMA VoiceSplits ==
  ASSUME NEW c, NEW p, NEW q, NEW n \in Nat, NEW a, IsList(a, n), NEW b, NEW w,
         More(a, b, w),
         HasVoice(c) => p.active /\ q.active,
         NEW u, u = Voice(c, p, a), q.hpf = u.hpf, q.deemphasis = u.deemphasis,
         NEW one, one = Voice(c, q, b), NEW both, both = Voice(c, p, w)
  PROVE  VoiceFollows(c, n, u, one, both, b)
<1> SUFFICES /\ Voice(c, p, w).hpf = Voice(c, q, b).hpf
             /\ Voice(c, p, w).deemphasis = Voice(c, q, b).deemphasis
             /\ IsList(u.samples, IF HasVoice(c) THEN n ELSE 0)
             /\ HasVoice(c) => Grows(u.samples, Voice(c, q, b).samples, Voice(c, p, w).samples)
             /\ HasVoice(c) => (Voice(c, q, b).samples = <<>>) = (b = <<>>)
             /\ ~HasVoice(c) => Voice(c, q, b).samples = <<>> /\ Voice(c, p, w).samples = <<>>
  BY DEF VoiceFollows
<1> (b = <<>> /\ w = a) \/ \E y \in Codes : b = <<y>> /\ w = Append(a, y)
  BY DEF More
<1> DEFINE v == Voice(c, q, b)
           z == Voice(c, p, w)
<1>1. CASE ~HasVoice(c)
  <2>1. /\ u = [hpf |-> p.hpf, deemphasis |-> p.deemphasis, voice |-> p.voice, samples |-> <<>>]
        /\ v = [hpf |-> q.hpf, deemphasis |-> q.deemphasis, voice |-> q.voice, samples |-> <<>>]
        /\ z = [hpf |-> p.hpf, deemphasis |-> p.deemphasis, voice |-> p.voice, samples |-> <<>>]
    BY <1>1 DEF Voice
  <2>2. (IF HasVoice(c) THEN n ELSE 0) = 0
    BY <1>1
  <2> HIDE DEF v, z
  <2>3. u.samples = <<>> /\ u.hpf = p.hpf /\ u.deemphasis = p.deemphasis
    BY <2>1
  <2>4. v.samples = <<>> /\ v.hpf = q.hpf /\ v.deemphasis = q.deemphasis
    BY <2>1
  <2>5. z.samples = <<>> /\ z.hpf = p.hpf /\ z.deemphasis = p.deemphasis
    BY <2>1
  <2>6. z.hpf = v.hpf /\ z.deemphasis = v.deemphasis
    BY <2>3, <2>4, <2>5
  <2>7. IsList(u.samples, 0)
    BY <2>3, ShortLists
  <2> QED BY <1>1, <2>2, <2>4, <2>5, <2>6, <2>7 DEF v, z
<1>2. CASE HasVoice(c)
  <2>1. PICK fa : fa = Filtered(c.hpf, p.hpf, a)
    OBVIOUS
  <2>2. PICK sa : sa = Smoothed(c.deemphasis, p.deemphasis, fa.xs)
    OBVIOUS
  <2>3. \A r, xs : (r.active /\ r \in {p, q}) =>
          LET f == Filtered(c.hpf, r.hpf, xs)
              s == Smoothed(c.deemphasis, r.deemphasis, f.xs)
          IN  /\ Voice(c, r, xs).hpf = f.s /\ Voice(c, r, xs).deemphasis = s.s
              /\ Voice(c, r, xs).samples = s.xs
    BY <1>2 DEF Voice
  <2>4. u.hpf = fa.s /\ u.deemphasis = sa.s /\ u.samples = sa.xs
    BY <1>2, <2>1, <2>2, <2>3
  <2>5. Extends(a, n, 0, Append(a, 0))
    BY AppendExtends
  <2>6. IsList(fa.xs, n)
    <3>1. Follows(n, fa, Filtered(c.hpf, fa.s, << 0 >>), Filtered(c.hpf, p.hpf, Append(a, 0)))
      BY <2>1, <2>5, FilteredSplits
    <3> QED BY <3>1 DEF Follows
  <2>7. IsList(sa.xs, n)
    <3>1. Extends(fa.xs, n, 0, Append(fa.xs, 0))
      BY <2>6, AppendExtends
    <3>2. Follows(n, sa, Smoothed(c.deemphasis, sa.s, << 0 >>),
                  Smoothed(c.deemphasis, p.deemphasis, Append(fa.xs, 0)))
      BY <2>2, <3>1, SmoothedSplits
    <3> QED BY <3>2 DEF Follows
  <2>8. CASE b = <<>> /\ w = a
    <3>1. Filtered(c.hpf, q.hpf, <<>>) = [s |-> q.hpf, xs |-> <<>>]
      BY StagesOfNothing
    <3>2. Smoothed(c.deemphasis, q.deemphasis, <<>>) = [s |-> q.deemphasis, xs |-> <<>>]
      BY StagesOfNothing
    <3>3. v.hpf = q.hpf /\ v.deemphasis = q.deemphasis /\ v.samples = <<>>
      BY <1>2, <2>3, <2>8, <3>1, <3>2
    <3>4. z = u
      BY <2>8
    <3> HIDE DEF v, z
    <3> QED BY <1>2, <2>4, <2>7, <2>8, <3>3, <3>4 DEF Grows, v, z
  <2>9. CASE \E y \in Codes : b = <<y>> /\ w = Append(a, y)
    <3>1. PICK y \in Codes : b = <<y>> /\ w = Append(a, y)
      BY <2>9
    <3>2. Extends(a, n, y, w)
      BY <3>1, AppendExtends
    <3>3. PICK r, k : /\ Filtered(c.hpf, fa.s, b) = [s |-> r, xs |-> <<k>>]
                      /\ Filtered(c.hpf, p.hpf, w) = [s |-> r, xs |-> Append(fa.xs, k)]
      <4>1. Follows(n, fa, Filtered(c.hpf, fa.s, b), Filtered(c.hpf, p.hpf, w))
        BY <2>1, <3>1, <3>2, FilteredSplits
      <4> QED BY <4>1 DEF Follows
    <3>4. Extends(fa.xs, n, k, Append(fa.xs, k))
      BY <2>6, AppendExtends
    <3>5. PICK t, l : /\ Smoothed(c.deemphasis, sa.s, <<k>>) = [s |-> t, xs |-> <<l>>]
                      /\ Smoothed(c.deemphasis, p.deemphasis, Append(fa.xs, k))
                           = [s |-> t, xs |-> Append(sa.xs, l)]
      <4>1. Follows(n, sa, Smoothed(c.deemphasis, sa.s, <<k>>),
                    Smoothed(c.deemphasis, p.deemphasis, Append(fa.xs, k)))
        BY <2>2, <3>4, SmoothedSplits
      <4> QED BY <4>1 DEF Follows
    <3>6. v.hpf = r /\ v.deemphasis = t /\ v.samples = <<l>>
      BY <1>2, <2>3, <2>4, <3>3, <3>5
    <3>7. z.hpf = r /\ z.deemphasis = t /\ z.samples = Append(sa.xs, l)
      <4>1. PICK f : f = Filtered(c.hpf, p.hpf, w)
        OBVIOUS
      <4>2. PICK xs : xs = Append(fa.xs, k)
        OBVIOUS
      <4>3. f.s = r /\ f.xs = xs
        BY <3>3, <4>1, <4>2
      <4>4. PICK g : g = Smoothed(c.deemphasis, p.deemphasis, xs)
        OBVIOUS
      <4>5. g.s = t /\ g.xs = Append(sa.xs, l)
        BY <3>5, <4>2, <4>4
      <4>6. z.hpf = f.s /\ z.deemphasis = g.s /\ z.samples = g.xs
        BY <1>2, <2>3, <4>1, <4>3, <4>4
      <4> HIDE DEF z
      <4> QED BY <4>3, <4>5, <4>6
    <3>8. b # <<>> /\ v.samples # <<>>
      BY <3>1, <3>6, AppendNothing
    <3> HIDE DEF v, z
    <3> QED BY <1>2, <2>4, <2>7, <3>6, <3>7, <3>8 DEF Grows, v, z
  <2> QED BY <2>8, <2>9
<1> QED BY <1>1, <1>2

LEMMA SpendTwice ==
  ASSUME NEW hold \in Nat, NEW i \in Nat, NEW j \in Nat
  PROVE  Spend(Spend(hold, i), j) = Spend(hold, i + j) /\ Spend(hold, 0) = hold
BY DEF Spend

LEMMA EmissionsAppend ==
  ASSUME NEW m \in Nat, NEW ps, IsList(ps, m), NEW os, IsList(os, m), NEW k, NEW o
  PROVE  /\ DOMAIN Emissions(ps, os) = 1 .. m
         /\ Extends(Emissions(ps, os), m, [offset |-> o, peak |-> k],
                    Emissions(Append(ps, k), Append(os, o)))
<1> DEFINE pz == Append(ps, k)
           oz == Append(os, o)
<1>1. Extends(ps, m, k, pz) /\ Extends(os, m, o, oz)
  BY AppendExtends
<1> HIDE DEF pz, oz
<1> QED BY <1>1 DEF Extends, Emissions, pz, oz

LEMMA EmissionsOfOne ==
  ASSUME NEW k, NEW o
  PROVE  Emissions(<<k>>, <<o>>) = <<[offset |-> o, peak |-> k]>> /\ Emissions(<<>>, <<>>) = <<>>
BY DEF Emissions

\* Samples that were emitted in a span of n, each with its offset.
Timed(n, a, oa) == a \in Seq(Codes) /\ oa \in Seq(1 .. n) /\ Len(oa) = Len(a)

\* The VOX hold over a span and one more frame.  Alone, the frame counts from the end
\* of the span before it: what the hold lost by then it does not lose again.
LEMMA HoldSplits ==
  ASSUME NEW c \in Configs, NEW n \in Nat, NEW a, NEW oa, Timed(n, a, oa),
         NEW b, NEW ob, NEW w, NEW ow, Emitted(n, a, oa, b, ob, w, ow),
         NEW p, HangOK(p.vox, 0), NEW q,
         NEW u, u = Hold(c, p, a, oa, n), q.vox = u.vox, q.envelope = u.envelope,
         NEW one, one = Hold(c, q, b, ob, 1), NEW both, both = Hold(c, p, w, ow, n + 1)
  PROVE  both = one
<1> SUFFICES Hold(c, p, w, ow, n + 1) = Hold(c, q, b, ob, 1)
  OBVIOUS
<1> DEFINE v == Hold(c, q, b, ob, 1)
           z == Hold(c, p, w, ow, n + 1)
           m == Len(a)
<1>0. /\ m \in Nat /\ IsList(a, m) /\ DOMAIN a = 1 .. m /\ IsList(oa, m)
      /\ \A i \in 1 .. m : oa[i] \in 0 .. n
  BY DEF IsList, Timed
<1> HIDE DEF m
<1>1. CASE c.carrier # "vox"
  <2>1. /\ u = [envelope |-> p.envelope, vox |-> p.vox]
        /\ v = [envelope |-> q.envelope, vox |-> q.vox]
        /\ z = [envelope |-> p.envelope, vox |-> p.vox]
    BY <1>1 DEF Hold
  <2> QED BY <2>1
<1>2. CASE c.carrier = "vox"
  <2>1. PICK ma : ma = Metered(c.vox.decay, p.envelope, a)
    OBVIOUS
  <2>2. PICK ea : ea = Emissions(ma.xs, oa)
    OBVIOUS
  <2>3. PICK h : h = HoldOver(c.vox, p.vox, ea)
    OBVIOUS
  <2>4. IsList(ma.xs, m)
    BY <1>0, <2>1, PeaksAreList
  <2>5. DOMAIN ea = 1 .. m /\ \A i \in 1 .. m : ea[i].offset \in 0 .. n
    <3>1. DOMAIN ma.xs = 1 .. m
      BY <2>4 DEF IsList
    <3> QED BY <1>0, <2>2, <3>1 DEF Emissions
  <2>6. HangOK(h, n) /\ c.vox \in VoxConfig
    <3>1. HangOK(p.vox, n) /\ c.vox \in VoxConfig
      BY ConfigFacts DEF HangOK
    <3> QED BY <1>0, <2>3, <2>5, <3>1, HangKeeps
  <2>7. q.envelope = ma.s /\ q.vox = VoxFinish(h, n)
    BY <1>2, <2>1, <2>2, <2>3 DEF Hold, AdvanceVoxHold, Emissions
  <2>8. \A r, xs, os, k :
          LET d == Metered(c.vox.decay, r.envelope, xs)
          IN  Hold(c, r, xs, os, k)
                = [envelope |-> d.s,
                   vox |-> VoxFinish(HoldOver(c.vox, r.vox, Emissions(d.xs, os)), k)]
    BY <1>2 DEF Hold, AdvanceVoxHold, Emissions
  <2>a. h = [hold |-> h.hold, last |-> h.last] /\ h.hold \in Nat /\ h.last \in 0 .. n
    BY <2>6 DEF HangOK
  <2>b. PICK held \in Nat : held = h.hold
    BY <2>a
  <2>c. PICK l \in 0 .. n : l = h.last
    BY <2>a
  <2>9. h = [hold |-> held, last |-> l] /\ n - l \in Nat /\ (n - l) + 1 = n + 1 - l
    BY <2>a, <2>b, <2>c
  <2>10. Spend(Spend(held, n - l), 1) = Spend(held, n + 1 - l)
    <3>1. Spend(Spend(held, n - l), 1) = Spend(held, (n - l) + 1)
      BY <2>9, SpendTwice
    <3> QED BY <2>9, <3>1
  <2>11. q.vox = [hold |-> Spend(held, n - l), last |-> 0]
    BY <2>7, <2>9 DEF VoxFinish
  <2>12. CASE b = <<>> /\ w = a /\ ob = <<>> /\ ow = oa
    <3>1. Metered(c.vox.decay, q.envelope, <<>>) = [s |-> q.envelope, xs |-> <<>>]
      BY StagesOfNothing
    <3>2. HoldOver(c.vox, q.vox, <<>>) = q.vox
      <4>1. Hang!Fold(c.vox, q.vox, <<>>) = q.vox
        BY LeastIs, Hang!FoldEmpty, Zenon
      <4> QED BY <4>1, HoldIsFold
    <3>3. v = [envelope |-> q.envelope, vox |-> VoxFinish(q.vox, 1)]
      <4>1. PICK none : none = <<>>
        OBVIOUS
      <4>2. Metered(c.vox.decay, q.envelope, b) = [s |-> q.envelope, xs |-> none]
        BY <2>12, <3>1, <4>1
      <4>3. PICK d : d = Metered(c.vox.decay, q.envelope, b)
        OBVIOUS
      <4>4. d.s = q.envelope /\ d.xs = none
        BY <4>2, <4>3
      <4>5. v = [envelope |-> d.s,
                 vox |-> VoxFinish(HoldOver(c.vox, q.vox, Emissions(d.xs, ob)), 1)]
        BY <2>8, <4>3
      <4>6. Emissions(d.xs, ob) = none /\ HoldOver(c.vox, q.vox, none) = q.vox
        BY <2>12, <3>2, <4>1, <4>4, EmissionsOfOne
      <4> HIDE DEF v
      <4> QED BY <4>4, <4>5, <4>6
    <3>4. z = [envelope |-> ma.s, vox |-> VoxFinish(h, n + 1)]
      BY <2>1, <2>2, <2>3, <2>8, <2>12
    <3>5. VoxFinish(q.vox, 1) = VoxFinish(h, n + 1)
      <4>1. VoxFinish(q.vox, 1) = [hold |-> Spend(Spend(held, n - l), 1 - 0), last |-> 0]
        BY <2>11 DEF VoxFinish
      <4>2. VoxFinish(h, n + 1) = [hold |-> Spend(held, n + 1 - l), last |-> 0]
        BY <2>9 DEF VoxFinish
      <4>3. 1 - 0 = 1
        OBVIOUS
      <4> QED BY <2>10, <4>1, <4>2, <4>3
    <3> HIDE DEF v, z
    <3> QED BY <2>7, <3>3, <3>4, <3>5 DEF v, z
  <2>13. CASE \E y \in Codes : b = <<y>> /\ w = Append(a, y) /\ ob = << 1 >> /\ ow = Append(oa, n + 1)
    <3>1. PICK y \in Codes : b = <<y>> /\ w = Append(a, y) /\ ob = << 1 >> /\ ow = Append(oa, n + 1)
      BY <2>13
    <3>2. Extends(a, m, y, w)
      BY <1>0, <3>1, AppendExtends
    <3>3. PICK s, k : /\ Metered(c.vox.decay, ma.s, b) = [s |-> s, xs |-> <<k>>]
                      /\ Metered(c.vox.decay, p.envelope, w) = [s |-> s, xs |-> Append(ma.xs, k)]
      <4>1. Follows(m, ma, Metered(c.vox.decay, ma.s, b), Metered(c.vox.decay, p.envelope, w))
        BY <1>0, <2>1, <3>1, <3>2, MeteredSplits
      <4> QED BY <4>1 DEF Follows
    <3> DEFINE e == [offset |-> n + 1, peak |-> k]
               f == [offset |-> 1, peak |-> k]
    <3>4. PICK es : es = Emissions(Append(ma.xs, k), Append(oa, n + 1))
      OBVIOUS
    <3>5. Extends(ea, m, e, es)
      BY <1>0, <2>2, <2>4, <3>4, EmissionsAppend
    <3> HIDE DEF e, f
    <3>6. HoldOver(c.vox, p.vox, es) = HoldStep(c.vox, h, e)
      <4>1. /\ DOMAIN ea = 1 .. m /\ DOMAIN es = 1 .. m + 1
            /\ es[m + 1] = e /\ \A i \in 1 .. m : es[i] = ea[i]
        BY <3>5 DEF Extends
      <4>2. Hang!Fold(c.vox, p.vox, es) = HoldStep(c.vox, Hang!Fold(c.vox, p.vox, ea), e)
        BY <1>0, <4>1, LeastIs, Hang!FoldAppend
      <4> QED BY <2>3, <4>2, HoldIsFold
    <3>7. HoldOver(c.vox, q.vox, <<f>>) = HoldStep(c.vox, q.vox, f)
      <4>1. Hang!Fold(c.vox, q.vox, <<f>>) = HoldStep(c.vox, q.vox, f)
        BY LeastIs, Hang!FoldOne, Zenon
      <4> QED BY <4>1, HoldIsFold
    <3>8. Emissions(<< k >>, << 1 >>) = <<f>>
      BY EmissionsOfOne DEF f
    <3>9. v = [envelope |-> s, vox |-> VoxFinish(HoldStep(c.vox, q.vox, f), 1)]
      <4>1. PICK single : single = <<k>>
        OBVIOUS
      <4>2. PICK d : d = Metered(c.vox.decay, q.envelope, b)
        OBVIOUS
      <4>3. d.s = s /\ d.xs = single
        BY <2>7, <3>3, <4>1, <4>2
      <4>4. Emissions(single, ob) = <<f>>
        BY <3>1, <3>8, <4>1
      <4>5. v = [envelope |-> d.s, vox |-> VoxFinish(HoldOver(c.vox, q.vox, Emissions(d.xs, ob)), 1)]
        BY <2>8, <4>2
      <4> HIDE DEF v
      <4>6. Emissions(d.xs, ob) = <<f>>
        BY <4>3, <4>4
      <4> QED BY <3>7, <4>3, <4>5, <4>6
    <3>10. z = [envelope |-> s, vox |-> VoxFinish(HoldStep(c.vox, h, e), n + 1)]
      <4>1. PICK more : more = Append(ma.xs, k)
        OBVIOUS
      <4>2. PICK d : d = Metered(c.vox.decay, p.envelope, w)
        OBVIOUS
      <4>3. d.s = s /\ d.xs = more
        BY <3>3, <4>1, <4>2
      <4>4. Emissions(more, ow) = es
        BY <3>1, <3>4, <4>1
      <4>5. z = [envelope |-> d.s,
                 vox |-> VoxFinish(HoldOver(c.vox, p.vox, Emissions(d.xs, ow)), n + 1)]
        BY <2>8, <4>2
      <4> HIDE DEF z
      <4>6. Emissions(d.xs, ow) = es
        BY <4>3, <4>4
      <4> QED BY <3>6, <4>3, <4>5, <4>6
    <3>11. VoxFinish(HoldStep(c.vox, q.vox, f), 1) = VoxFinish(HoldStep(c.vox, h, e), n + 1)
      <4> DEFINE x == Spend(held, n + 1 - l)
                 qualified == k >= c.vox.threshold
                 hold == IF qualified THEN c.vox.hang ELSE x
      <4>1. e.peak = k /\ e.offset = n + 1 /\ f.peak = k /\ f.offset = 1
        BY DEF e, f
      <4>2. Spend(Spend(held, n - l), 1 - 0) = x
        BY <2>10
      <4>3. /\ HoldStep(c.vox, h, e) = VoxAdvance(h, n + 1, qualified, c.vox.hang)
            /\ HoldStep(c.vox, q.vox, f) = VoxAdvance(q.vox, 1, qualified, c.vox.hang)
        BY <4>1, Zenon DEF HoldStep
      <4> HIDE DEF qualified
      <4>4. VoxAdvance(h, n + 1, qualified, c.vox.hang) = [hold |-> hold, last |-> n + 1]
        BY <2>9 DEF VoxAdvance
      <4>5. VoxAdvance(q.vox, 1, qualified, c.vox.hang) = [hold |-> hold, last |-> 1]
        BY <2>11, <4>2 DEF VoxAdvance
      <4> HIDE DEF hold
      <4>6. 1 - 1 = 0 /\ (n + 1) - (n + 1) = 0
        OBVIOUS
      <4> QED BY <4>3, <4>4, <4>5, <4>6 DEF VoxFinish
    <3> HIDE DEF v, z
    <3> QED BY <3>9, <3>10, <3>11 DEF v, z
  <2> QED BY <2>12, <2>13 DEF Emitted
<1> QED BY <1>1, <1>2

\* The run of loud samples that a decoder hears.
HeardOver(run, xs) == FoldLeft(Hear, run, xs)

LEMMA HeardIsFold == \A run, xs : HeardOver(run, xs) = Heard!Fold(0, run, xs)
BY HearIsFold DEF HeardOver

LEMMA HeardOne ==
  ASSUME NEW run, NEW x
  PROVE  HeardOver(run, <<x>>) = Hear(run, x) /\ HeardOver(run, <<>>) = run
<1>1. Heard!Fold(0, run, <<x>>) = HeardBy(0, run, x)
  BY LeastIs, Heard!FoldOne, Zenon
<1>2. Heard!Fold(0, run, <<>>) = run
  BY LeastIs, Heard!FoldEmpty, Zenon
<1> QED BY <1>1, <1>2, HeardIsFold, Zenon DEF HeardBy

LEMMA HeardAppend ==
  ASSUME NEW run, NEW n \in Nat, NEW xs, NEW x, NEW ys, Extends(xs, n, x, ys)
  PROVE  HeardOver(run, ys) = Hear(HeardOver(run, xs), x)
<1>1. /\ DOMAIN xs = 1 .. n /\ DOMAIN ys = 1 .. n + 1
      /\ ys[n + 1] = x /\ \A k \in 1 .. n : ys[k] = xs[k]
  BY DEF Extends
<1>2. Heard!Fold(0, run, ys) = HeardBy(0, Heard!Fold(0, run, xs), x)
  BY <1>1, LeastIs, Heard!FoldAppend
<1> QED BY <1>2, HeardIsFold, Zenon DEF HeardBy

LEMMA ListeningIs ==
  /\ \A c, p, base, limited, carrier :
       ToneHeard(c, p, base, limited, carrier)
         = IF base # <<>> /\ c.ctcss /\ (p.active \/ p.ctcss.decoded)
           THEN HearTone(HeardOver(p.ctcss.run, limited), carrier) ELSE p.ctcss
  /\ \A c, p, xs : CodeHeard(c, p, xs) = IF c.dcs THEN HeardOver(p.dcs, xs) ELSE p.dcs
BY DEF ToneHeard, CodeHeard, HeardOver

\* The tone decoder, told the same carrier throughout.
LEMMA ToneSplits ==
  ASSUME NEW c, NEW p, NEW q, NEW carrier, NEW a, NEW b, NEW w, NEW n \in Nat,
         NEW la, NEW lb, NEW lw, IsList(la, n), a = <<>> <=> n = 0,
         c.ctcss => p.active /\ q.active,
         More(a, b, w), w # <<>> \/ b = <<>>,
         c.ctcss => Grows(la, lb, lw), c.ctcss => (lb = <<>>) = (b = <<>>),
         NEW u, u = ToneHeard(c, p, a, la, carrier), q.ctcss = u
  PROVE  ToneHeard(c, p, w, lw, carrier) = ToneHeard(c, q, b, lb, carrier)
<1> (b = <<>> /\ w = a) \/ \E y \in Codes : b = <<y>> /\ w = Append(a, y)
  BY DEF More
<1>1. CASE ~c.ctcss
  BY <1>1, ListeningIs
<1>2. CASE c.ctcss /\ b = <<>>
  <2>1. w = a /\ lw = la
    BY <1>2, AppendNothing DEF Grows
  <2> QED BY <1>2, <2>1, ListeningIs
<1>3. CASE c.ctcss /\ b # <<>>
  <2>1. PICK l : lb = <<l>> /\ lw = Append(la, l)
    BY <1>3 DEF Grows
  <2>2. Extends(la, n, l, lw)
    BY <2>1, AppendExtends
  <2>3. u.run = HeardOver(p.ctcss.run, la)
    <3>1. CASE a = <<>>
      <4>1. la = <<>>
        BY <3>1 DEF IsList
      <4>2. u = p.ctcss
        BY <3>1, ListeningIs
      <4> QED BY <4>1, <4>2, HeardOne
    <3>2. CASE a # <<>>
      <4>1. u = HearTone(HeardOver(p.ctcss.run, la), carrier)
        BY <1>3, <3>2, ListeningIs
      <4> QED BY <4>1 DEF HearTone
    <3> QED BY <3>1, <3>2
  <2>4. ToneHeard(c, q, b, lb, carrier) = HearTone(HeardOver(u.run, lb), carrier)
    BY <1>3, ListeningIs
  <2>5. ToneHeard(c, p, w, lw, carrier) = HearTone(HeardOver(p.ctcss.run, lw), carrier)
    BY <1>3, ListeningIs
  <2>6. HeardOver(u.run, lb) = HeardOver(p.ctcss.run, lw)
    <3>1. HeardOver(u.run, <<l>>) = Hear(u.run, l)
      BY HeardOne
    <3>2. HeardOver(p.ctcss.run, lw) = Hear(HeardOver(p.ctcss.run, la), l)
      BY <2>2, HeardAppend
    <3> QED BY <2>1, <2>3, <3>1, <3>2
  <2> QED BY <2>4, <2>5, <2>6
<1> QED BY <1>1, <1>2, <1>3

\* The DCS decoder over a span and one more frame.
LEMMA CodeSplits ==
  ASSUME NEW c, NEW p, NEW q, NEW n \in Nat, NEW xs, NEW x, NEW ys, Extends(xs, n, x, ys),
         q.dcs = CodeHeard(c, p, xs)
  PROVE  CodeHeard(c, p, ys) = CodeHeard(c, q, <<x>>)
<1>1. /\ HeardOver(p.dcs, ys) = Hear(HeardOver(p.dcs, xs), x)
      /\ HeardOver(q.dcs, <<x>>) = Hear(q.dcs, x)
  BY HeardAppend, HeardOne
<1> QED BY <1>1, ListeningIs

\* Division counts up, and starts over.
LEMMA DivisionCounts ==
  ASSUME NEW x \in Nat, NEW g \in Nat \ {0}
  PROVE  /\ x % g \in 0 .. g - 1 /\ x \div g \in Nat
         /\ (x % g) + 1 = g => (x + 1) % g = 0 /\ (x + 1) \div g = (x \div g) + 1
         /\ (x % g) + 1 # g => (x + 1) % g = (x % g) + 1 /\ (x + 1) \div g = x \div g
<1>1. PICK q, r, t, s : q = x \div g /\ r = x % g /\ t = (x + 1) \div g /\ s = (x + 1) % g
  OBVIOUS
<1>2. q \in Nat /\ r \in 0 .. g - 1 /\ t \in Nat /\ s \in 0 .. g - 1
  BY <1>1
<1>3. x = g * q + r /\ x + 1 = g * t + s
  BY <1>1
<1>4. PICK d \in Int : d = t - q
  BY <1>2
<1>5. g * d = 1 + r - s
  <2>1. g * d = g * t - g * q
    BY <1>2, <1>4
  <2>2. PICK i, j \in Int : i = g * t /\ j = g * q
    BY <1>2
  <2>3. x = j + r /\ x + 1 = i + s
    BY <1>3, <2>2
  <2> QED BY <1>2, <2>1, <2>2, <2>3
<1>6. d \in {0, 1}
  <2>1. CASE d <= -1
    <3>1. g * d <= -g
      BY <2>1
    <3> QED BY <1>2, <1>5, <3>1
  <2>2. CASE d >= 2
    <3>1. g * d >= 2 * g
      BY <2>2
    <3> QED BY <1>2, <1>5, <3>1
  <2> QED BY <2>1, <2>2
<1>7. CASE d = 0
  <2>1. s = r + 1 /\ t = q
    BY <1>2, <1>4, <1>5, <1>7
  <2> QED BY <1>1, <1>2, <2>1
<1>8. CASE d = 1
  <2>1. s = r + 1 - g /\ t = q + 1
    BY <1>2, <1>4, <1>5, <1>8
  <2>2. r + 1 = g /\ s = 0
    BY <1>2, <2>1
  <2> QED BY <1>1, <1>2, <2>1, <2>2
<1> QED BY <1>6, <1>7, <1>8

\* The frames left over from the gate, over a span and one more frame.
LEMMA RemainderSplits ==
  ASSUME NEW c, NEW r \in 0 .. GateInterval - 1, NEW n \in Nat
  PROVE  Remainder(c, r, n + 1) = Remainder(c, Remainder(c, r, n), 1)
<1>1. GateInterval \in Nat \ {0}
  BY PathAssumption DEF PathAssumption
<1> DEFINE g == GateInterval
           x == r + n
<1>2. x \in Nat /\ r + (n + 1) = x + 1 /\ g \in Nat \ {0}
  BY <1>1
<1> HIDE DEF g, x
<1>3. (x + 1) % g = ((x % g) + 1) % g
  <2>1. x % g \in 0 .. g - 1
    BY <1>2
  <2>2. PICK y \in Nat : y = x % g
    BY <2>1
  <2>3. y % g = y
    BY <1>2, <2>1, <2>2
  <2>4. (x + 1) % g = IF y + 1 = g THEN 0 ELSE y + 1
    BY <1>2, <2>2, DivisionCounts
  <2>5. (y + 1) % g = IF y + 1 = g THEN 0 ELSE y + 1
    BY <1>2, <2>3, DivisionCounts
  <2> QED BY <2>2, <2>4, <2>5
<1> QED BY <1>2, <1>3 DEF Remainder, g, x
----------------------------------------------------------------------------
(* The delay over a span and one more sample *)

\* Lists of any length, and a list of muted samples.
IsSeq(xs) == \E k \in Nat : IsList(xs, k)
Blank(k) == [i \in 1 .. k |-> <<>>]

LEMMA BlanksJoin ==
  ASSUME NEW xs, IsSeq(xs), NEW k \in Int
  PROVE  /\ IsSeq(xs \o Blank(k))
         /\ k >= 0 => xs \o Blank(k + 1) = Append(xs \o Blank(k), <<>>)
<1>1. PICK n \in Nat : IsList(xs, n)
  BY DEF IsSeq
<1>2. PICK blank : blank = <<>>
  OBVIOUS
<1> DEFINE S == {xs[i] : i \in 1 .. n} \cup {blank}
           b == [i \in 1 .. k |-> blank]
           c == [i \in 1 .. k + 1 |-> blank]
<1>3. xs \in Seq(S) /\ Len(xs) = n
  <2>1. xs \in [1 .. n -> S]
    BY <1>1 DEF IsList
  <2> QED BY <2>1, <1>1, ListIs
<1>4. blank \in S
  OBVIOUS
<1> HIDE DEF S
<1>5. PICK m \in Nat : DOMAIN b = 1 .. m /\ (k >= 0 => m = k)
  <2>1. CASE k >= 0
    BY <2>1
  <2>2. CASE k < 0
    <3>1. 1 .. k = 1 .. 0
      BY <2>2
    <3> QED BY <2>2, <3>1
  <2> QED BY <2>1, <2>2
<1>6. b \in [1 .. m -> S]
  BY <1>4, <1>5
<1>7. b \in Seq(S) /\ Len(b) = m
  <2> HIDE DEF b
  <2> QED BY <1>6
<1> DEFINE ys == xs \o b
<1>8. ys \in Seq(S)
  BY <1>3, <1>7
<1>9. ys \in [1 .. Len(ys) -> S] /\ Len(ys) \in Nat
  <2> HIDE DEF ys
  <2> QED BY <1>8
<1>10. IsSeq(ys)
  <2>1. IsList(ys, Len(ys))
    BY <1>9 DEF IsList
  <2> QED BY <1>9, <2>1 DEF IsSeq
<1>11. k >= 0 => xs \o c = Append(ys, blank)
  <2>1. SUFFICES ASSUME k >= 0 PROVE xs \o c = Append(ys, blank)
    OBVIOUS
  <2>2. k \in Nat /\ c \in [1 .. k + 1 -> S] /\ m = k
    BY <1>4, <1>5, <2>1
  <2>3. c \in Seq(S) /\ Len(c) = k + 1
    BY <2>2
  <2>4. \A i \in 1 .. k : c[i] = b[i]
    BY <2>1
  <2>5. c[k + 1] = blank
    BY <2>1
  <2> HIDE DEF b, c
  <2> QED BY <1>3, <1>4, <1>7, <2>2, <2>3, <2>4, <2>5 DEF ys
<1> QED BY <1>2, <1>10, <1>11 DEF Blank

\* The state of the delay: its line, whether it is muted, what it delivered.
LagOK(a) == a = [line |-> a.line, outzero |-> a.outzero, xs |-> a.xs] /\ IsSeq(a.xs)

\* The delay for one sample.
Taken(d, a, z) ==
  IF a.outzero
  THEN [line |-> IF a.line.dirty THEN DelayCleared(d) ELSE a.line, outzero |-> a.outzero,
        xs |-> Append(a.xs, <<>>)]
  ELSE DelayStep(d, a, z)

LEMMA TakenKeeps ==
  ASSUME NEW d, NEW a, LagOK(a), NEW z
  PROVE  LagOK(Taken(d, a, z)) /\ Taken(d, a, z).outzero = a.outzero
<1>1. \A y : IsSeq(Append(a.xs, y))
  <2>1. PICK n \in Nat : IsList(a.xs, n)
    BY DEF LagOK, IsSeq
  <2>2. \A y : IsList(Append(a.xs, y), n + 1)
    BY <2>1, AppendList
  <2> QED BY <2>2 DEF IsSeq
<1>2. PICK y, l : Taken(d, a, z) = [line |-> l, outzero |-> a.outzero, xs |-> Append(a.xs, y)]
  BY DEF Taken, DelayStep
<1>3. PICK ys : ys = Append(a.xs, y)
  OBVIOUS
<1>4. IsSeq(ys)
  BY <1>1, <1>3
<1> QED BY <1>2, <1>3, <1>4 DEF LagOK

\* Samples after the first `start' of the voice.
LEMMA Rest ==
  ASSUME NEW v, NEW s \in Nat, NEW e \in Nat
  PROVE  \E k \in Nat : /\ DOMAIN SubSeq(v, s + 1, e) = 1 .. k
                        /\ s <= e => k = e - s
                        /\ s = e => SubSeq(v, s + 1, e) = <<>>
<1>1. SubSeq(v, s + 1, e) = [i \in 1 .. e - s |-> v[i + s]]
  BY DEF SubSeq
<1>2. CASE s <= e
  BY <1>1, <1>2
<1>3. CASE s > e
  <2>1. 1 .. e - s = 1 .. 0
    BY <1>3
  <2> QED BY <1>1, <1>3, <2>1
<1> QED BY <1>2, <1>3

LEMMA SegmentOpen ==
  ASSUME NEW d, NEW a, ~a.outzero, NEW v, NEW s \in Nat, NEW e \in Nat
  PROVE  DelaySegment(d, a, v, s, e) = Line!Fold(d, a, SubSeq(v, s + 1, e))
<1>1. CASE s # e
  BY <1>1, SegmentIsFold
<1>2. CASE s = e
  <2>1. DelaySegment(d, a, v, s, e) = a
    BY <1>2 DEF DelaySegment
  <2>2. SubSeq(v, s + 1, e) = <<>>
    BY <1>2, Rest
  <2>3. Line!Fold(d, a, <<>>) = a
    BY LeastIs, Line!FoldEmpty, Zenon
  <2> QED BY <2>1, <2>2, <2>3
<1> QED BY <1>1, <1>2

LEMMA SegmentKeeps ==
  ASSUME NEW d, NEW a, LagOK(a), NEW v, NEW s \in Nat, NEW e \in Nat
  PROVE  LagOK(DelaySegment(d, a, v, s, e)) /\ DelaySegment(d, a, v, s, e).outzero = a.outzero
<1>1. CASE s = e
  BY <1>1 DEF DelaySegment
<1>2. CASE s # e /\ a.outzero
  <2>1. PICK ys : ys = a.xs \o Blank(e - s)
    OBVIOUS
  <2>2. IsSeq(ys)
    BY <2>1, BlanksJoin DEF LagOK
  <2>3. DelaySegment(d, a, v, s, e)
          = [line |-> IF a.line.dirty THEN DelayCleared(d) ELSE a.line, outzero |-> a.outzero,
             xs |-> ys]
    BY <1>2, <2>1 DEF DelaySegment, Blank
  <2> QED BY <2>2, <2>3 DEF LagOK
<1>3. CASE ~a.outzero
  <2>1. PICK zs : zs = SubSeq(v, s + 1, e)
    OBVIOUS
  <2>2. PICK k \in Nat : DOMAIN zs = 1 .. k
    BY <2>1, Rest
  <2>3. PICK t : Line!Trajectory(d, a, zs, k, t) /\ t[k] = Line!Fold(d, a, zs)
    BY <2>2, LeastIs, Line!FoldSteps, Zenon
  <2> DEFINE T == {j \in 0 .. k : LagOK(t[j]) /\ t[j].outzero = a.outzero}
  <2>4. 0 \in T
    BY <2>3 DEF Line!Trajectory
  <2>5. ASSUME NEW j \in 1 .. k, j - 1 \in T PROVE j \in T
    <3>1. t[j] = DelayStep(d, t[j - 1], zs[j])
      BY <2>3 DEF Line!Trajectory
    <3>2. LagOK(t[j - 1]) /\ t[j - 1].outzero = a.outzero
      BY <2>5
    <3>3. t[j] = Taken(d, t[j - 1], zs[j])
      BY <1>3, <3>1, <3>2 DEF Taken
    <3>4. LagOK(t[j]) /\ t[j].outzero = a.outzero
      BY <3>2, <3>3, TakenKeeps
    <3> QED BY <3>4
  <2> HIDE DEF T
  <2>6. \A j \in 0 .. k : j \in T
    BY <2>4, <2>5, LeastIs, Line!Upwards, Zenon
  <2>7. LagOK(t[k]) /\ t[k].outzero = a.outzero
    BY <2>6 DEF T
  <2> QED BY <1>3, <2>1, <2>3, <2>7, SegmentOpen
<1> QED BY <1>1, <1>2, <1>3

\* A segment depends only on the samples in it.
LEMMA SegmentSame ==
  ASSUME NEW d, NEW a, NEW m \in Nat, NEW v, NEW z, NEW w, Extends(v, m, z, w),
         NEW s \in 0 .. m, NEW e \in 0 .. m
  PROVE  DelaySegment(d, a, w, s, e) = DelaySegment(d, a, v, s, e)
<1>1. CASE a.outzero
  BY <1>1 DEF DelaySegment
<1>2. CASE ~a.outzero
  <2>1. /\ SubSeq(v, s + 1, e) = [i \in 1 .. e - s |-> v[i + s]]
        /\ SubSeq(w, s + 1, e) = [i \in 1 .. e - s |-> w[i + s]]
    BY DEF SubSeq
  <2>2. \A i \in 1 .. e - s : i + s \in 1 .. m /\ v[i + s] = w[i + s]
    BY DEF Extends
  <2>3. SubSeq(w, s + 1, e) = SubSeq(v, s + 1, e)
    BY <2>1, <2>2
  <2>4. s \in Nat /\ e \in Nat
    OBVIOUS
  <2>5. DelaySegment(d, a, w, s, e) = Line!Fold(d, a, SubSeq(w, s + 1, e))
    BY <1>2, <2>4, SegmentOpen
  <2>6. DelaySegment(d, a, v, s, e) = Line!Fold(d, a, SubSeq(v, s + 1, e))
    BY <1>2, <2>4, SegmentOpen
  <2> QED BY <2>3, <2>5, <2>6
<1> QED BY <1>1, <1>2

\* A segment that is longer by one sample.
LEMMA SegmentGrows ==
  ASSUME NEW d, NEW a, LagOK(a), NEW m \in Nat, NEW v, NEW z, NEW w, Extends(v, m, z, w),
         NEW s \in 0 .. m
  PROVE  DelaySegment(d, a, w, s, m + 1) = Taken(d, DelaySegment(d, a, v, s, m), z)
<1>1. CASE a.outzero
  <2> DEFINE cleared == IF a.line.dirty THEN DelayCleared(d) ELSE a.line
             k == m - s
  <2>1. k \in Nat /\ s # m + 1 /\ m + 1 - s = k + 1 /\ (s = m <=> k = 0)
    OBVIOUS
  <2> HIDE DEF k
  <2>2. DelaySegment(d, a, w, s, m + 1)
          = [line |-> cleared, outzero |-> a.outzero, xs |-> Append(a.xs \o Blank(k), <<>>)]
    <3>1. a.xs \o Blank(k + 1) = Append(a.xs \o Blank(k), <<>>)
      <4>1. k \in Int /\ k >= 0 /\ IsSeq(a.xs)
        BY <2>1 DEF LagOK
      <4> QED BY <4>1, BlanksJoin, Zenon
    <3>2. DelaySegment(d, a, w, s, m + 1)
            = [line |-> cleared, outzero |-> a.outzero, xs |-> a.xs \o Blank(m + 1 - s)]
      <4>1. PICK e : e = m + 1
        OBVIOUS
      <4>2. DelaySegment(d, a, w, s, e)
              = [line |-> cleared, outzero |-> a.outzero, xs |-> a.xs \o Blank(e - s)]
        BY <1>1, <2>1, <4>1, Zenon DEF DelaySegment, Blank
      <4> QED BY <4>1, <4>2
    <3> QED BY <2>1, <3>1, <3>2
  <2>3. CASE s = m
    <3>1. DelaySegment(d, a, v, s, m) = a
      BY <2>3 DEF DelaySegment
    <3>2. a.xs \o Blank(0) = a.xs
      <4>1. Blank(0) = <<>>
        BY DEF Blank
      <4>2. PICK n \in Nat : IsList(a.xs, n)
        BY DEF LagOK, IsSeq
      <4> QED BY <4>1, <4>2, JoinList
    <3> QED BY <1>1, <2>1, <2>2, <2>3, <3>1, <3>2 DEF Taken
  <2>4. CASE s # m
    <3>1. DelaySegment(d, a, v, s, m)
            = [line |-> cleared, outzero |-> a.outzero, xs |-> a.xs \o Blank(k)]
      BY <1>1, <2>4 DEF DelaySegment, Blank, k
    <3>2. (IF cleared.dirty THEN DelayCleared(d) ELSE cleared) = cleared
      BY DEF DelayCleared
    <3>3. PICK g : g = DelaySegment(d, a, v, s, m)
      OBVIOUS
    <3> HIDE DEF cleared
    <3>4. g.line = cleared /\ g.outzero = a.outzero /\ g.xs = a.xs \o Blank(k)
      BY <3>1, <3>3
    <3>5. Taken(d, g, z)
            = [line |-> IF cleared.dirty THEN DelayCleared(d) ELSE cleared, outzero |-> a.outzero,
               xs |-> Append(a.xs \o Blank(k), <<>>)]
      BY <1>1, <3>4 DEF Taken
    <3> QED BY <2>2, <3>2, <3>3, <3>5
  <2> QED BY <2>3, <2>4
<1>2. CASE ~a.outzero
  <2>1. PICK zs : zs = SubSeq(v, s + 1, m)
    OBVIOUS
  <2>2. PICK ws : ws = SubSeq(w, s + 1, m + 1)
    OBVIOUS
  <2>3. PICK k \in Nat : k = m - s
    OBVIOUS
  <2>4. /\ DOMAIN zs = 1 .. k /\ DOMAIN ws = 1 .. k + 1 /\ ws[k + 1] = z
        /\ \A i \in 1 .. k : ws[i] = zs[i]
    <3>1. zs = [i \in 1 .. k |-> v[i + s]] /\ ws = [i \in 1 .. k + 1 |-> w[i + s]]
      BY <2>1, <2>2, <2>3 DEF SubSeq
    <3>2. k + 1 + s = m + 1 /\ k + 1 \in 1 .. k + 1 /\ w[m + 1] = z
      BY <2>3 DEF Extends
    <3>3. \A i \in 1 .. k : i + s \in 1 .. m /\ v[i + s] = w[i + s] /\ i \in 1 .. k + 1
      BY <2>3 DEF Extends
    <3> QED BY <3>1, <3>2, <3>3
  <2>5. Line!Fold(d, a, ws) = DelayStep(d, Line!Fold(d, a, zs), z)
    BY <2>4, LeastIs, Line!FoldAppend
  <2>6. /\ DelaySegment(d, a, v, s, m) = Line!Fold(d, a, zs)
        /\ DelaySegment(d, a, w, s, m + 1) = Line!Fold(d, a, ws)
    BY <1>2, <2>1, <2>2, SegmentOpen
  <2>7. ~DelaySegment(d, a, v, s, m).outzero
    BY <1>2, SegmentKeeps
  <2> QED BY <2>5, <2>6, <2>7 DEF Taken
<1> QED BY <1>1, <1>2

\* Two delays in the same state, after one more sample.
Alike(xs, b, w) == b.line = w.line /\ b.outzero = w.outzero /\ Grows(xs, b.xs, w.xs)

\* What it makes of a sample does not depend on what it has delivered.
LEMMA TakenAlone ==
  ASSUME NEW d, NEW a, LagOK(a), NEW z,
         NEW b, b = [line |-> a.line, outzero |-> a.outzero, xs |-> <<>>]
  PROVE  Alike(a.xs, Taken(d, b, z), Taken(d, a, z)) /\ Taken(d, b, z).xs # <<>>
<1>1. b.line = a.line /\ b.outzero = a.outzero /\ b.xs = <<>>
  OBVIOUS
<1>2. CASE a.outzero
  BY <1>1, <1>2, AppendNothing DEF Taken, Alike, Grows
<1>3. CASE ~a.outzero
  BY <1>1, <1>3, AppendNothing DEF Taken, DelayStep, Alike, Grows
<1> QED BY <1>2, <1>3

\* How many emissions a boundary has before it.
LEMMA BeforeIs ==
  ASSUME NEW m \in Nat, NEW os, DOMAIN os = 1 .. m, NEW boundary
  PROVE  /\ Before(os, boundary) \in 0 .. m
         /\ (\A i \in 1 .. m : os[i] <= boundary) => Before(os, boundary) = m
<1> DEFINE T == {i \in DOMAIN os : os[i] <= boundary}
<1>1. T \subseteq 1 .. m
  OBVIOUS
<1>2. IsFiniteSet(1 .. m) /\ Cardinality(1 .. m) = m
  BY FS_Interval
<1>3. IsFiniteSet(T) /\ Cardinality(T) <= m
  BY <1>1, <1>2, FS_Subset
<1>4. Cardinality(T) \in Nat
  BY <1>3, FS_CardinalityType
<1>5. (\A i \in 1 .. m : os[i] <= boundary) => T = 1 .. m
  OBVIOUS
<1> HIDE DEF T
<1>6. Cardinality(T) \in 0 .. m /\ ((\A i \in 1 .. m : os[i] <= boundary) => Cardinality(T) = m)
  BY <1>2, <1>3, <1>4, <1>5
<1> QED BY <1>6 DEF Before, T

\* A span of n samples of which m were emitted, one that is longer by a sample, and the
\* sample alone.
Longer(m, n, S, R, T) ==
  /\ DOMAIN S.offsets = 1 .. m /\ Len(S.offsets) = m /\ \A i \in 1 .. m : S.offsets[i] \in 1 .. n
  /\ S.delay = T.delay /\ R.delay = T.delay
  /\ Extends(S.gates, n, R.gates[1], T.gates)
  /\ \/ /\ T.voice = S.voice /\ T.offsets = S.offsets /\ R.voice = <<>> /\ R.offsets = <<>>
     \/ \E z : /\ Extends(S.voice, m, z, T.voice) /\ R.voice = <<z>>
               /\ T.offsets = Append(S.offsets, n + 1) /\ R.offsets = << 1 >>

LEMMA LongerOffsets ==
  ASSUME NEW m \in Nat, NEW n \in Nat, NEW S, NEW R, NEW T, Longer(m, n, S, R, T),
         T.offsets = Append(S.offsets, n + 1)
  PROVE  /\ Len(T.offsets) = m + 1 /\ DOMAIN T.offsets = 1 .. m + 1 /\ T.offsets[m + 1] = n + 1
         /\ \A i \in 1 .. m : T.offsets[i] = S.offsets[i] /\ S.offsets[i] \in 1 .. n
<1>1. PICK os : os = S.offsets
  OBVIOUS
<1>2. DOMAIN os = 1 .. m /\ Len(os) = m /\ \A i \in 1 .. m : os[i] \in 1 .. n
  BY <1>1 DEF Longer
<1>3. Append(os, n + 1)
        = [i \in 1 .. m + 1 |-> IF i = m + 1 THEN n + 1 ELSE os[i]]
  BY <1>2 DEF Append
<1>4. PICK ow : ow = T.offsets
  OBVIOUS
<1>5. ow = [i \in 1 .. m + 1 |-> IF i = m + 1 THEN n + 1 ELSE os[i]]
  BY <1>1, <1>3, <1>4
<1>6. Len(ow) = m + 1 /\ DOMAIN ow = 1 .. m + 1 /\ ow[m + 1] = n + 1
  BY <1>5
<1>7. \A i \in 1 .. m : ow[i] = os[i] /\ os[i] \in 1 .. n
  BY <1>2, <1>5
<1> QED BY <1>1, <1>4, <1>6, <1>7

\* A gate that is looked at within the shorter span.
LEMMA BeforeSame ==
  ASSUME NEW m \in Nat, NEW n \in Nat, NEW S, NEW R, NEW T, Longer(m, n, S, R, T),
         NEW boundary \in 1 .. n
  PROVE  Before(T.offsets, boundary) = Before(S.offsets, boundary)
<1>1. CASE T.offsets = S.offsets
  BY <1>1
<1>2. CASE T.offsets = Append(S.offsets, n + 1)
  <2>1. PICK ow : ow = T.offsets
    OBVIOUS
  <2>2. PICK os : os = S.offsets
    OBVIOUS
  <2>3. DOMAIN os = 1 .. m
    BY <2>2 DEF Longer
  <2>4. DOMAIN ow = 1 .. m + 1 /\ ow[m + 1] = n + 1 /\ \A i \in 1 .. m : ow[i] = os[i]
    BY <1>2, <2>1, <2>2, LongerOffsets
  <2>5. ~(n + 1 <= boundary)
    OBVIOUS
  <2>6. {i \in DOMAIN ow : ow[i] <= boundary} = {i \in DOMAIN os : os[i] <= boundary}
    BY <2>3, <2>4, <2>5
  <2> QED BY <2>1, <2>2, <2>6 DEF Before
<1> QED BY <1>1, <1>2 DEF Longer

\* The state of the gate within a span that emitted m samples.
GateOK(m, a) == a = [from |-> a.from, lag |-> a.lag] /\ a.from \in 0 .. m /\ LagOK(a.lag)

LEMMA GateKeeps ==
  ASSUME NEW m \in Nat, NEW n \in Nat, NEW S, NEW R, NEW T, Longer(m, n, S, R, T),
         NEW a, GateOK(m, a), NEW boundary \in 1 .. n
  PROVE  GateOK(m, GateStep(S, a, boundary)) /\ GateStep(T, a, boundary) = GateStep(S, a, boundary)
<1>1. PICK end : end = Before(S.offsets, boundary)
  OBVIOUS
<1>2. end \in 0 .. m /\ Before(T.offsets, boundary) = end
  <2>1. DOMAIN S.offsets = 1 .. m
    BY DEF Longer
  <2>2. Before(S.offsets, boundary) \in 0 .. m
    BY <2>1, BeforeIs
  <2>3. Before(T.offsets, boundary) = Before(S.offsets, boundary)
    BY BeforeSame
  <2> QED BY <1>1, <2>2, <2>3
<1>3. PICK b : b = DelaySegment(S.delay, a.lag, S.voice, a.from, end)
  OBVIOUS
<1>4. DelaySegment(T.delay, a.lag, T.voice, a.from, end) = b
  <2>1. a.from \in 0 .. m /\ S.delay = T.delay
    BY DEF GateOK, Longer
  <2>2. CASE T.voice = S.voice
    BY <1>3, <2>1, <2>2
  <2>3. CASE \E z : Extends(S.voice, m, z, T.voice)
    BY <1>2, <1>3, <2>1, <2>3, SegmentSame
  <2> QED BY <2>2, <2>3 DEF Longer
<1>5. LagOK(b)
  BY <1>2, <1>3, SegmentKeeps DEF GateOK
<1>6. S.gates[boundary] = T.gates[boundary]
  BY DEF Longer, Extends
<1>7. PICK gate : gate = ~S.gates[boundary]
  OBVIOUS
<1>8. GateStep(S, a, boundary) = [from |-> end, lag |-> [line |-> b.line, outzero |-> gate, xs |-> b.xs]]
  BY <1>1, <1>3, <1>7 DEF GateStep
<1>9. GateStep(T, a, boundary) = [from |-> end, lag |-> [line |-> b.line, outzero |-> gate, xs |-> b.xs]]
  BY <1>2, <1>4, <1>6, <1>7 DEF GateStep
<1>10. GateOK(m, [from |-> end, lag |-> [line |-> b.line, outzero |-> gate, xs |-> b.xs]])
  BY <1>2, <1>5 DEF GateOK, LagOK
<1> QED BY <1>8, <1>9, <1>10

LEMMA GatesSame ==
  ASSUME NEW m \in Nat, NEW n \in Nat, NEW S, NEW R, NEW T, Longer(m, n, S, R, T),
         NEW a, GateOK(m, a), NEW q \in Nat, NEW bs, DOMAIN bs = 1 .. q,
         \A i \in 1 .. q : bs[i] \in 1 .. n
  PROVE  GateOK(m, Gate!Fold(S, a, bs)) /\ Gate!Fold(T, a, bs) = Gate!Fold(S, a, bs)
<1>1. PICK t : Gate!Trajectory(S, a, bs, q, t) /\ t[q] = Gate!Fold(S, a, bs)
  BY LeastIs, Gate!FoldSteps, Zenon
<1> DEFINE I == {k \in 0 .. q : GateOK(m, t[k])}
<1>2. 0 \in I
  BY <1>1 DEF Gate!Trajectory
<1>3. ASSUME NEW k \in 1 .. q, k - 1 \in I PROVE k \in I
  <2>1. t[k] = GateStep(S, t[k - 1], bs[k])
    BY <1>1 DEF Gate!Trajectory
  <2>2. GateOK(m, t[k - 1]) /\ bs[k] \in 1 .. n
    BY <1>3
  <2>3. GateOK(m, t[k])
    BY <2>1, <2>2, GateKeeps
  <2> QED BY <2>3
<1> HIDE DEF I
<1>4. \A k \in 0 .. q : k \in I
  BY <1>2, <1>3, LeastIs, Gate!Upwards, Zenon
<1>5. \A k \in 0 .. q : GateOK(m, t[k])
  BY <1>4 DEF I
<1>6. ASSUME NEW k \in 1 .. q PROVE t[k] = GateStep(T, t[k - 1], bs[k])
  <2>1. t[k] = GateStep(S, t[k - 1], bs[k]) /\ k - 1 \in 0 .. q /\ bs[k] \in 1 .. n
    BY <1>1 DEF Gate!Trajectory
  <2>2. GateOK(m, t[k - 1])
    BY <1>5, <2>1
  <2> QED BY <2>1, <2>2, GateKeeps
<1>7. Gate!Trajectory(T, a, bs, q, t)
  BY <1>1, <1>6 DEF Gate!Trajectory
<1>8. Gate!Fold(T, a, bs) = t[q]
  BY <1>7, LeastIs, Gate!FoldSame, Zenon
<1> QED BY <1>1, <1>5, <1>8

\* The last segment of a span.
Ended(S, a) == DelaySegment(S.delay, a.lag, S.voice, a.from, Len(S.offsets))

\* The rest of a span, after its last boundary.
LEMMA EndSplits ==
  ASSUME NEW m \in Nat, NEW n \in Nat, NEW S, NEW R, NEW T, Longer(m, n, S, R, T),
         NEW a, GateOK(m, a), NEW u, u = Ended(S, a),
         NEW e, e = [from |-> 0, lag |-> [line |-> u.line, outzero |-> u.outzero, xs |-> <<>>]]
  PROVE  /\ LagOK(u) /\ Alike(u.xs, Ended(R, e), Ended(T, a))
         /\ (R.offsets = <<>>) = (Ended(R, e).xs = <<>>)
<1>1. PICK d : d = S.delay
  OBVIOUS
<1>2. Len(S.offsets) = m /\ T.delay = d /\ R.delay = d /\ a.from \in 0 .. m /\ LagOK(a.lag)
  BY <1>1 DEF Longer, GateOK
<1>3. u = DelaySegment(d, a.lag, S.voice, a.from, m)
  BY <1>1, <1>2 DEF Ended
<1>4. LagOK(u)
  BY <1>2, <1>3, SegmentKeeps
<1>5. PICK M : M = [line |-> u.line, outzero |-> u.outzero, xs |-> <<>>]
  OBVIOUS
<1>6. e.lag = M /\ e.from = 0
  BY <1>5
<1>7. CASE T.voice = S.voice /\ T.offsets = S.offsets /\ R.voice = <<>> /\ R.offsets = <<>>
  <2>1. Ended(T, a) = u
    BY <1>1, <1>2, <1>7 DEF Ended
  <2>2. Len(R.offsets) = 0
    BY <1>7
  <2>3. Ended(R, e) = M
    BY <1>6, <2>2 DEF Ended, DelaySegment
  <2>4. M.line = u.line /\ M.outzero = u.outzero /\ M.xs = <<>>
    BY <1>5
  <2> QED BY <1>4, <1>7, <2>1, <2>3, <2>4 DEF Grows, Alike
<1>a. T.offsets = Append(S.offsets, n + 1) => Len(T.offsets) = m + 1
  BY LongerOffsets
<1>8. ASSUME NEW z, Extends(S.voice, m, z, T.voice), R.voice = <<z>>,
             T.offsets = Append(S.offsets, n + 1), R.offsets = << 1 >>
      PROVE  /\ Alike(u.xs, Ended(R, e), Ended(T, a))
             /\ Ended(R, e).xs # <<>> /\ R.offsets # <<>>
  <2>1. Len(T.offsets) = m + 1
    BY <1>8, <1>a
  <2>2. Ended(T, a) = Taken(d, u, z)
    <3>1. Ended(T, a) = DelaySegment(d, a.lag, T.voice, a.from, m + 1)
      BY <1>2, <2>1 DEF Ended
    <3>2. DelaySegment(d, a.lag, T.voice, a.from, m + 1)
            = Taken(d, DelaySegment(d, a.lag, S.voice, a.from, m), z)
      BY <1>2, <1>8, SegmentGrows
    <3> QED BY <1>3, <3>1, <3>2
  <2>3. Ended(R, e) = Taken(d, M, z)
    <3>1. PICK one : one = <<z>>
      OBVIOUS
    <3>2. PICK none : none = <<>>
      OBVIOUS
    <3>3. PICK zero : zero = 0
      OBVIOUS
    <3>4. Extends(none, zero, z, one)
      BY <3>1, <3>2, <3>3 DEF Extends
    <3>5. Ended(R, e) = DelaySegment(d, M, one, zero, zero + 1)
      <4>1. Len(R.offsets) = zero + 1
        BY <1>8, <3>3
      <4> QED BY <1>2, <1>6, <1>8, <3>1, <3>3, <4>1 DEF Ended
    <3>6. LagOK(M)
      <4>1. M = [line |-> M.line, outzero |-> M.outzero, xs |-> M.xs] /\ M.xs = <<>>
        BY <1>5
      <4>2. IsSeq(M.xs)
        BY <4>1, ShortLists DEF IsSeq
      <4> QED BY <4>1, <4>2 DEF LagOK
    <3>7. zero \in Nat /\ zero \in 0 .. zero
      BY <3>3
    <3>8. DelaySegment(d, M, one, zero, zero + 1) = Taken(d, DelaySegment(d, M, none, zero, zero), z)
      BY <3>4, <3>6, <3>7, SegmentGrows
    <3>9. DelaySegment(d, M, none, zero, zero) = M
      BY DEF DelaySegment
    <3> QED BY <3>5, <3>8, <3>9
  <2>4. Alike(u.xs, Taken(d, M, z), Taken(d, u, z)) /\ Taken(d, M, z).xs # <<>>
    BY <1>4, <1>5, TakenAlone
  <2>5. R.offsets # <<>>
    BY <1>8, AppendNothing
  <2> QED BY <2>2, <2>3, <2>4, <2>5
<1> QED BY <1>4, <1>7, <1>8 DEF Longer

\* The boundaries of the longer span are those of the shorter one, and its last
\* frame if the sample alone has one.
Cut(n, bs, cs, ds) ==
  \E q \in Nat :
    /\ DOMAIN bs = 1 .. q /\ \A i \in 1 .. q : bs[i] \in 1 .. n
    /\ (cs = bs /\ ds = <<>>) \/ (Extends(bs, q, n + 1, cs) /\ ds = << 1 >>)

\* The delay between the gates of a span and one more frame.
LEMMA GatedSplits ==
  ASSUME NEW m \in Nat, NEW n \in Nat, NEW S, NEW R, NEW T, Longer(m, n, S, R, T),
         NEW lag, LagOK(lag), NEW bs, NEW cs, NEW ds, Cut(n, bs, cs, ds),
         NEW u, u = Gated(S, lag, bs),
         NEW M, M = [line |-> u.line, outzero |-> u.outzero, xs |-> <<>>]
  PROVE  /\ LagOK(u) /\ Alike(u.xs, Gated(R, M, ds), Gated(T, lag, cs))
         /\ (R.offsets = <<>>) = (Gated(R, M, ds).xs = <<>>)
<1>0. PICK q \in Nat :
        /\ DOMAIN bs = 1 .. q /\ \A i \in 1 .. q : bs[i] \in 1 .. n
        /\ (cs = bs /\ ds = <<>>) \/ (Extends(bs, q, n + 1, cs) /\ ds = << 1 >>)
  BY DEF Cut
<1>1. PICK start : start = [from |-> 0, lag |-> lag]
  OBVIOUS
<1>2. PICK a : a = Gate!Fold(S, start, bs)
  OBVIOUS
<1>3. GateOK(m, start)
  BY <1>1 DEF GateOK
<1>4. GateOK(m, a) /\ Gate!Fold(T, start, bs) = a
  BY <1>0, <1>2, <1>3, GatesSame
<1>5. u = Ended(S, a)
  BY <1>1, <1>2, GatedIsFold DEF Ended
<1>6. PICK e : e = [from |-> 0, lag |-> M]
  OBVIOUS
<1>7. PICK v : v = Ended(R, e)
  OBVIOUS
<1>8. PICK z : z = Ended(T, a)
  OBVIOUS
<1>9. LagOK(u) /\ Alike(u.xs, v, z) /\ (R.offsets = <<>>) = (v.xs = <<>>)
  <2>1. e = [from |-> 0, lag |-> [line |-> u.line, outzero |-> u.outzero, xs |-> <<>>]]
    BY <1>6
  <2> QED BY <1>4, <1>5, <1>7, <1>8, <2>1, EndSplits
<1>10. CASE cs = bs /\ ds = <<>>
  <2>1. Gated(T, lag, cs) = z
    BY <1>1, <1>4, <1>8, <1>10, GatedIsFold DEF Ended
  <2>2. Gate!Fold(R, e, <<>>) = e
    BY LeastIs, Gate!FoldEmpty, Zenon
  <2>3. Gated(R, M, ds) = v
    BY <1>6, <1>7, <1>10, <2>2, GatedIsFold DEF Ended
  <2> QED BY <1>9, <2>1, <2>3
<1>11. CASE Extends(bs, q, n + 1, cs) /\ ds = << 1 >>
  <2>1. PICK g : g = R.gates[1]
    OBVIOUS
  <2>2. T.gates[n + 1] = g
    BY <2>1 DEF Longer, Extends
  <2>3. Gate!Fold(T, start, cs) = GateStep(T, a, n + 1)
    <3>1. /\ DOMAIN bs = 1 .. q /\ DOMAIN cs = 1 .. q + 1
          /\ cs[q + 1] = n + 1 /\ \A k \in 1 .. q : cs[k] = bs[k]
      BY <1>11 DEF Extends
    <3>2. Gate!Fold(T, start, cs) = GateStep(T, Gate!Fold(T, start, bs), n + 1)
      BY <3>1, LeastIs, Gate!FoldAppend
    <3> QED BY <1>4, <3>2
  <2>4. Before(T.offsets, n + 1) = Len(T.offsets)
    <3>1. PICK k \in Nat : /\ DOMAIN T.offsets = 1 .. k /\ Len(T.offsets) = k
                           /\ \A i \in 1 .. k : T.offsets[i] <= n + 1
      <4>1. CASE T.offsets = S.offsets
        <5>1. /\ DOMAIN T.offsets = 1 .. m /\ Len(T.offsets) = m
              /\ \A i \in 1 .. m : T.offsets[i] \in 1 .. n
          BY <4>1 DEF Longer
        <5>2. \A o \in 1 .. n : o <= n + 1
          OBVIOUS
        <5> QED BY <5>1, <5>2
      <4>2. CASE T.offsets = Append(S.offsets, n + 1)
        <5>1. /\ DOMAIN T.offsets = 1 .. m + 1 /\ Len(T.offsets) = m + 1
              /\ T.offsets[m + 1] = n + 1 /\ \A i \in 1 .. m : T.offsets[i] \in 1 .. n
          BY <4>2, LongerOffsets
        <5>2. \A o \in 1 .. n : o <= n + 1
          OBVIOUS
        <5>3. \A i \in 1 .. m + 1 : i = m + 1 \/ i \in 1 .. m
          OBVIOUS
        <5>4. \A i \in 1 .. m + 1 : T.offsets[i] <= n + 1
          BY <5>1, <5>2, <5>3
        <5>5. m + 1 \in Nat
          OBVIOUS
        <5> QED BY <5>1, <5>4, <5>5
      <4> QED BY <4>1, <4>2 DEF Longer
    <3> QED BY <3>1, BeforeIs
  <2>5. Gated(T, lag, cs) = [line |-> z.line, outzero |-> ~g, xs |-> z.xs]
    <3>1. PICK b : b = GateStep(T, a, n + 1)
      OBVIOUS
    <3>2. b = [from |-> Len(T.offsets), lag |-> [line |-> z.line, outzero |-> ~g, xs |-> z.xs]]
      BY <1>8, <2>2, <2>4, <3>1 DEF GateStep, Ended
    <3>3. b.from = Len(T.offsets) /\ b.lag = [line |-> z.line, outzero |-> ~g, xs |-> z.xs]
      BY <3>2
    <3>4. Gated(T, lag, cs) = DelaySegment(T.delay, b.lag, T.voice, b.from, Len(T.offsets))
      BY <1>1, <2>3, <3>1, GatedIsFold
    <3> QED BY <3>3, <3>4 DEF DelaySegment
  <2>6. Gate!Fold(R, e, << 1 >>) = GateStep(R, e, 1)
    BY LeastIs, Gate!FoldOne, Zenon
  <2>7. Before(R.offsets, 1) = Len(R.offsets)
    <3>1. R.offsets = <<>> \/ R.offsets = << 1 >>
      BY DEF Longer
    <3>2. PICK k \in Nat : /\ DOMAIN R.offsets = 1 .. k /\ Len(R.offsets) = k
                           /\ \A i \in 1 .. k : R.offsets[i] <= 1
      <4>1. CASE R.offsets = <<>>
        <5>1. DOMAIN R.offsets = 1 .. 0 /\ Len(R.offsets) = 0
          BY <4>1
        <5> QED BY <5>1
      <4>2. CASE R.offsets = << 1 >>
        <5>1. DOMAIN R.offsets = 1 .. 1 /\ Len(R.offsets) = 1 /\ R.offsets[1] = 1
          BY <4>2
        <5>2. \A i \in 1 .. 1 : R.offsets[i] <= 1
          BY <5>1
        <5> QED BY <5>1, <5>2
      <4> QED BY <3>1, <4>1, <4>2
    <3> QED BY <3>2, BeforeIs
  <2>8. Gated(R, M, ds) = [line |-> v.line, outzero |-> ~g, xs |-> v.xs]
    <3>1. PICK b : b = GateStep(R, e, 1)
      OBVIOUS
    <3>2. b = [from |-> Len(R.offsets), lag |-> [line |-> v.line, outzero |-> ~g, xs |-> v.xs]]
      BY <1>7, <2>1, <2>7, <3>1 DEF GateStep, Ended
    <3>3. b.from = Len(R.offsets) /\ b.lag = [line |-> v.line, outzero |-> ~g, xs |-> v.xs]
      BY <3>2
    <3>4. Gated(R, M, ds) = DelaySegment(R.delay, b.lag, R.voice, b.from, Len(R.offsets))
      BY <1>6, <1>11, <2>6, <3>1, GatedIsFold
    <3> QED BY <3>3, <3>4 DEF DelaySegment
  <2>9. PICK x : x = Gated(R, M, ds)
    OBVIOUS
  <2>10. PICK y : y = Gated(T, lag, cs)
    OBVIOUS
  <2>11. /\ x.line = v.line /\ x.outzero = ~g /\ x.xs = v.xs
         /\ y.line = z.line /\ y.outzero = ~g /\ y.xs = z.xs
    BY <2>5, <2>8, <2>9, <2>10
  <2>12. Alike(u.xs, x, y)
    BY <1>9, <2>11 DEF Alike
  <2> QED BY <1>9, <2>9, <2>10, <2>11, <2>12
<1> QED BY <1>0, <1>10, <1>11

\* The boundaries of the gate in a span and one more frame.
LEMMA BoundariesSplit ==
  ASSUME NEW r \in 0 .. GateInterval - 1, NEW n \in Nat, NEW bs, bs = Boundaries(r, n),
         NEW cs, cs = Boundaries(r, n + 1), NEW ds, ds = Boundaries((r + n) % GateInterval, 1)
  PROVE  Cut(n, bs, cs, ds)
<1>1. PICK g \in Nat \ {0} : g = GateInterval
  BY PathAssumption DEF PathAssumption
<1>2. PICK x \in Nat : x = r + n
  OBVIOUS
<1>3. PICK q, y : q = x \div g /\ y = x % g
  OBVIOUS
<1>4. q \in Nat /\ y \in 0 .. g - 1 /\ r \in 0 .. g - 1
  BY <1>1, <1>3, DivisionCounts
<1>5. /\ bs = [i \in 1 .. q |-> i * g - r]
      /\ cs = [i \in 1 .. (x + 1) \div g |-> i * g - r]
      /\ ds = [i \in 1 .. (y + 1) \div g |-> i * g - y]
  <2>1. r + (n + 1) = x + 1
    BY <1>2
  <2> QED BY <1>1, <1>2, <1>3, <2>1 DEF Boundaries
<1>6. x = g * q + y
  BY <1>3
<1>7. ASSUME NEW i \in 1 .. q PROVE i * g - r \in 1 .. n
  <2>1. PICK j, k \in Nat : i = j + 1 /\ q = i + k
    <3>1. i - 1 \in Nat /\ q - i \in Nat /\ i = (i - 1) + 1 /\ q = i + (q - i)
      BY <1>4
    <3> QED BY <3>1
  <2>2. i * g = j * g + g /\ j * g \in Nat
    BY <2>1
  <2>3. g * q = i * g + k * g /\ k * g \in Nat /\ i * g \in Nat
    BY <2>1
  <2>4. PICK a, b \in Nat : a = i * g /\ b = g * q
    BY <2>3
  <2>5. a >= g /\ a <= b
    BY <2>2, <2>3, <2>4
  <2>6. b <= r + n
    BY <1>2, <1>4, <1>6, <2>4
  <2>7. a - r \in 1 .. n
    BY <1>4, <2>5, <2>6
  <2> QED BY <2>4, <2>7
<1>8. DOMAIN bs = 1 .. q /\ \A i \in 1 .. q : bs[i] \in 1 .. n
  BY <1>5, <1>7
<1>9. y \in Nat /\ y % g = y /\ y \div g = 0
  <2>1. \A z \in 0 .. g - 1 : z % g = z /\ z \div g = 0
    OBVIOUS
  <2> QED BY <1>4, <2>1
<1>10. CASE y + 1 # g
  <2>1. (x + 1) \div g = q /\ (y + 1) \div g = 0
    <3>1. (x + 1) \div g = q
      BY <1>3, <1>10, DivisionCounts
    <3>2. (y + 1) \div g = 0
      BY <1>9, <1>10, DivisionCounts
    <3> QED BY <3>1, <3>2
  <2>2. cs = bs /\ ds = <<>>
    BY <1>5, <2>1
  <2> QED BY <1>4, <1>8, <2>2 DEF Cut
<1>11. CASE y + 1 = g
  <2>1. (x + 1) \div g = q + 1 /\ (y + 1) \div g = 1
    <3>1. (x + 1) \div g = q + 1
      BY <1>3, <1>11, DivisionCounts
    <3>2. (y + 1) \div g = 1
      <4>1. (y % g) + 1 = g /\ (y \div g) + 1 = 1
        BY <1>9, <1>11
      <4>2. (y + 1) \div g = (y \div g) + 1
        BY <1>9, <4>1, DivisionCounts
      <4> QED BY <4>1, <4>2
    <3> QED BY <3>1, <3>2
  <2>2. (q + 1) * g - r = n + 1
    <3>1. (q + 1) * g = g * q + g
      BY <1>4
    <3>2. PICK b \in Nat : b = g * q
      BY <1>4
    <3>3. b + g - r = n + 1
      BY <1>2, <1>4, <1>6, <1>11, <3>2
    <3> QED BY <3>1, <3>2, <3>3
  <2>3. cs = [i \in 1 .. q + 1 |-> i * g - r]
    BY <1>5, <2>1
  <2>4. Extends(bs, q, n + 1, cs)
    <3>1. DOMAIN cs = 1 .. q + 1 /\ cs[q + 1] = (q + 1) * g - r
      BY <1>4, <2>3
    <3>2. \A i \in 1 .. q : i \in 1 .. q + 1 /\ cs[i] = bs[i]
      BY <1>4, <1>5, <2>3
    <3> QED BY <1>8, <2>2, <3>1, <3>2 DEF Extends
  <2>5. ds = << 1 >>
    <3>1. 1 * g - y = 1
      BY <1>4, <1>11
    <3>2. ds = [i \in 1 .. 1 |-> i * g - y]
      BY <1>5, <2>1
    <3>3. ds = [i \in 1 .. 1 |-> 1]
      BY <3>1, <3>2
    <3> QED BY <3>3
  <2> QED BY <1>4, <1>8, <2>4, <2>5 DEF Cut
<1> QED BY <1>10, <1>11

\* The whole delay over a span and one more frame.
LEMMA DelaySplits ==
  ASSUME NEW c, NEW p, p.remainder \in 0 .. GateInterval - 1, NEW m \in Nat, NEW n \in Nat,
         NEW S, NEW R, NEW T, HasDelay(c) => Longer(m, n, S, R, T),
         S.delay = c.delay, T.delay = c.delay, R.delay = c.delay,
         NEW u, u = Delay(c, p, S, n), NEW q, q.delay = u.line, q.outzero = u.outzero,
         q.remainder = Remainder(c, p.remainder, n)
  PROVE  Alike(u.xs, Delay(c, q, R, 1), Delay(c, p, T, n + 1)) /\ IsSeq(u.xs)
<1>0. IsSeq(<<>>)
  BY ShortLists DEF IsSeq
<1>1. CASE ~HasDelay(c)
  <2>1. PICK v : v = Delay(c, q, R, 1)
    OBVIOUS
  <2>2. PICK z : z = Delay(c, p, T, n + 1)
    OBVIOUS
  <2>3. /\ u = [line |-> p.delay, outzero |-> p.outzero, xs |-> <<>>]
        /\ v = [line |-> q.delay, outzero |-> q.outzero, xs |-> <<>>]
        /\ z = [line |-> p.delay, outzero |-> p.outzero, xs |-> <<>>]
    BY <1>1, <2>1, <2>2 DEF Delay
  <2>4. u.line = p.delay /\ u.outzero = p.outzero /\ u.xs = <<>>
    BY <2>3
  <2>5. v.line = q.delay /\ v.outzero = q.outzero /\ v.xs = <<>>
    BY <2>3
  <2>6. z.line = p.delay /\ z.outzero = p.outzero /\ z.xs = <<>>
    BY <2>3
  <2>7. Alike(u.xs, v, z)
    BY <2>4, <2>5, <2>6 DEF Alike, Grows
  <2> QED BY <1>0, <2>1, <2>2, <2>4, <2>7
<1>2. CASE HasDelay(c)
  <2>1. PICK lag : lag = [line |-> p.delay, outzero |-> p.outzero, xs |-> <<>>]
    OBVIOUS
  <2>2. LagOK(lag)
    <3>1. lag = [line |-> lag.line, outzero |-> lag.outzero, xs |-> lag.xs] /\ lag.xs = <<>>
      BY <2>1
    <3> QED BY <1>0, <3>1 DEF LagOK
  <2>3. PICK M : M = [line |-> u.line, outzero |-> u.outzero, xs |-> <<>>]
    OBVIOUS
  <2> DEFINE vox == c.carrier = "vox"
  <2>4. PICK bs : bs = IF vox THEN <<>> ELSE Boundaries(p.remainder, n)
    OBVIOUS
  <2>5. PICK cs : cs = IF vox THEN <<>> ELSE Boundaries(p.remainder, n + 1)
    OBVIOUS
  <2>6. PICK ds : ds = IF vox THEN <<>> ELSE Boundaries((p.remainder + n) % GateInterval, 1)
    OBVIOUS
  <2>7. u = Gated(S, lag, bs)
    BY <1>2, <2>1, <2>4 DEF Delay, Lagged
  <2>8. Delay(c, p, T, n + 1) = Gated(T, lag, cs)
    BY <1>2, <2>1, <2>5 DEF Delay, Lagged
  <2>9. Delay(c, q, R, 1) = Gated(R, M, ds)
    BY <1>2, <2>3, <2>6 DEF Delay, Lagged, Remainder
  <2>10. Cut(n, bs, cs, ds)
    <3>1. CASE vox
      <4>1. bs = <<>> /\ cs = <<>> /\ ds = <<>> /\ DOMAIN bs = 1 .. 0
        BY <2>4, <2>5, <2>6, <3>1
      <4> QED BY <4>1 DEF Cut
    <3>2. CASE ~vox
      <4>1. /\ bs = Boundaries(p.remainder, n) /\ cs = Boundaries(p.remainder, n + 1)
            /\ ds = Boundaries((p.remainder + n) % GateInterval, 1)
        BY <2>4, <2>5, <2>6, <3>2
      <4> QED BY <4>1, BoundariesSplit
    <3> QED BY <3>1, <3>2
  <2>11. LagOK(u) /\ Alike(u.xs, Gated(R, M, ds), Gated(T, lag, cs))
    BY <1>2, <2>2, <2>3, <2>7, <2>10, GatedSplits
  <2> QED BY <2>8, <2>9, <2>11 DEF LagOK
<1> QED BY <1>1, <1>2
----------------------------------------------------------------------------
(* The path over a span and one more sample *)

LEMMA StreamSame ==
  ASSUME NEW p, DOMAIN p = Fields, NEW q, DOMAIN q = Fields
  PROVE  Stream(p) = Stream(q) <=>
           /\ p.front = q.front /\ p.vox = q.vox /\ p.envelope = q.envelope /\ p.lsd = q.lsd
           /\ p.center = q.center /\ p.hpf = q.hpf /\ p.deemphasis = q.deemphasis
           /\ p.delay = q.delay /\ p.remainder = q.remainder /\ p.outzero = q.outzero
           /\ p.dcs = q.dcs /\ p.active = q.active /\ p.halted = q.halted
<1> DEFINE K == Fields \ {"voice", "ctcss"}
<1>1. Stream(p) = [k \in K |-> p[k]] /\ Stream(q) = [k \in K |-> q[k]]
  BY DEF Stream
<1>2. Stream(p) = Stream(q) <=> \A k \in K : p[k] = q[k]
  <2> HIDE DEF K
  <2>1. ASSUME Stream(p) = Stream(q), NEW k \in K PROVE p[k] = q[k]
    <3>1. Stream(p)[k] = Stream(q)[k]
      BY <2>1
    <3> QED BY <1>1, <3>1
  <2>2. ASSUME \A k \in K : p[k] = q[k] PROVE Stream(p) = Stream(q)
    BY <1>1, <2>2
  <2> QED BY <2>1, <2>2
<1>3. K = {"front", "vox", "envelope", "lsd", "center", "hpf", "deemphasis", "delay",
           "remainder", "outzero", "dcs", "active", "halted"}
  BY DEF Fields
<1> HIDE DEF K
<1> QED BY <1>2, <1>3

\* What process_with_carrier leaves of the stream s and delivers for the span u of
\* m samples, from what its stages give.
Told(c, e, f, h) == IF e = "none" THEN CarrierDetect(c, f.front, h.vox) ELSE e = "present"
ProcessedAs(c, e, r, s, u, m, f, o, l, v, d, h) ==
  /\ DOMAIN r.p = Fields
  /\ r.p.front = f.front /\ r.p.vox = h.vox /\ r.p.envelope = h.envelope
  /\ r.p.lsd = l.lsd /\ r.p.center = l.center
  /\ r.p.hpf = v.hpf /\ r.p.deemphasis = v.deemphasis
  /\ r.p.delay = d.line /\ r.p.remainder = Remainder(c, s.remainder, m)
  /\ r.p.outzero = d.outzero
  /\ r.p.ctcss = ToneHeard(c, s, f.base, l.limited, Told(c, e, f, h))
  /\ r.p.dcs = CodeHeard(c, s, u) /\ r.p.active = s.active /\ r.p.halted = s.halted
  /\ r.out = [base |-> f.base, gates |-> f.gates, offsets |-> o, limited |-> l.limited,
              voice |-> v.samples, delayed |-> d.xs,
              carrier |-> CarrierDetect(c, f.front, h.vox)]

LEMMA ProcessIs ==
  ASSUME NEW c, NEW p, NEW xs, NEW e, NEW n, n = Len(xs), NEW f, f = Frontend(c, p.front, xs),
         NEW o, o = EmissionOffsets(c.decimate, p.front.decimator, n),
         NEW l, l = LowSpeed(c, p, f.base), NEW v, v = Voice(c, p, f.base),
         NEW s, s = [delay |-> c.delay, voice |-> v.samples, offsets |-> o, gates |-> f.gates],
         NEW d, d = Delay(c, p, s, n), NEW h, h = Hold(c, p, f.base, o, n),
         NEW r, r = Process(c, p, xs, e)
  PROVE  ProcessedAs(c, e, r, p, xs, n, f, o, l, v, d, h)
<1>1. r = After(c, p, xs, e, f, l, v, d, h)
  BY DEF Process
<1> QED BY <1>1 DEF After, Fields, ProcessedAs, Told

\* The same stream, with the tone where the carrier is told.
SameStream(e, a, b) ==
  /\ Stream(a) = Stream(b)
  /\ e # "none" => a.ctcss = b.ctcss

\* The same deliveries; the carrier is what the last span says.
Delivered(a, b) ==
  /\ a.base = b.base /\ a.gates = b.gates /\ a.offsets = b.offsets
  /\ a.limited = b.limited /\ a.voice = b.voice /\ a.delayed = b.delayed

\* What is joined to the same deliveries is the same.
LEMMA JoinedSame ==
  ASSUME NEW a, NEW b, Delivered(a, b), NEW next
  PROVE  Joined(a, next) = Joined(b, next)
BY DEF Delivered, Joined

LEMMA GrowsJoins ==
  ASSUME NEW a, IsSeq(a), NEW b, NEW w, Grows(a, b, w)
  PROVE  w = a \o b /\ IsSeq(w)
<1>1. PICK n \in Nat : IsList(a, n)
  BY DEF IsSeq
<1>2. a \o <<>> = a /\ \A y : a \o <<y>> = Append(a, y) /\ IsList(Append(a, y), n + 1)
  BY <1>1, JoinList, AppendList
<1>3. n + 1 \in Nat
  OBVIOUS
<1> QED BY <1>1, <1>2, <1>3 DEF Grows, IsSeq

\* The list a stage gives, where it has one.
LEMMA NothingGrows ==
  ASSUME NEW a, a = <<>>, NEW b, b = <<>>, NEW w, w = <<>>
  PROVE  Grows(a, b, w) /\ IsSeq(a)
BY ShortLists DEF Grows, IsSeq

LEMMA SeqIs ==
  ASSUME NEW S, NEW xs \in Seq(S)
  PROVE  Len(xs) \in Nat /\ DOMAIN xs = 1 .. Len(xs)
OBVIOUS

LEMMA AppendedList == \A n \in Nat : \A xs, y : IsList(xs, n) => Append(xs, y) # <<>>
<1> SUFFICES ASSUME NEW n \in Nat, NEW xs, IsList(xs, n), NEW y PROVE Append(xs, y) # <<>>
  OBVIOUS
<1>1. IsList(Append(xs, y), n + 1)
  BY AppendList
<1>2. PICK zs : zs = Append(xs, y)
  OBVIOUS
<1>3. PICK k \in Nat : k = n + 1
  OBVIOUS
<1>4. IsList(zs, k)
  BY <1>1, <1>2, <1>3
<1>5. Len(zs) = k
  BY <1>4, ListIs
<1>6. zs # <<>>
  BY <1>3, <1>5
<1> QED BY <1>2, <1>6

\* A span of n samples.
Span(n, xs) == xs \in [1 .. n -> Int]

\* The whole path: a span and then one more frame leave the stream that both together
\* leave, and deliver what both together deliver.
LEMMA ProcessSplits ==
  ASSUME NEW c \in Configs, NEW p, PathOK(c, p), NEW n \in Nat, NEW xs, Span(n, xs),
         NEW x \in Int, NEW k, k = n + 1, NEW ys, Span(k, ys), Extends(xs, n, x, ys), NEW e,
         NEW A, A = Process(c, p, xs, e), NEW q, PathOK(c, q), SameStream(e, q, A.p),
         NEW one, one = <<x>>, NEW B, B = Process(c, q, one, e), NEW W, W = Process(c, p, ys, e)
  PROVE  SameStream(e, B.p, W.p) /\ W.out = Joined(A.out, B.out)
<1> /\ Stream(q) = Stream(A.p)
    /\ e # "none" => q.ctcss = A.p.ctcss
  BY DEF SameStream
<1> xs \in [1 .. n -> Int] /\ ys \in [1 .. n + 1 -> Int]
  BY DEF Span
<1>1. one = <<x>>
  OBVIOUS
<1>2. n = Len(xs) /\ n + 1 = Len(ys) /\ 1 = Len(one) /\ B = Process(c, q, one, e)
  BY <1>1
<1>3. PICK fa : fa = Frontend(c, p.front, xs)
  OBVIOUS
<1>4. PICK fb : fb = Frontend(c, q.front, one)
  OBVIOUS
<1>5. PICK fw : fw = Frontend(c, p.front, ys)
  OBVIOUS
<1>6. PICK oa : oa = EmissionOffsets(c.decimate, p.front.decimator, n)
  OBVIOUS
<1>7. PICK ob : ob = EmissionOffsets(c.decimate, q.front.decimator, 1)
  OBVIOUS
<1>8. PICK ow : ow = EmissionOffsets(c.decimate, p.front.decimator, n + 1)
  OBVIOUS
<1>9. PICK la, lb, lw : /\ la = LowSpeed(c, p, fa.base) /\ lb = LowSpeed(c, q, fb.base)
                        /\ lw = LowSpeed(c, p, fw.base)
  OBVIOUS
<1>10. PICK va, vb, vw : /\ va = Voice(c, p, fa.base) /\ vb = Voice(c, q, fb.base)
                         /\ vw = Voice(c, p, fw.base)
  OBVIOUS
<1>11. PICK S : S = [delay |-> c.delay, voice |-> va.samples, offsets |-> oa, gates |-> fa.gates]
  OBVIOUS
<1>12. PICK R : R = [delay |-> c.delay, voice |-> vb.samples, offsets |-> ob, gates |-> fb.gates]
  OBVIOUS
<1>13. PICK T : T = [delay |-> c.delay, voice |-> vw.samples, offsets |-> ow, gates |-> fw.gates]
  OBVIOUS
<1>14. PICK da, db, dw : /\ da = Delay(c, p, S, n) /\ db = Delay(c, q, R, 1)
                         /\ dw = Delay(c, p, T, n + 1)
  OBVIOUS
<1>15. PICK ha, hb, hw : /\ ha = Hold(c, p, fa.base, oa, n) /\ hb = Hold(c, q, fb.base, ob, 1)
                         /\ hw = Hold(c, p, fw.base, ow, n + 1)
  OBVIOUS
<1>16. ProcessedAs(c, e, A, p, xs, n, fa, oa, la, va, da, ha)
  BY <1>2, <1>3, <1>6, <1>9, <1>10, <1>11, <1>14, <1>15, ProcessIs
<1>17. ProcessedAs(c, e, B, q, one, 1, fb, ob, lb, vb, db, hb)
  BY <1>2, <1>4, <1>7, <1>9, <1>10, <1>12, <1>14, <1>15, ProcessIs
<1>18. ProcessedAs(c, e, W, p, ys, n + 1, fw, ow, lw, vw, dw, hw)
  BY <1>2, <1>5, <1>8, <1>9, <1>10, <1>13, <1>14, <1>15, ProcessIs
<1>19. /\ q.front = fa.front /\ q.vox = ha.vox /\ q.envelope = ha.envelope
       /\ q.lsd = la.lsd /\ q.center = la.center /\ q.hpf = va.hpf /\ q.deemphasis = va.deemphasis
       /\ q.delay = da.line /\ q.remainder = Remainder(c, p.remainder, n)
       /\ q.outzero = da.outzero /\ q.dcs = CodeHeard(c, p, xs)
       /\ q.active = p.active /\ q.halted = p.halted
  <2>1. DOMAIN q = Fields /\ DOMAIN A.p = Fields
    BY <1>16 DEF PathOK, ProcessedAs
  <2>2. PICK r : r = A.p
    OBVIOUS
  <2>3. /\ q.front = r.front /\ q.vox = r.vox /\ q.envelope = r.envelope /\ q.lsd = r.lsd
        /\ q.center = r.center /\ q.hpf = r.hpf /\ q.deemphasis = r.deemphasis
        /\ q.delay = r.delay /\ q.remainder = r.remainder /\ q.outzero = r.outzero
        /\ q.dcs = r.dcs /\ q.active = r.active /\ q.halted = r.halted
    BY <2>1, <2>2, StreamSame
  <2> QED BY <1>16, <2>2, <2>3 DEF ProcessedAs
<1>20. /\ fa.base \in Seq(Codes) /\ IsList(fa.gates, n)
       /\ oa \in Seq(1 .. n) /\ Len(oa) = Len(fa.base)
  <2>1. PICK o : SpanOK(c, n, fa, o) /\ o.offsets = oa
    BY <1>3, <1>6, SpanKeeps DEF PathOK
  <2> QED BY <2>1 DEF SpanOK
<1>21. /\ fw.front = fb.front /\ Emitted(n, fa.base, oa, fb.base, ob, fw.base, ow)
       /\ \E g : fb.gates = <<g>> /\ fw.gates = Append(fa.gates, g)
  <2>1. FrontOK(c, p.front)
    BY DEF PathOK
  <2>2. fb = Frontend(c, fa.front, <<x>>)
    BY <1>1, <1>4, <1>19
  <2>3. ob = EmissionOffsets(c.decimate, fa.front.decimator, 1)
    BY <1>7, <1>19
  <2>4. FrontFollows(n, fa, oa, fb, ob, fw, ow)
    BY <1>3, <1>5, <1>6, <1>8, <2>1, <2>2, <2>3, FrontSplits
  <2> QED BY <2>4 DEF FrontFollows
<1>22. PICK m : m = Len(fa.base)
  OBVIOUS
<1>23. /\ m \in Nat /\ IsList(fa.base, m) /\ IsList(oa, m)
       /\ (fa.base = <<>> <=> m = 0) /\ \A i \in 1 .. m : oa[i] \in 1 .. n
  <2>1. PICK a : a = fa.base
    OBVIOUS
  <2>2. a \in Seq(Codes) /\ oa \in Seq(1 .. n) /\ m = Len(a) /\ m = Len(oa)
    BY <1>20, <1>22, <2>1
  <2>3. m \in Nat /\ DOMAIN a = 1 .. m /\ DOMAIN oa = 1 .. m
    <3>1. m \in Nat /\ DOMAIN a = 1 .. m
      BY <2>2, SeqIs
    <3>2. \A os \in Seq(1 .. n) : DOMAIN os = 1 .. Len(os)
      OBVIOUS
    <3> QED BY <2>2, <3>1, <3>2
  <2>4. IsList(a, m) /\ IsList(oa, m)
    BY <2>2, <2>3 DEF IsList
  <2>5. \A i \in 1 .. m : oa[i] \in 1 .. n
    BY <2>2, <2>3
  <2>6. a = <<>> => m = 0
    BY <2>2
  <2>7. m = 0 => a = <<>>
    BY <2>4 DEF IsList
  <2> QED BY <2>1, <2>3, <2>4, <2>5, <2>6, <2>7
<1>23a. More(fa.base, fb.base, fw.base)
  BY <1>21 DEF Emitted, More
<1>24. (c.ctcss \/ HasVoice(c)) => p.active /\ q.active
  BY <1>19 DEF PathOK, Awake
<1>25. LowFollows(c, m, la, lb, lw, fb.base)
  <2>1. p.lsd \in [1 .. Len(c.lsd.taps) -> Int] /\ CenterOK(p.center)
    BY DEF PathOK
  <2>2. PICK a, b, w : a = fa.base /\ b = fb.base /\ w = fw.base
    OBVIOUS
  <2>3. a \in Seq(Codes) /\ m = Len(a) /\ More(a, b, w)
    BY <1>20, <1>22, <1>23a, <2>2
  <2>4. /\ la = LowSpeed(c, p, a) /\ lb = LowSpeed(c, q, b) /\ lw = LowSpeed(c, p, w)
        /\ q.lsd = la.lsd /\ q.center = la.center
    BY <1>9, <1>19, <2>2
  <2>5. LowFollows(c, m, la, lb, lw, b)
    BY <2>1, <2>3, <2>4, LowSpeedSplits
  <2> QED BY <2>2, <2>5
<1>26. VoiceFollows(c, m, va, vb, vw, fb.base)
  <2>1. HasVoice(c) => p.active /\ q.active
    BY <1>24
  <2>2. PICK a, b, w : a = fa.base /\ b = fb.base /\ w = fw.base
    OBVIOUS
  <2>3. m \in Nat /\ IsList(a, m) /\ More(a, b, w)
    BY <1>23, <1>23a, <2>2
  <2>4. /\ va = Voice(c, p, a) /\ vb = Voice(c, q, b) /\ vw = Voice(c, p, w)
        /\ q.hpf = va.hpf /\ q.deemphasis = va.deemphasis
    BY <1>10, <1>19, <2>2
  <2>5. VoiceFollows(c, m, va, vb, vw, b)
    BY <2>1, <2>3, <2>4, VoiceSplits
  <2> QED BY <2>2, <2>5
<1>27. hw = hb
  <2>1. HangOK(p.vox, 0)
    BY DEF PathOK
  <2>2. PICK a, b, w : a = fa.base /\ b = fb.base /\ w = fw.base
    OBVIOUS
  <2>3. Timed(n, a, oa) /\ Emitted(n, a, oa, b, ob, w, ow)
    BY <1>20, <1>21, <2>2 DEF Timed
  <2>4. ha = Hold(c, p, a, oa, n) /\ q.vox = ha.vox /\ q.envelope = ha.envelope
    BY <1>15, <1>19, <2>2
  <2>5. hb = Hold(c, q, b, ob, 1) /\ hw = Hold(c, p, w, ow, n + 1)
    BY <1>15, <2>2
  <2> QED BY <2>1, <2>3, <2>4, <2>5, HoldSplits
<1>28. HasDelay(c) => Longer(m, n, S, R, T)
  <2>1. SUFFICES ASSUME HasDelay(c) PROVE Longer(m, n, S, R, T)
    OBVIOUS
  <2>2. HasVoice(c)
    BY <2>1, ConfigFacts
  <2>3. DOMAIN oa = 1 .. m /\ Len(oa) = m /\ \A i \in 1 .. m : oa[i] \in 1 .. n
    BY <1>20, <1>22, <1>23 DEF IsList
  <2>4. Extends(fa.gates, n, fb.gates[1], fw.gates)
    <3>1. PICK g : fb.gates = <<g>> /\ fw.gates = Append(fa.gates, g)
      BY <1>21
    <3>2. fb.gates[1] = g
      BY <3>1
    <3> QED BY <1>20, <3>1, <3>2, AppendExtends
  <2>5. \/ vw.samples = va.samples /\ ow = oa /\ vb.samples = <<>> /\ ob = <<>>
        \/ \E z : /\ Extends(va.samples, m, z, vw.samples) /\ vb.samples = <<z>>
                  /\ ow = Append(oa, n + 1) /\ ob = << 1 >>
    <3>1. Grows(va.samples, vb.samples, vw.samples) /\ IsList(va.samples, m)
          /\ (vb.samples = <<>>) = (fb.base = <<>>)
      BY <1>26, <2>2 DEF VoiceFollows
    <3>2. CASE fb.base = <<>>
      <4>1. ob = <<>> /\ ow = oa
        BY <1>21, <3>2, AppendNothing DEF Emitted
      <4>2. vw.samples = va.samples /\ vb.samples = <<>>
        BY <3>1, <3>2, AppendNothing DEF Grows
      <4> QED BY <4>1, <4>2
    <3>3. CASE fb.base # <<>>
      <4>1. ob = << 1 >> /\ ow = Append(oa, n + 1)
        BY <1>21, <3>3 DEF Emitted
      <4>2. PICK z : vb.samples = <<z>> /\ vw.samples = Append(va.samples, z)
        BY <3>1, <3>3 DEF Grows
      <4>3. Extends(va.samples, m, z, vw.samples)
        <5>1. PICK v : v = va.samples
          OBVIOUS
        <5>2. IsList(v, m) /\ m \in Nat
          BY <1>23, <3>1, <5>1
        <5>3. Extends(v, m, z, Append(v, z))
          BY <5>2, AppendExtends
        <5> QED BY <4>2, <5>1, <5>3
      <4> QED BY <4>1, <4>2, <4>3
    <3> QED BY <3>2, <3>3
  <2>6. /\ S.delay = c.delay /\ S.voice = va.samples /\ S.offsets = oa /\ S.gates = fa.gates
        /\ R.delay = c.delay /\ R.voice = vb.samples /\ R.offsets = ob /\ R.gates = fb.gates
        /\ T.delay = c.delay /\ T.voice = vw.samples /\ T.offsets = ow /\ T.gates = fw.gates
    BY <1>11, <1>12, <1>13
  <2> QED BY <2>3, <2>4, <2>5, <2>6 DEF Longer
<1>29. Alike(da.xs, db, dw) /\ IsSeq(da.xs)
  <2>1. S.delay = c.delay /\ R.delay = c.delay /\ T.delay = c.delay
    BY <1>11, <1>12, <1>13
  <2>2. p.remainder \in 0 .. GateInterval - 1
    BY DEF PathOK
  <2>3. /\ q.delay = da.line /\ q.outzero = da.outzero
        /\ q.remainder = Remainder(c, p.remainder, n)
    BY <1>19
  <2>4. da = Delay(c, p, S, n) /\ db = Delay(c, q, R, 1) /\ dw = Delay(c, p, T, n + 1)
    BY <1>14
  <2>5. m \in Nat
    BY <1>23
  <2>6. Alike(da.xs, Delay(c, q, R, 1), Delay(c, p, T, n + 1)) /\ IsSeq(da.xs)
    BY <1>28, <2>1, <2>2, <2>3, <2>4, <2>5, DelaySplits
  <2> QED BY <2>4, <2>6
<1>30. Remainder(c, p.remainder, n + 1) = Remainder(c, q.remainder, 1)
  BY <1>19, RemainderSplits DEF PathOK
<1>31. CodeHeard(c, p, ys) = CodeHeard(c, q, one)
  BY <1>1, <1>19, CodeSplits
<1>32. Stream(W.p) = Stream(B.p)
  <2>1. PICK r : r = W.p
    OBVIOUS
  <2>2. PICK s : s = B.p
    OBVIOUS
  <2>3. DOMAIN r = Fields /\ DOMAIN s = Fields
    BY <1>17, <1>18, <2>1, <2>2 DEF ProcessedAs
  <2>4. r.front = s.front /\ r.vox = s.vox /\ r.envelope = s.envelope
    BY <1>17, <1>18, <1>21, <1>27, <2>1, <2>2 DEF ProcessedAs
  <2>5. r.lsd = s.lsd /\ r.center = s.center /\ r.hpf = s.hpf /\ r.deemphasis = s.deemphasis
    BY <1>17, <1>18, <1>25, <1>26, <2>1, <2>2 DEF ProcessedAs, LowFollows, VoiceFollows
  <2>6. r.delay = s.delay /\ r.outzero = s.outzero
    BY <1>17, <1>18, <1>29, <2>1, <2>2 DEF Alike, ProcessedAs
  <2>7. r.remainder = s.remainder /\ r.dcs = s.dcs /\ r.active = s.active /\ r.halted = s.halted
    BY <1>17, <1>18, <1>19, <1>30, <1>31, <2>1, <2>2 DEF ProcessedAs
  <2>8. Stream(r) = Stream(s)
    BY <2>3, <2>4, <2>5, <2>6, <2>7, StreamSame
  <2> QED BY <2>1, <2>2, <2>8
<1>33. e # "none" => W.p.ctcss = B.p.ctcss
  <2>1. SUFFICES ASSUME e # "none" PROVE W.p.ctcss = B.p.ctcss
    OBVIOUS
  <2>2. PICK carrier : carrier = (e = "present")
    OBVIOUS
  <2>3. A.p.ctcss = ToneHeard(c, p, fa.base, la.limited, carrier)
    BY <1>16, <2>1, <2>2 DEF ProcessedAs, Told
  <2>4. B.p.ctcss = ToneHeard(c, q, fb.base, lb.limited, carrier)
    BY <1>17, <2>1, <2>2 DEF ProcessedAs, Told
  <2>5. W.p.ctcss = ToneHeard(c, p, fw.base, lw.limited, carrier)
    BY <1>18, <2>1, <2>2 DEF ProcessedAs, Told
  <2>6. PICK u : u = ToneHeard(c, p, fa.base, la.limited, carrier)
    OBVIOUS
  <2>7. q.ctcss = u
    BY <2>1, <2>3, <2>6
  <2>8. fw.base # <<>> \/ fb.base = <<>>
    BY <1>23, <1>23a, AppendedList DEF More
  <2>9. CASE c.ctcss
    <3>1. PICK a, b, w : a = fa.base /\ b = fb.base /\ w = fw.base
      OBVIOUS
    <3>2. PICK ma, mb, mw : ma = la.limited /\ mb = lb.limited /\ mw = lw.limited
      OBVIOUS
    <3>3. (IF c.ctcss THEN m ELSE 0) = m
      BY <2>9
    <3>4. IsList(ma, m) /\ Grows(ma, mb, mw) /\ (mb = <<>>) = (b = <<>>)
      BY <1>25, <2>9, <3>1, <3>2, <3>3 DEF LowFollows
    <3>5. (a = <<>> <=> m = 0) /\ More(a, b, w) /\ (w # <<>> \/ b = <<>>) /\ m \in Nat
      BY <1>23, <1>23a, <2>8, <3>1
    <3>6. p.active /\ q.active
      BY <1>24, <2>9
    <3>7. u = ToneHeard(c, p, a, ma, carrier)
      BY <2>6, <3>1, <3>2
    <3>8. ToneHeard(c, p, w, mw, carrier) = ToneHeard(c, q, b, mb, carrier)
      BY <2>7, <3>4, <3>5, <3>6, <3>7, ToneSplits
    <3> QED BY <2>4, <2>5, <3>1, <3>2, <3>8
  <2>10. CASE ~c.ctcss
    <3>1. u = p.ctcss /\ W.p.ctcss = p.ctcss /\ B.p.ctcss = q.ctcss
      BY <2>4, <2>5, <2>6, <2>10, ListeningIs
    <3> QED BY <2>7, <3>1
  <2> QED BY <2>9, <2>10
<1>34. W.out = Joined(A.out, B.out)
  <2>1. fw.base = fa.base \o fb.base
    <3>1. PICK a, b, w : a = fa.base /\ b = fb.base /\ w = fw.base
      OBVIOUS
    <3>2. Grows(a, b, w) /\ IsSeq(a)
      BY <1>23, <1>23a, <3>1 DEF Grows, More, IsSeq
    <3> QED BY <3>1, <3>2, GrowsJoins
  <2>2. fw.gates = fa.gates \o fb.gates
    <3>1. PICK a, b, w : a = fa.gates /\ b = fb.gates /\ w = fw.gates
      OBVIOUS
    <3>2. Grows(a, b, w) /\ IsSeq(a)
      BY <1>20, <1>21, <3>1 DEF Grows, IsSeq
    <3> QED BY <3>1, <3>2, GrowsJoins
  <2>3. lw.limited = la.limited \o lb.limited
    <3>1. PICK a, b, w : a = la.limited /\ b = lb.limited /\ w = lw.limited
      OBVIOUS
    <3>2. Grows(a, b, w) /\ IsSeq(a)
      <4>1. PICK j \in Nat : j = IF c.ctcss THEN m ELSE 0
        BY <1>23
      <4>2. IsList(a, j)
        BY <1>25, <3>1, <4>1 DEF LowFollows
      <4>3. CASE c.ctcss
        BY <1>25, <3>1, <4>2, <4>3 DEF LowFollows, IsSeq
      <4>4. CASE ~c.ctcss
        <5>1. a = <<>>
          BY <4>1, <4>2, <4>4 DEF IsList
        <5>2. b = <<>> /\ w = <<>>
          BY <1>25, <3>1, <4>4 DEF LowFollows
        <5> QED BY <5>1, <5>2, NothingGrows
      <4> QED BY <4>3, <4>4
    <3> QED BY <3>1, <3>2, GrowsJoins
  <2>4. vw.samples = va.samples \o vb.samples
    <3>1. PICK a, b, w : a = va.samples /\ b = vb.samples /\ w = vw.samples
      OBVIOUS
    <3>2. Grows(a, b, w) /\ IsSeq(a)
      <4>1. PICK j \in Nat : j = IF HasVoice(c) THEN m ELSE 0
        BY <1>23
      <4>2. IsList(a, j)
        BY <1>26, <3>1, <4>1 DEF VoiceFollows
      <4>3. CASE HasVoice(c)
        BY <1>26, <3>1, <4>2, <4>3 DEF VoiceFollows, IsSeq
      <4>4. CASE ~HasVoice(c)
        <5>1. a = <<>>
          BY <4>1, <4>2, <4>4 DEF IsList
        <5>2. b = <<>> /\ w = <<>>
          BY <1>26, <3>1, <4>4 DEF VoiceFollows
        <5> QED BY <5>1, <5>2, NothingGrows
      <4> QED BY <4>3, <4>4
    <3> QED BY <3>1, <3>2, GrowsJoins
  <2>5. dw.xs = da.xs \o db.xs
    BY <1>29, GrowsJoins DEF Alike
  <2>6. ow = IF ob = <<>> THEN oa ELSE Append(oa, Len(fa.gates) + 1)
    <3>1. Len(fa.gates) = n
      BY <1>20, ListIs
    <3> QED BY <1>21, <3>1, AppendNothing DEF Emitted
  <2>7. CarrierDetect(c, fw.front, hw.vox) = CarrierDetect(c, fb.front, hb.vox)
    BY <1>21, <1>27
  <2>8. PICK r, s, t : r = A.out /\ s = B.out /\ t = W.out
    OBVIOUS
  <2>9. /\ r.base = fa.base /\ r.gates = fa.gates /\ r.offsets = oa /\ r.limited = la.limited
        /\ r.voice = va.samples /\ r.delayed = da.xs
    BY <1>16, <2>8 DEF ProcessedAs
  <2>10. /\ s.base = fb.base /\ s.gates = fb.gates /\ s.offsets = ob /\ s.limited = lb.limited
         /\ s.voice = vb.samples /\ s.delayed = db.xs
         /\ s.carrier = CarrierDetect(c, fb.front, hb.vox)
    BY <1>17, <2>8 DEF ProcessedAs
  <2>11. t = [base |-> fw.base, gates |-> fw.gates, offsets |-> ow, limited |-> lw.limited,
              voice |-> vw.samples, delayed |-> dw.xs,
              carrier |-> CarrierDetect(c, fw.front, hw.vox)]
    BY <1>18, <2>8 DEF ProcessedAs
  <2>12. Joined(r, s) = [base |-> fa.base \o fb.base, gates |-> fa.gates \o fb.gates,
                         offsets |-> IF ob = <<>> THEN oa ELSE Append(oa, Len(fa.gates) + 1),
                         limited |-> la.limited \o lb.limited, voice |-> va.samples \o vb.samples,
                         delayed |-> da.xs \o db.xs,
                         carrier |-> CarrierDetect(c, fb.front, hb.vox)]
    BY <2>9, <2>10, Zenon DEF Joined
  <2> QED BY <2>1, <2>2, <2>3, <2>4, <2>5, <2>6, <2>7, <2>8, <2>11, <2>12, Zenon
<1> QED BY <1>32, <1>33, <1>34 DEF SameStream

\* A span of nothing leaves the stream as it was.
LEMMA NothingProcessed ==
  ASSUME NEW c \in Configs, NEW p, PathOK(c, p), NEW xs, xs = <<>>, NEW e,
         NEW A, A = Process(c, p, xs, e)
  PROVE  /\ Stream(A.p) = Stream(p) /\ A.p.ctcss = p.ctcss
         /\ Delivered(Silent, A.out)
<1>1. PICK none : none = <<>>
  OBVIOUS
<1>2. PICK n : n = 0
  OBVIOUS
<1>3. n = Len(xs) /\ xs = none /\ Len(none) = n
  BY <1>1, <1>2
<1>4. PICK f : f = Frontend(c, p.front, xs)
  OBVIOUS
<1>5. PICK o : o = EmissionOffsets(c.decimate, p.front.decimator, n)
  OBVIOUS
<1>6. PICK l : l = LowSpeed(c, p, f.base)
  OBVIOUS
<1>7. PICK v : v = Voice(c, p, f.base)
  OBVIOUS
<1>8. PICK s : s = [delay |-> c.delay, voice |-> v.samples, offsets |-> o, gates |-> f.gates]
  OBVIOUS
<1>9. PICK d : d = Delay(c, p, s, n)
  OBVIOUS
<1>10. PICK h : h = Hold(c, p, f.base, o, n)
  OBVIOUS
<1>11. ProcessedAs(c, e, A, p, xs, n, f, o, l, v, d, h)
  BY <1>3, <1>4, <1>5, <1>6, <1>7, <1>8, <1>9, <1>10, ProcessIs
<1>12. f = [front |-> p.front, base |-> none, gates |-> none]
  <2>1. PICK start : start = [front |-> p.front, base |-> <<>>, gates |-> <<>>]
    OBVIOUS
  <2>2. Native!Fold(c, start, <<>>) = start
    BY LeastIs, Native!FoldEmpty, Zenon
  <2> QED BY <1>1, <1>4, <2>1, <2>2, FrontendIsFold
<1>13. o = none
  <2>1. PICK start : start = [decimator |-> p.front.decimator, offsets |-> <<>>]
    OBVIOUS
  <2>2. Offset!Fold(c.decimate, start, <<>>) = start
    BY LeastIs, Offset!FoldEmpty, Zenon
  <2>3. [k \in 1 .. n |-> k] = <<>>
    BY <1>2
  <2>4. o = start.offsets
    BY <1>5, <2>1, <2>2, <2>3, OffsetsAreFold
  <2> QED BY <1>1, <2>1, <2>4
<1>14. f.front = p.front /\ f.base = none /\ f.gates = none
  BY <1>12
<1>15. l.lsd = p.lsd /\ l.center = p.center /\ l.limited = none
  <2>1. l = [lsd |-> p.lsd, center |-> p.center, limited |-> none]
    BY <1>1, <1>6, <1>14 DEF LowSpeed
  <2> QED BY <2>1
<1>16. v.hpf = p.hpf /\ v.deemphasis = p.deemphasis /\ v.samples = none
  <2>1. CASE ~HasVoice(c)
    <3>1. v = [hpf |-> p.hpf, deemphasis |-> p.deemphasis, voice |-> p.voice, samples |-> none]
      BY <1>1, <1>7, <2>1 DEF Voice
    <3> QED BY <3>1
  <2>2. CASE HasVoice(c)
    <3>1. PICK g : g = Filtered(c.hpf, p.hpf, none)
      OBVIOUS
    <3>2. g = [s |-> p.hpf, xs |-> none]
      BY <1>1, <3>1, StagesOfNothing
    <3>3. g.s = p.hpf /\ g.xs = none
      BY <3>2
    <3>4. PICK k : k = Smoothed(c.deemphasis, p.deemphasis, none)
      OBVIOUS
    <3>5. k = [s |-> p.deemphasis, xs |-> none]
      BY <1>1, <3>4, StagesOfNothing
    <3>6. k.s = p.deemphasis /\ k.xs = none
      BY <3>5
    <3>7. v = [hpf |-> g.s, deemphasis |-> k.s, voice |-> Overwrite(p.voice, k.xs),
               samples |-> k.xs]
      <4>1. p.active
        BY <2>2 DEF PathOK, Awake
      <4> QED BY <1>7, <1>14, <2>2, <3>1, <3>3, <3>4, <4>1 DEF Voice
    <3> QED BY <3>3, <3>6, <3>7
  <2> QED BY <2>1, <2>2
<1>17. PICK g \in Nat \ {0} : g = GateInterval
  BY PathAssumption DEF PathAssumption
<1>18. PICK r \in 0 .. g - 1 : r = p.remainder
  BY <1>17 DEF PathOK
<1>19. (r + n) % g = r /\ (r + n) \div g = 0
  BY <1>2
<1>20. d.line = p.delay /\ d.outzero = p.outzero /\ d.xs = none
  <2>1. PICK lag : lag = [line |-> p.delay, outzero |-> p.outzero, xs |-> none]
    OBVIOUS
  <2>2. CASE ~HasDelay(c)
    BY <1>1, <1>9, <2>1, <2>2 DEF Delay
  <2>3. CASE HasDelay(c)
    <3>1. Boundaries(p.remainder, n) = none
      <4>1. Boundaries(p.remainder, n) = [i \in 1 .. 0 |-> i * GateInterval - p.remainder]
        BY <1>17, <1>18, <1>19 DEF Boundaries
      <4> QED BY <1>1, <4>1
    <3>2. d = Gated(s, lag, none)
      BY <1>1, <1>9, <2>1, <2>3, <3>1 DEF Delay, Lagged
    <3>3. PICK start : start = [from |-> n, lag |-> lag]
      OBVIOUS
    <3>4. Gate!Fold(s, start, <<>>) = start
      BY LeastIs, Gate!FoldEmpty, Zenon
    <3>5. d = DelaySegment(s.delay, start.lag, s.voice, start.from, Len(s.offsets))
      BY <1>1, <1>2, <3>2, <3>3, <3>4, GatedIsFold
    <3>6. start.from = n /\ start.lag = lag /\ Len(s.offsets) = n
      BY <1>3, <1>8, <1>13, <3>3
    <3>7. d = lag
      BY <3>5, <3>6 DEF DelaySegment
    <3> QED BY <2>1, <3>7
  <2> QED BY <2>2, <2>3
<1>21. h.vox = p.vox /\ h.envelope = p.envelope
  <2>1. CASE c.carrier # "vox"
    <3>1. h = [envelope |-> p.envelope, vox |-> p.vox]
      BY <1>10, <2>1 DEF Hold
    <3> QED BY <3>1
  <2>2. CASE c.carrier = "vox"
    <3>1. PICK m : m = Metered(c.vox.decay, p.envelope, none)
      OBVIOUS
    <3>2. m = [s |-> p.envelope, xs |-> none]
      BY <1>1, <3>1, StagesOfNothing
    <3>3. m.s = p.envelope /\ m.xs = none
      BY <3>2
    <3>4. HoldOver(c.vox, p.vox, none) = p.vox
      <4>1. Hang!Fold(c.vox, p.vox, <<>>) = p.vox
        BY LeastIs, Hang!FoldEmpty, Zenon
      <4> QED BY <1>1, <4>1, HoldIsFold
    <3>5. h = [envelope |-> m.s,
               vox |-> VoxFinish(HoldOver(c.vox, p.vox, Emissions(m.xs, o)), n)]
      BY <1>10, <1>14, <2>2, <3>1 DEF Hold, AdvanceVoxHold, Emissions
    <3>6. Emissions(m.xs, o) = none
      BY <1>1, <1>13, <3>3, EmissionsOfOne
    <3>7. VoxFinish(p.vox, n) = p.vox
      <4>1. p.vox = [hold |-> p.vox.hold, last |-> p.vox.last] /\ p.vox.hold \in Nat
            /\ p.vox.last \in 0 .. 0
        BY DEF PathOK, HangOK
      <4>2. PICK held \in Nat : held = p.vox.hold
        BY <4>1
      <4>3. p.vox.last = 0 /\ p.vox = [hold |-> held, last |-> 0]
        BY <4>1, <4>2
      <4>4. VoxFinish(p.vox, n) = [hold |-> Spend(held, 0), last |-> 0]
        BY <1>2, <4>2, <4>3 DEF VoxFinish
      <4>5. Spend(held, 0) = held
        BY SpendTwice
      <4> QED BY <4>3, <4>4, <4>5
    <3>8. h.envelope = m.s /\ h.vox = VoxFinish(HoldOver(c.vox, p.vox, Emissions(m.xs, o)), n)
      BY <3>5
    <3> QED BY <3>3, <3>4, <3>6, <3>7, <3>8
  <2> QED BY <2>1, <2>2
<1>22. Remainder(c, p.remainder, n) = p.remainder
  BY <1>17, <1>18, <1>19 DEF Remainder
<1>23. \A limited, carrier : ToneHeard(c, p, none, limited, carrier) = p.ctcss
  BY <1>1, ListeningIs
<1>24. CodeHeard(c, p, xs) = p.dcs
  BY HeardOne, ListeningIs
<1>25. PICK u : u = A.p
  OBVIOUS
<1>26. /\ DOMAIN u = Fields
       /\ u.front = p.front /\ u.vox = p.vox /\ u.envelope = p.envelope
       /\ u.lsd = p.lsd /\ u.center = p.center /\ u.hpf = p.hpf /\ u.deemphasis = p.deemphasis
       /\ u.delay = p.delay /\ u.remainder = p.remainder /\ u.outzero = p.outzero
       /\ u.dcs = p.dcs /\ u.active = p.active /\ u.halted = p.halted
  BY <1>11, <1>14, <1>15, <1>16, <1>20, <1>21, <1>22, <1>24, <1>25 DEF ProcessedAs
<1>27. u.ctcss = p.ctcss
  BY <1>11, <1>14, <1>23, <1>25 DEF ProcessedAs
<1>28. Stream(u) = Stream(p)
  <2>1. DOMAIN p = Fields
    BY DEF PathOK
  <2> QED BY <1>26, <2>1, StreamSame
<1>29. Delivered(Silent, A.out)
  <2>1. A.out = [base |-> none, gates |-> none, offsets |-> none, limited |-> none,
                 voice |-> none, delayed |-> none,
                 carrier |-> CarrierDetect(c, f.front, h.vox)]
    BY <1>11, <1>13, <1>14, <1>15, <1>16, <1>20 DEF ProcessedAs
  <2> QED BY <1>1, <2>1 DEF Delivered, Silent
<1> QED BY <1>25, <1>27, <1>28, <1>29

\* A receiver called frame by frame, and what a span made of the other: the tone where
\* both are told their carrier, and the carrier once there has been a frame.
Abreast(c, e, k, a, w) ==
  /\ PathOK(c, a.p) /\ SameStream(e, a.p, w.p)
  /\ Delivered(a.out, w.out)
  /\ k # 0 => a.out = w.out

\* One more frame keeps them so.
LEMMA FrameKeepsAbreast ==
  ASSUME NEW c \in Configs, NEW p, PathOK(c, p), NEW n \in Nat, NEW xs, Span(n, xs),
         NEW x \in Int, NEW k, k = n + 1, NEW ys, Span(k, ys), Extends(xs, n, x, ys), NEW e,
         NEW a, Abreast(c, e, n, a, Process(c, p, xs, e)),
         NEW s, s.cfg = c, s.external = e, NEW b, b = FrameStep(s, a, x)
  PROVE  Abreast(c, e, k, b, Process(c, p, ys, e))
<1>1. PICK A : A = Process(c, p, xs, e)
  OBVIOUS
<1>2. PICK q : q = a.p
  OBVIOUS
<1>a. PICK one : one = <<x>>
  OBVIOUS
<1>3. PICK B : B = Process(c, q, one, e)
  OBVIOUS
<1>4. PICK W : W = Process(c, p, ys, e)
  OBVIOUS
<1>5. /\ PathOK(c, q) /\ SameStream(e, q, A.p)
      /\ Delivered(a.out, A.out)
  BY <1>1, <1>2 DEF Abreast
<1>6. SameStream(e, B.p, W.p) /\ W.out = Joined(A.out, B.out)
  BY <1>1, <1>a, <1>3, <1>4, <1>5, ProcessSplits
<1>7. b = [p |-> B.p, out |-> Joined(a.out, B.out)]
  BY <1>2, <1>a, <1>3 DEF FrameStep
<1>8. b.p = B.p /\ b.out = Joined(a.out, B.out)
  BY <1>7
<1>9. b.out = W.out
  BY <1>5, <1>6, <1>8, JoinedSame
<1>10. PathOK(c, B.p)
  <2>a. one \in [1 .. 1 -> Int]
    BY <1>a
  <2>b. PICK i \in Nat : i = 1
    OBVIOUS
  <2>c. one \in [1 .. i -> Int]
    BY <2>a, <2>b
  <2>2. PathOK(c, Process(c, q, one, e).p)
    BY <1>5, <2>b, <2>c, ProcessKeeps
  <2> QED BY <1>3, <2>2
<1> QED BY <1>4, <1>6, <1>8, <1>9, <1>10 DEF Abreast, Delivered

\* A span gives what its frames give one after the other.
LEMMA FramesAgree ==
  ASSUME NEW c \in Configs, NEW p, PathOK(c, p), NEW q, PathOK(c, q), NEW e,
         SameStream(e, q, p), NEW n \in Nat \ {0}, NEW xs \in [1 .. n -> Int],
         NEW F, F = FrameByFrame(c, q, xs, e), NEW W, W = Process(c, p, xs, e)
  PROVE  SameStream(e, F.p, W.p) /\ F.out = W.out
<1>1. PICK s : s = [cfg |-> c, external |-> e]
  OBVIOUS
<1>2. PICK b : b = [p |-> q, out |-> Silent]
  OBVIOUS
<1>3. DOMAIN xs = 1 .. n /\ s.cfg = c /\ s.external = e /\ b.p = q /\ b.out = Silent /\ n \in Nat
  BY <1>1, <1>2
<1>4. PICK t : Frames!Trajectory(s, b, xs, n, t) /\ t[n] = Frames!Fold(s, b, xs)
  BY <1>3, LeastIs, Frames!FoldSteps, Zenon
<1>5. t[n] = F
  BY <1>1, <1>2, <1>4, FramesAreFold
<1> DEFINE Prefix(k) == [i \in 1 .. k |-> xs[i]]
           T == {k \in 0 .. n : Abreast(c, e, k, t[k], Process(c, p, Prefix(k), e))}
<1>6. 0 \in T
  <2>1. t[0] = b
    BY <1>4 DEF Frames!Trajectory
  <2>2. PICK none : none = Prefix(0)
    OBVIOUS
  <2>3. none = <<>>
    BY <2>2
  <2>4. PICK A : A = Process(c, p, none, e)
    OBVIOUS
  <2>5. Stream(A.p) = Stream(p) /\ A.p.ctcss = p.ctcss /\ Delivered(Silent, A.out)
    BY <2>3, <2>4, NothingProcessed
  <2>6. Abreast(c, e, 0, b, A)
    BY <1>3, <2>5 DEF Abreast, SameStream
  <2> QED BY <2>1, <2>2, <2>4, <2>6
<1>7. ASSUME NEW k \in 1 .. n, k - 1 \in T PROVE k \in T
  <2>1. PICK j \in Nat : j = k - 1 /\ j + 1 = k
    OBVIOUS
  <2>2. PICK us : us = Prefix(j)
    OBVIOUS
  <2>3. PICK ys : ys = Prefix(k)
    OBVIOUS
  <2>4. PICK x \in Int : x = xs[k]
    BY <1>3
  <2>5. Span(j, us) /\ Span(k, ys) /\ k = j + 1
    BY <2>1, <2>2, <2>3 DEF Span
  <2>6. Extends(us, j, x, ys)
    BY <2>1, <2>2, <2>3, <2>4 DEF Extends
  <2>7. Abreast(c, e, j, t[j], Process(c, p, us, e))
    BY <1>7, <2>1, <2>2
  <2>8. t[k] = FrameStep(s, t[j], x)
    BY <1>4, <2>1, <2>4 DEF Frames!Trajectory
  <2> HIDE DEF Prefix, T
  <2>9. Abreast(c, e, k, t[k], Process(c, p, ys, e))
    BY <1>3, <2>5, <2>6, <2>7, <2>8, FrameKeepsAbreast
  <2> QED BY <2>3, <2>9 DEF T
<1>8. Prefix(n) = xs
  OBVIOUS
<1> HIDE DEF T, Prefix
<1>9. \A k \in 0 .. n : k \in T
  BY <1>3, <1>6, <1>7, LeastIs, Frames!Upwards, Zenon
<1>10. Abreast(c, e, n, F, W)
  <2>1. Abreast(c, e, n, t[n], Process(c, p, Prefix(n), e))
    BY <1>9 DEF T
  <2> QED BY <1>5, <1>8, <2>1
<1> QED BY <1>10 DEF Abreast
----------------------------------------------------------------------------
(* The receiver and the one that is called frame by frame *)

\* The saver switches two fields and leaves the others.
Switched(y, x, h) ==
  /\ DOMAIN y = Fields
  /\ y.front = x.front /\ y.vox = x.vox /\ y.envelope = x.envelope /\ y.lsd = x.lsd
  /\ y.center = x.center /\ y.hpf = x.hpf /\ y.deemphasis = x.deemphasis
  /\ y.delay = x.delay /\ y.remainder = x.remainder /\ y.outzero = x.outzero
  /\ y.dcs = x.dcs /\ y.ctcss = x.ctcss /\ y.halted = h /\ y.active = ~h

LEMMA SaverSwitches ==
  ASSUME NEW c, NEW p, DOMAIN p = Fields, NEW carrier, NEW ptt
  PROVE  Switched(Saver(c, p, carrier, ptt), p, Halted(c, carrier, ptt))
<1>1. PICK h : h = Halted(c, carrier, ptt)
  OBVIOUS
<1>2. PICK z : z = [p EXCEPT !.halted = h]
  OBVIOUS
<1>3. PICK y : y = [z EXCEPT !.active = ~h]
  OBVIOUS
<1>4. Saver(c, p, carrier, ptt) = y
  BY <1>1, <1>2, <1>3 DEF Saver
<1>5. DOMAIN z = Fields /\ z.halted = h /\ \A f \in Fields \ {"halted"} : z[f] = p[f]
  BY <1>2 DEF Fields
<1>6. DOMAIN y = Fields /\ y.active = ~h /\ \A f \in Fields \ {"active"} : y[f] = z[f]
  BY <1>3, <1>5 DEF Fields
<1>7. y.halted = h /\ \A f \in Fields \ {"halted", "active"} : y[f] = p[f]
  BY <1>5, <1>6 DEF Fields
<1>8. Switched(y, p, h)
  BY <1>6, <1>7 DEF Fields, Switched
<1> QED BY <1>1, <1>4, <1>8

\* The saver decides the same for both.
LEMMA SaverSame ==
  ASSUME NEW c, NEW e, NEW p, PathOK(c, p), NEW q, PathOK(c, q), SameStream(e, p, q),
         NEW carrier, NEW ptt,
         NEW r, r = Saver(c, p, carrier, ptt), NEW s, s = Saver(c, q, carrier, ptt)
  PROVE  SameStream(e, r, s)
<1>1. PICK h : h = Halted(c, carrier, ptt)
  OBVIOUS
<1>2. DOMAIN p = Fields /\ DOMAIN q = Fields
  BY DEF PathOK
<1>3. Switched(r, p, h)
  BY <1>1, <1>2, SaverSwitches
<1>4. Switched(s, q, h)
  BY <1>1, <1>2, SaverSwitches
<1>5. /\ DOMAIN r = Fields
      /\ r.front = p.front /\ r.vox = p.vox /\ r.envelope = p.envelope /\ r.lsd = p.lsd
      /\ r.center = p.center /\ r.hpf = p.hpf /\ r.deemphasis = p.deemphasis
      /\ r.delay = p.delay /\ r.remainder = p.remainder /\ r.outzero = p.outzero
      /\ r.dcs = p.dcs /\ r.ctcss = p.ctcss /\ r.halted = h /\ r.active = ~h
  BY <1>3 DEF Switched
<1>6. /\ DOMAIN s = Fields
      /\ s.front = q.front /\ s.vox = q.vox /\ s.envelope = q.envelope /\ s.lsd = q.lsd
      /\ s.center = q.center /\ s.hpf = q.hpf /\ s.deemphasis = q.deemphasis
      /\ s.delay = q.delay /\ s.remainder = q.remainder /\ s.outzero = q.outzero
      /\ s.dcs = q.dcs /\ s.ctcss = q.ctcss /\ s.halted = h /\ s.active = ~h
  BY <1>4 DEF Switched
<1>7. /\ p.front = q.front /\ p.vox = q.vox /\ p.envelope = q.envelope /\ p.lsd = q.lsd
      /\ p.center = q.center /\ p.hpf = q.hpf /\ p.deemphasis = q.deemphasis
      /\ p.delay = q.delay /\ p.remainder = q.remainder /\ p.outzero = q.outzero
      /\ p.dcs = q.dcs
  <2>1. Stream(p) = Stream(q)
    BY DEF SameStream
  <2> QED BY <1>2, <2>1, StreamSame
<1>8. Stream(r) = Stream(s)
  <2>1. /\ r.front = s.front /\ r.vox = s.vox /\ r.envelope = s.envelope /\ r.lsd = s.lsd
        /\ r.center = s.center /\ r.hpf = s.hpf /\ r.deemphasis = s.deemphasis
        /\ r.delay = s.delay /\ r.remainder = s.remainder /\ r.outzero = s.outzero
        /\ r.dcs = s.dcs /\ r.active = s.active /\ r.halted = s.halted
    BY <1>5, <1>6, <1>7
  <2>2. DOMAIN r = Fields /\ DOMAIN s = Fields
    BY <1>5, <1>6
  <2> QED BY <2>1, <2>2, StreamSame
<1>9. e # "none" => r.ctcss = s.ctcss
  <2>1. e # "none" => p.ctcss = q.ctcss
    BY DEF SameStream
  <2> QED BY <1>5, <1>6, <2>1
<1> QED BY <1>8, <1>9 DEF SameStream

\* The inductive invariant: both receivers are sound, and in the same stream.
Together == ReceiverOK /\ BoundariesDoNotMatter

\* A callback of any length, with any samples, processed or refused.
LEMMA CallbackKeepsTogether ==
  ASSUME Together, NEW in \in Inputs, Callback(in)
  PROVE  BoundariesDoNotMatter'
<1>1. cfg \in Configs /\ cfg' = cfg /\ PathOK(cfg, path) /\ PathOK(cfg, twin)
  BY DEF Together, ReceiverOK, Callback
<1>2. /\ Stream(path) = Stream(twin)
      /\ cfg.carrier = "wired" => path.ctcss = twin.ctcss
  BY DEF Together, BoundariesDoNotMatter
<1>3. CASE Refused(in)
  <2>1. last' = [Nothing EXCEPT !.status = "invalid"] /\ path' = path /\ twin' = twin
    BY <1>3 DEF Callback
  <2>2. last'.differ = {}
    BY <2>1 DEF Nothing
  <2> QED BY <1>1, <1>2, <2>1, <2>2 DEF BoundariesDoNotMatter
<1>4. CASE ~Refused(in)
  <2>1. PICK xs : xs = in.samples
    OBVIOUS
  <2>2. PICK n : n = Len(xs)
    OBVIOUS
  <2>3. PICK e : e = in.external
    OBVIOUS
  <2>4. PICK W : W = Process(cfg, path, xs, e)
    OBVIOUS
  <2>5. PICK F : F = FrameByFrame(cfg, twin, xs, e)
    OBVIOUS
  <2>6. PICK carrier : carrier = IF e = "none" THEN W.out.carrier ELSE e = "present"
    OBVIOUS
  <2>7. PICK ptt : ptt = in.ptt
    OBVIOUS
  <2>8. /\ path' = Saver(cfg, W.p, carrier, ptt) /\ twin' = Saver(cfg, F.p, carrier, ptt)
        /\ last'.differ = {k \in DOMAIN Silent : W.out[k] # F.out[k]}
        /\ (e # "none") = (cfg.carrier = "wired")
    BY <1>4, <2>1, <2>3, <2>4, <2>5, <2>6, <2>7 DEF Callback, Answer, Deliver
  <2>9. n \in Nat \ {0} /\ xs \in [1 .. n -> Int]
    <3>1. xs \in Seq(Int)
      BY <2>1, PathAssumption DEF PathAssumption, Input
    <3>2. xs # <<>>
      BY <1>4, <2>1 DEF Refused
    <3> QED BY <2>2, <3>1, <3>2
  <2>10. SameStream(e, twin, path)
    BY <1>2, <2>8 DEF SameStream
  <2>11. SameStream(e, F.p, W.p) /\ F.out = W.out
    BY <1>1, <2>4, <2>5, <2>9, <2>10, FramesAgree
  <2>12. last'.differ = {}
    BY <2>8, <2>11
  <2>13. PathOK(cfg, W.p) /\ PathOK(cfg, F.p)
    <3>1. n \in Nat
      BY <2>9
    <3>2. PathOK(cfg, Process(cfg, path, xs, e).p)
      BY <1>1, <2>9, <3>1, ProcessKeeps
    <3>3. PathOK(cfg, FrameByFrame(cfg, twin, xs, e).p)
      BY <1>1, <2>9, <3>1, FramesKeep
    <3> QED BY <2>4, <2>5, <3>2, <3>3
  <2>14. SameStream(e, twin', path')
    <3>1. PICK p, q : p = W.p /\ q = F.p
      OBVIOUS
    <3>2. PathOK(cfg, p) /\ PathOK(cfg, q) /\ SameStream(e, q, p)
      BY <2>11, <2>13, <3>1
    <3>3. path' = Saver(cfg, p, carrier, ptt) /\ twin' = Saver(cfg, q, carrier, ptt)
      BY <2>8, <3>1
    <3> QED BY <3>2, <3>3, SaverSame
  <2>15. Stream(path') = Stream(twin') /\ (e # "none" => path'.ctcss = twin'.ctcss)
    BY <2>14 DEF SameStream
  <2>16. Stream(path)' = Stream(path') /\ Stream(twin)' = Stream(twin')
    BY DEF Stream
  <2> QED BY <1>1, <2>8, <2>12, <2>15, <2>16 DEF BoundariesDoNotMatter
<1> QED BY <1>3, <1>4

\* An update moves the controls of both or gives both a new detector.
LEMMA UpdateKeepsTogether ==
  ASSUME Together, NEW c \in Configs, Update(c)
  PROVE  BoundariesDoNotMatter'
<1>1. cfg \in Configs /\ PathOK(cfg, path) /\ PathOK(cfg, twin) /\ last' = Nothing
  BY DEF Together, ReceiverOK, Update
<1>2. /\ Stream(path) = Stream(twin)
      /\ cfg.carrier = "wired" => path.ctcss = twin.ctcss
  BY DEF Together, BoundariesDoNotMatter
<1>3. last'.differ = {}
  BY <1>1 DEF Nothing
<1>4. CASE SameDetector(cfg, c)
  <2>1. cfg' = UpdateControls(cfg, c) /\ path' = path /\ twin' = twin
    BY <1>4 DEF Update
  <2>2. cfg'.carrier = cfg.carrier
    <3>1. cfg \in Config
      BY <1>1, PathAssumption DEF PathAssumption
    <3> QED BY <2>1, <3>1 DEF UpdateControls, Controls, Config
  <2> QED BY <1>2, <1>3, <2>1, <2>2 DEF BoundariesDoNotMatter
<1>5. CASE ~SameDetector(cfg, c)
  <2>1. /\ path' = [NewPath(c) EXCEPT !.halted = path.halted]
        /\ twin' = [NewPath(c) EXCEPT !.halted = twin.halted]
    BY <1>5 DEF Update
  <2>2. path.halted = twin.halted
    <3>1. DOMAIN path = Fields /\ DOMAIN twin = Fields
      BY <1>1 DEF PathOK
    <3> QED BY <1>2, <3>1, StreamSame
  <2>3. path' = twin'
    BY <2>1, <2>2
  <2> QED BY <1>3, <2>3 DEF BoundariesDoNotMatter
<1> QED BY <1>4, <1>5

LEMMA TogetherStutters ==
  ASSUME Together, UNCHANGED <<cfg, path, twin>>, UNCHANGED last \/ last'.differ = {}
  PROVE  BoundariesDoNotMatter'
<1>1. last'.differ = {}
  BY DEF Together, BoundariesDoNotMatter
<1> QED BY <1>1 DEF Together, BoundariesDoNotMatter

LEMMA TogetherSteps == Together /\ [ChainNext]_chain => Together'
<1>1. SUFFICES ASSUME Together, [ChainNext]_chain PROVE BoundariesDoNotMatter'
  BY ReceiverSteps DEF Together
<1>2. CASE Warm
  BY <1>1, <1>2, TogetherStutters DEF Warm
<1>3. CASE \E in \in Inputs : ChainCallback(in)
  <2>1. PICK in \in Inputs : ChainCallback(in)
    BY <1>3
  <2>2. CASE NotReady
    <3>1. last'.differ = {}
      BY <2>2 DEF NotReady, Nothing
    <3> QED BY <1>1, <2>2, <3>1, TogetherStutters DEF NotReady
  <2>3. CASE Callback(in)
    BY <1>1, <2>3, CallbackKeepsTogether
  <2>4. NotReady \/ Callback(in)
    BY <2>1 DEF ChainCallback
  <2> QED BY <2>2, <2>3, <2>4
<1>4. CASE \E c \in Configs : ChainUpdate(c)
  BY <1>1, <1>4, UpdateKeepsTogether DEF ChainUpdate
<1>5. CASE UNCHANGED chain
  BY <1>1, <1>5, TogetherStutters DEF chain
<1> QED BY <1>1, <1>2, <1>3, <1>4, <1>5 DEF ChainNext

\* What callbacks are cut into changes neither the stream state process_with_carrier
\* keeps nor what it delivers, for every detector, decimation, filter, delay and
\* VOX, every callback length, and updates and the saver in between.  Not claimed
\* are the CTCSS decode where the carrier is noise or VOX, which does depend on it;
\* the workspace of the voice stages; and what a closed delay gate delivers.
THEOREM PartitionDoesNotMatter == ChainSpec => []BoundariesDoNotMatter
<1>1. ChainInit => Together
  <2>1. SUFFICES ASSUME ChainInit PROVE Together
    OBVIOUS
  <2>2. path = twin /\ last = Nothing
    BY <2>1 DEF ChainInit, Init
  <2>3. BoundariesDoNotMatter
    BY <2>2 DEF BoundariesDoNotMatter, Nothing
  <2> QED BY <2>1, <2>3, ReceiverInit DEF ChainInit, Together
<1>2. Together => BoundariesDoNotMatter
  BY DEF Together
<1> QED BY <1>1, <1>2, TogetherSteps, PTL DEF ChainSpec
=============================================================================
