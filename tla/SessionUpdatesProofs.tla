------------------------ MODULE SessionUpdatesProofs ------------------------
(***************************************************************************)
(* For every set of offers, whatever the linked libraries offer and however *)
(* many updates are prepared: the live session keeps to its profile, its   *)
(* receiver to its policy, a call that fails changes nothing, and every    *)
(* handle that is open has one owner.                                      *)
(***************************************************************************)
EXTENDS SessionUpdates, TLAPS

\* What a profile leaves of a policy, side by side.
RxFollows(p, c) ==
  /\ ~(c.rxCtcss = 1 /\ c.rxDcs = 1)
  /\ p # Nothing =>
       /\ CarrierSource[c.carrier] = IF p.carrier = 0 THEN "hardware" ELSE "noise"
       /\ SubaudibleSource[c.tone] = IF p.decode = External THEN "hardware" ELSE "dsp"
       /\ (c.rxCtcss = 1) = (p.decode = Dsp)
TxFollows(p, c) ==
  p # Nothing =>
    /\ (c.txCtcss = 1) = (p.encode = Dsp)
    /\ NeedsToneAudio(p, c) => {c.routeA, c.routeB} \cap ToneRoutes # {}
OneTone(c) == ~(c.txCtcss = 1 /\ c.txDcs = 1)

\* What create and the profile let through follows the profile.
LEMMA OfferFollows ==
  ASSUME NEW o \in Offers, ProfileVerdict(o) = "ok", CreateVerdict(Profiled(o)) = "ok"
  PROVE  /\ RxFollows(o.profile, Profiled(o)) /\ TxFollows(o.profile, Profiled(o))
         /\ Profiled(o).delay \in Nat
<1> DEFINE c == Profiled(o)  p == o.profile
<1>1. SessionRecord(o.config) /\ p \in RadioProfile \cup {Nothing}
  BY UpdatesAssumption
<1>2. ~(c.rxCtcss = 1 /\ c.rxDcs = 1)
  BY DEF CreateVerdict, ReceiveRefuses
<1>3. CASE p = Nothing
  BY <1>1, <1>2, <1>3 DEF Profiled, RxFollows, TxFollows, SessionRecord, ReceiveConfig
<1>4. CASE p # Nothing
  <2>1. p \in RadioProfile /\ ValidatedProfile(p, o.config) = "ok" /\ c = Configure(p, o.config)
    BY <1>1, <1>4 DEF ProfileVerdict, Profiled
  <2>2. ~ProfileDisagrees(p, o.config)
    BY <2>1 DEF ValidatedProfile
  <2>3. /\ c.carrier = (IF p.carrier = 0 THEN 3 ELSE 1)
        /\ c.tone = (IF p.decode = External THEN 1 ELSE 3)
        /\ c.rxCtcss = o.config.rxCtcss /\ c.txCtcss = o.config.txCtcss
        /\ c.txDcs = o.config.txDcs /\ c.routeA = o.config.routeA /\ c.routeB = o.config.routeB
        /\ c.delay = o.config.delay
    BY <1>1, <2>1 DEF Configure, SessionRecord
  <2>4. /\ CarrierSource[3] = "hardware" /\ CarrierSource[1] = "noise"
        /\ SubaudibleSource[1] = "hardware" /\ SubaudibleSource[3] = "dsp"
    BY DEF CarrierSource, SubaudibleSource
  <2>5. RxFollows(p, c)
    BY <1>2, <2>2, <2>3, <2>4 DEF RxFollows, ProfileDisagrees
  <2>6. TxFollows(p, c)
    BY <2>2, <2>3 DEF TxFollows, ProfileDisagrees, NeedsToneAudio
  <2> QED
    BY <1>1, <2>3, <2>5, <2>6 DEF SessionRecord, ReceiveConfig
<1> QED
  BY <1>3, <1>4

\* The delay of an offered policy is a number of frames.
LEMMA DelayType ==
  ASSUME NEW c, c.delay \in Nat
  PROVE  DelayFrames(c) \in Nat
BY UpdatesAssumption DEF DelayFrames

\* A detector and its handles.
DetectorWith(c, handles) ==
  [frames |-> c.frames.rx, noise |-> c.noise, gate |-> CarrierSource[c.carrier],
   filter |-> CtcssFilter(c.mask),
   tones |-> IF c.rxCtcss = 1 THEN <<c.mask, c.relax>> ELSE <<>>,
   code |-> IF c.rxDcs = 1 THEN <<c.rxCode>> ELSE <<>>,
   controls |-> c.levels, handles |-> handles]

\* Handles are no part of what a detector detects.
LEMMA DetectorHandles ==
  ASSUME NEW c, NEW h, NEW g
  PROVE  [DetectorWith(c, h) EXCEPT !.handles = g] = DetectorWith(c, g)
BY DEF DetectorWith

\* ReceivePath::new builds a detector without handles.
LEMMA DetectorBare ==
  ASSUME NEW c
  PROVE  DetectorOf(c) = DetectorWith(c, {})
BY DEF DetectorOf, DetectorWith, Controls

\* An equal detector takes the new controls and is then the new one.
LEMMA DetectorControls ==
  ASSUME NEW c, NEW d, NEW h, NEW g, SameDetector(c, d), c.frames = d.frames
  PROVE  [DetectorWith(c, h) EXCEPT !.controls = DetectorWith(d, g).controls] = DetectorWith(d, h)
BY DEF SameDetector, DetectorWith

\* The parts of a session, whatever has been swapped into it.
SessionFields ==
  {"profile", "frames", "rx", "tx", "detector", "speech", "mode", "delay", "cursor", "encoder"}
SessionShape(s) ==
  /\ DOMAIN s = SessionFields
  /\ DOMAIN s.encoder = {"external", "code", "handles"}
  /\ s.encoder.external = (s.profile # Nothing /\ s.profile.encode = External)
  /\ s.encoder.code = s.tx.txCode
  /\ s.rx.frames = s.frames /\ s.rx.delay \in Nat
Follows(s) == RxFollows(s.profile, s.rx) /\ TxFollows(s.profile, s.tx) /\ OneTone(s.tx)

\* The receiver of a session is the one of its policy.
ReceiverOf(s) ==
  /\ s.detector = DetectorWith(s.rx, s.detector.handles)
  /\ s.mode = EffectiveVadMode(s.rx)
  /\ s.speech.mode = s.mode /\ s.speech.hang = s.rx.hang
  /\ s.delay = DelayFrames(s.rx)
  /\ s.cursor \in Nat /\ s.cursor < IF s.delay = 0 THEN 1 ELSE s.delay

SetupInv ==
  setup # Nothing =>
    /\ setup = [for |-> setup.for, config |-> setup.config, profile |-> setup.profile,
                todo |-> setup.todo, held |-> setup.held]
    /\ RxFollows(setup.profile, setup.config) /\ TxFollows(setup.profile, setup.config)
    /\ setup.config.delay \in Nat
    /\ setup.todo \in Seq(SetupStep)
    /\ (\A i \in DOMAIN setup.todo : setup.todo[i] # "transmit policy") => OneTone(setup.config)
LiveInv == live # Nothing => SessionShape(live) /\ Follows(live) /\ ReceiverOf(live)
\* What an applied half displaced into a candidate no longer goes together; it is not
\* applied again.
UpdatesInv ==
  \A u \in updates :
    /\ DOMAIN u = {"candidate", "receive", "transmit"}
    /\ SessionShape(u.candidate) /\ Follows(u.candidate)
    /\ ~u.receive => ReceiverOf(u.candidate)
Inv == SetupInv /\ LiveInv /\ UpdatesInv

\* The invariant is what the two properties say of a live session, and more.
LEMMA InvImplies == Inv => LiveFollowsProfile /\ ReceiverFollowsConfig
<1> SUFFICES ASSUME Inv, live # Nothing
             PROVE  LiveFollowsProfile /\ ReceiverFollowsConfig
  BY DEF LiveFollowsProfile, ReceiverFollowsConfig, DetectorFollowsConfig, SpeechFollowsConfig
<1>1. SessionShape(live) /\ Follows(live) /\ ReceiverOf(live)
  BY DEF Inv, LiveInv
<1>2. LiveFollowsProfile
  BY <1>1 DEF LiveFollowsProfile, Follows, RxFollows, TxFollows, OneTone, SessionShape
<1>3. [live.detector EXCEPT !.handles = {}] = DetectorOf(live.rx)
  <2> DEFINE h == live.detector.handles
  <2>1. live.detector = DetectorWith(live.rx, h)
    BY <1>1 DEF ReceiverOf
  <2>2. [DetectorWith(live.rx, h) EXCEPT !.handles = {}] = DetectorWith(live.rx, {})
    BY DetectorHandles
  <2> QED
    BY <2>1, <2>2, DetectorBare
<1>4. live.detector.frames = live.frames.rx /\ live.encoder.code = live.tx.txCode
  BY <1>1 DEF ReceiverOf, SessionShape, DetectorWith
<1>5. SpeechFollowsConfig
  BY <1>1 DEF SpeechFollowsConfig, ReceiverOf, EffectiveVadMode
<1> QED
  BY <1>2, <1>3, <1>4, <1>5 DEF ReceiverFollowsConfig, DetectorFollowsConfig


\* The fifth element stays where it is when more are appended.
LEMMA FifthOfMany ==
  ASSUME NEW S, NEW a \in S, NEW b \in S, NEW c \in S, NEW d \in S, NEW e \in S,
         NEW m \in Seq(S), NEW z \in Seq(S)
  PROVE  LET q == <<a, b, c, d, e>> \o m \o z IN q \in Seq(S) /\ 5 \in DOMAIN q /\ q[5] = e
<1>1. ASSUME NEW f \in Seq(S), NEW n \in Seq(S), Len(f) \in Nat, Len(f) >= 5, f[5] = e
      PROVE  f \o n \in Seq(S) /\ Len(f \o n) \in Nat /\ Len(f \o n) >= 5 /\ (f \o n)[5] = e
  <2>1. f \o n \in Seq(S) /\ Len(f \o n) = Len(f) + Len(n) /\ Len(n) \in Nat
    BY <1>1
  <2>2. (f \o n)[5] = e
    BY <1>1
  <2> QED
    BY <1>1, <2>1, <2>2
<1> DEFINE f == <<a, b, c, d, e>>
<1>2. f \in Seq(S)
  OBVIOUS
<1>3. Len(f) \in Nat /\ Len(f) >= 5 /\ f[5] = e
  OBVIOUS
<1> HIDE DEF f
<1>4. f \o m \in Seq(S) /\ Len(f \o m) \in Nat /\ Len(f \o m) >= 5 /\ (f \o m)[5] = e
  BY <1>1, <1>2, <1>3
<1> DEFINE g == (f \o m) \o z
<1>5. g \in Seq(S) /\ Len(g) \in Nat /\ Len(g) >= 5 /\ g[5] = e
  BY <1>1, <1>4
<1> HIDE DEF g
<1>6. 5 \in DOMAIN g
  BY <1>5
<1> QED
  BY <1>5, <1>6 DEF f, g

\* The transmit policy is checked as the fifth step, converter or not.
LEMMA StepsType ==
  ASSUME NEW c
  PROVE  Steps(c) \in Seq(SetupStep) /\ 5 \in DOMAIN Steps(c) /\ Steps(c)[5] = "transmit policy"
<1> DEFINE z == <<"dcs.tx", "dcs.tx configure", "ctcss.tx">>
           m == IF EffectiveVadMode(c) = 0 THEN <<>> ELSE <<"converter">>
<1>1. z \in Seq(SetupStep)
  BY DEF SetupStep, Clients, Receiver, Transmitter
<1>2. m \in Seq(SetupStep)
  <2>1. <<>> \in Seq(SetupStep) /\ <<"converter">> \in Seq(SetupStep)
    BY DEF SetupStep, Clients, Receiver, Transmitter
  <2> QED
    BY <2>1
<1> HIDE DEF z, m
<1> DEFINE v == "ctcss.rx"  w == "dcs.rx"  x == "dcs.rx configure"  y == "squelch"
           p == "transmit policy"  q == <<v, w, x, y, p>> \o m \o z
<1>3. /\ v \in SetupStep /\ w \in SetupStep /\ x \in SetupStep
      /\ y \in SetupStep /\ p \in SetupStep
  BY DEF SetupStep, Clients, Receiver, Transmitter
<1> HIDE DEF v, w, x, y, p
<1>4. q \in Seq(SetupStep) /\ 5 \in DOMAIN q /\ q[5] = p
  BY <1>1, <1>2, <1>3, FifthOfMany
<1>5. Steps(c) = q
  BY DEF Steps, z, m, v, w, x, y, p
<1> HIDE DEF q
<1> QED
  BY <1>4, <1>5 DEF p

\* A setup begins with a policy its profile and the receive checks accept.
LEMMA BeginSetup ==
  ASSUME NEW o \in Offers, NEW for, ProfileVerdict(o) = "ok",
         Begin(o, for), SetupInv
  PROVE  SetupInv' /\ UNCHANGED <<live, updates>>
<1>1. CASE CreateVerdict(Profiled(o)) # "ok"
  BY <1>1 DEF Begin, Answer, SetupInv
<1>2. CASE CreateVerdict(Profiled(o)) = "ok"
  <2> DEFINE c == Profiled(o)
  <2>1. /\ RxFollows(o.profile, c) /\ TxFollows(o.profile, c) /\ c.delay \in Nat
    BY <1>2, OfferFollows
  <2>2. setup' = [for |-> for, config |-> c, profile |-> o.profile, todo |-> Steps(c), held |-> {}]
        /\ UNCHANGED <<live, updates>>
    BY <1>2 DEF Begin
  <2>3. Steps(c) \in Seq(SetupStep) /\ 5 \in DOMAIN Steps(c) /\ Steps(c)[5] = "transmit policy"
    BY StepsType
  <2> QED
    BY <2>1, <2>2, <2>3 DEF SetupInv
<1> QED
  BY <1>1, <1>2

\* What Head and Tail leave of a sequence.
LEMMA TailIs ==
  ASSUME NEW S, NEW q \in Seq(S), q # <<>>
  PROVE  /\ Tail(q) \in Seq(S) /\ Head(q) = q[1]
         /\ \A i \in DOMAIN q : i = 1 \/ (i - 1 \in DOMAIN Tail(q) /\ Tail(q)[i - 1] = q[i])
OBVIOUS

\* A step that succeeds passes the transmit policy only if it is one.
LEMMA AdvanceSetup ==
  ASSUME SetupInv, NEW step, Doing(step), NEW held, Advance(held),
         step = "transmit policy" => OneTone(setup.config)
  PROVE  SetupInv' /\ UNCHANGED <<live, updates>>
<1> DEFINE s == setup
<1>1. /\ s # Nothing /\ s.todo # <<>> /\ Head(s.todo) = step /\ s.todo \in Seq(SetupStep)
      /\ s = [for |-> s.for, config |-> s.config, profile |-> s.profile,
              todo |-> s.todo, held |-> s.held]
  BY DEF Doing, SetupInv
<1>2. setup' = [for |-> s.for, config |-> s.config, profile |-> s.profile,
                todo |-> Tail(s.todo), held |-> held]
  BY <1>1 DEF Advance
<1>3. Tail(s.todo) \in Seq(SetupStep)
  BY <1>1, TailIs
<1>4. (\A i \in DOMAIN Tail(s.todo) : Tail(s.todo)[i] # "transmit policy") => OneTone(s.config)
  <2> SUFFICES ASSUME \A i \in DOMAIN Tail(s.todo) : Tail(s.todo)[i] # "transmit policy",
                      step # "transmit policy"
               PROVE  \A i \in DOMAIN s.todo : s.todo[i] # "transmit policy"
    BY <1>1 DEF SetupInv
  <2> TAKE i \in DOMAIN s.todo
  <2>1. i = 1 \/ (i - 1 \in DOMAIN Tail(s.todo) /\ Tail(s.todo)[i - 1] = s.todo[i])
    BY <1>1, TailIs
  <2>2. s.todo[1] = step
    BY <1>1, TailIs
  <2> QED
    BY <2>1, <2>2
<1> QED
  BY <1>1, <1>2, <1>3, <1>4 DEF SetupInv, Advance

\* An early return leaves no setup behind.
LEMMA AbandonSetup ==
  ASSUME NEW why, Abandon(why)
  PROVE  SetupInv' /\ UNCHANGED <<live, updates>>
BY DEF Abandon, SetupInv

\* A client's new hands its handle on or ends the call.
LEMMA OpenSetup ==
  ASSUME SetupInv,
         \/ OpenCtcssReceive \/ OpenDcsReceive \/ OpenSquelch \/ OpenConverter
         \/ OpenDcsTransmit \/ OpenCtcssTransmit
  PROVE  SetupInv' /\ UNCHANGED <<live, updates>>
<1>1. \/ \E why \in {"unsupported", "provider failed"} : Abandon(why)
      \/ \E step \in {"ctcss.rx", "dcs.rx", "squelch", "converter", "dcs.tx", "ctcss.tx"} :
           Doing(step) /\ \E h : Hold(h)
  BY DEF OpenCtcssReceive, OpenDcsReceive, OpenSquelch, OpenConverter, OpenDcsTransmit,
         OpenCtcssTransmit, CtcssReceive, DcsReceive, Squelch, Converter, DcsTransmit,
         CtcssTransmit, New
<1>2. CASE \E why \in {"unsupported", "provider failed"} : Abandon(why)
  BY <1>2, AbandonSetup
<1>3. CASE \E step \in {"ctcss.rx", "dcs.rx", "squelch", "converter", "dcs.tx", "ctcss.tx"} :
             Doing(step) /\ \E h : Hold(h)
  BY <1>3, AdvanceSetup DEF Hold
<1> QED
  BY <1>1, <1>2, <1>3

\* The steps between two opens.
LEMMA ConfigureSetup ==
  ASSUME SetupInv, ConfigureDcsReceive \/ ConfigureDcsTransmit \/ CheckTransmitPolicy
  PROVE  SetupInv' /\ UNCHANGED <<live, updates>>
<1>1. \/ \E why \in {"invalid", "provider failed"} : Abandon(why)
      \/ \E step \in {"dcs.rx configure", "dcs.tx configure"} : Doing(step) /\ Advance(setup.held)
      \/ Doing("transmit policy") /\ Advance(setup.held) /\ ~TransmitRefuses(setup.config)
  BY DEF ConfigureDcsReceive, ConfigureDcsTransmit, CheckTransmitPolicy
<1>2. ~TransmitRefuses(setup.config) => OneTone(setup.config)
  BY DEF TransmitRefuses, OneTone
<1>3. CASE Doing("transmit policy") /\ Advance(setup.held) /\ ~TransmitRefuses(setup.config)
  BY <1>2, <1>3, AdvanceSetup
<1>4. CASE \E step \in {"dcs.rx configure", "dcs.tx configure"} :
             Doing(step) /\ Advance(setup.held)
  BY <1>4, AdvanceSetup
<1> QED
  BY <1>1, <1>3, <1>4, AbandonSetup

\* What create publishes.
LEMMA BuiltSession ==
  ASSUME SetupInv, setup # Nothing, setup.todo = <<>>
  PROVE  SessionShape(Built(setup)) /\ Follows(Built(setup)) /\ ReceiverOf(Built(setup))
<1> DEFINE c == setup.config  s == Built(setup)
<1>1. /\ RxFollows(setup.profile, c) /\ TxFollows(setup.profile, c) /\ OneTone(c)
      /\ c.delay \in Nat /\ DelayFrames(c) \in Nat
  BY DelayType DEF SetupInv
<1>2. /\ s.profile = setup.profile /\ s.frames = c.frames /\ s.rx = c /\ s.tx = c
      /\ s.mode = EffectiveVadMode(c) /\ s.delay = DelayFrames(c) /\ s.cursor = 0
  BY DEF Built
<1>3. \E h : s.detector = DetectorWith(c, h)
  <2> DEFINE h == {x \in setup.held : x[1] \in Receiver}
  <2>1. s.detector = [DetectorWith(c, {}) EXCEPT !.handles = h]
    BY DetectorBare DEF Built
  <2>2. [DetectorWith(c, {}) EXCEPT !.handles = h] = DetectorWith(c, h)
    BY DetectorHandles
  <2> HIDE DEF h
  <2> QED
    BY <2>1, <2>2
<1>4. s.detector = DetectorWith(c, s.detector.handles)
  BY <1>3 DEF DetectorWith
<1>5. s.speech.mode = s.mode /\ s.speech.hang = c.hang
  BY DEF Built
<1>6. /\ DOMAIN s = SessionFields /\ DOMAIN s.encoder = {"external", "code", "handles"}
      /\ s.encoder.external = (s.profile # Nothing /\ s.profile.encode = External)
      /\ s.encoder.code = c.txCode
  BY DEF Built, SessionFields
<1> HIDE DEF s
<1>7. SessionShape(s)
  BY <1>1, <1>2, <1>6 DEF SessionShape
<1>8. ReceiverOf(s)
  BY <1>1, <1>2, <1>4, <1>5 DEF ReceiverOf
<1> QED
  BY <1>1, <1>2, <1>7, <1>8 DEF Follows, s

\* The two halves of an update, on any session s and candidate c of its profile and
\* geometry.
LEMMA ReceiveInstalled ==
  ASSUME NEW s, NEW c, SessionShape(s), SessionShape(c), Follows(s), Follows(c),
         ReceiverOf(s), ReceiverOf(c), s.frames = c.frames, s.profile = c.profile
  PROVE  LET i == InstallReceive(s, c) IN SessionShape(i) /\ Follows(i) /\ ReceiverOf(i)
<1> DEFINE i == InstallReceive(s, c)
           sp == SpeechApplied(s, c)[1]  dt == DetectorApplied(s, c)[1]
<1> DEFINE n == IF DelayIsSwapped(s, c) THEN c.delay ELSE s.delay
<1>1. /\ DOMAIN i = SessionFields
      /\ i.profile = s.profile /\ i.frames = s.frames /\ i.rx = c.rx /\ i.tx = s.tx
      /\ i.detector = dt /\ i.speech = sp /\ i.mode = c.mode /\ i.delay = n
      /\ i.cursor = CursorApplied(s, c) /\ i.encoder = s.encoder
  <2> HIDE DEF dt, sp, n
  <2>1. i = [s EXCEPT !.detector = dt, !.speech = sp, !.mode = c.mode, !.rx = c.rx,
                      !.delay = n, !.cursor = CursorApplied(s, c)]
    BY DEF InstallReceive, dt, sp, n
  <2> QED
    BY <2>1 DEF SessionShape, SessionFields
<1> HIDE DEF i
<1>2. SessionShape(i)
  <2> HIDE DEF dt, sp, n
  <2> QED
    BY <1>1 DEF SessionShape
<1>3. Follows(i)
  BY <1>1 DEF Follows
<1>4. \E h : dt = DetectorWith(c.rx, h)
  <2>1. CASE SameDetector(s.rx, c.rx)
    <3> DEFINE h == s.detector.handles  g == c.detector.handles
    <3>1. s.detector = DetectorWith(s.rx, h) /\ c.detector = DetectorWith(c.rx, g)
      BY DEF ReceiverOf
    <3>2. s.rx.frames = c.rx.frames
      BY DEF SessionShape
    <3>3. dt = [s.detector EXCEPT !.controls = c.detector.controls]
      BY <2>1 DEF DetectorApplied
    <3> HIDE DEF h, g, dt
    <3>4. [DetectorWith(s.rx, h) EXCEPT !.controls = DetectorWith(c.rx, g).controls]
            = DetectorWith(c.rx, h)
      BY <2>1, <3>2, DetectorControls
    <3> QED
      BY <3>1, <3>3, <3>4
  <2>2. CASE ~SameDetector(s.rx, c.rx)
    BY <2>2 DEF DetectorApplied, ReceiverOf
  <2> QED
    BY <2>1, <2>2
<1>5. dt = DetectorWith(c.rx, dt.handles)
  BY <1>4 DEF DetectorWith
<1>6. sp.mode = c.mode /\ sp.hang = c.rx.hang
  <2>1. /\ s.speech.mode = s.mode /\ s.speech.hang = s.rx.hang
        /\ c.speech.mode = c.mode /\ c.speech.hang = c.rx.hang
    BY DEF ReceiverOf
  <2> QED
    BY <2>1 DEF SpeechApplied
<1>7. i.delay = DelayFrames(c.rx) /\ DelayFrames(c.rx) \in Nat /\ i.mode = EffectiveVadMode(c.rx)
  <2>1. c.delay = DelayFrames(c.rx) /\ (~DelayIsSwapped(s, c) => s.delay = c.delay)
    BY DEF ReceiverOf, DelayIsSwapped
  <2>2. c.mode = EffectiveVadMode(c.rx)
    BY DEF ReceiverOf
  <2>3. DelayFrames(c.rx) \in Nat
    BY DelayType DEF SessionShape
  <2> QED
    BY <1>1, <2>1, <2>2, <2>3
<1>8. i.cursor \in Nat /\ i.cursor < IF i.delay = 0 THEN 1 ELSE i.delay
  <2>1. i.cursor = 0 \/ (i.cursor = s.cursor /\ i.delay = s.delay)
    BY <1>1 DEF CursorApplied
  <2> QED
    BY <1>7, <2>1 DEF ReceiverOf
<1>9. ReceiverOf(i)
  <2> HIDE DEF dt, sp
  <2> QED
    BY <1>1, <1>5, <1>6, <1>7, <1>8 DEF ReceiverOf
<1> QED
  BY <1>2, <1>3, <1>9 DEF i

\* What the receive half displaces keeps the candidate's profile and policies.
LEMMA ReceiveDisplaced ==
  ASSUME NEW s, NEW c, SessionShape(c), Follows(c)
  PROVE  SessionShape(Displaced(s, c)) /\ Follows(Displaced(s, c))
<1> DEFINE i == Displaced(s, c)
           d == DetectorApplied(s, c)[2]  v == SpeechApplied(s, c)[2]
           n == IF DelayIsSwapped(s, c) THEN s.delay ELSE c.delay
<1>1. i = [c EXCEPT !.detector = d, !.speech = v, !.delay = n]
  BY DEF Displaced
<1> HIDE DEF i, d, v, n
<1>2. /\ DOMAIN i = SessionFields
      /\ i.profile = c.profile /\ i.frames = c.frames /\ i.rx = c.rx /\ i.tx = c.tx
      /\ i.encoder = c.encoder
  BY <1>1 DEF SessionShape, SessionFields
<1> QED
  BY <1>2 DEF SessionShape, Follows, i

\* The transmit half leaves the receiver alone.
LEMMA TransmitInstalled ==
  ASSUME NEW s, NEW c, SessionShape(s), SessionShape(c), Follows(s), Follows(c),
         ReceiverOf(s), s.profile = c.profile
  PROVE  LET i == InstallTransmit(s, c) IN SessionShape(i) /\ Follows(i) /\ ReceiverOf(i)
<1> DEFINE i == InstallTransmit(s, c)
<1>1. i = [s EXCEPT !.tx = c.tx, !.encoder.external = c.encoder.external,
                    !.encoder.code = c.encoder.code]
  BY DEF InstallTransmit
<1> HIDE DEF i
<1>2. /\ DOMAIN i = SessionFields
      /\ i.profile = s.profile /\ i.frames = s.frames /\ i.rx = s.rx /\ i.tx = c.tx
      /\ i.detector = s.detector /\ i.speech = s.speech /\ i.mode = s.mode
      /\ i.delay = s.delay /\ i.cursor = s.cursor
  BY <1>1 DEF SessionShape, SessionFields
<1>3. /\ DOMAIN i.encoder = {"external", "code", "handles"}
      /\ i.encoder.external = c.encoder.external /\ i.encoder.code = c.encoder.code
  BY <1>1 DEF SessionShape, SessionFields
<1>4. SessionShape(i)
  BY <1>2, <1>3 DEF SessionShape
<1>5. Follows(i) /\ ReceiverOf(i)
  BY <1>2 DEF Follows, ReceiverOf
<1> QED
  BY <1>4, <1>5 DEF i

\* Swapping the receive half.
LEMMA ApplyReceiveKeeps ==
  ASSUME Inv, NEW u \in updates, ApplyReceive(u)
  PROVE  Inv'
<1> DEFINE c == u.candidate
<1>1. SetupInv'
  BY DEF ApplyReceive, Answer, Inv, SetupInv
<1>2. CASE UNCHANGED <<live, updates>>
  BY <1>1, <1>2 DEF Inv, LiveInv, UpdatesInv
<1>3. CASE /\ Compatible(u) /\ ~u.receive
           /\ live' = InstallReceive(live, c)
           /\ updates' = Replace(u, [u EXCEPT !.receive = TRUE, !.candidate = Displaced(live, @)])
  <2> DEFINE w == [u EXCEPT !.receive = TRUE, !.candidate = Displaced(live, @)]
  <2>1. /\ SessionShape(live) /\ Follows(live) /\ ReceiverOf(live)
        /\ SessionShape(c) /\ Follows(c) /\ ReceiverOf(c)
        /\ live.frames = c.frames /\ live.profile = c.profile
    BY <1>3 DEF ApplyReceive, Inv, LiveInv, UpdatesInv, Compatible
  <2>2. LiveInv'
    BY <1>3, <2>1, ReceiveInstalled DEF LiveInv
  <2>3. DOMAIN u = {"candidate", "receive", "transmit"}
    BY DEF Inv, UpdatesInv
  <2>4. /\ DOMAIN w = {"candidate", "receive", "transmit"}
        /\ w.candidate = Displaced(live, c) /\ w.receive
    BY <2>3
  <2> HIDE DEF w
  <2>5. ASSUME NEW x \in updates'
        PROVE  /\ DOMAIN x = {"candidate", "receive", "transmit"}
               /\ SessionShape(x.candidate) /\ Follows(x.candidate)
               /\ ~x.receive => ReceiverOf(x.candidate)
    <3>1. CASE x = w
      BY <2>1, <2>4, <3>1, ReceiveDisplaced
    <3>2. CASE x \in updates
      BY <3>2 DEF Inv, UpdatesInv
    <3> QED
      BY <1>3, <3>1, <3>2 DEF Replace, w
  <2> QED
    BY <1>1, <2>2, <2>5 DEF Inv, UpdatesInv
<1> QED
  BY <1>2, <1>3 DEF ApplyReceive, Answer

\* Installing the transmit half, or not when the DCS handle refuses.
LEMMA ApplyTransmitKeeps ==
  ASSUME Inv, NEW u \in updates, ApplyTransmit(u)
  PROVE  Inv'
<1> DEFINE c == u.candidate
<1>1. SetupInv'
  BY DEF ApplyTransmit, Answer, Inv, SetupInv
<1>2. CASE UNCHANGED <<live, updates>>
  BY <1>1, <1>2 DEF Inv, LiveInv, UpdatesInv
<1>3. CASE /\ Compatible(u)
           /\ live' = InstallTransmit(live, c)
           /\ updates' = Replace(u, [u EXCEPT !.transmit = TRUE])
  <2> DEFINE w == [u EXCEPT !.transmit = TRUE]
  <2>1. /\ SessionShape(live) /\ Follows(live) /\ ReceiverOf(live)
        /\ SessionShape(c) /\ Follows(c) /\ live.profile = c.profile
    BY <1>3 DEF ApplyTransmit, Inv, LiveInv, UpdatesInv, Compatible
  <2>2. LiveInv'
    BY <1>3, <2>1, TransmitInstalled DEF LiveInv
  <2>3. DOMAIN u = {"candidate", "receive", "transmit"}
    BY DEF Inv, UpdatesInv
  <2>4. DOMAIN w = {"candidate", "receive", "transmit"} /\ w.candidate = c /\ w.receive = u.receive
    BY <2>3
  <2> HIDE DEF w
  <2>5. ASSUME NEW x \in updates'
        PROVE  /\ DOMAIN x = {"candidate", "receive", "transmit"}
               /\ SessionShape(x.candidate) /\ Follows(x.candidate)
               /\ ~x.receive => ReceiverOf(x.candidate)
    <3>1. CASE x = w
      BY <2>4, <3>1 DEF Inv, UpdatesInv
    <3>2. CASE x \in updates
      BY <3>2 DEF Inv, UpdatesInv
    <3> QED
      BY <1>3, <3>1, <3>2 DEF Replace, w
  <2> QED
    BY <1>1, <2>2, <2>5 DEF Inv, UpdatesInv
<1> QED
  BY <1>2, <1>3 DEF ApplyTransmit, Answer

\* The delay is written inside its storage.
LEMMA CaptureKeeps ==
  ASSUME Inv, Capture
  PROVE  Inv'
<1> DEFINE k == (live.cursor + 1) % live.delay
<1>1. SessionShape(live) /\ Follows(live) /\ ReceiverOf(live) /\ live.delay > 0
  BY DEF Capture, Inv, LiveInv
<1>2. live' = [live EXCEPT !.cursor = k] /\ UNCHANGED <<setup, updates>>
  BY DEF Capture
<1>3. live.cursor \in Nat /\ live.delay \in Nat
  BY <1>1, DelayType DEF ReceiverOf, SessionShape
<1>4. k \in Nat /\ k < live.delay
  BY <1>1, <1>3
<1> HIDE DEF k
<1> DEFINE s == live'
<1>5. /\ DOMAIN s = SessionFields /\ s.cursor = k
      /\ s.profile = live.profile /\ s.frames = live.frames /\ s.rx = live.rx /\ s.tx = live.tx
      /\ s.detector = live.detector /\ s.speech = live.speech /\ s.mode = live.mode
      /\ s.delay = live.delay /\ s.encoder = live.encoder
  BY <1>1, <1>2 DEF SessionShape, SessionFields
<1> HIDE DEF s
<1>6. SessionShape(s) /\ Follows(s)
  BY <1>1, <1>5 DEF SessionShape, Follows
<1>7. ReceiverOf(s)
  BY <1>1, <1>4, <1>5 DEF ReceiverOf
<1>8. LiveInv'
  BY <1>6, <1>7 DEF LiveInv, s
<1> QED
  BY <1>2, <1>8 DEF Inv, SetupInv, UpdatesInv

\* What setup built becomes the session or a candidate.
LEMMA PublishKeeps ==
  ASSUME Inv, PublishSession \/ PublishUpdate
  PROVE  Inv'
<1> DEFINE b == Built(setup)
<1>1. SessionShape(b) /\ Follows(b) /\ ReceiverOf(b)
  BY BuiltSession DEF Inv, PublishSession, PublishUpdate
<1> HIDE DEF b
<1>2. CASE PublishSession
  BY <1>1, <1>2 DEF PublishSession, Inv, SetupInv, LiveInv, UpdatesInv, b
<1>3. CASE PublishUpdate
  <2>1. updates' = updates \cup {[candidate |-> b, receive |-> FALSE, transmit |-> FALSE]}
    BY <1>3 DEF PublishUpdate, b
  <2>2. UpdatesInv'
    BY <1>1, <2>1 DEF Inv, UpdatesInv
  <2> QED
    BY <1>3, <2>2 DEF PublishUpdate, Inv, SetupInv, LiveInv
<1> QED
  BY <1>2, <1>3

\* Destroying takes parts away only.
LEMMA DestroyKeeps ==
  ASSUME Inv, Destroy \/ \E u \in updates : DestroyUpdate(u)
  PROVE  Inv'
BY DEF Destroy, DestroyUpdate, Inv, SetupInv, LiveInv, UpdatesInv

\* A step of setup leaves every published part alone.
LEMMA SetupSteps ==
  ASSUME Inv,
         \/ \E o \in Offers : Create(o) \/ Prepare(o)
         \/ OpenCtcssReceive \/ OpenDcsReceive \/ ConfigureDcsReceive \/ OpenSquelch
         \/ CheckTransmitPolicy \/ OpenConverter
         \/ OpenDcsTransmit \/ ConfigureDcsTransmit \/ OpenCtcssTransmit
  PROVE  Inv' /\ UNCHANGED <<live, updates>>
<1>1. ASSUME NEW o \in Offers, Create(o) \/ Prepare(o)
      PROVE  SetupInv' /\ UNCHANGED <<live, updates>>
  <2>1. CASE \E why \in {"invalid", "unsupported", ProfileVerdict(o)} : Answer(why)
    BY <2>1 DEF Answer, Inv, SetupInv
  <2>2. CASE ProfileVerdict(o) = "ok" /\ \E for \in {"session", "update"} : Begin(o, for)
    BY <2>2, BeginSetup DEF Inv
  <2> QED
    BY <1>1, <2>1, <2>2 DEF Create, Prepare
<1>2. SetupInv' /\ UNCHANGED <<live, updates>>
  BY <1>1, OpenSetup, ConfigureSetup DEF Inv
<1> QED
  BY <1>2 DEF Inv, LiveInv, UpdatesInv

\* Every step preserves the invariant.
LEMMA InvHolds == Spec => []Inv
<1>1. Init => Inv
  BY DEF Init, Inv, SetupInv, LiveInv, UpdatesInv
<1>2. Inv /\ [Next]_vars => Inv'
  <2> SUFFICES ASSUME Inv, [Next]_vars PROVE Inv'
    OBVIOUS
  <2>1. CASE UNCHANGED vars
    BY <2>1 DEF vars, Inv, SetupInv, LiveInv, UpdatesInv
  <2>2. CASE Next
    BY <2>2, SetupSteps, PublishKeeps, ApplyReceiveKeeps, ApplyTransmitKeeps, DestroyKeeps,
       CaptureKeeps DEF Next
  <2> QED
    BY <2>1, <2>2
<1> QED
  BY <1>1, <1>2, PTL DEF Spec

\* Whatever is offered and whatever halves of whatever candidates are applied,
\* in any order, the live session keeps what its profile selects.
THEOREM LiveKeepsProfile == Spec => []LiveFollowsProfile
<1>1. Inv => LiveFollowsProfile
  BY InvImplies
<1> QED
  BY <1>1, InvHolds, PTL

\* However many updates were swapped into it, the live receiver, its speech
\* admission and its delay are the ones of the live policy.
THEOREM ReceiverKeepsConfig == Spec => []ReceiverFollowsConfig
<1>1. Inv => ReceiverFollowsConfig
  BY InvImplies
<1> QED
  BY <1>1, InvHolds, PTL

\* A call that answers an error has changed neither the session nor a candidate.
THEOREM FailureChangesNothing == Spec => FailedCallChangesNothing
<1>1. Inv /\ [Next]_vars => [status' \notin {"ok", "running"} => UNCHANGED <<live, updates>>]_vars
  <2> SUFFICES ASSUME Inv, Next, status' \notin {"ok", "running"}
               PROVE  UNCHANGED <<live, updates>>
    OBVIOUS
  <2>1. ASSUME NEW u \in updates, ApplyReceive(u) \/ ApplyTransmit(u)
        PROVE  UNCHANGED <<live, updates>>
    BY <2>1 DEF ApplyReceive, ApplyTransmit, Answer
  <2>2. ~PublishSession /\ ~PublishUpdate /\ ~Capture /\ ~Destroy
        /\ \A u \in updates : ~DestroyUpdate(u)
    BY DEF PublishSession, PublishUpdate, Capture, Destroy, DestroyUpdate
  <2> QED
    BY <2>1, <2>2, SetupSteps DEF Next
<1> QED
  BY <1>1, InvHolds, PTL DEF Spec, FailedCallChangesNothing

----------------------------------------------------------------------------
(* What the variables hold, so that a session or a setup is never Nothing.   *)
TypeInv ==
  /\ setup \in SetupType \cup {Nothing}
  /\ live \in SessionType \cup {Nothing}
  /\ \A u \in updates : u.candidate \in SessionType

\* A setup begins with a policy of the offers.
LEMMA BeginType ==
  ASSUME TypeInv, NEW o \in Offers, ProfileVerdict(o) = "ok",
         NEW for \in {"session", "update"}, Begin(o, for)
  PROVE  TypeInv' /\ (UNCHANGED setup \/ setup' \in SetupType)
<1> DEFINE c == Profiled(o)
<1>1. CASE CreateVerdict(c) # "ok"
  BY <1>1 DEF Begin, Answer, TypeInv
<1>2. CASE CreateVerdict(c) = "ok"
  <2>1. c \in Policies
    BY <1>2 DEF CreateVerdict, Policies
  <2>2. setup' = [for |-> for, config |-> c, profile |-> o.profile, todo |-> Steps(c), held |-> {}]
        /\ UNCHANGED <<live, updates>>
    BY <1>2 DEF Begin
  <2>3. Steps(c) \in Seq(SetupStep) /\ o.profile \in Profiles /\ {} \in HandleSets
    BY StepsType DEF Profiles, HandleSets
  <2>4. setup' \in SetupType
    BY <2>1, <2>2, <2>3 DEF SetupType
  <2> QED
    BY <2>2, <2>4 DEF TypeInv
<1> QED
  BY <1>1, <1>2

\* It goes on with what it holds.
LEMMA AdvanceType ==
  ASSUME TypeInv, setup # Nothing, setup.todo # <<>>, NEW held \in HandleSets, Advance(held)
  PROVE  TypeInv' /\ setup' \in SetupType
<1>1. setup \in SetupType
  BY DEF TypeInv
<1>2. Tail(setup.todo) \in Seq(SetupStep)
  BY <1>1, TailIs DEF SetupType
<1>3. /\ setup' = [setup EXCEPT !.todo = Tail(setup.todo), !.held = held]
      /\ UNCHANGED <<live, updates>>
  BY DEF Advance
<1>4. setup' \in SetupType
  BY <1>1, <1>2, <1>3 DEF SetupType
<1> QED
  BY <1>3, <1>4 DEF TypeInv

\* A new handle is its client's, and was not open.
LEMMA FreshHandle ==
  ASSUME NEW client, NEW h \in Fresh(client)
  PROVE  (\E t \in Tokens : h = <<client, t>>) /\ h[1] = client /\ h \notin open
<1> DEFINE Free == {t \in Tokens : <<client, t>> \notin open
                                   /\ \A s \in Tokens : <<client, s>> \notin open => t <= s}
<1>1. \A t \in Free : t \in Tokens /\ <<client, t>> \notin open
  OBVIOUS
<1>2. Fresh(client) = {<<client, t>> : t \in Free}
  BY DEF Fresh
<1> HIDE DEF Free
<1>3. PICK t \in Free : h = <<client, t>>
  BY <1>2
<1> QED
  BY <1>1, <1>3

\* A new handle is one more handle.
LEMMA HoldType ==
  ASSUME TypeInv, NEW client \in Clients, Doing(client), NEW h \in Fresh(client), Hold(h)
  PROVE  TypeInv' /\ setup' \in SetupType
<1>1. setup \in SetupType /\ setup # Nothing /\ setup.todo # <<>>
  BY DEF TypeInv, Doing
<1>2. h \in Clients \X Tokens
  BY FreshHandle
<1>3. setup.held \cup {h} \in HandleSets
  BY <1>1, <1>2 DEF SetupType, HandleSets
<1> QED
  BY <1>1, <1>3, AdvanceType DEF Hold

\* The parts that create builds.
LEMMA BuiltType ==
  ASSUME setup \in SetupType
  PROVE  Built(setup) \in SessionType
<1> DEFINE c == setup.config
           d == {h \in setup.held : h[1] \in Receiver}
           v == {h \in setup.held : h[1] = "converter"}
           e == {h \in setup.held : h[1] \in Transmitter}
           x == setup.profile # Nothing /\ setup.profile.encode = External
<1>1. c \in Policies /\ setup.profile \in Profiles
  BY DEF SetupType
<1>2. d \in HandleSets /\ v \in HandleSets /\ e \in HandleSets
  BY DEF SetupType, HandleSets
<1>3. DelayFrames(c) \in Nat
  <2>1. PICK o \in Offers : ProfileVerdict(o) = "ok" /\ c = Profiled(o)
    BY <1>1 DEF Policies
  <2>2. SessionRecord(o.config)
    BY UpdatesAssumption
  <2>3. c.delay = o.config.delay
    BY <2>1, <2>2 DEF Profiled, Configure, SessionRecord
  <2> QED
    BY <2>2, <2>3, DelayType DEF SessionRecord, ReceiveConfig
<1>4. x \in BOOLEAN
  OBVIOUS
<1> HIDE DEF c, d, v, e, x
<1>5. [DetectorOf(c) EXCEPT !.handles = d] \in DetectorType
  <2>1. [DetectorOf(c) EXCEPT !.handles = d] = DetectorWith(c, d)
    BY DetectorBare, DetectorHandles
  <2>2. DetectorOf(c) = DetectorWith(c, {})
    BY DetectorBare
  <2> DEFINE a == DetectorOf(c)  b == DetectorWith(c, d)
  <2>3. /\ b = [frames |-> a.frames, noise |-> a.noise, gate |-> a.gate, filter |-> a.filter,
                tones |-> a.tones, code |-> a.code, controls |-> a.controls, handles |-> d]
    BY <2>2 DEF DetectorWith
  <2> HIDE DEF b
  <2>4. a \in {DetectorOf(q) : q \in Policies}
    BY <1>1
  <2> HIDE DEF a
  <2>5. b \in DetectorType
    BY <1>2, <2>3, <2>4 DEF DetectorType
  <2> QED
    BY <2>1, <2>5 DEF b
<1>6. [mode |-> EffectiveVadMode(c), hang |-> c.hang, handles |-> v] \in SpeechType
  BY <1>1, <1>2 DEF SpeechType
<1>7. [external |-> x, code |-> c.txCode, handles |-> e] \in EncoderType
  BY <1>1, <1>2, <1>4 DEF EncoderType
<1>8. Built(setup) =
        [profile |-> setup.profile, frames |-> c.frames, rx |-> c, tx |-> c,
         detector |-> [DetectorOf(c) EXCEPT !.handles = d],
         speech |-> [mode |-> EffectiveVadMode(c), hang |-> c.hang, handles |-> v],
         mode |-> EffectiveVadMode(c), delay |-> DelayFrames(c), cursor |-> 0,
         encoder |-> [external |-> x, code |-> c.txCode, handles |-> e]]
  BY DEF Built, c, d, v, e, x
<1> QED
  BY <1>1, <1>3, <1>5, <1>6, <1>7, <1>8 DEF SessionType

\* The halves of an update are made of the parts of the two sides.
LEMMA SwapType ==
  ASSUME NEW s \in SessionType, NEW c \in SessionType
  PROVE  /\ InstallTransmit(s, c) \in SessionType
         /\ InstallReceive(s, c) \in SessionType /\ Displaced(s, c) \in SessionType
<1>1. /\ s.detector \in DetectorType /\ c.detector \in DetectorType
      /\ s.speech \in SpeechType /\ c.speech \in SpeechType
      /\ s.encoder \in EncoderType /\ c.encoder \in EncoderType
      /\ s.delay \in Nat /\ c.delay \in Nat /\ s.cursor \in Nat
  BY DEF SessionType
<1>2. InstallTransmit(s, c) \in SessionType
  <2>1. /\ c.encoder.external \in BOOLEAN /\ c.encoder.code \in {p.txCode : p \in Policies}
    BY <1>1 DEF EncoderType
  <2> DEFINE e == [s.encoder EXCEPT !.external = c.encoder.external, !.code = c.encoder.code]
  <2>2. e \in EncoderType
    BY <1>1, <2>1 DEF EncoderType
  <2>3. InstallTransmit(s, c) = [s EXCEPT !.tx = c.tx, !.encoder = e]
    BY DEF InstallTransmit, SessionType
  <2> HIDE DEF e
  <2>4. c.tx \in Policies
    BY DEF SessionType
  <2> QED
    BY <2>2, <2>3, <2>4 DEF SessionType
<1> DEFINE d == DetectorApplied(s, c)[1]  dx == DetectorApplied(s, c)[2]
           v == SpeechApplied(s, c)[1]  vx == SpeechApplied(s, c)[2]
           n == IF DelayIsSwapped(s, c) THEN c.delay ELSE s.delay
           nx == IF DelayIsSwapped(s, c) THEN s.delay ELSE c.delay
           k == CursorApplied(s, c)
<1>3. d \in DetectorType /\ dx \in DetectorType
  <2>1. CASE SameDetector(s.rx, c.rx)
    <3>1. [s.detector EXCEPT !.controls = c.detector.controls] \in DetectorType
      BY <1>1 DEF DetectorType
    <3> QED
      BY <1>1, <2>1, <3>1 DEF DetectorApplied
  <2>2. CASE ~SameDetector(s.rx, c.rx)
    BY <1>1, <2>2 DEF DetectorApplied
  <2> QED
    BY <2>1, <2>2
<1>4. v \in SpeechType /\ vx \in SpeechType
  BY <1>1 DEF SpeechApplied
<1>5. n \in Nat /\ nx \in Nat /\ k \in Nat
  BY <1>1 DEF CursorApplied
<1> HIDE DEF d, dx, v, vx, n, nx, k
<1>6. c.rx \in Policies /\ c.mode \in {EffectiveVadMode(p) : p \in Policies}
  BY DEF SessionType
<1>7. InstallReceive(s, c) \in SessionType
  <2>1. InstallReceive(s, c) = [s EXCEPT !.detector = d, !.speech = v, !.mode = c.mode,
                                         !.rx = c.rx, !.delay = n, !.cursor = k]
    BY DEF InstallReceive, d, v, n, k
  <2> QED
    BY <1>3, <1>4, <1>5, <1>6, <2>1 DEF SessionType
<1>8. Displaced(s, c) \in SessionType
  <2>1. Displaced(s, c) = [c EXCEPT !.detector = dx, !.speech = vx, !.delay = nx]
    BY DEF Displaced, dx, vx, nx
  <2> QED
    BY <1>3, <1>4, <1>5, <2>1 DEF SessionType
<1> QED
  BY <1>2, <1>7, <1>8

\* Everything setup does.
LEMMA SetupTypeKept ==
  ASSUME TypeInv,
         \/ \E o \in Offers : Create(o) \/ Prepare(o)
         \/ OpenCtcssReceive \/ OpenDcsReceive \/ ConfigureDcsReceive \/ OpenSquelch
         \/ CheckTransmitPolicy \/ OpenConverter
         \/ OpenDcsTransmit \/ ConfigureDcsTransmit \/ OpenCtcssTransmit
  PROVE  TypeInv'
<1>1. ASSUME NEW why, Abandon(why) \/ Answer(why) PROVE TypeInv'
  BY <1>1 DEF Abandon, Answer, TypeInv
<1>2. CASE \E o \in Offers : Create(o) \/ Prepare(o)
  <2>1. PICK o \in Offers : Create(o) \/ Prepare(o)
    BY <1>2
  <2>2. CASE \E why \in {"invalid", "unsupported", ProfileVerdict(o)} : Answer(why)
    BY <1>1, <2>2
  <2>3. CASE ProfileVerdict(o) = "ok" /\ \E for \in {"session", "update"} : Begin(o, for)
    BY <2>3, BeginType
  <2> QED
    BY <2>1, <2>2, <2>3 DEF Create, Prepare
<1>3. CASE \/ OpenCtcssReceive \/ OpenDcsReceive \/ OpenSquelch \/ OpenConverter
           \/ OpenDcsTransmit \/ OpenCtcssTransmit
  <2>1. \/ \E why \in {"unsupported", "provider failed"} : Abandon(why)
        \/ \E client \in {"ctcss.rx", "dcs.rx", "squelch", "converter", "dcs.tx", "ctcss.tx"} :
             Doing(client) /\ \E h \in Fresh(client) : Hold(h)
    BY <1>3 DEF OpenCtcssReceive, OpenDcsReceive, OpenSquelch, OpenConverter, OpenDcsTransmit,
           OpenCtcssTransmit, CtcssReceive, DcsReceive, Squelch, Converter, DcsTransmit,
           CtcssTransmit, New
  <2>2. Clients = {"ctcss.rx", "dcs.rx", "squelch", "converter", "dcs.tx", "ctcss.tx"}
    BY DEF Clients, Receiver, Transmitter
  <2> QED
    BY <1>1, <2>1, <2>2, HoldType
<1>4. CASE ConfigureDcsReceive \/ ConfigureDcsTransmit \/ CheckTransmitPolicy
  <2>1. \/ \E why \in {"invalid", "provider failed"} : Abandon(why)
        \/ setup # Nothing /\ setup.todo # <<>> /\ Advance(setup.held)
    BY <1>4 DEF ConfigureDcsReceive, ConfigureDcsTransmit, CheckTransmitPolicy, Doing
  <2>2. setup # Nothing => setup.held \in HandleSets
    BY DEF TypeInv, SetupType
  <2> QED
    BY <1>1, <2>1, <2>2, AdvanceType
<1> QED
  BY <1>2, <1>3, <1>4

\* Everything that happens to a session and its candidates.
LEMMA SessionTypeKept ==
  ASSUME TypeInv, UpdatesInv,
         \/ PublishSession \/ PublishUpdate \/ Capture \/ Destroy
         \/ \E u \in updates : ApplyReceive(u) \/ ApplyTransmit(u) \/ DestroyUpdate(u)
  PROVE  TypeInv'
<1>1. CASE PublishSession \/ PublishUpdate
  <2> DEFINE b == Built(setup)
  <2>1. b \in SessionType
    BY <1>1, BuiltType DEF TypeInv, PublishSession, PublishUpdate
  <2> HIDE DEF b
  <2>2. setup' = Nothing /\ (live' = live \/ live' = b)
    BY <1>1 DEF PublishSession, PublishUpdate, b
  <2>3. \A u \in updates' :
          u \in updates \/ u = [candidate |-> b, receive |-> FALSE, transmit |-> FALSE]
    BY <1>1 DEF PublishSession, PublishUpdate, b
  <2> QED
    BY <2>1, <2>2, <2>3 DEF TypeInv
<1>2. CASE Capture
  <2>1. live \in SessionType /\ live' = [live EXCEPT !.cursor = (live.cursor + 1) % live.delay]
        /\ UNCHANGED <<setup, updates>> /\ live.delay > 0
    BY <1>2 DEF Capture, TypeInv
  <2>2. live.cursor \in Nat /\ live.delay \in Nat
    BY <2>1 DEF SessionType
  <2> DEFINE k == (live.cursor + 1) % live.delay
  <2>3. k \in Nat
    BY <2>1, <2>2
  <2> HIDE DEF k
  <2>4. live' = [live EXCEPT !.cursor = k]
    BY <2>1 DEF k
  <2>5. live' \in SessionType
    BY <2>1, <2>3, <2>4 DEF SessionType
  <2> QED
    BY <2>1, <2>5 DEF TypeInv
<1>3. CASE Destroy \/ \E u \in updates : DestroyUpdate(u)
  BY <1>3 DEF Destroy, DestroyUpdate, TypeInv
<1>4. ASSUME NEW u \in updates, ApplyReceive(u) PROVE TypeInv'
  <2>1. CASE UNCHANGED <<setup, live, updates>>
    BY <2>1 DEF TypeInv
  <2> DEFINE c == u.candidate
             w == [u EXCEPT !.receive = TRUE, !.candidate = Displaced(live, c)]
  <2>2. CASE /\ live # Nothing /\ live' = InstallReceive(live, c)
             /\ updates' = Replace(u, w) /\ UNCHANGED setup
    <3>1. live \in SessionType /\ c \in SessionType
      BY <2>2 DEF TypeInv
    <3>2. live' \in SessionType /\ Displaced(live, c) \in SessionType
      BY <2>2, <3>1, SwapType
    <3>3. w.candidate \in SessionType
      BY <3>1, <3>2 DEF UpdatesInv
    <3> QED
      BY <2>2, <3>2, <3>3 DEF TypeInv, Replace
  <2> QED
    BY <1>4, <2>1, <2>2 DEF ApplyReceive, Answer
<1>5. ASSUME NEW u \in updates, ApplyTransmit(u) PROVE TypeInv'
  <2>1. CASE UNCHANGED <<setup, live, updates>>
    BY <2>1 DEF TypeInv
  <2> DEFINE c == u.candidate  w == [u EXCEPT !.transmit = TRUE]
  <2>2. CASE /\ live # Nothing /\ live' = InstallTransmit(live, c)
             /\ updates' = Replace(u, w) /\ UNCHANGED setup
    <3>1. live \in SessionType /\ c \in SessionType
      BY <2>2 DEF TypeInv
    <3>2. live' \in SessionType
      BY <2>2, <3>1, SwapType
    <3>3. w.candidate = c
      BY DEF UpdatesInv
    <3> QED
      BY <2>2, <3>1, <3>2, <3>3 DEF TypeInv, Replace
  <2> QED
    BY <1>5, <2>1, <2>2 DEF ApplyTransmit, Answer
<1> QED
  BY <1>1, <1>2, <1>3, <1>4, <1>5

\* A session or a setup is never Nothing.
LEMMA Something ==
  /\ \A s \in SessionType : s # Nothing
  /\ \A s \in SetupType : s # Nothing
BY NothingAssumption

----------------------------------------------------------------------------
(* Who owns a handle.  The clients a session needs follow from its speech     *)
(* mode; during setup the ones already opened and the ones still to do make   *)
(* up what the configuration needs.                                           *)
Names(handles) == {h[1] : h \in handles}
Analysis(mode) == IF mode = 0 THEN {} ELSE {"converter"}
Wanted(c) == Receiver \cup Transmitter \cup Analysis(EffectiveVadMode(c))
Parts(s) ==
  /\ Names(s.detector.handles) = Receiver
  /\ Names(s.speech.handles) = Analysis(s.speech.mode)
  /\ Names(s.encoder.handles) = Transmitter
Elements(todo) == {todo[i] : i \in DOMAIN todo}
Coming(todo) == Elements(todo) \cap Clients

Apart(a, b) == \A h : ~(h \in a /\ h \in b)
Held(h) ==
  \/ \E u \in updates : h \in HandlesOf(u.candidate)
  \/ live # Nothing /\ h \in HandlesOf(live)
  \/ setup # Nothing /\ h \in setup.held
UpdatesOwn ==
  \A u \in updates :
    /\ Parts(u.candidate)
    /\ \A v \in updates : u = v \/ Apart(HandlesOf(u.candidate), HandlesOf(v.candidate))
LiveOwns ==
  live # Nothing =>
    Parts(live) /\ \A u \in updates : Apart(HandlesOf(live), HandlesOf(u.candidate))
SetupOwns ==
  setup # Nothing =>
    /\ setup.for = "session" => live = Nothing
    /\ Names(setup.held) \cup Coming(setup.todo) = Wanted(setup.config)
    /\ live # Nothing => Apart(setup.held, HandlesOf(live))
    /\ \A u \in updates : Apart(setup.held, HandlesOf(u.candidate))
OwnerInv == UpdatesOwn /\ LiveOwns /\ SetupOwns /\ \A h : h \in open <=> Held(h)

\* A new handle adds its client's name.
LEMMA NamesWith ==
  ASSUME NEW a, NEW h
  PROVE  Names(a \cup {h}) = Names(a) \cup {h[1]}
BY DEF Names

\* The clients of a sequence of steps are the one of its head and those of its tail.
LEMMA ComingIs ==
  ASSUME NEW q \in Seq(SetupStep), q # <<>>
  PROVE  Coming(q) = ({Head(q)} \cap Clients) \cup Coming(Tail(q))
<1>1. ASSUME NEW c PROVE c \in Coming(q) <=> c \in ({Head(q)} \cap Clients) \cup Coming(Tail(q))
  <2>1. Coming(q) = {q[i] : i \in DOMAIN q} \cap Clients
        /\ Coming(Tail(q)) = {Tail(q)[i] : i \in DOMAIN Tail(q)} \cap Clients
    BY DEF Coming, Elements
  <2>2. /\ Head(q) = q[1] /\ 1 \in DOMAIN q
        /\ \A i \in DOMAIN q : i = 1 \/ (i - 1 \in DOMAIN Tail(q) /\ Tail(q)[i - 1] = q[i])
        /\ \A i \in DOMAIN Tail(q) : i + 1 \in DOMAIN q /\ q[i + 1] = Tail(q)[i]
    OBVIOUS
  <2>3. ASSUME c \in Coming(q) PROVE c \in ({Head(q)} \cap Clients) \cup Coming(Tail(q))
    <3>1. PICK i \in DOMAIN q : q[i] = c
      BY <2>1, <2>3
    <3>2. c \in Clients
      BY <2>1, <2>3
    <3>3. CASE i = 1
      BY <2>2, <3>1, <3>2, <3>3
    <3>4. CASE i # 1
      BY <2>1, <2>2, <3>1, <3>2, <3>4
    <3> QED
      BY <3>3, <3>4
  <2>4. ASSUME c \in ({Head(q)} \cap Clients) \cup Coming(Tail(q)) PROVE c \in Coming(q)
    <3>1. CASE c \in {Head(q)} \cap Clients
      BY <2>1, <2>2, <3>1
    <3>2. CASE c \in Coming(Tail(q))
      <4>1. PICK i \in DOMAIN Tail(q) : Tail(q)[i] = c
        BY <2>1, <3>2
      <4>2. i + 1 \in DOMAIN q /\ q[i + 1] = c /\ c \in Clients
        BY <2>1, <2>2, <3>2, <4>1
      <4> QED
        BY <2>1, <4>2
    <3> QED
      BY <2>4, <3>1, <3>2
  <2> QED
    BY <2>3, <2>4
<1> QED
  BY <1>1

\* The elements of sequences put together.
LEMMA ElementsOfConcat ==
  ASSUME NEW S, NEW p \in Seq(S), NEW q \in Seq(S)
  PROVE  Elements(p \o q) = Elements(p) \cup Elements(q)
<1> DEFINE r == p \o q
<1>1. /\ r \in Seq(S) /\ DOMAIN r = 1..(Len(p) + Len(q))
      /\ DOMAIN p = 1..Len(p) /\ DOMAIN q = 1..Len(q) /\ Len(p) \in Nat /\ Len(q) \in Nat
      /\ \A i \in 1..Len(p) : r[i] = p[i]
      /\ \A i \in 1..Len(q) : r[Len(p) + i] = q[i]
  OBVIOUS
<1> HIDE DEF r
<1>2. \A i \in DOMAIN r : r[i] \in {p[j] : j \in DOMAIN p} \cup {q[j] : j \in DOMAIN q}
  <2> TAKE i \in DOMAIN r
  <2>1. CASE i \in 1..Len(p)
    BY <1>1, <2>1
  <2>2. CASE i \notin 1..Len(p)
    <3>1. i - Len(p) \in 1..Len(q) /\ Len(p) + (i - Len(p)) = i
      BY <1>1, <2>2
    <3> QED
      BY <1>1, <3>1
  <2> QED
    BY <2>1, <2>2
<1>3. \A j \in DOMAIN p : p[j] \in {r[i] : i \in DOMAIN r}
  BY <1>1
<1>4. \A j \in DOMAIN q : q[j] \in {r[i] : i \in DOMAIN r}
  <2> TAKE j \in DOMAIN q
  <2>1. Len(p) + j \in DOMAIN r /\ r[Len(p) + j] = q[j]
    BY <1>1
  <2> QED
    BY <2>1
<1> QED
  <2>1. Elements(r) = Elements(p) \cup Elements(q)
    BY <1>2, <1>3, <1>4 DEF Elements
  <2> QED
    BY <2>1 DEF r

\* create opens what its configuration needs.
LEMMA StepsComing ==
  ASSUME NEW c
  PROVE  Coming(Steps(c)) = Wanted(c)
<1> DEFINE f == <<"ctcss.rx", "dcs.rx", "dcs.rx configure", "squelch", "transmit policy">>
           z == <<"dcs.tx", "dcs.tx configure", "ctcss.tx">>
           m == IF EffectiveVadMode(c) = 0 THEN <<>> ELSE <<"converter">>
<1>1. f \in Seq(SetupStep) /\ z \in Seq(SetupStep)
  BY DEF SetupStep, Clients, Receiver, Transmitter
<1>2. m \in Seq(SetupStep)
  <2>1. <<>> \in Seq(SetupStep) /\ <<"converter">> \in Seq(SetupStep)
    BY DEF SetupStep, Clients, Receiver, Transmitter
  <2> QED
    BY <2>1
<1>3. Elements(f) \cap Clients = Receiver
  <2>1. f[1] = "ctcss.rx" /\ f[2] = "dcs.rx" /\ f[3] = "dcs.rx configure" /\ f[4] = "squelch"
        /\ f[5] = "transmit policy" /\ DOMAIN f = {1, 2, 3, 4, 5}
    OBVIOUS
  <2> HIDE DEF f
  <2>2. Elements(f) = {f[1], f[2], f[3], f[4], f[5]}
    BY <2>1 DEF Elements
  <2> QED
    BY <2>1, <2>2 DEF Clients, Receiver, Transmitter
<1>4. Elements(z) \cap Clients = Transmitter
  <2>1. z[1] = "dcs.tx" /\ z[2] = "dcs.tx configure" /\ z[3] = "ctcss.tx" /\ DOMAIN z = {1, 2, 3}
    OBVIOUS
  <2> HIDE DEF z
  <2>2. Elements(z) = {z[1], z[2], z[3]}
    BY <2>1 DEF Elements
  <2> QED
    BY <2>1, <2>2 DEF Clients, Receiver, Transmitter
<1>5. Elements(m) \cap Clients = Analysis(EffectiveVadMode(c))
  <2>1. CASE EffectiveVadMode(c) = 0
    <3>1. m = <<>> /\ DOMAIN m = {}
      BY <2>1
    <3> QED
      BY <2>1, <3>1 DEF Analysis, Elements
  <2>2. CASE EffectiveVadMode(c) # 0
    <3>1. DOMAIN m = {1} /\ m[1] = "converter"
      BY <2>2
    <3> HIDE DEF m
    <3>2. Elements(m) = {"converter"}
      BY <3>1 DEF Elements
    <3> QED
      BY <2>2, <3>2 DEF Analysis, Clients
  <2> QED
    BY <2>1, <2>2
<1>6. Steps(c) = (f \o m) \o z
  BY DEF Steps
<1> HIDE DEF f, m, z
<1> DEFINE g == f \o m
           q == g \o z
<1>7. g \in Seq(SetupStep)
  BY <1>1, <1>2
<1>8. Elements(g) = Elements(f) \cup Elements(m)
  BY <1>1, <1>2, ElementsOfConcat
<1> HIDE DEF g
<1>9. Elements(q) = Elements(g) \cup Elements(z)
  BY <1>1, <1>7, ElementsOfConcat
<1>10. Steps(c) = q
  BY <1>6 DEF g
<1> HIDE DEF q
<1>11. Coming(q) = Elements(q) \cap Clients
  BY DEF Coming
<1>12. Coming(q) = Wanted(c)
  BY <1>3, <1>4, <1>5, <1>8, <1>9, <1>11 DEF Wanted
<1> QED
  BY <1>10, <1>12

\* A step that answers, and a failed create or prepare, moves no handle.
LEMMA AnswerOwns ==
  ASSUME OwnerInv, UNCHANGED <<open, setup, live, updates>>
  PROVE  OwnerInv'
BY DEF OwnerInv, UpdatesOwn, LiveOwns, SetupOwns, Held

\* A setup begins with nothing in hand and everything to do.
LEMMA BeginOwns ==
  ASSUME OwnerInv, setup = Nothing, NEW o \in Offers, NEW for, Begin(o, for),
         for = "session" => live = Nothing
  PROVE  OwnerInv'
<1> DEFINE c == Profiled(o)
<1>1. CASE CreateVerdict(c) # "ok"
  BY <1>1, AnswerOwns DEF Begin, Answer
<1>2. CASE CreateVerdict(c) = "ok"
  <2>1. /\ setup'.held = {} /\ setup'.todo = Steps(c) /\ setup'.config = c /\ setup'.for = for
        /\ UNCHANGED <<open, live, updates>>
    BY <1>2 DEF Begin
  <2>2. Names({}) = {}
    BY DEF Names
  <2>3. SetupOwns'
    BY <2>1, <2>2, StepsComing DEF SetupOwns, Apart
  <2> QED
    BY <2>1, <2>3 DEF OwnerInv, UpdatesOwn, LiveOwns, Held
<1> QED
  BY <1>1, <1>2

\* A step of setup that opens nothing.
LEMMA AdvanceOwns ==
  ASSUME TypeInv, SetupInv, OwnerInv, NEW step, Doing(step), step \notin Clients,
         Advance(setup.held), UNCHANGED open
  PROVE  OwnerInv'
<1> DEFINE s == setup
<1>1. /\ s # Nothing /\ s.todo # <<>> /\ Head(s.todo) = step /\ s.todo \in Seq(SetupStep)
      /\ s = [for |-> s.for, config |-> s.config, profile |-> s.profile,
              todo |-> s.todo, held |-> s.held]
  BY DEF Doing, SetupInv
<1>2. /\ setup'.held = s.held /\ setup'.todo = Tail(s.todo) /\ setup'.config = s.config
      /\ setup'.for = s.for
  BY <1>1 DEF Advance
<1>3. Coming(s.todo) = Coming(Tail(s.todo))
  BY <1>1, ComingIs
<1>4. UNCHANGED <<open, live, updates>>
  BY DEF Advance
<1>5. SetupOwns'
  BY <1>1, <1>2, <1>3, <1>4 DEF OwnerInv, SetupOwns
<1>6. setup' # Nothing
  <2>1. s.held \in HandleSets
    BY <1>1 DEF TypeInv, SetupType
  <2> QED
    BY <1>1, <2>1, AdvanceType, Something
<1> QED
  BY <1>1, <1>2, <1>4, <1>5, <1>6 DEF OwnerInv, UpdatesOwn, LiveOwns, Held

\* A step of setup that opens a handle: a new one.
LEMMA HoldOwns ==
  ASSUME TypeInv, SetupInv, OwnerInv, NEW client \in Clients, Doing(client),
         NEW h \in Fresh(client), Hold(h), open' = open \cup {h}
  PROVE  OwnerInv'
<1> DEFINE s == setup
<1>1. /\ s # Nothing /\ s.todo # <<>> /\ Head(s.todo) = client /\ s.todo \in Seq(SetupStep)
      /\ s = [for |-> s.for, config |-> s.config, profile |-> s.profile,
              todo |-> s.todo, held |-> s.held]
  BY DEF Doing, SetupInv
<1>2. /\ setup'.held = s.held \cup {h} /\ setup'.todo = Tail(s.todo)
      /\ setup'.config = s.config /\ setup'.for = s.for
  BY <1>1 DEF Hold, Advance
<1>3. UNCHANGED <<live, updates>>
  BY DEF Hold, Advance
<1>4. h \notin open /\ h[1] = client
  BY FreshHandle
<1>5. ~Held(h)
  BY <1>4 DEF OwnerInv
<1>6. Names(setup'.held) \cup Coming(setup'.todo) = Wanted(setup'.config)
  <2>1. Coming(s.todo) = {client} \cup Coming(Tail(s.todo))
    BY <1>1, ComingIs
  <2>2. Names(s.held \cup {h}) = Names(s.held) \cup {client}
    BY <1>4, NamesWith
  <2>3. Names(s.held) \cup Coming(s.todo) = Wanted(s.config)
    BY <1>1 DEF OwnerInv, SetupOwns
  <2> QED
    BY <1>2, <2>1, <2>2, <2>3
<1>7. SetupOwns'
  BY <1>1, <1>2, <1>3, <1>5, <1>6 DEF OwnerInv, SetupOwns, Apart, Held
<1>8. setup' # Nothing
  BY HoldType, Something
<1>9. \A g : g \in open' <=> Held(g)'
  <2> SUFFICES ASSUME NEW g PROVE g \in open' <=> Held(g)'
    OBVIOUS
  <2>1. g \in open <=> Held(g)
    BY DEF OwnerInv
  <2> QED
    BY <1>1, <1>2, <1>3, <1>8, <2>1 DEF Held
<1> QED
  BY <1>3, <1>7, <1>9 DEF OwnerInv, UpdatesOwn, LiveOwns

\* What a call that ends early has opened goes with it, and nothing else.
LEMMA AbandonOwns ==
  ASSUME OwnerInv, setup # Nothing, NEW why, Abandon(why)
  PROVE  OwnerInv'
<1>1. open' = open \ setup.held /\ setup' = Nothing /\ UNCHANGED <<live, updates>>
  BY DEF Abandon, Dropped
<1>2. \A g : g \in open' <=> Held(g)'
  <2> SUFFICES ASSUME NEW g PROVE g \in open' <=> Held(g)'
    OBVIOUS
  <2>1. g \in open <=> Held(g)
    BY DEF OwnerInv
  <2> QED
    BY <1>1, <2>1 DEF Held, OwnerInv, SetupOwns, Apart
<1> QED
  BY <1>1, <1>2 DEF OwnerInv, UpdatesOwn, LiveOwns, SetupOwns

\* Everything setup does.
LEMMA SetupOwnsKept ==
  ASSUME TypeInv, SetupInv, OwnerInv,
         \/ \E o \in Offers : Create(o) \/ Prepare(o)
         \/ OpenCtcssReceive \/ OpenDcsReceive \/ ConfigureDcsReceive \/ OpenSquelch
         \/ CheckTransmitPolicy \/ OpenConverter
         \/ OpenDcsTransmit \/ ConfigureDcsTransmit \/ OpenCtcssTransmit
  PROVE  OwnerInv'
<1>1. CASE \E o \in Offers : Create(o) \/ Prepare(o)
  <2>1. PICK o \in Offers : Create(o) \/ Prepare(o)
    BY <1>1
  <2>2. CASE \E why \in {"invalid", "unsupported", ProfileVerdict(o)} : Answer(why)
    BY <2>2, AnswerOwns DEF Answer
  <2>3. CASE setup = Nothing /\ (Begin(o, "update") \/ (Begin(o, "session") /\ live = Nothing))
    BY <2>3, BeginOwns
  <2> QED
    BY <2>1, <2>2, <2>3 DEF Create, Prepare
<1>2. CASE \/ OpenCtcssReceive \/ OpenDcsReceive \/ OpenSquelch \/ OpenConverter
           \/ OpenDcsTransmit \/ OpenCtcssTransmit
  <2>1. \/ \E why \in {"unsupported", "provider failed"} : setup # Nothing /\ Abandon(why)
        \/ \E client \in {"ctcss.rx", "dcs.rx", "squelch", "converter", "dcs.tx", "ctcss.tx"} :
             Doing(client) /\ \E h \in Fresh(client) : open' = open \cup {h} /\ Hold(h)
    BY <1>2 DEF OpenCtcssReceive, OpenDcsReceive, OpenSquelch, OpenConverter, OpenDcsTransmit,
           OpenCtcssTransmit, CtcssReceive, DcsReceive, Squelch, Converter, DcsTransmit,
           CtcssTransmit, New, Doing
  <2>2. Clients = {"ctcss.rx", "dcs.rx", "squelch", "converter", "dcs.tx", "ctcss.tx"}
    BY DEF Clients, Receiver, Transmitter
  <2> QED
    BY <2>1, <2>2, AbandonOwns, HoldOwns
<1>3. CASE ConfigureDcsReceive \/ ConfigureDcsTransmit \/ CheckTransmitPolicy
  <2>1. \/ \E why \in {"invalid", "provider failed"} : setup # Nothing /\ Abandon(why)
        \/ \E step \in {"dcs.rx configure", "dcs.tx configure", "transmit policy"} :
             Doing(step) /\ Advance(setup.held) /\ UNCHANGED open
    BY <1>3 DEF ConfigureDcsReceive, ConfigureDcsTransmit, CheckTransmitPolicy, Doing
  <2>2. \A step \in {"dcs.rx configure", "dcs.tx configure", "transmit policy"} :
          step \notin Clients
    BY DEF Clients, Receiver, Transmitter
  <2> QED
    BY <2>1, <2>2, AbandonOwns, AdvanceOwns
<1> QED
  BY <1>1, <1>2, <1>3

\* A session as create leaves it holds what setup held, each handle in its part.
LEMMA BuiltOwns ==
  ASSUME setup # Nothing, setup.todo = <<>>, SetupOwns
  PROVE  HandlesOf(Built(setup)) = setup.held /\ Parts(Built(setup))
<1> DEFINE b == Built(setup)  held == setup.held  c == setup.config
           d == {h \in held : h[1] \in Receiver}  e == {h \in held : h[1] \in Transmitter}
           v == {h \in held : h[1] = "converter"}
<1>1. Names(held) = Wanted(c)
  <2>1. Coming(<<>>) = {}
    BY DEF Coming, Elements
  <2> QED
    BY <2>1 DEF SetupOwns
<1>2. b.speech.mode = EffectiveVadMode(c) /\ b.speech.handles = v /\ b.encoder.handles = e
  BY DEF Built
<1>3. b.detector.handles = d
  <2> HIDE DEF d
  <2>1. b.detector = [DetectorOf(c) EXCEPT !.handles = d]
    BY DEF Built, d
  <2>2. b.detector = DetectorWith(c, d)
    BY <2>1, DetectorBare, DetectorHandles
  <2> QED
    BY <2>2 DEF DetectorWith
<1>4. \A h \in held : h[1] \in Receiver \cup Transmitter \cup {"converter"}
  BY <1>1 DEF Names, Wanted, Analysis
<1> HIDE DEF b
<1>5. HandlesOf(b) = held
  BY <1>2, <1>3, <1>4 DEF HandlesOf
<1>6. Names(d) = Receiver
  <2>1. Names(d) = Names(held) \cap Receiver
    BY DEF Names
  <2> QED
    BY <1>1, <2>1 DEF Wanted, Analysis, Receiver, Transmitter
<1>7. Names(e) = Transmitter
  <2>1. Names(e) = Names(held) \cap Transmitter
    BY DEF Names
  <2> QED
    BY <1>1, <2>1 DEF Wanted, Analysis, Receiver, Transmitter
<1>8. Names(v) = Analysis(EffectiveVadMode(c))
  <2>1. Names(v) = Names(held) \cap {"converter"}
    BY DEF Names
  <2> QED
    BY <1>1, <2>1 DEF Wanted, Analysis, Receiver, Transmitter
<1>9. Parts(b)
  BY <1>2, <1>3, <1>6, <1>7, <1>8 DEF Parts
<1> QED
  BY <1>5, <1>9 DEF b

\* Publishing hands what setup held to the session or the candidate.
LEMMA PublishOwns ==
  ASSUME TypeInv, SetupInv, OwnerInv, PublishSession \/ PublishUpdate
  PROVE  OwnerInv'
<1> DEFINE b == Built(setup)
<1>1. HandlesOf(b) = setup.held /\ Parts(b) /\ setup # Nothing /\ setup' = Nothing /\ open' = open
  BY BuiltOwns DEF OwnerInv, PublishSession, PublishUpdate
<1> HIDE DEF b
<1>2. CASE PublishSession
  <2>1. live' = b /\ UNCHANGED updates /\ live = Nothing
    BY <1>2 DEF PublishSession, OwnerInv, SetupOwns, b
  <2>2. \A g : g \in open' <=> Held(g)'
    <3> SUFFICES ASSUME NEW g PROVE g \in open' <=> Held(g)'
      OBVIOUS
    <3>1. g \in open <=> Held(g)
      BY DEF OwnerInv
    <3>2. b # Nothing
      BY <1>1, BuiltType, Something DEF TypeInv, b
    <3> QED
      BY <1>1, <2>1, <3>1, <3>2 DEF Held
  <2> QED
    BY <1>1, <2>1, <2>2 DEF OwnerInv, UpdatesOwn, LiveOwns, SetupOwns, Apart
<1>3. CASE PublishUpdate
  <2> DEFINE w == [candidate |-> b, receive |-> FALSE, transmit |-> FALSE]
  <2>1. updates' = updates \cup {w} /\ UNCHANGED live
    BY <1>3 DEF PublishUpdate, b
  <2>2. w.candidate = b
    OBVIOUS
  <2> HIDE DEF w
  <2>3. \A g : g \in open' <=> Held(g)'
    <3> SUFFICES ASSUME NEW g PROVE g \in open' <=> Held(g)'
      OBVIOUS
    <3>1. g \in open <=> Held(g)
      BY DEF OwnerInv
    <3> QED
      BY <1>1, <2>1, <2>2, <3>1 DEF Held
  <2>4. UpdatesOwn'
    BY <1>1, <2>1, <2>2 DEF OwnerInv, UpdatesOwn, SetupOwns, Apart
  <2>5. LiveOwns'
    BY <1>1, <2>1, <2>2 DEF OwnerInv, LiveOwns, SetupOwns, Apart
  <2> QED
    BY <1>1, <2>3, <2>4, <2>5 DEF OwnerInv, SetupOwns
<1> QED
  BY <1>2, <1>3

\* Whatever the session and a candidate exchange, they own together what they owned.
LEMMA ExchangeOwns ==
  ASSUME OwnerInv, setup = Nothing, live # Nothing, live' # Nothing, NEW u \in updates, NEW w,
         updates' = Replace(u, w), UNCHANGED <<open, setup>>,
         Parts(live'), Parts(w.candidate), Apart(HandlesOf(live'), HandlesOf(w.candidate)),
         \A h : (h \in HandlesOf(live') \/ h \in HandlesOf(w.candidate))
                  <=> (h \in HandlesOf(live) \/ h \in HandlesOf(u.candidate))
  PROVE  OwnerInv'
<1>1. \A x \in updates' : x = w \/ (x \in updates /\ x # u)
  BY DEF Replace
<1>2. \A x \in updates : x # u => /\ Apart(HandlesOf(x.candidate), HandlesOf(u.candidate))
                                  /\ Apart(HandlesOf(x.candidate), HandlesOf(live))
  BY DEF OwnerInv, UpdatesOwn, LiveOwns, Apart
<1>3. \A x \in updates : x # u => /\ Apart(HandlesOf(x.candidate), HandlesOf(w.candidate))
                                  /\ Apart(HandlesOf(w.candidate), HandlesOf(x.candidate))
                                  /\ Apart(HandlesOf(live'), HandlesOf(x.candidate))
  BY <1>2 DEF Apart
<1>4. UpdatesOwn'
  BY <1>1, <1>3 DEF OwnerInv, UpdatesOwn
<1>5. LiveOwns'
  BY <1>1, <1>3 DEF LiveOwns
<1>6. SetupOwns'
  BY DEF SetupOwns
<1>7. \A g : g \in open' <=> Held(g)'
  <2> SUFFICES ASSUME NEW g PROVE g \in open' <=> Held(g)'
    OBVIOUS
  <2>1. g \in open <=> (\E x \in updates : g \in HandlesOf(x.candidate)) \/ g \in HandlesOf(live)
    BY DEF OwnerInv, Held
  <2>2. Held(g)' <=> (\E x \in updates' : g \in HandlesOf(x.candidate)) \/ g \in HandlesOf(live')
    BY DEF Held
  <2>3. (\E x \in updates' : g \in HandlesOf(x.candidate))
          <=> \/ g \in HandlesOf(w.candidate)
              \/ \E x \in updates : x # u /\ g \in HandlesOf(x.candidate)
    BY DEF Replace
  <2>4. (\E x \in updates : g \in HandlesOf(x.candidate))
          <=> \/ g \in HandlesOf(u.candidate)
              \/ \E x \in updates : x # u /\ g \in HandlesOf(x.candidate)
    OBVIOUS
  <2> QED
    BY <2>1, <2>2, <2>3, <2>4
<1> QED
  BY <1>4, <1>5, <1>6, <1>7 DEF OwnerInv

\* The receive half swaps whole parts, or leaves them where they are.
LEMMA ReceiveSwaps ==
  ASSUME NEW s \in SessionType, NEW c \in SessionType, Parts(s), Parts(c),
         Apart(HandlesOf(s), HandlesOf(c))
  PROVE  LET i == InstallReceive(s, c)  x == Displaced(s, c) IN
         /\ Parts(i) /\ Parts(x) /\ Apart(HandlesOf(i), HandlesOf(x))
         /\ \A h : (h \in HandlesOf(i) \/ h \in HandlesOf(x))
                     <=> (h \in HandlesOf(s) \/ h \in HandlesOf(c))
<1> DEFINE i == InstallReceive(s, c)  x == Displaced(s, c)
<1>1. /\ i.detector = DetectorApplied(s, c)[1] /\ x.detector = DetectorApplied(s, c)[2]
      /\ i.speech = SpeechApplied(s, c)[1] /\ x.speech = SpeechApplied(s, c)[2]
      /\ i.encoder = s.encoder /\ x.encoder = c.encoder
  BY DEF InstallReceive, Displaced, SessionType
<1> HIDE DEF i, x
<1>2. \/ i.detector.handles = s.detector.handles /\ x.detector.handles = c.detector.handles
      \/ i.detector.handles = c.detector.handles /\ x.detector.handles = s.detector.handles
  <2>1. s.detector \in DetectorType
    BY DEF SessionType
  <2>2. [s.detector EXCEPT !.controls = c.detector.controls].handles = s.detector.handles
    BY <2>1 DEF DetectorType
  <2> QED
    BY <1>1, <2>2 DEF DetectorApplied
<1>3. (i.speech = s.speech /\ x.speech = c.speech) \/ (i.speech = c.speech /\ x.speech = s.speech)
  BY <1>1 DEF SpeechApplied
<1>4. Parts(i) /\ Parts(x)
  BY <1>1, <1>2, <1>3 DEF Parts
<1>5. \A h : (h \in HandlesOf(i) \/ h \in HandlesOf(x))
               <=> (h \in HandlesOf(s) \/ h \in HandlesOf(c))
  BY <1>1, <1>2, <1>3 DEF HandlesOf
<1>6. Apart(HandlesOf(i), HandlesOf(x))
  <2> SUFFICES ASSUME NEW h, h \in HandlesOf(i), h \in HandlesOf(x) PROVE FALSE
    BY DEF Apart
  <2>1. ~(h \in HandlesOf(s) /\ h \in HandlesOf(c))
    BY DEF Apart
  <2>2. ASSUME NEW y, Parts(y)
        PROVE  /\ h \in y.detector.handles => h[1] \in Receiver
               /\ h \in y.speech.handles => h[1] \in {"converter"}
               /\ h \in y.encoder.handles => h[1] \in Transmitter
    BY <2>2 DEF Parts, Names, Analysis
  <2>3. /\ \A n \in Receiver : n \notin Transmitter /\ n \notin {"converter"}
        /\ \A n \in Transmitter : n \notin {"converter"}
    BY DEF Receiver, Transmitter
  <2>4. \/ h \in i.detector.handles /\ h \in x.detector.handles
        \/ h \in i.speech.handles /\ h \in x.speech.handles
        \/ h \in i.encoder.handles /\ h \in x.encoder.handles
    BY <1>4, <2>2, <2>3 DEF HandlesOf
  <2> QED
    BY <1>1, <1>2, <1>3, <2>1, <2>4 DEF HandlesOf
<1> QED
  BY <1>4, <1>5, <1>6 DEF i, x

\* The receive half of an update.
LEMMA ApplyReceiveOwns ==
  ASSUME Inv, TypeInv, OwnerInv, NEW u \in updates, ApplyReceive(u)
  PROVE  OwnerInv'
<1> DEFINE c == u.candidate
           w == [u EXCEPT !.receive = TRUE, !.candidate = Displaced(live, c)]
<1>1. CASE UNCHANGED <<open, setup, live, updates>>
  BY <1>1, AnswerOwns
<1>2. CASE /\ live' = InstallReceive(live, c) /\ updates' = Replace(u, w)
           /\ UNCHANGED <<open, setup>>
  <2>1. setup = Nothing /\ live # Nothing
    BY DEF ApplyReceive
  <2>2. /\ live \in SessionType /\ c \in SessionType /\ Parts(live) /\ Parts(c)
        /\ Apart(HandlesOf(live), HandlesOf(c))
    BY <2>1 DEF TypeInv, OwnerInv, LiveOwns, UpdatesOwn
  <2>3. live' # Nothing
    BY <1>2, <2>2, SwapType, Something
  <2>4. w.candidate = Displaced(live, c)
    BY DEF Inv, UpdatesInv
  <2>5. /\ Parts(live') /\ Parts(w.candidate) /\ Apart(HandlesOf(live'), HandlesOf(w.candidate))
        /\ \A h : (h \in HandlesOf(live') \/ h \in HandlesOf(w.candidate))
                    <=> (h \in HandlesOf(live) \/ h \in HandlesOf(c))
    BY <1>2, <2>2, <2>4, ReceiveSwaps
  <2> HIDE DEF w
  <2> QED
    BY <1>2, <2>1, <2>3, <2>5, ExchangeOwns
<1> QED
  BY <1>1, <1>2 DEF ApplyReceive, Answer

\* The transmit half moves no handle.
LEMMA ApplyTransmitOwns ==
  ASSUME Inv, TypeInv, OwnerInv, NEW u \in updates, ApplyTransmit(u)
  PROVE  OwnerInv'
<1> DEFINE c == u.candidate  w == [u EXCEPT !.transmit = TRUE]
<1>1. CASE UNCHANGED <<open, setup, live, updates>>
  BY <1>1, AnswerOwns
<1>2. CASE /\ live' = InstallTransmit(live, c) /\ updates' = Replace(u, w)
           /\ UNCHANGED <<open, setup>>
  <2>1. setup = Nothing /\ live # Nothing
    BY DEF ApplyTransmit
  <2>2. /\ live \in SessionType /\ c \in SessionType /\ Parts(live) /\ Parts(c)
        /\ Apart(HandlesOf(live), HandlesOf(c))
    BY <2>1 DEF TypeInv, OwnerInv, LiveOwns, UpdatesOwn
  <2>3. live' # Nothing
    BY <1>2, <2>2, SwapType, Something
  <2>4. w.candidate = c
    BY DEF Inv, UpdatesInv
  <2>5. /\ live'.detector = live.detector /\ live'.speech = live.speech
        /\ live'.encoder.handles = live.encoder.handles
    <3>1. live.encoder \in EncoderType
      BY <2>2 DEF SessionType
    <3> QED
      BY <1>2, <2>2, <3>1 DEF InstallTransmit, SessionType, EncoderType
  <2>6. Parts(live') /\ HandlesOf(live') = HandlesOf(live)
    BY <2>2, <2>5 DEF Parts, HandlesOf
  <2> HIDE DEF w
  <2> QED
    BY <1>2, <2>1, <2>2, <2>3, <2>4, <2>6, ExchangeOwns
<1> QED
  BY <1>1, <1>2 DEF ApplyTransmit, Answer

\* The delay holds frames, no handles.
LEMMA CaptureOwns ==
  ASSUME TypeInv, TypeInv', OwnerInv, Capture
  PROVE  OwnerInv'
<1>1. live \in SessionType /\ live' = [live EXCEPT !.cursor = (live.cursor + 1) % live.delay]
      /\ UNCHANGED <<open, setup, updates>>
  BY DEF Capture, TypeInv
<1>2. /\ live'.detector = live.detector /\ live'.speech = live.speech
      /\ live'.encoder = live.encoder
  BY <1>1 DEF SessionType
<1>3. (Parts(live') <=> Parts(live)) /\ HandlesOf(live') = HandlesOf(live)
  BY <1>2 DEF Parts, HandlesOf
<1>4. live # Nothing /\ live' # Nothing
  <2>1. live'.cursor = (live.cursor + 1) % live.delay /\ live.cursor \in Nat /\ live.delay \in Nat
        /\ live.delay > 0
    BY <1>1 DEF SessionType, Capture
  <2> DEFINE k == (live.cursor + 1) % live.delay
  <2>2. k \in Nat
    BY <2>1
  <2> HIDE DEF k
  <2>3. live' = [live EXCEPT !.cursor = k]
    BY <1>1 DEF k
  <2>4. live' \in SessionType
    BY <1>1, <2>2, <2>3 DEF SessionType
  <2> QED
    BY <1>1, <2>4, Something
<1> QED
  BY <1>1, <1>3, <1>4 DEF OwnerInv, UpdatesOwn, LiveOwns, SetupOwns, Held

\* Destroying a session or an update destroys its handles and no others.
LEMMA DestroyOwns ==
  ASSUME OwnerInv, Destroy \/ \E u \in updates : DestroyUpdate(u)
  PROVE  OwnerInv'
<1>1. CASE Destroy
  <2>1. setup = Nothing /\ live # Nothing /\ live' = Nothing /\ open' = open \ HandlesOf(live)
        /\ UNCHANGED <<setup, updates>>
    BY <1>1 DEF Destroy, Dropped
  <2>2. \A g : g \in open' <=> Held(g)'
    <3> SUFFICES ASSUME NEW g PROVE g \in open' <=> Held(g)'
      OBVIOUS
    <3>1. g \in open <=> Held(g)
      BY DEF OwnerInv
    <3>2. g \in HandlesOf(live) => ~\E u \in updates : g \in HandlesOf(u.candidate)
      BY <2>1 DEF OwnerInv, LiveOwns, Apart
    <3> QED
      BY <2>1, <3>1, <3>2 DEF Held
  <2> QED
    BY <2>1, <2>2 DEF OwnerInv, UpdatesOwn, LiveOwns, SetupOwns
<1>2. CASE \E u \in updates : DestroyUpdate(u)
  <2>1. PICK u \in updates : DestroyUpdate(u)
    BY <1>2
  <2>2. setup = Nothing /\ updates' = updates \ {u} /\ open' = open \ HandlesOf(u.candidate)
        /\ UNCHANGED <<setup, live>>
    BY <2>1 DEF DestroyUpdate, Dropped
  <2>3. \A g : g \in open' <=> Held(g)'
    <3> SUFFICES ASSUME NEW g PROVE g \in open' <=> Held(g)'
      OBVIOUS
    <3>1. g \in open <=> Held(g)
      BY DEF OwnerInv
    <3>2. g \in HandlesOf(u.candidate) =>
            /\ \A v \in updates : v # u => g \notin HandlesOf(v.candidate)
            /\ live # Nothing => g \notin HandlesOf(live)
      BY DEF OwnerInv, UpdatesOwn, LiveOwns, Apart
    <3> QED
      BY <2>2, <3>1, <3>2 DEF Held
  <2> QED
    BY <2>2, <2>3 DEF OwnerInv, UpdatesOwn, LiveOwns, SetupOwns
<1> QED
  BY <1>1, <1>2

\* The owners of all handles, together, and one by one.
LEMMA OwnersAreOne == OwnerInv => OneOwner
<1> SUFFICES ASSUME OwnerInv PROVE OneOwner
  OBVIOUS
<1>1. \A a \in Holdings :
        \/ \E u \in updates : a = HandlesOf(u.candidate)
        \/ live # Nothing /\ a = HandlesOf(live)
        \/ setup # Nothing /\ a = setup.held
  BY DEF Holdings, Sessions, Candidates
<1>2. /\ \A u \in updates : HandlesOf(u.candidate) \in Holdings
      /\ live # Nothing => HandlesOf(live) \in Holdings
      /\ setup # Nothing => setup.held \in Holdings
  BY DEF Holdings, Sessions, Candidates
<1>3. open = UNION Holdings
  <2>1. \A h : h \in UNION Holdings <=> Held(h)
    BY <1>1, <1>2 DEF Held
  <2>2. \A h : h \in open <=> h \in UNION Holdings
    BY <2>1 DEF OwnerInv
  <2> QED
    BY <2>2
<1>4. ASSUME NEW a \in Holdings, NEW b \in Holdings, a # b PROVE a \cap b = {}
  <2>1. Apart(a, b)
    BY <1>1, <1>4 DEF OwnerInv, UpdatesOwn, LiveOwns, SetupOwns, Apart
  <2> QED
    BY <2>1 DEF Apart
<1>5. ASSUME NEW s \in Sessions
      PROVE  {h[1] : h \in HandlesOf(s)} =
               Receiver \cup Transmitter \cup (IF s.speech.mode = 0 THEN {} ELSE {"converter"})
  <2>1. Parts(s)
    BY DEF Sessions, Candidates, OwnerInv, UpdatesOwn, LiveOwns
  <2> DEFINE d == s.detector.handles  v == s.speech.handles  e == s.encoder.handles
  <2>2. Names((d \cup v) \cup e) = (Names(d) \cup Names(v)) \cup Names(e)
    <3> HIDE DEF d, v, e
    <3> QED
      BY DEF Names
  <2>3. HandlesOf(s) = (d \cup v) \cup e
    BY DEF HandlesOf
  <2>4. Names(HandlesOf(s)) = Receiver \cup Transmitter \cup Analysis(s.speech.mode)
    BY <2>1, <2>2, <2>3 DEF Parts
  <2> QED
    BY <2>4 DEF Names, Analysis
<1> QED
  BY <1>3, <1>4, <1>5 DEF OneOwner

\* Whatever fails in the middle of whatever call and whatever is swapped, in any
\* order: every handle that was created and not destroyed is in one session, in
\* one candidate or in the hands of the call that runs, and each has the
\* clients its receiver and its transmitter need.
THEOREM HandlesHaveOneOwner == Spec => []OneOwner
<1>1. Init => TypeInv /\ OwnerInv
  BY DEF Init, TypeInv, OwnerInv, UpdatesOwn, LiveOwns, SetupOwns, Held
<1>2. Inv /\ TypeInv /\ OwnerInv /\ [Next]_vars => TypeInv' /\ OwnerInv'
  <2> SUFFICES ASSUME Inv, TypeInv, OwnerInv, [Next]_vars PROVE TypeInv' /\ OwnerInv'
    OBVIOUS
  <2>1. CASE UNCHANGED vars
    BY <2>1, AnswerOwns DEF vars, TypeInv
  <2>2. CASE Next
    <3>1. TypeInv'
      BY <2>2, SetupTypeKept, SessionTypeKept DEF Next, Inv
    <3>2. OwnerInv'
      BY <2>2, <3>1, SetupOwnsKept, PublishOwns, ApplyReceiveOwns, ApplyTransmitOwns, CaptureOwns,
         DestroyOwns DEF Next, Inv
    <3> QED
      BY <3>1, <3>2
  <2> QED
    BY <2>1, <2>2
<1>3. OwnerInv => OneOwner
  BY OwnersAreOne
<1> QED
  BY <1>1, <1>2, <1>3, InvHolds, PTL DEF Spec
=============================================================================
