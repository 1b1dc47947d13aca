--------------------------- MODULE SessionUpdates ---------------------------
(***************************************************************************)
(* The life of one session: created from a configuration, with or without  *)
(* a profile, updated by halves from prepared candidates, destroyed.       *)
(*                                                                         *)
(* Setup opens its providers one by one and any of them may fail; what was *)
(* opened before is dropped.  An update swaps whole parts between the live *)
(* session and its candidate, and so the handles they hold.  Session.tla   *)
(* has the races of two calls; here every call runs alone and the          *)
(* question is what a sequence of them leaves in the live session.         *)
(***************************************************************************)
EXTENDS SessionConfig, Providers, Sequences, FiniteSets

CONSTANTS
  Offers,       \* what the control plane asks for: [config, profile, ring]
  Descriptors,  \* what the linked libraries may offer: library -> descriptor
  MaxUpdates    \* updates prepared and not yet destroyed, at most

ASSUME UpdatesAssumption ==
  /\ Tokens \subseteq Nat /\ MaxUpdates \in Nat /\ Preroll \in Nat
  /\ \A o \in Offers : SessionRecord(o.config) /\ o.ring \in BOOLEAN
                      /\ o.profile \in RadioProfile \cup {Nothing}

VARIABLES
  setup,     \* the session being created
  live,      \* the session, once published
  updates,   \* the prepared updates
  status     \* what the last step of a call answered

vars == <<library, open, setup, live, updates, status>>

\* The clients a receiver and a transmitter own.
Receiver == {"ctcss.rx", "dcs.rx", "squelch"}
Transmitter == {"dcs.tx", "ctcss.tx"}

\* What create does once it has looked at the configuration, in its order.
Steps(c) ==
  <<"ctcss.rx", "dcs.rx", "dcs.rx configure", "squelch", "transmit policy">>
    \o (IF EffectiveVadMode(c) = 0 THEN <<>> ELSE <<"converter">>)
    \o <<"dcs.tx", "dcs.tx configure", "ctcss.tx">>

HandlesOf(s) == s.detector.handles \cup s.speech.handles \cup s.encoder.handles
Candidates == {u.candidate : u \in updates}
Sessions == Candidates \cup (IF live = Nothing THEN {} ELSE {live})

Init ==
  /\ library \in Descriptors
  /\ open = {} /\ setup = Nothing /\ live = Nothing /\ updates = {}
  /\ status = "none"

Answer(why) == status' = why /\ UNCHANGED <<library, open, setup, live, updates>>

\* What a profile makes of an offer before create sees it.
Profiled(o) == IF o.profile = Nothing THEN o.config ELSE Configure(o.profile, o.config)
ProfileVerdict(o) ==
  IF o.profile = Nothing THEN "ok" ELSE ValidatedProfile(o.profile, o.config)
CreateVerdict(c) ==
  IF EntryRefuses(c) THEN "invalid"
  ELSE IF RateUnsupported(c) THEN "unsupported"
  ELSE IF ReceiveRefuses(c) THEN "invalid"
  ELSE IF c.rxDcs = 1 /\ ~DcsUsable THEN "unsupported"
  ELSE IF CodeRefuses(c) \/ QualificationRefuses(c) THEN "invalid" ELSE "ok"

Begin(o, for) ==
  IF CreateVerdict(Profiled(o)) # "ok" THEN Answer(CreateVerdict(Profiled(o)))
  ELSE /\ setup' = [for |-> for, config |-> Profiled(o), profile |-> o.profile,
                    todo |-> Steps(Profiled(o)), held |-> {}]
       /\ status' = "running"
       /\ UNCHANGED <<library, open, live, updates>>

\* create and create_profiled.
Create(o) ==
  /\ setup = Nothing /\ live = Nothing
  /\ IF ProfileVerdict(o) # "ok" THEN Answer(ProfileVerdict(o)) ELSE Begin(o, "session")

\* prepare_update, and prepare_profiled_update for a session of that profile.  The
\* program ring stays with the session: an update brings none.
Prepare(o) ==
  /\ setup = Nothing /\ live # Nothing /\ Cardinality(updates) < MaxUpdates
  /\ IF ProfileVerdict(o) # "ok" THEN Answer(ProfileVerdict(o))
     ELSE IF o.profile # Nothing /\ live.profile # o.profile THEN Answer("unsupported")
     ELSE IF o.ring THEN Answer("invalid")
     ELSE Begin(o, "update")

Advance(held) ==
  /\ setup' = [setup EXCEPT !.todo = Tail(@), !.held = held] /\ status' = "running"
  /\ UNCHANGED <<library, live, updates>>

\* Mutant: an early return that forgets the handles already opened.
AbandonLeaking(why) ==
  /\ setup' = Nothing /\ status' = why /\ UNCHANGED <<library, open, live, updates>>
\* An early return: everything the call has opened so far is dropped.
Abandon(why) ==
  /\ Dropped(setup.held)
  /\ setup' = Nothing /\ status' = why /\ UNCHANGED <<library, live, updates>>

\* The client of this step, which goes through Abandon or hands its handle on.
Doing(step) == setup # Nothing /\ setup.todo # <<>> /\ Head(setup.todo) = step
Hold(h) == Advance(setup.held \cup {h})
OpenCtcssReceive == Doing("ctcss.rx") /\ CtcssReceive(Abandon, Hold)
OpenDcsReceive == Doing("dcs.rx") /\ DcsReceive(Abandon, Hold)
OpenSquelch == Doing("squelch") /\ Squelch(Abandon, Hold)
OpenConverter == Doing("converter") /\ Converter(Abandon, Hold)
OpenDcsTransmit == Doing("dcs.tx") /\ DcsTransmit(Abandon, Hold)
OpenCtcssTransmit == Doing("ctcss.tx") /\ CtcssTransmit(Abandon, Hold)

\* configure on a DCS handle; a receiver that decodes none is not configured.
ConfigureDcsReceive ==
  /\ Doing("dcs.rx configure")
  /\ \/ Advance(setup.held) /\ UNCHANGED open
     \/ setup.config.rxDcs = 1 /\ Abandon("provider failed")
ConfigureDcsTransmit ==
  /\ Doing("dcs.tx configure")
  /\ \/ Advance(setup.held) /\ UNCHANGED open
     \/ Abandon("provider failed")

\* The DCS library has answered for the receiver by now.
CheckTransmitPolicy ==
  /\ Doing("transmit policy")
  /\ IF TransmitRefuses(setup.config) \/ SignalingRefuses(setup.config)
     THEN Abandon("invalid")
     ELSE Advance(setup.held) /\ UNCHANGED open

\* The parts of a session as create leaves them, and initialize_profile.
Built(s) ==
  LET c == s.config IN
  [profile  |-> s.profile, frames |-> c.frames, rx |-> c, tx |-> c,
   detector |-> [DetectorOf(c) EXCEPT !.handles = {h \in s.held : h[1] \in Receiver}],
   speech   |-> [mode |-> EffectiveVadMode(c), hang |-> c.hang,
                 handles |-> {h \in s.held : h[1] = "converter"}],
   mode     |-> EffectiveVadMode(c),
   delay    |-> DelayFrames(c), cursor |-> 0,
   encoder  |-> [external |-> s.profile # Nothing /\ s.profile.encode = External,
                 code |-> c.txCode, handles |-> {h \in s.held : h[1] \in Transmitter}]]

PublishSession ==
  /\ setup # Nothing /\ setup.todo = <<>> /\ setup.for = "session"
  /\ live' = Built(setup)
  /\ setup' = Nothing /\ status' = "ok" /\ UNCHANGED <<library, open, updates>>
PublishUpdate ==
  /\ setup # Nothing /\ setup.todo = <<>> /\ setup.for = "update"
  /\ updates' = updates \cup
       {[candidate |-> Built(setup), receive |-> FALSE, transmit |-> FALSE]}
  /\ setup' = Nothing /\ status' = "ok" /\ UNCHANGED <<library, open, live>>

Replace(u, with) == (updates \ {u}) \cup {with}

\* Mutant: a candidate prepared for another profile, or for none, is taken.
CompatibleGeometry(u) == live.frames = u.candidate.frames
\* What the two apply calls check first: the stream geometry the workspaces of
\* both sides were sized for, and the profile.
Compatible(u) == live.frames = u.candidate.frames /\ live.profile = u.candidate.profile

\* Mutant: the polarity or code of the squelch decoder is not compared.
SameDetectorBlindToCode(old, new) ==
  \A f \in {"noise", "rxCtcss", "mask", "relax", "rxDcs", "carrier"} : old[f] = new[f]
SameDetector(old, new) ==
  \A f \in {"noise", "rxCtcss", "mask", "relax", "rxDcs", "rxCode", "carrier"} : old[f] = new[f]

\* The detector after an update, and what the candidate is left with.
DetectorApplied(s, c) ==
  IF SameDetector(s.rx, c.rx)
    THEN <<[s.detector EXCEPT !.controls = c.detector.controls], c.detector>>
    ELSE <<c.detector, s.detector>>
SpeechApplied(s, c) ==
  IF s.speech.mode = c.speech.mode /\ s.speech.hang = c.speech.hang
    THEN <<s.speech, c.speech>> ELSE <<c.speech, s.speech>>
DelayIsSwapped(s, c) == s.delay # c.delay \/ (s.rx.vad = 0) # (c.rx.vad = 0)

\* Mutant: the write position survives the swap of its storage.
CursorKept(s, c) == s.cursor
CursorApplied(s, c) ==
  IF DelayIsSwapped(s, c) \/ SpeechApplied(s, c)[1] # s.speech THEN 0 ELSE s.cursor

\* The receiver after the update, and the candidate with what it displaced.
InstallReceive(s, c) ==
  [s EXCEPT !.detector = DetectorApplied(s, c)[1], !.speech = SpeechApplied(s, c)[1],
            !.mode = c.mode, !.rx = c.rx,
            !.delay = IF DelayIsSwapped(s, c) THEN c.delay ELSE @,
            !.cursor = CursorApplied(s, c)]
Displaced(s, c) ==
  [c EXCEPT !.detector = DetectorApplied(s, c)[2], !.speech = SpeechApplied(s, c)[2],
            !.delay = IF DelayIsSwapped(s, c) THEN s.delay ELSE @]

ApplyReceive(u) ==
  /\ setup = Nothing /\ live # Nothing
  /\ IF ~Compatible(u) THEN Answer("unsupported")
     ELSE IF u.receive THEN Answer("invalid")
     ELSE /\ live' = InstallReceive(live, u.candidate)
          /\ updates' = Replace(u, [u EXCEPT !.receive = TRUE,
                                             !.candidate = Displaced(live, @)])
          /\ status' = "ok" /\ UNCHANGED <<library, open, setup>>

InstallTransmit(s, c) ==
  [s EXCEPT !.tx = c.tx, !.encoder.external = c.encoder.external,
            !.encoder.code = c.encoder.code]

\* Mutant: the policy is in place before the DCS handle has agreed.
ApplyTransmitEarly(u) ==
  /\ setup = Nothing /\ live # Nothing /\ Compatible(u) /\ ~u.transmit
  /\ live' = InstallTransmit(live, u.candidate)
  /\ \/ status' = "provider failed" /\ UNCHANGED updates
     \/ status' = "ok" /\ updates' = Replace(u, [u EXCEPT !.transmit = TRUE])
  /\ UNCHANGED <<library, open, setup>>
\* The transmit half asks the live DCS handle first, and that may fail.
ApplyTransmit(u) ==
  /\ setup = Nothing /\ live # Nothing
  /\ IF ~Compatible(u) THEN Answer("unsupported")
     ELSE IF u.transmit THEN Answer("invalid")
     ELSE \/ Answer("provider failed")
          \/ /\ live' = InstallTransmit(live, u.candidate)
             /\ updates' = Replace(u, [u EXCEPT !.transmit = TRUE])
             /\ status' = "ok" /\ UNCHANGED <<library, open, setup>>

\* One captured frame goes through the delay.
Capture ==
  /\ setup = Nothing /\ live # Nothing /\ live.delay > 0
  /\ live' = [live EXCEPT !.cursor = (@ + 1) % live.delay]
  /\ status' = "ok" /\ UNCHANGED <<library, open, setup, updates>>

DestroyUpdate(u) ==
  /\ setup = Nothing
  /\ updates' = updates \ {u} /\ Dropped(HandlesOf(u.candidate))
  /\ status' = "ok" /\ UNCHANGED <<library, setup, live>>
Destroy ==
  /\ setup = Nothing /\ live # Nothing
  /\ live' = Nothing /\ Dropped(HandlesOf(live))
  /\ status' = "ok" /\ UNCHANGED <<library, setup, updates>>

Next ==
  \/ \E o \in Offers : Create(o) \/ Prepare(o)
  \/ OpenCtcssReceive \/ OpenDcsReceive \/ ConfigureDcsReceive \/ OpenSquelch
  \/ CheckTransmitPolicy \/ OpenConverter
  \/ OpenDcsTransmit \/ ConfigureDcsTransmit \/ OpenCtcssTransmit
  \/ PublishSession \/ PublishUpdate
  \/ \E u \in updates : ApplyReceive(u) \/ ApplyTransmit(u) \/ DestroyUpdate(u)
  \/ Capture \/ Destroy

Spec == Init /\ [][Next]_vars
----------------------------------------------------------------------------
\* What the variables hold: the policies create has let through, the parts built
\* from them, and handles.
Policies ==
  {Profiled(o) : o \in {o \in Offers : /\ ProfileVerdict(o) = "ok"
                                      /\ ~EntryRefuses(Profiled(o))
                                      /\ ~ReceiveRefuses(Profiled(o))
                                      /\ ~CodeRefuses(Profiled(o))
                                      /\ ~QualificationRefuses(Profiled(o))}}
Profiles == {o.profile : o \in Offers}
Clients == Receiver \cup Transmitter \cup {"converter"}
HandleSets == SUBSET (Clients \X Tokens)
SetupStep == Clients \cup {"dcs.rx configure", "transmit policy", "dcs.tx configure"}
SetupType ==
  [for : {"session", "update"}, config : Policies, profile : Profiles, todo : Seq(SetupStep),
   held : HandleSets]

DetectorType ==
  LET Bare == {DetectorOf(c) : c \in Policies} IN
  [frames : {d.frames : d \in Bare}, noise : {d.noise : d \in Bare}, gate : {d.gate : d \in Bare},
   filter : {d.filter : d \in Bare}, tones : {d.tones : d \in Bare}, code : {d.code : d \in Bare},
   controls : {d.controls : d \in Bare}, handles : HandleSets]
SpeechType ==
  [mode : {EffectiveVadMode(c) : c \in Policies}, hang : {c.hang : c \in Policies},
   handles : HandleSets]
EncoderType == [external : BOOLEAN, code : {c.txCode : c \in Policies}, handles : HandleSets]
SessionType ==
  [profile : Profiles, frames : {c.frames : c \in Policies}, rx : Policies, tx : Policies,
   detector : DetectorType, speech : SpeechType, mode : {EffectiveVadMode(c) : c \in Policies},
   delay : Nat, cursor : Nat, encoder : EncoderType]

\* Nothing is no session and no setup.
ASSUME NothingAssumption == Nothing \notin SetupType /\ Nothing \notin SessionType

Holdings == {HandlesOf(s) : s \in Sessions} \cup (IF setup = Nothing THEN {} ELSE {setup.held})

\* A handle that is open has one owner: a call that fails half way through
\* setup and every swap, whatever the order, leaves none behind and none in two
\* sessions; and a session has the providers its receiver needs.
OneOwner ==
  /\ open = UNION Holdings
  /\ \A a, b \in Holdings : a = b \/ a \cap b = {}
  /\ \A s \in Sessions : {h[1] : h \in HandlesOf(s)} =
       Receiver \cup Transmitter \cup (IF s.speech.mode = 0 THEN {} ELSE {"converter"})

\* However its halves are updated, one, both or from different candidates, a
\* profiled session keeps the sources its profile selects, its external encoder
\* and an output that carries the tone it makes; and neither side of any
\* session ever has CTCSS and DCS at once.
LiveFollowsProfile ==
  live # Nothing =>
    /\ ~(live.rx.rxCtcss = 1 /\ live.rx.rxDcs = 1) /\ ~(live.tx.txCtcss = 1 /\ live.tx.txDcs = 1)
    /\ live.encoder.external = (live.profile # Nothing /\ live.profile.encode = External)
    /\ live.profile # Nothing =>
         LET p == live.profile IN
         /\ CarrierSource[live.rx.carrier] = IF p.carrier = 0 THEN "hardware" ELSE "noise"
         /\ SubaudibleSource[live.rx.tone] = IF p.decode = External THEN "hardware" ELSE "dsp"
         /\ (live.rx.rxCtcss = 1) = (p.decode = Dsp)
         /\ (live.tx.txCtcss = 1) = (p.encode = Dsp)
         /\ NeedsToneAudio(p, live.tx) => {live.tx.routeA, live.tx.routeB} \cap ToneRoutes # {}

\* The live detector is the one the live receive policy describes, also where
\* an update changed its controls in place or was applied a second time, and
\* takes the spans this session was created for.
DetectorFollowsConfig ==
  live # Nothing =>
    /\ [live.detector EXCEPT !.handles = {}] = DetectorOf(live.rx)
    /\ live.detector.frames = live.frames.rx
    /\ live.encoder.code = live.tx.txCode

\* The speech analysis, the mode that admits its result and the delay that
\* covers it are of one policy; the delay is written inside its storage; and a
\* latched burst has a gate that can close it.
SpeechFollowsConfig ==
  live # Nothing =>
    /\ live.mode = EffectiveVadMode(live.rx)
    /\ live.speech.mode = live.mode /\ live.speech.hang = live.rx.hang
    /\ live.delay = DelayFrames(live.rx)
    /\ live.cursor < IF live.delay = 0 THEN 1 ELSE live.delay
    /\ live.mode = 1 => HasCarrier(live.rx) \/ HasTone(live.rx)

\* The live receiver is the one the live policy describes, however many halves
\* of however many candidates were swapped into it.
ReceiverFollowsConfig == DetectorFollowsConfig /\ SpeechFollowsConfig

\* A call that answers with an error, also one whose provider fails in the
\* middle of it, leaves the session and the candidates as they were.
FailedCallChangesNothing ==
  [][status' \notin {"ok", "running"} => UNCHANGED <<live, updates>>]_vars
=============================================================================
