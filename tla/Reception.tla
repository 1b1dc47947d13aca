----------------------------- MODULE Reception ------------------------------
(***************************************************************************)
(* The receive owner of a session: receive_inner, one callback per step,   *)
(* with the blanking timer, qualification, speech admission and the audio  *)
(* delay it composes, the providers that may fail in it, and the receive   *)
(* half of a prepared update.                                              *)
(*                                                                         *)
(* A sample is what can be told of it downstream: the burst it was         *)
(* captured in, Silence, or Unqualified for the raw capture that the delay *)
(* holds while speech admission is off.  The sample clock and the snapshot *)
(* are Observation's, the receive CPU saver and the borrowed processors    *)
(* ReceiveChain's; the meters are left out.                                *)
(***************************************************************************)
EXTENDS ReceiveQualification, SpeechAdmission, Sequences

CONSTANTS
  Preroll,   \* VAD_PREROLL_FRAMES
  Policies,  \* the receive policies a session and its updates may carry
  Inputs     \* the inputs callbacks may carry

\* ReceiveConfig with the qualification of a session.  `detector' stands for
\* the tone and filter settings an update compares to keep the detector.
Config ==
  [carrier : CarrierSources, subaudible : SubaudibleSources,
   override : BOOLEAN, duplex : BOOLEAN, rxOn : 0 .. MaxIntervals,
   txOff : 0 .. MaxIntervals, toned : BOOLEAN, detector : Nat,
   profiled : BOOLEAN, vadMode : 0 .. 2, hang : 0 .. MaxHang,
   squelchDelay : Nat, externalDelay : BOOLEAN, gain : BOOLEAN,
   channel : {0, 1}]

Qualification(c) ==
  [carrier |-> c.carrier, subaudible |-> c.subaudible, override |-> c.override,
   duplex |-> c.duplex, rxOn |-> c.rxOn, txOff |-> c.txOff]

\* What create accepts of the two delays.
ValidPolicy(c) == c \in Config /\ (c.externalDelay => c.squelchDelay = 0)

\* ReceiveInput, the words shared by the transmit owner (arm, ptt), and which
\* providers fail if they are called: a rearm of the speech analysis,
\* de-emphasis, the analysis itself, a filter after it.
Input ==
  [frames : Nat \ {0}, carrier : BOOLEAN, tone : BOOLEAN,
   external : {"absent", "idle", "present"}, valid : BOOLEAN,
   override : BOOLEAN, ptt : BOOLEAN, arm : Nat, speech : SpeechReports,
   broken : [rearm : BOOLEAN, deemphasis : BOOLEAN, speech : BOOLEAN,
             filter : BOOLEAN]]

ASSUME ReceptionAssumption ==
  /\ FramesPerMs \in Nat \ {0} /\ IntervalFrames \in Nat \ {0}
  /\ MaxIntervals \in Nat /\ MaxHang \in Nat /\ MaxLag \in Nat
  /\ BurstModulus \in Nat /\ BurstModulus > 2 /\ Preroll \in Nat
  /\ Policies # {} /\ \A c \in Policies : ValidPolicy(c)
  /\ Inputs \subseteq Input

Silence == 0
Unqualified == -1
Sample == Unqualified .. BurstModulus - 1

VARIABLES
  cfg,   \* the current policy
  rx,    \* the ReceiveWorker
  out,   \* what the last callback returned (ReceiveResult)
  past   \* history, read by properties only

vars == <<cfg, rx, out, past>>
-----------------------------------------------------------------------------
(* Policy *)

\* effective_vad_mode: a burst that no gate can close has no first word.
EffectiveMode(c) ==
  LET carrier == c.carrier \notin {"ignore", "open"}
      tone    == ~c.override /\ (c.subaudible = "wired" \/ c.toned)
  IN  IF c.vadMode = 1 /\ ~carrier /\ ~tone THEN 2 ELSE c.vadMode

\* The delay storage create allocates.
DelayFrames(c) ==
  IF c.vadMode # 0 /\ ~c.externalDelay /\ c.squelchDelay < Preroll
    THEN Preroll ELSE c.squelchDelay

EmptyDelay(c) == [i \in 1 .. DelayFrames(c) |-> Silence]

\* receive_inner's own view of the qualification for one callback.
CallbackQualification(c, in) ==
  LET valid  == (c.profiled => in.valid) /\ (c.carrier = "external" => in.external # "absent")
      speech == EffectiveMode(c) # 0
  IN  [Qualification(c) EXCEPT
        !.carrier = IF ~valid \/ (speech /\ ~c.gain) THEN "ignore"
                    ELSE IF speech /\ @ = "ignore" THEN "open" ELSE @,
        !.override = valid /\ (@ \/ in.override)]
-----------------------------------------------------------------------------
(* Blanking: arm_receive_blanking, rx_blanking::advance_validated *)

\* Mutant: arming keeps the fraction of the timer it replaces.
ArmKeepsFraction(in, r) == IF in.arm = 0 THEN r ELSE [r EXCEPT !.blankMs = in.arm]

Arm(in, r) ==
  IF in.arm = 0 THEN r ELSE [r EXCEPT !.blankMs = in.arm, !.blankRem = 0]

\* Frames at the start of a span of n that are muted.
Muted(r, n) ==
  IF r.blankMs = 0 THEN 0 ELSE Least(DurationFrames(r.blankMs) - r.blankRem, n)

Blank(r, n) ==
  IF r.blankMs = 0 THEN r
  ELSE [r EXCEPT !.blankMs = Consume(@, ElapsedMs(r.blankRem, n)),
                 !.blankRem = Remainder(@, n)]
-----------------------------------------------------------------------------
(* The delay *)

Drained(r) == [r EXCEPT !.valid = 0, !.index = 0]

\* n samples s go in; every one displaces the sample Preceding names.
Shift(r, n, s) ==
  LET len == Len(r.delay)
  IN  IF len = 0 THEN r
      ELSE [r EXCEPT
             !.delay = [i \in 1 .. len |->
                          IF \E k \in 0 .. n - 1 : (r.index + k) % len = i - 1
                            THEN s ELSE @[i]],
             !.index = (@ + n) % len]

Preceding(r, s, k) ==
  IF k < Len(r.delay) THEN r.delay[((r.index + k) % Len(r.delay)) + 1] ELSE s

\* The samples that come out of the speech path: a delay that is not yet full
\* of this burst delivers silence.
Delivered(r, n, s, raw) ==
  IF Len(r.delay) = 0 THEN {s}
  ELSE {IF r.valid + (IF raw THEN k ELSE 0) >= Len(r.delay)
          THEN Preceding(r, s, k) ELSE Silence : k \in 0 .. n - 1}
-----------------------------------------------------------------------------
(* One callback *)

\* A callback in progress.
Work(r, muted) ==
  [r |-> r, ok |-> TRUE, muted |-> muted, keyed |-> r.q.keyed, audio |-> {}]

\* Blanking is taken and advanced, then the indications are qualified.
Qualified(c, r, in) ==
  LET armed == Arm(in, r)
      muted == Muted(armed, in.frames)
      q     == AdvanceQualification(CallbackQualification(c, in), c.toned,
                                    in, muted # 0, r.q)
  IN  Work([Blank(armed, in.frames) EXCEPT !.q = q], muted)

\* Mutant: a failed provider leaves the speech history of the burst alone.
FailQuietly(w) == [w EXCEPT !.ok = FALSE]

\* receive_provider_failure
Fail(w) ==
  IF w.r.vad.mode = 0 THEN [w EXCEPT !.ok = FALSE]
  ELSE [w EXCEPT !.ok = FALSE, !.r = [Drained(@) EXCEPT !.needsReset = TRUE]]

\* The path without speech admission: the raw capture is delayed, then gated.
Plain(in, w) ==
  LET n     == in.frames
      moved == [w EXCEPT !.r = Shift(@, n, Unqualified)]
  IN  IF in.broken.deemphasis THEN Fail(moved)
      ELSE [moved EXCEPT
             !.audio = IF w.r.q.carrier
                         THEN {Preceding(w.r, Unqualified, k) : k \in 0 .. n - 1}
                         ELSE {}]

\* A scheduled reset of the speech analysis comes before anything is heard.
Rearm(in, w) ==
  IF ~w.r.needsReset THEN w
  ELSE LET v == Reset(w.r.vad, ~in.broken.rearm)
           r == [w.r EXCEPT !.vad = v]
       IN  IF v.rearm THEN Fail([w EXCEPT !.r = r])
           ELSE [w EXCEPT !.r = [Drained(r) EXCEPT !.needsReset = FALSE]]

\* Mutant: the delay keeps what a closed burst left in it.
AdmitKeepsDelay(c, in, w) ==
  LET raw == w.r.q.keyed
      s   == IF raw THEN w.r.vad.burst ELSE Silence
      n   == in.frames
      len == Len(w.r.delay)
      key == raw /\ Admitted(w.r.vad)
  IN  [w EXCEPT
        !.keyed = key,
        !.r = [Shift(w.r, n, s) EXCEPT !.valid = IF raw THEN Least(@ + n, len) ELSE @],
        !.audio = IF c.externalDelay \/ key THEN Delivered(w.r, n, s, raw) ELSE {}]

\* The speech decision gates the delayed audio of the burst.
Admit(c, in, w) ==
  LET raw  == w.r.q.keyed
      s    == IF raw THEN w.r.vad.burst ELSE Silence
      n    == in.frames
      base == IF raw THEN w.r ELSE Drained(w.r)
      key  == raw /\ Admitted(w.r.vad)
  IN  [w EXCEPT
        !.keyed = key,
        !.r = [Shift(base, n, s) EXCEPT
                 !.valid = IF raw THEN Least(@ + n, Len(base.delay)) ELSE @],
        !.audio = IF c.externalDelay \/ key THEN Delivered(base, n, s, raw) ELSE {}]

\* The path with speech admission.
Speech(c, in, w) ==
  LET ready == Rearm(in, w)
      heard == Process(ready.r.vad, in.frames, ready.r.q.keyed, in)
      known == [ready EXCEPT !.r.vad = heard.v]
  IN  IF ~ready.ok THEN ready
      ELSE IF in.broken.deemphasis THEN Fail(ready)
      ELSE IF ~heard.ok THEN Fail(known)
      ELSE Admit(c, in, known)

\* The filters come last; a failure there leaves the analysis ahead of the
\* session's sample clock, which only a finished callback advances.
Filter(in, w) ==
  IF w.ok /\ in.broken.filter
    THEN Fail([w EXCEPT !.r.vad.ahead = w.r.vad.mode # 0])
    ELSE w

Run(c, r, in) ==
  LET w == Qualified(c, r, in)
  IN  Filter(in, IF r.vad.mode = 0 THEN Plain(in, w) ELSE Speech(c, in, w))
-----------------------------------------------------------------------------
(* Steps *)

Told == [carrier |-> FALSE, subaudible |-> FALSE, keyed |-> FALSE]

Init ==
  /\ cfg \in Policies
  /\ rx = [blankMs |-> 0, blankRem |-> 0,
           q |-> [carrier |-> FALSE, subaudible |-> FALSE, keyed |-> FALSE,
                  admission |-> 0, release |-> 0],
           vad |-> NewVad(EffectiveMode(cfg), cfg.hang), needsReset |-> FALSE,
           delay |-> EmptyDelay(cfg), index |-> 0, valid |-> 0, told |-> Told]
  /\ out = [result |-> "none", carrier |-> FALSE, raw |-> FALSE,
            keyed |-> FALSE, burst |-> 0, muted |-> 0, audio |-> {},
            edges |-> {}]
  /\ past = [admitted |-> 0, released |-> 0, steady |-> 0, spoken |-> FALSE,
             voiced |-> FALSE, quiet |-> 0, ended |-> TRUE, burst |-> 0,
             view |-> Told]

\* What the callback publishes, and the edges it pushes for it.
Publish(w) ==
  LET now   == [carrier |-> w.r.q.carrier, subaudible |-> w.r.q.subaudible,
                keyed |-> w.keyed]
      edges == {<<k, now[k]>> : k \in {j \in DOMAIN now : now[j] # w.r.told[j]}}
  IN  /\ rx' = [w.r EXCEPT !.told = now]
      /\ out' = [result |-> "ok", carrier |-> w.r.q.carrier,
                 raw |-> w.r.q.keyed, keyed |-> w.keyed,
                 burst |-> IF w.r.vad.mode = 0 THEN 0 ELSE w.r.vad.burst,
                 muted |-> w.muted, audio |-> w.audio \ {Silence},
                 edges |-> edges]

\* Mutant: the indications are recorded as published before a provider fails.
WithholdRecorded(w) ==
  /\ rx' = [w.r EXCEPT !.told.carrier = w.r.q.carrier]
  /\ out' = [result |-> "failed", carrier |-> FALSE, raw |-> FALSE,
             keyed |-> FALSE, burst |-> 0, muted |-> w.muted, audio |-> {},
             edges |-> {}]

\* A failed callback delivers silence and publishes nothing.
Withhold(w) ==
  /\ rx' = w.r
  /\ out' = [result |-> "failed", carrier |-> FALSE, raw |-> FALSE,
             keyed |-> FALSE, burst |-> 0, muted |-> w.muted, audio |-> {},
             edges |-> {}]

\* The history of a callback: how long the signal has been admitted and PTT
\* down, and what was said since reception last opened or a provider failed.
Remember(in) ==
  LET more(count, frames, cap) == Least(count + frames, cap)
      raw    == rx'.q.keyed
      ok     == out'.result = "ok"
      heard  == ok /\ in.speech.heard
      open   == rx'.q.carrier /\ rx'.q.subaudible
      starts == ~raw \/ ~ok
  IN  past' = [admitted |-> IF open THEN more(past.admitted, in.frames, MaxTxOffFrames) ELSE 0,
               released |-> IF in.ptt THEN 0 ELSE more(past.released, in.frames, MaxTxOffFrames),
               steady   |-> more(past.steady, in.frames, MaxTxOffFrames),
               spoken   |-> ~starts /\ (past.spoken \/ heard),
               voiced   |-> ~starts /\ IF in.speech.scored THEN in.speech.active
                                                          ELSE past.voiced,
               quiet    |-> IF heard THEN in.speech.lag
                            ELSE more(past.quiet, in.frames, MaxHang),
               ended    |-> ~raw \/ (past.ended /\ ~ok),
               burst    |-> IF ~ok THEN 0 ELSE IF raw THEN out'.burst ELSE past.burst,
               view     |-> [k \in DOMAIN Told |->
                               IF \E v \in BOOLEAN : <<k, v>> \in out'.edges
                                 THEN <<k, TRUE>> \in out'.edges
                                 ELSE past.view[k]]]

Callback(in) ==
  LET w == Run(cfg, rx, in)
  IN  /\ IF w.ok THEN Publish(w) ELSE Withhold(w)
      /\ Remember(in)
      /\ UNCHANGED cfg

\* The detector, and with it pending blanking, is kept or replaced.
UpdateDetector(c, r) ==
  IF <<c.detector, c.toned, c.carrier>> = <<cfg.detector, cfg.toned, cfg.carrier>>
    THEN r ELSE [r EXCEPT !.blankMs = 0, !.blankRem = 0]

Replaced(c, r) == <<EffectiveMode(c), c.hang>> # <<r.vad.mode, r.vad.hang>>

\* What the analysis is kept through, or has to be rearmed for.
Retained(c, r) ==
  [r EXCEPT !.needsReset =
     \/ @ \/ Qualification(c) # Qualification(cfg)
     \/ <<c.channel, c.gain, c.externalDelay>>
          # <<cfg.channel, cfg.gain, cfg.externalDelay>>]

\* Mutant: a replaced analysis numbers its bursts from the start.
UpdateSpeechFromZero(c, r) ==
  IF Replaced(c, r)
    THEN [Drained(r) EXCEPT !.vad = NewVad(EffectiveMode(c), c.hang),
                            !.needsReset = FALSE]
    ELSE Retained(c, r)

\* Mutant: an analysis that is not replaced is never rearmed.
UpdateSpeechKept(c, r) ==
  IF Replaced(c, r)
    THEN [Drained(r) EXCEPT
            !.vad = [NewVad(EffectiveMode(c), c.hang) EXCEPT !.burst = r.vad.burst],
            !.needsReset = FALSE]
    ELSE r

\* The speech analysis is replaced, rearmed or kept.
UpdateSpeech(c, r) ==
  IF Replaced(c, r)
    THEN [Drained(r) EXCEPT
            !.vad = [NewVad(EffectiveMode(c), c.hang) EXCEPT !.burst = r.vad.burst],
            !.needsReset = FALSE]
    ELSE Retained(c, r)

\* Mutant: only a delay of another length is replaced.
UpdateDelayLength(c, r) ==
  IF DelayFrames(c) # Len(r.delay)
    THEN [Drained(r) EXCEPT !.delay = EmptyDelay(c)] ELSE r

UpdateDelay(c, r) ==
  IF DelayFrames(c) # Len(r.delay) \/ (cfg.vadMode = 0) # (c.vadMode = 0)
    THEN [Drained(r) EXCEPT !.delay = EmptyDelay(c)] ELSE r

\* apply_receive_update.  A profile is fixed for the life of a session.
Update(c) ==
  /\ c # cfg /\ c.profiled = cfg.profiled
  /\ cfg' = c
  /\ rx' = UpdateDelay(c, UpdateSpeech(c, UpdateDetector(c, rx)))
  /\ out' = [out EXCEPT !.result = "none", !.muted = 0, !.audio = {}, !.edges = {}]
  /\ past' = [past EXCEPT
               !.steady = 0,
               !.spoken = @ /\ c.channel = cfg.channel,
               !.ended  = @ \/ <<EffectiveMode(c), c.hang, c.channel>>
                                 # <<EffectiveMode(cfg), cfg.hang, cfg.channel>>]

Next == (\E in \in Inputs : Callback(in)) \/ (\E c \in Policies : Update(c))

Spec == Init /\ [][Next]_vars
-----------------------------------------------------------------------------
(* Properties *)

TypeOK ==
  /\ cfg \in Policies
  /\ rx.blankMs \in Nat /\ rx.blankRem \in 0 .. FramesPerMs - 1
  /\ rx.q \in QualificationState /\ rx.vad \in VadState
  /\ rx.needsReset \in BOOLEAN
  /\ rx.delay \in Seq(Sample) /\ Len(rx.delay) = DelayFrames(cfg)
  /\ rx.index \in 0 .. Len(rx.delay) /\ rx.valid \in 0 .. Len(rx.delay)
  /\ out.result \in {"none", "ok", "failed"}
  /\ out.audio \subseteq Sample \ {Silence}

\* Speech admits only the burst it was heard in: with admission on, a keyed
\* receiver has had speech since reception last closed, a provider last failed
\* or the channel last changed, and in mode "on" no longer ago than the hang
\* unless it is still going on.
FreshSpeech ==
  out.result = "ok" /\ out.keyed /\ rx.vad.mode # 0 =>
    /\ past.spoken
    /\ rx.vad.mode = 2 => past.voiced \/ past.quiet < rx.vad.hang

\* Delayed audio belongs to the burst that is admitted: what an earlier burst,
\* a failed callback or another use of the storage left there is never heard.
DelayHoldsOneBurst ==
  out.result = "ok" =>
    out.audio \subseteq {IF rx.vad.mode = 0 THEN Unqualified ELSE out.burst}

\* Once speech has admitted a kerchunk burst nothing but the end of the burst
\* takes the admission back, whatever the callbacks are cut into.  It speaks of
\* callbacks that succeed one after the other: a failure or an update between
\* them may replace or reset the analysis.
LatchHolds ==
  [][(/\ out.result = "ok" /\ out.keyed /\ out'.result = "ok" /\ out'.raw
      /\ rx.vad.mode = 1)
     => out'.keyed]_vars

\* A burst that begins after an earlier one ended, or after its analysis was
\* replaced, never has the identity of that earlier one.
NewBurstNewId ==
  [][(/\ out'.result = "ok" /\ out'.raw /\ rx.vad.mode # 0
      /\ past.ended /\ past.burst # 0)
     => out'.burst # past.burst]_vars

\* Frames of unbroken admission and of time since PTT a policy asks for.
Waited(admitted, released) ==
  /\ admitted >= QualificationFrames(cfg.rxOn)
  /\ released >= QualificationFrames(cfg.txOff)

\* The receiver is keyed by the callback in which both delays are over and by
\* no earlier one, counted in frames.  That it keys no earlier holds across every
\* update of the delays; that it must key is counted from the last update, since
\* the counters stop at what the old delays asked for, and at zero if nothing was.
KeyedExactly ==
  [][out'.result # "none" =>
       /\ ~rx.q.keyed /\ rx'.q.keyed => Waited(past'.admitted, past'.released)
       /\ (/\ rx'.q.carrier /\ rx'.q.subaudible
           /\ Waited(Least(past'.admitted, past'.steady),
                     Least(past'.released, past'.steady)))
          => rx'.q.keyed]_vars

\* The published state can be rebuilt from the edges alone, although callbacks
\* that fail change the state and publish nothing.
EdgesReplay ==
  out.result = "ok" =>
    past.view = [carrier |-> out.carrier, subaudible |-> rx.q.subaudible,
                 keyed |-> out.keyed]

\* Frames of blanking still owed.
BlankLeft == IF rx.blankMs = 0 THEN 0 ELSE DurationFrames(rx.blankMs) - rx.blankRem

Countdown == INSTANCE SampleCountdown WITH
  Spans <- {in.frames : in \in Inputs},
  Lengths <- {DurationFrames(in.arm) : in \in Inputs},
  left <- BlankLeft,
  spent <- out.muted

\* Blanking mutes exactly the armed number of frames, whatever the spans they
\* arrive in: milliseconds and remainder are a countdown of samples.
ImplementsCountdown == Countdown!Spec
-----------------------------------------------------------------------------
(* What the comments say and the code does not do *)

\* apply_receive_update: "preserving unchanged decoder state"; the policy's
\* "post-PTT receive blanking" is not cut short by an update.
UpdateKeepsBlanking == [][out'.result = "none" => BlankLeft' = BlankLeft]_vars
=============================================================================
