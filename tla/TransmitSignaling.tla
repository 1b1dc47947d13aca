------------------------- MODULE TransmitSignaling --------------------------
(***************************************************************************)
(* The transmitter half of the native tick (transmit_signaling.rs with the *)
(* primitives it composes: timer, signal_mode, ctcss_render_state,         *)
(* dcs_turnoff, tx_finish, tx_complete, tx_cpu_saver).  One callback is one *)
(* step: receive-signaling mode, PTT start or turn-off, the renderer spans *)
(* the callback's frames are cut into, completion, settle and CPU saver.   *)
(*                                                                         *)
(* st is TransmitSignaling::state.  Its reporting-only millisecond mirrors *)
(* (tx_hang, finish, buffer_clear) are left out: no branch reads them.  The *)
(* renderer's own countdown (turnoff_remaining_ms) is kept: spans coalesce *)
(* only where the whole renderer state is equal.  A phase shift or tail    *)
(* tone is its presence, a frequency a member of Freqs with 0 for "none".  *)
(***************************************************************************)
EXTENDS Sequences, Timer

CONSTANTS
  IntervalMs,    \* LEGACY_BUFFER_MS, one historical signaling interval
  NormalClear,   \* tx_finish::NORMAL_BUFFER_CLEAR_FRAMES
  TailClear,     \* TAIL_TONE_BUFFER_CLEAR_FRAMES
  HoldMs,        \* SignalModeConfig::hold_ms
  Tones,         \* decodable CTCSS indices
  NoTone,        \* CTCSS_NONE
  Freqs,         \* nonzero CTCSS frequencies
  InitialFreq,   \* INITIAL_CTCSS_FREQUENCY_TENTHS_HZ
  Policies,      \* the validated policies a session and its updates may carry
  Inputs         \* the inputs callbacks may carry

ToneOffModes == {"None", "PhaseShift", "ToneRemove", "TailTone"}

Config ==
  [external : BOOLEAN, ctcssTx : BOOLEAN, default : Freqs \cup {0},
   mapped : [Tones -> Freqs \cup {0}], ctcssTailMs : Nat,
   toneOff : ToneOffModes, dcsTx : BOOLEAN, dcsTurnoff : BOOLEAN,
   dcsTailMs : Int, blankingMs : Nat, settleMs : Nat, cpuSaver : BOOLEAN]

\* transmit_signaling::Input
Input ==
  [frames : Nat \ {0}, admitted : BOOLEAN, request : BOOLEAN,
   physical : BOOLEAN, decoded : Tones \cup {NoTone}, dcsValid : BOOLEAN,
   inhibit : BOOLEAN, forced : Freqs \cup {0}]

\* validate_config, with transmit_config's and the profile's rule that DCS and
\* CTCSS are never both transmitted.
ValidPolicy(c) ==
  /\ c \in Config
  /\ c.dcsTx /\ c.dcsTurnoff => c.dcsTailMs > 0
  /\ c.dcsTx => ~c.ctcssTx /\ ~c.external
  /\ c.external => ~c.ctcssTx /\ c.toneOff \in {"None", "ToneRemove"}

ASSUME TransmitAssumption ==
  /\ FramesPerMs \in Nat \ {0} /\ IntervalMs \in Nat \ {0}
  /\ NormalClear \in Nat /\ TailClear \in Nat /\ HoldMs \in Nat
  /\ NoTone \notin Tones
  /\ Freqs \subseteq Nat \ {0} /\ InitialFreq \in Freqs
  /\ Inputs \subseteq Input
  /\ Policies # {} /\ \A c \in Policies : ValidPolicy(c)

Options == {"hold", "start", "turnoff", "disable"}
NoArm == -1
\* Mutant: a timeline with no room for tail, drain and idle together.
ShortTimeline == 2

\* MAX_RENDER_SPANS
MaxRenderSpans == 4

State ==
  [smode : {"none", "ctcss", "dcs"}, smodeTimer : Nat,
   lastRx : Tones \cup {NoTone}, freq : Freqs \cup {0}, modeOption : Options,
   txState : {"idle", "active", "toc", "finishing", "complete"}, ptt : BOOLEAN,
   option : Options, osc : {"disabled", "active", "turnoff"},
   enabled : BOOLEAN, burst : BOOLEAN, tail : BOOLEAN,
   dcsMs : Nat, settleMs : Nat, halted : BOOLEAN,
   phase : {"None", "CtcssTail", "CtcssGap", "DcsTail", "NoTone"},
   turnoffFrames : Nat, finishFrames : Nat, legacyFrames : Nat,
   turnoffMs : Nat, rxRem : Nat, txRem : Nat]

InitialState ==
  [smode |-> "none", smodeTimer |-> 0, lastRx |-> NoTone, freq |-> InitialFreq,
   modeOption |-> "hold", txState |-> "idle", ptt |-> FALSE, option |-> "hold",
   osc |-> "disabled", enabled |-> FALSE, burst |-> FALSE, tail |-> FALSE,
   dcsMs |-> 0, settleMs |-> 0, halted |-> FALSE, phase |-> "None",
   turnoffFrames |-> 0, finishFrames |-> 0, legacyFrames |-> 0,
   turnoffMs |-> 0, rxRem |-> 0, txRem |-> 0]

VARIABLES
  cfg,   \* the current policy
  st,    \* the retained State
  out    \* what the last callback returned (Output)

vars == <<cfg, st, out>>
-----------------------------------------------------------------------------
(* Durations *)

CeilDiv(a, b) == (a + b - 1) \div b

RemainingMs(frames) == CeilDiv(frames, FramesPerMs)
IntervalFrames == DurationFrames(IntervalMs)

\* A CTCSS tail is a whole number of historical intervals, at least one.
CtcssTailFrames(ms) ==
  LET intervals == CeilDiv(DurationFrames(ms), IntervalFrames)
  IN  (IF intervals = 0 THEN 1 ELSE intervals) * IntervalFrames

FinishFrames(tailTone) ==
  DurationFrames(((IF tailTone THEN TailClear ELSE NormalClear) + 1) * IntervalMs)
-----------------------------------------------------------------------------
(* Receive-signaling mode *)

\* signal_mode::advance_validated
AdvanceSignalMode(c, s, ms, in) ==
  LET runs     == s.smodeTimer > 0 /\ ~in.request
      timer    == IF runs THEN Consume(s.smodeTimer, ms) ELSE s.smodeTimer
      held     == IF runs /\ timer = 0 THEN "none" ELSE s.smode
      claimed  == in.decoded # NoTone /\ held \in {"none", "ctcss"}
      mode     == IF claimed THEN "ctcss" ELSE held
      follows  == mode = "ctcss" /\ c.ctcssTx
      selected == IF in.decoded = NoTone THEN c.default ELSE c.mapped[in.decoded]
      retunes  == follows /\ in.decoded # s.lastRx /\ selected \notin {0, s.freq}
      dcs      == in.dcsValid /\ mode \in {"none", "dcs"}
  IN  [s EXCEPT
        !.smode      = IF dcs THEN "dcs" ELSE mode,
        !.smodeTimer = IF dcs \/ claimed THEN HoldMs ELSE timer,
        !.lastRx     = IF follows THEN in.decoded ELSE NoTone,
        !.freq       = IF retunes THEN selected ELSE @,
        !.modeOption = IF retunes THEN "start" ELSE @]

\* The part of tick every callback runs, admitted or held: receive time, the
\* mode, and the option the two primitives share outside a turn-off.
Listen(c, s, in) ==
  LET heard == AdvanceSignalMode(
                 c, [s EXCEPT !.rxRem = Remainder(@, in.frames)],
                 ElapsedMs(s.rxRem, in.frames), in)
  IN  IF heard.phase = "None"
        THEN [heard EXCEPT !.option = heard.modeOption] ELSE heard
-----------------------------------------------------------------------------
(* CTCSS options *)

CtcssTransmitEnabled(c) == c.external \/ c.ctcssTx

\* apply_ctcss_option: ctcss_render_state consumes the option it is given.
ApplyOption(c, s, option) ==
  [s EXCEPT !.modeOption = "hold", !.option = "hold",
            !.osc = IF option = "start" THEN "active"
                    ELSE IF option = "turnoff" THEN "turnoff" ELSE "disabled",
            !.enabled = option = "start" \/ (option = "turnoff" /\ s.enabled),
            !.turnoffMs = IF option = "turnoff" THEN c.ctcssTailMs ELSE @,
            !.burst = option = "turnoff" /\ c.toneOff # "TailTone",
            !.tail = option = "turnoff" /\ c.toneOff # "PhaseShift"]

\* apply_pending_ctcss_option
ApplyPending(c, s) ==
  IF s.option = "hold" THEN s ELSE ApplyOption(c, s, s.option)

\* Mutant: a forced tone is sent whatever the policy transmits.
SelectStartForced(c, s, in) ==
  LET selected == IF in.forced # 0 THEN in.forced
                  ELSE IF CtcssTransmitEnabled(c) THEN c.default ELSE 0
  IN  IF ~in.inhibit /\ (selected # 0 \/ c.external)
        THEN [s EXCEPT !.freq = selected, !.modeOption = "start",
                       !.option = "start", !.enabled = TRUE, !.turnoffMs = 0]
        ELSE [s EXCEPT !.freq = 0]

\* select_start_ctcss
SelectStart(c, s, in) ==
  LET wanted   == CtcssTransmitEnabled(c) /\ ~in.inhibit
      selected == IF in.forced # 0 THEN in.forced
                  ELSE IF s.smode = "ctcss" /\ in.decoded # NoTone
                         THEN c.mapped[in.decoded] ELSE c.default
  IN  IF wanted /\ (selected # 0 \/ c.external)
        THEN [s EXCEPT !.freq = selected, !.modeOption = "start",
                       !.option = "start", !.enabled = TRUE, !.turnoffMs = 0]
        ELSE [s EXCEPT !.freq = 0]
-----------------------------------------------------------------------------
(* Turn-off phases *)

\* start_ctcss_tail
StartCtcssTail(c, s) ==
  ApplyOption(c, [s EXCEPT !.txState = "toc", !.phase = "CtcssTail",
                           !.turnoffFrames = CtcssTailFrames(c.ctcssTailMs),
                           !.legacyFrames = DurationFrames(c.ctcssTailMs)],
              "turnoff")

\* start_no_tone
StartNoTone(c, s) ==
  ApplyOption(c, [s EXCEPT !.txState = "toc", !.phase = "NoTone",
                           !.turnoffFrames = DurationFrames(c.ctcssTailMs)],
              "disable")

\* start_dcs_tail with dcs_turnoff::begin_validated
StartDcsTail(c, s) ==
  [s EXCEPT !.txState = "toc", !.phase = "DcsTail", !.dcsMs = c.dcsTailMs,
            !.turnoffFrames = DurationFrames(c.dcsTailMs)]

\* start_finishing with tx_finish::advance_validated
StartFinishing(s, tailTone) ==
  [s EXCEPT !.txState = "finishing", !.phase = "None", !.turnoffFrames = 0,
            !.legacyFrames = 0, !.finishFrames = FinishFrames(tailTone)]

\* The ACTIVE branch of prepare_transmitter once the request has ended.
BeginRelease(c, s, in) ==
  LET toned == s.enabled /\ ~in.inhibit
                 /\ c.toneOff # "None" /\ CtcssTransmitEnabled(c)
  IN  CASE c.dcsTx /\ c.dcsTurnoff -> StartDcsTail(c, s)
        [] ~(c.dcsTx /\ c.dcsTurnoff) /\ toned /\ c.toneOff = "ToneRemove" ->
             StartNoTone(c, s)
        [] ~(c.dcsTx /\ c.dcsTurnoff) /\ toned /\ c.toneOff # "ToneRemove" ->
             StartCtcssTail(c, s)
        [] ~(c.dcsTx /\ c.dcsTurnoff) /\ ~toned ->
             StartFinishing(ApplyOption(c, s, "disable"), FALSE)

\* rekey_dcs_tail is rejected when dcs_turnoff::advance would reject it.
DcsRekeyRejected(c, s) == c.dcsTailMs <= 0 \/ s.dcsMs <= 0

\* Mutant: the rekey leaves the old tail's frames behind.
RekeyDcsTailKeepsFrames(s) ==
  [s EXCEPT !.txState = "active", !.phase = "None", !.legacyFrames = 0,
            !.dcsMs = 0, !.smodeTimer = HoldMs]

RekeyDcsTail(s) ==
  [s EXCEPT !.txState = "active", !.phase = "None", !.turnoffFrames = 0,
            !.legacyFrames = 0, !.dcsMs = 0, !.smodeTimer = HoldMs]

RekeyCtcssTail(c, s) ==
  ApplyOption(c, [s EXCEPT !.txState = "active", !.phase = "None",
                           !.turnoffFrames = 0, !.legacyFrames = 0,
                           !.smodeTimer = HoldMs], "start")

\* The IDLE branch of prepare_transmitter: PTT rises.
KeyUp(c, s, in) ==
  LET toned == ApplyPending(c, SelectStart(c, s, in))
  IN  [toned EXCEPT !.txState = "active", !.ptt = TRUE, !.phase = "None",
                    !.turnoffFrames = 0, !.legacyFrames = 0, !.finishFrames = 0,
                    !.dcsMs = IF c.dcsTx THEN 0 ELSE @,
                    !.smodeTimer = HoldMs, !.settleMs = c.settleMs]

\* Mutant: inhibit is read at the PTT edge only.
StayKeyedWithoutReselect(c, s, in) ==
  ApplyPending(c, [s EXCEPT !.smodeTimer = HoldMs])

\* The ACTIVE branch of prepare_transmitter while the request lasts.
StayKeyed(c, s, in) ==
  LET held == [s EXCEPT !.smodeTimer = HoldMs]
  IN  ApplyPending(c, IF ~in.inhibit /\ ~s.enabled
                        THEN SelectStart(c, held, in) ELSE held)
-----------------------------------------------------------------------------
(* Renderer spans *)

\* A tick in progress: the state, frames left to render, spans so far, the
\* one-shot actions and whether every append fitted.
Work(s, frames, status) ==
  [s |-> s, left |-> frames, spans |-> <<>>, status |-> status,
   arm |-> NoArm, ok |-> TRUE]

\* current_render_span
Intent(s) ==
  [ptt |-> s.ptt, option |-> s.option, osc |-> s.osc, enabled |-> s.enabled,
   burst |-> s.burst, tail |-> s.tail, turnoffMs |-> s.turnoffMs,
   freq |-> s.freq, dcs |-> s.phase = "DcsTail"]

Span(intent, frames) == [intent |-> intent, frames |-> frames]

\* Mutant: a coalesced span forgets the frames it already had.
EmitForgetsMerged(w, s, n) ==
  LET last    == Len(w.spans)
      merges  == last > 0 /\ w.spans[last].intent = Intent(s)
      emitted == [w EXCEPT !.s = [s EXCEPT !.burst = FALSE], !.left = @ - n]
  IN  IF n = 0 THEN [w EXCEPT !.s = s]
      ELSE IF merges THEN [emitted EXCEPT !.spans[last].frames = n]
      ELSE [emitted EXCEPT !.spans = Append(@, Span(Intent(s), n))]

\* append_current_span: RenderTimeline::append coalesces an equal neighbour;
\* the one-shot phase shift is consumed with the frames.
Emit(w, s, n) ==
  LET last    == Len(w.spans)
      merges  == last > 0 /\ w.spans[last].intent = Intent(s)
      emitted == [w EXCEPT !.s = [s EXCEPT !.burst = FALSE], !.left = @ - n]
  IN  IF n = 0 THEN [w EXCEPT !.s = s]
      ELSE IF merges THEN [emitted EXCEPT !.spans[last].frames = @ + n]
      ELSE IF last = MaxRenderSpans THEN [emitted EXCEPT !.ok = FALSE]
      ELSE [emitted EXCEPT !.spans = Append(@, Span(Intent(s), n))]

\* Mutant: a tail ends only with the callback it ends in.
EmitTurnoffWholeCallback(w) ==
  Emit(w, [w.s EXCEPT !.turnoffFrames = @ - Least(@, w.left)], w.left)

\* Render as much of the current turn-off phase as the callback has left.
EmitTurnoff(w) ==
  LET n == Least(w.s.turnoffFrames, w.left)
  IN  Emit(w, [w.s EXCEPT !.turnoffFrames = @ - n], n)

EmitFinish(w) ==
  LET n == Least(w.s.finishFrames, w.left)
  IN  Emit(w, [w.s EXCEPT !.finishFrames = @ - n], n)

\* Mutant: the completion that ends a callback exactly arms no blanking.
CompleteUnarmed(c, w) ==
  [w EXCEPT !.s = [@ EXCEPT !.txState = "idle", !.ptt = FALSE,
                            !.modeOption = "disable", !.option = "disable",
                            !.phase = "None"],
            !.status = TRUE,
            !.arm = IF w.left > 0 THEN c.blankingMs ELSE NoArm]

\* complete_transmission with tx_complete::complete
Complete(c, w) ==
  [w EXCEPT !.s = [@ EXCEPT !.txState = "idle", !.ptt = FALSE,
                            !.modeOption = "disable", !.option = "disable",
                            !.phase = "None"],
            !.status = TRUE, !.arm = c.blankingMs]
-----------------------------------------------------------------------------
(* Phases of one callback *)

\* The renderer's countdown follows the frames of the tail it has rendered.
CountTail(s, n) ==
  LET frames == s.legacyFrames - Least(s.legacyFrames, n)
  IN  [s EXCEPT !.legacyFrames = frames, !.turnoffMs = RemainingMs(frames)]

\* The arms of advance_render_timeline's match, one iteration each.
TailPhase(c, w) ==
  LET e == EmitTurnoff(w)
      timed == CountTail(e.s, w.left - e.left)
  IN  IF timed.turnoffFrames > 0 THEN [e EXCEPT !.s = timed]
      ELSE [e EXCEPT !.s = [ApplyOption(c, timed, "disable") EXCEPT
                              !.phase = "CtcssGap", !.turnoffFrames = IntervalFrames]]

GapPhase(c, w) ==
  LET e == EmitTurnoff(w)
  IN  IF e.s.turnoffFrames > 0 THEN e
      ELSE [e EXCEPT !.s = StartFinishing(e.s, c.toneOff = "TailTone")]

DcsPhase(w) ==
  LET e == EmitTurnoff(w)
      timed == [e.s EXCEPT !.dcsMs = RemainingMs(e.s.turnoffFrames)]
  IN  IF timed.turnoffFrames > 0 THEN [e EXCEPT !.s = timed]
      ELSE [e EXCEPT !.s = StartFinishing(timed, FALSE)]

\* Mutant: the no-tone dwell never completes.
NoTonePhaseStays(w) == EmitTurnoff(w)

NoTonePhase(w) ==
  LET e == EmitTurnoff(w)
  IN  IF e.s.turnoffFrames > 0 THEN e
      ELSE [e EXCEPT !.s.txState = "complete"]

FinishPhase(w) ==
  LET e == EmitFinish(w)
  IN  IF e.s.finishFrames > 0 THEN e
      ELSE [e EXCEPT !.s.txState = "complete"]

CompletePhase(c, w) ==
  LET e == Complete(c, w)
  IN  [e EXCEPT !.s.turnoffFrames = 0, !.s.legacyFrames = 0,
                !.s.finishFrames = 0]

TurnoffPhase(c, w) ==
  CASE w.s.phase = "CtcssTail" -> TailPhase(c, w)
    [] w.s.phase = "CtcssGap"  -> GapPhase(c, w)
    [] w.s.phase = "DcsTail"   -> DcsPhase(w)
    [] w.s.phase = "NoTone"    -> NoTonePhase(w)
    [] w.s.phase = "None"      -> [w EXCEPT !.left = 0, !.ok = FALSE]

StatePhase(c, w) ==
  CASE w.s.txState = "idle"      -> Emit(w, w.s, w.left)
    [] w.s.txState = "active"    -> Emit(w, w.s, w.left)
    [] w.s.txState = "toc"       -> TurnoffPhase(c, w)
    [] w.s.txState = "finishing" -> FinishPhase(w)
    [] w.s.txState = "complete"  -> CompletePhase(c, w)

Phase(c, w) == IF w.left = 0 THEN w ELSE StatePhase(c, w)

\* A turn-off that ends with the callback completes in it.
Conclude(c, w) == IF w.s.txState = "complete" THEN Complete(c, w) ELSE w

\* The loop of advance_render_timeline.  A callback enters each of tail, gap,
\* finishing, complete and idle at most once, so five iterations exhaust it.
RenderTimeline(c, w) ==
  Conclude(c, Phase(c, Phase(c, Phase(c, Phase(c, Phase(c, w))))))

\* The end of tick: settle, CPU saver, and the deferred disable option.
Settle(c, s, ms, in) ==
  LET settled == [s EXCEPT !.settleMs = IF in.physical THEN Consume(@, ms) ELSE @]
      saved   == [settled EXCEPT !.halted = c.cpuSaver /\ ~in.request
                                              /\ ~s.ptt /\ s.txState = "idle"]
  IN  IF ~saved.halted /\ saved.option = "disable"
        THEN ApplyOption(c, saved, "disable") ELSE saved

\* Mutant: inhibit is applied only where a tone is selected.
RenderedIgnoresInhibit(c, s, ms, in, status) ==
  [RenderTimeline(c, Work(s, in.frames, status)) EXCEPT !.s = Settle(c, @, ms, in)]

\* Everything tick does after prepare_transmitter has chosen the state s;
\* status is whether it queued a CTCSS status event.
Rendered(c, s, ms, in, status) ==
  LET live == IF in.inhibit THEN ApplyOption(c, s, "disable") ELSE s
  IN  [RenderTimeline(c, Work(live, in.frames, status)) EXCEPT !.s = Settle(c, @, ms, in)]
-----------------------------------------------------------------------------
(* Steps *)

\* What a callback returns.  inhibit, request and frames repeat its input.
NoOutput(result, in) ==
  [result |-> result, raised |-> FALSE, released |-> FALSE, status |-> FALSE,
   arm |-> NoArm, spans |-> <<>>, frames |-> in.frames,
   request |-> in.request, inhibit |-> in.inhibit]

Startup == [result |-> "none", raised |-> FALSE, released |-> FALSE,
            status |-> FALSE, arm |-> NoArm, spans |-> <<>>, frames |-> 0,
            request |-> FALSE, inhibit |-> FALSE]

Init == cfg \in Policies /\ st = InitialState /\ out = Startup

\* The state every admitted branch starts from.
Ticked(in) == [Listen(cfg, st, in) EXCEPT !.txRem = Remainder(@, in.frames)]

\* The finished work w is published whole or not at all.
Commit(in, w) ==
  /\ IF w.ok
       THEN /\ st' = w.s
            /\ out' = [result |-> "ok", raised |-> ~st.ptt /\ w.s.ptt,
                       released |-> st.ptt /\ ~w.s.ptt,
                       status |-> w.status, arm |-> w.arm,
                       spans |-> w.spans, frames |-> in.frames,
                       request |-> in.request, inhibit |-> in.inhibit]
       ELSE st' = st /\ out' = NoOutput("rejected", in)
  /\ UNCHANGED cfg

Finish(in, prepared, status) ==
  Commit(in, Rendered(cfg, prepared, ElapsedMs(st.txRem, in.frames), in, status))

\* A held playout callback advances receive signaling only.
HeldTick(in) ==
  /\ ~in.admitted
  /\ st' = Listen(cfg, st, in)
  /\ out' = NoOutput("held", in)
  /\ UNCHANGED cfg

IdleTick(in) ==
  /\ in.admitted /\ ~in.request /\ st.txState = "idle"
  /\ Finish(in, Ticked(in), FALSE)

KeyTick(in) ==
  /\ in.admitted /\ in.request /\ st.txState = "idle"
  /\ Finish(in, KeyUp(cfg, Ticked(in), in), TRUE)

TalkTick(in) ==
  /\ in.admitted /\ in.request /\ st.txState = "active"
  /\ Finish(in, StayKeyed(cfg, Ticked(in), in), FALSE)

ReleaseTick(in) ==
  /\ in.admitted /\ ~in.request /\ st.txState = "active"
  /\ Finish(in, BeginRelease(cfg, Ticked(in), in), FALSE)

RekeyDcsTick(in) ==
  /\ in.admitted /\ in.request /\ st.txState = "toc" /\ st.phase = "DcsTail"
  /\ ~DcsRekeyRejected(cfg, st)
  /\ Finish(in, RekeyDcsTail(Ticked(in)), FALSE)

RekeyCtcssTick(in) ==
  /\ in.admitted /\ in.request /\ st.txState = "toc" /\ st.phase # "DcsTail"
  /\ CtcssTransmitEnabled(cfg)
  /\ Finish(in, RekeyCtcssTail(cfg, Ticked(in)), FALSE)

\* Mutant: a request restarts the final drain.
TurnoffTickRestartsDrain(in) ==
  /\ in.admitted
  /\ \/ st.txState = "finishing"
     \/ /\ st.txState = "toc"
        /\ in.request => st.phase # "DcsTail" /\ ~CtcssTransmitEnabled(cfg)
  /\ Finish(in, IF in.request /\ st.txState = "finishing"
                  THEN StartFinishing(Ticked(in), FALSE) ELSE Ticked(in), FALSE)

\* A turn-off runs on: no request, a request it cannot honour (a tail whose
\* policy no longer transmits CTCSS), or a final drain.
TurnoffTick(in) ==
  /\ in.admitted
  /\ \/ st.txState = "finishing"
     \/ /\ st.txState = "toc"
        /\ in.request => st.phase # "DcsTail" /\ ~CtcssTransmitEnabled(cfg)
  /\ Finish(in, Ticked(in), FALSE)

\* On failure the persistent state remains unchanged.
RejectedTick(in) ==
  /\ in.admitted /\ in.request /\ st.txState = "toc" /\ st.phase = "DcsTail"
  /\ DcsRekeyRejected(cfg, st)
  /\ out' = NoOutput("rejected", in)
  /\ UNCHANGED <<cfg, st>>

AdmittedTick(in) ==
  \/ IdleTick(in) \/ KeyTick(in) \/ TalkTick(in) \/ ReleaseTick(in)
  \/ RekeyDcsTick(in) \/ RekeyCtcssTick(in) \/ TurnoffTick(in)

Tick(in) == HeldTick(in) \/ RejectedTick(in) \/ AdmittedTick(in)

\* update_config_from: a prepared policy of the same profile replaces the live
\* one and keeps PTT and every active timer.
UpdateConfig(c) ==
  /\ c # cfg /\ c.external = cfg.external
  /\ cfg' = c /\ out' = Startup
  /\ UNCHANGED st

Next == (\E in \in Inputs : Tick(in)) \/ (\E c \in Policies : UpdateConfig(c))

Spec == Init /\ [][Next]_vars
-----------------------------------------------------------------------------
(* Properties *)

\* Frames carried by the spans of the last callback with these indices.
SpanFrames(indices) ==
  LET sum[i \in 0 .. Len(out.spans)] ==
        IF i = 0 THEN 0
        ELSE sum[i - 1] + (IF i \in indices THEN out.spans[i].frames ELSE 0)
  IN  sum[Len(out.spans)]

TypeOK ==
  /\ cfg \in Policies
  /\ st \in State
  /\ out.result \in {"none", "held", "ok", "rejected"}
  /\ out.arm \in Nat \cup {NoArm}
  /\ \A i \in 1 .. Len(out.spans) : out.spans[i].frames \in Nat \ {0}

\* The redundant turn-off bookkeeping agrees: PTT is up exactly outside IDLE,
\* TOC has a phase, whatever is being timed still owes frames, and the DCS
\* countdown in milliseconds is the frame countdown rounded up (a DCS rekey
\* reads the first, the renderer the second).
TurnoffCoherent ==
  /\ st.txState # "complete"
  /\ st.ptt <=> st.txState # "idle"
  /\ st.txState = "toc" <=> st.phase # "None"
  /\ st.txState = "toc" <=> st.turnoffFrames > 0
  /\ st.txState = "finishing" <=> st.finishFrames > 0
  /\ st.phase = "DcsTail" => st.dcsMs = RemainingMs(st.turnoffFrames)

\* The spans of an admitted callback cut its frames into at most four pieces
\* with nothing lost or rendered twice, however many phases it crosses
\* (the capacity claim beside MAX_RENDER_SPANS).
SpansTileTick ==
  out.result = "ok" =>
    /\ Len(out.spans) \in 1 .. MaxRenderSpans
    /\ out.frames = SpanFrames(1 .. Len(out.spans))

\* A callback never fails for what it crosses: the one rejection left is a DCS
\* rekey after an update installed a policy without a DCS tail.
OnlyDcsRekeyFails ==
  [][out'.result = "rejected" => st.phase = "DcsTail" /\ cfg.dcsTailMs <= 0]_vars

\* Receiver blanking is armed by the callback that drops PTT and by no other,
\* with the duration of the policy in force, and the CTCSS status goes out
\* with every PTT edge.
ArmsAtRelease ==
  /\ out'.arm = IF st.ptt /\ ~st'.ptt THEN cfg.blankingMs ELSE NoArm
  /\ out'.status <=> st'.ptt # st.ptt

ArmedExactlyAtRelease == [][ArmsAtRelease]_vars

\* A tail never outlives its promise: once the final drain has begun PTT falls,
\* even under a request that is held throughout.
DrainReleases == st.txState = "finishing" ~> ~st.ptt

\* When requests stop for good, so does PTT.
UnkeyedReleases == <>[](~out.request) => <>[](~st.ptt)

\* While PTT is up the playout side keeps delivering admitted callbacks (weak
\* fairness of AdmittedTick, which is enabled throughout a turn-off; written
\* on what a callback returns so that no ENABLED has to be evaluated).
Fairness == []<>(~st.ptt) \/ []<><<out'.result = "ok">>_vars
FairSpec == Spec /\ Fairness
-----------------------------------------------------------------------------
(* The lifecycle this state machine implements *)

\* Frames of PTT still owed by a turn-off under the current policy.
Owed ==
  CASE st.phase = "CtcssTail" ->
         st.turnoffFrames + IntervalFrames + FinishFrames(cfg.toneOff = "TailTone")
    [] st.phase = "CtcssGap" ->
         st.turnoffFrames + FinishFrames(cfg.toneOff = "TailTone")
    [] st.phase = "DcsTail" -> st.turnoffFrames + FinishFrames(FALSE)
    [] st.phase \in {"NoTone", "None"} -> st.turnoffFrames + st.finishFrames

Debts(c) ==
  {FinishFrames(FALSE), DurationFrames(c.ctcssTailMs)}
  \cup {CtcssTailFrames(c.ctcssTailMs) + IntervalFrames
          + FinishFrames(c.toneOff = "TailTone")}
  \cup (IF c.dcsTailMs > 0
          THEN {DurationFrames(c.dcsTailMs) + FinishFrames(FALSE)} ELSE {})

LifecyclePhase ==
  [idle |-> "idle", active |-> "keyed", toc |-> "tail",
   finishing |-> "drain", complete |-> "complete"][st.txState]

PttSpans == {i \in 1 .. Len(out.spans) : out.spans[i].intent.ptt}

Lifecycle == INSTANCE PttLifecycle WITH
  FrameCounts <- {in.frames : in \in Inputs},
  TailLengths <- UNION {Debts(c) : c \in Policies},
  DrainChanges <- {FinishFrames(a) - FinishFrames(b) : a, b \in BOOLEAN},
  phase <- LifecyclePhase,
  owed <- Owed,
  on <- SpanFrames(PttSpans),
  off <- SpanFrames((1 .. Len(out.spans)) \ PttSpans),
  armed <- out.arm # NoArm

\* Every callback is a step of the lifecycle: PTT is owed, spent and released
\* to the exact sample whatever the callback sizes.
ImplementsLifecycle == Lifecycle!Spec
-----------------------------------------------------------------------------
(* What a comment says and the code does not do *)

\* tick: "a later receive-side selection cannot overwrite an audible tail".  A
\* tail tone does replace the selected frequency (render_ctcss), but every span
\* of a phase-shift tail is rendered with it: the spans one callback sends
\* while such a tail is audible keep the frequency the callback before left.
AudibleTailKeepsTone ==
  [][\A i \in 1 .. Len(out'.spans) :
       LET k == out'.spans[i].intent
       IN  st.phase = "CtcssTail" /\ k.osc = "turnoff" /\ k.enabled /\ ~k.tail
             => k.freq = st.freq]_vars
=============================================================================
