--------------------------- MODULE TransmitOutput ---------------------------
(***************************************************************************)
(* The transmit callback around the signaling tick: ring and program       *)
(* before it, CTCSS, DCS and routing after it, a provider failing on       *)
(* either side, and the actions a profiled session returns with the PCM.   *)
(*                                                                         *)
(* A span of output is the set of what can be heard in it; every frame of  *)
(* a rendered span is alike.                                               *)
(***************************************************************************)
EXTENDS TransmitSignaling, FiniteSets

CONSTANTS RouteA, RouteB  \* output_a_route, output_b_route

\* OutputRoute
VoiceRoutes == {"voice", "composite", "auxiliary voice"}
ToneRoutes == {"tone", "composite"}
ASSUME OutputAssumption == {RouteA, RouteB} \subseteq {"disabled"} \cup VoiceRoutes \cup ToneRoutes

VARIABLES
  line,    \* what the last callback delivered
  settled  \* the policy in force is the one PTT was last raised under

output == <<cfg, st, out, line, settled>>

\* What a callback that fails or is refused leaves: zeroed PCM, no action.
Silent(status) == [status |-> status, a |-> <<>>, b |-> <<>>, ptt |-> FALSE, external |-> FALSE]

OutputInit == Init /\ line = Silent("none") /\ settled = TRUE
----------------------------------------------------------------------------
\* calibrated_test_tone: it replaces the program, also where that is silent.
Program(test) == IF test THEN {"test"} ELSE {"voice"}

\* Mutant: the span's PTT is all the generator is told.
RenderCtcssKeyed(c, intent) ==
  IF c.external \/ ~intent.ptt THEN {}
  ELSE {IF intent.tail \/ intent.freq # 0 THEN "ctcss" ELSE "no frequency"}
\* render_ctcss, which an external encoder replaces.  An oscillator enabled with
\* neither a frequency nor a tail tone is told apart from one that has a tone.
RenderCtcss(c, intent) ==
  IF c.external \/ ~intent.ptt \/ ~intent.enabled THEN {}
  ELSE {IF intent.tail \/ intent.freq # 0 THEN "ctcss" ELSE "no frequency"}

\* render_dcs: the code, or its turn-off in a buffer of its own.
RenderDcs(c, intent) ==
  IF intent.ptt /\ c.dcsTx THEN {IF intent.dcs THEN "dcs turn-off" ELSE "dcs"} ELSE {}

\* route_sample, where a span has PTT.
RouteSample(c, route, intent, program) ==
  IF ~intent.ptt THEN {}
  ELSE (IF route \in VoiceRoutes THEN program ELSE {})
         \cup (IF route \in ToneRoutes THEN RenderCtcss(c, intent) \cup RenderDcs(c, intent) ELSE {})
Routed(route, test) ==
  [i \in DOMAIN out'.spans |-> RouteSample(cfg, route, out'.spans[i].intent, Program(test))]

\* PreparedOutputs::external_ctcss_enable, for the state after the tick.
ExternalEnable(c, s, in) == c.external /\ s.ptt /\ s.enabled /\ ~in.inhibit
----------------------------------------------------------------------------
\* transmit_profiled: only a profile whose encoder is the DSP takes a tone.
Unsupported(in) == cfg.external /\ in.forced # 0
RefuseForced(in) ==
  /\ Unsupported(in)
  /\ out' = NoOutput("refused", in) /\ line' = Silent("unsupported")
  /\ UNCHANGED <<cfg, st, settled>>

\* The ring or the program processor fails: signaling time stands still.
FailEarly(in) ==
  /\ ~Unsupported(in)
  /\ out' = NoOutput("failed", in) /\ line' = Silent("provider failed")
  /\ UNCHANGED <<cfg, st, settled>>

Settled == settled' = (settled \/ ~st.ptt)

\* render_dcs or a filter behind it fails: the tick has happened, its spans,
\* events and words are not published.
FailLate(in) ==
  /\ ~Unsupported(in) /\ Tick(in) /\ out'.result # "rejected"
  /\ line' = Silent("provider failed") /\ Settled

Deliver(in) ==
  /\ ~Unsupported(in) /\ Tick(in) /\ Settled
  /\ IF out'.result = "rejected" THEN line' = Silent("invalid")
     ELSE \E test \in BOOLEAN :
            line' = [status |-> "ok", a |-> Routed(RouteA, test), b |-> Routed(RouteB, test),
                     ptt |-> st'.ptt, external |-> ExternalEnable(cfg, st', in)]

\* apply_transmit_update, between two callbacks.
Update(c) == UpdateConfig(c) /\ line' = Silent("none") /\ settled' = ~st.ptt

OutputNext ==
  \/ \E in \in Inputs : RefuseForced(in) \/ FailEarly(in) \/ FailLate(in) \/ Deliver(in)
  \/ \E c \in Policies : Update(c)

OutputSpec == OutputInit /\ [][OutputNext]_output
----------------------------------------------------------------------------
Heard == {line.a[i] : i \in DOMAIN line.a} \cup {line.b[i] : i \in DOMAIN line.b}

\* CTCSS inhibit is live control: in nothing an inhibited callback delivers is
\* the oscillator on and no external encoder is enabled by it, even where it
\* rekeys a tail, follows a retune or comes after a failed one.
InhibitSilences ==
  out.inhibit =>
    ~line.external /\ \A parts \in Heard : parts \cap {"ctcss", "no frequency"} = {}

\* Under a policy that has a tone for every decode, every span of a keyed
\* callback that is not inhibited carries it on each output that takes tones,
\* or the external encoder is on: an earlier inhibit, a mode change, a failure
\* that left the tick done, or an update from another policy does not leave the
\* oscillator off.  (After an update in mid-transmission it may be on without a
\* frequency: one it was enabled with under a policy that had none is kept.)
Tone == IF settled' THEN {"ctcss"} ELSE {"ctcss", "no frequency"}
KeyedCarriesTone ==
  [][(/\ st.txState = "active" /\ line'.status = "ok" /\ out'.result = "ok"
      /\ out'.request /\ ~out'.inhibit)
     => /\ cfg.external => line'.external
        /\ (cfg.ctcssTx /\ cfg.default # 0 /\ \A t \in Tones : cfg.mapped[t] # 0) =>
             /\ RouteA \in ToneRoutes => \A i \in DOMAIN line'.a : line'.a[i] \cap Tone # {}
             /\ RouteB \in ToneRoutes => \A i \in DOMAIN line'.b : line'.b[i] \cap Tone # {}]_output

\* CTCSS and DCS are never heard together under a policy that has been in force
\* since PTT rose, whatever is forced or decoded and whatever START an earlier
\* policy left queued.  (An update in mid-transmission may leave the tone of the
\* old policy under the new one's code.)
OneSignal ==
  settled => \A parts \in Heard : ~({"ctcss", "dcs"} \subseteq parts)
                                 /\ ~({"ctcss", "dcs turn-off"} \subseteq parts)
=============================================================================
