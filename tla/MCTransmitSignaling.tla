------------------------ MODULE MCTransmitSignaling -------------------------
(***************************************************************************)
(* Small instances of TransmitSignaling.  A millisecond is two frames and  *)
(* an interval two milliseconds, so a callback of three frames leaves a    *)
(* remainder and cuts phases mid-way, and one of twenty-one crosses tail,  *)
(* gap, drain and idle in one go.                                          *)
(***************************************************************************)
EXTENDS TransmitSignaling, TLC

MCTones == {"a", "b"}
Map(a, b) == ("a" :> a) @@ ("b" :> b)

Base == [external |-> FALSE, ctcssTx |-> TRUE, default |-> 1, mapped |-> Map(2, 0),
         ctcssTailMs |-> 3, toneOff |-> "PhaseShift", dcsTx |-> FALSE,
         dcsTurnoff |-> FALSE, dcsTailMs |-> 0, blankingMs |-> 5,
         settleMs |-> 2, cpuSaver |-> FALSE]
Burst    == Base
Full     == [Base EXCEPT !.mapped = Map(2, 1)]
TailTone == [Base EXCEPT !.toneOff = "TailTone", !.cpuSaver = TRUE]
Remove   == [Base EXCEPT !.toneOff = "ToneRemove"]
Chop     == [Base EXCEPT !.toneOff = "ToneRemove", !.ctcssTailMs = 0]
Plain    == [Base EXCEPT !.ctcssTx = FALSE, !.toneOff = "None"]
Dcs      == [Plain EXCEPT !.dcsTx = TRUE, !.dcsTurnoff = TRUE, !.dcsTailMs = 4]
External == [Remove EXCEPT !.external = TRUE, !.ctcssTx = FALSE, !.default = 0,
                           !.mapped = Map(0, 0)]

Callbacks(frames, decodes, dcs, inhibits, forced) ==
  [frames : frames, admitted : BOOLEAN, request : BOOLEAN, physical : BOOLEAN,
   decoded : decodes, dcsValid : dcs, inhibit : inhibits, forced : forced]

AllPolicies  == {Burst, TailTone, Remove, Chop, Plain, Dcs, External}

\* Crosses every phase with and without inhibit, physical PTT and admission.
TailInputs == Callbacks({3, 21}, {NoTone}, {FALSE}, BOOLEAN, {0})

\* Callbacks that force a tone.
ForcedInputs == {in \in Callbacks({8}, {NoTone, "a"}, {FALSE}, {FALSE}, {1}) :
                   in.physical /\ in.admitted}

\* Varies what the receiver decodes instead; held callbacks are short ones.
ToneInputs == ForcedInputs \cup {in \in Callbacks({3, 8}, MCTones \cup {NoTone}, BOOLEAN, BOOLEAN, {0}) :
                 in.physical /\ (~in.admitted => in.frames = 3 /\ ~in.inhibit)}
=============================================================================
