----------------------------- MODULE MCReception -----------------------------
(***************************************************************************)
(* Small instances of Reception.  Keying: qualification, blanking and the  *)
(* plain delay, with every failure of the plain path.  Speech: admission   *)
(* in both modes, the gated delay and every update that touches them.      *)
(***************************************************************************)
EXTENDS Reception

Plainly ==
  [carrier |-> "wired", subaudible |-> "wired", override |-> FALSE,
   duplex |-> FALSE, rxOn |-> 0, txOff |-> 0, toned |-> FALSE, detector |-> 0,
   profiled |-> FALSE, vadMode |-> 0, hang |-> 0, squelchDelay |-> 0,
   externalDelay |-> FALSE, gain |-> TRUE, channel |-> 0]

KeyingPolicies ==
  {[Plainly EXCEPT !.rxOn = 1, !.txOff = 2],
   [Plainly EXCEPT !.rxOn = 2, !.txOff = 1],
   [Plainly EXCEPT !.rxOn = 1, !.duplex = TRUE, !.detector = 1],
   [Plainly EXCEPT !.txOff = 2, !.carrier = "external",
                   !.subaudible = "ignore", !.toned = TRUE]}

Spoken ==
  [Plainly EXCEPT !.subaudible = "ignore", !.vadMode = 1, !.squelchDelay = 1]

SpeechPolicies ==
  {Spoken,
   [Spoken EXCEPT !.squelchDelay = 3],
   [Spoken EXCEPT !.vadMode = 2, !.hang = 3],
   [Spoken EXCEPT !.vadMode = 2, !.hang = 3, !.externalDelay = TRUE,
                  !.squelchDelay = 0],
   [Spoken EXCEPT !.channel = 1],
   [Spoken EXCEPT !.vadMode = 0, !.squelchDelay = 2],
   [Spoken EXCEPT !.carrier = "ignore", !.hang = 3]}

Nothing == [rearm |-> FALSE, deemphasis |-> FALSE, speech |-> FALSE, filter |-> FALSE]
Quiet == [heard |-> FALSE, active |-> FALSE, scored |-> FALSE, lag |-> 0]

KeyingInput(frames, arms, broken) ==
  [frames : frames, carrier : BOOLEAN, tone : BOOLEAN, external : {"absent"},
   valid : {TRUE}, override : {FALSE}, ptt : BOOLEAN, arm : arms,
   speech : {Quiet}, broken : broken]

KeyingInputs ==
  KeyingInput({1, 3}, {0, 1, 2}, {Nothing})
  \cup KeyingInput({3}, {0, 2}, {[Nothing EXCEPT !.filter = TRUE]})
  \cup [frames : {1}, carrier : {FALSE}, tone : BOOLEAN,
        external : {"present", "idle"}, valid : {TRUE}, override : BOOLEAN,
        ptt : BOOLEAN, arm : {0}, speech : {Quiet},
        broken : {Nothing, [Nothing EXCEPT !.deemphasis = TRUE]}]

Voice == [heard |-> TRUE, active |-> TRUE, scored |-> TRUE, lag |-> 0]

SpeechInput(frames, reports, broken) ==
  [frames : frames, carrier : BOOLEAN, tone : {TRUE}, external : {"absent"},
   valid : {TRUE}, override : {FALSE}, ptt : {FALSE}, arm : {0},
   speech : reports, broken : broken]

SpeechInputs ==
  SpeechInput({1, 2}, SpeechReports, {Nothing})
  \cup SpeechInput({1}, {Quiet, Voice},
         {[Nothing EXCEPT !.rearm = TRUE], [Nothing EXCEPT !.filter = TRUE],
          [Nothing EXCEPT !.deemphasis = TRUE],
          [Nothing EXCEPT !.speech = TRUE, !.rearm = TRUE]})
=============================================================================
