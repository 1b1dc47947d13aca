--------------------------- MODULE MCReceiveChain ----------------------------
(***************************************************************************)
(* Sixteen codes, four-entry filters, a baseband sample in two frames and  *)
(* a gate interval of two: callbacks of three frames leave every counter   *)
(* in the middle of something.                                             *)
(***************************************************************************)
EXTENDS ReceiveChain

Plain ==
  [carrier |-> "noise", ctcss |-> FALSE, dcs |-> FALSE, saver |-> FALSE,
   baseTaps |-> <<1, 1, 1, 1>>, baseAdjust |-> 2, baseGain |-> 4, decimate |-> 2,
   noiseTaps |-> <<1, -1>>, noiseDivisor |-> 4, window |-> 2, openLevel |-> 2, hysteresis |-> 4,
   lsd |-> [taps |-> <<2, 1>>, inputGain |-> 4, outputGain |-> 4, adjust |-> 2],
   slicer |-> [limit |-> 3, setpoint |-> 5, decay |-> 1],
   hpf |-> [taps |-> <<>>, inputGain |-> 4, outputGain |-> 4, adjust |-> 1],
   deemphasis |-> [coefficient |-> 8, feedback |-> 4, gain |-> 4],
   delay |-> [capacity |-> 0, lead |-> 0],
   vox |-> [decay |-> 1, threshold |-> 2, hang |-> 3]]

Tone    == [Plain EXCEPT !.ctcss = TRUE, !.baseTaps = <<1, 0, 1, 0>>, !.lsd.taps = <<1>>]
Code    == [Plain EXCEPT !.dcs = TRUE, !.saver = TRUE]
Vox     == [Plain EXCEPT !.carrier = "vox", !.baseTaps = <<1, 0, 1, 0>>, !.saver = TRUE]
Wired   == [Plain EXCEPT !.carrier = "wired", !.ctcss = TRUE,
                         !.slicer.decay = 2, !.saver = TRUE]
Delayed == [Plain EXCEPT !.baseTaps = <<1, 0>>, !.noiseTaps = <<1>>, !.hysteresis = 1, !.hpf.taps = <<1>>,
                         !.deemphasis.feedback = 1, !.delay = [capacity |-> 2, lead |-> 1]]

MCConfigs == {Tone, Code, Vox, [Vox EXCEPT !.vox.hang = 5, !.saver = FALSE],
              Wired, [Tone EXCEPT !.slicer.limit = 1],
              Delayed}
Spans == {<<-9>>, <<7>>, <<7, 7, 7>>, <<-9, 7, 7>>, <<7, -9, -9>>, <<-9, -9, 7>>}
MCInputs ==
  [samples : Spans, fit : {TRUE}, external : {"none", "present"}, ptt : {FALSE}]
  \cup [samples : {<<0>>}, fit : BOOLEAN, external : {"none", "absent"}, ptt : {TRUE}]
  \cup [samples : {<<>>, <<0>>, <<0, 0, 0, 0>>}, fit : {TRUE},
         external : {"none", "absent"}, ptt : {FALSE}]

\* Every processor with everything; and few, with a noise reduction that is only
\* kept in step and no notch for the tail.
Rich == [n \in Names |-> IF n = "noise reduction" THEN {"warm", "process", "bypass"} ELSE {"process"}]
Poor == [n \in Names |->
  CASE n = "noise reduction" -> {"bypass"} [] n = "filter" -> {"warm", "process"}
    [] n = "notch" -> {"process"} [] n = "dynamics" -> {"warm"} [] OTHER -> {}]
MCPorts == {Rich, Poor}
=============================================================================
