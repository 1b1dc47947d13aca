--------------------------- MODULE SpeechAdmission ---------------------------
(***************************************************************************)
(* vad.rs: which speech decision belongs to which receive burst.  The      *)
(* converter and the classifier are outside; what they report in one span  *)
(* is in.speech, the frames that completed in it and how they scored.      *)
(* The session analyses in modes 1 (kerchunk) and 2 (on) only.             *)
(*                                                                         *)
(* A position is kept as its age: frames between the last positive frame   *)
(* and the end of the span, at most the hang, after which nothing depends  *)
(* on it.  The sample clock itself is not kept; "ahead" says that the      *)
(* analysis went on (expected_next) while the session's clock did not.     *)
(***************************************************************************)
EXTENDS Timer

CONSTANTS
  BurstModulus,  \* 2^64
  MaxHang,       \* the longest hang in frames
  MaxLag         \* frames by which a report may trail its span

Never == -1

\* What one span's frames amount to: the last score, and whether speech was
\* seen, at the latest `lag' frames before the end of the span.
SpeechReports ==
  [heard : {FALSE}, active : {FALSE}, scored : BOOLEAN, lag : {0}]
  \cup [heard : {TRUE}, active : BOOLEAN, scored : {TRUE}, lag : 0 .. MaxLag]

VadState ==
  [mode : 0 .. 2, hang : 0 .. MaxHang, raw : BOOLEAN, latched : BOOLEAN,
   active : BOOLEAN, age : Never .. MaxHang, burst : 0 .. BurstModulus - 1,
   opened : 0 .. MaxLag + 1, rearm : BOOLEAN, ahead : BOOLEAN]

\* SpeechVad::new
NewVad(mode, hang) ==
  [mode |-> mode, hang |-> hang, raw |-> FALSE, latched |-> FALSE,
   active |-> FALSE, age |-> Never, burst |-> 0, opened |-> 0,
   rearm |-> FALSE, ahead |-> FALSE]

\* rf_burst_id.wrapping_add(1).max(1)
NextBurst(b) == IF b + 1 = BurstModulus THEN 1 ELSE b + 1

\* Policy::set_raw
SetRaw(v, raw) ==
  [v EXCEPT !.raw = raw,
            !.burst = IF raw /\ ~v.raw THEN NextBurst(@) ELSE @,
            !.latched = raw /\ @, !.active = raw /\ @,
            !.age = IF raw THEN @ ELSE Never]

\* SpeechVad::reset; `works' says whether the converter accepts it.
Reset(v, works) ==
  [SetRaw(v, FALSE) EXCEPT !.ahead = FALSE, !.rearm = ~works]

Older(v, n) == IF v.age = Never THEN Never ELSE Least(v.age + n, v.hang)

\* Mutant: the latch follows the last score.
ObserveLast(v, n, report) ==
  [v EXCEPT !.latched = IF report.scored THEN report.active ELSE @,
            !.active = IF report.scored THEN report.active ELSE @,
            !.age = IF report.heard THEN Least(report.lag, v.hang)
                                    ELSE Older(v, n)]

\* Policy::observe over the frames of one span.
Observe(v, n, report) ==
  [v EXCEPT !.latched = @ \/ report.heard,
            !.active = IF report.scored THEN report.active ELSE @,
            !.age = IF report.heard THEN Least(report.lag, v.hang)
                                    ELSE Older(v, n)]

\* Policy::decision
Admitted(v) ==
  v.raw /\ IF v.mode = 1 THEN v.latched
           ELSE v.active \/ (v.age # Never /\ v.age < v.hang)

\* SpeechVad::process of a span of n frames: the new state, and whether it
\* succeeded.  A report must lie within the burst (record_frame).
Failed(v) == [v |-> v, ok |-> FALSE]
Analysed(v) == [v |-> v, ok |-> TRUE]

\* An open span: a burst begins or goes on, and is analysed if a mode asks.
ProcessOpen(v, n, in) ==
  LET open == [SetRaw(v, TRUE) EXCEPT
                 !.opened = Least((IF v.raw THEN @ ELSE 0) + n, MaxLag + 1)]
  IN  IF in.broken.speech \/ in.speech.lag >= open.opened
        THEN Failed(Reset(open, ~in.broken.rearm))
        ELSE Analysed(Observe(open, n, in.speech))

\* Mutant: a burst's end is noticed only at the start of the next one.
ProcessClosedLate(v, in) == Analysed(v)

\* A closed span ends the burst and rearms the analysis.
ProcessClosed(v, in) ==
  IF v.raw
    THEN LET w == Reset(v, ~in.broken.rearm)
         IN  [v |-> w, ok |-> ~w.rearm]
    ELSE Analysed(v)

Process(v, n, raw, in) ==
  LET fresh == IF v.ahead \/ v.rearm THEN Reset(v, ~in.broken.rearm) ELSE v
  IN  IF fresh.rearm THEN Failed(fresh)
      ELSE IF raw THEN ProcessOpen(fresh, n, in) ELSE ProcessClosed(fresh, in)
=============================================================================
