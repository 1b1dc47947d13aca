------------------------ MODULE ReceiveQualification -------------------------
(***************************************************************************)
(* receive_qualification.rs: the carrier and sub-audible indications of    *)
(* one callback, and the two delays that stand between them and a keyed    *)
(* receiver.  A hardware, parallel or DSP input with its polarity is one   *)
(* "wired" source, in.carrier or in.tone the level it resolves to.         *)
(*                                                                         *)
(* A configuration c has the sources carrier and subaudible, override,     *)
(* duplex (advanced transport or a duplex radio), rxOn and txOff, and      *)
(* toned: whether CTCSS or DCS reception is enabled.                       *)
(***************************************************************************)
EXTENDS Timer

CONSTANTS
  IntervalFrames,  \* QUALIFICATION_INTERVAL_FRAMES
  MaxIntervals     \* the longest delay in intervals: MAX_TX_OFF_DELAY_FRAMES

CarrierSources == {"ignore", "open", "wired", "external"}
SubaudibleSources == {"ignore", "dsp", "wired"}

QualificationConfig ==
  [carrier : CarrierSources, subaudible : SubaudibleSources,
   override : BOOLEAN, duplex : BOOLEAN,
   rxOn : 0 .. MaxIntervals, txOff : 0 .. MaxIntervals]

MaxTxOffFrames == MaxIntervals * IntervalFrames

QualificationState ==
  [carrier : BOOLEAN, subaudible : BOOLEAN, keyed : BOOLEAN,
   admission : 0 .. MaxTxOffFrames, release : 0 .. MaxTxOffFrames]

\* external_carrier, with in.external an external snapshot or "absent".
RawCarrier(c, in) ==
  CASE c.carrier = "ignore"   -> FALSE
    [] c.carrier = "open"     -> TRUE
    [] c.carrier = "wired"    -> in.carrier
    [] c.carrier = "external" -> in.external = "present"

\* dsp_subaudible_active, and the sources that replace it.
RawSubaudible(c, toned, in) ==
  IF c.subaudible = "wired" THEN in.tone ELSE toned => in.tone

\* resolve_indications
Resolve(c, toned, in, blanked, q) ==
  LET unsourced == c.carrier = "ignore" /\ c.subaudible = "ignore"
  IN  [q EXCEPT !.carrier = /\ ~unsourced /\ ~blanked /\ RawCarrier(c, in)
                            /\ in.ptt => c.duplex,
                !.subaudible = /\ ~unsourced
                               /\ RawSubaudible(c, toned, in) \/ c.override]

\* advance_tx_release
AdvanceRelease(c, in, q) ==
  [q EXCEPT !.release = IF in.ptt \/ c.txOff = 0 THEN 0
                        ELSE Least(@ + in.frames, MaxTxOffFrames)]

QualificationFrames(intervals) == intervals * IntervalFrames

\* tx_release_qualified
ReleaseQualified(c, q) == q.release >= QualificationFrames(c.txOff)

\* Mutant: the receive-on delay survives a loss of the signal.
QualifyWithoutRestart(c, n, q) ==
  LET needed == QualificationFrames(c.rxOn)
      waited == IF needed = 0 THEN 0 ELSE Least(q.admission + n, needed)
  IN  CASE ~(q.carrier /\ q.subaudible) -> [q EXCEPT !.keyed = FALSE]
        [] q.carrier /\ q.subaudible /\ q.keyed -> q
        [] q.carrier /\ q.subaudible /\ ~q.keyed ->
             [q EXCEPT !.admission = waited,
                       !.keyed = waited >= needed /\ ReleaseQualified(c, q)]

\* qualify_receive
Qualify(c, n, q) ==
  LET admitted == q.carrier /\ q.subaudible
      needed   == QualificationFrames(c.rxOn)
      waited   == IF needed = 0 THEN 0 ELSE Least(q.admission + n, needed)
  IN  CASE ~admitted -> [q EXCEPT !.keyed = FALSE, !.admission = 0]
        [] admitted /\ q.keyed -> q
        [] admitted /\ ~q.keyed ->
             [q EXCEPT !.admission = waited,
                       !.keyed = waited >= needed /\ ReleaseQualified(c, q)]

\* advance
AdvanceQualification(c, toned, in, blanked, q) ==
  Qualify(c, in.frames, AdvanceRelease(c, in, Resolve(c, toned, in, blanked, q)))
=============================================================================
