--------------------------- MODULE SampleCountdown ---------------------------
(***************************************************************************)
(* What a timer on a sample clock promises: once armed with a length it    *)
(* covers exactly that many of the next frames, in however many spans they *)
(* arrive, unless it is armed again or its owner is replaced.              *)
(***************************************************************************)
EXTENDS Integers

CONSTANTS
  Spans,    \* frames a span may have
  Lengths   \* frames the timer may be armed with; 0 leaves it alone

VARIABLES
  left,   \* frames still to cover
  spent   \* frames of the last span that were covered

vars == <<left, spent>>

Init == left = 0 /\ spent = 0

Span(n, length) ==
  LET owed == IF length = 0 THEN left ELSE length
  IN  /\ spent' = IF owed <= n THEN owed ELSE n
      /\ left' = owed - spent'

\* No frames arrive; the owner may be replaced.
Rest == spent' = 0 /\ left' \in {left, 0}

Next == Rest \/ \E n \in Spans, length \in Lengths : Span(n, length)

Spec == Init /\ [][Next]_vars
=============================================================================
