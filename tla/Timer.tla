------------------------------- MODULE Timer --------------------------------
(***************************************************************************)
(* timer.rs: native frames, whole milliseconds and the fraction of one     *)
(* that is carried from callback to callback.                              *)
(***************************************************************************)
EXTENDS Integers

CONSTANT FramesPerMs   \* timer::FRAMES_PER_MILLISECOND

Least(a, b) == IF a <= b THEN a ELSE b

\* timer::elapsed_ms and the remainder it leaves.
ElapsedMs(rem, frames) == (rem + frames) \div FramesPerMs
Remainder(rem, frames) == (rem + frames) % FramesPerMs

\* Mutant: a countdown that runs below zero.
ConsumeUnclamped(timer, ms) == timer - ms

\* timer::consume, as the value it leaves in the timer.
Consume(timer, ms) ==
  IF timer <= 0 \/ ms <= 0 THEN timer ELSE IF ms >= timer THEN 0 ELSE timer - ms

DurationFrames(ms) == ms * FramesPerMs
=============================================================================
