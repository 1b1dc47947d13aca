---------------------------- MODULE PttLifecycle ----------------------------
(***************************************************************************)
(* What a transmitter promises its radio, sample by sample and without any *)
(* signaling detail: PTT rises on a request, stays up until the request    *)
(* ends, then stays up for exactly the frames the turn-off owes, whatever  *)
(* the size of the callbacks those frames arrive in, and falls with one    *)
(* receiver-blanking arm.  A turn-off can be rekeyed only before its final *)
(* drain has begun.                                                        *)
(***************************************************************************)
EXTENDS Integers

CONSTANTS
  FrameCounts,  \* the native frame counts a callback may carry
  TailLengths,  \* the frames of PTT a turn-off may owe when it begins
  DrainChanges  \* what one final drain exchanged for another adds to a debt

VARIABLES
  phase,        \* "idle", "keyed", "tail" (rekeyable turn-off) or "drain"
  owed,         \* frames of PTT still owed before the release
  on,           \* frames the last callback rendered with PTT
  off,          \* frames the last callback rendered without PTT
  armed         \* the last callback armed receiver blanking

vars == <<phase, owed, on, off, armed>>

Init == phase = "idle" /\ owed = 0 /\ on = 0 /\ off = 0 /\ armed = FALSE

\* No frame reaches the radio: a held or rejected callback.
Skip == on' = 0 /\ off' = 0 /\ armed' = FALSE /\ UNCHANGED <<phase, owed>>

Idle(n) ==
  /\ phase = "idle"
  /\ on' = 0 /\ off' = n /\ armed' = FALSE
  /\ UNCHANGED <<phase, owed>>

\* PTT rises, or stays up, for the whole callback.
Key(n) ==
  /\ phase \in {"idle", "keyed", "tail"}
  /\ phase' = "keyed" /\ owed' = 0
  /\ on' = n /\ off' = 0 /\ armed' = FALSE

\* A callback of n frames spends a debt of d frames of PTT.
Spend(n, d) ==
  \/ /\ n < d
     /\ phase' \in IF phase = "drain" THEN {"drain"} ELSE {"tail", "drain"}
     /\ owed' = d - n /\ on' = n /\ off' = 0 /\ armed' = FALSE
  \/ /\ n >= d
     /\ phase' = "idle"
     /\ owed' = 0 /\ on' = d /\ off' = n - d /\ armed' = TRUE

BeginTurnoff(n) == phase = "keyed" /\ \E d \in TailLengths : Spend(n, d)

Turnoff(n) == phase \in {"tail", "drain"} /\ Spend(n, owed)

\* A new policy may exchange the drain an unfinished tail is to end with: the
\* rest of the tail, and a drain once begun, run to their end as they are.
Reconsider ==
  /\ phase = "tail"
  /\ \E x \in DrainChanges : owed + x > 0 /\ owed' = owed + x
  /\ on' = 0 /\ off' = 0 /\ armed' = FALSE
  /\ UNCHANGED phase

Next ==
  \/ Skip
  \/ Reconsider
  \/ \E n \in FrameCounts : Idle(n) \/ Key(n) \/ BeginTurnoff(n) \/ Turnoff(n)

Spec == Init /\ [][Next]_vars
=============================================================================
