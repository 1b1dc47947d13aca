---------------------------- MODULE CreditChannel ----------------------------
(***************************************************************************)
(* What an event queue promises its one producer and its one consumer: a   *)
(* bounded FIFO in which an accepted event is delivered exactly once and   *)
(* in order, and an event is refused only while the producer holds no      *)
(* credit.  A slot the consumer has freed becomes a credit when the        *)
(* producer hears of it, an event becomes visible when the consumer does.  *)
(***************************************************************************)
EXTENDS Integers, Sequences

CONSTANTS
  Events,    \* what may be queued
  Nothing,   \* the consumer has taken nothing yet
  Capacity,  \* slots
  Modulus    \* the drop counter wraps here

VARIABLES
  queue,      \* accepted events not yet taken, oldest first
  visible,    \* how many of them the consumer knows of
  credits,    \* free slots the producer knows of
  returning,  \* free slots it has not heard of
  drops,      \* refused events
  taken       \* the last event taken

vars == <<queue, visible, credits, returning, drops, taken>>

Init ==
  /\ queue = <<>> /\ visible = 0
  /\ credits = Capacity /\ returning = 0
  /\ drops = 0 /\ taken = Nothing

\* The producer hears of freed slots, the consumer of accepted events.
Hear ==
  /\ \E k \in 1 .. returning : credits' = credits + k /\ returning' = returning - k
  /\ UNCHANGED <<queue, visible, drops, taken>>

See ==
  /\ visible' \in visible + 1 .. Len(queue)
  /\ UNCHANGED <<queue, credits, returning, drops, taken>>

Accept(e) ==
  /\ credits > 0
  /\ queue' = Append(queue, e) /\ credits' = credits - 1
  /\ UNCHANGED <<visible, returning, drops, taken>>

Refuse ==
  /\ credits = 0
  /\ drops' = (drops + 1) % Modulus
  /\ UNCHANGED <<queue, visible, credits, returning, taken>>

Take ==
  /\ visible > 0
  /\ taken' = Head(queue) /\ queue' = Tail(queue)
  /\ visible' = visible - 1 /\ returning' = returning + 1
  /\ UNCHANGED <<credits, drops>>

Next == Hear \/ See \/ (\E e \in Events : Accept(e)) \/ Refuse \/ Take

Spec == Init /\ [][Next]_vars
=============================================================================
