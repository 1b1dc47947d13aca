----------------------------- MODULE EventQueue -----------------------------
(***************************************************************************)
(* session.rs EventQueue: the lock-free queue between one callback owner,  *)
(* which pushes, and one control thread, which pops.  A push or a pop is   *)
(* cut where another thread can come between: the loads of the two         *)
(* indices, the plain access to the slot, the publishing store.            *)
(*                                                                         *)
(* The other side's index is loaded with acquire ordering, which bounds    *)
(* what may be read only from below: it returns some value between the one *)
(* this side saw last and the current one.  Indices are u64 and wrap.      *)
(***************************************************************************)
EXTENDS Integers, Sequences

CONSTANTS
  Capacity,  \* EVENT_CAPACITY
  Modulus,   \* 2^64
  Events,    \* the events a callback may push
  Nothing    \* Event::default()

ASSUME QueueAssumption ==
  /\ Capacity \in Nat \ {0} /\ Modulus \in Nat
  /\ Modulus > Capacity /\ Modulus % Capacity = 0

Index == 0 .. Modulus - 1
Slots == 0 .. Capacity - 1

VARIABLES
  storage,    \* the slots
  write,      \* next index to publish, stored by the producer only
  read,       \* next index to take, stored by the consumer only
  drops,      \* drop counter
  pushing,    \* the producer's step: "idle", "slot" (writing it), "publish"
  event,      \* the event being pushed
  seenRead,   \* the value of read the producer loaded last
  popping,    \* the consumer's step: "idle", "slot" (copying it), "release"
  copy,       \* what it copied
  seenWrite,  \* the value of write the consumer loaded last
  popped      \* the event the last successful pop returned

producer == <<pushing, event, seenRead, write, drops>>
consumer == <<popping, copy, seenWrite, read, popped>>
vars == <<storage, producer, consumer>>
-----------------------------------------------------------------------------
(* Index arithmetic *)

\* Mutant: an index that does not wrap at the width of its type.
SuccUnwrapped(i) == i + 1

\* i.wrapping_add(1)
Succ(i) == IF i + 1 = Modulus THEN 0 ELSE i + 1

\* a.wrapping_sub(b)
Distance(a, b) == IF a >= b THEN a - b ELSE a - b + Modulus

\* The index n after i, and the values an acquire load may return of an index
\* that is now `now' and was `seen' at the last load.
Ahead(i, n) == IF i + n >= Modulus THEN i + n - Modulus ELSE i + n
Loadable(seen, now) == {Ahead(seen, n) : n \in 0 .. Distance(now, seen)}

Slot(i) == i % Capacity
-----------------------------------------------------------------------------
(* push *)

Init ==
  /\ storage = [s \in Slots |-> Nothing]
  /\ write = 0 /\ read = 0 /\ drops = 0
  /\ pushing = "idle" /\ event = Nothing /\ seenRead = 0
  /\ popping = "idle" /\ copy = Nothing /\ seenWrite = 0 /\ popped = Nothing

\* Mutant: one event more than there are slots.
FullLate(r) == Distance(write, r) > Capacity

Full(r) == Distance(write, r) >= Capacity

PushFull(r) ==
  /\ pushing = "idle" /\ Full(r)
  /\ seenRead' = r /\ drops' = (drops + 1) % Modulus
  /\ UNCHANGED <<storage, consumer, pushing, event, write>>

PushAdmit(e, r) ==
  /\ pushing = "idle" /\ ~Full(r)
  /\ seenRead' = r /\ event' = e /\ pushing' = "slot"
  /\ UNCHANGED <<storage, consumer, write, drops>>

\* Mutant: the event is stored only after it was published.
PublishFirst ==
  /\ pushing = "slot"
  /\ write' = Succ(write) /\ pushing' = "publish"
  /\ UNCHANGED <<storage, consumer, event, seenRead, drops>>

WriteSlot ==
  /\ pushing = "slot"
  /\ storage' = [storage EXCEPT ![Slot(write)] = event]
  /\ pushing' = "publish"
  /\ UNCHANGED <<consumer, event, seenRead, write, drops>>

Publish ==
  /\ pushing = "publish"
  /\ write' = Succ(write) /\ pushing' = "idle"
  /\ UNCHANGED <<storage, consumer, event, seenRead, drops>>
-----------------------------------------------------------------------------
(* pop *)

PopEmpty(w) ==
  /\ popping = "idle" /\ read = w
  /\ seenWrite' = w
  /\ UNCHANGED <<storage, producer, popping, copy, read, popped>>

\* Mutant: pop without the emptiness test.
PopAnyway(w) ==
  /\ popping = "idle"
  /\ seenWrite' = w /\ popping' = "slot"
  /\ UNCHANGED <<storage, producer, copy, read, popped>>

PopAdmit(w) ==
  /\ popping = "idle" /\ read # w
  /\ seenWrite' = w /\ popping' = "slot"
  /\ UNCHANGED <<storage, producer, copy, read, popped>>

CopySlot ==
  /\ popping = "slot"
  /\ copy' = storage[Slot(read)] /\ popping' = "release"
  /\ UNCHANGED <<storage, producer, seenWrite, read, popped>>

Release ==
  /\ popping = "release"
  /\ read' = Succ(read) /\ popped' = copy /\ popping' = "idle"
  /\ UNCHANGED <<storage, producer, copy, seenWrite>>

Push ==
  \/ \E r \in Loadable(seenRead, read) : PushFull(r) \/ \E e \in Events : PushAdmit(e, r)
  \/ WriteSlot \/ Publish

Pop ==
  \/ \E w \in Loadable(seenWrite, write) : PopEmpty(w) \/ PopAdmit(w)
  \/ CopySlot \/ Release

Next == Push \/ Pop

Spec == Init /\ [][Next]_vars
-----------------------------------------------------------------------------
(* Properties *)

TypeOK ==
  /\ storage \in [Slots -> Events \cup {Nothing}]
  /\ write \in Index /\ read \in Index /\ drops \in Index
  /\ seenRead \in Index /\ seenWrite \in Index
  /\ pushing \in {"idle", "slot", "publish"}
  /\ popping \in {"idle", "slot", "release"}
  /\ event \in Events \cup {Nothing}
  /\ copy \in Events \cup {Nothing} /\ popped \in Events \cup {Nothing}

\* However old the indices each side works with, they keep their order round
\* the u64 circle: seenRead, read, seenWrite, write, with write at most
\* Capacity ahead of seenRead and a push in progress leaving room for itself.
IndicesOrdered ==
  /\ Distance(write, seenRead) <= Capacity
  /\ pushing # "idle" => Distance(write, seenRead) < Capacity
  /\ Distance(write, read) <= Distance(write, seenRead)
  /\ Distance(write, seenWrite) <= Distance(write, read)
  /\ popping # "idle" => Distance(write, seenWrite) < Distance(write, read)

\* The SAFETY comments of push and pop: the producer is never writing the slot
\* the consumer is copying.
NoSlotRace ==
  pushing = "slot" /\ popping = "slot" => Slot(write) # Slot(read)

-----------------------------------------------------------------------------
(* The channel this queue implements *)

Queue == [i \in 1 .. Distance(write, read) |-> storage[Slot(Ahead(read, i - 1))]]
Visible == Distance(seenWrite, read)
Credits == Capacity - Distance(write, seenRead)
Returning == Distance(read, seenRead)

Channel == INSTANCE CreditChannel WITH
  queue <- Queue, visible <- Visible, credits <- Credits,
  returning <- Returning, taken <- popped

\* What was accepted is taken once, in order and intact, across the wrap of
\* the indices and however old an index is read, and every refusal is counted.
ImplementsChannel == Channel!Spec
=============================================================================
