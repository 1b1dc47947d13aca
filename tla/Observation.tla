----------------------------- MODULE Observation -----------------------------
(***************************************************************************)
(* What the control plane can know of one owner: the events it pops and    *)
(* the status snapshot it reads, while the owner's callbacks push and      *)
(* store.  There is no lock: a callback stores field after field, the      *)
(* reader loads them in an order of its own, and most of these accesses    *)
(* are relaxed.                                                            *)
(*                                                                         *)
(* A location is the sequence of its stores.  A load returns any store not *)
(* older than what the reader already knows; an acquire load of a release  *)
(* store also teaches it everything the owner had stored by then.          *)
(* EventQueue has the queue's slots; here it is its published index.       *)
(*                                                                         *)
(* Both owners are here: they differ in how a failing provider leaves the  *)
(* edges, and in what the fields are.  `frames' stands for the first field *)
(* a callback stores, `state' for those in the middle, `last' for the one  *)
(* it ends with: dcs_valid, or ring_concealment.                           *)
(***************************************************************************)
EXTENDS Integers, Sequences, FiniteSets, SequencesExt

CONSTANTS
  Sides,      \* the owners: "receive", "transmit"
  Kinds,      \* the indications an owner reports the edges of
  Capacity,   \* EVENT_CAPACITY
  Interval,   \* publication_interval_frames
  Lengths,    \* frames a callback may carry
  MaxCalls    \* bound: callbacks

ASSUME ObservationAssumption ==
  /\ Sides \subseteq {"receive", "transmit"} /\ Lengths \subseteq Nat \ {0}
  /\ IsFiniteSet(Kinds) /\ "ProviderFailure" \notin Kinds
  /\ Capacity \in Nat \ {0} /\ Interval \in Nat \ {0} /\ MaxCalls \in Nat

VARIABLES
  side,       \* whose observation this is
  memory,     \* the stores to each location, oldest first
  owner,      \* the callback owner: its indications, what it stores next
  published,  \* the indications of each publication, the initial ones first
  cadence,    \* the periodic status: frames left, frames since the last, due
  reader      \* the control thread: what it knows, shows and has popped

vars == <<side, memory, owner, published, cadence, reader>>

Fields == {"frames", "state", "last"}
Locations == Fields \cup {"write", "drops", "failures"}
\* The order snapshot() loads them in.
Loads == <<"frames", "failures", "drops", "state", "last">>

Releases(l) == l \in {"write", "last"} \/ (l = "state" /\ side = "transmit")
Acquires(l) == l \in {"write", "frames", "last"}

Larger(a, b) == IF a > b THEN a ELSE b
Count(l) == Len(memory[l]) - 1
Failed == "ProviderFailure"
Nothing == [kind |-> "none", value |-> FALSE]
Unknown == [l \in Locations |-> 1]
Still == [k \in Kinds |-> FALSE]

Init ==
  /\ side \in Sides
  /\ memory = [l \in Locations |-> <<[at |-> 0, event |-> Nothing, view |-> Unknown]>>]
  /\ owner = [now |-> Still, todo |-> <<>>, seenRead |-> 0, calls |-> 0]
  /\ published = <<Still>>
  /\ cadence = [left |-> Interval, since |-> 0, due |-> FALSE]
  /\ reader = [floor |-> Unknown, todo |-> <<>>, seen |-> [l \in Locations |-> 0],
               stamp |-> 0, heard |-> 0, before |-> 0, popped |-> 0, answer |-> "none"]
----------------------------------------------------------------------------
(* The owner *)

Push(kind, value) == [to |-> "write", event |-> [kind |-> kind, value |-> value]]
Store(l) == [to |-> l, event |-> Nothing]

\* provider_failure: the counter, then the event.
Failure == <<Store("failures"), Push(Failed, TRUE)>>

\* Mutant: the snapshot is stored before the edges are pushed.
StoreThenPush(edges) == <<Store("frames"), Store("state"), Store("last")>> \o edges
\* Mutant: the field that is published with a release comes first.
PublishFirst(edges) == edges \o <<Store("last"), Store("frames"), Store("state")>>
\* The end of a callback that failed nowhere.
Publication(edges) == edges \o <<Store("frames"), Store("state"), Store("last")>>

\* push_edge for each indication that changed.
Edges(old, new) ==
  LET changed == SetToSeq({k \in Kinds : old[k] # new[k]}) IN
  [i \in DOMAIN changed |-> Push(changed[i], new[changed[i]])]

\* Mutant: one period is added, however many have passed.
PublicationDueOnce(left, n) ==
  IF n < left THEN [due |-> FALSE, left |-> left - n]
  ELSE [due |-> TRUE, left |-> left + Interval - n]
\* publication_due, in frames from the sample clock: the next publication goes
\* on by whole intervals until it is ahead of the clock.
PublicationDue(left, n) ==
  IF n < left THEN [due |-> FALSE, left |-> left - n]
  ELSE [due |-> TRUE, left |-> Interval - ((n - left) % Interval)]

Idle == owner.todo = <<>> /\ owner.calls < MaxCalls

\* A callback that runs to its end: it works out the edges, then stores.
Publishing(new, n) ==
  /\ Idle
  /\ owner' = [owner EXCEPT !.now = new, !.calls = @ + 1,
                            !.todo = Publication(Edges(owner.now, new))]
  /\ published' = Append(published, new)
  /\ cadence' = [due  |-> PublicationDue(cadence.left, n).due,
                 left |-> PublicationDue(cadence.left, n).left,
                 since |-> (cadence.since + n) % Interval]
  /\ UNCHANGED <<side, memory, reader>>

\* A callback whose provider fails.  The receive edges are taken against what
\* was published last; the transmit ones come from the signaling tick, which a
\* provider after it does not undo.
Failing(new) ==
  /\ Idle /\ (side = "receive" => new = owner.now)
  /\ owner' = [owner EXCEPT !.now = new, !.calls = @ + 1, !.todo = Failure]
  /\ UNCHANGED <<side, memory, published, cadence, reader>>

\* An applied update starts a new period.
Update ==
  /\ owner.todo = <<>>
  /\ cadence' = [left |-> Interval, since |-> 0, due |-> FALSE]
  /\ UNCHANGED <<side, memory, owner, published, reader>>

\* The publication a store of the callback in progress belongs to: the one it
\* makes, or would have made.
At == IF owner.todo[Len(owner.todo)].to = "write" /\ owner.todo[Len(owner.todo)].event.kind = Failed
        THEN Len(published) ELSE Len(published) - 1

\* What the owner has stored, with one more store to l.
View(l) == [m \in Locations |-> Len(memory[m]) + (IF m = l THEN 1 ELSE 0)]
Write(l, at, event) ==
  memory' = [memory EXCEPT ![l] =
    Append(@, [at |-> at, event |-> event, view |-> IF Releases(l) THEN View(l) ELSE Unknown])]
Done == [owner EXCEPT !.todo = Tail(@)]

StoreField ==
  /\ owner.todo # <<>> /\ Head(owner.todo).to # "write"
  /\ Write(Head(owner.todo).to, At, Nothing)
  /\ owner' = Done /\ UNCHANGED <<side, published, cadence, reader>>

\* EventQueue::push, with an index of the reader that may be an old one.
PushEvent(r) ==
  /\ owner.todo # <<>> /\ Head(owner.todo).to = "write"
  /\ Count("write") - r < Capacity
  /\ Write("write", At, Head(owner.todo).event)
  /\ owner' = [Done EXCEPT !.seenRead = r] /\ UNCHANGED <<side, published, cadence, reader>>
\* Mutant: the event is dropped and nothing counted.
DropUncounted(r) ==
  /\ owner.todo # <<>> /\ Head(owner.todo).to = "write"
  /\ Count("write") - r >= Capacity
  /\ owner' = [Done EXCEPT !.seenRead = r]
  /\ UNCHANGED <<side, memory, published, cadence, reader>>
DropEvent(r) ==
  /\ owner.todo # <<>> /\ Head(owner.todo).to = "write"
  /\ Count("write") - r >= Capacity
  /\ Write("drops", At, Nothing)
  /\ owner' = [Done EXCEPT !.seenRead = r] /\ UNCHANGED <<side, published, cadence, reader>>
----------------------------------------------------------------------------
(* The reader *)

\* Mutant: no load acquires.
KnowingRelaxed(l, i) == [reader.floor EXCEPT ![l] = i]
\* What it knows once it has loaded store i of location l.
Knowing(l, i) ==
  [m \in Locations |->
     Larger(IF m = l THEN i ELSE reader.floor[m],
            IF Acquires(l) THEN memory[l][i].view[m] ELSE 1)]
Loadable(l) == reader.floor[l] .. Len(memory[l])

\* snapshot(), load by load.  A counter shows how often it was added to.
BeginSnapshot ==
  /\ reader.todo = <<>>
  /\ reader' = [reader EXCEPT !.todo = Loads, !.stamp = reader.seen.last, !.before = reader.heard,
                              !.answer = "none"]
  /\ UNCHANGED <<side, memory, owner, published, cadence>>
Load(i) ==
  /\ reader.todo # <<>> /\ i \in Loadable(Head(reader.todo))
  /\ LET l == Head(reader.todo) IN
     reader' = [reader EXCEPT
       !.floor = Knowing(l, i), !.todo = Tail(@), !.seen[l] =
         IF l \in Fields THEN memory[l][i].at ELSE i - 1]
  /\ UNCHANGED <<side, memory, owner, published, cadence>>

\* pop_receive_event, pop_transmit_event.
PopEmpty(i) ==
  /\ reader.todo = <<>> /\ i \in Loadable("write") /\ i - 1 = reader.popped
  /\ reader' = [reader EXCEPT !.floor = Knowing("write", i), !.answer = "empty"]
  /\ UNCHANGED <<side, memory, owner, published, cadence>>
PopEvent(i) ==
  /\ reader.todo = <<>> /\ i \in Loadable("write") /\ i - 1 > reader.popped
  /\ reader' = [reader EXCEPT
       !.floor = Knowing("write", i), !.popped = @ + 1, !.answer = "event",
       !.heard = memory["write"][reader.popped + 2].at]
  /\ UNCHANGED <<side, memory, owner, published, cadence>>

Next ==
  \/ \E new \in [Kinds -> BOOLEAN] : Failing(new) \/ \E n \in Lengths : Publishing(new, n)
  \/ Update \/ StoreField
  \/ \E r \in owner.seenRead .. reader.popped : PushEvent(r) \/ DropEvent(r)
  \/ BeginSnapshot
  \/ \E i \in 1 .. 3 * MaxCalls + 1 : Load(i) \/ PopEmpty(i) \/ PopEvent(i)

Spec == Init /\ [][Next]_vars
----------------------------------------------------------------------------
Loaded == Fields \ {reader.todo[j] : j \in DOMAIN reader.todo}

\* One snapshot may mix publications; the one after it shows none that is older
\* than the flag the earlier one ended with.
SnapshotsCatchUp == \A f \in Loaded : reader.seen[f] >= reader.stamp

\* A snapshot taken after an event shows at least the publication before that
\* event's.
SnapshotFollowsEvents == \A f \in Loaded : reader.seen[f] >= reader.before - 1

\* And once a snapshot has shown a publication and the queue has answered that it is
\* empty, every event of that publication and of earlier ones was taken.
EventsPrecedeSnapshot ==
  reader.answer = "empty" =>
    \A i \in 2 .. Len(memory["write"]) :
      memory["write"][i].at <= reader.seen.last => i - 1 <= reader.popped

\* The two ways to observe a session agree on its order: the edges of a callback
\* are published before its snapshot, and never more than one callback before.
EventsAndSnapshotsAgree == SnapshotFollowsEvents /\ EventsPrecedeSnapshot

\* The indications as the events up to publication n tell them: the last of a
\* kind does.
Told(n, k) ==
  {i \in 2 .. reader.popped + 1 :
     memory["write"][i].at <= n /\ memory["write"][i].event.kind = k}
Heard(n) ==
  [k \in Kinds |->
     \E i \in Told(n, k) : /\ \A j \in Told(n, k) : j <= i
                          /\ memory["write"][i].event.value]
Announced(l) == reader.floor[l] > 1

\* Who drains the queue after a snapshot has the indications that snapshot is
\* of, or will find in the next one why not: events were dropped, or, for the
\* transmitter, a provider failed.  The counters do not tell which edge is missing:
\* once one of them has been seen above zero there is nothing left to announce.
LossIsAnnounced ==
  reader.answer = "empty" =>
    \/ Heard(reader.seen.last) = published[reader.seen.last + 1]
    \/ Announced("drops") \/ (side = "transmit" /\ Announced("failures"))

\* A status is due in exactly the callbacks in which a period ends, also where
\* a callback is longer than a period, and an update starts the period again.
DueOncePerPeriod ==
  [][\A n \in Lengths, new \in [Kinds -> BOOLEAN] :
       Publishing(new, n) => cadence'.due = (cadence.since + n >= Interval)
                             /\ cadence'.left = Interval - cadence'.since]_vars
=============================================================================
