-------------------------- MODULE ObservationProofs --------------------------
(***************************************************************************)
(* What a reader may conclude from the events it popped and the snapshot   *)
(* it loaded, whatever the owner does and whatever stores each load        *)
(* returns: for any number of indications, any capacity and any number of  *)
(* callbacks.                                                              *)
(***************************************************************************)
EXTENDS Observation, FiniteSetTheorems, TLAPS

Index(l) == 1 .. Len(memory[l])
\* The publication the owner has worked out last.
N == Len(published) - 1

Event == [kind : Kinds \cup {"none", Failed}, value : BOOLEAN]
Views == [Locations -> Nat \ {0}]
Cell == [at : Nat, event : Event, view : Views]
Step == [to : Locations, event : Event]
OwnerType == [now : [Kinds -> BOOLEAN], todo : Seq(Step), seenRead : Int, calls : Int]
TypeInv ==
  /\ side \in {"receive", "transmit"}
  /\ memory \in [Locations -> Seq(Cell)] /\ \A l \in Locations : Len(memory[l]) >= 1
  /\ published \in Seq([Kinds -> BOOLEAN]) /\ Len(published) >= 1
  /\ owner \in OwnerType
  /\ reader \in [floor : Views, todo : Seq(Fields \cup {"drops", "failures"}),
                 seen : [Locations -> Nat], stamp : Nat, heard : Nat, before : Nat,
                 popped : Nat, answer : {"none", "empty", "event"}]

\* A callback stores the edges of its publication, then the fields.
PublishesOf(todo, new) ==
  /\ Len(todo) >= 1 /\ todo[Len(todo)] = Store("last")
  /\ Len(todo) >= 2 => todo[Len(todo) - 1] = Store("state")
  /\ Len(todo) >= 3 => todo[Len(todo) - 2] = Store("frames")
  /\ \A i \in 1 .. Len(todo) - 3 :
       /\ todo[i].to = "write" /\ todo[i].event.kind \in Kinds
       /\ todo[i].event.value = new[todo[i].event.kind]
Publishes(todo) == PublishesOf(todo, published[Len(published)])
\* Or it has failed.
Fails(todo) == todo = Failure \/ todo = <<Push(Failed, TRUE)>>

OwnerInv ==
  LET n == Len(owner.todo) IN
  /\ \/ owner.todo = <<>>
     \/ Fails(owner.todo)
     \/ Publishes(owner.todo) /\ N >= 1
  /\ Len(memory["frames"]) = IF Publishes(owner.todo) /\ n >= 3 THEN N ELSE N + 1
  /\ Len(memory["state"]) = IF Publishes(owner.todo) /\ n >= 2 THEN N ELSE N + 1
  /\ Len(memory["last"]) = IF Publishes(owner.todo) THEN N ELSE N + 1

\* Every publication stores each field once; a store is of this publication or of an
\* earlier one, or of the next, which a failure has prevented.
Counted == \A f \in Fields : \A i \in Index(f) : memory[f][i].at = i - 1
Bounded ==
  \A l \in Locations : \A i \in Index(l) :
    /\ memory[l][i].at <= IF Publishes(owner.todo) THEN N ELSE N + 1
    /\ i >= 2 => memory[l][i].at >= 1
    /\ \A m \in Locations : memory[l][i].view[m] <= Len(memory[m])
\* An event teaches who pops it the publications before its own.
EventsTeach ==
  \A i \in Index("write") :
    /\ memory["write"][i].event.kind \in Kinds => memory["write"][i].at <= N
    /\ \A j \in Index("write") : j <= i => memory["write"][j].at <= memory["write"][i].at
    /\ \A f \in Fields : memory["write"][i].at <= memory["write"][i].view[f]
\* The flag a snapshot ends with teaches everything up to its publication.
FlagsTeach ==
  \A i \in Index("last") : \A l \in Locations : \A j \in Index(l) :
    memory[l][j].at <= i - 1 => j <= memory["last"][i].view[l]
StoresInv == Counted /\ Bounded /\ EventsTeach /\ FlagsTeach

\* What the reader cannot miss any more.
ReaderInv ==
  /\ \A l \in Locations :
       /\ reader.floor[l] <= Len(memory[l])
       /\ \A j \in Index(l) : memory[l][j].at <= reader.seen["last"] => j <= reader.floor[l]
  /\ reader.seen["last"] + 1 <= Len(memory["last"]) /\ reader.stamp <= reader.seen["last"]
  /\ \A f \in Fields : reader.floor[f] >= reader.heard /\ reader.floor[f] >= reader.before
  /\ reader.popped + 1 <= reader.floor["write"]
  /\ reader.answer = "empty" => reader.todo = <<>>

ViewsInv == SnapshotsCatchUp /\ SnapshotFollowsEvents /\ EventsPrecedeSnapshot

\* The events of publications up to n, whoever has popped them.
Of(n, k) ==
  {i \in 2 .. Len(memory["write"]) :
     memory["write"][i].at <= n /\ memory["write"][i].event.kind = k}
Says(n, k) ==
  \E i \in Of(n, k) : (\A j \in Of(n, k) : j <= i) /\ memory["write"][i].event.value
Lost(l, n) == \E j \in Index(l) : j >= 2 /\ memory[l][j].at <= n
Lossy(n) == Lost("drops", n) \/ (side = "transmit" /\ Lost("failures", n))
Coming(k) == \E j \in DOMAIN owner.todo :
  owner.todo[j].to = "write" /\ owner.todo[j].event.kind = k
\* Unless something was lost, the events tell what was published, or are about to.
EdgesInv ==
  /\ \/ owner.now = published[Len(published)]
     \/ side = "transmit" /\ (owner.todo = Failure \/ Lost("failures", Len(published)))
  /\ \A n \in 0 .. N : \A k \in Kinds :
       \/ Lossy(n)
       \/ Says(n, k) = published[n + 1][k]
       \/ n = N /\ Publishes(owner.todo) /\ Coming(k)

Inv == TypeInv /\ OwnerInv /\ StoresInv /\ ReaderInv /\ ViewsInv /\ EdgesInv
----------------------------------------------------------------------------
(* The edges of a callback *)

\* SetToSeq lists a finite set, each element once.
LEMMA Listed ==
  ASSUME NEW S, IsFiniteSet(S)
  PROVE  /\ SetToSeq(S) \in Seq(S)
         /\ \A x \in S : \E i \in DOMAIN SetToSeq(S) : SetToSeq(S)[i] = x
<1> DEFINE n == Cardinality(S)
<1>1. n \in Nat /\ ExistsBijection(1..n, S)
  BY FS_CardinalityType
<1>2. PICK g \in [1..n -> S] : IsInjective(g)
  BY <1>1 DEF ExistsBijection, Bijection, Injection
<1>3. SetToSeq(S) \in [1..n -> S] /\ IsInjective(SetToSeq(S))
  BY <1>2 DEF SetToSeq
<1> DEFINE f == SetToSeq(S)
<1>4. f \in Injection(1..n, S)
  BY <1>3 DEF Injection
<1>5. IsFiniteSet(1..n) /\ Cardinality(1..n) = n
  BY <1>1, FS_Interval
<1>6. f \in Surjection(1..n, S)
  BY <1>4, <1>5, FS_Injection
<1>7. \A x \in S : \E i \in 1..n : f[i] = x
  BY <1>6 DEF Surjection
<1> HIDE DEF n, f
<1>8. f \in Seq(S) /\ DOMAIN f = 1..n
  BY <1>1, <1>3 DEF f
<1> QED
  BY <1>7, <1>8 DEF f

\* The edges are the indications that changed, with their new value.
LEMMA EdgesAre ==
  ASSUME NEW old, NEW new \in [Kinds -> BOOLEAN]
  PROVE  LET es == Edges(old, new) IN
         /\ es \in Seq(Step)
         /\ \A i \in 1 .. Len(es) :
              es[i].to = "write" /\ es[i].event.kind \in Kinds
              /\ es[i].event.value = new[es[i].event.kind]
         /\ \A k \in Kinds : old[k] # new[k] =>
              \E i \in 1 .. Len(es) : es[i].event.kind = k
<1> DEFINE S == {k \in Kinds : old[k] # new[k]}
           changed == SetToSeq(S)
           es == Edges(old, new)
<1>1. IsFiniteSet(S)
  <2>1. S \in SUBSET Kinds /\ IsFiniteSet(Kinds)
    BY ObservationAssumption
  <2> HIDE DEF S
  <2> QED
    BY <2>1, FS_Subset
<1>2. changed \in Seq(S) /\ \A x \in S : \E i \in DOMAIN changed : changed[i] = x
  <2> HIDE DEF S
  <2> QED
    BY <1>1, Listed
<1>3. es = [i \in DOMAIN changed |-> Push(changed[i], new[changed[i]])]
  BY DEF Edges
<1>4. S \subseteq Kinds /\ \A k \in Kinds : old[k] # new[k] => k \in S
  OBVIOUS
<1> HIDE DEF S, changed, es
<1>5. DOMAIN changed = 1 .. Len(changed) /\ Len(changed) \in Nat
      /\ \A i \in 1 .. Len(changed) : changed[i] \in Kinds
  BY <1>2, <1>4
<1>6. ASSUME NEW k \in Kinds, NEW v \in BOOLEAN
      PROVE  Push(k, v) \in Step /\ Push(k, v).to = "write" /\ Push(k, v).event.kind = k
             /\ Push(k, v).event.value = v
  BY DEF Push, Step, Event, Locations
<1>7. es \in Seq(Step) /\ Len(es) = Len(changed)
  <2>1. es \in [1 .. Len(changed) -> Step]
    BY <1>3, <1>5, <1>6
  <2> QED
    BY <1>5, <2>1
<1>8. \A i \in 1 .. Len(es) : es[i] = Push(changed[i], new[changed[i]])
  BY <1>3, <1>5, <1>7
<1>9. \A i \in 1 .. Len(es) :
        es[i].to = "write" /\ es[i].event.kind = changed[i] /\ changed[i] \in Kinds
        /\ es[i].event.value = new[changed[i]]
  BY <1>5, <1>6, <1>7, <1>8
<1>10. \A k \in Kinds : old[k] # new[k] => \E i \in 1 .. Len(es) : es[i].event.kind = k
  BY <1>2, <1>4, <1>5, <1>7, <1>9
<1> QED
  BY <1>7, <1>9, <1>10 DEF es

\* What a callback that ends stores: its edges, then the fields.
LEMMA PublicationIs ==
  ASSUME NEW es \in Seq(Step), NEW new,
         \A i \in 1 .. Len(es) :
           es[i].to = "write" /\ es[i].event.kind \in Kinds
           /\ es[i].event.value = new[es[i].event.kind]
  PROVE  LET q == Publication(es) IN
         /\ q \in Seq(Step) /\ Len(q) = Len(es) + 3 /\ PublishesOf(q, new)
         /\ \A i \in 1 .. Len(es) : q[i] = es[i]
<1> DEFINE a == Store("frames")  b == Store("state")  c == Store("last")
           q == es \o <<a, b, c>>
<1>1. a \in Step /\ b \in Step /\ c \in Step
  BY DEF Store, Step, Event, Nothing, Locations, Fields
<1> HIDE DEF a, b, c
<1>2. /\ q \in Seq(Step) /\ Len(q) = Len(es) + 3 /\ Len(es) \in Nat
      /\ \A i \in 1 .. Len(es) : q[i] = es[i]
      /\ q[Len(es) + 1] = a /\ q[Len(es) + 2] = b /\ q[Len(es) + 3] = c
  BY <1>1
<1> HIDE DEF q
<1>3. PublishesOf(q, new)
  BY <1>2 DEF PublishesOf, a, b, c
<1>4. Publication(es) = q
  BY DEF Publication, q, a, b, c
<1> QED
  BY <1>2, <1>3, <1>4

LEMMA EmptyIs ==
  ASSUME NEW S, NEW s \in Seq(S)
  PROVE  s = <<>> <=> Len(s) = 0
OBVIOUS

\* The rest of a publication.
LEMMA PublishesTail ==
  ASSUME NEW q \in Seq(Step), NEW new, PublishesOf(q, new)
  PROVE  /\ Tail(q) \in Seq(Step) /\ Len(Tail(q)) = Len(q) - 1 /\ Head(q) = q[1]
         /\ \A i \in 1 .. Len(q) - 1 : Tail(q)[i] = q[i + 1]
         /\ Len(q) = 1 => Head(q) = Store("last") /\ Tail(q) = <<>>
         /\ Len(q) = 2 => Head(q) = Store("state")
         /\ Len(q) = 3 => Head(q) = Store("frames")
         /\ Len(q) >= 4 => /\ Head(q).to = "write" /\ Head(q).event.kind \in Kinds
                           /\ Head(q).event.value = new[Head(q).event.kind]
         /\ Len(q) >= 2 => PublishesOf(Tail(q), new)
<1>1. Len(q) \in Nat /\ Len(q) >= 1 /\ q # <<>>
  BY DEF PublishesOf
<1>2. /\ Tail(q) \in Seq(Step) /\ Len(Tail(q)) = Len(q) - 1 /\ Head(q) = q[1]
      /\ \A i \in 1 .. Len(q) - 1 : Tail(q)[i] = q[i + 1]
  BY <1>1
<1>3. Len(q) = 1 => Tail(q) = <<>>
  <2> DEFINE u == Tail(q)
  <2>1. u \in Seq(Step) /\ (Len(q) = 1 => Len(u) = 0)
    BY <1>2
  <2> HIDE DEF u
  <2>2. Len(u) = 0 => u = <<>>
    BY <2>1, EmptyIs
  <2> QED
    BY <2>1, <2>2 DEF u
<1> DEFINE t == Tail(q)  n == Len(q)
<1>4. ASSUME n >= 2 PROVE PublishesOf(t, new)
  <2>1. t[n - 1] = q[n] /\ (n >= 3 => t[n - 2] = q[n - 1]) /\ (n >= 4 => t[n - 3] = q[n - 2])
    BY <1>1, <1>2, <1>4
  <2>2. \A i \in 1 .. n - 4 : t[i] = q[i + 1] /\ i + 1 \in 1 .. n - 3
    BY <1>1, <1>2
  <2> HIDE DEF t
  <2> QED
    BY <1>1, <1>2, <1>4, <2>1, <2>2 DEF PublishesOf, t
<1>5. /\ n = 1 => Head(q) = Store("last")
      /\ n = 2 => Head(q) = Store("state")
      /\ n = 3 => Head(q) = Store("frames")
  BY <1>1, <1>2 DEF PublishesOf
<1>6. n >= 4 => /\ Head(q).to = "write" /\ Head(q).event.kind \in Kinds
                /\ Head(q).event.value = new[Head(q).event.kind]
  <2>1. n >= 4 => 1 \in 1 .. n - 3
    BY <1>1
  <2> QED
    BY <1>2, <2>1 DEF PublishesOf
<1> HIDE DEF t, n
<1> QED
  BY <1>1, <1>2, <1>3, <1>4, <1>5, <1>6 DEF t, n
\* What a callback that fails stores, and no publication.
LEMMA FailsIs ==
  ASSUME NEW q, Fails(q)
  PROVE  /\ q # <<>> /\ q[Len(q)] = Push(Failed, TRUE)
         /\ \A new : ~PublishesOf(q, new)
         /\ \/ q = Failure /\ Head(q) = Store("failures") /\ Tail(q) = <<Push(Failed, TRUE)>>
            \/ Head(q) = Push(Failed, TRUE) /\ Tail(q) = <<>>
<1> DEFINE a == Store("failures")  b == Push(Failed, TRUE)  c == Store("last")
<1>1. b # c
  BY DEF Push, Store
<1>2. Failure = <<a, b>>
  BY DEF Failure
<1>3. Fails(q) => q = <<a, b>> \/ q = <<b>>
  BY <1>2 DEF Fails
<1> HIDE DEF a, b, c
<1>4. CASE q = <<a, b>>
  <2>1. Len(q) = 2 /\ q[2] = b /\ q # <<>> /\ Head(q) = a /\ Tail(q) = <<b>>
    BY <1>4
  <2>2. \A new : ~PublishesOf(q, new)
    BY <1>1, <2>1 DEF PublishesOf, c
  <2> QED
    BY <1>2, <1>4, <2>1, <2>2 DEF a, b
<1>5. CASE q = <<b>>
  <2>1. Len(q) = 1 /\ q[1] = b /\ q # <<>> /\ Head(q) = b /\ Tail(q) = <<>>
    BY <1>5
  <2>2. \A new : ~PublishesOf(q, new)
    BY <1>1, <2>1 DEF PublishesOf, c
  <2> QED
    BY <2>1, <2>2 DEF b
<1> QED
  BY <1>3, <1>4, <1>5
----------------------------------------------------------------------------
(* One store of the owner *)

Stores(l, event) ==
  /\ owner.todo # <<>> /\ Write(l, At, event) /\ owner' \in OwnerType
  /\ owner'.todo = Tail(owner.todo) /\ owner'.now = owner.now
  /\ UNCHANGED <<side, published, reader>>
  /\ \/ Head(owner.todo).to = "write" /\ l = "write" /\ event = Head(owner.todo).event
     \/ Head(owner.todo).to = "write" /\ l = "drops" /\ event = Nothing
     \/ Head(owner.todo).to # "write" /\ l = Head(owner.todo).to /\ event = Nothing

LEMMA NothingType == Nothing \in Event
BY DEF Nothing, Event

LEMMA HeadType ==
  ASSUME NEW S, NEW q \in Seq(S), q # <<>>
  PROVE  Head(q) \in S /\ Tail(q) \in Seq(S)
OBVIOUS

\* The three actions of the owner inside a callback are stores.
LEMMA StoresOne ==
  ASSUME TypeInv,
         StoreField \/ \E r \in owner.seenRead .. reader.popped : PushEvent(r) \/ DropEvent(r)
  PROVE  \E l \in Locations : \E event \in Event : Stores(l, event)
<1>1. owner \in OwnerType /\ owner.todo \in Seq(Step) /\ owner.seenRead \in Int
      /\ reader.popped \in Nat
  BY DEF TypeInv, OwnerType
<1>2. owner.todo # <<>> => /\ Head(owner.todo) \in Step /\ Tail(owner.todo) \in Seq(Step)
                          /\ Head(owner.todo).to \in Locations /\ Head(owner.todo).event \in Event
  <2>1. owner.todo # <<>> => Head(owner.todo) \in Step /\ Tail(owner.todo) \in Seq(Step)
    BY <1>1, HeadType
  <2> QED
    BY <2>1 DEF Step
<1>3. owner.todo # <<>> => /\ Done \in OwnerType /\ Done.todo = Tail(owner.todo)
                          /\ Done.now = owner.now
  BY <1>1, <1>2 DEF Done, OwnerType
<1>4. ASSUME NEW r \in Int, owner.todo # <<>>
      PROVE  LET o == [Done EXCEPT !.seenRead = r] IN
             o \in OwnerType /\ o.todo = Tail(owner.todo) /\ o.now = owner.now
  BY <1>3, <1>4 DEF OwnerType
<1>5. "write" \in Locations /\ "drops" \in Locations
  BY DEF Locations
<1>6. CASE StoreField
  BY <1>2, <1>3, <1>6, NothingType DEF StoreField, Stores
<1>7. ASSUME NEW r \in owner.seenRead .. reader.popped, PushEvent(r) \/ DropEvent(r)
      PROVE  \E l \in Locations : \E event \in Event : Stores(l, event)
  <2>1. r \in Int
    BY <1>1
  <2>2. CASE PushEvent(r)
    <3>1. Stores("write", Head(owner.todo).event)
      BY <1>4, <2>1, <2>2 DEF PushEvent, Stores
    <3> QED
      BY <1>2, <1>5, <2>2, <3>1 DEF PushEvent
  <2>3. CASE DropEvent(r)
    <3>1. Stores("drops", Nothing)
      BY <1>4, <2>1, <2>3 DEF DropEvent, Stores
    <3> QED
      BY <1>5, <3>1, NothingType
  <2> QED
    BY <1>7, <2>2, <2>3
<1> QED
  BY <1>6, <1>7

\* The last thing a callback stores tells whether it has failed.
LEMMA AtIs ==
  ASSUME TypeInv, OwnerInv, owner.todo # <<>>
  PROVE  /\ At \in Nat /\ N \in Nat
         /\ At = IF Publishes(owner.todo) THEN N ELSE N + 1
         /\ Publishes(owner.todo) => N >= 1
         /\ ~Publishes(owner.todo) => Fails(owner.todo)
<1> DEFINE q == owner.todo
<1>1. N \in Nat /\ Len(published) = N + 1 /\ q \in Seq(Step)
  BY DEF TypeInv, N, OwnerType
<1>2. CASE Publishes(q)
  <2>1. q[Len(q)].to = "last"
    BY <1>2 DEF Publishes, PublishesOf, Store
  <2>2. At = N
    BY <1>1, <2>1 DEF At, N
  <2> QED
    BY <1>1, <1>2, <2>2, FailsIs DEF OwnerInv, Publishes
<1>3. CASE ~Publishes(q)
  <2>1. Fails(q)
    BY <1>3 DEF OwnerInv
  <2>2. q[Len(q)] = Push(Failed, TRUE)
    BY <2>1, FailsIs
  <2>3. q[Len(q)].to = "write" /\ q[Len(q)].event.kind = Failed
    BY <2>2 DEF Push
  <2>4. At = N + 1
    BY <1>1, <2>3 DEF At
  <2> QED
    BY <1>1, <1>3, <2>1, <2>4
<1> QED
  BY <1>2, <1>3

\* One cell more in one location.
LEMMA Appended ==
  ASSUME TypeInv, OwnerInv, NEW l \in Locations, NEW event \in Event, Stores(l, event)
  PROVE  /\ memory' \in [Locations -> Seq(Cell)]
         /\ \A m \in Locations :
              /\ Len(memory[m]) \in Nat /\ Len(memory[m]) >= 1
              /\ Len(memory'[m]) = IF m = l THEN Len(memory[m]) + 1 ELSE Len(memory[m])
              /\ \A i \in 1 .. Len(memory'[m]) :
                   \/ i \in Index(m) /\ memory'[m][i] = memory[m][i]
                   \/ m = l /\ i = Len(memory[m]) + 1
              /\ \A i \in Index(m) : i \in 1 .. Len(memory'[m]) /\ memory'[m][i] = memory[m][i]
         /\ LET c == memory'[l][Len(memory[l]) + 1] IN
            /\ c.at = At /\ c.event = event
            /\ c.view = IF Releases(l) THEN View(l) ELSE Unknown
<1> DEFINE c == [at |-> At, event |-> event, view |-> IF Releases(l) THEN View(l) ELSE Unknown]
<1>1. memory' = [memory EXCEPT ![l] = Append(memory[l], c)]
  BY DEF Stores, Write
<1>2. memory \in [Locations -> Seq(Cell)] /\ \A m \in Locations : Len(memory[m]) >= 1
  BY DEF TypeInv
<1>3. c \in Cell
  <2>1. View(l) \in Views /\ Unknown \in Views
    BY <1>2 DEF View, Views, Unknown
  <2>2. At \in Nat
    BY AtIs DEF Stores
  <2> QED
    BY <2>1, <2>2 DEF Cell
<1>4. c.at = At /\ c.event = event /\ c.view = IF Releases(l) THEN View(l) ELSE Unknown
  OBVIOUS
<1> HIDE DEF c
<1> DEFINE w == Append(memory[l], c)
<1>5. /\ w \in Seq(Cell) /\ Len(w) = Len(memory[l]) + 1 /\ w[Len(memory[l]) + 1] = c
      /\ \A i \in Index(l) : w[i] = memory[l][i]
      /\ Len(memory[l]) \in Nat
  BY <1>2, <1>3 DEF Index
<1>6. memory' = [memory EXCEPT ![l] = w]
  BY <1>1
<1> HIDE DEF w
<1>7. memory'[l] = w /\ \A m \in Locations : m # l => memory'[m] = memory[m]
  BY <1>2, <1>6
<1>8. memory' \in [Locations -> Seq(Cell)]
  BY <1>2, <1>5, <1>6
<1>9. ASSUME NEW m \in Locations
      PROVE  /\ Len(memory[m]) \in Nat /\ Len(memory[m]) >= 1
             /\ Len(memory'[m]) = IF m = l THEN Len(memory[m]) + 1 ELSE Len(memory[m])
             /\ \A i \in 1 .. Len(memory'[m]) :
                  \/ i \in Index(m) /\ memory'[m][i] = memory[m][i]
                  \/ m = l /\ i = Len(memory[m]) + 1
             /\ \A i \in Index(m) : i \in 1 .. Len(memory'[m]) /\ memory'[m][i] = memory[m][i]
  <2>1. Len(memory[m]) \in Nat /\ Len(memory[m]) >= 1
    BY <1>2
  <2>2. CASE m = l
    BY <1>5, <1>7, <2>1, <2>2 DEF Index
  <2>3. CASE m # l
    BY <1>7, <2>1, <2>3 DEF Index
  <2> QED
    BY <2>1, <2>2, <2>3
<1> QED
  BY <1>4, <1>5, <1>7, <1>8, <1>9

LEMMA CellType ==
  ASSUME TypeInv, NEW l \in Locations, NEW i \in Index(l)
  PROVE  memory[l][i] \in Cell
<1>1. memory[l] \in Seq(Cell)
  BY DEF TypeInv
<1> QED
  BY <1>1 DEF Index

\* The lengths are what the owner knows.
LEMMA Grown ==
  ASSUME TypeInv, OwnerInv, NEW l \in Locations, NEW event \in Event, Stores(l, event),
         NEW m \in Locations
  PROVE  /\ Len(memory[m]) \in Nat /\ Len(memory[m]) >= 1
         /\ Len(memory'[m]) \in Nat /\ Len(memory'[m]) >= Len(memory[m])
         /\ Len(memory'[m]) = Len(memory[m]) + (IF m = l THEN 1 ELSE 0)
         /\ View(l)[m] = Len(memory'[m])
<1>1. /\ Len(memory[m]) \in Nat /\ Len(memory[m]) >= 1
      /\ Len(memory'[m]) = IF m = l THEN Len(memory[m]) + 1 ELSE Len(memory[m])
  BY Appended
<1>2. View(l)[m] = Len(memory[m]) + (IF m = l THEN 1 ELSE 0)
  BY DEF View
<1>3. CASE m = l
  BY <1>1, <1>2, <1>3
<1>4. CASE m # l
  BY <1>1, <1>2, <1>4
<1> QED
  BY <1>3, <1>4

\* Where a store goes, and what is left to store.
LEMMA StoresWhere ==
  ASSUME TypeInv, OwnerInv, NEW l \in Locations, NEW event \in Event, Stores(l, event)
  PROVE  /\ ~Publishes(owner.todo) => ~Publishes(owner.todo)' /\ l \notin Fields
         /\ ~Publishes(owner.todo) /\ owner.todo = Failure => l = "failures"
         /\ ~Publishes(owner.todo) /\ l = "write" => event.kind = Failed
         /\ Publishes(owner.todo) =>
              /\ Len(owner.todo) \in Nat
              /\ Len(owner.todo)' = Len(owner.todo) - 1
              /\ Publishes(owner.todo)' <=> Len(owner.todo) >= 2
              /\ Len(owner.todo) = 1 => l = "last"
              /\ Len(owner.todo) = 2 => l = "state"
              /\ Len(owner.todo) = 3 => l = "frames"
              /\ Len(owner.todo) >= 4 => l \in {"write", "drops"}
              /\ l = "write" =>
                   event.kind \in Kinds /\ event.value = published[Len(published)][event.kind]
         /\ (owner.todo = <<>> \/ Fails(owner.todo) \/ Publishes(owner.todo))'
<1> DEFINE q == owner.todo
           new == published[Len(published)]
<1>1. q \in Seq(Step) /\ q # <<>>
  BY DEF TypeInv, OwnerType, Stores
<1>2. q' = Tail(q) /\ new' = new
  BY DEF Stores
<1>3. Publishes(q) = PublishesOf(q, new) /\ Publishes(q)' = PublishesOf(Tail(q), new)
  BY <1>2 DEF Publishes
<1>4. \A new1 : ~PublishesOf(<<>>, new1)
  BY DEF PublishesOf
<1>5. CASE ~Publishes(q)
  <2>1. Fails(q)
    BY <1>5, AtIs DEF Stores
  <2>2. \/ q = Failure /\ Head(q) = Store("failures") /\ Tail(q) = <<Push(Failed, TRUE)>>
        \/ Head(q) = Push(Failed, TRUE) /\ Tail(q) = <<>>
    BY <2>1, FailsIs
  <2>3. ~PublishesOf(Tail(q), new)
    <3>1. CASE Tail(q) = <<>>
      BY <1>4, <3>1
    <3>2. CASE Tail(q) = <<Push(Failed, TRUE)>>
      BY <3>2, FailsIs DEF Fails
    <3> QED
      BY <2>2, <3>1, <3>2
  <2>4. Store("failures").to = "failures" /\ Push(Failed, TRUE).to = "write"
        /\ Push(Failed, TRUE).event.kind = Failed
    BY DEF Store, Push
  <2>5. \/ Head(q) = Store("failures") /\ l = "failures"
        \/ Head(q) = Push(Failed, TRUE) /\ (l = "drops" \/ (l = "write" /\ event.kind = Failed))
    BY <2>2, <2>4 DEF Stores
  <2>6. q = Failure => Head(q) = Store("failures")
    BY DEF Failure
  <2>7. Store("failures") # Push(Failed, TRUE)
    BY <2>4
  <2>8. Tail(q) = <<>> \/ Fails(Tail(q))
    BY <2>2 DEF Fails
  <2> QED
    BY <1>2, <1>3, <1>5, <2>3, <2>5, <2>6, <2>7, <2>8 DEF Fields
<1>6. CASE Publishes(q)
  <2>1. /\ Tail(q) \in Seq(Step) /\ Len(Tail(q)) = Len(q) - 1
        /\ Len(q) = 1 => Head(q) = Store("last") /\ Tail(q) = <<>>
        /\ Len(q) = 2 => Head(q) = Store("state")
        /\ Len(q) = 3 => Head(q) = Store("frames")
        /\ Len(q) >= 4 => /\ Head(q).to = "write" /\ Head(q).event.kind \in Kinds
                          /\ Head(q).event.value = new[Head(q).event.kind]
        /\ Len(q) >= 2 => PublishesOf(Tail(q), new)
    BY <1>1, <1>3, <1>6, PublishesTail
  <2>2. Len(q) \in Nat /\ Len(q) >= 1
    <3>1. PublishesOf(q, new) \/ Publishes(q)
      BY <1>6
    <3>2. Len(q) >= 1
      BY <3>1, Zenon DEF PublishesOf, Publishes
    <3>3. Len(q) \in Nat
      BY <1>1
    <3> QED
      BY <3>2, <3>3
  <2>3. /\ Len(q) = 1 => l = "last"
        /\ Len(q) = 2 => l = "state"
        /\ Len(q) = 3 => l = "frames"
    BY <2>1 DEF Stores, Store
  <2>4. Len(q) >= 4 => \/ l = "write" /\ event = Head(q).event
                       \/ l = "drops"
    BY <2>1 DEF Stores
  <2>8. /\ Len(q) >= 4 \/ Len(q) \in {1, 2, 3}
        /\ Len(q) >= 2 \/ Len(q) = 1
    <3> DEFINE n == Len(q)
    <3>1. n \in Nat /\ n >= 1
      BY <2>2
    <3> HIDE DEF n
    <3>2. /\ n >= 4 \/ n \in {1, 2, 3}
          /\ n >= 2 \/ n = 1
      BY <3>1
    <3> QED
      BY <3>2 DEF n
  <2> HIDE DEF q, new
  <2>5. l = "write" => event.kind \in Kinds /\ event.value = new[event.kind]
    <3>1. CASE Len(q) >= 4
      BY <2>1, <2>4, <3>1
    <3>2. CASE ~(Len(q) >= 4)
      BY <2>3, <2>8, <3>2
    <3> QED
      BY <3>1, <3>2
  <2>6. PublishesOf(Tail(q), new) <=> Len(q) >= 2
    <3>1. CASE Len(q) >= 2
      BY <2>1, <3>1
    <3>2. CASE ~(Len(q) >= 2)
      <4>1. Len(q) = 1
        BY <2>8, <3>2
      <4>2. Tail(q) = <<>>
        BY <2>1, <4>1
      <4> QED
        BY <1>4, <3>2, <4>2
    <3> QED
      BY <3>1, <3>2
  <2>7. Tail(q) = <<>> \/ PublishesOf(Tail(q), new)
    BY <2>1, <2>2
  <2> QED
    BY <1>2, <1>3, <1>6, <2>1, <2>2, <2>3, <2>4, <2>5, <2>6, <2>7 DEF q, new
<1> QED
  BY <1>5, <1>6

\* The fields are stored in their order.
LEMMA StoresOwner ==
  ASSUME TypeInv, OwnerInv, NEW l \in Locations, NEW event \in Event, Stores(l, event)
  PROVE  OwnerInv' /\ TypeInv'
<1>1. N' = N /\ N \in Nat
  BY AtIs DEF Stores, N
<1>2. (owner.todo = <<>> \/ Fails(owner.todo) \/ (Publishes(owner.todo) /\ N >= 1))'
  <2>1. (owner.todo = <<>> \/ Fails(owner.todo) \/ Publishes(owner.todo))'
    BY StoresWhere
  <2>2. Publishes(owner.todo)' => Publishes(owner.todo)
    BY StoresWhere
  <2>3. Publishes(owner.todo) => N >= 1
    BY AtIs DEF Stores
  <2> QED
    BY <1>1, <2>1, <2>2, <2>3
<1>7. TypeInv'
  <2>1. /\ memory' \in [Locations -> Seq(Cell)]
        /\ \A m \in Locations : Len(memory'[m]) \in Nat /\ Len(memory'[m]) >= 1
    <3>1. \A m \in Locations : /\ Len(memory[m]) \in Nat /\ Len(memory[m]) >= 1
            /\ Len(memory'[m]) = IF m = l THEN Len(memory[m]) + 1 ELSE Len(memory[m])
      BY Appended
    <3>2. \A m \in Locations : Len(memory'[m]) \in Nat /\ Len(memory'[m]) >= 1
      BY <3>1
    <3> QED
      BY <3>2, Appended
  <2>2. owner' \in OwnerType /\ side' = side /\ published' = published /\ reader' = reader
    BY DEF Stores
  <2> QED
    BY <2>1, <2>2 DEF TypeInv
<1>3. /\ "frames" \in Locations /\ "state" \in Locations /\ "last" \in Locations
      /\ Fields = {"frames", "state", "last"}
  BY DEF Locations, Fields
<1>4. \A m \in Locations :
        Len(memory'[m]) = IF m = l THEN Len(memory[m]) + 1 ELSE Len(memory[m])
  BY Appended
<1>5. CASE ~Publishes(owner.todo)
  <2>1. ~Publishes(owner.todo)' /\ l \notin Fields
    BY <1>5, StoresWhere
  <2>2. \A f \in Fields : Len(memory'[f]) = N + 1
    <3>1. \A f \in Fields : Len(memory[f]) = N + 1
      BY <1>3, <1>5 DEF OwnerInv
    <3> QED
      BY <1>3, <1>4, <2>1, <3>1
  <2> QED
    BY <1>1, <1>2, <1>3, <1>7, <2>1, <2>2 DEF OwnerInv
<1>6. CASE Publishes(owner.todo)
  <2> DEFINE n == Len(owner.todo)
  <2>1. /\ n \in Nat /\ n >= 1 /\ n' = n - 1
        /\ Publishes(owner.todo)' <=> n >= 2
        /\ n = 1 => l = "last"
        /\ n = 2 => l = "state"
        /\ n = 3 => l = "frames"
        /\ n >= 4 => l \in {"write", "drops"}
    BY <1>6, StoresWhere DEF Publishes, PublishesOf
  <2>2. /\ Len(memory["frames"]) = IF n >= 3 THEN N ELSE N + 1
        /\ Len(memory["state"]) = IF n >= 2 THEN N ELSE N + 1
        /\ Len(memory["last"]) = N
    BY <1>6 DEF OwnerInv
  <2> HIDE DEF n
  <2>3. /\ Len(memory'["frames"]) = IF n >= 4 THEN N ELSE N + 1
        /\ Len(memory'["state"]) = IF n >= 3 THEN N ELSE N + 1
        /\ Len(memory'["last"]) = IF n >= 2 THEN N ELSE N + 1
    BY <1>1, <1>3, <1>4, <2>1, <2>2
  <2>4. OwnerInv'
    BY <1>1, <1>2, <2>1, <2>3 DEF OwnerInv, n
  <2> QED
    BY <1>7, <2>4
<1> QED
  BY <1>5, <1>6

\* Stores are numbered by publications.
LEMMA StoresBounded ==
  ASSUME TypeInv, OwnerInv, StoresInv, NEW l \in Locations, NEW event \in Event, Stores(l, event)
  PROVE  Counted' /\ Bounded'
<1> DEFINE c == memory'[l][Len(memory[l]) + 1]
<1>1. /\ N' = N /\ N \in Nat /\ At \in Nat
      /\ Publishes(owner.todo)' => Publishes(owner.todo)
  BY AtIs, StoresWhere DEF Stores, N
<1>2. At = IF Publishes(owner.todo) THEN N ELSE N + 1
  BY AtIs DEF Stores
<1>3. At >= 1
  BY <1>1, <1>2, AtIs DEF Stores
<1>4. c.at = At
  BY Appended
<1>5. \A m \in Locations : /\ Len(memory[m]) \in Nat
                           /\ Len(memory'[m]) = Len(memory[m]) + (IF m = l THEN 1 ELSE 0)
  BY Grown
<1>6. \A m \in Locations : c.view[m] <= Len(memory'[m])
  <2>1. c.view = View(l) \/ c.view = Unknown
    BY Appended
  <2> HIDE DEF c
  <2> SUFFICES ASSUME NEW m \in Locations PROVE c.view[m] <= Len(memory'[m])
    OBVIOUS
  <2>2. /\ View(l)[m] = Len(memory'[m]) /\ Unknown[m] = 1
        /\ Len(memory'[m]) \in Nat /\ Len(memory'[m]) >= 1
    <3>1. /\ View(l)[m] = Len(memory'[m])
          /\ Len(memory'[m]) \in Nat /\ Len(memory[m]) >= 1
          /\ Len(memory'[m]) >= Len(memory[m]) /\ Len(memory[m]) \in Nat
      BY Grown
    <3> HIDE DEF View
    <3>2. Len(memory'[m]) >= 1
      BY <3>1
    <3> QED
      BY <3>1, <3>2 DEF Unknown
  <2>3. CASE c.view = View(l)
    BY <2>2, <2>3
  <2>4. CASE c.view = Unknown
    BY <2>2, <2>4
  <2> QED
    BY <2>1, <2>3, <2>4
<1>7. ASSUME l \in Fields PROVE Len(memory[l]) = At /\ Publishes(owner.todo)
  <2>1. Publishes(owner.todo)
    BY <1>7, StoresWhere
  <2>2. /\ Len(owner.todo) \in Nat /\ Len(owner.todo) >= 1
        /\ Len(owner.todo) = 1 => l = "last"
        /\ Len(owner.todo) = 2 => l = "state"
        /\ Len(owner.todo) = 3 => l = "frames"
        /\ Len(owner.todo) >= 4 => l \in {"write", "drops"}
    BY <2>1, StoresWhere DEF Publishes, PublishesOf
  <2> DEFINE n == Len(owner.todo)
  <2>3. /\ Len(memory["frames"]) = IF n >= 3 THEN N ELSE N + 1
        /\ Len(memory["state"]) = IF n >= 2 THEN N ELSE N + 1
        /\ Len(memory["last"]) = N
    BY <2>1 DEF OwnerInv
  <2>4. l # "write" /\ l # "drops"
    BY <1>7 DEF Fields
  <2> HIDE DEF n
  <2>5. n \in {1, 2, 3}
    <3>1. n \in Nat /\ n >= 1 /\ ~(n >= 4)
      BY <2>2, <2>4 DEF n
    <3> QED
      BY <3>1
  <2>6. /\ n = 1 => l = "last"
        /\ n = 2 => l = "state"
        /\ n = 3 => l = "frames"
    BY <2>2 DEF n
  <2>7. Len(memory[l]) = N
    BY <2>3, <2>5, <2>6
  <2> QED
    BY <1>2, <2>1, <2>7
<1>8. ASSUME NEW f \in Fields, NEW i \in 1 .. Len(memory'[f]) PROVE memory'[f][i].at = i - 1
  <2>1. f \in Locations
    BY DEF Fields, Locations
  <2>2. CASE i \in Index(f) /\ memory'[f][i] = memory[f][i]
    BY <2>2 DEF StoresInv, Counted
  <2>3. CASE f = l /\ i = Len(memory[f]) + 1
    BY <1>1, <1>4, <1>7, <2>3
  <2> QED
    BY <2>1, <2>2, <2>3, Appended
<1>9. ASSUME NEW m \in Locations, NEW i \in 1 .. Len(memory'[m])
      PROVE  /\ memory'[m][i].at <= IF Publishes(owner.todo)' THEN N ELSE N + 1
             /\ i >= 2 => memory'[m][i].at >= 1
             /\ \A k \in Locations : memory'[m][i].view[k] <= Len(memory'[k])
  <2>1. CASE i \in Index(m) /\ memory'[m][i] = memory[m][i]
    <3> DEFINE d == memory[m][i]
    <3>1. d \in Cell
      BY <2>1 DEF TypeInv, Index
    <3>2. /\ d.at <= IF Publishes(owner.todo) THEN N ELSE N + 1
          /\ i >= 2 => d.at >= 1
          /\ \A k \in Locations : d.view[k] <= Len(memory[k])
      BY <2>1 DEF StoresInv, Bounded
    <3>3. d.at \in Nat /\ \A k \in Locations : d.view[k] \in Nat
      BY <3>1 DEF Cell, Views
    <3> HIDE DEF d
    <3>4. d.at <= IF Publishes(owner.todo)' THEN N ELSE N + 1
      <4>1. CASE Publishes(owner.todo)
        BY <1>1, <3>2, <3>3, <4>1
      <4>2. CASE ~Publishes(owner.todo)
        BY <1>1, <3>2, <4>2
      <4> QED
        BY <4>1, <4>2
    <3>5. ASSUME NEW k \in Locations PROVE d.view[k] <= Len(memory'[k])
      <4>1. Len(memory[k]) \in Nat /\ Len(memory'[k]) \in Nat /\ Len(memory'[k]) >= Len(memory[k])
        BY Grown
      <4> QED
        BY <3>2, <3>3, <4>1
    <3> QED
      BY <2>1, <3>2, <3>4, <3>5 DEF d
  <2>2. CASE m = l /\ i = Len(memory[m]) + 1
    <3>1. memory'[m][i] = c
      BY <2>2
    <3> HIDE DEF c
    <3>2. At <= IF Publishes(owner.todo)' THEN N ELSE N + 1
      BY <1>1, <1>2
    <3> QED
      BY <1>3, <1>4, <1>6, <3>1, <3>2
  <2> QED
    BY <2>1, <2>2, Appended
<1> QED
  BY <1>1, <1>8, <1>9 DEF Counted, Bounded, Index

\* A new event teaches the publications before its own, a new flag everything.
LEMMA StoresTeach ==
  ASSUME TypeInv, OwnerInv, StoresInv, NEW l \in Locations, NEW event \in Event, Stores(l, event)
  PROVE  EventsTeach' /\ FlagsTeach'
<1> DEFINE c == memory'[l][Len(memory[l]) + 1]
<1>1. N' = N /\ N \in Nat /\ At \in Nat /\ At = IF Publishes(owner.todo) THEN N ELSE N + 1
  BY AtIs DEF Stores, N
<1>2. c.at = At /\ c.event = event /\ (l \in {"write", "last"} => c.view = View(l))
  BY Appended DEF Releases
<1>3. \A m \in Locations : /\ Len(memory[m]) \in Nat /\ Len(memory[m]) >= 1
                           /\ Len(memory'[m]) = Len(memory[m]) + (IF m = l THEN 1 ELSE 0)
                           /\ View(l)[m] = Len(memory'[m])
  BY Grown
<1>4. \A m \in Locations : \A i \in 1 .. Len(memory'[m]) :
        \/ i \in Index(m) /\ memory'[m][i] = memory[m][i]
        \/ m = l /\ i = Len(memory[m]) + 1
  BY Appended
<1>5. /\ \A m \in Locations : \A i \in Index(m) :
           memory[m][i].at \in Nat /\ memory[m][i].at <= At
      /\ "write" \in Locations /\ "last" \in Locations /\ Fields \subseteq Locations
  <2>1. ASSUME NEW m \in Locations, NEW i \in Index(m)
        PROVE  memory[m][i].at \in Nat /\ memory[m][i].at <= At
    <3>1. memory[m][i] \in Cell
      BY CellType
    <3>2. memory[m][i].at <= At
      BY <1>1 DEF StoresInv, Bounded
    <3> QED
      BY <3>1, <3>2 DEF Cell
  <2> QED
    BY <2>1 DEF Locations, Fields
<1> HIDE DEF c
<1>6. EventsTeach'
  <2> SUFFICES ASSUME NEW i \in Index("write")'
               PROVE  /\ memory'["write"][i].event.kind \in Kinds => memory'["write"][i].at <= N
                      /\ \A j \in Index("write")' :
                           j <= i => memory'["write"][j].at <= memory'["write"][i].at
                      /\ \A f \in Fields : memory'["write"][i].at <= memory'["write"][i].view[f]
    BY <1>1 DEF EventsTeach
  <2>1. CASE i \in Index("write") /\ memory'["write"][i] = memory["write"][i]
    <3>1. \A j \in Index("write")' : j <= i => j \in Index("write")
      BY <2>1 DEF Index
    <3>2. \A j \in Index("write") : memory'["write"][j] = memory["write"][j]
      BY <1>5, Appended
    <3> QED
      BY <2>1, <3>1, <3>2 DEF StoresInv, EventsTeach
  <2>2. CASE "write" = l /\ i = Len(memory["write"]) + 1
    <3>1. memory'["write"][i] = c
      BY <2>2 DEF c
    <3>2. c.event.kind \in Kinds => Publishes(owner.todo)
      <4>1. ASSUME ~Publishes(owner.todo) PROVE event.kind = Failed
        BY <2>2, <4>1, StoresWhere
      <4> QED
        BY <1>2, <4>1, ObservationAssumption DEF Failed
    <3>3. ASSUME NEW j \in Index("write")' PROVE memory'["write"][j].at <= At
      <4>1. \/ j \in Index("write") /\ memory'["write"][j] = memory["write"][j]
            \/ j = i
        BY <1>4, <1>5, <2>2 DEF Index
      <4>2. CASE j = i
        BY <1>1, <1>2, <3>1, <4>2
      <4>3. CASE j \in Index("write") /\ memory'["write"][j] = memory["write"][j]
        BY <1>5, <4>3
      <4> QED
        BY <4>1, <4>2, <4>3
    <3>4. \A f \in Fields : At <= Len(memory'[f])
      <4>1. l \notin Fields
        BY <2>2 DEF Fields
      <4>2. \A f \in Fields : At <= Len(memory[f])
        BY <1>1 DEF OwnerInv, Fields
      <4> QED
        <5> SUFFICES ASSUME NEW f \in Fields PROVE At <= Len(memory'[f])
          OBVIOUS
        <5>1. f \in Locations /\ f # l
          BY <1>5, <4>1
        <5>2. Len(memory'[f]) = Len(memory[f])
          BY <5>1, Appended
        <5> QED
          BY <4>2, <5>2
    <3> QED
      BY <1>1, <1>2, <1>3, <1>5, <2>2, <3>1, <3>2, <3>3, <3>4
  <2> QED
    BY <1>4, <1>5, <2>1, <2>2 DEF Index
<1>7. FlagsTeach'
  <2> SUFFICES ASSUME NEW i \in Index("last")', NEW m \in Locations, NEW j \in Index(m)',
                      memory'[m][j].at <= i - 1
               PROVE  j <= memory'["last"][i].view[m]
    BY DEF FlagsTeach
  <2>1. CASE i \in Index("last") /\ memory'["last"][i] = memory["last"][i]
    <3>1. CASE j \in Index(m) /\ memory'[m][j] = memory[m][j]
      BY <2>1, <3>1 DEF StoresInv, FlagsTeach
    <3>2. CASE m = l /\ j = Len(memory[m]) + 1
      <4>1. At <= i - 1
        BY <1>2, <3>2 DEF c
      <4>2. i <= Len(memory["last"]) /\ i \in Int
        BY <2>1 DEF Index
      <4>3. Len(memory["last"]) = At
        BY <1>1 DEF OwnerInv
      <4> QED
        BY <1>1, <4>1, <4>2, <4>3
    <3> QED
      BY <1>4, <3>1, <3>2 DEF Index
  <2>2. CASE "last" = l /\ i = Len(memory["last"]) + 1
    <3>1. memory'["last"][i].view = View(l)
      BY <1>2, <2>2 DEF c
    <3>2. View(l)[m] = Len(memory'[m])
      BY <1>3
    <3> QED
      BY <3>1, <3>2 DEF Index
  <2> QED
    BY <1>4, <1>5, <2>1, <2>2 DEF Index
<1> QED
  BY <1>6, <1>7

\* What the reader cannot miss it still cannot: a new store is of a later publication
\* than the flag it has seen.
LEMMA StoresReader ==
  ASSUME TypeInv, OwnerInv, StoresInv, ReaderInv, NEW l \in Locations, NEW event \in Event,
         Stores(l, event)
  PROVE  ReaderInv' /\ (ViewsInv => ViewsInv')
<1> DEFINE s == reader.seen["last"]
<1>1. reader' = reader
  BY DEF Stores
<1>2. /\ \A m \in Locations : reader.floor[m] \in Nat
      /\ s \in Nat /\ reader.popped \in Nat
      /\ "last" \in Locations /\ "write" \in Locations /\ Fields \subseteq Locations
  <2>1. "last" \in Locations /\ "write" \in Locations /\ Fields \subseteq Locations
    BY DEF Locations, Fields
  <2>2. reader.floor \in Views /\ reader.seen \in [Locations -> Nat] /\ reader.popped \in Nat
    BY DEF TypeInv
  <2> QED
    BY <2>1, <2>2 DEF Views
<1>3. s + 1 <= At /\ At \in Nat
  <2>1. Len(memory["last"]) = At
    BY AtIs DEF OwnerInv, Stores
  <2> QED
    BY <2>1, AtIs DEF ReaderInv, Stores
<1> HIDE DEF s
<1>4. ASSUME NEW m \in Locations, NEW j \in 1 .. Len(memory'[m]), memory'[m][j].at <= s
      PROVE  j \in Index(m) /\ memory'[m][j] = memory[m][j]
  <2>1. CASE m = l /\ j = Len(memory[m]) + 1
    <3>1. memory'[m][j].at = At
      BY <2>1, Appended
    <3> QED
      BY <1>2, <1>3, <1>4, <3>1
  <2> QED
    BY <2>1, Appended
<1>5. ASSUME NEW m \in Locations
      PROVE  reader.floor[m] <= Len(memory'[m])
  <2>1. Len(memory[m]) \in Nat /\ Len(memory'[m]) \in Nat /\ Len(memory'[m]) >= Len(memory[m])
    BY Grown
  <2>2. reader.floor[m] <= Len(memory[m])
    BY DEF ReaderInv
  <2> QED
    BY <1>2, <2>1, <2>2
<1>6. ASSUME NEW m \in Locations, NEW j \in 1 .. Len(memory'[m]), memory'[m][j].at <= s
      PROVE  j <= reader.floor[m]
  BY <1>4, <1>6 DEF ReaderInv, s
<1>7. s + 1 <= Len(memory'["last"])
  <2>1. s + 1 <= Len(memory["last"])
    BY DEF ReaderInv, s
  <2>2. Len(memory["last"]) \in Nat /\ Len(memory'["last"]) \in Nat
        /\ Len(memory'["last"]) >= Len(memory["last"])
    BY <1>2, Grown
  <2> QED
    BY <1>2, <2>1, <2>2
<1>8. ReaderInv'
  BY <1>1, <1>5, <1>6, <1>7 DEF ReaderInv, Index, s
<1>9. ASSUME EventsPrecedeSnapshot PROVE EventsPrecedeSnapshot'
  <2> SUFFICES ASSUME reader.answer = "empty", NEW i \in 2 .. Len(memory'["write"]),
                      memory'["write"][i].at <= s
               PROVE  i - 1 <= reader.popped
    BY <1>1 DEF EventsPrecedeSnapshot, s
  <2>1. i \in 1 .. Len(memory'["write"])
    BY Grown, <1>2
  <2>2. i \in Index("write") /\ memory'["write"][i] = memory["write"][i]
    BY <1>2, <1>4, <2>1
  <2>3. i \in 2 .. Len(memory["write"])
    BY <2>2 DEF Index
  <2> QED
    BY <1>9, <2>2, <2>3 DEF EventsPrecedeSnapshot, s
<1>10. ASSUME ViewsInv PROVE ViewsInv'
  BY <1>1, <1>9, <1>10 DEF ViewsInv, SnapshotsCatchUp, SnapshotFollowsEvents, Loaded
<1> QED
  BY <1>8, <1>10

\* A new event says what its kind is now; another store leaves what the events say.
LEMMA StoresSay ==
  ASSUME TypeInv, OwnerInv, StoresInv, NEW l \in Locations, NEW event \in Event,
         Stores(l, event), NEW n \in Nat, NEW k \in Kinds
  PROVE  IF l = "write" /\ event.kind = k /\ At <= n THEN Says(n, k)' = event.value
         ELSE Says(n, k)' = Says(n, k)
<1> DEFINE len == Len(memory["write"])
           c == memory'["write"][len + 1]
<1>1. /\ "write" \in Locations /\ len \in Nat /\ len >= 1
      /\ l = "write" => Len(memory'["write"]) = len + 1 /\ c.at = At /\ c.event = event
      /\ l # "write" => Len(memory'["write"]) = len
      /\ \A i \in 1 .. len : memory'["write"][i] = memory["write"][i]
  <2>1. "write" \in Locations
    BY DEF Locations
  <2> QED
    BY <2>1, Appended DEF Index
<1> HIDE DEF len, c
<1>2. \A i \in 2 .. len : i \in Of(n, k)' <=> i \in Of(n, k)
  <2> SUFFICES ASSUME NEW i \in 2 .. len PROVE i \in Of(n, k)' <=> i \in Of(n, k)
    OBVIOUS
  <2>1. i \in 1 .. len /\ i \in 2 .. Len(memory'["write"]) /\ i \in 2 .. Len(memory["write"])
    BY <1>1 DEF len
  <2>2. memory'["write"][i] = memory["write"][i]
    BY <1>1, <2>1
  <2> QED
    BY <2>1, <2>2 DEF Of
<1>3. Of(n, k) \subseteq 2 .. len
  BY DEF Of, len
<1>4. CASE l = "write" /\ event.kind = k /\ At <= n
  <2>1. len + 1 \in Of(n, k)'
    BY <1>1, <1>4 DEF Of, c
  <2>2. Of(n, k)' \subseteq 2 .. len + 1
    BY <1>1, <1>4 DEF Of
  <2>3. \A j \in Of(n, k)' : j <= len + 1
    BY <1>1, <2>2
  <2>4. \A i \in Of(n, k)' : (\A j \in Of(n, k)' : j <= i) => i = len + 1
    BY <1>1, <2>1, <2>2
  <2>5. memory'["write"][len + 1].event.value = event.value
    BY <1>1, <1>4 DEF c
  <2>6. Says(n, k)' = (\E i \in Of(n, k)' :
          (\A j \in Of(n, k)' : j <= i) /\ memory'["write"][i].event.value)
    BY DEF Says
  <2>7. event.value \in BOOLEAN
    BY DEF Event
  <2>8. Says(n, k)' <=> event.value
    BY <2>1, <2>3, <2>4, <2>5, <2>6, Zenon
  <2> QED
    BY <1>4, <2>6, <2>7, <2>8
<1>5. CASE ~(l = "write" /\ event.kind = k /\ At <= n)
  <2>1. Of(n, k)' \subseteq 2 .. len
    <3> SUFFICES ASSUME NEW i \in Of(n, k)' PROVE i \in 2 .. len
      OBVIOUS
    <3>1. /\ i \in 2 .. Len(memory'["write"])
          /\ memory'["write"][i].at <= n /\ memory'["write"][i].event.kind = k
      BY DEF Of
    <3>2. CASE l = "write" /\ i = len + 1
      BY <1>1, <1>5, <3>1, <3>2 DEF c
    <3> QED
      BY <1>1, <3>1, <3>2
  <2>2. Of(n, k)' = Of(n, k)
    BY <1>2, <1>3, <2>1
  <2>3. \A i \in Of(n, k) : memory'["write"][i] = memory["write"][i]
    <3>1. \A i \in 2 .. len : i \in 1 .. len
      BY <1>1
    <3> QED
      BY <1>1, <1>3, <3>1
  <2>4. Says(n, k)' = Says(n, k)
    BY <2>2, <2>3 DEF Says
  <2> QED
    BY <1>5, <2>4
<1> QED
  BY <1>4, <1>5

\* What was lost stays lost.
LEMMA StoresLose ==
  ASSUME TypeInv, OwnerInv, NEW l \in Locations, NEW event \in Event,
         Stores(l, event), NEW n \in Nat
  PROVE  /\ \A m \in Locations : Lost(m, n) => Lost(m, n)'
         /\ Lossy(n) => Lossy(n)'
         /\ At <= n => Lost(l, n)'
<1>1. ASSUME NEW m \in Locations, Lost(m, n) PROVE Lost(m, n)'
  BY <1>1, Appended DEF Lost, Index
<1>2. ASSUME At <= n PROVE Lost(l, n)'
  <2> DEFINE j == Len(memory[l]) + 1
  <2>1. j \in 1 .. Len(memory'[l]) /\ j >= 2
    BY Appended
  <2>2. memory'[l][j].at = At
    BY Appended
  <2> HIDE DEF j
  <2> QED
    BY <1>2, <2>1, <2>2 DEF Lost, Index
<1>3. "drops" \in Locations /\ "failures" \in Locations /\ side' = side
  BY DEF Locations, Stores
<1> QED
  BY <1>1, <1>2, <1>3 DEF Lossy

\* An edge that is not pushed is still to come, or has been counted as lost.
LEMMA StoresEdges ==
  ASSUME TypeInv, OwnerInv, StoresInv, EdgesInv, NEW l \in Locations, NEW event \in Event,
         Stores(l, event)
  PROVE  EdgesInv'
<1>1. /\ N' = N /\ N \in Nat /\ At \in Nat /\ Len(published) = N + 1
      /\ At = IF Publishes(owner.todo) THEN N ELSE N + 1
      /\ UNCHANGED <<side, published, owner.now>>
  <2>1. Len(published) \in Nat
    BY DEF TypeInv
  <2> QED
    BY <2>1, AtIs DEF Stores, N
<1>2. "failures" \in Locations /\ "drops" \in Locations
  BY DEF Locations
<1>3. \/ owner.now = published[Len(published)]
      \/ side = "transmit" /\ Lost("failures", Len(published))'
  <2>1. PICK n \in Nat : n = Len(published)
    BY <1>1
  <2>2. Lost("failures", n)' => Lost("failures", Len(published))'
    BY <1>1, <2>1
  <2>3. ASSUME owner.todo = Failure PROVE Lost("failures", n)'
    <3>1. Fails(owner.todo)
      BY <2>3 DEF Fails
    <3>2. ~Publishes(owner.todo)
      BY <3>1, FailsIs DEF Publishes
    <3>3. l = "failures" /\ At <= n
      BY <1>1, <2>1, <2>3, <3>2, StoresWhere
    <3> QED
      BY <3>3, StoresLose
  <2>4. Lost("failures", n) => Lost("failures", n)'
    BY <1>2, StoresLose
  <2> QED
    BY <2>1, <2>2, <2>3, <2>4 DEF EdgesInv
<1>4. ASSUME NEW n \in 0 .. N, NEW k \in Kinds
      PROVE  \/ Lossy(n)'
             \/ Says(n, k)' = published[n + 1][k]
             \/ n = N /\ Publishes(owner.todo)' /\ Coming(k)'
  <2>1. n \in Nat /\ n <= N
    BY <1>1
  <2>2. Lossy(n) => Lossy(n)'
    BY <2>1, StoresLose
  <2>3. ASSUME l = "write", event.kind = k, At <= n PROVE Says(n, k)' = published[n + 1][k]
    <3>1. Says(n, k)' = event.value
      BY <2>1, <2>3, StoresSay
    <3>2. Publishes(owner.todo) /\ n = N
      BY <1>1, <2>1, <2>3
    <3>3. event.value = published[Len(published)][event.kind]
      BY <2>3, <3>2, StoresWhere
    <3> QED
      BY <1>1, <2>3, <3>1, <3>2, <3>3
  <2>4. CASE Says(n, k) = published[n + 1][k]
    BY <2>1, <2>3, <2>4, StoresSay
  <2>5. CASE n = N /\ Publishes(owner.todo) /\ Coming(k)
    <3> DEFINE q == owner.todo
    <3>1. q \in Seq(Step) /\ PublishesOf(q, published[Len(published)]) /\ Len(q) \in Nat
      BY <2>5 DEF TypeInv, OwnerType, Publishes
    <3>2. PICK j \in DOMAIN q : q[j].to = "write" /\ q[j].event.kind = k
      BY <2>5 DEF Coming
    <3>3. /\ Tail(q) \in Seq(Step) /\ Len(Tail(q)) = Len(q) - 1 /\ Head(q) = q[1]
          /\ \A i \in 1 .. Len(q) - 1 : Tail(q)[i] = q[i + 1]
      BY <3>1, PublishesTail
    <3>4. owner'.todo = Tail(q)
      BY DEF Stores
    <3>5. j \in 1 .. Len(q)
      BY <3>1
    <3> HIDE DEF q
    <3>6. CASE j = 1
      <4>1. (l = "write" /\ event = q[1].event) \/ l = "drops"
        BY <3>2, <3>3, <3>6 DEF Stores, q
      <4>2. CASE l = "write" /\ event = q[1].event
        BY <1>1, <2>3, <2>5, <3>2, <3>6, <4>2
      <4>3. CASE l = "drops"
        <5>1. At <= n
          BY <1>1, <2>5
        <5>2. Lost("drops", n)'
          BY <2>1, <4>3, <5>1, StoresLose
        <5> QED
          BY <5>2 DEF Lossy
      <4> QED
        BY <4>1, <4>2, <4>3
    <3>7. CASE j # 1
      <4>1. j - 1 \in 1 .. Len(q) - 1 /\ Len(q) >= 2
        BY <3>1, <3>5, <3>7
      <4>2. Tail(q)[j - 1] = q[j]
        <5>1. Tail(q)[j - 1] = q[(j - 1) + 1] /\ (j - 1) + 1 = j
          BY <3>3, <3>5, <4>1
        <5> QED
          BY <5>1
      <4>3. j - 1 \in DOMAIN Tail(q)
        BY <3>3, <4>1
      <4>4. Coming(k)'
        BY <3>2, <3>4, <4>2, <4>3 DEF Coming
      <4>5. Publishes(owner.todo)'
        BY <2>5, <4>1, StoresWhere DEF q
      <4> QED
        BY <2>5, <4>4, <4>5
    <3> QED
      BY <3>6, <3>7
  <2> QED
    BY <2>2, <2>4, <2>5 DEF EdgesInv
<1> QED
  BY <1>1, <1>3, <1>4 DEF EdgesInv

\* A store keeps the invariant.
LEMMA StoresKeep ==
  ASSUME Inv, NEW l \in Locations, NEW event \in Event, Stores(l, event)
  PROVE  Inv'
<1>1. TypeInv' /\ OwnerInv'
  BY StoresOwner DEF Inv
<1>2. StoresInv'
  BY StoresBounded, StoresTeach DEF Inv, StoresInv
<1>3. ReaderInv' /\ ViewsInv'
  BY StoresReader DEF Inv
<1>4. EdgesInv'
  BY StoresEdges DEF Inv
<1> QED
  BY <1>1, <1>2, <1>3, <1>4 DEF Inv
----------------------------------------------------------------------------
(* A callback begins *)

\* Between callbacks every field has been stored as often as there are publications.
LEMMA IdleIs ==
  ASSUME OwnerInv, owner.todo = <<>>
  PROVE  ~Publishes(owner.todo) /\ \A f \in Fields : Len(memory[f]) = N + 1
<1>1. ~Publishes(owner.todo)
  BY DEF Publishes, PublishesOf
<1> QED
  BY <1>1 DEF OwnerInv, Fields

\* A publication: every edge of it is to come.
LEMMA PublishingKeeps ==
  ASSUME Inv, NEW new \in [Kinds -> BOOLEAN], NEW frames, Publishing(new, frames)
  PROVE  Inv'
<1> DEFINE es == Edges(owner.now, new)
           q == Publication(es)
<1>1. /\ owner.todo = <<>> /\ owner \in OwnerType /\ owner.now \in [Kinds -> BOOLEAN]
      /\ owner' = [owner EXCEPT !.now = new, !.calls = @ + 1, !.todo = q]
      /\ published' = Append(published, new) /\ UNCHANGED <<side, memory, reader>>
  BY DEF Publishing, Idle, Inv, TypeInv, OwnerType
<1>2. /\ es \in Seq(Step)
      /\ \A i \in 1 .. Len(es) :
           es[i].to = "write" /\ es[i].event.kind \in Kinds
           /\ es[i].event.value = new[es[i].event.kind]
      /\ \A k \in Kinds : owner.now[k] # new[k] =>
           \E i \in 1 .. Len(es) : es[i].event.kind = k
  BY EdgesAre
<1> HIDE DEF es
<1>3. /\ q \in Seq(Step) /\ Len(q) = Len(es) + 3 /\ PublishesOf(q, new)
      /\ \A i \in 1 .. Len(es) : q[i] = es[i]
      /\ Len(es) \in Nat
  <2>1. /\ q \in Seq(Step) /\ Len(q) = Len(es) + 3 /\ PublishesOf(q, new)
        /\ \A i \in 1 .. Len(es) : q[i] = es[i]
    BY <1>2, PublicationIs
  <2> QED
    BY <1>2, <2>1
<1> HIDE DEF q
<1>4. owner'.todo = q /\ owner'.now = new /\ owner' \in OwnerType
  <2>1. owner.calls + 1 \in Int /\ q \in Seq(Step)
    BY <1>1, <1>3 DEF OwnerType
  <2> DEFINE calls == owner.calls + 1
             steps == Seq(Step)
             todo == q
             all == [Kinds -> BOOLEAN]
  <2>2. /\ owner \in [now : all, todo : steps, seenRead : Int, calls : Int]
        /\ owner' = [owner EXCEPT !.now = new, !.calls = calls, !.todo = todo]
        /\ calls \in Int /\ todo \in steps /\ new \in all
    BY <1>1, <2>1 DEF OwnerType
  <2> HIDE DEF calls, steps, todo, all
  <2>3. /\ owner'.todo = todo /\ owner'.now = new
        /\ owner' \in [now : all, todo : steps, seenRead : Int, calls : Int]
    BY <2>2
  <2> QED
    BY <2>3 DEF OwnerType, steps, todo, all
<1>5. /\ published \in Seq([Kinds -> BOOLEAN]) /\ Len(published) \in Nat
      /\ Len(published) >= 1 /\ N \in Nat /\ Len(published) = N + 1
  BY DEF Inv, TypeInv, N
<1>6. /\ published' \in Seq([Kinds -> BOOLEAN]) /\ Len(published') = N + 2 /\ N' = N + 1
      /\ published'[N + 2] = new /\ \A i \in 1 .. N + 1 : published'[i] = published[i]
  BY <1>1, <1>5 DEF N
<1>7. /\ Publishes(owner.todo)' /\ ~Publishes(owner.todo)
      /\ \A f \in Fields : Len(memory[f]) = N + 1
  BY <1>1, <1>3, <1>4, <1>6, IdleIs DEF Publishes, Inv
<1>8. TypeInv'
  BY <1>1, <1>4, <1>5, <1>6 DEF Inv, TypeInv
<1>9. OwnerInv'
  <2>1. Len(q) >= 3
    BY <1>3
  <2>2. Len(q) >= 2
    BY <1>3
  <2> QED
    BY <1>1, <1>4, <1>5, <1>6, <1>7, <2>1, <2>2 DEF OwnerInv, Fields
<1>10. StoresInv'
  <2>1. Counted' /\ FlagsTeach'
    BY <1>1 DEF Inv, StoresInv, Counted, FlagsTeach, Index
  <2>2. Bounded'
    BY <1>1, <1>6, <1>7 DEF Inv, StoresInv, Bounded, Index
  <2>3. ASSUME NEW i \in Index("write"), memory["write"][i].event.kind \in Kinds
        PROVE  memory["write"][i].at <= N + 1
    <3>1. memory["write"][i] \in Cell
      BY CellType DEF Inv, Locations
    <3>2. memory["write"][i].at \in Nat /\ memory["write"][i].at <= N
      BY <2>3, <3>1 DEF Inv, StoresInv, EventsTeach, Cell
    <3> QED
      BY <1>5, <3>2
  <2>4. EventsTeach'
    BY <1>1, <1>6, <2>3 DEF Inv, StoresInv, EventsTeach, Index
  <2> QED
    BY <2>1, <2>2, <2>4 DEF StoresInv
<1>11. ReaderInv' /\ ViewsInv'
  BY <1>1 DEF Inv, ReaderInv, ViewsInv, SnapshotsCatchUp, SnapshotFollowsEvents,
              EventsPrecedeSnapshot, Loaded, Index
<1>12. /\ \A n : Lossy(n)' = Lossy(n)
       /\ \A n, k : Says(n, k)' = Says(n, k)
  BY <1>1 DEF Lossy, Lost, Says, Of, Index
<1>13. ASSUME NEW k \in Kinds
       PROVE  Lossy(N + 1) \/ Says(N + 1, k) = new[k] \/ Coming(k)'
  <2>1. CASE owner.now[k] # new[k]
    <3>1. PICK i \in 1 .. Len(es) : es[i].event.kind = k
      BY <1>2, <2>1
    <3>2. q[i].to = "write" /\ q[i].event.kind = k /\ i \in DOMAIN q
      BY <1>2, <1>3, <3>1
    <3> QED
      BY <1>4, <3>2 DEF Coming
  <2>2. CASE owner.now[k] = new[k]
    <3>1. \/ owner.now = published[N + 1]
          \/ side = "transmit" /\ Lost("failures", N + 1)
      BY <1>1, <1>5 DEF Inv, EdgesInv, Failure
    <3>2. CASE side = "transmit" /\ Lost("failures", N + 1)
      BY <3>2 DEF Lossy
    <3>3. CASE owner.now = published[N + 1]
      <4>1. N \in 0 .. N
        BY <1>5
      <4>2. Lossy(N) \/ Says(N, k) = published[N + 1][k]
        BY <1>7, <4>1 DEF Inv, EdgesInv
      <4>3. ASSUME NEW m \in Locations, NEW j \in Index(m)
            PROVE  memory[m][j].at \in Nat /\ (memory[m][j].at <= N => memory[m][j].at <= N + 1)
        <5>1. memory[m][j] \in Cell
          BY CellType DEF Inv
        <5>2. memory[m][j].at \in Nat
          BY <5>1 DEF Cell
        <5> QED
          BY <1>5, <5>2
      <4>4. Lossy(N) => Lossy(N + 1)
        BY <4>3 DEF Lossy, Lost, Locations
      <4>5. Of(N + 1, k) = Of(N, k)
        <5>1. ASSUME NEW i \in 2 .. Len(memory["write"]), memory["write"][i].event.kind = k
              PROVE  memory["write"][i].at <= N + 1 <=> memory["write"][i].at <= N
          <6>1. i \in Index("write") /\ "write" \in Locations
            BY DEF Index, Locations
          <6>2. memory["write"][i].at <= N
            BY <5>1, <6>1 DEF Inv, StoresInv, EventsTeach
          <6> QED
            BY <4>3, <6>1, <6>2
        <5> QED
          BY <5>1 DEF Of
      <4>6. Says(N + 1, k) = Says(N, k)
        BY <4>5 DEF Says
      <4> QED
        BY <2>2, <3>3, <4>2, <4>4, <4>6
    <3> QED
      BY <3>1, <3>2, <3>3
  <2> QED
    BY <2>1, <2>2
<1>14. ASSUME NEW n \in 0 .. N + 1, NEW k \in Kinds
       PROVE  \/ Lossy(n)'
              \/ Says(n, k)' = published'[n + 1][k]
              \/ n = N + 1 /\ Coming(k)'
  <2>1. CASE n = N + 1
    BY <1>5, <1>6, <1>12, <1>13, <2>1
  <2>2. CASE n # N + 1
    <3>1. n \in 0 .. N /\ n + 1 \in 1 .. N + 1
      BY <1>5, <2>2
    <3>2. Lossy(n) \/ Says(n, k) = published[n + 1][k]
      BY <1>7, <3>1 DEF Inv, EdgesInv
    <3> QED
      BY <1>6, <1>12, <3>1, <3>2
  <2> QED
    BY <2>1, <2>2
<1>15. EdgesInv'
  BY <1>4, <1>6, <1>7, <1>14 DEF EdgesInv
<1> QED
  BY <1>8, <1>9, <1>10, <1>11, <1>15 DEF Inv

\* A failing callback counts what it does not publish.
LEMMA FailingKeeps ==
  ASSUME Inv, NEW new \in [Kinds -> BOOLEAN], Failing(new)
  PROVE  Inv'
<1>1. /\ owner.todo = <<>> /\ owner \in OwnerType /\ (side = "receive" => new = owner.now)
      /\ owner' = [owner EXCEPT !.now = new, !.calls = @ + 1, !.todo = Failure]
      /\ UNCHANGED <<side, memory, published, reader>>
  BY DEF Failing, Idle, Inv, TypeInv
<1>2. Failure \in Seq(Step) /\ Fails(Failure)
  BY DEF Failure, Push, Store, Step, Event, Nothing, Locations, Failed, Fails
<1>3. owner'.todo = Failure /\ owner'.now = new /\ owner' \in OwnerType
  <2>1. owner.calls + 1 \in Int /\ Failure \in Seq(Step)
    BY <1>1, <1>2 DEF OwnerType
  <2> DEFINE calls == owner.calls + 1
             steps == Seq(Step)
             todo == Failure
             all == [Kinds -> BOOLEAN]
  <2>2. /\ owner \in [now : all, todo : steps, seenRead : Int, calls : Int]
        /\ owner' = [owner EXCEPT !.now = new, !.calls = calls, !.todo = todo]
        /\ calls \in Int /\ todo \in steps /\ new \in all
    BY <1>1, <2>1 DEF OwnerType
  <2> HIDE DEF calls, steps, todo, all
  <2>3. /\ owner'.todo = todo /\ owner'.now = new
        /\ owner' \in [now : all, todo : steps, seenRead : Int, calls : Int]
    BY <2>2
  <2> QED
    BY <2>3 DEF OwnerType, steps, todo, all
<1>4. /\ ~Publishes(owner.todo)' /\ ~Publishes(owner.todo)
      /\ \A f \in Fields : Len(memory[f]) = N + 1
  BY <1>1, <1>2, <1>3, FailsIs, IdleIs DEF Publishes, Inv
<1>5. TypeInv'
  BY <1>1, <1>3 DEF Inv, TypeInv
<1>6. OwnerInv'
  BY <1>1, <1>2, <1>3, <1>4 DEF OwnerInv, Fields, N
<1>7. StoresInv'
  BY <1>1, <1>4 DEF Inv, StoresInv, Counted, Bounded, EventsTeach, FlagsTeach, Index, N
<1>8. ReaderInv' /\ ViewsInv'
  BY <1>1 DEF Inv, ReaderInv, ViewsInv, SnapshotsCatchUp, SnapshotFollowsEvents,
              EventsPrecedeSnapshot, Loaded, Index
<1>9. /\ \A n : Lossy(n)' = Lossy(n)
      /\ \A n, k : Says(n, k)' = Says(n, k)
  BY <1>1 DEF Lossy, Lost, Says, Of, Index
<1>10. owner'.now = published[Len(published)] \/ side = "transmit"
  <2>1. side \in {"receive", "transmit"}
    BY DEF Inv, TypeInv
  <2>2. side = "receive" => owner.now = published[Len(published)]
    BY DEF Inv, EdgesInv
  <2> QED
    BY <1>1, <1>3, <2>1, <2>2
<1>11. \A n \in 0 .. N : \A k \in Kinds : Lossy(n) \/ Says(n, k) = published[n + 1][k]
  BY <1>4 DEF Inv, EdgesInv
<1>12. EdgesInv'
  BY <1>1, <1>3, <1>9, <1>10, <1>11 DEF EdgesInv, N
<1> QED
  BY <1>5, <1>6, <1>7, <1>8, <1>12 DEF Inv
----------------------------------------------------------------------------
(* The reader *)

\* A load forgets nothing, passes no store that is not there, and an acquire load
\* knows what the store knew.
LEMMA Learns ==
  ASSUME Inv, NEW l \in Locations, NEW i \in Loadable(l)
  PROVE  /\ i \in Index(l) /\ i \in Nat /\ i >= reader.floor[l]
         /\ Knowing(l, i) \in Views /\ i <= Knowing(l, i)[l]
         /\ \A m \in Locations :
              /\ Knowing(l, i)[m] \in Nat /\ Knowing(l, i)[m] <= Len(memory[m])
              /\ reader.floor[m] <= Knowing(l, i)[m]
              /\ Acquires(l) => memory[l][i].view[m] <= Knowing(l, i)[m]
<1>1. /\ reader.floor \in Views
      /\ \A m \in Locations : Len(memory[m]) \in Nat /\ Len(memory[m]) >= 1
      /\ \A m \in Locations : reader.floor[m] <= Len(memory[m])
  BY DEF Inv, TypeInv, ReaderInv
<1>2. \A m \in Locations : reader.floor[m] \in Nat \ {0}
  BY <1>1 DEF Views
<1>3. i \in Index(l) /\ i \in Nat \ {0} /\ i >= reader.floor[l] /\ i <= Len(memory[l])
  BY <1>1, <1>2 DEF Loadable, Index
<1>4. \A m \in Locations : memory[l][i].view[m] \in Nat \ {0}
                           /\ memory[l][i].view[m] <= Len(memory[m])
  <2>1. memory[l][i] \in Cell
    BY <1>3, CellType DEF Inv
  <2> QED
    BY <1>3, <2>1 DEF Inv, StoresInv, Bounded, Cell, Views
<1>5. ASSUME NEW m \in Locations
      PROVE  /\ Knowing(l, i)[m] \in Nat \ {0} /\ Knowing(l, i)[m] <= Len(memory[m])
             /\ reader.floor[m] <= Knowing(l, i)[m]
             /\ (Acquires(l) => memory[l][i].view[m] <= Knowing(l, i)[m])
             /\ (m = l => i <= Knowing(l, i)[m])
  <2> DEFINE a == IF m = l THEN i ELSE reader.floor[m]
             b == IF Acquires(l) THEN memory[l][i].view[m] ELSE 1
  <2>1. Knowing(l, i)[m] = IF a > b THEN a ELSE b
    BY DEF Knowing, Larger
  <2>2. a \in Nat \ {0} /\ a <= Len(memory[m]) /\ reader.floor[m] <= a /\ (m = l => a = i)
    BY <1>1, <1>2, <1>3
  <2>3. b \in Nat \ {0} /\ b <= Len(memory[m])
        /\ (Acquires(l) => b = memory[l][i].view[m])
    BY <1>1, <1>4
  <2> HIDE DEF a, b
  <2>4. CASE a > b
    BY <1>1, <1>2, <2>1, <2>2, <2>3, <2>4
  <2>5. CASE ~(a > b)
    BY <1>1, <1>2, <2>1, <2>2, <2>3, <2>5
  <2> QED
    BY <2>4, <2>5
<1>6. Knowing(l, i) \in Views
  <2>1. Knowing(l, i) = [m \in Locations |-> Knowing(l, i)[m]]
    BY DEF Knowing
  <2> HIDE DEF Knowing
  <2> QED
    BY <1>5, <2>1 DEF Views
<1> QED
  BY <1>3, <1>5, <1>6

\* The reader changes nothing of the owner.
LEMMA ReaderOnly ==
  ASSUME Inv, UNCHANGED <<side, memory, owner, published>>, TypeInv', ReaderInv', ViewsInv'
  PROVE  Inv'
<1>1. OwnerInv' /\ StoresInv'
  BY DEF Inv, OwnerInv, StoresInv, Counted, Bounded, EventsTeach, FlagsTeach, Index, N, Publishes
<1>2. EdgesInv'
  <2>1. /\ \A n : Lossy(n)' = Lossy(n)
        /\ \A n, k : Says(n, k)' = Says(n, k)
        /\ \A k : Coming(k)' = Coming(k)
    BY DEF Lossy, Lost, Says, Of, Index, Coming
  <2> QED
    BY <2>1 DEF Inv, EdgesInv, Lost, Index, N, Publishes
<1> QED
  BY <1>1, <1>2 DEF Inv

\* Every field has been stored as often as the last.
LEMMA FlagIsLast ==
  ASSUME TypeInv, OwnerInv
  PROVE  \A f \in Fields : Len(memory["last"]) <= Len(memory[f])
<1>1. N \in Nat
  BY DEF TypeInv, N
<1>2. /\ Len(memory["frames"]) \in {N, N + 1} /\ Len(memory["state"]) \in {N, N + 1}
      /\ Len(memory["last"]) \in {N, N + 1}
      /\ Len(memory["last"]) = N + 1 =>
           Len(memory["frames"]) = N + 1 /\ Len(memory["state"]) = N + 1
  BY <1>1 DEF OwnerInv
<1> QED
  BY <1>1, <1>2 DEF Fields

ReaderType ==
  [floor : Views, todo : Seq(Fields \cup {"drops", "failures"}),
   seen : [Locations -> Nat], stamp : Nat, heard : Nat, before : Nat,
   popped : Nat, answer : {"none", "empty", "event"}]

LEMMA BeginKeeps ==
  ASSUME Inv, BeginSnapshot
  PROVE  Inv'
<1>1. reader \in ReaderType
  BY DEF Inv, TypeInv, ReaderType
<1>2. /\ reader.floor \in Views /\ reader.seen \in [Locations -> Nat] /\ reader.stamp \in Nat
      /\ reader.heard \in Nat /\ reader.before \in Nat /\ reader.popped \in Nat
      /\ reader.seen["last"] \in Nat
  BY <1>1 DEF ReaderType, Locations, Fields
<1>3. Loads \in Seq(Fields \cup {"drops", "failures"})
      /\ DOMAIN Loads = 1 .. 5 /\ Loads[1] = "frames" /\ Loads[4] = "state" /\ Loads[5] = "last"
  BY DEF Loads, Fields
<1>4. /\ reader' \in ReaderType
      /\ reader'.floor = reader.floor /\ reader'.seen = reader.seen /\ reader'.todo = Loads
      /\ reader'.stamp = reader.seen["last"] /\ reader'.before = reader.heard
      /\ reader'.heard = reader.heard /\ reader'.popped = reader.popped
      /\ reader'.answer = "none"
  <2> DEFINE loads == Loads  todos == Seq(Fields \cup {"drops", "failures"})
             stamp == reader.seen["last"]
  <2>1. /\ reader \in [floor : Views, todo : todos,
                       seen : [Locations -> Nat], stamp : Nat, heard : Nat, before : Nat,
                       popped : Nat, answer : {"none", "empty", "event"}]
        /\ reader' = [reader EXCEPT !.todo = loads, !.stamp = stamp, !.before = reader.heard,
                                    !.answer = "none"]
        /\ loads \in todos /\ stamp \in Nat
    BY <1>1, <1>2, <1>3 DEF BeginSnapshot, ReaderType
  <2> HIDE DEF loads, todos, stamp
  <2>2. /\ reader' \in [floor : Views, todo : todos,
                        seen : [Locations -> Nat], stamp : Nat, heard : Nat, before : Nat,
                        popped : Nat, answer : {"none", "empty", "event"}]
        /\ reader'.floor = reader.floor /\ reader'.seen = reader.seen /\ reader'.todo = loads
        /\ reader'.stamp = stamp /\ reader'.before = reader.heard
        /\ reader'.heard = reader.heard /\ reader'.popped = reader.popped
        /\ reader'.answer = "none"
    BY <2>1
  <2> QED
    BY <2>2 DEF ReaderType, loads, todos, stamp
<1>5. UNCHANGED <<side, memory, owner, published>>
  BY DEF BeginSnapshot
<1>6. TypeInv'
  BY <1>4, <1>5 DEF Inv, TypeInv, ReaderType
<1>7. ReaderInv'
  BY <1>2, <1>4, <1>5 DEF Inv, ReaderInv, Index
<1>8. Loaded' = {}
  <2>1. {"frames", "state", "last"} \subseteq {Loads[j] : j \in DOMAIN Loads}
    <3>1. 1 \in DOMAIN Loads /\ 4 \in DOMAIN Loads /\ 5 \in DOMAIN Loads
      BY <1>3
    <3> QED
      BY <1>3, <3>1
  <2>2. Loaded' = Fields \ {Loads[j] : j \in DOMAIN Loads}
    BY <1>4 DEF Loaded
  <2> QED
    BY <2>1, <2>2 DEF Fields
<1>9. ViewsInv'
  BY <1>4, <1>8 DEF ViewsInv, SnapshotsCatchUp, SnapshotFollowsEvents, EventsPrecedeSnapshot
<1> QED
  BY <1>5, <1>6, <1>7, <1>9, ReaderOnly

\* A load of the snapshot is not older than the flag the one before ended with.
LEMMA LoadKeeps ==
  ASSUME Inv, NEW i, Load(i)
  PROVE  Inv'
<1> DEFINE l == Head(reader.todo)
           known == Knowing(l, i)
           shown == IF l \in Fields THEN memory[l][i].at ELSE i - 1
<1>1. reader \in ReaderType /\ reader.todo # <<>> /\ i \in Loadable(l)
      /\ UNCHANGED <<side, memory, owner, published>>
  BY DEF Inv, TypeInv, ReaderType, Load
<1>2. /\ reader.todo \in Seq(Fields \cup {"drops", "failures"})
      /\ reader.seen \in [Locations -> Nat] /\ reader.floor \in Views
      /\ reader.stamp \in Nat /\ reader.before \in Nat /\ reader.heard \in Nat
      /\ reader.popped \in Nat
  BY <1>1 DEF ReaderType
<1>3. /\ l \in Locations /\ l # "write"
      /\ Tail(reader.todo) \in Seq(Fields \cup {"drops", "failures"})
      /\ "last" \in Locations /\ Fields \subseteq Locations
  <2>1. /\ l \in Fields \cup {"drops", "failures"}
        /\ Tail(reader.todo) \in Seq(Fields \cup {"drops", "failures"})
    BY <1>1, <1>2, HeadType
  <2> QED
    BY <2>1 DEF Locations, Fields
<1>4. /\ i \in Index(l) /\ i \in Nat /\ i >= reader.floor[l]
      /\ known \in Views /\ i <= known[l]
      /\ \A m \in Locations :
           /\ known[m] \in Nat /\ known[m] <= Len(memory[m]) /\ reader.floor[m] <= known[m]
           /\ Acquires(l) => memory[l][i].view[m] <= known[m]
  BY <1>1, <1>3, Learns
<1>5. i - 1 \in Nat /\ shown = i - 1
  <2>1. i >= 1
    BY <1>4 DEF Index
  <2>2. l \in Fields => memory[l][i].at = i - 1
    BY <1>4 DEF Inv, StoresInv, Counted
  <2> QED
    BY <1>4, <2>1, <2>2
<1>6. reader' = [reader EXCEPT !.floor = known, !.todo = Tail(@), !.seen[l] = shown]
  BY DEF Load
<1> HIDE DEF l, known, shown
<1>7. /\ reader' \in ReaderType
      /\ reader'.floor = known /\ reader'.todo = Tail(reader.todo)
      /\ reader'.seen = [reader.seen EXCEPT ![l] = i - 1]
      /\ reader'.stamp = reader.stamp /\ reader'.before = reader.before
      /\ reader'.heard = reader.heard /\ reader'.popped = reader.popped
      /\ reader'.answer = reader.answer
  <2> DEFINE tail == Tail(reader.todo)  todos == Seq(Fields \cup {"drops", "failures"})
             seen == [reader.seen EXCEPT ![l] = i - 1]  seens == [Locations -> Nat]
  <2>1. /\ reader \in [floor : Views, todo : todos,
                       seen : seens, stamp : Nat, heard : Nat, before : Nat,
                       popped : Nat, answer : {"none", "empty", "event"}]
        /\ reader' = [reader EXCEPT !.floor = known, !.todo = tail, !.seen = seen]
        /\ tail \in todos /\ seen \in seens /\ known \in Views
    BY <1>1, <1>2, <1>3, <1>4, <1>5, <1>6 DEF ReaderType
  <2> HIDE DEF tail, todos, seen, seens
  <2>2. /\ reader' \in [floor : Views, todo : todos,
                        seen : seens, stamp : Nat, heard : Nat, before : Nat,
                        popped : Nat, answer : {"none", "empty", "event"}]
        /\ reader'.floor = known /\ reader'.todo = tail /\ reader'.seen = seen
        /\ reader'.stamp = reader.stamp /\ reader'.before = reader.before
        /\ reader'.heard = reader.heard /\ reader'.popped = reader.popped
        /\ reader'.answer = reader.answer
    BY <2>1
  <2> QED
    BY <2>2 DEF ReaderType, tail, todos, seen, seens
<1>8. TypeInv'
  BY <1>1, <1>7 DEF Inv, TypeInv, ReaderType
<1>9. reader.answer # "empty"
  BY <1>1 DEF Inv, ReaderInv
<1> DEFINE s == reader.seen["last"]
           t == reader'.seen["last"]
<1>10. s \in Nat /\ t = IF l = "last" THEN i - 1 ELSE s
  BY <1>2, <1>3, <1>7
<1>11. ASSUME NEW f \in Fields PROVE reader.floor[f] >= s + 1
  <2>1. f \in Locations /\ s + 1 \in Nat /\ Len(memory[f]) \in Nat /\ Len(memory["last"]) \in Nat
    BY <1>3, <1>10 DEF Inv, TypeInv
  <2>2. s + 1 <= Len(memory["last"]) /\ Len(memory["last"]) <= Len(memory[f])
    BY FlagIsLast DEF Inv, ReaderInv
  <2>3. s + 1 \in Index(f)
    BY <1>10, <2>1, <2>2 DEF Index
  <2>4. memory[f][s + 1].at = s
    <3>1. memory[f][s + 1].at = (s + 1) - 1
      BY <2>3 DEF Inv, StoresInv, Counted
    <3> QED
      BY <1>10, <3>1
  <2>5. s + 1 <= reader.floor[f]
    BY <1>10, <2>1, <2>3, <2>4 DEF Inv, ReaderInv
  <2> QED
    BY <2>5
<1>12. t \in Nat /\ s <= t /\ t + 1 <= Len(memory["last"])
  <2>1. CASE l = "last"
    <3>1. reader.floor["last"] >= s + 1
      BY <1>11 DEF Fields
    <3>2. reader.floor["last"] \in Nat /\ Len(memory["last"]) \in Nat
      BY <1>2, <1>3 DEF Views, Inv, TypeInv
    <3> HIDE DEF s, t
    <3>3. i <= Len(memory["last"])
      BY <1>4, <2>1 DEF Index
    <3>4. i \in Nat /\ i >= reader.floor["last"]
      BY <1>4, <1>5, <2>1, <3>2
    <3>5. t = i - 1 /\ s \in Nat
      BY <1>10, <2>1
    <3> QED
      BY <3>1, <3>2, <3>3, <3>4, <3>5
  <2>2. CASE l # "last"
    BY <1>10, <2>2 DEF Inv, ReaderInv
  <2> QED
    BY <2>1, <2>2
<1>13. ASSUME NEW m \in Locations, NEW j \in Index(m), memory[m][j].at <= t
       PROVE  j <= known[m]
  <2>1. memory[m][j].at \in Nat /\ j \in Nat /\ reader.floor[m] \in Nat /\ known[m] \in Nat
    <3>1. memory[m][j] \in Cell
      BY CellType DEF Inv
    <3>2. memory[m][j].at \in Nat
      BY <3>1 DEF Cell
    <3>3. j \in Nat
      BY <1>4 DEF Index
    <3>4. reader.floor[m] \in Nat
      BY <1>2 DEF Views
    <3> QED
      BY <1>4, <3>2, <3>3, <3>4
  <2>2. CASE l = "last"
    <3>1. j <= memory["last"][i].view[m]
      BY <1>4, <1>10, <1>13, <2>2 DEF Inv, StoresInv, FlagsTeach
    <3>2. memory["last"][i].view[m] <= known[m]
      BY <1>4, <2>2 DEF Acquires
    <3>3. memory["last"][i].view[m] \in Nat
      <4>1. memory["last"][i] \in Cell
        BY <1>3, <1>4, <2>2, CellType DEF Inv
      <4> QED
        BY <4>1 DEF Cell, Views
    <3> QED
      BY <2>1, <3>1, <3>2, <3>3
  <2>3. CASE l # "last"
    <3>1. j <= reader.floor[m]
      BY <1>10, <1>13, <2>3 DEF Inv, ReaderInv
    <3>2. reader.floor[m] <= known[m]
      BY <1>4
    <3> QED
      BY <2>1, <3>1, <3>2
  <2> QED
    BY <2>2, <2>3
<1>14. ASSUME NEW f \in Fields
       PROVE  known[f] >= reader.heard /\ known[f] >= reader.before
  <2>1. reader.floor[f] \in Nat /\ known[f] \in Nat /\ reader.floor[f] <= known[f]
    BY <1>2, <1>3, <1>4 DEF Views
  <2>2. reader.floor[f] >= reader.heard /\ reader.floor[f] >= reader.before
    BY DEF Inv, ReaderInv
  <2> QED
    BY <1>2, <2>1, <2>2
<1>15. reader.popped + 1 <= known["write"] /\ reader.stamp <= t
  <2>1. "write" \in Locations
    BY DEF Locations
  <2>2. reader.popped + 1 <= reader.floor["write"] /\ reader.floor["write"] <= known["write"]
        /\ reader.floor["write"] \in Nat /\ known["write"] \in Nat
    BY <1>2, <1>4, <2>1 DEF Views, Inv, ReaderInv
  <2>3. reader.stamp <= s
    BY DEF Inv, ReaderInv
  <2> HIDE DEF s, t
  <2> QED
    BY <1>2, <1>10, <1>12, <2>2, <2>3
<1>16. ReaderInv'
  BY <1>1, <1>4, <1>7, <1>9, <1>12, <1>13, <1>14, <1>15 DEF ReaderInv, Index
<1>17. ASSUME NEW f \in Loaded'
       PROVE  reader'.seen[f] >= reader.stamp /\ reader'.seen[f] >= reader.before - 1
  <2>1. f \in Fields
    BY DEF Loaded
  <2>2. CASE f = l
    <3>1. reader'.seen[f] = i - 1
      BY <1>2, <1>3, <1>7, <2>2
    <3>2. reader.floor[f] >= s + 1 /\ reader.floor[f] >= reader.before /\ reader.stamp <= s
      BY <1>11, <2>1 DEF Inv, ReaderInv
    <3>3. i >= reader.floor[f] /\ reader.floor[f] \in Nat
      BY <1>2, <1>3, <1>4, <2>2 DEF Views
    <3> HIDE DEF s
    <3> QED
      BY <1>2, <1>4, <1>10, <3>1, <3>2, <3>3
  <2>3. CASE f # l
    <3>1. reader'.seen[f] = reader.seen[f]
      BY <1>2, <1>3, <1>7, <2>1, <2>3
    <3>2. f \in Loaded
      <4>1. ASSUME NEW j \in DOMAIN reader.todo, reader.todo[j] = f PROVE FALSE
        <5>1. Len(reader.todo) \in Nat /\ j \in 1 .. Len(reader.todo)
          BY <1>2
        <5>2. j # 1
          BY <1>1, <2>3, <4>1 DEF l
        <5>3. /\ j - 1 \in 1 .. Len(reader.todo) - 1
              /\ DOMAIN Tail(reader.todo) = 1 .. Len(reader.todo) - 1
              /\ Tail(reader.todo)[j - 1] = reader.todo[j]
          BY <1>1, <1>2, <5>1, <5>2
        <5> QED
          BY <1>7, <4>1, <5>3 DEF Loaded
      <4> QED
        BY <2>1, <4>1 DEF Loaded
    <3> QED
      BY <3>1, <3>2 DEF Inv, ViewsInv, SnapshotsCatchUp, SnapshotFollowsEvents
  <2> QED
    BY <2>2, <2>3
<1>18. ViewsInv'
  BY <1>7, <1>9, <1>17
  DEF ViewsInv, SnapshotsCatchUp, SnapshotFollowsEvents, EventsPrecedeSnapshot
<1> QED
  BY <1>1, <1>8, <1>16, <1>18, ReaderOnly

\* An empty queue: every event the flag promises has been popped.
LEMMA PopEmptyKeeps ==
  ASSUME Inv, NEW i, PopEmpty(i)
  PROVE  Inv'
<1> DEFINE known == Knowing("write", i)
<1>1. /\ reader \in ReaderType /\ reader.todo = <<>> /\ i \in Loadable("write")
      /\ i - 1 = reader.popped
      /\ reader' = [reader EXCEPT !.floor = known, !.answer = "empty"]
      /\ UNCHANGED <<side, memory, owner, published>>
  BY DEF Inv, TypeInv, ReaderType, PopEmpty
<1>2. /\ reader.floor \in Views /\ reader.popped \in Nat /\ reader.heard \in Nat
      /\ reader.before \in Nat /\ reader.seen \in [Locations -> Nat]
      /\ "write" \in Locations /\ Fields \subseteq Locations
  BY <1>1 DEF ReaderType, Locations, Fields
<1>3. /\ i \in Index("write") /\ i \in Nat /\ i >= reader.floor["write"]
      /\ known \in Views
      /\ \A m \in Locations :
           known[m] \in Nat /\ known[m] <= Len(memory[m]) /\ reader.floor[m] <= known[m]
  BY <1>1, <1>2, Learns
<1> HIDE DEF known
<1>4. /\ reader' \in ReaderType
      /\ reader'.floor = known /\ reader'.todo = <<>> /\ reader'.seen = reader.seen
      /\ reader'.stamp = reader.stamp /\ reader'.before = reader.before
      /\ reader'.heard = reader.heard /\ reader'.popped = reader.popped
      /\ reader'.answer = "empty"
  BY <1>1, <1>3 DEF ReaderType
<1>5. TypeInv'
  BY <1>1, <1>4 DEF Inv, TypeInv, ReaderType
<1>6. ASSUME NEW m \in Locations, NEW j \in Index(m), memory[m][j].at <= reader.seen["last"]
      PROVE  j <= reader.floor[m] /\ j <= known[m]
  <2>1. j <= reader.floor[m]
    BY <1>6 DEF Inv, ReaderInv
  <2>2. j \in Nat /\ reader.floor[m] \in Nat /\ known[m] \in Nat
        /\ reader.floor[m] <= known[m]
    BY <1>2, <1>3 DEF Views, Index
  <2> QED
    BY <2>1, <2>2
<1>7. ASSUME NEW f \in Fields
      PROVE  known[f] >= reader.heard /\ known[f] >= reader.before
  <2>1. reader.floor[f] \in Nat /\ known[f] \in Nat /\ reader.floor[f] <= known[f]
    BY <1>2, <1>3 DEF Views
  <2>2. reader.floor[f] >= reader.heard /\ reader.floor[f] >= reader.before
    BY DEF Inv, ReaderInv
  <2> QED
    BY <1>2, <2>1, <2>2
<1>8. reader.popped + 1 <= known["write"]
  <2>1. reader.popped + 1 <= reader.floor["write"] /\ reader.floor["write"] <= known["write"]
        /\ reader.floor["write"] \in Nat /\ known["write"] \in Nat
    BY <1>2, <1>3 DEF Views, Inv, ReaderInv
  <2> QED
    BY <1>2, <2>1
<1>9. ReaderInv'
  BY <1>1, <1>3, <1>4, <1>6, <1>7, <1>8 DEF Inv, ReaderInv, Index
<1>10. ASSUME NEW j \in 2 .. Len(memory["write"]),
              memory["write"][j].at <= reader.seen["last"]
       PROVE  j - 1 <= reader.popped
  <2>1. j \in Index("write") /\ j \in Nat
    BY DEF Index
  <2>2. j <= reader.floor["write"]
    BY <1>2, <1>6, <1>10, <2>1
  <2>3. reader.floor["write"] \in Nat
    BY <1>2 DEF Views
  <2> QED
    BY <1>1, <1>2, <1>3, <2>1, <2>2, <2>3
<1>11. ViewsInv'
  <2>1. Loaded' = Loaded
    BY <1>1, <1>4 DEF Loaded
  <2>2. SnapshotsCatchUp' /\ SnapshotFollowsEvents'
    BY <1>4, <2>1 DEF Inv, ViewsInv, SnapshotsCatchUp, SnapshotFollowsEvents
  <2>3. EventsPrecedeSnapshot'
    BY <1>1, <1>4, <1>10 DEF EventsPrecedeSnapshot
  <2> QED
    BY <2>2, <2>3 DEF ViewsInv
<1> QED
  BY <1>1, <1>5, <1>9, <1>11, ReaderOnly

\* An event: its publication's predecessor is known from now on.
LEMMA PopEventKeeps ==
  ASSUME Inv, NEW i, PopEvent(i)
  PROVE  Inv'
<1> DEFINE known == Knowing("write", i)
           p == reader.popped + 2
           heard == memory["write"][p].at
<1>1. /\ reader \in ReaderType /\ reader.todo = <<>> /\ i \in Loadable("write")
      /\ i - 1 > reader.popped
      /\ reader' = [reader EXCEPT !.floor = known, !.popped = @ + 1, !.answer = "event",
                                  !.heard = heard]
      /\ UNCHANGED <<side, memory, owner, published>>
  BY DEF Inv, TypeInv, ReaderType, PopEvent
<1>2. /\ reader.floor \in Views /\ reader.popped \in Nat /\ reader.heard \in Nat
      /\ reader.before \in Nat /\ reader.seen \in [Locations -> Nat]
      /\ "write" \in Locations /\ Fields \subseteq Locations
  BY <1>1 DEF ReaderType, Locations, Fields
<1>3. /\ i \in Index("write") /\ i \in Nat /\ i <= known["write"]
      /\ known \in Views
      /\ \A m \in Locations :
           /\ known[m] \in Nat /\ known[m] <= Len(memory[m]) /\ reader.floor[m] <= known[m]
           /\ memory["write"][i].view[m] <= known[m]
  <2>1. Acquires("write")
    BY DEF Acquires
  <2> QED
    BY <1>1, <1>2, <2>1, Learns
<1>4. p \in Index("write") /\ p <= i
  BY <1>1, <1>2, <1>3 DEF Index
<1>5. /\ heard \in Nat /\ heard <= memory["write"][i].at
      /\ memory["write"][i].at \in Nat /\ memory["write"][i].view \in Views
  <2>1. memory["write"][p] \in Cell /\ memory["write"][i] \in Cell
    BY <1>2, <1>3, <1>4, CellType DEF Inv
  <2>2. heard <= memory["write"][i].at
    BY <1>3, <1>4 DEF Inv, StoresInv, EventsTeach
  <2> QED
    BY <2>1, <2>2 DEF Cell
<1>6. ASSUME NEW f \in Fields
      PROVE  known[f] >= heard /\ known[f] >= reader.before
  <2>1. memory["write"][i].at <= memory["write"][i].view[f]
    BY <1>3 DEF Inv, StoresInv, EventsTeach
  <2>2. memory["write"][i].view[f] \in Nat /\ memory["write"][i].view[f] <= known[f]
        /\ known[f] \in Nat /\ reader.floor[f] <= known[f] /\ reader.floor[f] \in Nat
    BY <1>2, <1>3, <1>5 DEF Views
  <2>3. reader.floor[f] >= reader.before
    BY DEF Inv, ReaderInv
  <2> HIDE DEF heard
  <2> QED
    BY <1>2, <1>5, <2>1, <2>2, <2>3
<1> HIDE DEF known, heard
<1>7. /\ reader' \in ReaderType
      /\ reader'.floor = known /\ reader'.todo = <<>> /\ reader'.seen = reader.seen
      /\ reader'.stamp = reader.stamp /\ reader'.before = reader.before
      /\ reader'.heard = heard /\ reader'.popped = reader.popped + 1
      /\ reader'.answer = "event"
  <2> DEFINE todos == Seq(Fields \cup {"drops", "failures"})  seens == [Locations -> Nat]
             popped == reader.popped + 1
  <2>1. /\ reader \in [floor : Views, todo : todos,
                       seen : seens, stamp : Nat, heard : Nat, before : Nat,
                       popped : Nat, answer : {"none", "empty", "event"}]
        /\ reader' = [reader EXCEPT !.floor = known, !.popped = popped, !.answer = "event",
                                    !.heard = heard]
        /\ popped \in Nat /\ known \in Views /\ heard \in Nat
    BY <1>1, <1>2, <1>3, <1>5 DEF ReaderType
  <2> HIDE DEF todos, seens, popped
  <2>2. /\ reader' \in [floor : Views, todo : todos,
                        seen : seens, stamp : Nat, heard : Nat, before : Nat,
                        popped : Nat, answer : {"none", "empty", "event"}]
        /\ reader'.floor = known /\ reader'.todo = reader.todo /\ reader'.seen = reader.seen
        /\ reader'.stamp = reader.stamp /\ reader'.before = reader.before
        /\ reader'.heard = heard /\ reader'.popped = popped
        /\ reader'.answer = "event"
    BY <2>1
  <2> QED
    BY <1>1, <2>2 DEF ReaderType, todos, seens, popped
<1>8. TypeInv'
  BY <1>1, <1>7 DEF Inv, TypeInv, ReaderType
<1>9. ASSUME NEW m \in Locations, NEW j \in Index(m), memory[m][j].at <= reader.seen["last"]
      PROVE  j <= known[m]
  <2>1. j <= reader.floor[m]
    BY <1>9 DEF Inv, ReaderInv
  <2>2. j \in Nat /\ reader.floor[m] \in Nat /\ known[m] \in Nat
        /\ reader.floor[m] <= known[m]
    BY <1>2, <1>3 DEF Views, Index
  <2> QED
    BY <2>1, <2>2
<1>10. (reader.popped + 1) + 1 <= known["write"]
  <2>1. known["write"] \in Nat
    BY <1>2, <1>3
  <2> QED
    BY <1>2, <1>3, <1>4, <2>1
<1>11. ReaderInv'
  BY <1>1, <1>3, <1>6, <1>7, <1>9, <1>10 DEF Inv, ReaderInv, Index
<1>12. ViewsInv'
  <2>1. Loaded' = Loaded
    BY <1>1, <1>7 DEF Loaded
  <2>2. SnapshotsCatchUp' /\ SnapshotFollowsEvents'
    BY <1>7, <2>1 DEF Inv, ViewsInv, SnapshotsCatchUp, SnapshotFollowsEvents
  <2>3. EventsPrecedeSnapshot'
    BY <1>7 DEF EventsPrecedeSnapshot
  <2> QED
    BY <2>2, <2>3 DEF ViewsInv
<1> QED
  BY <1>1, <1>8, <1>11, <1>12, ReaderOnly
----------------------------------------------------------------------------
(* The theorems *)

LEMMA InitInv == Init => Inv
<1> SUFFICES ASSUME Init PROVE Inv
  OBVIOUS
<1> DEFINE c == [at |-> 0, event |-> Nothing, view |-> Unknown]
<1>1. /\ Unknown \in Views /\ c \in Cell /\ Still \in [Kinds -> BOOLEAN]
      /\ \A m \in Locations : c.view[m] = 1
      /\ c.at = 0
  BY NothingType DEF Unknown, Views, Cell, Still
<1> HIDE DEF c
<1>2. /\ memory = [l \in Locations |-> <<c>>] /\ published = <<Still>>
      /\ owner = [now |-> Still, todo |-> <<>>, seenRead |-> 0, calls |-> 0]
      /\ reader = [floor |-> Unknown, todo |-> <<>>, seen |-> [l \in Locations |-> 0],
                   stamp |-> 0, heard |-> 0, before |-> 0, popped |-> 0, answer |-> "none"]
  BY DEF Init, c
<1>3. /\ \A l \in Locations : Len(memory[l]) = 1 /\ memory[l][1] = c /\ memory[l] \in Seq(Cell)
      /\ Len(published) = 1 /\ published[1] = Still /\ N = 0
      /\ "write" \in Locations /\ "last" \in Locations /\ Fields \subseteq Locations
      /\ Len(memory["write"]) = 1
  BY <1>1, <1>2 DEF N, Locations, Fields
<1>4. ASSUME NEW l \in Locations, NEW i \in Index(l) PROVE i = 1
  <2>1. i \in 1 .. 1
    BY <1>3 DEF Index
  <2> QED
    BY <2>1
<1>5. TypeInv
  BY <1>1, <1>2, <1>3, ObservationAssumption DEF TypeInv, OwnerType, Init, Unknown
<1>6. ~Publishes(owner.todo)
  BY <1>2 DEF Publishes, PublishesOf
<1>7. OwnerInv
  BY <1>2, <1>3, <1>6 DEF OwnerInv, Fields
<1>8. StoresInv
  BY <1>1, <1>3, <1>4, <1>6 DEF StoresInv, Counted, Bounded, EventsTeach, FlagsTeach
<1>9. ReaderInv
  BY <1>2, <1>3, <1>4 DEF ReaderInv, Unknown
<1>10. ViewsInv
  BY <1>2, <1>3 DEF ViewsInv, SnapshotsCatchUp, SnapshotFollowsEvents, EventsPrecedeSnapshot,
                    Loaded
<1>11. EdgesInv
  <2>1. owner.now = published[Len(published)]
    BY <1>2, <1>3
  <2>2. \A n, k : Of(n, k) = {}
    BY <1>3 DEF Of
  <2>3. \A n, k : Says(n, k) = FALSE
    BY <2>2 DEF Says
  <2>4. \A k \in Kinds : published[0 + 1][k] = FALSE
    BY <1>3 DEF Still
  <2>5. ASSUME NEW n \in 0 .. N PROVE n = 0
    BY <1>3
  <2>6. \A n \in 0 .. N : \A k \in Kinds : Says(n, k) = published[n + 1][k]
    BY <2>3, <2>4, <2>5
  <2> QED
    BY <2>1, <2>6 DEF EdgesInv
<1> QED
  BY <1>5, <1>7, <1>8, <1>9, <1>10, <1>11 DEF Inv

LEMMA NextInv == Inv /\ [Next]_vars => Inv'
<1> SUFFICES ASSUME Inv, [Next]_vars PROVE Inv'
  OBVIOUS
<1>1. ASSUME NEW new \in [Kinds -> BOOLEAN], Failing(new) PROVE Inv'
  BY <1>1, FailingKeeps
<1>2. ASSUME NEW new \in [Kinds -> BOOLEAN], NEW n \in Lengths, Publishing(new, n) PROVE Inv'
  BY <1>2, PublishingKeeps
<1>3. ASSUME UNCHANGED <<side, memory, owner, published, reader>> PROVE Inv'
  <2>1. UNCHANGED <<side, memory, owner, published>> /\ reader' = reader
    BY <1>3
  <2>2. TypeInv' /\ ReaderInv' /\ ViewsInv'
    BY <2>1 DEF Inv, TypeInv, ReaderInv, ViewsInv, SnapshotsCatchUp, SnapshotFollowsEvents,
                EventsPrecedeSnapshot, Loaded, Index
  <2> QED
    BY <2>1, <2>2, ReaderOnly
<1>4. CASE StoreField \/ \E r \in owner.seenRead .. reader.popped : PushEvent(r) \/ DropEvent(r)
  <2>1. PICK l \in Locations : \E event \in Event : Stores(l, event)
    BY <1>4, StoresOne DEF Inv
  <2>2. PICK event \in Event : Stores(l, event)
    BY <2>1
  <2> QED
    BY <2>2, StoresKeep
<1>5. CASE BeginSnapshot
  BY <1>5, BeginKeeps
<1>6. ASSUME NEW i, Load(i) \/ PopEmpty(i) \/ PopEvent(i) PROVE Inv'
  BY <1>6, LoadKeeps, PopEmptyKeeps, PopEventKeeps
<1>7. Update => UNCHANGED <<side, memory, owner, published, reader>>
  BY DEF Update
<1>8. UNCHANGED vars => UNCHANGED <<side, memory, owner, published, reader>>
  BY DEF vars
<1> QED
  BY <1>1, <1>2, <1>3, <1>4, <1>5, <1>6, <1>7, <1>8 DEF Next

\* What relates the owner's stores, the queue and the reader holds in every state.
THEOREM ObservationInvariant == Spec => []Inv
BY InitInv, NextInv, PTL DEF Spec

\* A snapshot shows no publication older than the flag the one before it ended with.
THEOREM SnapshotsNeverGoBack == Spec => []SnapshotsCatchUp
<1>1. Inv => SnapshotsCatchUp
  BY DEF Inv, ViewsInv
<1> QED
  BY <1>1, ObservationInvariant, PTL

\* Events and snapshots agree on the order of publications: a snapshot after an event is at
\* most one publication behind it, and an empty queue after a snapshot has nothing of it left.
THEOREM EventsMeetSnapshots == Spec => []EventsAndSnapshotsAgree
<1>1. Inv => EventsAndSnapshotsAgree
  BY DEF Inv, ViewsInv, EventsAndSnapshotsAgree
<1> QED
  BY <1>1, ObservationInvariant, PTL

\* An empty answer after a snapshot: what was popped tells the publication it is of.
LEMMA EmptyTells ==
  ASSUME Inv, reader.answer = "empty"
  PROVE  \/ Heard(reader.seen["last"]) = published[reader.seen["last"] + 1]
         \/ Announced("drops") \/ (side = "transmit" /\ Announced("failures"))
<1> DEFINE n == reader.seen["last"]
<1>1. /\ n \in Nat /\ N \in Nat /\ Len(memory["last"]) \in Nat
      /\ \A l \in Locations : reader.floor[l] \in Nat
  <2>1. /\ "last" \in Locations /\ reader.seen \in [Locations -> Nat]
        /\ reader.floor \in Views /\ memory \in [Locations -> Seq(Cell)]
        /\ Len(published) \in Nat /\ Len(published) >= 1
    BY DEF Inv, TypeInv, Locations, Fields
  <2> QED
    BY <2>1 DEF N, Views
<1>2. n \in 0 .. N /\ ~(n = N /\ Publishes(owner.todo))
  <2>1. n + 1 <= Len(memory["last"])
    BY DEF Inv, ReaderInv
  <2>2. Len(memory["last"]) = IF Publishes(owner.todo) THEN N ELSE N + 1
    BY DEF Inv, OwnerInv
  <2> HIDE DEF n
  <2> QED
    BY <1>1, <2>1, <2>2
<1>3. ASSUME NEW l \in Locations, Lost(l, n) PROVE Announced(l)
  <2>1. PICK j \in Index(l) : j >= 2 /\ memory[l][j].at <= n
    BY <1>3 DEF Lost
  <2>2. j <= reader.floor[l] /\ j \in Nat
    BY <2>1 DEF Inv, ReaderInv, Index
  <2> QED
    BY <1>1, <2>1, <2>2 DEF Announced
<1>4. ASSUME ~Lossy(n) PROVE Heard(n) = published[n + 1]
  <2>1. \A k \in Kinds : Says(n, k) = published[n + 1][k]
    BY <1>2, <1>4 DEF Inv, EdgesInv
  <2>2. /\ reader.popped \in Nat /\ reader.popped + 1 <= Len(memory["write"])
        /\ Len(memory["write"]) \in Nat
    <3>1. "write" \in Locations
      BY DEF Locations
    <3>2. /\ reader.popped + 1 <= reader.floor["write"]
          /\ reader.floor["write"] <= Len(memory["write"])
      BY <3>1 DEF Inv, ReaderInv
    <3>3. reader.popped \in Nat /\ memory["write"] \in Seq(Cell)
      BY <3>1 DEF Inv, TypeInv
    <3> QED
      BY <1>1, <3>1, <3>2, <3>3
  <2>3. ASSUME NEW i \in 2 .. Len(memory["write"]), memory["write"][i].at <= n
        PROVE  i - 1 <= reader.popped
    BY <2>3 DEF Inv, ViewsInv, EventsPrecedeSnapshot
  <2>4. \A k : Told(n, k) = Of(n, k)
    <3>1. \A i : i \in 2 .. reader.popped + 1 => i \in 2 .. Len(memory["write"])
      BY <2>2
    <3>2. \A i \in 2 .. Len(memory["write"]) :
            memory["write"][i].at <= n => i \in 2 .. reader.popped + 1
      BY <2>2, <2>3
    <3> HIDE DEF n
    <3> QED
      BY <3>1, <3>2 DEF Told, Of
  <2>5. Heard(n) = [k \in Kinds |-> Says(n, k)]
    BY <2>4 DEF Heard, Says
  <2>6. published[n + 1] \in [Kinds -> BOOLEAN]
    <3>1. published \in Seq([Kinds -> BOOLEAN]) /\ Len(published) = N + 1
      BY <1>1 DEF Inv, TypeInv, N
    <3>2. n + 1 \in 1 .. Len(published)
      BY <1>1, <1>2, <3>1
    <3> HIDE DEF n
    <3> QED
      BY <3>1, <3>2
  <2> HIDE DEF n
  <2>7. [k \in Kinds |-> Says(n, k)] = [k \in Kinds |-> published[n + 1][k]]
    BY <2>1
  <2> QED
    BY <2>5, <2>6, <2>7
<1> QED
  BY <1>3, <1>4 DEF Lossy, Locations

\* Who drains the queue after a snapshot has the indications that snapshot is of, unless the
\* drops, or a transmitter's failures, have told that something is missing.
THEOREM LossesAreAnnounced == Spec => []LossIsAnnounced
<1>1. Inv => LossIsAnnounced
  BY EmptyTells DEF LossIsAnnounced
<1> QED
  BY <1>1, ObservationInvariant, PTL
----------------------------------------------------------------------------
(* The periodic status *)

LEMMA DivMod ==
  ASSUME NEW x \in Nat, NEW F \in Nat \ {0}
  PROVE  /\ x \div F \in Nat /\ x % F \in 0 .. F - 1
         /\ x = F * (x \div F) + (x % F)
OBVIOUS

LEMMA NonNegativeProduct ==
  ASSUME NEW a \in Nat, NEW b \in Nat
  PROVE  a * b \in Nat
OBVIOUS

LEMMA NextMultiple ==
  ASSUME NEW F \in Nat \ {0}, NEW p \in Nat, NEW q \in Nat, p > q
  PROVE  F * p >= F * q + F
<1>1. p - q - 1 \in Nat
  OBVIOUS
<1>2. F * p = F * q + F + (p - q - 1) * F /\ (p - q - 1) * F \in Nat /\ F * q \in Nat
  BY <1>1, NonNegativeProduct
<1> QED
  BY <1>2

\* A whole period more leaves the same place in the period.
LEMMA OnePeriodMore ==
  ASSUME NEW F \in Nat \ {0}, NEW x \in Nat
  PROVE  (x + F) % F = x % F
<1> DEFINE d == x \div F         m == x % F
           e == (x + F) \div F   n == (x + F) % F
<1>1. d \in Nat /\ m \in 0 .. F - 1 /\ x = F * d + m
  BY DivMod
<1>2. e \in Nat /\ n \in 0 .. F - 1 /\ x + F = F * e + n
  <2>1. x + F \in Nat
    OBVIOUS
  <2> QED
    BY <2>1, DivMod
<1> HIDE DEF d, m, e, n
<1>3. F * (d + 1) + m = F * e + n /\ d + 1 \in Nat
  BY <1>1, <1>2
<1>4. F * (d + 1) \in Nat /\ F * e \in Nat
  BY <1>1, <1>2, <1>3, NonNegativeProduct
<1>5. ~(d + 1 > e) /\ ~(e > d + 1)
  BY <1>1, <1>2, <1>3, <1>4, NextMultiple
<1>6. d + 1 = e
  BY <1>2, <1>3, <1>5
<1> QED
  BY <1>1, <1>2, <1>3, <1>4, <1>6 DEF m, n

\* What is left is the rest of the period.
CadenceInv ==
  /\ cadence \in [left : Int, since : 0 .. Interval - 1, due : BOOLEAN]
  /\ cadence.left = Interval - cadence.since

\* One callback of n frames, at whatever place in the period.
LEMMA CadenceStep ==
  ASSUME NEW since \in 0 .. Interval - 1, NEW n \in Nat \ {0}
  PROVE  LET due == PublicationDue(Interval - since, n) IN
         /\ (since + n) % Interval \in 0 .. Interval - 1
         /\ due.due = (since + n >= Interval) /\ due.left \in Int
         /\ due.left = Interval - ((since + n) % Interval)
<1> DEFINE x == since + n
           due == PublicationDue(Interval - since, n)
<1>1. Interval \in Nat \ {0} /\ x \in Nat
  BY ObservationAssumption
<1>2. x % Interval \in 0 .. Interval - 1 /\ x % Interval \in Int
  BY <1>1, DivMod
<1>3. CASE n < Interval - since
  <2>1. x < Interval /\ ~(since + n >= Interval)
    BY <1>1, <1>3
  <2>2. x % Interval = x
    BY <1>1, <2>1
  <2>3. due.due = FALSE /\ due.left = (Interval - since) - n
    BY <1>3 DEF PublicationDue
  <2>4. (Interval - since) - n = Interval - x
    BY <1>1
  <2> HIDE DEF due
  <2>5. due.due = (since + n >= Interval)
    <3>1. (since + n >= Interval) = FALSE
      BY <2>1
    <3> QED
      BY <2>3, <3>1
  <2>6. due.left = Interval - (x % Interval)
    BY <2>1, <2>2, <2>3, <2>4
  <2>7. due.left \in Int
    BY <1>1, <1>2, <2>6
  <2> QED
    BY <1>2, <2>5, <2>6, <2>7 DEF due
<1>4. CASE ~(n < Interval - since)
  <2> DEFINE y == n - (Interval - since)
  <2>1. y \in Nat /\ x = y + Interval /\ since + n >= Interval
    BY <1>1, <1>4
  <2>2. due.due = TRUE /\ due.left = Interval - (y % Interval)
    BY <1>4 DEF PublicationDue
  <2> HIDE DEF y, due
  <2>3. y % Interval = x % Interval
    BY <1>1, <2>1, OnePeriodMore
  <2>5. due.due = (since + n >= Interval)
    <3>1. (since + n >= Interval) = TRUE
      BY <2>1
    <3> QED
      BY <2>2, <3>1
  <2>6. due.left = Interval - (x % Interval)
    BY <2>1, <2>2, <2>3
  <2>7. due.left \in Int
    BY <1>1, <1>2, <2>6
  <2> QED
    BY <1>2, <2>5, <2>6, <2>7 DEF due
<1> QED
  BY <1>3, <1>4

LEMMA PublishingCadence ==
  ASSUME CadenceInv, NEW n \in Lengths, NEW new, Publishing(new, n)
  PROVE  /\ CadenceInv'
         /\ cadence'.due = (cadence.since + n >= Interval)
         /\ cadence'.left = Interval - cadence'.since
<1> DEFINE since == cadence.since
           due == PublicationDue(cadence.left, n)
           next == (since + n) % Interval
<1>1. /\ cadence' = [due |-> due.due, left |-> due.left, since |-> next]
      /\ since \in 0 .. Interval - 1 /\ cadence.left = Interval - since
      /\ n \in Nat \ {0}
  BY ObservationAssumption DEF Publishing, CadenceInv
<1>2. /\ next \in 0 .. Interval - 1
      /\ due.due = (since + n >= Interval) /\ due.left \in Int
      /\ due.left = Interval - next
  BY <1>1, CadenceStep
<1>3. (since + n >= Interval) \in BOOLEAN
  OBVIOUS
<1> HIDE DEF due, next
<1>4. /\ cadence'.due = due.due /\ cadence'.left = due.left /\ cadence'.since = next
      /\ cadence' \in [left : Int, since : 0 .. Interval - 1, due : BOOLEAN]
  BY <1>1, <1>2, <1>3
<1> QED
  BY <1>2, <1>4 DEF CadenceInv

\* A status is due in exactly the callbacks in which a period ends, whatever their length.
THEOREM DueEveryPeriod == Spec => DueOncePerPeriod
<1>1. Init => CadenceInv
  BY ObservationAssumption DEF Init, CadenceInv
<1>2. CadenceInv /\ [Next]_vars => CadenceInv'
  <2> SUFFICES ASSUME CadenceInv, [Next]_vars PROVE CadenceInv'
    OBVIOUS
  <2>1. ASSUME NEW new, NEW n \in Lengths, Publishing(new, n) PROVE CadenceInv'
    BY <2>1, PublishingCadence
  <2>2. CASE Update
    BY <2>2, ObservationAssumption DEF Update, CadenceInv
  <2>3. CASE cadence' = cadence
    BY <2>3 DEF CadenceInv
  <2> QED
    BY <2>1, <2>2, <2>3
    DEF Next, Failing, StoreField, PushEvent, DropEvent, BeginSnapshot, Load, PopEmpty,
        PopEvent, vars
<1>3. CadenceInv /\ [Next]_vars =>
        [\A n \in Lengths, new \in [Kinds -> BOOLEAN] :
           Publishing(new, n) => cadence'.due = (cadence.since + n >= Interval)
                                 /\ cadence'.left = Interval - cadence'.since]_vars
  BY PublishingCadence
<1> QED
  BY <1>1, <1>2, <1>3, PTL DEF Spec, DueOncePerPeriod
=============================================================================
