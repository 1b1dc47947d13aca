-------------------------- MODULE EventQueueProofs --------------------------
(***************************************************************************)
(* The queue of session.rs for every capacity and every width of index.    *)
(***************************************************************************)
EXTENDS EventQueue, SequenceTheorems, TLAPS

(* Round the index circle *)

LEMMA SuccIndex ==
  ASSUME QueueAssumption, NEW i \in Index
  PROVE  Succ(i) \in Index
BY DEF QueueAssumption, Index, Succ

LEMMA DistanceType ==
  ASSUME QueueAssumption, NEW a \in Index, NEW b \in Index
  PROVE  Distance(a, b) \in 0 .. Modulus - 1 /\ (Distance(a, b) = 0 <=> a = b)
BY DEF QueueAssumption, Index, Distance

\* An index between b and a splits their distance.
LEMMA DistanceSplits ==
  ASSUME QueueAssumption, NEW a \in Index, NEW b \in Index, NEW c \in Index,
         Distance(a, c) <= Distance(a, b)
  PROVE  Distance(c, b) = Distance(a, b) - Distance(a, c)
BY DEF QueueAssumption, Index, Distance

\* Storing the successor of an index moves it one away from what lies behind
\* it and one closer to what lies ahead.
LEMMA DistanceSucc ==
  ASSUME QueueAssumption, NEW a \in Index, NEW b \in Index
  PROVE  /\ Distance(a, b) < Modulus - 1 => Distance(Succ(a), b) = Distance(a, b) + 1
         /\ a # b => Distance(a, Succ(b)) = Distance(a, b) - 1
BY DEF QueueAssumption, Index, Distance, Succ

\* A load returns an index no further behind than the last load did.
LEMMA LoadableType ==
  ASSUME QueueAssumption, NEW seen \in Index, NEW now \in Index,
         NEW r \in Loadable(seen, now)
  PROVE  r \in Index /\ Distance(now, r) <= Distance(now, seen)
<1>1. PICK n \in 0 .. Distance(now, seen) : r = Ahead(seen, n)  BY DEF Loadable
<1>2. Distance(now, seen) \in 0 .. Modulus - 1  BY DistanceType
<1>3. n \in Nat /\ n <= Distance(now, seen) /\ n < Modulus  BY <1>1, <1>2
<1>4. r \in Index  BY <1>1, <1>3 DEF Ahead, Index, QueueAssumption
<1>5. Distance(now, r) <= Distance(now, seen)
  BY <1>1, <1>3 DEF Ahead, Index, QueueAssumption, Distance
<1> QED BY <1>4, <1>5

LEMMA LoadableBetween ==
  ASSUME QueueAssumption, NEW a \in Index, NEW seen \in Index, NEW now \in Index,
         NEW r \in Index, Distance(now, r) <= Distance(now, seen),
         Distance(a, now) <= Distance(a, seen)
  PROVE  /\ Distance(a, now) <= Distance(a, r)
         /\ Distance(a, r) <= Distance(a, seen)
BY DEF QueueAssumption, Index, Distance

(* Slots *)

LEMMA DivMod ==
  ASSUME NEW n \in Nat, NEW d \in Nat \ {0}
  PROVE  /\ n \div d \in Nat /\ n % d \in 0 .. d - 1
         /\ n = d * (n \div d) + (n % d)
  OBVIOUS

\* No multiple of the capacity lies strictly between 0 and it.
LEMMA NoMultipleBelow ==
  ASSUME NEW c \in Nat \ {0}, NEW m \in Int
  PROVE  ~(0 < c * m /\ c * m < c)
<1>1. CASE m <= 0
  <2>1. c * m <= 0  BY <1>1
  <2> QED BY <2>1
<1>2. CASE m >= 1
  <2>1. c * m >= c  BY <1>2
  <2> QED BY <2>1
<1> QED BY <1>1, <1>2

LEMMA SlotType ==
  ASSUME QueueAssumption, NEW i \in Index
  PROVE  Slot(i) \in Slots
BY DEF QueueAssumption, Index, Slot, Slots

\* Two indices less than the capacity apart have slots of their own, also
\* across the wrap: the capacity divides the modulus.
LEMMA SlotsDistinct ==
  ASSUME QueueAssumption, NEW a \in Index, NEW b \in Index,
         0 < Distance(a, b), Distance(a, b) < Capacity
  PROVE  Slot(a) # Slot(b)
<1>1. Capacity \in Nat \ {0} /\ Modulus \in Nat /\ Modulus % Capacity = 0
      /\ a \in Nat /\ b \in Nat
  BY DEF QueueAssumption, Index
<1>2. PICK p \in Nat : a = Capacity * p + (a % Capacity)  BY <1>1, DivMod
<1>3. PICK q \in Nat : b = Capacity * q + (b % Capacity)  BY <1>1, DivMod
<1>4. PICK k \in Nat : Modulus = Capacity * k
  <2>1. Modulus = Capacity * (Modulus \div Capacity) + (Modulus % Capacity)
        /\ Modulus \div Capacity \in Nat
    BY <1>1, DivMod
  <2>2. Modulus = Capacity * (Modulus \div Capacity)  BY <1>1, <2>1
  <2> QED BY <2>1, <2>2
<1>5. SUFFICES ASSUME a % Capacity = b % Capacity PROVE FALSE  BY DEF Slot
<1>6. a % Capacity \in Nat  BY <1>1
<1>7. Capacity * (p - q) = Capacity * p - Capacity * q
      /\ Capacity * (p - q + k) = Capacity * p - Capacity * q + Capacity * k
  BY <1>1
<1>8. Capacity * (p - q) = a - b
  BY <1>1, <1>2, <1>3, <1>5, <1>6, <1>7
<1>9. Capacity * (p - q + k) = a - b + Modulus
  BY <1>1, <1>4, <1>7, <1>8
<1>10. Distance(a, b) = Capacity * (p - q) \/ Distance(a, b) = Capacity * (p - q + k)
  BY <1>8, <1>9 DEF Distance
<1>11. p - q \in Int /\ p - q + k \in Int  OBVIOUS
<1> QED BY <1>1, <1>10, <1>11, NoMultipleBelow

(* The invariant *)

\* What each side holds between the steps of its operation: the producer the
\* event it was given, and has stored before it publishes; the consumer the
\* slot it is about to free.
Contents ==
  /\ pushing # "idle" => event \in Events
  /\ pushing = "publish" => storage[Slot(write)] = event
  /\ popping = "release" => copy = storage[Slot(read)]

Inv == TypeOK /\ IndicesOrdered /\ Contents

\* All the distances an invariant state speaks of, in order.
LEMMA Distances ==
  ASSUME QueueAssumption, Inv
  PROVE  /\ Distance(write, read) \in 0 .. Capacity
         /\ Distance(write, seenRead) \in 0 .. Capacity
         /\ Distance(write, seenWrite) \in 0 .. Capacity
         /\ Distance(seenWrite, read) = Distance(write, read) - Distance(write, seenWrite)
         /\ Distance(read, seenRead) = Distance(write, seenRead) - Distance(write, read)
         /\ pushing # "idle" => Distance(write, read) < Capacity
         /\ popping # "idle" => Distance(seenWrite, read) > 0
<1>1. write \in Index /\ read \in Index /\ seenRead \in Index /\ seenWrite \in Index
  BY DEF Inv, TypeOK
<1>2. Capacity \in Nat /\ Modulus \in Nat  BY DEF QueueAssumption
<1>3. /\ Distance(write, read) \in 0 .. Modulus - 1
      /\ Distance(write, seenRead) \in 0 .. Modulus - 1
      /\ Distance(write, seenWrite) \in 0 .. Modulus - 1
  BY <1>1, DistanceType
<1>4. /\ Distance(write, seenRead) <= Capacity
      /\ pushing # "idle" => Distance(write, seenRead) < Capacity
      /\ Distance(write, read) <= Distance(write, seenRead)
      /\ Distance(write, seenWrite) <= Distance(write, read)
      /\ popping # "idle" => Distance(write, seenWrite) < Distance(write, read)
  BY DEF Inv, IndicesOrdered
<1>5. /\ Distance(seenWrite, read) = Distance(write, read) - Distance(write, seenWrite)
      /\ Distance(read, seenRead) = Distance(write, seenRead) - Distance(write, read)
  BY <1>1, <1>4, DistanceSplits
<1> QED BY <1>2, <1>3, <1>4, <1>5

\* An accepted event that is not the oldest, and the slot being written, each
\* have a slot to themselves.
LEMMA WriterAlone ==
  ASSUME QueueAssumption, Inv, pushing # "idle", NEW n \in 0 .. Distance(write, read) - 1
  PROVE  /\ Ahead(read, n) \in Index
         /\ Slot(Ahead(read, n)) # Slot(write)
<1>1. /\ Distance(write, read) \in 0 .. Capacity /\ Distance(write, read) < Capacity
      /\ write \in Index /\ read \in Index
  BY Distances DEF Inv, TypeOK
<1>2. /\ Ahead(read, n) \in Index
      /\ Distance(write, Ahead(read, n)) = Distance(write, read) - n
  BY <1>1 DEF Index, Ahead, Distance, QueueAssumption
<1>3. Capacity \in Nat  BY DEF QueueAssumption
<1>4. 0 < Distance(write, Ahead(read, n)) /\ Distance(write, Ahead(read, n)) < Capacity
  BY <1>1, <1>2, <1>3
<1> QED BY <1>1, <1>2, <1>4, SlotsDistinct

LEMMA ReaderAlone ==
  ASSUME QueueAssumption, Inv, pushing # "idle", popping # "idle"
  PROVE  Slot(write) # Slot(read)
<1>1. Distance(write, read) \in Nat /\ Distance(write, read) > 0  BY Distances
<1>2. Ahead(read, 0) = read  BY DEF Ahead, Inv, TypeOK, Index
<1>3. 0 \in 0 .. Distance(write, read) - 1  BY <1>1
<1> QED BY <1>2, <1>3, WriterAlone

(* push *)

LEMMA PushFullPreserves ==
  ASSUME QueueAssumption, Inv, NEW r \in Loadable(seenRead, read), PushFull(r)
  PROVE  Inv' /\ r = seenRead /\ Distance(write, seenRead) = Capacity
<1>1. /\ write \in Index /\ read \in Index /\ seenRead \in Index
      /\ Distance(write, read) <= Distance(write, seenRead)
  BY DEF Inv, TypeOK, IndicesOrdered
<1>2. r \in Index /\ Distance(read, r) <= Distance(read, seenRead)
  BY <1>1, LoadableType
<1>3. Distance(write, read) <= Distance(write, r)
      /\ Distance(write, r) <= Distance(write, seenRead)
  BY <1>1, <1>2, LoadableBetween
<1>4. Distance(write, r) >= Capacity  BY DEF PushFull, Full
<1>5. Distance(write, seenRead) \in 0 .. Capacity /\ Distance(write, r) \in Nat
      /\ Capacity \in Nat
  BY <1>1, <1>2, Distances, DistanceType DEF QueueAssumption
<1>6. Distance(write, r) = Capacity /\ Distance(write, seenRead) = Capacity
  BY <1>3, <1>4, <1>5
<1>7. r = seenRead  BY <1>1, <1>2, <1>6 DEF Distance, Index, QueueAssumption
<1>8. Modulus \in Nat \ {0} /\ drops \in Nat
  BY DEF QueueAssumption, Inv, TypeOK, Index
<1>9. (drops + 1) % Modulus \in Index  BY <1>8 DEF Index
<1>10. TypeOK'  BY <1>2, <1>9 DEF Inv, TypeOK, PushFull, consumer
<1>11. IndicesOrdered' /\ Contents'
  BY <1>7 DEF Inv, IndicesOrdered, Contents, PushFull, consumer
<1> QED BY <1>6, <1>7, <1>10, <1>11 DEF Inv

LEMMA PushAdmitPreserves ==
  ASSUME QueueAssumption, Inv, NEW r \in Loadable(seenRead, read), NEW e \in Events,
         PushAdmit(e, r)
  PROVE  /\ Inv' /\ r \in Index
         /\ Distance(write, read) <= Distance(write, r)
         /\ Distance(write, r) <= Distance(write, seenRead)
<1>1. /\ write \in Index /\ read \in Index /\ seenRead \in Index
      /\ Distance(write, read) <= Distance(write, seenRead)
  BY DEF Inv, TypeOK, IndicesOrdered
<1>2. r \in Index /\ Distance(read, r) <= Distance(read, seenRead)
  BY <1>1, LoadableType
<1>3. Distance(write, read) <= Distance(write, r)
      /\ Distance(write, r) <= Distance(write, seenRead)
  BY <1>1, <1>2, LoadableBetween
<1>4. Distance(write, r) < Capacity
  <2>1. ~(Distance(write, r) >= Capacity)  BY DEF PushAdmit, Full
  <2>2. Distance(write, r) \in Nat /\ Capacity \in Nat
    BY <1>1, <1>2, DistanceType DEF QueueAssumption
  <2> QED BY <2>1, <2>2
<1>5. TypeOK'  BY <1>2 DEF Inv, TypeOK, PushAdmit, consumer
<1>6. IndicesOrdered'
  <2>1. Distance(write, r) \in Nat /\ Capacity \in Nat
    BY <1>1, <1>2, DistanceType DEF QueueAssumption
  <2> QED BY <1>3, <1>4, <2>1 DEF Inv, IndicesOrdered, PushAdmit, consumer
<1>7. Contents'  BY DEF Inv, Contents, PushAdmit, consumer
<1> QED BY <1>2, <1>3, <1>5, <1>6, <1>7 DEF Inv

LEMMA WriteSlotPreserves ==
  ASSUME QueueAssumption, Inv, WriteSlot
  PROVE  Inv'
<1>1. /\ storage \in [Slots -> Events \cup {Nothing}] /\ event \in Events
      /\ write \in Index /\ read \in Index /\ pushing = "slot"
  BY DEF Inv, TypeOK, Contents, WriteSlot
<1>2. Slot(write) \in Slots /\ Slot(read) \in Slots  BY <1>1, SlotType
<1>3. TypeOK'  BY <1>1, <1>2 DEF Inv, TypeOK, WriteSlot, consumer
<1>4. IndicesOrdered'  BY <1>1 DEF Inv, IndicesOrdered, WriteSlot, consumer
<1>5. Contents'
  <2>1. pushing # "idle"  BY <1>1
  <2>2. popping # "idle" => Slot(write) # Slot(read)  BY <2>1, ReaderAlone
  <2>3. /\ storage' = [storage EXCEPT ![Slot(write)] = event] /\ write' = write
        /\ event' = event /\ popping' = popping /\ copy' = copy /\ read' = read
    BY DEF WriteSlot, consumer
  <2>4. storage'[Slot(write)] = event  BY <1>1, <1>2, <2>3
  <2>5. popping = "release" => storage'[Slot(read)] = storage[Slot(read)]
    BY <1>1, <1>2, <2>2, <2>3
  <2>6. (popping = "release" => copy = storage[Slot(read)])  BY DEF Inv, Contents
  <2> QED BY <1>1, <2>3, <2>4, <2>5, <2>6 DEF Contents
<1> QED BY <1>3, <1>4, <1>5 DEF Inv

LEMMA PublishPreserves ==
  ASSUME QueueAssumption, Inv, Publish
  PROVE  /\ Inv'
         /\ Distance(Succ(write), read) = Distance(write, read) + 1
         /\ Distance(Succ(write), seenRead) = Distance(write, seenRead) + 1
<1>1. /\ write \in Index /\ read \in Index /\ seenRead \in Index /\ seenWrite \in Index
      /\ pushing = "publish" /\ write' = Succ(write) /\ pushing' = "idle"
      /\ read' = read /\ seenRead' = seenRead /\ seenWrite' = seenWrite
      /\ popping' = popping
  BY DEF Inv, TypeOK, Publish, consumer
<1>2. Capacity \in Nat /\ Modulus \in Nat /\ Modulus > Capacity  BY DEF QueueAssumption
<1>3. /\ Distance(write, read) \in 0 .. Capacity - 1
      /\ Distance(write, seenRead) \in 0 .. Capacity - 1
      /\ Distance(write, seenWrite) \in 0 .. Capacity - 1
  <2>1. pushing # "idle"  BY <1>1
  <2>2. Distance(write, seenRead) < Capacity
    BY <2>1 DEF Inv, IndicesOrdered
  <2> QED BY <1>2, <2>1, <2>2, Distances DEF Inv, IndicesOrdered
<1>4. /\ Distance(Succ(write), read) = Distance(write, read) + 1
      /\ Distance(Succ(write), seenRead) = Distance(write, seenRead) + 1
      /\ Distance(Succ(write), seenWrite) = Distance(write, seenWrite) + 1
  BY <1>1, <1>2, <1>3, DistanceSucc
<1>5. Succ(write) \in Index  BY <1>1, SuccIndex
<1>6. TypeOK'  BY <1>1, <1>5 DEF Inv, TypeOK, Publish, consumer
<1>7. IndicesOrdered'
  <2>1. /\ Distance(write, read) <= Distance(write, seenRead)
        /\ Distance(write, seenWrite) <= Distance(write, read)
        /\ popping # "idle" => Distance(write, seenWrite) < Distance(write, read)
    BY DEF Inv, IndicesOrdered
  <2> QED BY <1>1, <1>2, <1>3, <1>4, <2>1 DEF IndicesOrdered
<1>8. Contents'
  BY <1>1 DEF Inv, Contents, Publish, consumer
<1> QED BY <1>4, <1>6, <1>7, <1>8 DEF Inv

(* pop *)

LEMMA SeenWriteBetween ==
  ASSUME QueueAssumption, Inv, NEW w \in Loadable(seenWrite, write)
  PROVE  /\ w \in Index
         /\ Distance(write, w) <= Distance(write, seenWrite)
         /\ Distance(write, w) <= Distance(write, read)
         /\ Distance(w, read) = Distance(write, read) - Distance(write, w)
<1>1. write \in Index /\ read \in Index /\ seenWrite \in Index  BY DEF Inv, TypeOK
<1>2. w \in Index /\ Distance(write, w) <= Distance(write, seenWrite)
  BY <1>1, LoadableType
<1>3. Distance(write, seenWrite) <= Distance(write, read)  BY DEF Inv, IndicesOrdered
<1>4. /\ Distance(write, w) \in Nat /\ Distance(write, seenWrite) \in Nat
      /\ Distance(write, read) \in Nat
  BY <1>1, <1>2, DistanceType
<1>5. Distance(write, w) <= Distance(write, read)  BY <1>2, <1>3, <1>4
<1> QED BY <1>1, <1>2, <1>5, DistanceSplits

LEMMA PopEmptyPreserves ==
  ASSUME QueueAssumption, Inv, NEW w \in Loadable(seenWrite, write), PopEmpty(w)
  PROVE  Inv'
<1>1. w \in Index /\ Distance(write, w) <= Distance(write, read)
  BY SeenWriteBetween
<1>2. TypeOK'  BY <1>1 DEF Inv, TypeOK, PopEmpty, producer
<1>3. IndicesOrdered'  BY <1>1 DEF Inv, IndicesOrdered, PopEmpty, producer
<1>4. Contents'  BY DEF Inv, Contents, PopEmpty, producer
<1> QED BY <1>2, <1>3, <1>4 DEF Inv

LEMMA PopAdmitPreserves ==
  ASSUME QueueAssumption, Inv, NEW w \in Loadable(seenWrite, write), PopAdmit(w)
  PROVE  Inv'
<1>1. w \in Index /\ Distance(write, w) <= Distance(write, read)
      /\ Distance(w, read) = Distance(write, read) - Distance(write, w)
  BY SeenWriteBetween
<1>2. write \in Index /\ read \in Index /\ read # w  BY DEF Inv, TypeOK, PopAdmit
<1>3. Distance(write, w) < Distance(write, read)
  <2>1. Distance(w, read) \in Nat /\ Distance(w, read) # 0
        /\ Distance(write, w) \in Nat /\ Distance(write, read) \in Nat
    BY <1>1, <1>2, DistanceType
  <2> QED BY <1>1, <2>1
<1>4. TypeOK'  BY <1>1 DEF Inv, TypeOK, PopAdmit, producer
<1>5. IndicesOrdered'  BY <1>1, <1>3 DEF Inv, IndicesOrdered, PopAdmit, producer
<1>6. Contents'  BY DEF Inv, Contents, PopAdmit, producer
<1> QED BY <1>4, <1>5, <1>6 DEF Inv

LEMMA CopySlotPreserves ==
  ASSUME QueueAssumption, Inv, CopySlot
  PROVE  Inv'
<1>1. storage[Slot(read)] \in Events \cup {Nothing}
  <2>1. Slot(read) \in Slots  BY SlotType DEF Inv, TypeOK
  <2> QED BY <2>1 DEF Inv, TypeOK
<1>2. TypeOK'  BY <1>1 DEF Inv, TypeOK, CopySlot, producer
<1>3. IndicesOrdered'  BY DEF Inv, IndicesOrdered, CopySlot, producer
<1>4. Contents'  BY DEF Inv, Contents, CopySlot, producer
<1> QED BY <1>2, <1>3, <1>4 DEF Inv

LEMMA ReleasePreserves ==
  ASSUME QueueAssumption, Inv, Release
  PROVE  /\ Inv'
         /\ Distance(write, Succ(read)) = Distance(write, read) - 1
         /\ Distance(seenWrite, Succ(read)) = Distance(seenWrite, read) - 1
<1>1. /\ write \in Index /\ read \in Index /\ seenRead \in Index /\ seenWrite \in Index
      /\ popping = "release" /\ read' = Succ(read) /\ popping' = "idle"
      /\ write' = write /\ seenRead' = seenRead /\ seenWrite' = seenWrite
      /\ pushing' = pushing
  BY DEF Inv, TypeOK, Release, producer
<1>2. /\ Distance(write, read) \in Nat /\ Distance(seenWrite, read) \in Nat
      /\ Distance(write, seenWrite) \in Nat /\ Distance(write, seenRead) \in Nat
      /\ Distance(seenWrite, read) > 0
      /\ Distance(write, seenWrite) < Distance(write, read)
      /\ Distance(write, read) <= Distance(write, seenRead)
  BY <1>1, Distances, DistanceType DEF Inv, IndicesOrdered
<1>3. write # read /\ seenWrite # read  BY <1>1, <1>2, DistanceType
<1>4. /\ Distance(write, Succ(read)) = Distance(write, read) - 1
      /\ Distance(seenWrite, Succ(read)) = Distance(seenWrite, read) - 1
  BY <1>1, <1>3, DistanceSucc
<1>5. Succ(read) \in Index  BY <1>1, SuccIndex
<1>6. TypeOK'  BY <1>5 DEF Inv, TypeOK, Release, producer
<1>7. IndicesOrdered'
  <2>1. /\ Distance(write, seenRead) <= Capacity
        /\ pushing # "idle" => Distance(write, seenRead) < Capacity
    BY DEF Inv, IndicesOrdered
  <2> QED BY <1>1, <1>2, <1>4, <2>1 DEF IndicesOrdered
<1>8. Contents'  BY <1>1 DEF Inv, Contents, Release, producer
<1> QED BY <1>4, <1>6, <1>7, <1>8 DEF Inv

LEMMA InitEstablishes ==
  ASSUME QueueAssumption, Init
  PROVE  Inv
<1>1. 0 \in Index /\ Distance(0, 0) = 0 /\ Capacity \in Nat \ {0}
  BY DEF QueueAssumption, Index, Distance
<1>2. TypeOK  BY <1>1 DEF Init, TypeOK
<1>3. IndicesOrdered  BY <1>1 DEF Init, IndicesOrdered
<1>4. Contents  BY DEF Init, Contents
<1> QED BY <1>2, <1>3, <1>4 DEF Inv

LEMMA StepPreserves ==
  ASSUME QueueAssumption, Inv, Next
  PROVE  Inv'
<1>1. CASE \E r \in Loadable(seenRead, read) : PushFull(r)
  BY <1>1, PushFullPreserves
<1>2. CASE \E r \in Loadable(seenRead, read), e \in Events : PushAdmit(e, r)
  BY <1>2, PushAdmitPreserves
<1>3. CASE WriteSlot  BY <1>3, WriteSlotPreserves
<1>4. CASE Publish  BY <1>4, PublishPreserves
<1>5. CASE \E w \in Loadable(seenWrite, write) : PopEmpty(w)
  BY <1>5, PopEmptyPreserves
<1>6. CASE \E w \in Loadable(seenWrite, write) : PopAdmit(w)
  BY <1>6, PopAdmitPreserves
<1>7. CASE CopySlot  BY <1>7, CopySlotPreserves
<1>8. CASE Release  BY <1>8, ReleasePreserves
<1> QED BY <1>1, <1>2, <1>3, <1>4, <1>5, <1>6, <1>7, <1>8 DEF Next, Push, Pop

\* The invariant under which every index a side works with, however old, still
\* tells it the truth about its own slot.
THEOREM SpecInv == Spec => []Inv
<1>1. Init => Inv  BY QueueAssumption, InitEstablishes
<1>2. Inv /\ [Next]_vars => Inv'
  <2>1. ASSUME Inv, Next PROVE Inv'  BY <2>1, QueueAssumption, StepPreserves
  <2>2. ASSUME Inv, UNCHANGED vars PROVE Inv'
    BY <2>2 DEF Inv, TypeOK, IndicesOrdered, Contents, vars, producer, consumer
  <2> QED BY <2>1, <2>2
<1> QED BY <1>1, <1>2, PTL DEF Spec

\* Indices, slots and counters stay in their types (EventQueue::push and pop).
THEOREM SpecTypeOK == Spec => []TypeOK
<1>1. Inv => TypeOK  BY DEF Inv
<1> QED BY <1>1, SpecInv, PTL

\* seenRead, read, seenWrite and write keep their order round the index circle
\* (the acquire loads of push and pop).
THEOREM SpecIndicesOrdered == Spec => []IndicesOrdered
<1>1. Inv => IndicesOrdered  BY DEF Inv
<1> QED BY <1>1, SpecInv, PTL

\* The two SAFETY comments of push and pop: no slot is written while it is
\* copied, for every capacity and also while an index wraps.
THEOREM SpecNoSlotRace == Spec => []NoSlotRace
<1>1. Inv => NoSlotRace
  <2>1. ASSUME Inv, pushing = "slot", popping = "slot" PROVE Slot(write) # Slot(read)
    <3>1. pushing # "idle" /\ popping # "idle"  BY <2>1
    <3> QED BY <2>1, <3>1, QueueAssumption, ReaderAlone
  <2> QED BY <2>1 DEF NoSlotRace
<1> QED BY <1>1, SpecInv, PTL

(* The queue implements the channel *)

LEMMA TabulatedSeq ==
  ASSUME NEW S, NEW n \in Nat, NEW q \in [1 .. n -> S]
  PROVE  q \in Seq(S) /\ Len(q) = n
OBVIOUS

LEMMA TabulatedAppend ==
  ASSUME NEW S, NEW n \in Nat, NEW q \in [1 .. n -> S], NEW r \in [1 .. n + 1 -> S],
         \A i \in 1 .. n : r[i] = q[i]
  PROVE  r = Append(q, r[n + 1])
<1>1. q \in Seq(S) /\ Len(q) = n /\ r \in Seq(S) /\ Len(r) = n + 1
  BY TabulatedSeq
<1>2. r[n + 1] \in S  OBVIOUS
<1> DEFINE a == Append(q, r[n + 1])
<1>3. a \in Seq(S) /\ Len(a) = n + 1 /\ a[n + 1] = r[n + 1]
      /\ \A i \in 1 .. n : a[i] = q[i]
  BY <1>1, <1>2, AppendProperties
<1> HIDE DEF a
<1>4. ASSUME NEW i \in 1 .. Len(r) PROVE r[i] = a[i]
  <2>1. i \in 1 .. n \/ i = n + 1  BY <1>1
  <2> QED BY <1>3, <2>1
<1>5. r = a  BY <1>1, <1>3, <1>4, SeqEqual
<1> QED BY <1>5 DEF a

LEMMA TabulatedTail ==
  ASSUME NEW S, NEW n \in Nat \ {0}, NEW q \in [1 .. n -> S], NEW r \in [1 .. n - 1 -> S],
         \A i \in 1 .. n - 1 : r[i] = q[i + 1]
  PROVE  r = Tail(q) /\ Head(q) = q[1]
<1>1. q \in Seq(S) /\ Len(q) = n /\ r \in Seq(S) /\ Len(r) = n - 1
  BY TabulatedSeq
<1>2. q # << >>  BY <1>1
<1>3. Tail(q) \in Seq(S) /\ Len(Tail(q)) = n - 1
      /\ \A i \in 1 .. Len(Tail(q)) : Tail(q)[i] = q[i + 1]
  BY <1>1, <1>2, HeadTailProperties
<1>4. r = Tail(q)  BY <1>1, <1>3, SeqEqual
<1> QED BY <1>1, <1>2, <1>4

\* What a queue with these slots and indices holds.
Held(slots, w, r) == [i \in 1 .. Distance(w, r) |-> slots[Slot(Ahead(r, i - 1))]]

LEMMA AheadIndex ==
  ASSUME QueueAssumption, NEW i \in Index, NEW n \in 0 .. Modulus - 1
  PROVE  /\ Ahead(i, n) \in Index
         /\ n < Modulus - 1 => Ahead(Succ(i), n) = Ahead(i, n + 1)
BY DEF QueueAssumption, Index, Ahead, Succ

LEMMA HeldType ==
  ASSUME QueueAssumption, NEW slots \in [Slots -> Events \cup {Nothing}],
         NEW w \in Index, NEW r \in Index
  PROVE  /\ Distance(w, r) \in Nat
         /\ Held(slots, w, r) \in [1 .. Distance(w, r) -> Events \cup {Nothing}]
<1>1. Distance(w, r) \in 0 .. Modulus - 1  BY DistanceType
<1>2. ASSUME NEW i \in 1 .. Distance(w, r)
      PROVE  slots[Slot(Ahead(r, i - 1))] \in Events \cup {Nothing}
  <2>1. i - 1 \in 0 .. Modulus - 1  BY <1>1
  <2>2. Slot(Ahead(r, i - 1)) \in Slots  BY <2>1, AheadIndex, SlotType
  <2> QED BY <2>2
<1> QED BY <1>1, <1>2 DEF Held

LEMMA PushFullRefines ==
  ASSUME QueueAssumption, Inv, NEW r \in Loadable(seenRead, read), PushFull(r)
  PROVE  Channel!Refuse
<1>1. r = seenRead /\ Distance(write, seenRead) = Capacity  BY PushFullPreserves
<1>2. Credits = 0  BY <1>1 DEF Credits, QueueAssumption
<1>3. /\ storage' = storage /\ write' = write /\ read' = read
      /\ seenRead' = seenRead /\ seenWrite' = seenWrite /\ popped' = popped
      /\ drops' = (drops + 1) % Modulus
  BY <1>1 DEF PushFull, consumer
<1>4. Queue' = Queue /\ Visible' = Visible /\ Credits' = Credits /\ Returning' = Returning
  BY <1>3 DEF Queue, Visible, Credits, Returning
<1> QED BY <1>2, <1>3, <1>4 DEF Channel!Refuse

LEMMA PushAdmitRefines ==
  ASSUME QueueAssumption, Inv, NEW r \in Loadable(seenRead, read), NEW e \in Events,
         PushAdmit(e, r)
  PROVE  Channel!Hear \/ UNCHANGED Channel!vars
<1>1. /\ write \in Index /\ read \in Index /\ seenRead \in Index /\ r \in Index
      /\ Distance(write, read) <= Distance(write, r)
      /\ Distance(write, r) <= Distance(write, seenRead)
  BY PushAdmitPreserves DEF Inv, TypeOK
<1>2. /\ storage' = storage /\ write' = write /\ read' = read /\ seenRead' = r
      /\ seenWrite' = seenWrite /\ popped' = popped /\ drops' = drops
  BY DEF PushAdmit, consumer
<1>3. Queue' = Queue /\ Visible' = Visible  BY <1>2 DEF Queue, Visible
<1> DEFINE k == Distance(write, seenRead) - Distance(write, r)
<1>4. Distance(read, seenRead) = Distance(write, seenRead) - Distance(write, read)
  BY Distances
<1>5. Distance(read, r) = Distance(write, r) - Distance(write, read)
  BY <1>1, DistanceSplits
<1>6. /\ Distance(write, seenRead) \in Nat /\ Distance(write, r) \in Nat
      /\ Distance(write, read) \in Nat /\ Capacity \in Nat
  BY <1>1, DistanceType DEF QueueAssumption
<1>7. /\ Credits' = Credits + k /\ Returning' = Returning - k
      /\ Credits \in Int /\ Returning \in Int /\ k \in 0 .. Returning
  BY <1>1, <1>2, <1>4, <1>5, <1>6 DEF Credits, Returning
<1> HIDE DEF k
<1>8. CASE k = 0
  <2>1. Credits' = Credits /\ Returning' = Returning  BY <1>7, <1>8
  <2> QED BY <1>2, <1>3, <2>1 DEF Channel!vars
<1>9. CASE k # 0
  <2>1. k \in 1 .. Returning  BY <1>7, <1>9
  <2> QED BY <1>2, <1>3, <1>7, <2>1 DEF Channel!Hear
<1> QED BY <1>8, <1>9

\* A store to a slot no accepted event is in is not seen through the channel.
LEMMA WriteSlotRefines ==
  ASSUME QueueAssumption, Inv, WriteSlot
  PROVE  UNCHANGED Channel!vars
<1>1. /\ storage' = [storage EXCEPT ![Slot(write)] = event] /\ write' = write
      /\ read' = read /\ seenRead' = seenRead /\ seenWrite' = seenWrite
      /\ popped' = popped /\ drops' = drops /\ pushing # "idle"
  BY DEF WriteSlot, consumer
<1>2. /\ storage \in [Slots -> Events \cup {Nothing}]
      /\ write \in Index /\ read \in Index
  BY DEF Inv, TypeOK
<1>3. Distance(write, read) \in Nat  BY <1>2, DistanceType
<1>4. ASSUME NEW i \in 1 .. Distance(write, read)
      PROVE  storage'[Slot(Ahead(read, i - 1))] = storage[Slot(Ahead(read, i - 1))]
  <2>1. i - 1 \in 0 .. Distance(write, read) - 1  BY <1>3
  <2>2. /\ Slot(Ahead(read, i - 1)) # Slot(write)
        /\ Ahead(read, i - 1) \in Index
    BY <1>1, <2>1, WriterAlone
  <2>3. Slot(Ahead(read, i - 1)) \in Slots  BY <2>2, SlotType
  <2> QED BY <1>1, <1>2, <2>2, <2>3
<1>5. Queue' = Queue
  <2>1. Queue' = [i \in 1 .. Distance(write, read) |-> storage'[Slot(Ahead(read, i - 1))]]
    BY <1>1 DEF Queue
  <2> QED BY <1>4, <2>1 DEF Queue
<1>6. Visible' = Visible /\ Credits' = Credits /\ Returning' = Returning
  BY <1>1 DEF Visible, Credits, Returning
<1> QED BY <1>1, <1>5, <1>6 DEF Channel!vars

LEMMA PublishRefines ==
  ASSUME QueueAssumption, Inv, Publish
  PROVE  \E e \in Events : Channel!Accept(e)
<1>1. /\ storage' = storage /\ write' = Succ(write) /\ read' = read
      /\ seenRead' = seenRead /\ seenWrite' = seenWrite
      /\ popped' = popped /\ drops' = drops /\ pushing = "publish"
  BY DEF Publish, consumer
<1>2. /\ storage \in [Slots -> Events \cup {Nothing}] /\ event \in Events
      /\ write \in Index /\ read \in Index /\ seenRead \in Index
      /\ storage[Slot(write)] = event
  BY <1>1 DEF Inv, TypeOK, Contents
<1>3. /\ Distance(Succ(write), read) = Distance(write, read) + 1
      /\ Distance(Succ(write), seenRead) = Distance(write, seenRead) + 1
  BY PublishPreserves
<1>4. /\ Distance(write, read) \in Nat /\ Distance(write, seenRead) \in Nat
      /\ Distance(write, seenRead) < Capacity /\ Capacity \in Nat
  BY <1>1, <1>2, DistanceType DEF Inv, IndicesOrdered, QueueAssumption
<1> DEFINE n == Distance(write, read)
           q == Held(storage, write, read)
           r == Held(storage, Succ(write), read)
<1>5. q = Queue /\ r = Queue'  BY <1>1 DEF Held, Queue
<1>6. q \in [1 .. n -> Events \cup {Nothing}] /\ r \in [1 .. n + 1 -> Events \cup {Nothing}]
  <2>1. Succ(write) \in Index  BY <1>2, SuccIndex
  <2>2. q \in [1 .. n -> Events \cup {Nothing}]  BY <1>2, HeldType
  <2>3. r \in [1 .. Distance(Succ(write), read) -> Events \cup {Nothing}]
    BY <1>2, <2>1, HeldType
  <2> HIDE DEF q, r, n
  <2>4. Distance(Succ(write), read) = n + 1  BY <1>3 DEF n
  <2> QED BY <2>2, <2>3, <2>4
<1>7. \A i \in 1 .. n : r[i] = q[i]  BY <1>3, <1>4 DEF Held
<1>8. r[n + 1] = event
  <2>1. Ahead(read, n) = write
    BY <1>2 DEF Ahead, Distance, Index, QueueAssumption
  <2>2. r[n + 1] = storage[Slot(Ahead(read, n + 1 - 1))]  BY <1>3, <1>4 DEF Held
  <2>3. n + 1 - 1 = n  BY <1>4
  <2> QED BY <1>2, <2>1, <2>2, <2>3
<1> HIDE DEF q, r
<1>9. r = Append(q, event)  BY <1>4, <1>6, <1>7, <1>8, TabulatedAppend
<1>10. Queue' = Append(Queue, event)  BY <1>5, <1>9
<1>11. /\ Credits > 0 /\ Credits' = Credits - 1
       /\ Returning' = Returning /\ Visible' = Visible
  BY <1>1, <1>3, <1>4 DEF Credits, Returning, Visible
<1>12. Channel!Accept(event)  BY <1>1, <1>10, <1>11 DEF Channel!Accept
<1> QED BY <1>2, <1>12

LEMMA PopLoadRefines ==
  ASSUME QueueAssumption, Inv, NEW w \in Loadable(seenWrite, write),
         PopEmpty(w) \/ PopAdmit(w)
  PROVE  Channel!See \/ UNCHANGED Channel!vars
<1>1. /\ storage' = storage /\ write' = write /\ read' = read
      /\ seenRead' = seenRead /\ seenWrite' = w /\ popped' = popped /\ drops' = drops
  BY DEF PopEmpty, PopAdmit, producer
<1>2. Queue' = Queue /\ Credits' = Credits /\ Returning' = Returning
  BY <1>1 DEF Queue, Credits, Returning
<1>3. /\ storage \in [Slots -> Events \cup {Nothing}]
      /\ write \in Index /\ read \in Index /\ seenWrite \in Index /\ w \in Index
  BY SeenWriteBetween DEF Inv, TypeOK
<1>4. /\ Distance(write, w) <= Distance(write, seenWrite)
      /\ Distance(w, read) = Distance(write, read) - Distance(write, w)
      /\ Distance(seenWrite, read) = Distance(write, read) - Distance(write, seenWrite)
  BY SeenWriteBetween, Distances
<1>5. /\ Distance(write, w) \in Nat /\ Distance(write, seenWrite) \in Nat
      /\ Distance(write, read) \in Nat
      /\ Distance(w, read) \in Nat /\ Distance(seenWrite, read) \in Nat
  BY <1>3, DistanceType
<1>6. Len(Queue) = Distance(write, read)
  <2>1. Queue = Held(storage, write, read)  BY DEF Queue, Held
  <2> QED BY <1>3, <2>1, HeldType, TabulatedSeq
<1>7. Visible' = Distance(w, read) /\ Visible = Distance(seenWrite, read)
  BY <1>1 DEF Visible
<1>8. CASE Distance(w, read) = Distance(seenWrite, read)
  BY <1>1, <1>2, <1>7, <1>8 DEF Channel!vars
<1>9. CASE Distance(w, read) # Distance(seenWrite, read)
  <2>1. Visible' \in Visible + 1 .. Len(Queue)
    BY <1>4, <1>5, <1>6, <1>7, <1>9
  <2> QED BY <1>1, <1>2, <2>1 DEF Channel!See
<1> QED BY <1>8, <1>9

LEMMA CopySlotRefines ==
  ASSUME CopySlot
  PROVE  UNCHANGED Channel!vars
<1>1. /\ storage' = storage /\ write' = write /\ read' = read
      /\ seenRead' = seenRead /\ seenWrite' = seenWrite
      /\ popped' = popped /\ drops' = drops
  BY DEF CopySlot, producer
<1> QED BY <1>1 DEF Queue, Visible, Credits, Returning, Channel!vars

LEMMA ReleaseRefines ==
  ASSUME QueueAssumption, Inv, Release
  PROVE  Channel!Take
<1>1. /\ storage' = storage /\ write' = write /\ read' = Succ(read)
      /\ seenRead' = seenRead /\ seenWrite' = seenWrite
      /\ popped' = copy /\ drops' = drops /\ popping = "release"
  BY DEF Release, producer
<1>2. /\ storage \in [Slots -> Events \cup {Nothing}]
      /\ write \in Index /\ read \in Index /\ seenRead \in Index /\ seenWrite \in Index
      /\ copy = storage[Slot(read)]
  BY <1>1 DEF Inv, TypeOK, Contents
<1>3. /\ Distance(write, Succ(read)) = Distance(write, read) - 1
      /\ Distance(seenWrite, Succ(read)) = Distance(seenWrite, read) - 1
  BY ReleasePreserves
<1>4. /\ Distance(write, read) \in 0 .. Modulus - 1 /\ Distance(write, seenRead) \in Nat
      /\ Distance(seenWrite, read) \in Nat /\ Distance(write, seenWrite) \in Nat
      /\ Distance(seenWrite, read) > 0 /\ Distance(write, read) > 0
      /\ Distance(write, read) <= Distance(write, seenRead)
  BY <1>1, <1>2, Distances, DistanceType DEF Inv, IndicesOrdered
<1> DEFINE n == Distance(write, read)
           q == Held(storage, write, read)
           r == Held(storage, write, Succ(read))
<1>5. q = Queue /\ r = Queue'  BY <1>1 DEF Held, Queue
<1>6. Succ(read) \in Index  BY <1>2, SuccIndex
<1>7. q \in [1 .. n -> Events \cup {Nothing}] /\ r \in [1 .. n - 1 -> Events \cup {Nothing}]
  <2>1. q \in [1 .. n -> Events \cup {Nothing}]  BY <1>2, HeldType
  <2>2. r \in [1 .. Distance(write, Succ(read)) -> Events \cup {Nothing}]
    BY <1>2, <1>6, HeldType
  <2> QED BY <1>3, <2>1, <2>2
<1>8. ASSUME NEW i \in 1 .. n - 1 PROVE r[i] = q[i + 1]
  <2>1. i - 1 \in 0 .. Modulus - 1 /\ i - 1 < Modulus - 1 /\ i - 1 + 1 = i + 1 - 1
    BY <1>4
  <2>2. Ahead(Succ(read), i - 1) = Ahead(read, i + 1 - 1)
    BY <1>2, <2>1, AheadIndex
  <2>3. r[i] = storage[Slot(Ahead(Succ(read), i - 1))]  BY <1>3 DEF Held
  <2>4. q[i + 1] = storage[Slot(Ahead(read, i + 1 - 1))]  BY <1>4 DEF Held
  <2> QED BY <2>2, <2>3, <2>4
<1>9. q[1] = copy
  <2>1. Ahead(read, 1 - 1) = read  BY <1>2 DEF Ahead, Index
  <2>2. q[1] = storage[Slot(Ahead(read, 1 - 1))]  BY <1>4 DEF Held
  <2> QED BY <1>2, <2>1, <2>2
<1> HIDE DEF q, r
<1>10. n \in Nat \ {0}  BY <1>4
<1>11. r = Tail(q) /\ Head(q) = q[1]
  <2> HIDE DEF n
  <2> QED BY <1>7, <1>8, <1>10, TabulatedTail
<1>12. Queue' = Tail(Queue) /\ popped' = Head(Queue)
  BY <1>1, <1>5, <1>9, <1>11
<1>13. Distance(read, seenRead) = Distance(write, seenRead) - Distance(write, read)
  BY Distances
<1>14. Distance(Succ(read), seenRead)
         = Distance(write, seenRead) - Distance(write, Succ(read))
  <2>1. Distance(write, Succ(read)) <= Distance(write, seenRead)  BY <1>3, <1>4
  <2> QED BY <1>2, <1>6, <2>1, DistanceSplits
<1>15. /\ Visible > 0 /\ Visible' = Visible - 1 /\ Returning' = Returning + 1
       /\ Credits' = Credits
  BY <1>1, <1>3, <1>4, <1>13, <1>14 DEF Visible, Returning, Credits
<1> QED BY <1>1, <1>12, <1>15 DEF Channel!Take

\* The queue is a bounded FIFO channel: every step of either thread, however
\* they interleave and however stale what they load, is a step of the channel
\* or changes nothing it can see (EventQueue::push and pop).
THEOREM SpecImplementsChannel == Spec => ImplementsChannel
<1>1. Init => Channel!Init
  <2> SUFFICES ASSUME Init PROVE Channel!Init  OBVIOUS
  <2>1. Distance(0, 0) = 0 /\ Capacity \in Nat  BY QueueAssumption DEF Distance, QueueAssumption
  <2>2. /\ write = 0 /\ read = 0 /\ seenRead = 0 /\ seenWrite = 0 /\ drops = 0
        /\ popped = Nothing
    BY DEF Init
  <2>3. Queue = << >>  BY <2>1, <2>2 DEF Queue
  <2>4. Visible = 0 /\ Credits = Capacity /\ Returning = 0
    BY <2>1, <2>2, QueueAssumption DEF Visible, Credits, Returning
  <2> QED BY <2>2, <2>3, <2>4 DEF Channel!Init
<1>2. Inv /\ [Next]_vars => [Channel!Next]_Channel!vars
  <2> SUFFICES ASSUME Inv, [Next]_vars PROVE Channel!Next \/ UNCHANGED Channel!vars
    OBVIOUS
  <2> USE QueueAssumption
  <2>1. CASE \E r \in Loadable(seenRead, read) : PushFull(r)
    BY <2>1, PushFullRefines DEF Channel!Next
  <2>2. CASE \E r \in Loadable(seenRead, read), e \in Events : PushAdmit(e, r)
    BY <2>2, PushAdmitRefines DEF Channel!Next
  <2>3. CASE WriteSlot  BY <2>3, WriteSlotRefines
  <2>4. CASE Publish  BY <2>4, PublishRefines DEF Channel!Next
  <2>5. CASE \E w \in Loadable(seenWrite, write) : PopEmpty(w) \/ PopAdmit(w)
    BY <2>5, PopLoadRefines DEF Channel!Next
  <2>6. CASE CopySlot  BY <2>6, CopySlotRefines
  <2>7. CASE Release  BY <2>7, ReleaseRefines DEF Channel!Next
  <2>8. CASE UNCHANGED vars
    BY <2>8 DEF vars, producer, consumer, Queue, Visible, Credits, Returning, Channel!vars
  <2> QED BY <2>1, <2>2, <2>3, <2>4, <2>5, <2>6, <2>7, <2>8 DEF Next, Push, Pop
<1> QED BY <1>1, <1>2, SpecInv, PTL DEF Spec, ImplementsChannel, Channel!Spec
=============================================================================
