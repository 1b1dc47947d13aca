------------------------------- MODULE Session -------------------------------
(***************************************************************************)
(* The entries of one session called from any threads, cut at every access *)
(* to memory two of them share: the busy flags, warmed, the applied flags  *)
(* of one prepared update, and the two words the transmit owner leaves for *)
(* the receive owner, logical_ptt and receiver_blanking_ms.  Between two   *)
(* such accesses a call works on what its guard protects.                  *)
(*                                                                         *)
(* What the owners do there is taken from what they promise: PttLifecycle, *)
(* implemented by TransmitSignaling, is the transmit tick (its owner's     *)
(* state is phase .. armed), and SampleCountdown, implemented by the       *)
(* blanking of Reception, is the receive timer (left, spent).              *)
(***************************************************************************)
EXTENDS Integers, Sequences

CONSTANTS
  Callers,      \* threads
  FrameCounts,  \* frames a callback may carry
  TailLengths,  \* frames of PTT a turn-off may owe
  DrainChanges, \* what an update may add to a tail that has begun
  BlankFrames   \* the blanking a completed transmission arms, in frames

ASSUME SessionAssumption ==
  /\ FrameCounts \subseteq Nat \ {0}
  /\ TailLengths \subseteq Nat /\ DrainChanges \subseteq Int
  /\ BlankFrames \in Nat \ {0}

VARIABLES
  pc,                               \* where each caller is
  receiveBusy, transmitBusy,        \* the session's guards
  candidateReceive, candidateTransmit, \* the guards of the prepared update
  warmed,
  receiveApplied, transmitApplied,  \* the update's halves
  ptt, blanking,                    \* SharedState
  phase, owed, on, off, armed,      \* the transmit owner
  left, spent,                      \* the receive owner
  due,      \* history: how far the last release has got towards the receiver
  installs  \* history: installations of the two halves

guards == <<receiveBusy, transmitBusy, candidateReceive, candidateTransmit>>
update == <<receiveApplied, transmitApplied, installs>>
shared == <<ptt, blanking>>
line   == <<phase, owed, on, off, armed>>
timer  == <<left, spent>>
vars   == <<pc, guards, warmed, update, shared, line, timer, due>>

Line == INSTANCE PttLifecycle
Timer == INSTANCE SampleCountdown WITH
  Spans <- FrameCounts, Lengths <- {0, BlankFrames}

ReceiveCalls  == {"rx.take", "rx.qualify", "rx.leave"}
TransmitCalls == {"tx.tick", "tx.render", "tx.first", "tx.second", "tx.leave"}
ReceiveLocations ==
  ReceiveCalls \cup {"urx.candidate", "urx.apply", "urx.swap", "urx.leave",
                     "warm.transmit", "warm.run", "warm.leave"}
TransmitLocations ==
  TransmitCalls \cup {"utx.candidate", "utx.apply", "utx.swap", "utx.leave",
                      "warm.run", "warm.leave"}
\* Inside the guard of a half of the update.
ReceiveHalf  == {"urx.apply", "urx.swap", "urx.leave"}
TransmitHalf == {"utx.apply", "utx.swap", "utx.leave"}
Entries == {"rx.enter", "tx.enter", "warm.enter", "urx.enter", "utx.enter"}
Locations == {"out"} \cup Entries \cup ReceiveLocations \cup TransmitLocations

Init ==
  /\ pc = [c \in Callers |-> "out"]
  /\ receiveBusy = FALSE /\ transmitBusy = FALSE
  /\ candidateReceive = FALSE /\ candidateTransmit = FALSE
  /\ warmed = FALSE
  /\ receiveApplied = FALSE /\ transmitApplied = FALSE
  /\ ptt = FALSE /\ blanking = 0
  /\ Line!Init /\ Timer!Init
  /\ due = "none" /\ installs = [receive |-> 0, transmit |-> 0]

Goto(c, from, to) == pc[c] = from /\ pc' = [pc EXCEPT ![c] = to]

\* Mutant: a callback does not ask whether the session is warm.
CallCold(c) ==
  /\ \E entry \in Entries : Goto(c, "out", entry)
  /\ UNCHANGED <<guards, warmed, update, shared, line, timer, due>>

\* Every entry but an update looks at `warmed' before it asks for its guard.
Call(c) ==
  /\ \/ warmed /\ (Goto(c, "out", "rx.enter") \/ Goto(c, "out", "tx.enter"))
     \/ ~warmed /\ Goto(c, "out", "warm.enter")
     \/ Goto(c, "out", "urx.enter") \/ Goto(c, "out", "utx.enter")
  /\ UNCHANGED <<guards, warmed, update, shared, line, timer, due>>
-----------------------------------------------------------------------------
(* Guards: enter is a compare-and-exchange, a BusyGuard releases on return. *)

\* Mutant: the flag is set whether or not it was free.
SeizeReceive(c, from, to) ==
  /\ Goto(c, from, to) /\ receiveBusy' = TRUE
  /\ UNCHANGED <<transmitBusy, candidateReceive, candidateTransmit>>

EnterReceive(c, from, to) ==
  \/ /\ ~receiveBusy /\ Goto(c, from, to) /\ receiveBusy' = TRUE
     /\ UNCHANGED <<transmitBusy, candidateReceive, candidateTransmit>>
  \/ receiveBusy /\ Goto(c, from, "out") /\ UNCHANGED guards

EnterTransmit(c, from, to) ==
  \/ /\ ~transmitBusy /\ Goto(c, from, to) /\ transmitBusy' = TRUE
     /\ UNCHANGED <<receiveBusy, candidateReceive, candidateTransmit>>
  \/ transmitBusy /\ Goto(c, from, "out") /\ UNCHANGED guards

LeaveReceive(c, from) ==
  /\ Goto(c, from, "out") /\ receiveBusy' = FALSE
  /\ UNCHANGED <<transmitBusy, candidateReceive, candidateTransmit>>

LeaveTransmit(c, from) ==
  /\ Goto(c, from, "out") /\ transmitBusy' = FALSE
  /\ UNCHANGED <<receiveBusy, candidateReceive, candidateTransmit>>

\* An entry into the live guard.
Enter(c) ==
  /\ \/ EnterReceive(c, "rx.enter", "rx.take")
     \/ EnterTransmit(c, "tx.enter", "tx.tick")
     \/ EnterReceive(c, "warm.enter", "warm.transmit")
     \/ EnterReceive(c, "urx.enter", "urx.candidate")
     \/ EnterTransmit(c, "utx.enter", "utx.candidate")
  /\ UNCHANGED <<warmed, update, shared, line, timer, due>>
-----------------------------------------------------------------------------
(* warm *)

\* Mutant: a call refused by the second guard keeps the first.
WarmTransmitKeeps(c) ==
  /\ \/ /\ ~transmitBusy /\ Goto(c, "warm.transmit", "warm.run")
        /\ transmitBusy' = TRUE
        /\ UNCHANGED <<receiveBusy, candidateReceive, candidateTransmit>>
     \/ transmitBusy /\ Goto(c, "warm.transmit", "out") /\ UNCHANGED guards
  /\ UNCHANGED <<warmed, update, shared, line, timer, due>>

\* The transmit guard comes second; if it is taken the first is given back.
WarmTransmit(c) ==
  /\ \/ /\ ~transmitBusy /\ Goto(c, "warm.transmit", "warm.run")
        /\ transmitBusy' = TRUE
        /\ UNCHANGED <<receiveBusy, candidateReceive, candidateTransmit>>
     \/ transmitBusy /\ LeaveReceive(c, "warm.transmit")
  /\ UNCHANGED <<warmed, update, shared, line, timer, due>>

\* Every processor accepts a span of silence, or one fails.
WarmRun(c) ==
  /\ Goto(c, "warm.run", "warm.leave")
  /\ warmed' \in {warmed, TRUE}
  /\ UNCHANGED <<guards, update, shared, line, timer, due>>

WarmLeave(c) ==
  /\ Goto(c, "warm.leave", "out")
  /\ receiveBusy' = FALSE /\ transmitBusy' = FALSE
  /\ UNCHANGED <<candidateReceive, candidateTransmit, warmed, update, shared,
                 line, timer, due>>
-----------------------------------------------------------------------------
(* receive_inner *)

\* A span or a control is refused before anything is touched.
ReceiveRefuse(c) ==
  /\ LeaveReceive(c, "rx.take")
  /\ UNCHANGED <<warmed, update, shared, line, timer, due>>

\* Blanking is swapped out and the detector runs under it.
ReceiveTake(c) ==
  /\ Goto(c, "rx.take", "rx.qualify")
  /\ \E n \in FrameCounts : Timer!Span(n, blanking)
  /\ blanking' = 0
  /\ due' = IF due \in {"stored", "published"} THEN "none" ELSE due
  /\ UNCHANGED <<guards, warmed, update, ptt, line>>

\* The logical PTT is loaded; what follows may fail, and either way returns.
ReceiveQualify(c) ==
  /\ Goto(c, "rx.qualify", "rx.leave")
  /\ UNCHANGED <<guards, warmed, update, shared, line, timer, due>>

ReceiveLeave(c) ==
  /\ LeaveReceive(c, "rx.leave")
  /\ UNCHANGED <<warmed, update, shared, line, timer, due>>
-----------------------------------------------------------------------------
(* transmit_inner *)

\* A span is refused, or the program ring or processor fails, before the tick.
TransmitRefuse(c) ==
  /\ LeaveTransmit(c, "tx.tick")
  /\ UNCHANGED <<warmed, update, shared, line, timer, due>>

\* The signaling tick: held, or n frames of the lifecycle.
TransmitTick(c) ==
  /\ Goto(c, "tx.tick", "tx.render")
  /\ \/ Line!Skip
     \/ \E n \in FrameCounts :
          Line!Idle(n) \/ Line!Key(n) \/ Line!BeginTurnoff(n) \/ Line!Turnoff(n)
  /\ due' = IF armed' THEN "released" ELSE due
  /\ UNCHANGED <<guards, warmed, update, shared, timer>>

\* A renderer or a filter after the tick fails: nothing of it is published.
TransmitFail(c) ==
  /\ LeaveTransmit(c, "tx.render")
  /\ due' = IF due = "released" THEN "none" ELSE due
  /\ UNCHANGED <<warmed, update, shared, line, timer>>

TransmitRender(c) ==
  /\ Goto(c, "tx.render", "tx.first")
  /\ UNCHANGED <<guards, warmed, update, shared, line, timer, due>>

\* Mutant: PTT is published before the blanking that protects its release.
WordsSwapped == <<"ptt", "blanking">>

\* The words a transmit callback publishes, in order.
Words == <<"blanking", "ptt">>

StoreBlanking ==
  /\ blanking' = IF armed THEN BlankFrames ELSE blanking
  /\ due' = IF due = "released" THEN "stored" ELSE due
  /\ UNCHANGED ptt

StorePtt ==
  /\ ptt' = (phase # "idle")
  /\ due' = IF due \in {"released", "stored"} THEN "published" ELSE due
  /\ UNCHANGED blanking

TransmitStore(c) ==
  /\ \/ /\ Goto(c, "tx.first", "tx.second")
        /\ IF Words[1] = "blanking" THEN StoreBlanking ELSE StorePtt
     \/ /\ Goto(c, "tx.second", "tx.leave")
        /\ IF Words[2] = "blanking" THEN StoreBlanking ELSE StorePtt
  /\ UNCHANGED <<guards, warmed, update, line, timer>>

TransmitLeave(c) ==
  /\ LeaveTransmit(c, "tx.leave")
  /\ UNCHANGED <<warmed, update, shared, line, timer, due>>
-----------------------------------------------------------------------------
(* apply_receive_update and apply_transmit_update of one prepared update *)

ReceiveCandidate(c) ==
  /\ \/ /\ ~candidateReceive /\ Goto(c, "urx.candidate", "urx.apply")
        /\ candidateReceive' = TRUE
        /\ UNCHANGED <<receiveBusy, transmitBusy, candidateTransmit>>
     \/ candidateReceive /\ LeaveReceive(c, "urx.candidate")
  /\ UNCHANGED <<warmed, update, shared, line, timer, due>>

\* Mutant: nobody asks whether the half was applied.
ReceiveAskNothing(c) ==
  /\ Goto(c, "urx.apply", "urx.swap")
  /\ UNCHANGED <<guards, warmed, update, shared, line, timer, due>>

ReceiveAsk(c) ==
  /\ \/ receiveApplied /\ Goto(c, "urx.apply", "urx.leave")
     \/ ~receiveApplied /\ Goto(c, "urx.apply", "urx.swap")
  /\ UNCHANGED <<guards, warmed, update, shared, line, timer, due>>

\* The detector is kept, or the candidate's, which owes nothing, is swapped in.
ReceiveApply(c) ==
  /\ Goto(c, "urx.swap", "urx.leave")
  /\ Timer!Rest
  /\ receiveApplied' = TRUE
  /\ installs' = [installs EXCEPT !.receive = @ + 1]
  /\ UNCHANGED <<guards, warmed, transmitApplied, shared, line, due>>

ReceiveRelease(c) ==
  /\ Goto(c, "urx.leave", "out")
  /\ receiveBusy' = FALSE /\ candidateReceive' = FALSE
  /\ UNCHANGED <<transmitBusy, candidateTransmit, warmed, update, shared,
                 line, timer, due>>

TransmitCandidate(c) ==
  /\ \/ /\ ~candidateTransmit /\ Goto(c, "utx.candidate", "utx.apply")
        /\ candidateTransmit' = TRUE
        /\ UNCHANGED <<receiveBusy, transmitBusy, candidateReceive>>
     \/ candidateTransmit /\ LeaveTransmit(c, "utx.candidate")
  /\ UNCHANGED <<warmed, update, shared, line, timer, due>>

\* The DCS client may refuse the new code; then nothing has changed and the
\* half can be applied again.
TransmitAsk(c) ==
  /\ \/ Goto(c, "utx.apply", "utx.leave")
     \/ ~transmitApplied /\ Goto(c, "utx.apply", "utx.swap")
  /\ UNCHANGED <<guards, warmed, update, shared, line, timer, due>>

TransmitApply(c) ==
  /\ Goto(c, "utx.swap", "utx.leave")
  /\ Line!Reconsider \/ Line!Skip
  /\ transmitApplied' = TRUE
  /\ installs' = [installs EXCEPT !.transmit = @ + 1]
  /\ UNCHANGED <<guards, warmed, receiveApplied, shared, timer, due>>

\* Mutant: the guard of the live session outlives the call.
TransmitReleaseHalf(c) ==
  /\ Goto(c, "utx.leave", "out")
  /\ candidateTransmit' = FALSE
  /\ UNCHANGED <<receiveBusy, transmitBusy, candidateReceive, warmed, update,
                 shared, line, timer, due>>

TransmitRelease(c) ==
  /\ Goto(c, "utx.leave", "out")
  /\ transmitBusy' = FALSE /\ candidateTransmit' = FALSE
  /\ UNCHANGED <<receiveBusy, candidateReceive, warmed, update, shared,
                 line, timer, due>>
-----------------------------------------------------------------------------
Receive(c) ==
  ReceiveRefuse(c) \/ ReceiveTake(c) \/ ReceiveQualify(c) \/ ReceiveLeave(c)

Transmit(c) ==
  \/ TransmitRefuse(c) \/ TransmitTick(c) \/ TransmitFail(c)
  \/ TransmitRender(c) \/ TransmitStore(c) \/ TransmitLeave(c)

Warm(c) == WarmTransmit(c) \/ WarmRun(c) \/ WarmLeave(c)

Apply(c) ==
  \/ ReceiveCandidate(c) \/ ReceiveAsk(c) \/ ReceiveApply(c) \/ ReceiveRelease(c)
  \/ TransmitCandidate(c) \/ TransmitAsk(c) \/ TransmitApply(c) \/ TransmitRelease(c)

\* A step of a call that has begun.
Proceed(c) == Enter(c) \/ Warm(c) \/ Receive(c) \/ Transmit(c) \/ Apply(c)

Next == \E c \in Callers : Call(c) \/ Proceed(c)

Spec == Init /\ [][Next]_vars

\* A call that has begun runs to its end: no entry waits for anything.
FairSpec == Spec /\ \A c \in Callers : WF_vars(Proceed(c))
-----------------------------------------------------------------------------
(* Properties *)

FlagsOK ==
  /\ receiveBusy \in BOOLEAN /\ transmitBusy \in BOOLEAN
  /\ candidateReceive \in BOOLEAN /\ candidateTransmit \in BOOLEAN
  /\ warmed \in BOOLEAN /\ receiveApplied \in BOOLEAN
  /\ transmitApplied \in BOOLEAN /\ ptt \in BOOLEAN

LineOK ==
  /\ phase \in {"idle", "keyed", "tail", "drain"}
  /\ owed \in Nat /\ on \in Nat /\ off \in Nat

TimerOK ==
  /\ blanking \in {0, BlankFrames}
  /\ left \in 0 .. BlankFrames /\ spent \in Nat

TypeOK ==
  /\ pc \in [Callers -> Locations]
  /\ FlagsOK /\ LineOK /\ TimerOK /\ armed \in BOOLEAN
  /\ due \in {"none", "released", "stored", "published"}
  /\ installs \in [receive : Nat, transmit : Nat]

\* The worker of an owner is touched by one call at a time, whichever entries
\* race for it, warming and both halves of an update included.
Exclusive ==
  \A c, d \in Callers : c # d =>
    /\ ~(pc[c] \in ReceiveLocations /\ pc[d] \in ReceiveLocations)
    /\ ~(pc[c] \in TransmitLocations /\ pc[d] \in TransmitLocations)

\* No path out of an entry leaves a guard behind: one that is set has a call
\* inside it, so whoever finds it busy can come back later.
GuardsHaveOwners ==
  /\ receiveBusy => \E c \in Callers : pc[c] \in ReceiveLocations
  /\ transmitBusy => \E c \in Callers : pc[c] \in TransmitLocations
  /\ candidateReceive => \E c \in Callers : pc[c] \in ReceiveHalf
  /\ candidateTransmit => \E c \in Callers : pc[c] \in TransmitHalf

\* No callback runs on processors that have not all been warmed.
WarmedBeforeAudio ==
  \A c \in Callers : pc[c] \in ReceiveCalls \cup TransmitCalls => warmed

\* A half of an update is installed once, whoever races to apply it: applied
\* twice, it would put the displaced storage back.
InstalledOnce ==
  /\ installs.receive = IF receiveApplied THEN 1 ELSE 0
  /\ installs.transmit = IF transmitApplied THEN 1 ELSE 0

\* The first receive callback that begins after PTT was published down is
\* muted, unless one before it already took the blanking of that release.
BlankedAfterRelease ==
  [][(due = "published" /\ \E c \in Callers : Goto(c, "rx.take", "rx.qualify"))
     => spent' > 0]_vars

\* A guard that was taken is given back, on every path out of every entry.
GuardsReleased ==
  /\ receiveBusy ~> ~receiveBusy
  /\ transmitBusy ~> ~transmitBusy
  /\ candidateReceive ~> ~candidateReceive
  /\ candidateTransmit ~> ~candidateTransmit
-----------------------------------------------------------------------------
(* What the header and the comments say and the code does not do *)

\* "Post-PTT receive blanking": a receive callback that finds PTT down after a
\* release has taken the blanking of that release.
QualifiedUnderBlanking ==
  [][(\E c \in Callers : Goto(c, "rx.qualify", "rx.leave"))
     => ptt \/ due # "published"]_vars
=============================================================================
