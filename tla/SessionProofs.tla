---------------------------- MODULE SessionProofs ----------------------------
(***************************************************************************)
(* For any set of threads, frame counts and tails: the guards of a session *)
(* keep every owner's state to one call at a time, and with them each half *)
(* of an update is installed once and a published release is blanked.      *)
(***************************************************************************)
EXTENDS Session, TLAPS

\* A guard is held for as long as a call is inside it.
Held ==
  \A c \in Callers :
    /\ pc[c] \in ReceiveLocations => receiveBusy
    /\ pc[c] \in TransmitLocations => transmitBusy

\* `warmed' is never taken back, so having seen it once is enough.
Asked == \A c \in Callers : pc[c] \in {"rx.enter", "tx.enter"} => warmed

GuardInv == Held /\ Exclusive

\* Where a release is on its way to the receiver, and that from the moment it
\* is stored the blanking stays to be taken.
ReleaseInv ==
  /\ due = "released" =>
       armed /\ \E c \in Callers : pc[c] \in {"tx.render", "tx.first"}
  /\ due \in {"stored", "published"} => blanking # 0

LEMMA GuardInit == Init => GuardInv
BY DEF Init, GuardInv, Held, Exclusive, ReceiveLocations, TransmitLocations,
       ReceiveCalls, TransmitCalls

LEMMA TypeInit == Init => TypeOK
<1> SUFFICES ASSUME Init PROVE TypeOK
  OBVIOUS
<1>1. pc \in [Callers -> Locations]
  BY DEF Init, Locations
<1>2. FlagsOK /\ armed \in BOOLEAN
  BY DEF Init, FlagsOK, Line!Init
<1>3. LineOK
  BY DEF Init, LineOK, Line!Init
<1>4. TimerOK
  BY SessionAssumption DEF Init, TimerOK, Timer!Init
<1>5. due \in {"none", "released", "stored", "published"}
  BY DEF Init
<1>6. installs \in [receive : Nat, transmit : Nat]
  BY DEF Init
<1> QED
  BY <1>1, <1>2, <1>3, <1>4, <1>5, <1>6 DEF TypeOK

\* A step of the countdown leaves it within one arm.
LEMMA SpanType ==
  ASSUME left \in 0 .. BlankFrames, blanking \in {0, BlankFrames},
         NEW n \in FrameCounts, Timer!Span(n, blanking)
  PROVE  left' \in 0 .. BlankFrames /\ spent' \in Nat
BY SessionAssumption DEF Timer!Span

\* What a step of the transmit owner can be.
LineStep ==
  \/ Line!Skip \/ Line!Reconsider
  \/ \E n \in FrameCounts : \/ Line!Idle(n) \/ Line!Key(n)
                            \/ Line!BeginTurnoff(n) \/ Line!Turnoff(n)

LEMMA SpendType ==
  ASSUME LineOK, NEW n \in FrameCounts, NEW d \in Nat, Line!Spend(n, d)
  PROVE  LineOK' /\ armed' \in BOOLEAN
<1>1. armed' \in BOOLEAN
  BY Zenon DEF Line!Spend
<1>2. phase' \in {"idle", "keyed", "tail", "drain"}
  BY DEF Line!Spend
<1>3. n \in Nat /\ n - d \in Int /\ d - n \in Int
  BY SessionAssumption
<1>4. ASSUME n < d PROVE LineOK'
  BY <1>2, <1>3, <1>4 DEF Line!Spend, LineOK
<1>5. ASSUME n >= d PROVE LineOK'
  BY <1>2, <1>3, <1>5 DEF Line!Spend, LineOK
<1> QED
  BY <1>1, <1>3, <1>4, <1>5

LEMMA LineType ==
  ASSUME LineOK, LineStep
  PROVE  LineOK' /\ armed' \in BOOLEAN
<1> USE SessionAssumption
<1>1. CASE Line!Skip
  BY <1>1 DEF LineOK, Line!Skip
<1>2. CASE Line!Reconsider
  <2>1. owed' \in Nat
    <3>1. PICK x \in DrainChanges : owed + x > 0 /\ owed' = owed + x
      BY <1>2 DEF Line!Reconsider
    <3> QED
      BY <3>1 DEF LineOK, SessionAssumption
  <2> QED
    BY <1>2, <2>1 DEF LineOK, Line!Reconsider
<1>3. ASSUME NEW n \in FrameCounts, Line!Idle(n)
      PROVE  LineOK' /\ armed' \in BOOLEAN
  BY <1>3 DEF LineOK, Line!Idle
<1>4. ASSUME NEW n \in FrameCounts, Line!Key(n)
      PROVE  LineOK' /\ armed' \in BOOLEAN
  BY <1>4 DEF LineOK, Line!Key
<1>5. ASSUME NEW n \in FrameCounts, Line!BeginTurnoff(n)
      PROVE  LineOK' /\ armed' \in BOOLEAN
  BY <1>5, SpendType DEF Line!BeginTurnoff
<1>6. ASSUME NEW n \in FrameCounts, Line!Turnoff(n)
      PROVE  LineOK' /\ armed' \in BOOLEAN
  BY <1>6, SpendType DEF Line!Turnoff, LineOK
<1> QED
  BY <1>1, <1>2, <1>3, <1>4, <1>5, <1>6 DEF LineStep
-----------------------------------------------------------------------------
(* How the guards survive a caller that moves. *)

PcOK == pc \in [Callers -> Locations]

\* A move that enters nothing.
LEMMA MoveKeepsGuards ==
  ASSUME PcOK, GuardInv, NEW c \in Callers, NEW from, NEW to, Goto(c, from, to),
         receiveBusy' = receiveBusy, transmitBusy' = transmitBusy,
         to \in ReceiveLocations => from \in ReceiveLocations,
         to \in TransmitLocations => from \in TransmitLocations
  PROVE  GuardInv'
BY DEF PcOK, GuardInv, Held, Exclusive, Goto

\* A move into the receive guard, found free.
LEMMA AcquireReceive ==
  ASSUME PcOK, GuardInv, NEW c \in Callers, NEW from, NEW to, Goto(c, from, to),
         ~receiveBusy, receiveBusy' = TRUE, transmitBusy' = transmitBusy,
         to \in TransmitLocations => from \in TransmitLocations
  PROVE  GuardInv'
BY DEF PcOK, GuardInv, Held, Exclusive, Goto

LEMMA AcquireTransmit ==
  ASSUME PcOK, GuardInv, NEW c \in Callers, NEW from, NEW to, Goto(c, from, to),
         ~transmitBusy, transmitBusy' = TRUE, receiveBusy' = receiveBusy,
         to \in ReceiveLocations => from \in ReceiveLocations
  PROVE  GuardInv'
BY DEF PcOK, GuardInv, Held, Exclusive, Goto

\* A move out of a guard that is given back.
LEMMA ReleaseReceive ==
  ASSUME PcOK, GuardInv, NEW c \in Callers, NEW from, Goto(c, from, "out"),
         from \in ReceiveLocations, receiveBusy' = FALSE,
         transmitBusy' = transmitBusy
  PROVE  GuardInv'
BY DEF PcOK, GuardInv, Held, Exclusive, Goto, ReceiveLocations,
       TransmitLocations, ReceiveCalls, TransmitCalls

LEMMA ReleaseTransmit ==
  ASSUME PcOK, GuardInv, NEW c \in Callers, NEW from, Goto(c, from, "out"),
         from \in TransmitLocations, transmitBusy' = FALSE,
         receiveBusy' = receiveBusy
  PROVE  GuardInv'
BY DEF PcOK, GuardInv, Held, Exclusive, Goto, ReceiveLocations,
       TransmitLocations, ReceiveCalls, TransmitCalls

LEMMA ReleaseBoth ==
  ASSUME PcOK, GuardInv, NEW c \in Callers, NEW from, Goto(c, from, "out"),
         from \in ReceiveLocations, from \in TransmitLocations,
         receiveBusy' = FALSE, transmitBusy' = FALSE
  PROVE  GuardInv'
BY DEF PcOK, GuardInv, Held, Exclusive, Goto, ReceiveLocations,
       TransmitLocations, ReceiveCalls, TransmitCalls

\* Every step of every entry takes guards only when free and keeps whoever is
\* inside alone.
LEMMA GuardStep ==
  ASSUME PcOK, GuardInv, NEW c \in Callers, Call(c) \/ Proceed(c)
  PROVE  GuardInv'
<1> USE DEF ReceiveLocations, TransmitLocations, ReceiveCalls, TransmitCalls
<1>1. CASE Call(c)
  BY <1>1, MoveKeepsGuards DEF Call, guards
<1>2. CASE Enter(c)
  <2>1. CASE EnterReceive(c, "rx.enter", "rx.take")
    BY <2>1, MoveKeepsGuards, AcquireReceive DEF EnterReceive, guards
  <2>2. CASE EnterTransmit(c, "tx.enter", "tx.tick")
    BY <2>2, MoveKeepsGuards, AcquireTransmit DEF EnterTransmit, guards
  <2>3. CASE EnterReceive(c, "warm.enter", "warm.transmit")
    BY <2>3, MoveKeepsGuards, AcquireReceive DEF EnterReceive, guards
  <2>4. CASE EnterReceive(c, "urx.enter", "urx.candidate")
    BY <2>4, MoveKeepsGuards, AcquireReceive DEF EnterReceive, guards
  <2>5. CASE EnterTransmit(c, "utx.enter", "utx.candidate")
    BY <2>5, MoveKeepsGuards, AcquireTransmit DEF EnterTransmit, guards
  <2> QED
    BY <1>2, <2>1, <2>2, <2>3, <2>4, <2>5 DEF Enter
<1>3. CASE WarmTransmit(c)
  BY <1>3, AcquireTransmit, ReleaseReceive DEF WarmTransmit, LeaveReceive
<1>4. CASE WarmRun(c)
  BY <1>4, MoveKeepsGuards DEF WarmRun, guards
<1>5. CASE WarmLeave(c)
  BY <1>5, ReleaseBoth DEF WarmLeave
<1>6. CASE ReceiveRefuse(c)
  BY <1>6, ReleaseReceive DEF ReceiveRefuse, LeaveReceive
<1>7. CASE ReceiveLeave(c)
  BY <1>7, ReleaseReceive DEF ReceiveLeave, LeaveReceive
<1>8. CASE ReceiveTake(c)
  BY <1>8, MoveKeepsGuards DEF ReceiveTake, guards
<1>9. CASE ReceiveQualify(c)
  BY <1>9, MoveKeepsGuards DEF ReceiveQualify, guards
<1>10. CASE TransmitTick(c)
  BY <1>10, MoveKeepsGuards DEF TransmitTick, guards
<1>11. CASE TransmitRender(c)
  BY <1>11, MoveKeepsGuards DEF TransmitRender, guards
<1>12. CASE TransmitStore(c)
  BY <1>12, MoveKeepsGuards DEF TransmitStore, guards
<1>13. CASE ReceiveApply(c)
  BY <1>13, MoveKeepsGuards DEF ReceiveApply, guards
<1>14. CASE TransmitApply(c)
  BY <1>14, MoveKeepsGuards DEF TransmitApply, guards
<1>15. CASE TransmitRefuse(c)
  BY <1>15, ReleaseTransmit DEF TransmitRefuse, LeaveTransmit
<1>16. CASE TransmitFail(c)
  BY <1>16, ReleaseTransmit DEF TransmitFail, LeaveTransmit
<1>17. CASE TransmitLeave(c)
  BY <1>17, ReleaseTransmit DEF TransmitLeave, LeaveTransmit
<1>18. CASE ReceiveCandidate(c)
  BY <1>18, MoveKeepsGuards, ReleaseReceive DEF ReceiveCandidate, LeaveReceive
<1>19. CASE TransmitCandidate(c)
  BY <1>19, MoveKeepsGuards, ReleaseTransmit DEF TransmitCandidate, LeaveTransmit
<1>20. CASE ReceiveRelease(c)
  BY <1>20, ReleaseReceive DEF ReceiveRelease
<1>21. CASE TransmitRelease(c)
  BY <1>21, ReleaseTransmit DEF TransmitRelease
<1>30. CASE ReceiveAsk(c)
  BY <1>30, MoveKeepsGuards DEF ReceiveAsk, guards
<1>31. CASE TransmitAsk(c)
  BY <1>31, MoveKeepsGuards DEF TransmitAsk, guards
<1> QED
  BY <1>30, <1>31, <1>1, <1>2, <1>3, <1>4, <1>5, <1>6, <1>7, <1>8, <1>9, <1>10, <1>11, <1>12, <1>13, <1>14, <1>15, <1>16, <1>17, <1>18, <1>19, <1>20, <1>21
  DEF Proceed, Warm, Receive, Transmit, Apply
-----------------------------------------------------------------------------
(* Guards that are set have a call inside them. *)

\* A move that leaves no guard behind: it sets those it goes into and clears those
\* it comes out of.
LEMMA MoveKeepsOwners ==
  ASSUME PcOK, GuardsHaveOwners, NEW c \in Callers, NEW from, NEW to, Goto(c, from, to),
         \/ to \in ReceiveLocations
         \/ ~receiveBusy'
         \/ from \notin ReceiveLocations /\ receiveBusy' = receiveBusy,
         \/ to \in TransmitLocations
         \/ ~transmitBusy'
         \/ from \notin TransmitLocations /\ transmitBusy' = transmitBusy,
         \/ to \in ReceiveHalf
         \/ ~candidateReceive'
         \/ from \notin ReceiveHalf /\ candidateReceive' = candidateReceive,
         \/ to \in TransmitHalf
         \/ ~candidateTransmit'
         \/ from \notin TransmitHalf /\ candidateTransmit' = candidateTransmit
  PROVE  GuardsHaveOwners'
<1>1. pc'[c] = to /\ pc[c] = from /\ \A d \in Callers : d # c => pc'[d] = pc[d]
  BY DEF PcOK, Goto
<1>3. receiveBusy' => \E d \in Callers : pc'[d] \in ReceiveLocations
  BY <1>1 DEF GuardsHaveOwners
<1>4. transmitBusy' => \E d \in Callers : pc'[d] \in TransmitLocations
  BY <1>1 DEF GuardsHaveOwners
<1>5. candidateReceive' => \E d \in Callers : pc'[d] \in ReceiveHalf
  BY <1>1 DEF GuardsHaveOwners
<1>6. candidateTransmit' => \E d \in Callers : pc'[d] \in TransmitHalf
  BY <1>1 DEF GuardsHaveOwners
<1> QED BY <1>3, <1>4, <1>5, <1>6 DEF GuardsHaveOwners, ReceiveLocations, TransmitLocations,
           ReceiveCalls, TransmitCalls, ReceiveHalf, TransmitHalf

\* Every step of every entry, the refused and the failing ones too.
LEMMA OwnersStep ==
  ASSUME PcOK, GuardsHaveOwners, NEW c \in Callers, Call(c) \/ Proceed(c)
  PROVE  GuardsHaveOwners'
<1> USE DEF ReceiveLocations, TransmitLocations, ReceiveCalls, TransmitCalls,
            ReceiveHalf, TransmitHalf
<1>1. CASE Call(c)
  BY <1>1, MoveKeepsOwners DEF Call, guards
<1>2. CASE Enter(c)
  <2>1. CASE EnterReceive(c, "rx.enter", "rx.take")
    BY <2>1, MoveKeepsOwners DEF EnterReceive, guards
  <2>2. CASE EnterTransmit(c, "tx.enter", "tx.tick")
    BY <2>2, MoveKeepsOwners DEF EnterTransmit, guards
  <2>3. CASE EnterReceive(c, "warm.enter", "warm.transmit")
    BY <2>3, MoveKeepsOwners DEF EnterReceive, guards
  <2>4. CASE EnterReceive(c, "urx.enter", "urx.candidate")
    BY <2>4, MoveKeepsOwners DEF EnterReceive, guards
  <2>5. CASE EnterTransmit(c, "utx.enter", "utx.candidate")
    BY <2>5, MoveKeepsOwners DEF EnterTransmit, guards
  <2> QED
    BY <1>2, <2>1, <2>2, <2>3, <2>4, <2>5 DEF Enter
<1>3. CASE WarmTransmit(c)
  BY <1>3, MoveKeepsOwners DEF WarmTransmit, guards, LeaveReceive
<1>4. CASE WarmRun(c)
  BY <1>4, MoveKeepsOwners DEF WarmRun, guards
<1>5. CASE WarmLeave(c)
  BY <1>5, MoveKeepsOwners DEF WarmLeave, guards
<1>6. CASE ReceiveRefuse(c)
  BY <1>6, MoveKeepsOwners DEF ReceiveRefuse, guards, LeaveReceive
<1>7. CASE ReceiveTake(c)
  BY <1>7, MoveKeepsOwners DEF ReceiveTake, guards
<1>8. CASE ReceiveQualify(c)
  BY <1>8, MoveKeepsOwners DEF ReceiveQualify, guards
<1>9. CASE ReceiveLeave(c)
  BY <1>9, MoveKeepsOwners DEF ReceiveLeave, guards, LeaveReceive
<1>10. CASE TransmitRefuse(c)
  BY <1>10, MoveKeepsOwners DEF TransmitRefuse, guards, LeaveTransmit
<1>11. CASE TransmitTick(c)
  BY <1>11, MoveKeepsOwners DEF TransmitTick, guards
<1>12. CASE TransmitFail(c)
  BY <1>12, MoveKeepsOwners DEF TransmitFail, guards, LeaveTransmit
<1>13. CASE TransmitRender(c)
  BY <1>13, MoveKeepsOwners DEF TransmitRender, guards
<1>14. CASE TransmitStore(c)
  BY <1>14, MoveKeepsOwners DEF TransmitStore, guards
<1>15. CASE TransmitLeave(c)
  BY <1>15, MoveKeepsOwners DEF TransmitLeave, guards, LeaveTransmit
<1>16. CASE ReceiveCandidate(c)
  BY <1>16, MoveKeepsOwners DEF ReceiveCandidate, guards, LeaveReceive
<1>17. CASE ReceiveAsk(c)
  BY <1>17, MoveKeepsOwners DEF ReceiveAsk, guards
<1>18. CASE ReceiveApply(c)
  BY <1>18, MoveKeepsOwners DEF ReceiveApply, guards
<1>19. CASE ReceiveRelease(c)
  BY <1>19, MoveKeepsOwners DEF ReceiveRelease, guards
<1>20. CASE TransmitCandidate(c)
  BY <1>20, MoveKeepsOwners DEF TransmitCandidate, guards, LeaveTransmit
<1>21. CASE TransmitAsk(c)
  BY <1>21, MoveKeepsOwners DEF TransmitAsk, guards
<1>22. CASE TransmitApply(c)
  BY <1>22, MoveKeepsOwners DEF TransmitApply, guards
<1>23. CASE TransmitRelease(c)
  BY <1>23, MoveKeepsOwners DEF TransmitRelease, guards
<1> QED
  BY <1>1, <1>2, <1>3, <1>4, <1>5, <1>6, <1>7, <1>8, <1>9, <1>10, <1>11, <1>12,
     <1>13, <1>14, <1>15, <1>16, <1>17, <1>18, <1>19, <1>20, <1>21, <1>22, <1>23
  DEF Proceed, Warm, Receive, Transmit, Apply
-----------------------------------------------------------------------------
(* What callers saw of `warmed', and the update's halves. *)

WarmInv == Asked /\ WarmedBeforeAudio

AskedLocations == {"rx.enter", "tx.enter"} \cup ReceiveCalls \cup TransmitCalls

LEMMA MoveKeepsWarm ==
  ASSUME PcOK, WarmInv, NEW c \in Callers, NEW from, NEW to, Goto(c, from, to),
         warmed => warmed', to \in AskedLocations => warmed
  PROVE  WarmInv'
BY DEF PcOK, WarmInv, Asked, WarmedBeforeAudio, Goto, AskedLocations

\* A step that goes on with what began in a place that asked.
LEMMA WarmStep ==
  ASSUME PcOK, WarmInv, NEW c \in Callers, Call(c) \/ Proceed(c)
  PROVE  WarmInv'
<1> USE DEF AskedLocations, ReceiveCalls, TransmitCalls
<1>0. pc[c] \in AskedLocations => warmed
  BY DEF WarmInv, Asked, WarmedBeforeAudio
<1>1. CASE Call(c)
  BY <1>0, <1>1, MoveKeepsWarm DEF Call, Goto
<1>2. CASE Enter(c)
  BY <1>0, <1>2, MoveKeepsWarm DEF Enter, Goto, EnterReceive, EnterTransmit
<1>3. CASE WarmTransmit(c)
  BY <1>0, <1>3, MoveKeepsWarm DEF WarmTransmit, Goto, LeaveReceive
<1>4. CASE WarmRun(c)
  BY <1>0, <1>4, MoveKeepsWarm DEF WarmRun, Goto
<1>5. CASE WarmLeave(c)
  BY <1>0, <1>5, MoveKeepsWarm DEF WarmLeave, Goto
<1>6. CASE ReceiveRefuse(c)
  BY <1>0, <1>6, MoveKeepsWarm DEF ReceiveRefuse, Goto, LeaveReceive
<1>7. CASE ReceiveLeave(c)
  BY <1>0, <1>7, MoveKeepsWarm DEF ReceiveLeave, Goto, LeaveReceive
<1>8. CASE ReceiveTake(c)
  BY <1>0, <1>8, MoveKeepsWarm DEF ReceiveTake, Goto
<1>9. CASE ReceiveQualify(c)
  BY <1>0, <1>9, MoveKeepsWarm DEF ReceiveQualify, Goto
<1>10. CASE TransmitTick(c)
  BY <1>0, <1>10, MoveKeepsWarm DEF TransmitTick, Goto
<1>11. CASE TransmitRender(c)
  BY <1>0, <1>11, MoveKeepsWarm DEF TransmitRender, Goto
<1>12. CASE TransmitStore(c)
  BY <1>0, <1>12, MoveKeepsWarm DEF TransmitStore, Goto
<1>13. CASE ReceiveApply(c)
  BY <1>0, <1>13, MoveKeepsWarm DEF ReceiveApply, Goto
<1>14. CASE TransmitApply(c)
  BY <1>0, <1>14, MoveKeepsWarm DEF TransmitApply, Goto
<1>15. CASE TransmitRefuse(c)
  BY <1>0, <1>15, MoveKeepsWarm DEF TransmitRefuse, Goto, LeaveTransmit
<1>16. CASE TransmitFail(c)
  BY <1>0, <1>16, MoveKeepsWarm DEF TransmitFail, Goto, LeaveTransmit
<1>17. CASE TransmitLeave(c)
  BY <1>0, <1>17, MoveKeepsWarm DEF TransmitLeave, Goto, LeaveTransmit
<1>18. CASE ReceiveCandidate(c)
  BY <1>0, <1>18, MoveKeepsWarm DEF ReceiveCandidate, Goto, LeaveReceive
<1>19. CASE TransmitCandidate(c)
  BY <1>0, <1>19, MoveKeepsWarm DEF TransmitCandidate, Goto, LeaveTransmit
<1>20. CASE ReceiveRelease(c)
  BY <1>0, <1>20, MoveKeepsWarm DEF ReceiveRelease, Goto
<1>21. CASE TransmitRelease(c)
  BY <1>0, <1>21, MoveKeepsWarm DEF TransmitRelease, Goto
<1>30. CASE ReceiveAsk(c)
  BY <1>0, <1>30, MoveKeepsWarm DEF ReceiveAsk, Goto
<1>31. CASE TransmitAsk(c)
  BY <1>0, <1>31, MoveKeepsWarm DEF TransmitAsk, Goto
<1> QED
  BY <1>30, <1>31, <1>1, <1>2, <1>3, <1>4, <1>5, <1>6, <1>7, <1>8, <1>9, <1>10, <1>11, <1>12, <1>13, <1>14, <1>15, <1>16, <1>17, <1>18, <1>19, <1>20, <1>21
  DEF Proceed, Warm, Receive, Transmit, Apply

\* Whoever is about to install a half has seen that it is not applied.
Pending ==
  \A c \in Callers : /\ pc[c] = "urx.swap" => ~receiveApplied
                     /\ pc[c] = "utx.swap" => ~transmitApplied

InstallInv == InstalledOnce /\ Pending

\* Only the two applications install anything, and they are alone: another
\* call that had seen the half not applied would be inside the same owner.
LEMMA InstallStep ==
  ASSUME TypeOK, GuardInv, InstallInv, NEW c \in Callers, Call(c) \/ Proceed(c)
  PROVE  InstallInv'
<1>0. installs \in [receive : Nat, transmit : Nat] /\ PcOK
  BY DEF TypeOK, PcOK
<1>1. CASE ReceiveApply(c)
  <2>1. InstalledOnce'
    BY <1>0, <1>1 DEF InstallInv, InstalledOnce, Pending, ReceiveApply, Goto, PcOK
  <2>2. Pending'
    BY <1>0, <1>1 DEF InstallInv, Pending, ReceiveApply, Goto, PcOK, GuardInv,
                      Exclusive, ReceiveLocations
  <2> QED
    BY <2>1, <2>2 DEF InstallInv
<1>2. CASE TransmitApply(c)
  <2>1. InstalledOnce'
    BY <1>0, <1>2 DEF InstallInv, InstalledOnce, Pending, TransmitApply, Goto, PcOK
  <2>2. Pending'
    BY <1>0, <1>2 DEF InstallInv, Pending, TransmitApply, Goto, PcOK, GuardInv,
                      Exclusive, TransmitLocations
  <2> QED
    BY <2>1, <2>2 DEF InstallInv
<1>3. ASSUME NEW from, NEW to, Goto(c, from, to), UNCHANGED update,
             to = "urx.swap" => ~receiveApplied,
             to = "utx.swap" => ~transmitApplied
      PROVE  InstallInv'
  BY <1>0, <1>3 DEF InstallInv, InstalledOnce, Pending, Goto, PcOK, update
<1>4. CASE Call(c) \/ Enter(c)
  BY <1>3, <1>4 DEF Call, Enter, EnterReceive, EnterTransmit
<1>5. CASE Warm(c)
  <2>1. WarmRun(c) => Goto(c, "warm.run", "warm.leave") /\ UNCHANGED update
    BY Zenon DEF WarmRun
  <2> QED
    BY <1>3, <1>5, <2>1 DEF Warm, WarmTransmit, WarmLeave, LeaveReceive
<1>6. CASE Receive(c)
  BY <1>3, <1>6 DEF Receive, ReceiveRefuse, ReceiveTake, ReceiveQualify,
                    ReceiveLeave, LeaveReceive
<1>7. CASE Transmit(c)
  <2>1. TransmitRefuse(c) => Goto(c, "tx.tick", "out") /\ UNCHANGED update
    BY Zenon DEF TransmitRefuse, LeaveTransmit
  <2> QED
    BY <1>3, <1>7, <2>1 DEF Transmit, TransmitTick, TransmitFail, TransmitRender,
                            TransmitStore, TransmitLeave, LeaveTransmit
<1>8. CASE ReceiveAsk(c) \/ TransmitAsk(c)
  BY <1>3, <1>8 DEF ReceiveAsk, TransmitAsk
<1>9. CASE \/ ReceiveCandidate(c) \/ TransmitCandidate(c)
           \/ ReceiveRelease(c) \/ TransmitRelease(c)
  BY <1>3, <1>9 DEF ReceiveCandidate, TransmitCandidate, ReceiveRelease,
                    TransmitRelease, LeaveReceive, LeaveTransmit
<1> QED
  BY <1>1, <1>2, <1>4, <1>5, <1>6, <1>7, <1>8, <1>9 DEF Proceed, Apply
-----------------------------------------------------------------------------
(* From the transmit owner's release to the receive owner's timer. *)

Rendering == {"tx.render", "tx.first"}

LEMMA MoveKeepsRelease ==
  ASSUME PcOK, ReleaseInv, NEW c \in Callers, NEW from, NEW to, Goto(c, from, to),
         from \notin Rendering, UNCHANGED <<due, blanking, armed>>
  PROVE  ReleaseInv'
BY DEF PcOK, ReleaseInv, Goto, Rendering

\* While another place of the transmit owner is occupied nothing is released.
LEMMA OnlyRendering ==
  ASSUME GuardInv, ReleaseInv, NEW c \in Callers,
         pc[c] \in TransmitLocations \ Rendering
  PROVE  due # "released"
BY DEF GuardInv, Exclusive, ReleaseInv, Rendering, TransmitLocations,
       TransmitCalls

LEMMA ReleaseStep ==
  ASSUME TypeOK, GuardInv, ReleaseInv, NEW c \in Callers, Call(c) \/ Proceed(c)
  PROVE  ReleaseInv'
<1> USE DEF Rendering
<1>0. PcOK /\ BlankFrames # 0
  BY SessionAssumption DEF TypeOK, PcOK
<1>1. CASE Call(c)
  BY <1>0, <1>1, MoveKeepsRelease DEF Call, line, shared
<1>2. CASE Enter(c)
  BY <1>0, <1>2, MoveKeepsRelease DEF Enter, line, shared, EnterReceive, EnterTransmit
<1>3. CASE WarmTransmit(c)
  BY <1>0, <1>3, MoveKeepsRelease DEF WarmTransmit, line, shared, LeaveReceive
<1>4. CASE WarmRun(c)
  BY <1>0, <1>4, MoveKeepsRelease DEF WarmRun, line, shared
<1>5. CASE WarmLeave(c)
  BY <1>0, <1>5, MoveKeepsRelease DEF WarmLeave, line, shared
<1>6. CASE ReceiveRefuse(c)
  BY <1>0, <1>6, MoveKeepsRelease DEF ReceiveRefuse, line, shared, LeaveReceive
<1>7. CASE ReceiveLeave(c)
  BY <1>0, <1>7, MoveKeepsRelease DEF ReceiveLeave, line, shared, LeaveReceive
<1>8. CASE ReceiveTake(c)
  BY <1>0, <1>8 DEF ReceiveTake, PcOK, ReleaseInv, Goto, line
<1>9. CASE ReceiveQualify(c)
  BY <1>0, <1>9, MoveKeepsRelease DEF ReceiveQualify, line, shared
<1>10. CASE TransmitTick(c)
  <2>1. due # "released"
    BY <1>10, OnlyRendering DEF TransmitTick, Goto, TransmitLocations, TransmitCalls
  <2>2. CASE armed'
    BY <1>0, <1>10, <2>2 DEF TransmitTick, PcOK, ReleaseInv, Goto
  <2>3. CASE ~armed'
    BY <1>10, <2>1, <2>3 DEF TransmitTick, ReleaseInv, shared
  <2> QED
    BY <2>2, <2>3
<1>11. CASE TransmitRender(c)
  BY <1>0, <1>11 DEF TransmitRender, PcOK, ReleaseInv, Goto, line, shared
<1>12. CASE TransmitStore(c)
  <2>1. CASE Goto(c, "tx.first", "tx.second") /\ StoreBlanking
    BY <1>0, <1>12, <2>1 DEF TransmitStore, StoreBlanking, ReleaseInv, line
  <2>2. CASE Goto(c, "tx.second", "tx.leave") /\ StorePtt
    <3>1. due # "released"
      BY <2>2, OnlyRendering DEF Goto, TransmitLocations, TransmitCalls
    <3> QED
      BY <2>2, <3>1 DEF StorePtt, ReleaseInv
  <2> QED
    BY <1>12, <2>1, <2>2 DEF TransmitStore, Words
<1>13. CASE ReceiveApply(c)
  BY <1>0, <1>13, MoveKeepsRelease DEF ReceiveApply, line, shared
<1>14. CASE TransmitApply(c)
  <2>1. due # "released"
    BY <1>14, OnlyRendering DEF TransmitApply, Goto, TransmitLocations, TransmitCalls
  <2> QED
    BY <1>14, <2>1 DEF TransmitApply, ReleaseInv, shared
<1>15. CASE TransmitRefuse(c)
  BY <1>0, <1>15, MoveKeepsRelease DEF TransmitRefuse, line, shared, LeaveTransmit
<1>16. CASE TransmitFail(c)
  BY <1>0, <1>16 DEF TransmitFail, ReleaseInv, line, shared
<1>17. CASE TransmitLeave(c)
  BY <1>0, <1>17, MoveKeepsRelease DEF TransmitLeave, line, shared, LeaveTransmit
<1>18. CASE ReceiveCandidate(c)
  BY <1>0, <1>18, MoveKeepsRelease DEF ReceiveCandidate, line, shared, LeaveReceive
<1>19. CASE TransmitCandidate(c)
  BY <1>0, <1>19, MoveKeepsRelease DEF TransmitCandidate, line, shared, LeaveTransmit
<1>20. CASE ReceiveRelease(c)
  BY <1>0, <1>20, MoveKeepsRelease DEF ReceiveRelease, line, shared
<1>21. CASE TransmitRelease(c)
  BY <1>0, <1>21, MoveKeepsRelease DEF TransmitRelease, line, shared
<1>30. CASE ReceiveAsk(c)
  BY <1>0, <1>30, MoveKeepsRelease DEF ReceiveAsk, line, shared
<1>31. CASE TransmitAsk(c)
  BY <1>0, <1>31, MoveKeepsRelease DEF TransmitAsk, line, shared
<1> QED
  BY <1>30, <1>31, <1>1, <1>2, <1>3, <1>4, <1>5, <1>6, <1>7, <1>8, <1>9, <1>10, <1>11, <1>12, <1>13, <1>14, <1>15, <1>16, <1>17, <1>18, <1>19, <1>20, <1>21
  DEF Proceed, Warm, Receive, Transmit, Apply

\* Taking blanking that is there mutes something.
LEMMA TakenMutes ==
  ASSUME TimerOK, blanking # 0, NEW n \in FrameCounts, Timer!Span(n, blanking)
  PROVE  spent' > 0
BY SessionAssumption DEF TimerOK, Timer!Span

\* The swap is the only way from the guard to the qualification.
LEMMA OnlyTakes ==
  ASSUME PcOK, NEW c \in Callers, NEW d \in Callers, Call(d) \/ Proceed(d),
         Goto(c, "rx.take", "rx.qualify")
  PROVE  ReceiveTake(c)
<1>1. pc[c] = "rx.take" /\ pc'[c] = "rx.qualify"
  BY DEF PcOK, Goto
<1>2. ASSUME NEW from, NEW to, Goto(d, from, to) PROVE d = c /\ from = "rx.take" /\ to = "rx.qualify"
  BY <1>1, <1>2 DEF PcOK, Goto
<1>3. ~Call(d)
  BY <1>2 DEF Call
<1>4. ~Enter(d)
  BY <1>2 DEF Enter, EnterReceive, EnterTransmit
<1>5. ~WarmTransmit(d)
  BY <1>2 DEF WarmTransmit, LeaveReceive
<1>6. ~WarmRun(d)
  <2>1. WarmRun(d) => Goto(d, "warm.run", "warm.leave")
    BY Zenon DEF WarmRun
  <2> QED
    BY <1>2, <2>1
<1>7. ~WarmLeave(d)
  BY <1>2 DEF WarmLeave
<1>8. ~ReceiveRefuse(d)
  BY <1>2 DEF ReceiveRefuse, LeaveReceive
<1>9. ~ReceiveLeave(d)
  BY <1>2 DEF ReceiveLeave, LeaveReceive
<1>10. ~ReceiveQualify(d)
  BY <1>2 DEF ReceiveQualify
<1>11. ~TransmitTick(d)
  BY <1>2 DEF TransmitTick
<1>12. ~TransmitRender(d)
  BY <1>2 DEF TransmitRender
<1>13. ~TransmitStore(d)
  BY <1>2 DEF TransmitStore
<1>14. ~ReceiveApply(d)
  BY <1>2 DEF ReceiveApply
<1>15. ~TransmitApply(d)
  BY <1>2 DEF TransmitApply
<1>16. ~TransmitRefuse(d)
  <2>1. TransmitRefuse(d) => Goto(d, "tx.tick", "out")
    BY Zenon DEF TransmitRefuse, LeaveTransmit
  <2> QED
    BY <1>2, <2>1
<1>17. ~TransmitFail(d)
  BY <1>2 DEF TransmitFail, LeaveTransmit
<1>18. ~TransmitLeave(d)
  BY <1>2 DEF TransmitLeave, LeaveTransmit
<1>19. ~ReceiveCandidate(d)
  BY <1>2 DEF ReceiveCandidate, LeaveReceive
<1>20. ~TransmitCandidate(d)
  BY <1>2 DEF TransmitCandidate, LeaveTransmit
<1>21. ~ReceiveRelease(d)
  BY <1>2 DEF ReceiveRelease
<1>22. ~TransmitRelease(d)
  BY <1>2 DEF TransmitRelease
<1>23. CASE ReceiveTake(d)
  BY <1>2, <1>23 DEF ReceiveTake
<1>30. ~ReceiveAsk(d)
  BY <1>2 DEF ReceiveAsk
<1>31. ~TransmitAsk(d)
  BY <1>2 DEF TransmitAsk
<1> QED
  BY <1>30, <1>31, <1>3, <1>4, <1>5, <1>6, <1>7, <1>8, <1>9, <1>10, <1>11, <1>12, <1>13, <1>14, <1>15, <1>16, <1>17, <1>18, <1>19, <1>20, <1>21, <1>22, <1>23
  DEF Proceed, Warm, Receive, Transmit, Apply
-----------------------------------------------------------------------------
(* Types *)

LEMMA PcStep ==
  ASSUME PcOK, NEW c \in Callers, Call(c) \/ Proceed(c)
  PROVE  PcOK'
<1>1. ASSUME NEW from, NEW to \in Locations, Goto(c, from, to) PROVE PcOK'
  BY <1>1 DEF PcOK, Goto
<1> USE DEF Locations, Entries, ReceiveLocations, TransmitLocations,
            ReceiveCalls, TransmitCalls
<1>2. CASE Call(c)
  BY <1>1, <1>2 DEF Call
<1>3. CASE Enter(c)
  BY <1>1, <1>3 DEF Enter, EnterReceive, EnterTransmit
<1>4. CASE WarmTransmit(c)
  BY <1>1, <1>4 DEF WarmTransmit, LeaveReceive
<1>5. CASE WarmRun(c)
  <2>1. Goto(c, "warm.run", "warm.leave")
    BY <1>5, Zenon DEF WarmRun
  <2> QED
    BY <1>1, <2>1
<1>6. CASE WarmLeave(c)
  BY <1>1, <1>6 DEF WarmLeave
<1>7. CASE ReceiveRefuse(c)
  BY <1>1, <1>7 DEF ReceiveRefuse, LeaveReceive
<1>8. CASE ReceiveLeave(c)
  BY <1>1, <1>8 DEF ReceiveLeave, LeaveReceive
<1>9. CASE ReceiveTake(c)
  BY <1>1, <1>9 DEF ReceiveTake
<1>10. CASE ReceiveQualify(c)
  BY <1>1, <1>10 DEF ReceiveQualify
<1>11. CASE TransmitTick(c)
  BY <1>1, <1>11 DEF TransmitTick
<1>12. CASE TransmitRender(c)
  BY <1>1, <1>12 DEF TransmitRender
<1>13. CASE TransmitStore(c)
  BY <1>1, <1>13 DEF TransmitStore
<1>14. CASE ReceiveApply(c)
  BY <1>1, <1>14 DEF ReceiveApply
<1>15. CASE TransmitApply(c)
  BY <1>1, <1>15 DEF TransmitApply
<1>16. CASE TransmitRefuse(c)
  <2>1. Goto(c, "tx.tick", "out")
    BY <1>16, Zenon DEF TransmitRefuse, LeaveTransmit
  <2> QED
    BY <1>1, <2>1
<1>17. CASE TransmitFail(c)
  BY <1>1, <1>17 DEF TransmitFail, LeaveTransmit
<1>18. CASE TransmitLeave(c)
  BY <1>1, <1>18 DEF TransmitLeave, LeaveTransmit
<1>19. CASE ReceiveCandidate(c)
  BY <1>1, <1>19 DEF ReceiveCandidate, LeaveReceive
<1>20. CASE TransmitCandidate(c)
  BY <1>1, <1>20 DEF TransmitCandidate, LeaveTransmit
<1>21. CASE ReceiveRelease(c)
  BY <1>1, <1>21 DEF ReceiveRelease
<1>22. CASE TransmitRelease(c)
  BY <1>1, <1>22 DEF TransmitRelease
<1>30. CASE ReceiveAsk(c)
  BY <1>1, <1>30 DEF ReceiveAsk
<1>31. CASE TransmitAsk(c)
  BY <1>1, <1>31 DEF TransmitAsk
<1> QED
  BY <1>30, <1>31, <1>2, <1>3, <1>4, <1>5, <1>6, <1>7, <1>8, <1>9, <1>10, <1>11, <1>12, <1>13, <1>14, <1>15, <1>16, <1>17, <1>18, <1>19, <1>20, <1>21, <1>22
  DEF Proceed, Warm, Receive, Transmit, Apply

LEMMA FlagsStep ==
  ASSUME FlagsOK, NEW c \in Callers, Call(c) \/ Proceed(c)
  PROVE  FlagsOK'
<1> USE DEF FlagsOK, guards, update, shared
<1>1. CASE Call(c)
  BY <1>1, Zenon DEF Call
<1>2. CASE Enter(c)
  BY <1>2, Zenon DEF Enter, EnterReceive, EnterTransmit
<1>3. CASE WarmTransmit(c)
  BY <1>3, Zenon DEF WarmTransmit, LeaveReceive
<1>4. CASE WarmRun(c)
  BY <1>4, Zenon DEF WarmRun
<1>5. CASE WarmLeave(c)
  BY <1>5, Zenon DEF WarmLeave
<1>6. CASE ReceiveRefuse(c)
  BY <1>6, Zenon DEF ReceiveRefuse, LeaveReceive
<1>7. CASE ReceiveLeave(c)
  BY <1>7, Zenon DEF ReceiveLeave, LeaveReceive
<1>8. CASE ReceiveTake(c)
  BY <1>8, Zenon DEF ReceiveTake
<1>9. CASE ReceiveQualify(c)
  BY <1>9, Zenon DEF ReceiveQualify
<1>10. CASE TransmitTick(c)
  BY <1>10, Zenon DEF TransmitTick
<1>11. CASE TransmitRender(c)
  BY <1>11, Zenon DEF TransmitRender
<1>12. CASE TransmitStore(c)
  BY <1>12, Zenon DEF TransmitStore, StoreBlanking, StorePtt, Words
<1>13. CASE ReceiveApply(c)
  BY <1>13, Zenon DEF ReceiveApply
<1>14. CASE TransmitApply(c)
  BY <1>14, Zenon DEF TransmitApply
<1>15. CASE TransmitRefuse(c)
  BY <1>15, Zenon DEF TransmitRefuse, LeaveTransmit
<1>16. CASE TransmitFail(c)
  BY <1>16, Zenon DEF TransmitFail, LeaveTransmit
<1>17. CASE TransmitLeave(c)
  BY <1>17, Zenon DEF TransmitLeave, LeaveTransmit
<1>18. CASE ReceiveCandidate(c)
  BY <1>18, Zenon DEF ReceiveCandidate, LeaveReceive
<1>19. CASE TransmitCandidate(c)
  BY <1>19, Zenon DEF TransmitCandidate, LeaveTransmit
<1>20. CASE ReceiveRelease(c)
  BY <1>20, Zenon DEF ReceiveRelease
<1>21. CASE TransmitRelease(c)
  BY <1>21, Zenon DEF TransmitRelease
<1>30. CASE ReceiveAsk(c)
  BY <1>30, Zenon DEF ReceiveAsk
<1>31. CASE TransmitAsk(c)
  BY <1>31, Zenon DEF TransmitAsk
<1> QED
  BY <1>30, <1>31, <1>1, <1>2, <1>3, <1>4, <1>5, <1>6, <1>7, <1>8, <1>9, <1>10, <1>11, <1>12, <1>13, <1>14, <1>15, <1>16, <1>17, <1>18, <1>19, <1>20, <1>21
  DEF Proceed, Warm, Receive, Transmit, Apply
\* Only the tick and an update of the transmit owner move the lifecycle.
LEMMA LineMove ==
  ASSUME LineOK, armed \in BOOLEAN, NEW c \in Callers, Call(c) \/ Proceed(c)
  PROVE  LineOK' /\ armed' \in BOOLEAN
<1>1. CASE TransmitTick(c)
  BY <1>1, LineType, Zenon DEF TransmitTick, LineStep
<1>2. CASE TransmitApply(c)
  BY <1>2, LineType, Zenon DEF TransmitApply, LineStep
<1>3. CASE UNCHANGED line
  BY <1>3, Zenon DEF LineOK, line
<1> QED
  BY <1>1, <1>2, <1>3
  DEF Proceed, Warm, Receive, Transmit, Apply,
      Call, Enter, WarmTransmit, WarmRun, WarmLeave, ReceiveRefuse, ReceiveLeave, ReceiveTake, ReceiveQualify, TransmitRender, TransmitStore, ReceiveApply, TransmitRefuse, TransmitFail, TransmitLeave, ReceiveCandidate, TransmitCandidate, ReceiveAsk, TransmitAsk, ReceiveRelease, TransmitRelease

\* Only the swap, the transmit owner's words and an update of the receive
\* owner move the timer.
LEMMA TimerMove ==
  ASSUME TimerOK, NEW c \in Callers, Call(c) \/ Proceed(c)
  PROVE  TimerOK'
<1>1. CASE ReceiveTake(c)
  BY <1>1, SpanType DEF ReceiveTake, TimerOK
<1>2. CASE ReceiveApply(c)
  BY <1>2, SessionAssumption DEF ReceiveApply, Timer!Rest, TimerOK, timer, shared
<1>3. CASE TransmitStore(c)
  BY <1>3 DEF TransmitStore, StoreBlanking, StorePtt, Words, TimerOK, timer
<1>4. CASE UNCHANGED <<shared, timer>>
  BY <1>4 DEF TimerOK, shared, timer
<1> QED
  BY <1>1, <1>2, <1>3, <1>4
  DEF Proceed, Warm, Receive, Transmit, Apply,
      Call, Enter, WarmTransmit, WarmRun, WarmLeave, ReceiveRefuse, ReceiveLeave, ReceiveQualify, TransmitTick, TransmitRender, TransmitApply, TransmitRefuse, TransmitFail, TransmitLeave, ReceiveCandidate, TransmitCandidate, ReceiveAsk, TransmitAsk, ReceiveRelease, TransmitRelease

LEMMA HistoryMove ==
  ASSUME due \in {"none", "released", "stored", "published"},
         installs \in [receive : Nat, transmit : Nat],
         NEW c \in Callers, Call(c) \/ Proceed(c)
  PROVE  /\ due' \in {"none", "released", "stored", "published"}
         /\ installs' \in [receive : Nat, transmit : Nat]
<1>1. CASE ReceiveTake(c)
  BY <1>1 DEF ReceiveTake, update
<1>2. CASE TransmitTick(c)
  BY <1>2 DEF TransmitTick, update
<1>3. CASE TransmitFail(c)
  BY <1>3 DEF TransmitFail, update
<1>4. CASE TransmitStore(c)
  BY <1>4 DEF TransmitStore, StoreBlanking, StorePtt, Words, update
<1>5. CASE ReceiveApply(c)
  BY <1>5 DEF ReceiveApply, update
<1>6. CASE TransmitApply(c)
  BY <1>6 DEF TransmitApply, update
<1>7. CASE UNCHANGED <<due, update>>
  BY <1>7 DEF update
<1> QED
  BY <1>1, <1>2, <1>3, <1>4, <1>5, <1>6, <1>7
  DEF Proceed, Warm, Receive, Transmit, Apply,
      Call, Enter, WarmTransmit, WarmRun, WarmLeave, ReceiveRefuse, ReceiveLeave, ReceiveQualify, TransmitRender, TransmitRefuse, TransmitLeave, ReceiveCandidate, TransmitCandidate, ReceiveAsk, TransmitAsk, ReceiveRelease, TransmitRelease

LEMMA TypeStep ==
  ASSUME TypeOK, NEW c \in Callers, Call(c) \/ Proceed(c)
  PROVE  TypeOK'
BY PcStep, FlagsStep, LineMove, TimerMove, HistoryMove DEF TypeOK, PcOK
-----------------------------------------------------------------------------
(* Theorems *)

IInv == TypeOK /\ GuardInv /\ WarmInv /\ InstallInv /\ ReleaseInv

LEMMA InitInductive == Init => IInv
<1> SUFFICES ASSUME Init PROVE IInv
  OBVIOUS
<1>1. WarmInv
  BY DEF Init, WarmInv, Asked, WarmedBeforeAudio, ReceiveCalls, TransmitCalls
<1>2. InstallInv
  BY DEF Init, InstallInv, InstalledOnce, Pending
<1>3. ReleaseInv
  BY DEF Init, ReleaseInv
<1> QED
  BY <1>1, <1>2, <1>3, TypeInit, GuardInit DEF IInv

LEMMA StepInductive == IInv /\ [Next]_vars => IInv'
<1> SUFFICES ASSUME IInv, [Next]_vars PROVE IInv'
  OBVIOUS
<1>1. ASSUME NEW c \in Callers, Call(c) \/ Proceed(c) PROVE IInv'
  BY <1>1, TypeStep, GuardStep, WarmStep, InstallStep, ReleaseStep
  DEF IInv, TypeOK, PcOK
<1>2. ASSUME UNCHANGED vars PROVE IInv'
  <2>1. TypeOK'
    <3>1. FlagsOK' /\ armed' \in BOOLEAN
      BY <1>2, Zenon DEF IInv, TypeOK, FlagsOK, vars, guards, update, shared, line
    <3>2. LineOK' /\ TimerOK'
      BY <1>2 DEF IInv, TypeOK, LineOK, TimerOK, vars, shared, line, timer
    <3>3. UNCHANGED <<pc, due, installs>>
      BY <1>2 DEF vars, update
    <3> QED
      BY <3>1, <3>2, <3>3 DEF IInv, TypeOK
  <2>2. GuardInv' /\ WarmInv'
    BY <1>2 DEF IInv, GuardInv, WarmInv, Held, Exclusive, Asked,
                WarmedBeforeAudio, vars, guards
  <2>3. InstallInv' /\ ReleaseInv'
    BY <1>2 DEF IInv, InstallInv, InstalledOnce, Pending, ReleaseInv, vars,
                update, shared, line
  <2> QED
    BY <2>1, <2>2, <2>3 DEF IInv
<1> QED
  BY <1>1, <1>2 DEF Next

\* All the parts of the inductive invariant hold of every behaviour.
LEMMA Inductive == Spec => []IInv
<1>1. Init => IInv
  BY InitInductive
<1>2. IInv /\ [Next]_vars => IInv'
  BY StepInductive
<1> QED
  BY <1>1, <1>2, PTL DEF Spec

\* The state a session keeps stays within its types.
THEOREM SessionTypes == Spec => []TypeOK
<1>1. IInv => TypeOK
  BY DEF IInv
<1> QED
  BY <1>1, Inductive, PTL

\* No two calls are inside one owner at once, for any number of threads.
THEOREM OwnersExclusive == Spec => []Exclusive
<1>1. IInv => Exclusive
  BY DEF IInv, GuardInv
<1> QED
  BY <1>1, Inductive, PTL

\* A guard that is set is a call's: whatever path it takes, refused by the second
\* guard or failing in the middle, a call leaves none behind.
THEOREM NoGuardIsLeft == Spec => []GuardsHaveOwners
<1>1. Init => GuardsHaveOwners
  BY DEF Init, GuardsHaveOwners
<1>2. IInv /\ GuardsHaveOwners /\ [Next]_vars => GuardsHaveOwners'
  <2>1. SUFFICES ASSUME IInv, GuardsHaveOwners, [Next]_vars PROVE GuardsHaveOwners'
    OBVIOUS
  <2>2. CASE Next
    <3>1. PICK c \in Callers : Call(c) \/ Proceed(c)
      BY <2>2 DEF Next
    <3> QED
      BY <2>1, <3>1, OwnersStep DEF IInv, TypeOK, PcOK
  <2>3. CASE UNCHANGED vars
    BY <2>1, <2>3 DEF GuardsHaveOwners, vars, guards
  <2> QED
    BY <2>1, <2>2, <2>3
<1> QED
  BY <1>1, <1>2, Inductive, PTL DEF Spec

\* No callback runs before every processor has been warmed.
THEOREM CallbacksWarmed == Spec => []WarmedBeforeAudio
<1>1. IInv => WarmedBeforeAudio
  BY DEF IInv, WarmInv
<1> QED
  BY <1>1, Inductive, PTL

\* Neither half of an update is installed twice.
THEOREM HalvesInstalledOnce == Spec => []InstalledOnce
<1>1. IInv => InstalledOnce
  BY DEF IInv, InstallInv
<1> QED
  BY <1>1, Inductive, PTL

\* The first receive callback after a published release is muted.
THEOREM ReleaseBlanked == Spec => BlankedAfterRelease
<1> DEFINE Began == \E c \in Callers : Goto(c, "rx.take", "rx.qualify")
<1>1. IInv /\ [Next]_vars => [due = "published" /\ Began => spent' > 0]_vars
  <2> SUFFICES ASSUME IInv, Next, due = "published",
                      NEW c \in Callers, Goto(c, "rx.take", "rx.qualify")
               PROVE  spent' > 0
    BY Zenon
  <2>1. PICK d \in Callers : Call(d) \/ Proceed(d)
    BY DEF Next
  <2>2. ReceiveTake(c)
    BY <2>1, OnlyTakes DEF IInv, TypeOK, PcOK
  <2> QED
    BY <2>2, TakenMutes DEF ReceiveTake, IInv, TypeOK, ReleaseInv
<1> QED
  BY <1>1, Inductive, PTL DEF Spec, BlankedAfterRelease
=============================================================================
