---------------------------- MODULE ReceiveChain ----------------------------
(***************************************************************************)
(* The processors an adapter lends to the receiver of ReceivePath: warmed  *)
(* before the first callback, run one after the other over every span it   *)
(* delivers, the noise reduction bypassed while the CPU saver has nothing  *)
(* to clean, and replaced by an update.                                    *)
(*                                                                         *)
(* A processor keeps a stream of its own.  What it is asked here is only   *)
(* which of the session's frames it was given.                             *)
(***************************************************************************)
EXTENDS ReceivePath

CONSTANTS PortSets  \* the processors adapters may lend: name -> operations

VARIABLES
  ports,   \* the processors in use
  warmed,  \* warm has succeeded
  ready,   \* processors that were warmed, here or by their owner
  behind,  \* processor -> frames delivered that it was not given
  broken   \* a provider has failed: the streams have come apart

chain == <<cfg, path, twin, last, ports, warmed, ready, behind, broken>>

\* ProcessorPort: what it may offer; without `process' it copies.
Operations == {"warm", "process", "bypass"}
\* SessionPorts, its receive half.  One notch stands for that of the decoded tone.
Serial == <<"deemphasis", "filter", "noise reduction", "dynamics">>
Notches == <<"notch", "tail notch">>
Names == {Serial[i] : i \in DOMAIN Serial} \cup {Notches[i] : i \in DOMAIN Notches}
ASSUME ChainAssumption == PortSets \subseteq [Names -> SUBSET Operations]

Has(name, operation) == operation \in ports[name]
Even == [n \in Names |-> 0]

ChainInit ==
  /\ Init /\ ports \in PortSets
  /\ warmed = FALSE /\ ready = {} /\ behind = Even /\ broken = FALSE
----------------------------------------------------------------------------
\* Mutant: the notches are not warmed.
WarmOrderSerial == Serial
\* warm: the serial processors, then the notches that are there.
Present(name) == IF Has(name, "process") THEN <<name>> ELSE <<>>
WarmOrder == Serial \o Present(Notches[1]) \o Present(Notches[2])

\* warm_port, then run_processor over silence: either may fail.
CanFailWarm(name) == ports[name] \cap {"warm", "process"} # {}

\* warm; of the transmit processors and the ring it is only known that they fail.
Warm ==
  /\ ~warmed
  /\ \/ /\ \E k \in DOMAIN WarmOrder :
             /\ CanFailWarm(WarmOrder[k])
             /\ ready' = ready \cup {WarmOrder[i] : i \in 1 .. k - 1}
        /\ UNCHANGED warmed
     \/ ready' = ready \cup {WarmOrder[i] : i \in DOMAIN WarmOrder} /\ warmed' \in BOOLEAN
  /\ UNCHANGED <<cfg, path, twin, last, ports, behind, broken>>
----------------------------------------------------------------------------
Processed(name) == [port |-> name, by |-> "process"]
Bypassed(name) == [port |-> name, by |-> "bypass"]

\* run_receive_filters: the tail notch goes before the notch of the tone, and
\* one that is not there is not replaced by the other.
Chosen(tail, decoded) == IF tail THEN "tail notch" ELSE IF decoded THEN "notch" ELSE "none"
NotchOf(tail, decoded) ==
  IF Chosen(tail, decoded) # "none" /\ Has(Chosen(tail, decoded), "process")
    THEN <<Processed(Chosen(tail, decoded))>> ELSE <<>>

\* run_optional_processor: a processor that is not there is bypassed.
Optional(name) == IF Has(name, "process") THEN Processed(name) ELSE Bypassed(name)

\* Mutant: a sleeping receiver skips the noise reduction.
CleaningSkipped(saver, keyed) ==
  IF saver /\ ~keyed THEN <<>> ELSE <<Optional("noise reduction"), Processed("dynamics")>>
\* Noise reduction and dynamics, unless the saver has nothing to clean.
Cleaning(saver, keyed) ==
  IF saver /\ ~keyed THEN <<Bypassed("noise reduction")>>
  ELSE <<Optional("noise reduction"), Processed("dynamics")>>

\* What receive_inner runs over a span, in its order.
Calls(keyed, tail) ==
  <<Processed("deemphasis"), Processed("filter")>>
    \o NotchOf(tail, path'.ctcss.decoded) \o Cleaning(cfg.saver, keyed)

\* run_processor and bypass_port: one that does not offer the call cannot fail.
CanFail(call) == Has(call.port, call.by)

\* The processors that can be given every frame: those every callback runs, and
\* the noise reduction if it can be bypassed.
Followed ==
  {n \in {"deemphasis", "filter"} : Has(n, "process")}
    \cup {n \in {"noise reduction"} : Has(n, "bypass")}
Given(calls) == {calls[i].port : i \in {i \in DOMAIN calls : CanFail(calls[i])}}

\* The processors over a span the detector has taken, to the end or to the first
\* that fails (receive_provider_failure).
Processors(calls) ==
  \/ /\ behind' = [n \in Names |->
          IF n \in Followed \ Given(calls) /\ ~broken THEN behind[n] + last'.frames ELSE behind[n]]
     /\ UNCHANGED broken
  \/ /\ \E k \in DOMAIN calls : CanFail(calls[k])
     /\ broken' = TRUE /\ UNCHANGED behind

NotReady ==
  /\ ~warmed
  /\ last' = [Nothing EXCEPT !.status = "not ready"]
  /\ UNCHANGED <<cfg, path, twin, behind, broken>>
\* Whether the receiver is keyed is Reception's decision.
Serve ==
  IF last'.status # "ok" THEN UNCHANGED <<behind, broken>>
  ELSE \E keyed \in BOOLEAN, tail \in {FALSE, cfg.ctcss} : Processors(Calls(keyed, tail))
ChainCallback(in) ==
  /\ UNCHANGED <<ports, warmed, ready>>
  /\ \/ NotReady
     \/ warmed /\ Callback(in) /\ Serve

\* apply_receive_update takes the processors the update was prepared with.  New
\* ones come warmed from their owner.
ChainUpdate(c) ==
  /\ Update(c) /\ ports' \in PortSets
  /\ IF ports' = ports THEN UNCHANGED <<ready, behind, broken>>
     ELSE ready' = Names /\ behind' = Even /\ broken' = FALSE
  /\ UNCHANGED warmed

ChainNext ==
  \/ Warm
  \/ \E in \in Inputs : ChainCallback(in)
  \/ \E c \in Configs : ChainUpdate(c)

ChainSpec == ChainInit /\ [][ChainNext]_chain
----------------------------------------------------------------------------
\* The CPU saver loses nothing but work.  A receiver that listens for a tone or a
\* code is not put to sleep, through every update; a processor that can be given
\* every frame is given every frame, asleep or not, so that it is where the
\* session is when it is needed again, until a provider fails; and none is given
\* audio before it was warmed, also where warming failed half way and was tried
\* again.
SleepLosesNothing ==
  /\ cfg.ctcss \/ cfg.dcs => path.active
  /\ ~broken => behind = Even
  /\ warmed => {n \in Names : Has(n, "process")} \subseteq ready
=============================================================================
