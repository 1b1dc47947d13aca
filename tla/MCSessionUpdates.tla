-------------------------- MODULE MCSessionUpdates --------------------------
(***************************************************************************)
(* Offers that differ from a plain one in what an update can change, one   *)
(* for every way an offer is refused, and two profiles with a pair of      *)
(* offers each.                                                            *)
(***************************************************************************)
EXTENDS SessionUpdates, TLC

Base ==
  [unfit |-> "none", frames |-> [rx |-> 2, tx |-> 2], noise |-> 0,
   rxCtcss |-> 0, mask |-> "none", relax |-> 0, rxDcs |-> 0, rxCode |-> 1,
   carrier |-> 3, tone |-> 0, override |-> 0, levels |-> 1, delay |-> 0,
   vad |-> 0, hang |-> 1, external |-> 0, txCtcss |-> 0, frequency |-> FALSE,
   txDcs |-> 0, txCode |-> 1, mode |-> 0, routeA |-> 1, routeB |-> 0]

\* f @@ g keeps f where both are defined.
Plain(changes) == [config |-> changes @@ Base, profile |-> Nothing, ring |-> FALSE]
Of(p, changes) == [config |-> changes @@ Base, profile |-> p, ring |-> FALSE]

Accepted == {
  Plain([levels |-> 2]),
  Plain([rxDcs |-> 1, txDcs |-> 1, routeB |-> 2]),
  Plain([rxDcs |-> 1, rxCode |-> 2, txCode |-> 2]),
  Plain([vad |-> 1, carrier |-> 0, levels |-> 2]),
  Plain([vad |-> 2, delay |-> 1, external |-> 0]),
  Plain([delay |-> 3, txCtcss |-> 1, frequency |-> TRUE]),
  Plain([frames |-> [rx |-> 3, tx |-> 2]])}

Refused == {Plain(c) : c \in
  {[unfit |-> u] : u \in {"entry", "rate", "receive", "qualification", "transmit", "signaling"}}
  \cup {[rxCtcss |-> 1, rxDcs |-> 1], [txCtcss |-> 1, txDcs |-> 1], [rxDcs |-> 1, rxCode |-> 3],
        [external |-> 1, delay |-> 1], [vad |-> 1, frames |-> [rx |-> 9, tx |-> 2]],
        [carrier |-> 9], [mask |-> "invalid"], [mode |-> 4]}}

ToneAudio == [carrier |-> 1, encode |-> 1, decode |-> 1, has |-> {"audio"}]
Hardware == [carrier |-> 0, encode |-> 2, decode |-> 2, has |-> {"cor", "decode", "encode"}]
Dspolicy == [rxCtcss |-> 1, txCtcss |-> 1, frequency |-> TRUE, mask |-> "narrow", routeB |-> 2]
ProfileOffers == {
  Of(ToneAudio, Dspolicy), Of(ToneAudio, [mask |-> "wide", vad |-> 1] @@ Dspolicy),
  Of(ToneAudio, [routeB |-> 0] @@ Dspolicy), Of([ToneAudio EXCEPT !.has = {}], Dspolicy),
  Of(Hardware, [mode |-> 2]), Of(Hardware, [vad |-> 2, mode |-> 2]), Of(Hardware, [mode |-> 3]),
  Of([Hardware EXCEPT !.carrier = 2], [mode |-> 2])}

\* A session may have a program ring, an update may not.
MCOffers == Accepted \cup Refused \cup ProfileOffers \cup
  {[Plain([levels |-> 2]) EXCEPT !.ring = TRUE]}

Fine == [ctcss |-> Descriptor(CtcssTable), dcs |-> Descriptor(DcsTable),
         squelch |-> Descriptor(SquelchTable), converter |-> Descriptor(ConverterTable)]
\* One library of another version, one too short, some without an operation.
MCDescriptors == {
  Fine, [Fine EXCEPT !.dcs.abi = 2], [Fine EXCEPT !.squelch.complete = FALSE],
  [Fine EXCEPT !.ctcss.operations = @ \ {"tx_generate"}],
  [Fine EXCEPT !.dcs.operations = @ \ {"code_supported"}],
  [Fine EXCEPT !.converter.operations = @ \ {"input_delay"}],
  [Fine EXCEPT !.converter.operations = @ \ {"output_delay"}]}
=============================================================================
