-------------------------- MODULE MCTransmitOutput --------------------------
(***************************************************************************)
(* A policy with two decodable tones, one with DCS and one of a profile    *)
(* with an external encoder; a composite output and one for tones only.    *)
(***************************************************************************)
EXTENDS TransmitOutput, MCTransmitSignaling

TonePolicies == {Full, Dcs, External}

\* Callbacks of one length, that cuts the tails and drains of these policies in
\* the middle; the receiver hears a tone or DCS, or a tone is forced.
OutputInputs == ForcedInputs \cup
  {in \in Callbacks({8}, MCTones \cup {NoTone}, BOOLEAN, BOOLEAN, {0}) :
     /\ in.physical /\ (in.dcsValid => in.decoded = NoTone) /\ (~in.admitted => ~in.inhibit)}
=============================================================================
