------------------------------ MODULE Providers ------------------------------
(***************************************************************************)
(* The clients of the released signal libraries: the table of operations   *)
(* each library publishes, what a client checks before it creates a handle *)
(* from it, and the create calls.                                          *)
(*                                                                         *)
(* A descriptor is [abi, complete, operations]: `complete' says that there *)
(* is one, long enough for the client's record and named for the           *)
(* capability.                                                             *)
(***************************************************************************)
EXTENDS Integers

CONSTANT Tokens   \* names that tell apart the handles of one client

VARIABLES
  library,   \* the descriptors of the linked libraries
  open       \* handles that were created and not destroyed

\* The records the libraries are linked with.
CtcssTable == [abi |-> 2, operations |->
  {"rx_create", "rx_destroy", "rx_configure", "rx_enabled", "rx_decoded",
   "rx_tail_tone_active", "rx_clear_tail_on_carrier_loss", "rx_process",
   "tx_create", "tx_destroy", "legacy_frequency", "tx_generate"}]
DcsTable == [abi |-> 1, operations |->
  {"code_supported", "configured_code", "receive_create", "receive_destroy",
   "receive_configure", "receive_valid", "receive_enabled", "receive_process",
   "transmit_create", "transmit_destroy", "transmit_configure",
   "transmit_update_config_from", "transmit_generate"}]
SquelchTable == [abi |-> 2, operations |->
  {"create", "destroy", "noise_update", "vox_advance", "vox_finish"}]
ConverterTable == [abi |-> 2, operations |->
  {"create", "reset", "process", "destroy", "queued_input", "output_delay", "input_delay"}]

Descriptor(table) == [abi |-> table.abi, complete |-> TRUE, operations |-> table.operations]

\* What from_descriptor and descriptor() ask for.  The two sides of CTCSS and
\* of DCS each want the whole table; the converter does without two of its
\* operations.
Fits(d, table, wanted) == d.abi = table.abi /\ d.complete /\ wanted \subseteq d.operations
CtcssUsable == Fits(library.ctcss, CtcssTable, CtcssTable.operations)
DcsUsable == Fits(library.dcs, DcsTable, DcsTable.operations)
SquelchUsable == Fits(library.squelch, SquelchTable, SquelchTable.operations)
ConverterUsable == Fits(library.converter, ConverterTable,
                        ConverterTable.operations \ {"queued_input", "output_delay"})

\* A handle is the client that holds it and a token, the first that is free.
Fresh(client) ==
  {<<client, t>> : t \in {t \in Tokens : <<client, t>> \notin open
                                          /\ \A s \in Tokens : <<client, s>> \notin open => t <= s}}

\* A client's new: an unusable library is refused before its create is called;
\* create may answer an error, or success with no handle in it.
New(usable, client, Refuse(_), Keep(_)) ==
  IF ~usable THEN Refuse("unsupported")
  ELSE \/ Refuse("provider failed")
       \/ \E h \in Fresh(client) : open' = open \cup {h} /\ Keep(h)

CtcssReceive(Refuse(_), Keep(_)) == New(CtcssUsable, "ctcss.rx", Refuse, Keep)
CtcssTransmit(Refuse(_), Keep(_)) == New(CtcssUsable, "ctcss.tx", Refuse, Keep)
DcsReceive(Refuse(_), Keep(_)) == New(DcsUsable, "dcs.rx", Refuse, Keep)
DcsTransmit(Refuse(_), Keep(_)) == New(DcsUsable, "dcs.tx", Refuse, Keep)
Squelch(Refuse(_), Keep(_)) == New(SquelchUsable, "squelch", Refuse, Keep)
Converter(Refuse(_), Keep(_)) == New(ConverterUsable, "converter", Refuse, Keep)

\* Dropping clients destroys their handles.
Dropped(handles) == open' = open \ handles
=============================================================================
