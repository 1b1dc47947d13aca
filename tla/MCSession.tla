------------------------------ MODULE MCSession ------------------------------
(***************************************************************************)
(* Two threads that call whatever they like: enough for each owner's       *)
(* callback to meet the other's, a second caller, warming or an update.    *)
(***************************************************************************)
EXTENDS Session

SomeCounts == {1, 2}
SomeTails == {0, 2}
SomeChanges == {-1, 0}
=============================================================================
