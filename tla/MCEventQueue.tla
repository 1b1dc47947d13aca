---------------------------- MODULE MCEventQueue ----------------------------
(***************************************************************************)
(* Three slots and indices that wrap after six events, so that every slot  *)
(* is reached with every wrap of either index between load and use.        *)
(***************************************************************************)
EXTENDS EventQueue, TLC

CONSTANTS a, b

MCEvents == {a, b}
=============================================================================
