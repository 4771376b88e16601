--------------------------- MODULE MCMutationGate ---------------------------
(***************************************************************************)
(* MutationGate for TLC: every kind of command, three evictors so that two *)
(* can wait for the fence of one.                                          *)
(***************************************************************************)
EXTENDS MutationGate
=============================================================================
