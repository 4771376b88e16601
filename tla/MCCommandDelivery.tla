------------------------- MODULE MCCommandDelivery --------------------------
(***************************************************************************)
(* CommandDelivery for TLC.                                                *)
(***************************************************************************)
EXTENDS CommandDelivery, TLC

Symmetry == Permutations(Key) \union Permutations(Response)
=============================================================================
