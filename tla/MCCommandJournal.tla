-------------------------- MODULE MCCommandJournal --------------------------
(***************************************************************************)
(* CommandJournal for TLC: two keys and two responses, interchangeable,    *)
(* and compaction after a handful of records, so that every write can be   *)
(* the one that compacts.                                                  *)
(***************************************************************************)
EXTENDS CommandJournal, TLC

Symmetry == Permutations(Key) \union Permutations(Response)
=============================================================================
