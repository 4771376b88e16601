---------------------------- MODULE MCRlmCapacity ----------------------------
(* Two workers of one family, each with one reservation: a child's, or for the *)
(* second worker perhaps that of its own main root.                            *)
EXTENDS RlmCapacity

CONSTANTS w1, w2, a1, b1

MCOwnerOf == [r \in Slots |-> IF r = a1 THEN w1 ELSE w2]
================================================================================
