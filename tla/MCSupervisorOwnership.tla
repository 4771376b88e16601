------------------------ MODULE MCSupervisorOwnership ------------------------
(* Daemons of one socket and processes that stop them, each kind              *)
(* interchangeable.                                                           *)
EXTENDS SupervisorOwnership, TLC

Symmetry == Permutations(Supervisors) \cup Permutations(Stoppers)
================================================================================
