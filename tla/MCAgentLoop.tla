----------------------------- MODULE MCAgentLoop -----------------------------
(***************************************************************************)
(* AgentLoop for TLC.                                                      *)
(***************************************************************************)
EXTENDS AgentLoop
=============================================================================
