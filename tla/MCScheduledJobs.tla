---------------------------- MODULE MCScheduledJobs ----------------------------
(* A root with a one-shot job and one child with a heartbeat.                  *)
EXTENDS ScheduledJobs

CONSTANTS root, child, beat, shot

MCSessionOf == [j \in Jobs |-> IF j = beat THEN child ELSE root]
================================================================================
