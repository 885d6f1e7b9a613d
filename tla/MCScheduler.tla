----------------------------- MODULE MCScheduler -----------------------------
(* Instances of Scheduler.  Slots are reused, so a later slot may hold an     *)
(* earlier pid.                                                               *)
EXTENDS Scheduler

MCPid2 == <<7, 4>>
MCPid3 == <<7, 4, 5>>
=============================================================================
