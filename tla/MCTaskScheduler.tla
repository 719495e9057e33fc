---------------------------- MODULE MCTaskScheduler ----------------------------
(* The instances of TaskScheduler that TLC checks.                             *)
EXTENDS TaskScheduler

MCPriority == [t \in Tasks |-> IF t = "urgent" THEN 1 ELSE 0]
===============================================================================
