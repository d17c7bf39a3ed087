-------------------------- MODULE MCJobOrchestrator --------------------------
(* Instances of JobOrchestrator.  The jobs b1, b2 and b3 have a priority below *)
(* the threshold and go to the batch manager when there is one, q1 and q2 do   *)
(* not; q2 is the more urgent.                                                 *)
EXTENDS JobOrchestrator

CONSTANTS b1, b2, b3, q1, q2

MCPriority == [j \in Jobs |-> CASE j \in {b1, b2, b3} -> -1
                                 [] j = q1 -> 0
                                 [] OTHER -> 1]
\* b2 fills the memory limit by itself.
MCMemory == [j \in Jobs |-> IF j = b2 THEN 2 ELSE 1]
==============================================================================
