---------------------------- MODULE MCWorkerPool ----------------------------
(* Instance of WorkerPool: a request that may time out submits two jobs       *)
(* through SubmitWithContext, a second one without a context submits one job   *)
(* through Submit; each request has one slot.                                 *)
EXTENDS WorkerPool

CONSTANTS r1, r2, j1, j2, j3

MCReqOf == [j \in Jobs |-> IF j = j3 THEN r2 ELSE r1]
MCPriority == [j \in Jobs |-> 50]
=============================================================================
