----------------------------- MODULE MCJobQueue -----------------------------
(***************************************************************************)
(* Instances of JobQueue for TLC: a discovery job of priority 10 and       *)
(* ingest jobs of priority 5, as the pipeline enqueues them.               *)
(***************************************************************************)
EXTENDS JobQueue

MCPriority == [j \in Jobs |-> IF j \in Discovery THEN 10 ELSE 5]
\* The second job is on its only attempt, the others have two.
MCMaxAttempts == [j \in Jobs |-> IF j = 2 THEN 1 ELSE 2]
=============================================================================
