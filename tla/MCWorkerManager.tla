-------------------------- MODULE MCWorkerManager --------------------------
(***************************************************************************)
(* Three tasks, two of them with one id and one priority, on two worker    *)
(* threads and a pool of a local and an API provider.                      *)
(***************************************************************************)
EXTENDS WorkerManager

MCTask == 1..3
\* not in the order of priority, and 1 and 2 were given the same id
MCTaskId == [t \in MCTask |-> IF t = 1 THEN 8 ELSE 10 - t]
MCTaskPriority == [t \in MCTask |-> IF t <= 2 THEN 0 ELSE 1]

MCClient == MCTask \cup Outsider

MCProvider == {"local", "api"}
MCOne == [p \in MCProvider |-> 1]
MCPriority == [p \in MCProvider |-> IF p = "api" THEN 1 ELSE 0]
=============================================================================
