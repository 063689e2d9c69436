---------------------------- MODULE MCModelPool ----------------------------
(***************************************************************************)
(* A pool of a free local provider with two units, an API provider of the  *)
(* same price class and a dearer one, used by four threads.                *)
(***************************************************************************)
EXTENDS ModelPool

MCProvider == {"local", "spare", "api"}
MCMaxConcurrent == [p \in MCProvider |-> IF p = "local" THEN 2 ELSE 1]
MCPriority == [p \in MCProvider |-> IF p = "api" THEN 1 ELSE 0]
=============================================================================
