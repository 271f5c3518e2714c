---------------------------- MODULE MCMcpServer ----------------------------
(* Model checking module McpServer: one credential of each scope. *)
EXTENDS McpServer

CONSTANTS account, agent

MCScope == account :> "account" @@ agent :> "agent"

Symmetric == Permutations(Slots)
=============================================================================
