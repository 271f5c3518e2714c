---------------------------- MODULE MCProtection ----------------------------
(* Model checking module Protection: one user of each editor. *)
EXTENDS Protection, TLC

CONSTANTS cli, mcp, web

MCKind == cli :> "cli" @@ mcp :> "mcp" @@ web :> "web"
=============================================================================
