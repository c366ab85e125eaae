------------------------------- MODULE MCP2pd -------------------------------
(***************************************************************************)
(* P2pd with two polls in the startup and two requests to set up.          *)
(***************************************************************************)
EXTENDS P2pd

=============================================================================
