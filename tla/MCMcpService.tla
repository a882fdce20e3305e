---------------------------- MODULE MCMcpService -----------------------------
(* A small instance of McpService: two calls of the tool that may overlap.  *)
EXTENDS McpService

CONSTANTS c1, c2
=============================================================================
