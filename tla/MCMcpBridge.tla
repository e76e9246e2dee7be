--------------------------- MODULE MCMcpBridge ----------------------------
(* A small instance of McpBridge: two bridges, each a writer or a reader. *)
EXTENDS McpBridge

CONSTANTS b1, b2

MCBridges == {b1, b2}
=============================================================================
