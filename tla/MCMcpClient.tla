------------------------------ MODULE MCMcpClient ------------------------------
(* One MCP server and two callers for TLC. *)
EXTENDS McpClient

================================================================================
