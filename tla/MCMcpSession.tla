---------------------------- MODULE MCMcpSession ----------------------------
(* Four messages of any kinds in either transport: one in a tool call, one *)
(* that arrives meanwhile, a broken frame and one behind it.  Room for two *)
(* drains at once, which the code never takes.                             *)
EXTENDS McpSession

MCDrain == {1, 2}
=============================================================================
