---------------------------- MODULE MCApiServer ----------------------------
(* TLC instance of ApiServer: the MCP and the API listener.                 *)
EXTENDS ApiServer

MCServers == <<"mcp", "api">>
============================================================================
