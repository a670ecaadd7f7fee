-------------------------- MODULE MCConfiguration --------------------------
(* Two sessions; the one that is not agent-shared asked for two packages   *)
(* and an MCP server.                                                      *)
EXTENDS Configuration

CONSTANTS main, other, codex, deepseek, p1, p2, v
McSessionOf == [q \in Installs \union Servers |-> other]
=============================================================================
