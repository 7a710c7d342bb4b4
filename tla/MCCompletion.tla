----------------------------- MODULE MCCompletion -----------------------------
(* Instances for TLC of what a completion of ai-core depends on: the       *)
(* provider's credentials and the session of an MCP server.  The two share *)
(* no variable, so they are checked side by side: part, chosen in the      *)
(* initial state, says which of them moves.                                *)
EXTENDS MCCredentialCache, McpSessions

Symmetry == Permutations(Conn)

VARIABLE part

CompletionInit == part \in {"credentials", "mcp"} /\ Init /\ McpInit

CompletionNext ==
  /\ UNCHANGED part
  /\ \/ part = "credentials" /\ Next /\ UNCHANGED mcpVars
     \/ part = "mcp" /\ McpNext /\ UNCHANGED vars

CompletionSpec == CompletionInit /\ [][CompletionNext]_<<vars, mcpVars, part>>

\* The type invariants of the parts.
TypesOK == TypeOK /\ McpTypeOK
=============================================================================
