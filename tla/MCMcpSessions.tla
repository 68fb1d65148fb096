--------------------------- MODULE MCMcpSessions ---------------------------
(* McpSessions for TLC: requests and keys are interchangeable. *)
EXTENDS McpSessions, TLC

Symmetry == Permutations(Callers) \cup Permutations(Keys)
============================================================================
