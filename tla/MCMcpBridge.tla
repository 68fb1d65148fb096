---------------------------- MODULE MCMcpBridge ----------------------------
(* McpBridge for TLC: two executions of one thread with different network  *)
(* configurations, one of another thread.                                  *)
EXTENDS McpBridge, TLC

CONSTANTS e1, e2, e3, t1, t2, k1, k2

Thread == (e1 :> t1) @@ (e2 :> t1) @@ (e3 :> t2)
Network == (e1 :> k1) @@ (e2 :> k2) @@ (e3 :> k1)
============================================================================
