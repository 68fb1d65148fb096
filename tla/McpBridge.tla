----------------------------- MODULE McpBridge -----------------------------
(***************************************************************************)
(* What executions share at class level (sandbox_executor.py): one MCP     *)
(* bridge and one worker pool for each network configuration, both started *)
(* by the first execution that needs them, under double-checked locks; and *)
(* the requests code sends to the bridge (mcp_bridge_server.py).           *)
(*                                                                         *)
(* An execution starts at most one bridge, so a bridge, and the port it    *)
(* listens on, is named by the execution that started it.                  *)
(***************************************************************************)
EXTENDS FiniteSets

CONSTANTS Threads, Execs, None,
          ThreadOf,    \* the thread of each execution
          KeyOf,       \* its network configuration
          Servers,     \* names of MCP servers
          PoolKeys,    \* network configurations
          OpenKeys,    \* those with allow_net = True
          Packages     \* wheels of the package cache

ASSUME BridgeAssumption ==
  /\ None \notin Execs
  /\ ThreadOf \in [Execs -> Threads]
  /\ KeyOf \in [Execs -> PoolKeys]
  /\ OpenKeys \subseteq PoolKeys

VARIABLES
  table,      \* sandbox_mcp_servers: the names each thread has bound
  kept,       \* _mcp_bridge
  serving,    \* bridges whose server accepts requests
  cache,      \* _servers_cache and the schemas loaded with it
  bridgeLock, poolLock,
  pools,      \* _pools: whether there is one, the port its workers may reach
  exec,       \* where each execution is
  outcome,    \* the answer to the last request
  wheels      \* sandbox_package_cache

vars == <<table, kept, serving, cache, bridgeLock, poolLock, pools, exec, outcome, wheels>>
shared == <<kept, serving, cache, bridgeLock, poolLock, pools>>

NoPool == [up |-> FALSE, port |-> None]

Init ==
  /\ table = [t \in Threads |-> {}]
  /\ kept = None
  /\ serving = {}
  /\ cache = [e \in Execs |-> {}]
  /\ bridgeLock = None /\ poolLock = None
  /\ pools = [k \in PoolKeys |-> NoPool]
  /\ exec \in [Execs -> [pc : {"new"}, stateful : BOOLEAN, port : {None}, known : {{}}]]
  /\ outcome = "none"
  /\ wheels = {}

At(e, pc) == exec[e].pc = pc
GoTo(e, pc) == exec' = [exec EXCEPT ![e].pc = pc]
\* An execution that is over leaves none of its variables.
Leave(e, pc) == exec' = [exec EXCEPT ![e] = [pc |-> pc, stateful |-> FALSE, port |-> None, known |-> {}]]
WithPort(e, port) == exec' = [exec EXCEPT ![e].pc = "pool", ![e].port = port]

----------------------------------------------------------------------------
(* _ensure_mcp_bridge *)

\* The quota check is over; the first look at _mcp_bridge is without the lock.
Enter(e) ==
  /\ At(e, "new")
  /\ IF kept # None THEN WithPort(e, kept) ELSE GoTo(e, "want bridge")
  /\ UNCHANGED <<shared, table, outcome, wheels>>

\* Bug: no second look under the lock.
LockBridgeOnce(e) ==
  /\ At(e, "want bridge")
  /\ bridgeLock = None
  /\ GoTo(e, "config") /\ bridgeLock' = e
  /\ UNCHANGED <<kept, serving, cache, poolLock, pools, table, outcome, wheels>>

\* The lock is free: the second look; with a bridge there it is released at once.
LockBridge(e) ==
  /\ At(e, "want bridge")
  /\ bridgeLock = None
  /\ \/ kept # None /\ WithPort(e, kept) /\ UNCHANGED bridgeLock
     \/ kept = None /\ GoTo(e, "config") /\ bridgeLock' = e
  /\ UNCHANGED <<kept, serving, cache, poolLock, pools, table, outcome, wheels>>

\* MCPBridgeServer.start reads the rows of this execution's thread, with their schemas.
ReadConfig(e) ==
  /\ At(e, "config")
  /\ cache' = [cache EXCEPT ![e] = table[ThreadOf[e]]]
  /\ GoTo(e, "listen")
  /\ UNCHANGED <<kept, serving, bridgeLock, poolLock, pools, table, outcome, wheels>>

\* start_server is done.  The bridge is kept, or stopped where nobody would use it.
Listen(e) ==
  /\ At(e, "listen")
  /\ serving' = serving \cup {e}
  /\ IF cache[e] # {} \/ exec[e].stateful
     THEN kept' = e /\ bridgeLock' = None /\ WithPort(e, e)
     ELSE GoTo(e, "stop") /\ UNCHANGED <<kept, bridgeLock>>
  /\ UNCHANGED <<cache, poolLock, pools, table, outcome, wheels>>

\* shutdown of a bridge that is not kept.
Stop(e) ==
  /\ At(e, "stop")
  /\ serving' = serving \ {e}
  /\ cache' = [cache EXCEPT ![e] = {}]
  /\ bridgeLock' = None
  /\ WithPort(e, None)
  /\ UNCHANGED <<kept, poolLock, pools, table, outcome, wheels>>

\* Bug: an exception leaves the lock taken.
BridgeFailsLocked(e) ==
  /\ At(e, "config") \/ At(e, "listen")
  /\ cache' = [cache EXCEPT ![e] = {}]
  /\ Leave(e, "failed")
  /\ UNCHANGED <<kept, serving, bridgeLock, poolLock, pools, table, outcome, wheels>>

\* The query or start_server raises: the lock is released, the execution fails.
BridgeFails(e) ==
  /\ At(e, "config") \/ At(e, "listen")
  /\ bridgeLock' = None
  /\ cache' = [cache EXCEPT ![e] = {}]
  /\ Leave(e, "failed")
  /\ UNCHANGED <<kept, serving, poolLock, pools, table, outcome, wheels>>

----------------------------------------------------------------------------
(* _ensure_pool *)

\* No await lies between this look and the one before: the extra step adds no outcome.
EnterPool(e) ==
  /\ At(e, "pool")
  /\ GoTo(e, IF pools[KeyOf[e]].up THEN "servers" ELSE "want pool")
  /\ UNCHANGED <<shared, table, outcome, wheels>>

\* Bug: no second look under the lock.
LockPoolOnce(e) ==
  /\ At(e, "want pool")
  /\ poolLock = None
  /\ GoTo(e, "starting") /\ poolLock' = e
  /\ UNCHANGED <<kept, serving, cache, bridgeLock, pools, table, outcome, wheels>>

LockPool(e) ==
  /\ At(e, "want pool")
  /\ poolLock = None
  /\ \/ pools[KeyOf[e]].up /\ GoTo(e, "servers") /\ UNCHANGED poolLock
     \/ ~pools[KeyOf[e]].up /\ GoTo(e, "starting") /\ poolLock' = e
  /\ UNCHANGED <<kept, serving, cache, bridgeLock, pools, table, outcome, wheels>>

\* pool.start: the workers get leave to reach the port this execution knows, for ever.
PoolStarted(e) ==
  /\ At(e, "starting")
  /\ pools' = [pools EXCEPT ![KeyOf[e]] = [up |-> TRUE, port |-> exec[e].port]]
  /\ poolLock' = None
  /\ GoTo(e, "servers")
  /\ UNCHANGED <<kept, serving, cache, bridgeLock, table, outcome, wheels>>

\* No worker starts: the pool is shut down, the execution fails.
PoolFails(e) ==
  /\ At(e, "starting")
  /\ poolLock' = None
  /\ Leave(e, "failed")
  /\ UNCHANGED <<kept, serving, cache, bridgeLock, pools, table, outcome, wheels>>

----------------------------------------------------------------------------
(* The code runs *)

\* With a port, the prelude defines __MCP_CALL__ for the servers of this thread.
LoadServers(e) ==
  /\ At(e, "servers")
  /\ exec' = [exec EXCEPT ![e].pc = "run",
                          ![e].known = IF exec[e].port # None THEN table[ThreadOf[e]] ELSE {}]
  /\ UNCHANGED <<shared, table, outcome, wheels>>

\* The permissions of a worker process are those it was started with.
MayReach(e) == KeyOf[e] \in OpenKeys \/ pools[KeyOf[e]].port = exec[e].port

\* Bug: no look at the registered servers.
AnswerAny(e, s, fit) == IF s \in cache[exec[e].port] /\ fit THEN "sent" ELSE "error"

\* _execute_mcp_call: `fit' where the arguments fit the schema or the row has none.
Answer(e, s, fit) ==
  CASE s \notin cache[exec[e].port] -> "unregistered"
    [] s \in cache[exec[e].port] /\ ~fit -> "invalid"
    [] OTHER -> "sent"

\* __MCP_CALL__, then POST /call: a server the thread did not bind is refused in the worker.
CallTool(e) ==
  /\ At(e, "run")
  /\ \E s \in exec[e].known, fit \in BOOLEAN :
       outcome' = IF MayReach(e) THEN Answer(e, s, fit) ELSE "denied"
  /\ UNCHANGED <<shared, table, exec, wheels>>

\* POST /cache_package stores a wheel, POST /get_cached_package looks for one.
UsePackage(e) ==
  /\ At(e, "run") /\ exec[e].port # None /\ MayReach(e)
  /\ \E p \in Packages : wheels' \in {wheels, wheels \cup {p}}
  /\ outcome' = "package"
  /\ UNCHANGED <<shared, table, exec>>

Finish(e) ==
  /\ At(e, "run")
  /\ Leave(e, "done")
  /\ UNCHANGED <<shared, table, outcome, wheels>>

\* add_http_mcp_server binds a server; to bind it again changes its address only.
AddServer(t, s) ==
  /\ s \notin table[t]
  /\ table' = [table EXCEPT ![t] = @ \cup {s}]
  /\ UNCHANGED <<shared, exec, outcome, wheels>>

BridgeStep(e) ==
  Enter(e) \/ LockBridge(e) \/ ReadConfig(e) \/ Listen(e) \/ Stop(e) \/ BridgeFails(e)
PoolStep(e) == EnterPool(e) \/ LockPool(e) \/ PoolStarted(e) \/ PoolFails(e)
RunStep(e) == CallTool(e) \/ UsePackage(e) \/ Finish(e)

Next ==
  \/ \E e \in Execs : BridgeStep(e) \/ PoolStep(e) \/ LoadServers(e) \/ RunStep(e)
  \/ \E t \in Threads, s \in Servers : AddServer(t, s)

\* Awaited queries and the start of servers and processes end, all under a timeout or local.
Fairness == \A e \in Execs : WF_vars(BridgeStep(e)) /\ WF_vars(PoolStep(e))

Spec == Init /\ [][Next]_vars /\ Fairness

----------------------------------------------------------------------------
Places == {"new", "want bridge", "config", "listen", "stop", "pool", "want pool", "starting",
           "servers", "run", "done", "failed"}

\* Every variable has its type (class attributes, tables, executions).
TypeOK ==
  /\ table \in [Threads -> SUBSET Servers]
  /\ kept \in Execs \cup {None}
  /\ serving \subseteq Execs
  /\ cache \in [Execs -> SUBSET Servers]
  /\ bridgeLock \in Execs \cup {None} /\ poolLock \in Execs \cup {None}
  /\ pools \in [PoolKeys -> [up : BOOLEAN, port : Execs \cup {None}]]
  /\ exec \in [Execs -> [pc : Places, stateful : BOOLEAN, port : Execs \cup {None}, known : SUBSET Servers]]
  /\ outcome \in {"none", "denied", "unregistered", "invalid", "sent", "package"}
  /\ wheels \subseteq Packages

\* OneBridge: apart from the one being tried under the lock, the kept bridge is the only one
\* that serves, and it serves as long as it is kept; the port an execution is given and the
\* port the workers of a pool may reach are the kept bridge's or none.
OneBridge ==
  /\ \A e \in serving : e = kept \/ (bridgeLock = e /\ At(e, "stop"))
  /\ kept # None => kept \in serving
  /\ \A e \in Execs : exec[e].port \in {None, kept}
  /\ \A k \in PoolKeys : pools[k].port \in {None, kept}

\* KeptForever: an execution never replaces the bridge or a pool that another has put in place
\* and may be using (_ensure_mcp_bridge, _ensure_pool: the looks under the lock).
KeptForever ==
  [][/\ kept # None => kept' = kept
     /\ \A k \in PoolKeys : pools[k].up => pools'[k] = pools[k]]_vars

\* Through: every execution gets past the locks, to its code or to an error.
Through == \A e \in Execs : At(e, "want bridge") ~> exec[e].pc \in {"servers", "run", "done", "failed"}

\* Registered: the bridge answers no call of a server bound by the calling thread with "not
\* registered for this thread".
Registered == outcome # "unregistered"
============================================================================
