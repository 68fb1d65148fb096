-------------------------- MODULE McpBridge_proofs --------------------------
(***************************************************************************)
(* Executions that start together put one bridge in place, whose port is   *)
(* the only one executions and pools know, and never replace it or a pool. *)
(***************************************************************************)
EXTENDS McpBridge, TLAPS

USE BridgeAssumption

(***************************************************************************)
(* The updates of exec.                                                    *)
(***************************************************************************)
Entry == [pc : Places, stateful : BOOLEAN, port : Execs \cup {None}, known : SUBSET Servers]

LEMMA ExecTyped ==
  ASSUME TypeOK, NEW e \in Execs, NEW pc \in Places, NEW port \in Execs \cup {None}
  PROVE  /\ GoTo(e, pc) => exec' \in [Execs -> Entry]
         /\ Leave(e, pc) => exec' \in [Execs -> Entry]
         /\ WithPort(e, port) => exec' \in [Execs -> Entry]
<1>1. exec \in [Execs -> Entry] /\ exec[e] \in Entry /\ "pool" \in Places
  BY DEF TypeOK, Entry, Places
<1>2. GoTo(e, pc) => exec' \in [Execs -> Entry]
  BY <1>1 DEF GoTo, Entry
<1>3. Leave(e, pc) => exec' \in [Execs -> Entry]
  BY <1>1 DEF Leave, Entry
<1>4. ASSUME WithPort(e, port) PROVE exec' \in [Execs -> Entry]
  <2> DEFINE inPool == [exec EXCEPT ![e].pc = "pool"]
  <2>1. inPool \in [Execs -> Entry]
    BY <1>1 DEF Entry
  <2>2. [inPool EXCEPT ![e].port = port] \in [Execs -> Entry]
    <3> HIDE DEF inPool
    <3> QED
      BY <2>1 DEF Entry
  <2>3. exec' = [inPool EXCEPT ![e].port = port]
    BY <1>1, <1>4 DEF WithPort, Entry
  <2> QED
    BY <2>2, <2>3
<1> QED
  BY <1>2, <1>3, <1>4

LEMMA TypeInit == Init => TypeOK
<1> SUFFICES ASSUME Init PROVE TypeOK
  OBVIOUS
<1>1. "new" \in Places
  BY DEF Places
<1>2. exec \in [Execs -> [pc : Places, stateful : BOOLEAN, port : Execs \cup {None},
                          known : SUBSET Servers]]
  BY <1>1 DEF Init
<1> QED
  BY <1>2 DEF Init, TypeOK, NoPool

LEMMA BridgeTyped ==
  ASSUME TypeOK, NEW e \in Execs, BridgeStep(e)
  PROVE  TypeOK'
<1>0. {"want bridge", "config", "listen", "stop", "failed"} \subseteq Places
  BY DEF Places
<1>1. CASE Enter(e)
  <2>1. exec' \in [Execs -> Entry]
    BY <1>0, <1>1, ExecTyped DEF Enter, TypeOK
  <2> QED
    BY <1>1, <2>1 DEF Enter, shared, TypeOK, Entry
<1>2. CASE LockBridge(e)
  <2>1. exec' \in [Execs -> Entry]
    BY <1>0, <1>2, ExecTyped DEF LockBridge, TypeOK
  <2> QED
    BY <1>2, <2>1 DEF LockBridge, TypeOK, Entry
<1>3. CASE ReadConfig(e)
  <2>1. exec' \in [Execs -> Entry]
    BY <1>0, <1>3, ExecTyped DEF ReadConfig
  <2> QED
    BY <1>3, <2>1 DEF ReadConfig, TypeOK, Entry
<1>4. CASE Listen(e)
  <2>1. exec' \in [Execs -> Entry]
    BY <1>0, <1>4, ExecTyped DEF Listen
  <2> QED
    BY <1>4, <2>1 DEF Listen, TypeOK, Entry
<1>5. CASE Stop(e)
  <2>1. exec' \in [Execs -> Entry]
    BY <1>0, <1>5, ExecTyped DEF Stop
  <2> QED
    BY <1>5, <2>1 DEF Stop, TypeOK, Entry
<1>6. CASE BridgeFails(e)
  <2>1. exec' \in [Execs -> Entry]
    BY <1>0, <1>6, ExecTyped DEF BridgeFails
  <2> QED
    BY <1>6, <2>1 DEF BridgeFails, TypeOK, Entry
<1> QED
  BY <1>1, <1>2, <1>3, <1>4, <1>5, <1>6 DEF BridgeStep

LEMMA PoolTyped ==
  ASSUME TypeOK, NEW e \in Execs, PoolStep(e)
  PROVE  TypeOK'
<1>0. {"want pool", "starting", "servers", "failed"} \subseteq Places
  BY DEF Places
<1>1. CASE EnterPool(e)
  <2>1. exec' \in [Execs -> Entry]
    BY <1>0, <1>1, ExecTyped DEF EnterPool
  <2> QED
    BY <1>1, <2>1 DEF EnterPool, shared, TypeOK, Entry
<1>2. CASE LockPool(e)
  <2>1. exec' \in [Execs -> Entry]
    BY <1>0, <1>2, ExecTyped DEF LockPool
  <2> QED
    BY <1>2, <2>1 DEF LockPool, TypeOK, Entry
<1>3. CASE PoolStarted(e)
  <2>1. exec' \in [Execs -> Entry]
    BY <1>0, <1>3, ExecTyped DEF PoolStarted
  <2>2. exec[e].port \in Execs \cup {None}
    BY DEF TypeOK
  <2> QED
    BY <1>3, <2>1, <2>2 DEF PoolStarted, TypeOK, Entry
<1>4. CASE PoolFails(e)
  <2>1. exec' \in [Execs -> Entry]
    BY <1>0, <1>4, ExecTyped DEF PoolFails
  <2> QED
    BY <1>4, <2>1 DEF PoolFails, TypeOK, Entry
<1> QED
  BY <1>1, <1>2, <1>3, <1>4 DEF PoolStep

LEMMA RunTyped ==
  ASSUME TypeOK, NEW e \in Execs, LoadServers(e) \/ RunStep(e)
  PROVE  TypeOK'
<1>1. CASE LoadServers(e)
  <2>1. exec \in [Execs -> Entry] /\ exec[e] \in Entry /\ "run" \in Places
    BY DEF TypeOK, Entry, Places
  <2>2. table[ThreadOf[e]] \in SUBSET Servers
    BY DEF TypeOK
  <2>3. exec' \in [Execs -> Entry]
    BY <1>1, <2>1, <2>2 DEF LoadServers, Entry
  <2> QED
    BY <1>1, <2>3 DEF LoadServers, shared, TypeOK, Entry
<1>2. CASE CallTool(e)
  BY <1>2 DEF CallTool, Answer, shared, TypeOK
<1>3. CASE UsePackage(e)
  BY <1>3 DEF UsePackage, shared, TypeOK
<1>4. CASE Finish(e)
  <2>1. "done" \in Places
    BY DEF Places
  <2>2. exec' \in [Execs -> Entry]
    BY <1>4, <2>1, ExecTyped DEF Finish
  <2> QED
    BY <1>4, <2>2 DEF Finish, shared, TypeOK, Entry
<1> QED
  BY <1>1, <1>2, <1>3, <1>4 DEF RunStep

LEMMA TypeStep == TypeOK /\ [Next]_vars => TypeOK'
<1> SUFFICES ASSUME TypeOK, [Next]_vars PROVE TypeOK'
  OBVIOUS
<1>1. CASE UNCHANGED vars
  BY <1>1 DEF vars, TypeOK
<1>2. ASSUME NEW t \in Threads, NEW s \in Servers, AddServer(t, s)
      PROVE  TypeOK'
  BY <1>2 DEF AddServer, shared, TypeOK
<1> QED
  BY <1>1, <1>2, BridgeTyped, PoolTyped, RunTyped DEF Next

\* TypeCorrect: bridges, locks, pools, server tables and executions keep their types, for any
\* executions, threads, servers and network configurations.
THEOREM TypeCorrect == Spec => []TypeOK
<1> QED
  BY TypeInit, TypeStep, PTL DEF Spec

(***************************************************************************)
(* Where the executions are after an update, and what the locks say of it. *)
(***************************************************************************)
Elsewhere(e) == \A d \in Execs : d # e => exec'[d] = exec[d]

LEMMA ExecAt ==
  ASSUME TypeOK, NEW e \in Execs, NEW pc, NEW port
  PROVE  /\ GoTo(e, pc) => exec'[e].pc = pc /\ exec'[e].port = exec[e].port /\ Elsewhere(e)
         /\ Leave(e, pc) => exec'[e].pc = pc /\ exec'[e].port = None /\ Elsewhere(e)
         /\ WithPort(e, port) => exec'[e].pc = "pool" /\ exec'[e].port = port /\ Elsewhere(e)
<1>1. exec \in [Execs -> Entry] /\ exec[e] \in Entry
  BY DEF TypeOK, Entry
<1>2. GoTo(e, pc) => exec'[e].pc = pc /\ exec'[e].port = exec[e].port /\ Elsewhere(e)
  BY <1>1 DEF GoTo, Entry, Elsewhere
<1>3. Leave(e, pc) => exec'[e].pc = pc /\ exec'[e].port = None /\ Elsewhere(e)
  BY <1>1 DEF Leave, Entry, Elsewhere
<1>4. ASSUME WithPort(e, port)
      PROVE  exec'[e].pc = "pool" /\ exec'[e].port = port /\ Elsewhere(e)
  <2> DEFINE inPool == [exec EXCEPT ![e].pc = "pool"]
  <2>1. /\ inPool \in [Execs -> [pc : Places \cup {"pool"}, stateful : BOOLEAN,
                                 port : Execs \cup {None}, known : SUBSET Servers]]
        /\ inPool[e].pc = "pool"
        /\ \A d \in Execs : d # e => inPool[d] = exec[d]
    BY <1>1 DEF Entry
  <2>2. exec' = [inPool EXCEPT ![e].port = port]
    BY <1>1, <1>4 DEF WithPort, Entry
  <2> HIDE DEF inPool
  <2> QED
    BY <2>1, <2>2 DEF Elsewhere
<1> QED
  BY <1>2, <1>3, <1>4

InBridge(e) == exec[e].pc \in {"config", "listen", "stop"}

\* What OneBridge and KeptForever rest on: a lock is held by the execution between its two
\* statements, nobody is there when what it protects is in place, and before the bridge is
\* in place nobody has a port.
Locked ==
  /\ \A e \in Execs : InBridge(e) => bridgeLock = e /\ kept = None
  /\ \A e \in Execs : At(e, "starting") => poolLock = e /\ ~pools[KeyOf[e]].up

Inv == TypeOK /\ Locked /\ OneBridge

LEMMA InvInit == Init => Inv
<1> SUFFICES ASSUME Init PROVE Inv
  OBVIOUS
<1>1. \A e \in Execs : exec[e].pc = "new" /\ exec[e].port = None
  BY DEF Init
<1>2. Locked
  BY <1>1 DEF Init, Locked, InBridge, At
<1>3. OneBridge
  BY <1>1 DEF Init, OneBridge, NoPool
<1> QED
  BY <1>2, <1>3, TypeInit DEF Inv

LEMMA BridgeSound ==
  ASSUME Inv, NEW e \in Execs, BridgeStep(e)
  PROVE  Locked' /\ OneBridge' /\ (kept # None => kept' = kept) /\ pools' = pools
<1> USE DEF Inv, At, InBridge
<1>0. TypeOK /\ Locked /\ OneBridge /\ e # None /\ serving \subseteq Execs
  BY DEF TypeOK
<1>1. CASE Enter(e)
  <2>1. /\ exec'[e].pc \in {"pool", "want bridge"} /\ exec'[e].port \in {exec[e].port, kept}
        /\ Elsewhere(e)
    BY <1>0, <1>1, ExecAt DEF Enter
  <2> QED
    BY <1>0, <1>1, <2>1 DEF Enter, shared, Locked, OneBridge, Elsewhere
<1>2. CASE LockBridge(e)
  <2>1. CASE kept # None /\ WithPort(e, kept) /\ UNCHANGED bridgeLock
    <3>1. exec'[e].pc = "pool" /\ exec'[e].port = kept /\ Elsewhere(e)
      BY <1>0, <2>1, ExecAt
    <3> QED
      BY <1>0, <1>2, <2>1, <3>1 DEF LockBridge, Locked, OneBridge, Elsewhere
  <2>2. CASE kept = None /\ GoTo(e, "config") /\ bridgeLock' = e
    <3>1. exec'[e].pc = "config" /\ exec'[e].port = exec[e].port /\ Elsewhere(e)
      BY <1>0, <2>2, ExecAt
    <3> QED
      BY <1>0, <1>2, <2>2, <3>1 DEF LockBridge, Locked, OneBridge, Elsewhere
  <2> QED
    BY <1>2, <2>1, <2>2 DEF LockBridge
<1>3. CASE ReadConfig(e)
  <2>1. exec'[e].pc = "listen" /\ exec'[e].port = exec[e].port /\ Elsewhere(e)
    BY <1>0, <1>3, ExecAt DEF ReadConfig
  <2> QED
    BY <1>0, <1>3, <2>1 DEF ReadConfig, Locked, OneBridge, Elsewhere
<1>4. CASE Listen(e)
  <2>1. bridgeLock = e /\ kept = None /\ serving = {}
    BY <1>0, <1>4 DEF Listen, Locked, OneBridge, TypeOK
  <2>2. \A d \in Execs : exec[d].port = None /\ (InBridge(d) => d = e)
    BY <1>0, <2>1 DEF Locked, OneBridge
  <2>3. CASE cache[e] # {} \/ exec[e].stateful
    <3>1. exec'[e].pc = "pool" /\ exec'[e].port = e /\ Elsewhere(e)
      BY <1>0, <1>4, <2>3, ExecAt DEF Listen
    <3> QED
      BY <1>0, <1>4, <2>1, <2>2, <2>3, <3>1 DEF Listen, Locked, OneBridge, Elsewhere
  <2>4. CASE ~(cache[e] # {} \/ exec[e].stateful)
    <3>1. exec'[e].pc = "stop" /\ exec'[e].port = exec[e].port /\ Elsewhere(e)
      BY <1>0, <1>4, <2>4, ExecAt DEF Listen
    <3> QED
      BY <1>0, <1>4, <2>1, <2>2, <2>4, <3>1 DEF Listen, Locked, OneBridge, Elsewhere
  <2> QED
    BY <2>3, <2>4
<1>5. CASE Stop(e)
  <2>1. exec'[e].pc = "pool" /\ exec'[e].port = None /\ Elsewhere(e)
    BY <1>0, <1>5, ExecAt DEF Stop
  <2>2. bridgeLock = e /\ kept = None
    BY <1>0, <1>5 DEF Stop, Locked
  <2> QED
    BY <1>0, <1>5, <2>1, <2>2 DEF Stop, Locked, OneBridge, Elsewhere
<1>6. CASE BridgeFails(e)
  <2>1. exec'[e].pc = "failed" /\ exec'[e].port = None /\ Elsewhere(e)
    BY <1>0, <1>6, ExecAt DEF BridgeFails
  <2>2. bridgeLock = e /\ kept = None
    BY <1>0, <1>6 DEF BridgeFails, Locked
  <2> QED
    BY <1>0, <1>6, <2>1, <2>2 DEF BridgeFails, Locked, OneBridge, Elsewhere
<1> QED
  BY <1>1, <1>2, <1>3, <1>4, <1>5, <1>6 DEF BridgeStep

LEMMA PoolSound ==
  ASSUME Inv, NEW e \in Execs, PoolStep(e)
  PROVE  Locked' /\ OneBridge' /\ kept' = kept
         /\ \A k \in PoolKeys : pools[k].up => pools'[k] = pools[k]
<1> USE DEF Inv, At, InBridge
<1>0. TypeOK /\ Locked /\ OneBridge /\ e # None /\ serving \subseteq Execs
  BY DEF TypeOK
<1>1. CASE EnterPool(e)
  <2>1. /\ exec'[e].pc \in {"servers", "want pool"} /\ exec'[e].port = exec[e].port
        /\ Elsewhere(e)
    BY <1>0, <1>1, ExecAt DEF EnterPool
  <2> QED
    BY <1>0, <1>1, <2>1 DEF EnterPool, shared, Locked, OneBridge, Elsewhere
<1>2. CASE LockPool(e)
  <2>1. CASE pools[KeyOf[e]].up /\ GoTo(e, "servers") /\ UNCHANGED poolLock
    <3>1. exec'[e].pc = "servers" /\ exec'[e].port = exec[e].port /\ Elsewhere(e)
      BY <1>0, <2>1, ExecAt
    <3> QED
      BY <1>0, <1>2, <2>1, <3>1 DEF LockPool, Locked, OneBridge, Elsewhere
  <2>2. CASE ~pools[KeyOf[e]].up /\ GoTo(e, "starting") /\ poolLock' = e
    <3>1. exec'[e].pc = "starting" /\ exec'[e].port = exec[e].port /\ Elsewhere(e)
      BY <1>0, <2>2, ExecAt
    <3> QED
      BY <1>0, <1>2, <2>2, <3>1 DEF LockPool, Locked, OneBridge, Elsewhere
  <2> QED
    BY <1>2, <2>1, <2>2 DEF LockPool
<1>3. CASE PoolStarted(e)
  <2>1. exec'[e].pc = "servers" /\ exec'[e].port = exec[e].port /\ Elsewhere(e)
    BY <1>0, <1>3, ExecAt DEF PoolStarted
  <2>2. poolLock = e /\ ~pools[KeyOf[e]].up /\ exec[e].port \in {None, kept}
    BY <1>0, <1>3 DEF PoolStarted, Locked, OneBridge
  <2>3. /\ pools'[KeyOf[e]].port \in {None, kept}
        /\ \A k \in PoolKeys : k # KeyOf[e] => pools'[k] = pools[k]
    BY <1>0, <1>3, <2>2 DEF PoolStarted, TypeOK
  <2>4. Locked'
    BY <1>0, <1>3, <2>1, <2>2 DEF PoolStarted, Locked, Elsewhere
  <2>5. OneBridge'
    BY <1>0, <1>3, <2>1, <2>3 DEF PoolStarted, OneBridge, Elsewhere
  <2> QED
    BY <1>3, <2>2, <2>3, <2>4, <2>5 DEF PoolStarted
<1>4. CASE PoolFails(e)
  <2>1. exec'[e].pc = "failed" /\ exec'[e].port = None /\ Elsewhere(e)
    BY <1>0, <1>4, ExecAt DEF PoolFails
  <2>2. poolLock = e
    BY <1>0, <1>4 DEF PoolFails, Locked
  <2> QED
    BY <1>0, <1>4, <2>1, <2>2 DEF PoolFails, Locked, OneBridge, Elsewhere
<1> QED
  BY <1>1, <1>2, <1>3, <1>4 DEF PoolStep

LEMMA RunSound ==
  ASSUME Inv, NEW e \in Execs, LoadServers(e) \/ RunStep(e)
  PROVE  Locked' /\ OneBridge' /\ UNCHANGED <<kept, pools>>
<1> USE DEF Inv, At, InBridge
<1>0. TypeOK /\ Locked /\ OneBridge /\ serving \subseteq Execs
  BY DEF TypeOK
<1>1. CASE LoadServers(e)
  <2>1. exec'[e].pc = "run" /\ exec'[e].port = exec[e].port /\ Elsewhere(e)
    <3> DEFINE atRun == [exec EXCEPT ![e].pc = "run"]
    <3>1. /\ atRun \in [Execs -> Entry] /\ atRun[e].pc = "run" /\ atRun[e].port = exec[e].port
          /\ \A d \in Execs : d # e => atRun[d] = exec[d]
      BY <1>0 DEF TypeOK, Entry, Places
    <3>2. PICK known : exec' = [atRun EXCEPT ![e].known = known]
      BY <1>0, <1>1 DEF LoadServers, TypeOK
    <3> HIDE DEF atRun
    <3> QED
      BY <3>1, <3>2 DEF Elsewhere, Entry
  <2> QED
    BY <1>0, <1>1, <2>1 DEF LoadServers, shared, Locked, OneBridge, Elsewhere
<1>2. CASE CallTool(e) \/ UsePackage(e)
  BY <1>0, <1>2 DEF CallTool, UsePackage, shared, Locked, OneBridge
<1>3. CASE Finish(e)
  <2>1. exec'[e].pc = "done" /\ exec'[e].port = None /\ Elsewhere(e)
    BY <1>0, <1>3, ExecAt DEF Finish
  <2> QED
    BY <1>0, <1>3, <2>1 DEF Finish, shared, Locked, OneBridge, Elsewhere
<1> QED
  BY <1>1, <1>2, <1>3 DEF RunStep

LEMMA InvStep ==
  Inv /\ [Next]_vars =>
    /\ Inv'
    /\ kept # None => kept' = kept
    /\ \A k \in PoolKeys : pools[k].up => pools'[k] = pools[k]
<1> SUFFICES ASSUME Inv, [Next]_vars
             PROVE  /\ Locked' /\ OneBridge'
                    /\ kept # None => kept' = kept
                    /\ \A k \in PoolKeys : pools[k].up => pools'[k] = pools[k]
  BY TypeStep DEF Inv
<1>1. CASE UNCHANGED vars
  BY <1>1 DEF vars, Inv, Locked, OneBridge, InBridge, At
<1>2. ASSUME NEW t \in Threads, NEW s \in Servers, AddServer(t, s)
      PROVE  Locked' /\ OneBridge' /\ UNCHANGED <<kept, pools>>
  BY <1>2 DEF AddServer, shared, Inv, Locked, OneBridge, InBridge, At
<1> QED
  BY <1>1, <1>2, BridgeSound, PoolSound, RunSound DEF Next

\* ServesOne: one bridge at most serves beside the one tried under the lock, for any number
\* of executions that start together, and every port known is its own (_ensure_mcp_bridge).
THEOREM ServesOne == Spec => []OneBridge
<1>1. Inv => OneBridge
  BY DEF Inv
<1> QED
  BY <1>1, InvInit, InvStep, PTL DEF Spec

\* NeverReplaced: a bridge or a pool once in place is never replaced by an execution, for any
\* number of them (_ensure_mcp_bridge, _ensure_pool).
THEOREM NeverReplaced == Spec => KeptForever
<1>1. Inv /\ [Next]_vars =>
        [/\ kept # None => kept' = kept
         /\ \A k \in PoolKeys : pools[k].up => pools'[k] = pools[k]]_vars
  BY InvStep
<1> QED
  BY <1>1, InvInit, InvStep, PTL DEF Spec, KeptForever
=============================================================================
