---------------------------- MODULE McpSessions ----------------------------
(***************************************************************************)
(* The MCP session manager (mcp_bindings.py): one dictionary of sessions   *)
(* and one of time stamps, both by key (thread, server), used by requests  *)
(* that interleave at their awaits.                                        *)
(*                                                                         *)
(* An action runs from one await to the next.  Four awaits matter: the     *)
(* sleep of the throttle, the close of an expired session, the connection  *)
(* to the server, the call of the tool.                                    *)
(***************************************************************************)
EXTENDS Integers

CONSTANTS Callers,   \* requests that can be under way together
          Keys,      \* (thread_id, server name)
          NoKey,
          Ttl,       \* MAYFLOWER_MCP_SESSION_TTL
          Interval,  \* MAYFLOWER_MCP_CALL_INTERVAL, 0 when there is none
          MaxTime,   \* bound: the clock runs from 1 to MaxTime
          MaxConns   \* bound: connections ever opened

ASSUME ConstantsAssumption ==
  /\ NoKey \notin Keys
  /\ Ttl \in Nat \ {0}
  /\ Interval \in Nat
  /\ MaxTime \in Nat \ {0}
  /\ MaxConns \in Nat

Conns == 1 .. MaxConns
Times == 0 .. MaxTime      \* 0: no time stamp

VARIABLES
  now,       \* time.monotonic()
  sessions,  \* _sessions: the connection of a key (0: no record), its expires_at
  stamp,     \* _call_timestamps
  status,    \* what became of each connection
  owner,     \* the key a connection was opened for
  call,      \* where each request is
  disturbed  \* history: keys with overlapping calls or a failed close or connect

vars == <<now, sessions, stamp, status, owner, call, disturbed>>

NoRecord == [conn |-> 0, expires |-> 0]
Idle == [pc |-> "idle", key |-> NoKey, at |-> 0, wake |-> 0, conn |-> 0]

Init ==
  /\ now = 1
  /\ sessions = [k \in Keys |-> NoRecord]
  /\ stamp = [k \in Keys |-> 0]
  /\ status = [n \in Conns |-> "unused"]
  /\ owner = [n \in Conns |-> NoKey]
  /\ call = [c \in Callers |-> Idle]
  /\ disturbed = {}

MustWait(k) == /\ Interval > 0
               /\ stamp[k] # 0
               /\ now < stamp[k] + Interval

\* Bug: the time stamp is the time at which the next request may begin.
StampedNext(k) == [stamp EXCEPT ![k] = now + Interval]

Stamped(k) == IF Interval > 0 THEN [stamp EXCEPT ![k] = now] ELSE stamp

Live(k) == sessions[k].conn # 0 /\ sessions[k].expires > now
Expired(k) == sessions[k].conn # 0 /\ sessions[k].expires <= now

\* Bug: a reused session keeps its first expires_at.
RenewedNot(k) == sessions[k]

\* Renewed: the record of a reused session.
Renewed(k) == [sessions[k] EXCEPT !.expires = now + Ttl]

Busy(c) == call[c].pc # "idle"

\* ensure_connected for a key with a live record: no await before the tool is called.
Reuse(c, k) ==
  /\ Live(k)
  /\ sessions' = [sessions EXCEPT ![k] = Renewed(k)]
  /\ call' = [call EXCEPT ![c] =
       [pc |-> "tool", key |-> k, at |-> now, wake |-> 0, conn |-> sessions[k].conn]]
  /\ UNCHANGED <<status, owner>>

BeginClose(c, k) ==
  /\ Expired(k)
  /\ status' = [status EXCEPT ![sessions[k].conn] = "closing"]
  /\ call' = [call EXCEPT ![c] =
       [pc |-> "closing", key |-> k, at |-> now, wake |-> 0, conn |-> sessions[k].conn]]
  /\ UNCHANGED <<sessions, owner>>

\* `t' is the time ensure_connected read at its start.
Open(c, k, t, st) ==
  \E n \in Conns :
    /\ st[n] = "unused"
    /\ \A m \in Conns : st[m] = "unused" => n <= m
    /\ status' = [st EXCEPT ![n] = "opening"]
    /\ owner' = [owner EXCEPT ![n] = k]
    /\ call' = [call EXCEPT ![c] =
         [pc |-> "opening", key |-> k, at |-> t, wake |-> 0, conn |-> n]]

\* Bug: an expired session is replaced without being closed.
ProceedOpen(c, k) ==
  /\ stamp' = Stamped(k)
  /\ \/ Reuse(c, k)
     \/ ~Live(k) /\ Open(c, k, now, status) /\ UNCHANGED sessions

\* From the end of the throttle to the next await.
Proceed(c, k) ==
  /\ stamp' = Stamped(k)
  /\ \/ Reuse(c, k)
     \/ BeginClose(c, k)
     \/ sessions[k].conn = 0 /\ Open(c, k, now, status) /\ UNCHANGED sessions

\* call, list_tools: a request arrives.
Call(c, k) ==
  /\ ~Busy(c)
  /\ now + Interval <= MaxTime
  /\ disturbed' = IF \E d \in Callers : Busy(d) /\ call[d].key = k
                  THEN disturbed \cup {k} ELSE disturbed
  /\ \/ /\ MustWait(k)
        /\ call' = [call EXCEPT ![c] =
             [pc |-> "sleeping", key |-> k, at |-> 0, wake |-> stamp[k] + Interval, conn |-> 0]]
        /\ UNCHANGED <<sessions, stamp, status, owner>>
     \/ ~MustWait(k) /\ Proceed(c, k)
  /\ UNCHANGED now

\* The sleep is over; the time stamp is written without another look at it.
Wake(c) ==
  /\ call[c].pc = "sleeping"
  /\ now >= call[c].wake
  /\ Proceed(c, call[c].key)
  /\ UNCHANGED <<now, disturbed>>

\* The finally of _close_session: whatever record the key has by now is dropped.
Dropped(c) == [sessions EXCEPT ![call[c].key] = NoRecord]

CloseDone(c) ==
  /\ call[c].pc = "closing"
  /\ sessions' = Dropped(c)
  /\ stamp' = [stamp EXCEPT ![call[c].key] = 0]
  /\ Open(c, call[c].key, call[c].at, [status EXCEPT ![call[c].conn] = "closed"])
  /\ UNCHANGED <<now, disturbed>>

\* aclose raises: the record is dropped all the same, the request fails.
CloseFail(c) ==
  /\ call[c].pc = "closing"
  /\ sessions' = Dropped(c)
  /\ stamp' = [stamp EXCEPT ![call[c].key] = 0]
  /\ call' = [call EXCEPT ![c] = Idle]
  /\ disturbed' = disturbed \cup {call[c].key}
  /\ UNCHANGED <<now, status, owner>>

\* The record of this request replaces the one another request may have stored.
OpenDone(c) ==
  /\ call[c].pc = "opening"
  /\ status' = [status EXCEPT ![call[c].conn] = "open"]
  /\ sessions' = [sessions EXCEPT ![call[c].key] =
                    [conn |-> call[c].conn, expires |-> call[c].at + Ttl]]
  /\ call' = [call EXCEPT ![c].pc = "tool"]
  /\ UNCHANGED <<now, stamp, owner, disturbed>>

\* An exception while connecting: what the stack holds already is not closed.
OpenFail(c) ==
  /\ call[c].pc = "opening"
  /\ call' = [call EXCEPT ![c] = Idle]
  /\ disturbed' = disturbed \cup {call[c].key}
  /\ UNCHANGED <<now, sessions, stamp, status, owner>>

\* The tool's result or its exception (last_used, which is written here, is read nowhere).
ToolDone(c) ==
  /\ call[c].pc = "tool"
  /\ call' = [call EXCEPT ![c] = Idle]
  /\ UNCHANGED <<now, sessions, stamp, status, owner, disturbed>>

Tick ==
  /\ now < MaxTime
  /\ now' = now + 1
  /\ UNCHANGED <<sessions, stamp, status, owner, call, disturbed>>

Next ==
  \/ Tick
  \/ \E c \in Callers :
       \/ \E k \in Keys : Call(c, k)
       \/ Wake(c)
       \/ CloseDone(c)
       \/ CloseFail(c)
       \/ OpenDone(c)
       \/ OpenFail(c)
       \/ ToolDone(c)

Spec == Init /\ [][Next]_vars

----------------------------------------------------------------------------
\* Every variable has its type (_sessions, _call_timestamps, the requests).
TypeOK ==
  /\ now \in 1 .. MaxTime
  /\ sessions \in [Keys -> [conn : 0 .. MaxConns, expires : 0 .. MaxTime + Ttl]]
  /\ stamp \in [Keys -> Times]
  /\ status \in [Conns -> {"unused", "opening", "open", "closing", "closed"}]
  /\ owner \in [Conns -> Keys \cup {NoKey}]
  /\ call \in [Callers -> [pc : {"idle", "sleeping", "closing", "opening", "tool"},
                           key : Keys \cup {NoKey}, at : Times, wake : Times, conn : 0 .. MaxConns]]
  /\ disturbed \subseteq Keys

\* Undisturbed: for Ttl after ensure_connected looked at the dictionary, the connection
\* a request was given is one opened for its own thread and server, and nobody has begun
\* to close it, however many requests expire, close, replace and renew records meanwhile.
Undisturbed ==
  \A c \in Callers :
    call[c].pc = "tool" /\ now < call[c].at + Ttl =>
      /\ status[call[c].conn] = "open"
      /\ owner[call[c].conn] = call[c].key

Held(n) == status[n] \in {"opening", "open", "closing"}

\* OneConnection: where the requests of a thread and server came one after the other and
\* no close or connect failed, at most one connection is held for them, and it is in the
\* dictionary or is being opened: ensure_connected leaks none and closes each it replaces.
OneConnection ==
  \A k \in Keys \ disturbed : \A n \in Conns :
    Held(n) /\ owner[n] = k =>
      /\ \A m \in Conns : Held(m) /\ owner[m] = k => m = n
      /\ \/ sessions[k].conn = n
         \/ \E c \in Callers : call[c].pc = "opening" /\ call[c].conn = n
============================================================================
