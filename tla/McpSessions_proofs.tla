------------------------- MODULE McpSessions_proofs -------------------------
(***************************************************************************)
(* Type correctness of the MCP session manager; that a request keeps its   *)
(* connection for Ttl; that requests one after the other hold at most one  *)
(* connection.                                                             *)
(***************************************************************************)
EXTENDS McpSessions, TLAPS

USE ConstantsAssumption

(***************************************************************************)
(* The three ways on from the throttle, and the two callers of Open.       *)
(***************************************************************************)
LEMMA OpenTyped ==
  ASSUME TypeOK, NEW c \in Callers, NEW k \in Keys, NEW t \in Times,
         NEW st \in [Conns -> {"unused", "opening", "open", "closing", "closed"}],
         Open(c, k, t, st)
  PROVE  /\ status' \in [Conns -> {"unused", "opening", "open", "closing", "closed"}]
         /\ owner' \in [Conns -> Keys \cup {NoKey}]
         /\ call' \in [Callers -> [pc : {"idle", "sleeping", "closing", "opening", "tool"},
                                   key : Keys \cup {NoKey}, at : Times, wake : Times,
                                   conn : 0 .. MaxConns]]
<1>1. PICK n \in Conns :
        /\ status' = [st EXCEPT ![n] = "opening"]
        /\ owner' = [owner EXCEPT ![n] = k]
        /\ call' = [call EXCEPT ![c] =
             [pc |-> "opening", key |-> k, at |-> t, wake |-> 0, conn |-> n]]
  BY DEF Open
<1>2. n \in 0 .. MaxConns /\ 0 \in Times
  BY DEF Conns, Times
<1> QED
  BY <1>1, <1>2 DEF TypeOK

LEMMA ProceedTyped ==
  ASSUME TypeOK, NEW c \in Callers, NEW k \in Keys, Proceed(c, k), UNCHANGED now
  PROVE  /\ (\A q \in Keys : stamp[q] <= now) => \A q \in Keys : stamp'[q] <= now
         /\ sessions' \in [Keys -> [conn : 0 .. MaxConns, expires : 0 .. MaxTime + Ttl]]
         /\ stamp' \in [Keys -> Times]
         /\ status' \in [Conns -> {"unused", "opening", "open", "closing", "closed"}]
         /\ owner' \in [Conns -> Keys \cup {NoKey}]
         /\ call' \in [Callers -> [pc : {"idle", "sleeping", "closing", "opening", "tool"},
                                   key : Keys \cup {NoKey}, at : Times, wake : Times,
                                   conn : 0 .. MaxConns]]
<1>1. now \in Times /\ 0 \in Times /\ now + Ttl \in 0 .. MaxTime + Ttl
  BY DEF TypeOK, Times
<1>2. stamp' \in [Keys -> Times]
  BY <1>1 DEF Proceed, Stamped, TypeOK
<1>6. (\A q \in Keys : stamp[q] <= now) => \A q \in Keys : stamp'[q] <= now
  BY DEF Proceed, Stamped, TypeOK
<1>3. CASE Reuse(c, k)
  BY <1>6, <1>1, <1>2, <1>3 DEF Reuse, Renewed, TypeOK
<1>4. CASE BeginClose(c, k)
  BY <1>6, <1>1, <1>2, <1>4 DEF BeginClose, TypeOK
<1>5. CASE Open(c, k, now, status) /\ UNCHANGED sessions
  BY <1>6, <1>1, <1>2, <1>5, OpenTyped DEF TypeOK
<1> QED
  BY <1>3, <1>4, <1>5 DEF Proceed

\* What TypeOK needs to be inductive: a request that sleeps knows its key, and no time
\* stamp is in the future.
Keyed == /\ \A c \in Callers : Busy(c) => call[c].key \in Keys
         /\ \A k \in Keys : stamp[k] <= now

LEMMA TypeInit == Init => TypeOK /\ Keyed
BY DEF Init, TypeOK, Keyed, Busy, Idle, NoRecord, Times, Conns

LEMMA TypeStep == TypeOK /\ Keyed /\ [Next]_vars => TypeOK' /\ Keyed'
<1> SUFFICES ASSUME TypeOK, Keyed, [Next]_vars
             PROVE  TypeOK' /\ Keyed'
  OBVIOUS
<1> 0 \in Times /\ 0 \in 0 .. MaxConns /\ 0 \in 0 .. MaxTime + Ttl
  BY DEF Times
<1>1. CASE Tick
  BY <1>1 DEF Tick, TypeOK, Keyed, Busy, Times
<1>2. ASSUME NEW c \in Callers, NEW k \in Keys, Call(c, k)
      PROVE  TypeOK' /\ Keyed'
  <2>1. disturbed' \subseteq Keys
    BY <1>2 DEF Call, TypeOK
  <2>2. CASE MustWait(k) /\ call' = [call EXCEPT ![c] =
               [pc |-> "sleeping", key |-> k, at |-> 0, wake |-> stamp[k] + Interval, conn |-> 0]]
             /\ UNCHANGED <<sessions, stamp, status, owner>>
    <3>1. stamp[k] + Interval \in Times
      BY <1>2, <2>2 DEF Call, MustWait, TypeOK, Keyed, Times
    <3> QED
      BY <1>2, <2>1, <2>2, <3>1 DEF Call, TypeOK, Keyed, Busy
  <2>3. CASE Proceed(c, k)
    <3>1. call'[c].key = k /\ \A d \in Callers \ {c} : call'[d] = call[d]
      BY <2>3 DEF Proceed, Reuse, BeginClose, Open, TypeOK
    <3> QED
      BY <1>2, <2>1, <2>3, <3>1, ProceedTyped DEF Call, TypeOK, Keyed, Busy
  <2> QED
    BY <1>2, <2>2, <2>3 DEF Call
<1>3. ASSUME NEW c \in Callers, Wake(c)
      PROVE  TypeOK' /\ Keyed'
  <2>1. call[c].key \in Keys
    BY <1>3 DEF Wake, Keyed, Busy
  <2>2. call'[c].key = call[c].key /\ \A d \in Callers \ {c} : call'[d] = call[d]
    BY <1>3 DEF Wake, Proceed, Reuse, BeginClose, Open, TypeOK
  <2> QED
    BY <1>3, <2>1, <2>2, ProceedTyped DEF Wake, TypeOK, Keyed, Busy
<1>4. ASSUME NEW c \in Callers, CloseDone(c)
      PROVE  TypeOK' /\ Keyed'
  <2>1. call[c].key \in Keys /\ call[c].at \in Times
    BY <1>4 DEF CloseDone, Keyed, Busy, TypeOK
  <2> DEFINE st == [status EXCEPT ![call[c].conn] = "closed"]
  <2>2. st \in [Conns -> {"unused", "opening", "open", "closing", "closed"}]
    BY DEF TypeOK
  <2>3. Open(c, call[c].key, call[c].at, st)
    BY <1>4 DEF CloseDone
  <2>4. call'[c].key = call[c].key /\ \A d \in Callers \ {c} : call'[d] = call[d]
    BY <2>3 DEF Open, TypeOK
  <2> HIDE DEF st
  <2>5. /\ sessions' \in [Keys -> [conn : 0 .. MaxConns, expires : 0 .. MaxTime + Ttl]]
        /\ stamp' \in [Keys -> Times]
        /\ \A k \in Keys : stamp'[k] <= now
        /\ UNCHANGED <<now, disturbed>>
    BY <1>4, <2>1 DEF CloseDone, Dropped, NoRecord, TypeOK, Keyed
  <2>6. \A d \in Callers : Busy(d)' => call'[d].key \in Keys
    BY <2>1, <2>4 DEF Keyed, Busy
  <2> QED
    BY <2>1, <2>2, <2>3, <2>5, <2>6, OpenTyped DEF TypeOK, Keyed
<1>5. ASSUME NEW c \in Callers, CloseFail(c)
      PROVE  TypeOK' /\ Keyed'
  <2>1. call[c].key \in Keys
    BY <1>5 DEF CloseFail, Keyed, Busy
  <2> QED
    BY <1>5, <2>1 DEF CloseFail, Dropped, NoRecord, Idle, TypeOK, Keyed, Busy
<1>6. ASSUME NEW c \in Callers, OpenDone(c)
      PROVE  TypeOK' /\ Keyed'
  <2>1. call[c].at + Ttl \in 0 .. MaxTime + Ttl
    BY DEF TypeOK, Times
  <2> QED
    BY <1>6, <2>1 DEF OpenDone, TypeOK, Keyed, Busy
<1>7. ASSUME NEW c \in Callers, OpenFail(c)
      PROVE  TypeOK' /\ Keyed'
  <2>1. call[c].key \in Keys
    BY <1>7 DEF OpenFail, Keyed, Busy
  <2> QED
    BY <1>7, <2>1 DEF OpenFail, Idle, TypeOK, Keyed, Busy
<1>8. ASSUME NEW c \in Callers, ToolDone(c)
      PROVE  TypeOK' /\ Keyed'
  BY <1>8 DEF ToolDone, Idle, TypeOK, Keyed, Busy
<1>9. CASE UNCHANGED vars
  BY <1>9 DEF vars, TypeOK, Keyed, Busy
<1> QED
  BY <1>1, <1>2, <1>3, <1>4, <1>5, <1>6, <1>7, <1>8, <1>9 DEF Next

\* The dictionaries, the connections and the requests keep their types.
THEOREM TypeCorrect == Spec => []TypeOK
<1>1. TypeOK /\ Keyed /\ [Next]_vars => (TypeOK /\ Keyed)'
  BY TypeStep
<1> QED
  BY <1>1, TypeInit, PTL DEF Spec

(***************************************************************************)
(* What the dictionary and the requests know of the connections.           *)
(***************************************************************************)
\* A record whose connection somebody has begun to close is expired: no request gets it.
Records ==
  \A k \in Keys : sessions[k].conn # 0 =>
    /\ status[sessions[k].conn] \in {"open", "closing", "closed"}
    /\ owner[sessions[k].conn] = k
    /\ status[sessions[k].conn] # "open" => sessions[k].expires <= now

Requests ==
  \A c \in Callers :
    /\ call[c].at <= now
    /\ call[c].pc \in {"closing", "opening", "tool"} =>
         call[c].conn \in Conns /\ owner[call[c].conn] = call[c].key
    /\ call[c].pc = "closing" => status[call[c].conn] \in {"closing", "closed"}
    /\ call[c].pc = "opening" => status[call[c].conn] = "opening"
    /\ call[c].pc = "tool" => status[call[c].conn] \in {"open", "closing", "closed"}

Apart ==
  \A c, d \in Callers :
    call[c].pc = "opening" /\ call[d].pc = "opening" /\ call[c].conn = call[d].conn => c = d

\* A request's connection is open for Ttl, and while its record is there the record says so.
Promised ==
  \A c \in Callers : call[c].pc = "tool" =>
    /\ now < call[c].at + Ttl => status[call[c].conn] = "open"
    /\ sessions[call[c].key].conn = call[c].conn =>
         sessions[call[c].key].expires >= call[c].at + Ttl

Sound == TypeOK /\ Keyed /\ Records /\ Requests /\ Apart /\ Promised

\* What Open does, connection by connection and request by request.
LEMMA OpenAt ==
  ASSUME TypeOK, NEW c \in Callers, NEW k \in Keys, NEW t \in Times,
         NEW st \in [Conns -> {"unused", "opening", "open", "closing", "closed"}],
         Open(c, k, t, st)
  PROVE  \E n \in Conns :
           /\ st[n] = "unused"
           /\ status'[n] = "opening" /\ owner'[n] = k
           /\ \A m \in Conns \ {n} : status'[m] = st[m] /\ owner'[m] = owner[m]
           /\ call'[c] = [pc |-> "opening", key |-> k, at |-> t, wake |-> 0, conn |-> n]
           /\ \A d \in Callers \ {c} : call'[d] = call[d]
<1>1. PICK n \in Conns :
        /\ st[n] = "unused"
        /\ status' = [st EXCEPT ![n] = "opening"]
        /\ owner' = [owner EXCEPT ![n] = k]
        /\ call' = [call EXCEPT ![c] =
             [pc |-> "opening", key |-> k, at |-> t, wake |-> 0, conn |-> n]]
  BY DEF Open
<1> QED
  BY <1>1 DEF TypeOK

\* The parts of Sound an action can disturb, for each way on from the throttle.
Linked == Records /\ Requests /\ Apart /\ Promised

LEMMA ReuseSound ==
  ASSUME Sound, NEW c \in Callers, NEW k \in Keys, Reuse(c, k), UNCHANGED now
  PROVE  Linked'
<1>1. /\ sessions[k].conn \in Conns /\ sessions[k].expires > now
      /\ sessions'[k] = [conn |-> sessions[k].conn, expires |-> now + Ttl]
      /\ \A q \in Keys \ {k} : sessions'[q] = sessions[q]
      /\ call'[c] = [pc |-> "tool", key |-> k, at |-> now, wake |-> 0, conn |-> sessions[k].conn]
      /\ \A d \in Callers \ {c} : call'[d] = call[d]
      /\ UNCHANGED <<now, status, owner>>
  BY DEF Sound, TypeOK, Reuse, Live, Renewed, Conns
<1>2. status[sessions[k].conn] = "open" /\ owner[sessions[k].conn] = k
  BY <1>1 DEF Sound, Records, TypeOK, Conns
<1>3. Records'
  <2> SUFFICES ASSUME NEW q \in Keys, sessions'[q].conn # 0
               PROVE  /\ status[sessions'[q].conn] \in {"open", "closing", "closed"}
                      /\ owner[sessions'[q].conn] = q
                      /\ status[sessions'[q].conn] # "open" => sessions'[q].expires <= now
    BY <1>1 DEF Records
  <2>1. CASE q = k
    BY <1>1, <1>2, <2>1
  <2>2. CASE q # k
    BY <1>1, <2>2 DEF Sound, Records
  <2> QED
    BY <2>1, <2>2
<1>4. Requests'
  BY <1>1, <1>2 DEF Sound, Requests, TypeOK, Times
<1>5. Apart'
  BY <1>1 DEF Sound, Apart
<1>6. Promised'
  <2> SUFFICES ASSUME NEW d \in Callers, call'[d].pc = "tool"
               PROVE  /\ now < call'[d].at + Ttl => status[call'[d].conn] = "open"
                      /\ sessions'[call'[d].key].conn = call'[d].conn =>
                           sessions'[call'[d].key].expires >= call'[d].at + Ttl
    BY <1>1 DEF Promised
  <2>1. CASE d = c
    BY <1>1, <1>2, <2>1 DEF Sound, TypeOK
  <2>2. CASE d # c
    <3>1. call'[d] = call[d] /\ call[d].at <= now /\ call[d].key \in Keys
      BY <1>1, <2>2 DEF Sound, Requests, Keyed, Busy
    <3> QED
      BY <1>1, <3>1 DEF Sound, Promised, TypeOK, Times
  <2> QED
    BY <2>1, <2>2
<1> QED
  BY <1>3, <1>4, <1>5, <1>6 DEF Linked

LEMMA BeginCloseSound ==
  ASSUME Sound, NEW c \in Callers, NEW k \in Keys, BeginClose(c, k), UNCHANGED now
  PROVE  Linked'
<1> DEFINE n == sessions[k].conn
<1>1. /\ n \in Conns /\ sessions[k].expires <= now
      /\ status'[n] = "closing"
      /\ \A m \in Conns \ {n} : status'[m] = status[m]
      /\ call'[c] = [pc |-> "closing", key |-> k, at |-> now, wake |-> 0, conn |-> n]
      /\ \A d \in Callers \ {c} : call'[d] = call[d]
      /\ UNCHANGED <<now, sessions, owner>>
  BY DEF Sound, TypeOK, BeginClose, Expired, Conns
<1>2. status[n] \in {"open", "closing", "closed"} /\ owner[n] = k
  BY <1>1 DEF Sound, Records, TypeOK, Conns
<1> HIDE DEF n
<1>3. Records'
  <2> SUFFICES ASSUME NEW q \in Keys, sessions[q].conn # 0
               PROVE  /\ status'[sessions[q].conn] \in {"open", "closing", "closed"}
                      /\ owner[sessions[q].conn] = q
                      /\ status'[sessions[q].conn] # "open" => sessions[q].expires <= now
    BY <1>1 DEF Records
  <2>1. CASE sessions[q].conn = n
    BY <1>1, <1>2, <2>1 DEF Sound, Records, n
  <2>2. CASE sessions[q].conn # n
    BY <1>1, <2>2 DEF Sound, Records, TypeOK, Conns
  <2> QED
    BY <2>1, <2>2
<1>4. Requests'
  BY <1>1, <1>2 DEF Sound, Requests, TypeOK, Times
<1>5. Apart'
  BY <1>1 DEF Sound, Apart
<1>6. Promised'
  <2> SUFFICES ASSUME NEW d \in Callers, call'[d].pc = "tool"
               PROVE  /\ now < call'[d].at + Ttl => status'[call'[d].conn] = "open"
                      /\ sessions[call'[d].key].conn = call'[d].conn =>
                           sessions[call'[d].key].expires >= call'[d].at + Ttl
    BY <1>1 DEF Promised
  <2>1. call'[d] = call[d] /\ call[d].conn \in Conns /\ owner[call[d].conn] = call[d].key
    BY <1>1 DEF Sound, Requests
  <2>2. CASE call[d].conn = n
    BY <1>1, <1>2, <2>1, <2>2 DEF Sound, Promised, TypeOK, Times, n
  <2>3. CASE call[d].conn # n
    BY <1>1, <2>1, <2>3 DEF Sound, Promised
  <2> QED
    BY <2>2, <2>3
<1> QED
  BY <1>3, <1>4, <1>5, <1>6 DEF Linked

\* Open for a request that comes from the throttle, or from a close: there the record is
\* dropped and a connection that was being closed is closed.
LEMMA OpenSound ==
  ASSUME Sound, NEW c \in Callers, NEW k \in Keys, NEW t \in Times, t <= now,
         NEW st \in [Conns -> {"unused", "opening", "open", "closing", "closed"}],
         Open(c, k, t, st), UNCHANGED now,
         \A m \in Conns : \/ st[m] = status[m]
                          \/ status[m] \in {"closing", "closed"} /\ st[m] = "closed",
         \A q \in Keys : sessions'[q] = sessions[q] \/ sessions'[q] = NoRecord
  PROVE  Linked'
<1>1. PICK n \in Conns :
        /\ st[n] = "unused"
        /\ status'[n] = "opening" /\ owner'[n] = k
        /\ \A m \in Conns \ {n} : status'[m] = st[m] /\ owner'[m] = owner[m]
        /\ call'[c] = [pc |-> "opening", key |-> k, at |-> t, wake |-> 0, conn |-> n]
        /\ \A d \in Callers \ {c} : call'[d] = call[d]
  BY OpenAt DEF Sound
<1>2. status[n] = "unused"
  BY <1>1
<1>3. Records'
  <2> SUFFICES ASSUME NEW q \in Keys, sessions'[q].conn # 0
               PROVE  /\ status'[sessions'[q].conn] \in {"open", "closing", "closed"}
                      /\ owner'[sessions'[q].conn] = q
                      /\ status'[sessions'[q].conn] # "open" => sessions'[q].expires <= now
    BY DEF Records
  <2>1. sessions'[q] = sessions[q] /\ sessions[q].conn \in Conns /\ sessions[q].conn # 0
    BY DEF NoRecord, Sound, TypeOK, Conns
  <2>2. /\ status[sessions[q].conn] \in {"open", "closing", "closed"}
        /\ owner[sessions[q].conn] = q
        /\ status[sessions[q].conn] # "open" => sessions[q].expires <= now
    BY <2>1 DEF Sound, Records
  <2> QED
    BY <1>1, <1>2, <2>1, <2>2
<1>4. Requests'
  <2> SUFFICES ASSUME NEW d \in Callers
               PROVE  /\ call'[d].at <= now
                      /\ call'[d].pc \in {"closing", "opening", "tool"} =>
                           call'[d].conn \in Conns /\ owner'[call'[d].conn] = call'[d].key
                      /\ call'[d].pc = "closing" => status'[call'[d].conn] \in {"closing", "closed"}
                      /\ call'[d].pc = "opening" => status'[call'[d].conn] = "opening"
                      /\ call'[d].pc = "tool" => status'[call'[d].conn] \in {"open", "closing", "closed"}
    BY DEF Requests
  <2>1. CASE d = c
    BY <1>1, <2>1
  <2>2. CASE d # c
    BY <1>1, <1>2, <2>2 DEF Sound, Requests
  <2> QED
    BY <2>1, <2>2
<1>5. Apart'
  BY <1>1, <1>2 DEF Sound, Apart, Requests
<1>6. Promised'
  <2> SUFFICES ASSUME NEW d \in Callers, call'[d].pc = "tool"
               PROVE  /\ now < call'[d].at + Ttl => status'[call'[d].conn] = "open"
                      /\ sessions'[call'[d].key].conn = call'[d].conn =>
                           sessions'[call'[d].key].expires >= call'[d].at + Ttl
    BY DEF Promised
  <2>1. /\ d # c /\ call'[d] = call[d] /\ call[d].conn \in Conns /\ call[d].key \in Keys
        /\ status[call[d].conn] \in {"open", "closing", "closed"} /\ call[d].conn # 0
    BY <1>1 DEF Sound, Requests, Keyed, Busy, Conns
  <2>2. call[d].conn # n
    BY <1>2, <2>1
  <2> QED
    BY <1>1, <2>1, <2>2 DEF Sound, Promised, NoRecord
<1> QED
  BY <1>3, <1>4, <1>5, <1>6 DEF Linked

LEMMA ProceedSound ==
  ASSUME Sound, NEW c \in Callers, NEW k \in Keys, Proceed(c, k), UNCHANGED now
  PROVE  Linked'
<1>1. CASE Open(c, k, now, status) /\ UNCHANGED sessions
  BY <1>1, OpenSound DEF Sound, TypeOK, Times
<1> QED
  BY <1>1, ReuseSound, BeginCloseSound DEF Proceed

LEMMA SoundInit == Init => Sound
BY TypeInit DEF Init, Sound, Records, Requests, Apart, Promised, Idle, NoRecord

LEMMA SoundStep == Sound /\ [Next]_vars => Sound'
<1> SUFFICES ASSUME Sound, [Next]_vars
             PROVE  Linked'
  BY TypeStep DEF Sound, Linked
<1>1. CASE Tick
  <2>1. now < now' /\ UNCHANGED <<sessions, stamp, status, owner, call, disturbed>>
    BY <1>1 DEF Tick, Sound, TypeOK
  <2>2. Records' /\ Requests' /\ Apart'
    BY <1>1, <2>1 DEF Sound, Records, Requests, Apart, TypeOK, Times, Tick
  <2>3. Promised'
    BY <1>1, <2>1 DEF Sound, Promised, TypeOK, Times, Tick
  <2> QED
    BY <2>2, <2>3 DEF Linked
<1>2. ASSUME NEW c \in Callers, NEW k \in Keys, Call(c, k)
      PROVE  Linked'
  <2>1. CASE /\ call' = [call EXCEPT ![c] =
               [pc |-> "sleeping", key |-> k, at |-> 0, wake |-> stamp[k] + Interval, conn |-> 0]]
             /\ UNCHANGED <<sessions, stamp, status, owner>>
    BY <1>2, <2>1 DEF Call, Linked, Sound, Records, Requests, Apart, Promised, TypeOK
  <2>2. CASE Proceed(c, k)
    BY <1>2, <2>2, ProceedSound DEF Call
  <2> QED
    BY <1>2, <2>1, <2>2 DEF Call
<1>3. ASSUME NEW c \in Callers, Wake(c)
      PROVE  Linked'
  BY <1>3, ProceedSound DEF Wake, Sound, Keyed, Busy
<1>4. ASSUME NEW c \in Callers, CloseDone(c)
      PROVE  Linked'
  <2>1. /\ call[c].key \in Keys /\ call[c].at \in Times /\ call[c].at <= now
        /\ call[c].conn \in Conns /\ status[call[c].conn] \in {"closing", "closed"}
    BY <1>4 DEF CloseDone, Sound, Keyed, Busy, Requests, TypeOK
  <2> DEFINE st == [status EXCEPT ![call[c].conn] = "closed"]
  <2>2. /\ st \in [Conns -> {"unused", "opening", "open", "closing", "closed"}]
        /\ \A m \in Conns : \/ st[m] = status[m]
                            \/ status[m] \in {"closing", "closed"} /\ st[m] = "closed"
    BY <2>1 DEF Sound, TypeOK
  <2>3. Open(c, call[c].key, call[c].at, st) /\ UNCHANGED now
    BY <1>4 DEF CloseDone
  <2>4. \A q \in Keys : sessions'[q] = sessions[q] \/ sessions'[q] = NoRecord
    BY <1>4 DEF CloseDone, Dropped, Sound, TypeOK
  <2> HIDE DEF st
  <2> QED
    BY <2>1, <2>2, <2>3, <2>4, OpenSound
<1>5. ASSUME NEW c \in Callers, CloseFail(c)
      PROVE  Linked'
  <2>1. \A q \in Keys : sessions'[q] = sessions[q] \/ sessions'[q] = NoRecord
    BY <1>5 DEF CloseFail, Dropped, Sound, TypeOK
  <2>2. /\ call'[c] = Idle /\ \A d \in Callers \ {c} : call'[d] = call[d]
        /\ UNCHANGED <<now, status, owner>>
    BY <1>5 DEF CloseFail, Sound, TypeOK
  <2>3. Records' /\ Requests' /\ Apart'
    <3>1. Records'
      BY <2>1, <2>2 DEF Sound, Records, NoRecord
    <3>2. Requests'
      BY <2>2 DEF Sound, Requests, TypeOK, Idle
    <3>3. Apart'
      BY <2>2 DEF Sound, Apart, Idle
    <3> QED
      BY <3>1, <3>2, <3>3
  <2>4. Promised'
    <3> SUFFICES ASSUME NEW d \in Callers, call'[d].pc = "tool"
                 PROVE  /\ now < call'[d].at + Ttl => status[call'[d].conn] = "open"
                        /\ sessions'[call'[d].key].conn = call'[d].conn =>
                             sessions'[call'[d].key].expires >= call'[d].at + Ttl
      BY <2>2 DEF Promised
    <3>1. call'[d] = call[d] /\ call[d].conn # 0 /\ call[d].key \in Keys
      BY <2>2 DEF Idle, Sound, Requests, Conns, Keyed, Busy
    <3> QED
      BY <2>1, <3>1 DEF Sound, Promised, NoRecord
  <2> QED
    BY <2>3, <2>4 DEF Linked
<1>6. ASSUME NEW c \in Callers, OpenDone(c)
      PROVE  Linked'
  <2> DEFINE n == call[c].conn
             k == call[c].key
  <2>1. /\ n \in Conns /\ n # 0 /\ k \in Keys /\ owner[n] = k /\ status[n] = "opening"
        /\ call[c].at <= now
    BY <1>6 DEF OpenDone, Sound, Requests, Keyed, Busy, Conns
  <2>2. /\ status'[n] = "open" /\ \A m \in Conns \ {n} : status'[m] = status[m]
        /\ sessions'[k] = [conn |-> n, expires |-> call[c].at + Ttl]
        /\ \A q \in Keys \ {k} : sessions'[q] = sessions[q]
        /\ call'[c] = [call[c] EXCEPT !.pc = "tool"]
        /\ \A d \in Callers \ {c} : call'[d] = call[d]
        /\ UNCHANGED <<now, owner>>
    BY <1>6, <2>1 DEF OpenDone, Sound, TypeOK
  <2>3. call'[c].pc = "tool" /\ call'[c].conn = n /\ call'[c].key = k /\ call'[c].at = call[c].at
    BY <2>2 DEF Sound, TypeOK
  <2> HIDE DEF n, k
  <2>4. Records'
    <3> SUFFICES ASSUME NEW q \in Keys, sessions'[q].conn # 0
                 PROVE  /\ status'[sessions'[q].conn] \in {"open", "closing", "closed"}
                        /\ owner[sessions'[q].conn] = q
                        /\ status'[sessions'[q].conn] # "open" => sessions'[q].expires <= now
      BY <2>2 DEF Records
    <3>1. CASE q = k
      BY <2>1, <2>2, <3>1
    <3>2. CASE q # k
      BY <2>1, <2>2, <3>2 DEF Sound, Records, TypeOK, Conns
    <3> QED
      BY <3>1, <3>2
  <2>5. Requests'
    <3> SUFFICES ASSUME NEW d \in Callers
                 PROVE  /\ call'[d].at <= now
                        /\ call'[d].pc \in {"closing", "opening", "tool"} =>
                             call'[d].conn \in Conns /\ owner[call'[d].conn] = call'[d].key
                        /\ call'[d].pc = "closing" => status'[call'[d].conn] \in {"closing", "closed"}
                        /\ call'[d].pc = "opening" => status'[call'[d].conn] = "opening"
                        /\ call'[d].pc = "tool" => status'[call'[d].conn] \in {"open", "closing", "closed"}
      BY <2>2 DEF Requests
    <3>1. CASE d = c
      BY <2>1, <2>2, <2>3, <3>1
    <3>2. CASE d # c
      <4>1. call'[d] = call[d] /\ (call[d].pc = "opening" => call[d].conn # n)
        BY <1>6, <2>2, <3>2 DEF Sound, Apart, OpenDone, n
      <4> QED
        BY <2>1, <2>2, <4>1 DEF Sound, Requests
    <3> QED
      BY <3>1, <3>2
  <2>6. Apart'
    <3>1. \A d \in Callers \ {c} : call'[d] = call[d]
      BY <2>2
    <3> QED
      BY <2>3, <3>1 DEF Sound, Apart
  <2>7. Promised'
    <3> SUFFICES ASSUME NEW d \in Callers, call'[d].pc = "tool"
                 PROVE  /\ now < call'[d].at + Ttl => status'[call'[d].conn] = "open"
                        /\ sessions'[call'[d].key].conn = call'[d].conn =>
                             sessions'[call'[d].key].expires >= call'[d].at + Ttl
      BY <2>2 DEF Promised
    <3>1. CASE d = c
      BY <2>2, <2>3, <3>1 DEF Sound, TypeOK, Times
    <3>2. CASE d # c
      <4>1. /\ call'[d] = call[d] /\ call[d].conn \in Conns /\ call[d].conn # n
            /\ call[d].key \in Keys
        BY <2>1, <2>2, <3>2 DEF Sound, Requests, Keyed, Busy
      <4> QED
        BY <2>2, <4>1 DEF Sound, Promised
    <3> QED
      BY <3>1, <3>2
  <2> QED
    BY <2>4, <2>5, <2>6, <2>7 DEF Linked
<1>7. ASSUME NEW c \in Callers, OpenFail(c) \/ ToolDone(c)
      PROVE  Linked'
  <2>1. /\ call'[c] = Idle /\ \A d \in Callers \ {c} : call'[d] = call[d]
        /\ UNCHANGED <<now, sessions, status, owner>>
    BY <1>7 DEF OpenFail, ToolDone, Sound, TypeOK
  <2> QED
    <3>1. Records'
      BY <2>1 DEF Sound, Records
    <3>2. Requests'
      BY <2>1 DEF Sound, Requests, TypeOK, Idle
    <3>3. Apart' /\ Promised'
      BY <2>1 DEF Sound, Apart, Promised, Idle
    <3> QED
      BY <3>1, <3>2, <3>3 DEF Linked
<1>8. CASE UNCHANGED vars
  BY <1>8 DEF vars, Linked, Sound, Records, Requests, Apart, Promised
<1> QED
  BY <1>1, <1>2, <1>3, <1>4, <1>5, <1>6, <1>7, <1>8 DEF Next

\* For any requests, keys, time to live and interval: a request keeps the connection it
\* was given for Ttl, whatever the others do.
THEOREM KeepsConnection == Spec => []Undisturbed
<1>1. Sound => Undisturbed
  BY DEF Sound, Promised, Requests, Undisturbed
<1>2. Sound /\ [Next]_vars => Sound'
  BY SoundStep
<1> QED
  BY <1>1, <1>2, SoundInit, PTL DEF Spec

(***************************************************************************)
(* Requests one after the other.                                           *)
(***************************************************************************)
\* A key's only request is the only one that opens or closes; the connections held for the
\* key are the one in the dictionary or the one being opened, never both.
Serial(k) ==
  /\ \A c, d \in Callers : Busy(c) /\ Busy(d) /\ call[c].key = k /\ call[d].key = k => c = d
  /\ \A n \in Conns : Held(n) /\ owner[n] = k =>
       sessions[k].conn = n \/ \E c \in Callers : call[c].pc = "opening" /\ call[c].conn = n
  /\ \A c \in Callers : call[c].pc = "opening" /\ call[c].key = k => sessions[k].conn = 0
  /\ \A c \in Callers : call[c].pc = "closing" /\ call[c].key = k => sessions[k].conn = call[c].conn
  /\ sessions[k].conn # 0 => Held(sessions[k].conn)

AllSerial == \A k \in Keys \ disturbed : Serial(k)

\* Nobody else is at work for the key of a request that takes a step.
Alone(c, k) == \A d \in Callers \ {c} : Busy(d) => call[d].key # k

LEMMA AloneOf ==
  ASSUME AllSerial, NEW c \in Callers, Busy(c), call[c].key \in Keys \ disturbed
  PROVE  Alone(c, call[c].key)
BY DEF AllSerial, Serial, Alone

LEMMA OpenSerial ==
  ASSUME Sound, AllSerial, NEW c \in Callers, NEW k \in Keys, NEW t \in Times,
         NEW st \in [Conns -> {"unused", "opening", "open", "closing", "closed"}],
         Open(c, k, t, st),
         k \notin disturbed' => Alone(c, k) /\ sessions'[k].conn = 0
                               /\ \A m \in Conns : owner[m] = k => st[m] \in {"unused", "closed"},
         Busy(c) => call[c].key = k,
         disturbed \subseteq disturbed',
         \A m \in Conns : st[m] = status[m] \/ (st[m] = "closed" /\ owner[m] = k),
         \A q \in Keys \ {k} : sessions'[q] = sessions[q]
  PROVE  AllSerial'
<1>1. PICK n \in Conns :
        /\ st[n] = "unused"
        /\ status'[n] = "opening" /\ owner'[n] = k
        /\ \A m \in Conns \ {n} : status'[m] = st[m] /\ owner'[m] = owner[m]
        /\ call'[c] = [pc |-> "opening", key |-> k, at |-> t, wake |-> 0, conn |-> n]
        /\ \A d \in Callers \ {c} : call'[d] = call[d]
  BY OpenAt DEF Sound
<1> SUFFICES ASSUME NEW q \in Keys \ disturbed'
             PROVE  Serial(q)'
  BY DEF AllSerial
<1>2. CASE q = k
  <2>1. Alone(c, k) /\ sessions'[k].conn = 0
    BY <1>2
  <2>2. \A d \in Callers : Busy(d)' /\ call'[d].key = k => d = c
    BY <1>1, <2>1 DEF Alone, Busy
  <2>3. \A m \in Conns : Held(m)' /\ owner'[m] = k => m = n
    BY <1>1, <1>2 DEF Held
  <2>4. call'[c].pc = "opening" /\ call'[c].conn = n
    BY <1>1
  <2> QED
    BY <1>2, <2>1, <2>2, <2>3, <2>4 DEF Serial, Busy
<1>3. CASE q # k
  <2>1. Serial(q) /\ sessions'[q] = sessions[q]
    BY <1>3 DEF AllSerial
  <2>2. \A d \in Callers : Busy(d)' /\ call'[d].key = q => d # c /\ call'[d] = call[d] /\ Busy(d)
    BY <1>1, <1>3 DEF Busy
  <2>3. ASSUME NEW m \in Conns, Held(m)', owner'[m] = q
        PROVE  \/ sessions'[q].conn = m
               \/ \E d \in Callers : call'[d].pc = "opening" /\ call'[d].conn = m
    <3>1. m # n /\ Held(m) /\ owner[m] = q
      BY <1>1, <1>3, <2>3 DEF Held
    <3>2. CASE sessions[q].conn = m
      BY <2>1, <3>2
    <3>3. ASSUME NEW d \in Callers, call[d].pc = "opening", call[d].conn = m
          PROVE  call'[d].pc = "opening" /\ call'[d].conn = m
      <4>1. call[d].key = q
        BY <3>1, <3>3 DEF Sound, Requests
      <4> QED
        BY <1>1, <1>3, <3>3, <4>1 DEF Busy
    <3> QED
      BY <2>1, <3>1, <3>2, <3>3 DEF Serial
  <2>4. \A d, e \in Callers :
          Busy(d)' /\ Busy(e)' /\ call'[d].key = q /\ call'[e].key = q => d = e
    BY <2>1, <2>2 DEF Serial
  <2>5. \A d \in Callers : call'[d].pc = "opening" /\ call'[d].key = q => sessions'[q].conn = 0
    BY <2>1, <2>2 DEF Serial, Busy
  <2>6. \A d \in Callers :
          call'[d].pc = "closing" /\ call'[d].key = q => sessions'[q].conn = call'[d].conn
    BY <2>1, <2>2 DEF Serial, Busy
  <2>7. sessions'[q].conn # 0 => status'[sessions'[q].conn] \in {"opening", "open", "closing"}
    <3> SUFFICES ASSUME sessions[q].conn # 0
                 PROVE  status'[sessions[q].conn] \in {"opening", "open", "closing"}
      BY <2>1
    <3>1. sessions[q].conn \in Conns /\ Held(sessions[q].conn) /\ owner[sessions[q].conn] = q
      BY <2>1 DEF Serial, Sound, Records, TypeOK, Conns
    <3> QED
      BY <1>1, <1>3, <3>1 DEF Held
  <2> QED
    BY <2>3, <2>4, <2>5, <2>6, <2>7 DEF Serial, Held
<1> QED
  BY <1>2, <1>3

\* A step of request c for key k that opens nothing and ends with no connection being opened.
LEMMA StaySerial ==
  ASSUME Sound, AllSerial, NEW c \in Callers, NEW k \in Keys,
         k \notin disturbed' => Alone(c, k),
         Busy(c) => call[c].key = k,
         disturbed \subseteq disturbed',
         Busy(c)' => call'[c].key = k /\ call'[c].pc # "opening",
         call'[c].pc = "closing" /\ k \notin disturbed' => sessions'[k].conn = call'[c].conn,
         \A d \in Callers \ {c} : call'[d] = call[d],
         \A m \in Conns : (owner[m] = k /\ k \in disturbed') \/ (Held(m)' <=> Held(m)),
         owner' = owner,
         k \notin disturbed' => sessions'[k].conn = sessions[k].conn
                                \/ (call[c].pc = "opening" /\ sessions'[k].conn = call[c].conn),
         k \notin disturbed' /\ call[c].pc = "opening" => sessions'[k].conn = call[c].conn,
         \A q \in Keys \ {k} : sessions'[q].conn = sessions[q].conn
  PROVE  AllSerial'
<1> SUFFICES ASSUME NEW q \in Keys \ disturbed'
             PROVE  Serial(q)'
  BY DEF AllSerial
<1>1. Serial(q)
  BY DEF AllSerial
<1>2. \A d \in Callers : call'[d].pc = "opening" => d # c /\ call'[d] = call[d]
  BY DEF Busy
<1>3. \A d, e \in Callers :
        Busy(d)' /\ Busy(e)' /\ call'[d].key = q /\ call'[e].key = q => d = e
  BY <1>1 DEF Serial, Alone, Busy
<1>4. ASSUME NEW m \in Conns, Held(m)', owner'[m] = q
      PROVE  \/ sessions'[q].conn = m
             \/ \E d \in Callers : call'[d].pc = "opening" /\ call'[d].conn = m
  <2>1. Held(m) /\ owner[m] = q
    BY <1>4
  <2>2. CASE sessions[q].conn = m
    <3>1. CASE q = k /\ call[c].pc = "opening"
      <4>1. sessions[k].conn = 0 /\ m # 0
        BY <1>1, <3>1 DEF Serial, Busy, Conns
      <4> QED
        BY <2>2, <3>1, <4>1
    <3> QED
      BY <2>2, <3>1
  <2>3. ASSUME NEW d \in Callers, call[d].pc = "opening", call[d].conn = m
        PROVE  \/ sessions'[q].conn = m
               \/ call'[d].pc = "opening" /\ call'[d].conn = m
    <3>1. call[d].key = q
      BY <2>1, <2>3 DEF Sound, Requests
    <3>2. CASE d = c
      BY <2>3, <3>1, <3>2 DEF Busy
    <3> QED
      BY <2>3, <3>2
  <2> QED
    BY <1>1, <2>1, <2>2, <2>3 DEF Serial
<1>5. \A d \in Callers : call'[d].pc = "opening" /\ call'[d].key = q => sessions'[q].conn = 0
  <2> SUFFICES ASSUME NEW d \in Callers, call'[d].pc = "opening", call'[d].key = q
               PROVE  sessions'[q].conn = 0
    OBVIOUS
  <2>1. d # c /\ call[d].pc = "opening" /\ call[d].key = q /\ Busy(d) /\ sessions[q].conn = 0
    BY <1>1, <1>2 DEF Busy, Serial
  <2>2. q # k
    BY <2>1 DEF Alone
  <2> QED
    BY <2>1, <2>2
<1>6. \A d \in Callers :
        call'[d].pc = "closing" /\ call'[d].key = q => sessions'[q].conn = call'[d].conn
  <2> SUFFICES ASSUME NEW d \in Callers, call'[d].pc = "closing", call'[d].key = q
               PROVE  sessions'[q].conn = call'[d].conn
    OBVIOUS
  <2>1. CASE d = c
    BY <2>1 DEF Busy
  <2>2. CASE d # c
    <3>1. call'[d] = call[d] /\ Busy(d) /\ sessions[q].conn = call[d].conn
      BY <1>1, <2>2 DEF Busy, Serial
    <3>2. q # k
      BY <2>2, <3>1 DEF Alone
    <3> QED
      BY <3>1, <3>2
  <2> QED
    BY <2>1, <2>2
<1>7. sessions'[q].conn # 0 => status'[sessions'[q].conn] \in {"opening", "open", "closing"}
  <2>1. CASE sessions'[q].conn = sessions[q].conn
    <3> SUFFICES ASSUME sessions[q].conn # 0
                 PROVE  status'[sessions[q].conn] \in {"opening", "open", "closing"}
      BY <2>1
    <3>1. sessions[q].conn \in Conns /\ Held(sessions[q].conn) /\ owner[sessions[q].conn] = q
      BY <1>1 DEF Serial, Sound, Records, TypeOK, Conns
    <3> QED
      BY <3>1 DEF Held
  <2>2. CASE q = k /\ call[c].pc = "opening" /\ sessions'[k].conn = call[c].conn
    BY <2>2 DEF Sound, Requests, Held
  <2> QED
    BY <2>1, <2>2
<1> QED
  BY <1>3, <1>4, <1>5, <1>6, <1>7 DEF Serial, Held

LEMMA ProceedSerial ==
  ASSUME Sound, AllSerial, NEW c \in Callers, NEW k \in Keys, Proceed(c, k),
         k \notin disturbed' => Alone(c, k),
         Busy(c) => call[c].key = k /\ call[c].pc = "sleeping",
         disturbed \subseteq disturbed'
  PROVE  AllSerial'
<1>1. CASE Reuse(c, k)
  <2>1. /\ \A q \in Keys : sessions'[q].conn = sessions[q].conn
        /\ call'[c].key = k /\ call'[c].pc = "tool"
        /\ \A d \in Callers \ {c} : call'[d] = call[d]
        /\ UNCHANGED <<status, owner>>
    BY <1>1 DEF Reuse, Renewed, Sound, TypeOK
  <2>2. call[c].pc # "opening" /\ \A m \in Conns : Held(m)' <=> Held(m)
    BY <2>1 DEF Busy, Held
  <2> QED
    BY <2>1, <2>2, StaySerial
<1>2. CASE BeginClose(c, k)
  <2>1. /\ sessions[k].conn \in Conns /\ status[sessions[k].conn] \in {"open", "closing", "closed"}
        /\ status'[sessions[k].conn] = "closing"
        /\ \A m \in Conns \ {sessions[k].conn} : status'[m] = status[m]
        /\ call'[c].key = k /\ call'[c].pc = "closing" /\ call'[c].conn = sessions[k].conn
        /\ \A d \in Callers \ {c} : call'[d] = call[d]
        /\ UNCHANGED <<sessions, owner>>
    BY <1>2 DEF BeginClose, Expired, Sound, TypeOK, Records, Conns
  <2>2. status[sessions[k].conn] = "closed" => k \in disturbed'
    BY <2>1 DEF AllSerial, Serial, Held, Conns
  <2>3. /\ call[c].pc # "opening"
        /\ \A m \in Conns : (owner[m] = k /\ k \in disturbed') \/ (Held(m)' <=> Held(m))
    <3>1. owner[sessions[k].conn] = k
      BY <2>1 DEF Sound, Records, Conns
    <3> QED
      BY <2>1, <2>2, <3>1 DEF Busy, Held
  <2> QED
    BY <2>1, <2>3, StaySerial
<1>3. CASE sessions[k].conn = 0 /\ Open(c, k, now, status) /\ UNCHANGED sessions
  <2>1. k \notin disturbed' => \A m \in Conns : owner[m] = k => status[m] \in {"unused", "closed"}
    <3> SUFFICES ASSUME k \notin disturbed', NEW m \in Conns, owner[m] = k, Held(m)
                 PROVE  FALSE
      BY DEF Held, Sound, TypeOK
    <3>1. Serial(k) /\ Alone(c, k) /\ m # 0
      BY DEF AllSerial, Conns
    <3>2. PICK d \in Callers : call[d].pc = "opening" /\ call[d].conn = m
      BY <1>3, <3>1 DEF Serial
    <3> QED
      BY <3>1, <3>2 DEF Sound, Requests, Busy, Alone
  <2> QED
    BY <1>3, <2>1, OpenSerial DEF Sound, TypeOK, Times
<1> QED
  BY <1>1, <1>2, <1>3 DEF Proceed

LEMMA SerialStep == Sound /\ AllSerial /\ [Next]_vars => AllSerial'
<1> SUFFICES ASSUME Sound, AllSerial, [Next]_vars
             PROVE  AllSerial'
  OBVIOUS
<1>1. CASE Tick \/ UNCHANGED vars
  BY <1>1 DEF Tick, vars, AllSerial, Serial, Busy, Held
<1>2. ASSUME NEW c \in Callers, NEW k \in Keys, Call(c, k)
      PROVE  AllSerial'
  <2>1. ~Busy(c) /\ disturbed \subseteq disturbed' /\ (k \notin disturbed' => Alone(c, k))
    BY <1>2 DEF Call, Alone
  <2>2. CASE /\ call' = [call EXCEPT ![c] =
               [pc |-> "sleeping", key |-> k, at |-> 0, wake |-> stamp[k] + Interval, conn |-> 0]]
             /\ UNCHANGED <<sessions, stamp, status, owner>>
    <3>1. /\ call'[c].key = k /\ call'[c].pc = "sleeping" /\ call[c].pc # "opening"
          /\ \A d \in Callers \ {c} : call'[d] = call[d]
          /\ \A m \in Conns : Held(m)' <=> Held(m)
      BY <2>1, <2>2 DEF Sound, TypeOK, Busy, Held
    <3> QED
      BY <2>1, <2>2, <3>1, StaySerial
  <2>3. CASE Proceed(c, k)
    BY <2>1, <2>3, ProceedSerial
  <2> QED
    BY <1>2, <2>2, <2>3 DEF Call
<1>3. ASSUME NEW c \in Callers, Wake(c)
      PROVE  AllSerial'
  <2>1. Busy(c) /\ call[c].key \in Keys /\ disturbed' = disturbed
    BY <1>3 DEF Wake, Busy, Sound, Keyed
  <2> QED
    BY <1>3, <2>1, AloneOf, ProceedSerial DEF Wake
<1>4. ASSUME NEW c \in Callers, CloseDone(c)
      PROVE  AllSerial'
  <2> DEFINE k == call[c].key
             st == [status EXCEPT ![call[c].conn] = "closed"]
  <2>1. /\ Busy(c) /\ k \in Keys /\ disturbed' = disturbed /\ call[c].at \in Times
        /\ call[c].conn \in Conns /\ owner[call[c].conn] = k
    BY <1>4 DEF CloseDone, Busy, Sound, Keyed, Requests, TypeOK
  <2>2. /\ st \in [Conns -> {"unused", "opening", "open", "closing", "closed"}]
        /\ \A m \in Conns : st[m] = status[m] \/ (st[m] = "closed" /\ owner[m] = k)
    BY <2>1 DEF Sound, TypeOK
  <2>3. Open(c, k, call[c].at, st)
    BY <1>4 DEF CloseDone
  <2>4. sessions'[k].conn = 0 /\ \A q \in Keys \ {k} : sessions'[q] = sessions[q]
    BY <1>4, <2>1 DEF CloseDone, Dropped, NoRecord, Sound, TypeOK
  <2>5. ASSUME k \notin disturbed'
        PROVE  /\ Alone(c, k)
               /\ \A m \in Conns : owner[m] = k => st[m] \in {"unused", "closed"}
    <3>1. Alone(c, k) /\ Serial(k) /\ sessions[k].conn = call[c].conn
      BY <1>4, <2>1, <2>5, AloneOf DEF AllSerial, Serial, CloseDone
    <3>2. ASSUME NEW m \in Conns, owner[m] = k, m # call[c].conn
          PROVE  ~Held(m)
      <4>1. ASSUME NEW d \in Callers, call[d].pc = "opening", call[d].conn = m
            PROVE  FALSE
        BY <1>4, <3>1, <3>2, <4>1 DEF Sound, Requests, Alone, Busy, CloseDone
      <4> QED
        BY <3>1, <3>2, <4>1 DEF Serial
    <3>3. st[call[c].conn] = "closed" /\ \A m \in Conns \ {call[c].conn} : st[m] = status[m]
      BY <2>1 DEF Sound, TypeOK
    <3> QED
      BY <3>1, <3>2, <3>3 DEF Held, Sound, TypeOK
  <2> HIDE DEF k, st
  <2> QED
    BY <2>1, <2>2, <2>3, <2>4, <2>5, OpenSerial DEF k
<1>5. ASSUME NEW c \in Callers, CloseFail(c) \/ OpenFail(c)
      PROVE  AllSerial'
  <2>1. /\ Busy(c) /\ call[c].key \in Keys /\ call[c].key \in disturbed'
        /\ disturbed \subseteq disturbed'
    BY <1>5 DEF CloseFail, OpenFail, Busy, Sound, Keyed
  <2>2. /\ call'[c].pc = "idle" /\ \A d \in Callers \ {c} : call'[d] = call[d]
        /\ UNCHANGED <<status, owner>>
    BY <1>5 DEF CloseFail, OpenFail, Idle, Sound, TypeOK
  <2>3. \A q \in Keys \ {call[c].key} : sessions'[q].conn = sessions[q].conn
    BY <1>5 DEF CloseFail, OpenFail, Dropped, Sound, TypeOK
  <2>4. \A m \in Conns : Held(m)' <=> Held(m)
    BY <2>2 DEF Held
  <2> QED
    BY <2>1, <2>2, <2>3, <2>4, StaySerial DEF Busy
<1>6. ASSUME NEW c \in Callers, OpenDone(c)
      PROVE  AllSerial'
  <2>1. /\ Busy(c) /\ call[c].key \in Keys /\ disturbed' = disturbed
        /\ call[c].conn \in Conns /\ status[call[c].conn] = "opening"
    BY <1>6 DEF OpenDone, Busy, Sound, Keyed, Requests
  <2>2. /\ call'[c].pc = "tool" /\ call'[c].key = call[c].key
        /\ \A d \in Callers \ {c} : call'[d] = call[d]
        /\ owner' = owner
        /\ sessions'[call[c].key].conn = call[c].conn
        /\ \A q \in Keys \ {call[c].key} : sessions'[q].conn = sessions[q].conn
    BY <1>6, <2>1 DEF OpenDone, Sound, TypeOK
  <2>3. \A m \in Conns : Held(m)' <=> Held(m)
    BY <1>6, <2>1 DEF OpenDone, Held, Sound, TypeOK
  <2>4. call[c].pc = "opening" /\ (call[c].key \notin disturbed' => Alone(c, call[c].key))
    BY <1>6, <2>1, AloneOf DEF OpenDone
  <2> QED
    BY <2>1, <2>2, <2>3, <2>4, StaySerial
<1>7. ASSUME NEW c \in Callers, ToolDone(c)
      PROVE  AllSerial'
  <2>1. Busy(c) /\ call[c].key \in Keys /\ disturbed' = disturbed /\ call[c].pc = "tool"
    BY <1>7 DEF ToolDone, Busy, Sound, Keyed
  <2>2. /\ call'[c].pc = "idle" /\ \A d \in Callers \ {c} : call'[d] = call[d]
        /\ UNCHANGED <<sessions, status, owner>>
    BY <1>7 DEF ToolDone, Idle, Sound, TypeOK
  <2>3. \A m \in Conns : Held(m)' <=> Held(m)
    BY <2>2 DEF Held
  <2> QED
    BY <2>1, <2>2, <2>3, AloneOf, StaySerial DEF Busy
<1> QED
  BY <1>1, <1>2, <1>3, <1>4, <1>5, <1>6, <1>7 DEF Next

\* For any requests and keys: where requests come one after the other and nothing fails, a
\* thread and server never hold more than one connection, and it is never lost.
THEOREM HoldsOne == Spec => []OneConnection
<1>1. Init => AllSerial
  BY DEF Init, AllSerial, Serial, Busy, Idle, Held, NoRecord
<1>2. Sound /\ AllSerial => OneConnection
  <2> SUFFICES ASSUME Sound, AllSerial, NEW k \in Keys \ disturbed, NEW n \in Conns,
                      Held(n), owner[n] = k
               PROVE  /\ \A m \in Conns : Held(m) /\ owner[m] = k => m = n
                      /\ \/ sessions[k].conn = n
                         \/ \E c \in Callers : call[c].pc = "opening" /\ call[c].conn = n
    BY DEF OneConnection
  <2>1. Serial(k)
    BY DEF AllSerial
  <2>2. ASSUME NEW m \in Conns, Held(m), owner[m] = k
        PROVE  \/ sessions[k].conn = m /\ \A c \in Callers : call[c].pc = "opening" => call[c].key # k
               \/ sessions[k].conn = 0 /\ \E c \in Callers : /\ call[c].pc = "opening"
                                                           /\ call[c].conn = m /\ call[c].key = k
    BY <2>1, <2>2 DEF Serial, Sound, Requests, Conns
  <2>3. ASSUME NEW m \in Conns, Held(m), owner[m] = k
        PROVE  m = n
    BY <2>1, <2>2, <2>3 DEF Serial, Busy, Conns
  <2> QED
    BY <2>1, <2>3 DEF Serial
<1>3. Sound /\ AllSerial /\ [Next]_vars => (Sound /\ AllSerial)'
  BY SoundStep, SerialStep
<1> QED
  BY <1>1, <1>2, <1>3, SoundInit, PTL DEF Spec
============================================================================
