-------------------------- MODULE WorkerPool_proofs --------------------------
(***************************************************************************)
(* Proofs for every size of the pool and every set of calls. Under every   *)
(* fault: type correctness, the locks of the workers, whose a process is,  *)
(* and that the monitor restarts no worker a call is waiting on. Under     *)
(* crashes, hangs and slow requests: every answer is the call's own.       *)
(***************************************************************************)
EXTENDS WorkerPool, ModArith, SequenceTheorems, FiniteSetTheorems

\* The part of the state the locks depend on.
LockState == <<busy, holder, waiters, pc, on, mpc, mw, phase>>

LockTypes ==
  /\ busy \in [Workers -> BOOLEAN]
  /\ holder \in [Workers -> Tasks \cup {NoOne}]
  /\ waiters \in [Workers -> Seq(Tasks)]
  /\ pc \in [Calls -> {"idle", "scan", "wait", "drain", "read"} \cup Over]
  /\ on \in [Calls -> Workers]
  /\ mw \in Workers

\* Task t has come to the lock of worker w and not left it.
At(t, w) ==
  \/ t \in Calls /\ pc[t] \in {"wait", "drain", "read"} /\ on[t] = w
  \/ t = Monitor /\ mpc \in {"wait", "drain", "read"} /\ mw = w

\* Task t waits for the lock of worker w.
Waits(t, w) ==
  \/ t \in Calls /\ pc[t] = "wait" /\ on[t] = w
  \/ t = Monitor /\ mpc = "wait" /\ mw = w

HolderIsAt == \A w \in Workers : holder[w] # NoOne => At(holder[w], w)

InsideHolds ==
  /\ \A c \in Calls : pc[c] \in {"drain", "read"} => holder[on[c]] = c /\ busy[on[c]]
  /\ mpc \in {"drain", "read"} => holder[mw] = Monitor

BusyIsInside ==
  \A w \in Workers :
    busy[w] => holder[w] \in Calls /\ pc[holder[w]] \in {"drain", "read"}

QueueWaits ==
  \A w \in Workers : \A i \in 1..Len(waiters[w]) :
    Waits(waiters[w][i], w) /\ waiters[w][i] # holder[w]

QueueDistinct ==
  \A w \in Workers : \A i, j \in 1..Len(waiters[w]) :
    waiters[w][i] = waiters[w][j] => i = j

MonitorOff == phase \in {"new", "starting"} => mpc = "off"

LockInv ==
  /\ LockTypes /\ HolderIsAt /\ InsideHolds /\ BusyIsInside
  /\ QueueWaits /\ QueueDistinct /\ MonitorOff
-----------------------------------------------------------------------------
USE PoolAssumption

LEMMA TasksDistinct ==
  /\ Monitor \notin Calls /\ NoOne \notin Calls /\ NoOne # Monitor
  /\ Tasks = Calls \cup {Monitor}
  /\ 0 \in Workers
BY DEF Tasks, Workers

\* What the inductive invariant says of busy: no call is inside an idle worker,
\* one is inside a busy one.
LEMMA LockInvDiscipline == LockInv => LockDiscipline
<1> SUFFICES ASSUME LockInv, NEW w \in Workers
             PROVE  Inside(w) = IF busy[w] THEN {holder[w]} ELSE {}
  BY DEF LockDiscipline
<1> USE DEF LockInv, Inside
<1>1. CASE busy[w]
  <2>1. holder[w] \in Calls /\ pc[holder[w]] \in {"drain", "read"}
    BY <1>1 DEF BusyIsInside
  <2>2. on[holder[w]] = w
    BY <2>1, TasksDistinct DEF HolderIsAt, At
  <2>3. \A c \in Inside(w) : c = holder[w]
    BY DEF InsideHolds
  <2>4. QED
    BY <1>1, <2>1, <2>2, <2>3
<1>2. CASE ~busy[w]
  BY <1>2 DEF InsideHolds
<1>3. QED
  BY <1>1, <1>2 DEF LockTypes

LEMMA LockInit == Init => LockInv
<1> SUFFICES ASSUME Init PROVE LockInv
  OBVIOUS
<1>1. LockTypes
  BY TasksDistinct DEF Init, LockTypes, Workers
<1>2. HolderIsAt /\ InsideHolds /\ BusyIsInside /\ MonitorOff
  BY DEF Init, HolderIsAt, InsideHolds, BusyIsInside, MonitorOff
<1>3. QueueWaits /\ QueueDistinct
  BY DEF Init, QueueWaits, QueueDistinct
<1>4. QED
  BY <1>1, <1>2, <1>3 DEF LockInv

LEMMA LockUnchanged ==
  ASSUME LockInv, UNCHANGED LockState
  PROVE  LockInv'
BY DEF LockInv, LockState, LockTypes, HolderIsAt, InsideHolds, BusyIsInside, QueueWaits,
       QueueDistinct, MonitorOff, At, Waits
-----------------------------------------------------------------------------
\* The first in the queue becomes the holder.
LEMMA ReleaseHolds ==
  ASSUME LockInv, NEW w \in Workers, Release(w)
  PROVE  /\ holder' \in [Workers -> Tasks \cup {NoOne}]
         /\ waiters' \in [Workers -> Seq(Tasks)]
         /\ \A v \in Workers \ {w} : holder'[v] = holder[v] /\ waiters'[v] = waiters[v]
         /\ holder'[w] # NoOne => Waits(holder'[w], w) /\ holder'[w] # holder[w]
         /\ \A i \in 1..Len(waiters'[w]) :
              /\ Waits(waiters'[w][i], w)
              /\ waiters'[w][i] # holder[w] /\ waiters'[w][i] # holder'[w]
         /\ \A i, j \in 1..Len(waiters'[w]) : waiters'[w][i] = waiters'[w][j] => i = j
<1> DEFINE q == waiters[w]
<1>0. q \in Seq(Tasks) /\ waiters \in [Workers -> Seq(Tasks)]
      /\ holder \in [Workers -> Tasks \cup {NoOne}]
  BY DEF LockInv, LockTypes
<1>1. CASE q = <<>>
  <2>1. holder' = [holder EXCEPT ![w] = NoOne] /\ waiters' = waiters
    BY <1>1 DEF Release
  <2>2. holder'[w] = NoOne /\ waiters'[w] = <<>> /\ Len(waiters'[w]) = 0
    BY <1>0, <1>1, <2>1
  <2>3. /\ holder' \in [Workers -> Tasks \cup {NoOne}]
        /\ \A v \in Workers \ {w} : holder'[v] = holder[v] /\ waiters'[v] = waiters[v]
    BY <1>0, <2>1
  <2>4. QED
    BY <1>0, <2>1, <2>2, <2>3
<1>2. CASE q # <<>>
  <2>1. /\ Head(q) \in Tasks /\ Head(q) = q[1]
        /\ Tail(q) \in Seq(Tasks) /\ Len(Tail(q)) = Len(q) - 1 /\ Len(q) \in Nat \ {0}
        /\ \A i \in 1..Len(Tail(q)) : Tail(q)[i] = q[i + 1]
    BY <1>0, <1>2, HeadTailProperties
  <2>2. /\ holder' = [holder EXCEPT ![w] = Head(q)]
        /\ waiters' = [waiters EXCEPT ![w] = Tail(q)]
    BY <1>2 DEF Release
  <2>3. /\ \A i \in 1..Len(q) : Waits(q[i], w) /\ q[i] # holder[w]
        /\ \A i, j \in 1..Len(q) : q[i] = q[j] => i = j
    BY DEF LockInv, QueueWaits, QueueDistinct
  <2>4. holder'[w] = q[1] /\ waiters'[w] = Tail(q)
    BY <1>0, <2>1, <2>2
  <2>5. \A i \in 1..Len(Tail(q)) :
          Waits(Tail(q)[i], w) /\ Tail(q)[i] # holder[w] /\ Tail(q)[i] # q[1]
    BY <2>1, <2>3
  <2>6. \A i, j \in 1..Len(Tail(q)) : Tail(q)[i] = Tail(q)[j] => i = j
    <3>1. SUFFICES ASSUME NEW i \in 1..Len(Tail(q)), NEW j \in 1..Len(Tail(q)),
                          Tail(q)[i] = Tail(q)[j]
                   PROVE  i = j
      OBVIOUS
    <3>2. i + 1 \in 1..Len(q) /\ j + 1 \in 1..Len(q) /\ q[i + 1] = q[j + 1]
      BY <2>1, <3>1
    <3>3. i + 1 = j + 1
      BY <2>3, <3>2
    <3>4. QED
      BY <3>3
  <2>7. Waits(q[1], w) /\ q[1] # holder[w]
    BY <2>1, <2>3
  <2>8. /\ holder' \in [Workers -> Tasks \cup {NoOne}]
        /\ waiters' \in [Workers -> Seq(Tasks)]
        /\ \A v \in Workers \ {w} : holder'[v] = holder[v] /\ waiters'[v] = waiters[v]
    BY <1>0, <2>1, <2>2
  <2>9. QED
    BY <2>4, <2>5, <2>6, <2>7, <2>8
<1>3. QED
  BY <1>1, <1>2

\* A call that holds the lock leaves it.
LEMMA CallLeaves ==
  ASSUME LockInv, NEW c \in Calls,
         pc[c] \in {"wait", "drain", "read"}, holder[on[c]] = c, Release(on[c]),
         busy' = [busy EXCEPT ![on[c]] = FALSE],
         NEW x \in {"scan"} \cup Over, pc' = [pc EXCEPT ![c] = x],
         UNCHANGED <<on, mpc, mw, phase>>
  PROVE  LockInv'
<1> DEFINE w == on[c]
<1> USE DEF Over
<1>1. /\ w \in Workers
      /\ LockTypes /\ HolderIsAt /\ InsideHolds /\ BusyIsInside
      /\ QueueWaits /\ QueueDistinct /\ MonitorOff
  BY DEF LockInv, LockTypes
<1>2. /\ holder' \in [Workers -> Tasks \cup {NoOne}]
      /\ waiters' \in [Workers -> Seq(Tasks)]
      /\ \A v \in Workers \ {w} : holder'[v] = holder[v] /\ waiters'[v] = waiters[v]
      /\ holder'[w] # NoOne => Waits(holder'[w], w) /\ holder'[w] # c
      /\ \A i \in 1..Len(waiters'[w]) :
           /\ Waits(waiters'[w][i], w)
           /\ waiters'[w][i] # c /\ waiters'[w][i] # holder'[w]
      /\ \A i, j \in 1..Len(waiters'[w]) : waiters'[w][i] = waiters'[w][j] => i = j
  BY <1>1, ReleaseHolds
<1>3. \A t, v : t # c => (At(t, v)' <=> At(t, v)) /\ (Waits(t, v)' <=> Waits(t, v))
  BY <1>1, TasksDistinct DEF At, Waits, LockTypes
<1>4. \A v : (At(c, v) => v = w) /\ (Waits(c, v) => v = w)
  BY <1>1, TasksDistinct DEF At, Waits
<1>5. LockTypes'
  BY <1>1, <1>2 DEF LockTypes
<1>6. \A v \in Workers : holder'[v] # NoOne => holder'[v] # c /\ At(holder'[v], v)
  BY <1>1, <1>2, <1>4 DEF HolderIsAt, At, Waits
<1>7. HolderIsAt'
  BY <1>3, <1>6 DEF HolderIsAt
<1>8. InsideHolds'
  <2>1. \A d \in Calls : pc'[d] \in {"drain", "read"} =>
          d # c /\ pc[d] \in {"drain", "read"} /\ on[d] # w
    BY <1>1 DEF InsideHolds, LockTypes
  <2>2. \A d \in Calls : pc'[d] \in {"drain", "read"} =>
          holder'[on[d]] = d /\ busy'[on[d]]
    BY <1>1, <1>2, <2>1 DEF InsideHolds, LockTypes
  <2>3. mpc \in {"drain", "read"} => mw # w /\ holder'[mw] = Monitor
    BY <1>1, <1>2, TasksDistinct DEF InsideHolds, LockTypes
  <2>4. QED
    BY <2>2, <2>3 DEF InsideHolds
<1>9. BusyIsInside'
  <2>1. \A v \in Workers : busy'[v] => v # w /\ busy[v]
    BY <1>1 DEF LockTypes
  <2>2. \A v \in Workers : busy[v] /\ v # w => holder[v] # c
    BY <1>1, <1>4, TasksDistinct DEF HolderIsAt, BusyIsInside
  <2>3. QED
    BY <1>1, <1>2, <2>1, <2>2 DEF BusyIsInside, LockTypes
<1>10. QueueWaits'
  <2>1. \A v \in Workers : \A i \in 1..Len(waiters'[v]) :
          waiters'[v][i] # c /\ Waits(waiters'[v][i], v) /\ waiters'[v][i] # holder'[v]
    BY <1>1, <1>2, <1>4 DEF QueueWaits
  <2>2. QED
    BY <1>3, <2>1 DEF QueueWaits
<1>11. QueueDistinct'
  BY <1>1, <1>2 DEF QueueDistinct
<1>12. QED
  BY <1>1, <1>5, <1>7, <1>8, <1>9, <1>10, <1>11 DEF LockInv, MonitorOff

\* The monitor leaves the lock it holds.
LEMMA MonitorLeaves ==
  ASSUME LockInv, mpc \in {"wait", "drain", "read"}, holder[mw] = Monitor, Release(mw),
         mpc' \in {"next", "restart", "off"}, phase' \notin {"new", "starting"},
         UNCHANGED <<busy, pc, on, mw>>
  PROVE  LockInv'
<1> DEFINE w == mw
<1>1. /\ w \in Workers
      /\ LockTypes /\ HolderIsAt /\ InsideHolds /\ BusyIsInside
      /\ QueueWaits /\ QueueDistinct /\ MonitorOff
  BY DEF LockInv, LockTypes
<1>2. /\ holder' \in [Workers -> Tasks \cup {NoOne}]
      /\ waiters' \in [Workers -> Seq(Tasks)]
      /\ \A v \in Workers \ {w} : holder'[v] = holder[v] /\ waiters'[v] = waiters[v]
      /\ holder'[w] # NoOne => Waits(holder'[w], w) /\ holder'[w] # Monitor
      /\ \A i \in 1..Len(waiters'[w]) :
           /\ Waits(waiters'[w][i], w)
           /\ waiters'[w][i] # Monitor /\ waiters'[w][i] # holder'[w]
      /\ \A i, j \in 1..Len(waiters'[w]) : waiters'[w][i] = waiters'[w][j] => i = j
  BY <1>1, ReleaseHolds
<1>3. \A t, v : t # Monitor => (At(t, v)' <=> At(t, v)) /\ (Waits(t, v)' <=> Waits(t, v))
  BY DEF At, Waits
<1>4. \A v : (At(Monitor, v) => v = w) /\ (Waits(Monitor, v) => v = w)
  BY TasksDistinct DEF At, Waits
<1>5. LockTypes'
  BY <1>1, <1>2 DEF LockTypes
<1>6. \A v \in Workers : holder'[v] # NoOne => holder'[v] # Monitor /\ At(holder'[v], v)
  BY <1>1, <1>2, <1>4 DEF HolderIsAt, At, Waits
<1>7. HolderIsAt'
  BY <1>3, <1>6 DEF HolderIsAt
<1>8. \A v \in Workers : busy[v] => v # w
  BY <1>1, TasksDistinct DEF BusyIsInside
<1>9. InsideHolds' /\ BusyIsInside'
  <2>1. \A d \in Calls : pc[d] \in {"drain", "read"} => on[d] # w /\ holder'[on[d]] = d
    BY <1>1, <1>2, <1>8 DEF InsideHolds, LockTypes
  <2>2. QED
    BY <1>1, <1>2, <1>8, <2>1 DEF InsideHolds, BusyIsInside
<1>10. QueueWaits'
  <2>1. \A v \in Workers : \A i \in 1..Len(waiters'[v]) :
          waiters'[v][i] # Monitor /\ Waits(waiters'[v][i], v)
          /\ waiters'[v][i] # holder'[v]
    BY <1>1, <1>2, <1>4 DEF QueueWaits
  <2>2. QED
    BY <1>3, <2>1 DEF QueueWaits
<1>11. QueueDistinct'
  BY <1>1, <1>2 DEF QueueDistinct
<1>12. QED
  BY <1>1, <1>5, <1>7, <1>9, <1>10, <1>11 DEF LockInv, MonitorOff

\* Acquire makes the task the holder of a free lock or the last in the queue.
LEMMA AcquireQueues ==
  ASSUME LockInv, NEW w \in Workers, NEW t \in Tasks, Acquire(w, t),
         \A v \in Workers : ~At(t, v)
  PROVE  /\ holder' \in [Workers -> Tasks \cup {NoOne}]
         /\ waiters' \in [Workers -> Seq(Tasks)]
         /\ \A v \in Workers \ {w} : holder'[v] = holder[v] /\ waiters'[v] = waiters[v]
         /\ holder[w] # NoOne => holder'[w] = holder[w]
         /\ holder[w] = NoOne => holder'[w] = t
         /\ \A i \in 1..Len(waiters'[w]) :
              /\ waiters'[w][i] # t => Waits(waiters'[w][i], w)
              /\ waiters'[w][i] # holder'[w]
         /\ \A i, j \in 1..Len(waiters'[w]) : waiters'[w][i] = waiters'[w][j] => i = j
<1> DEFINE q == waiters[w]
<1>0. q \in Seq(Tasks) /\ waiters \in [Workers -> Seq(Tasks)]
      /\ holder \in [Workers -> Tasks \cup {NoOne}]
  BY DEF LockInv, LockTypes
<1>1. /\ \A i \in 1..Len(q) : Waits(q[i], w) /\ q[i] # holder[w]
      /\ \A i, j \in 1..Len(q) : q[i] = q[j] => i = j
  BY DEF LockInv, QueueWaits, QueueDistinct
<1>2. \A i \in 1..Len(q) : q[i] # t
  BY <1>1 DEF At, Waits
<1>3. holder[w] # t
  BY TasksDistinct DEF LockInv, HolderIsAt
<1>4. CASE holder[w] = NoOne
  <2>1. holder' = [holder EXCEPT ![w] = t] /\ waiters' = waiters
    BY <1>4 DEF Acquire
  <2>2. holder'[w] = t /\ waiters'[w] = q
    BY <1>0, <2>1
  <2>3. /\ holder' \in [Workers -> Tasks \cup {NoOne}]
        /\ \A v \in Workers \ {w} : holder'[v] = holder[v] /\ waiters'[v] = waiters[v]
    BY <1>0, <2>1
  <2>4. QED
    BY <1>0, <1>1, <1>2, <1>4, <2>1, <2>2, <2>3
<1>5. CASE holder[w] # NoOne
  <2>1. holder' = holder /\ waiters' = [waiters EXCEPT ![w] = Append(q, t)]
    BY <1>5 DEF Acquire
  <2>2. /\ Append(q, t) \in Seq(Tasks) /\ Len(Append(q, t)) = Len(q) + 1
        /\ \A i \in 1..Len(q) : Append(q, t)[i] = q[i]
        /\ Append(q, t)[Len(q) + 1] = t /\ Len(q) \in Nat
    BY <1>0, AppendProperties
  <2>3. waiters'[w] = Append(q, t) /\ waiters' \in [Workers -> Seq(Tasks)]
    BY <1>0, <2>1, <2>2
  <2>4. \A i \in 1..Len(Append(q, t)) : i \in 1..Len(q) \/ i = Len(q) + 1
    BY <2>2
  <2>5. \A i \in 1..Len(Append(q, t)) :
          /\ Append(q, t)[i] # t => Waits(Append(q, t)[i], w)
          /\ Append(q, t)[i] # holder[w]
    BY <1>1, <1>3, <2>2, <2>4
  <2>6. \A i, j \in 1..Len(Append(q, t)) : Append(q, t)[i] = Append(q, t)[j] => i = j
    BY <1>1, <1>2, <2>2, <2>4
  <2>7. \A v \in Workers \ {w} : holder'[v] = holder[v] /\ waiters'[v] = waiters[v]
    BY <1>0, <2>1
  <2>8. QED
    BY <1>0, <1>5, <2>1, <2>3, <2>5, <2>6, <2>7
<1>6. QED
  BY <1>4, <1>5

\* A task comes to the lock of a worker.  What a task is doing is its pc and
\* its worker, or mpc and mw.
LEMMA TaskEnters ==
  ASSUME LockInv, NEW w \in Workers, NEW t \in Tasks, Acquire(w, t),
         \A v \in Workers : ~At(t, v),
         Waits(t, w)', \A v \in Workers : Waits(t, v)' => v = w,
         \A u \in Tasks \ {t}, v \in Workers :
           (At(u, v)' <=> At(u, v)) /\ (Waits(u, v)' <=> Waits(u, v)),
         \A d \in Calls : pc'[d] \in {"drain", "read"}
           <=> pc[d] \in {"drain", "read"},
         \A d \in Calls : pc[d] \in {"drain", "read"} => on'[d] = on[d],
         mpc' \in {"drain", "read"} => mpc \in {"drain", "read"} /\ mw' = mw,
         LockTypes', MonitorOff', busy' = busy
  PROVE  LockInv'
<1>1. LockTypes /\ HolderIsAt /\ InsideHolds /\ BusyIsInside /\ QueueWaits /\ QueueDistinct
  BY DEF LockInv
<1>2. /\ \A v \in Workers \ {w} : holder'[v] = holder[v] /\ waiters'[v] = waiters[v]
      /\ holder[w] # NoOne => holder'[w] = holder[w]
      /\ holder[w] = NoOne => holder'[w] = t
      /\ \A i \in 1..Len(waiters'[w]) :
           /\ waiters'[w][i] # t => Waits(waiters'[w][i], w)
           /\ waiters'[w][i] # holder'[w]
      /\ \A i, j \in 1..Len(waiters'[w]) : waiters'[w][i] = waiters'[w][j] => i = j
      /\ waiters' \in [Workers -> Seq(Tasks)]
  BY AcquireQueues
<1>3. \A v \in Workers : holder[v] # NoOne =>
        holder'[v] = holder[v] /\ holder[v] # t /\ holder[v] \in Tasks /\ At(holder[v], v)
  BY <1>1, <1>2 DEF HolderIsAt, LockTypes
<1>4. HolderIsAt'
  <2>1. \A v \in Workers : holder'[v] # NoOne => At(holder[v], v)'
    <3>1. SUFFICES ASSUME NEW v \in Workers, holder'[v] # NoOne PROVE At(holder[v], v)'
      OBVIOUS
    <3>2. CASE holder[v] # NoOne
      BY <1>3, <3>2
    <3>3. CASE holder[v] = NoOne
      <4>1. v = w /\ holder'[v] = t
        BY <1>2, <3>1, <3>3
      <4>2. At(t, w)'
        BY DEF At, Waits
      <4>3. QED
        BY <4>1, <4>2
    <3>4. QED
      BY <3>2, <3>3
  <2>2. QED
    BY <2>1 DEF HolderIsAt
<1>5. InsideHolds'
  <2>1. \A d \in Calls : pc[d] \in {"drain", "read"} => holder'[on[d]] = d /\ busy[on[d]]
    BY <1>1, <1>3, TasksDistinct DEF InsideHolds, LockTypes
  <2>2. mpc \in {"drain", "read"} => holder'[mw] = Monitor
    BY <1>1, <1>3, TasksDistinct DEF InsideHolds, LockTypes
  <2>3. QED
    BY <2>1, <2>2 DEF InsideHolds
<1>6. BusyIsInside'
  <2>1. \A v \in Workers : busy[v] => holder[v] \in Calls /\ holder'[v] = holder[v]
    BY <1>1, <1>3, TasksDistinct DEF BusyIsInside
  <2>2. QED
    BY <1>1, <2>1 DEF BusyIsInside
<1>7. QueueWaits'
  <2>1. \A v \in Workers : \A i \in 1..Len(waiters'[v]) :
          /\ waiters'[v][i] \in Tasks /\ waiters'[v][i] # holder'[v]
          /\ waiters'[v][i] # t => Waits(waiters'[v][i], v)
          /\ waiters'[v][i] = t => v = w
    BY <1>1, <1>2 DEF QueueWaits, At, Waits
  <2>2. QED
    BY <2>1 DEF QueueWaits
<1>8. QueueDistinct'
  BY <1>1, <1>2 DEF QueueDistinct
<1>9. QED
  BY <1>4, <1>5, <1>6, <1>7, <1>8 DEF LockInv

\* A queue without one task.
LEMMA WithoutTask ==
  ASSUME NEW q \in Seq(Tasks), NEW k \in 1..Len(q),
         \A i, j \in 1..Len(q) : q[i] = q[j] => i = j
  PROVE  /\ Without(q, k) \in Seq(Tasks)
         /\ \A i \in 1..Len(Without(q, k)) :
              /\ Without(q, k)[i] # q[k]
              /\ \E j \in 1..Len(q) : Without(q, k)[i] = q[j]
         /\ \A i, j \in 1..Len(Without(q, k)) :
              Without(q, k)[i] = Without(q, k)[j] => i = j
<1> DEFINE r == Without(q, k)
           at(i) == IF i < k THEN i ELSE i + 1
<1>1. Len(q) \in Nat \ {0} /\ \A i \in 1..Len(q) : q[i] \in Tasks
  BY ElementOfSeq
<1>2. \A i \in 1..(Len(q) - 1) : at(i) \in 1..Len(q) /\ at(i) # k
  BY <1>1
<1>3. r = [i \in 1..(Len(q) - 1) |-> q[at(i)]]
  BY DEF Without
<1>4. r \in Seq(Tasks) /\ Len(r) = Len(q) - 1
  <2>1. Len(q) - 1 \in Nat /\ r \in [1..(Len(q) - 1) -> Tasks]
    BY <1>1, <1>2, <1>3
  <2>2. QED
    BY <2>1, SeqDef, LenProperties
<1>5. \A i \in 1..(Len(q) - 1) : r[i] = q[at(i)]
  BY <1>3
<1>6. \A i, j \in 1..(Len(q) - 1) : at(i) = at(j) => i = j
  BY <1>1
<1>7. \A i, j \in 1..Len(r) : r[i] = r[j] => i = j
  <2>1. SUFFICES ASSUME NEW i \in 1..Len(r), NEW j \in 1..Len(r), r[i] = r[j]
                 PROVE  i = j
    OBVIOUS
  <2>2. q[at(i)] = q[at(j)] /\ at(i) \in 1..Len(q) /\ at(j) \in 1..Len(q)
    BY <1>2, <1>4, <1>5, <2>1
  <2>3. at(i) = at(j)
    BY <2>2
  <2>4. QED
    BY <1>4, <1>6, <2>3
<1>8. \A i \in 1..Len(r) : r[i] # q[k] /\ \E j \in 1..Len(q) : r[i] = q[j]
  BY <1>2, <1>4, <1>5
<1>9. QED
  BY <1>4, <1>7, <1>8

\* A waiting task is cancelled.
LEMMA TaskLeavesQueue ==
  ASSUME LockInv, NEW w \in Workers, NEW t \in Tasks, NEW k \in 1..Len(waiters[w]),
         waiters[w][k] = t, waiters' = [waiters EXCEPT ![w] = Without(@, k)],
         UNCHANGED <<holder, busy>>,
         \A u \in Tasks \ {t}, v \in Workers :
           (At(u, v)' <=> At(u, v)) /\ (Waits(u, v)' <=> Waits(u, v)),
         \A d \in Calls : pc'[d] \in {"drain", "read"}
           <=> pc[d] \in {"drain", "read"},
         \A d \in Calls : pc[d] \in {"drain", "read"} => on'[d] = on[d],
         mpc' \in {"drain", "read"} => mpc \in {"drain", "read"} /\ mw' = mw,
         LockTypes', MonitorOff'
  PROVE  LockInv'
<1>1. LockTypes /\ HolderIsAt /\ InsideHolds /\ BusyIsInside /\ QueueWaits /\ QueueDistinct
  BY DEF LockInv
<1>2. /\ Without(waiters[w], k) \in Seq(Tasks)
      /\ \A i \in 1..Len(Without(waiters[w], k)) :
           /\ Without(waiters[w], k)[i] # t
           /\ \E j \in 1..Len(waiters[w]) : Without(waiters[w], k)[i] = waiters[w][j]
      /\ \A i, j \in 1..Len(Without(waiters[w], k)) :
           Without(waiters[w], k)[i] = Without(waiters[w], k)[j] => i = j
  <2>1. waiters[w] \in Seq(Tasks)
    BY <1>1 DEF LockTypes
  <2>2. \A i, j \in 1..Len(waiters[w]) : waiters[w][i] = waiters[w][j] => i = j
    BY <1>1 DEF QueueDistinct
  <2>3. QED
    BY <2>1, <2>2, WithoutTask
<1>3. /\ waiters'[w] = Without(waiters[w], k)
      /\ \A v \in Workers \ {w} : waiters'[v] = waiters[v]
  BY <1>1 DEF LockTypes
<1>4. \A v \in Workers : (At(t, v) \/ Waits(t, v)) => v = w
  BY <1>1, TasksDistinct DEF QueueWaits, At, Waits
<1>5. \A v \in Workers : holder[v] # t
  BY <1>1, <1>4, TasksDistinct DEF HolderIsAt, QueueWaits
<1>6. HolderIsAt'
  BY <1>1, <1>5 DEF HolderIsAt, LockTypes
<1>7. InsideHolds' /\ BusyIsInside'
  BY <1>1 DEF InsideHolds, BusyIsInside
<1>8. QueueWaits'
  <2>1. ASSUME NEW v \in Workers, NEW i \in 1..Len(waiters'[v])
        PROVE  /\ waiters'[v][i] # t /\ Waits(waiters'[v][i], v)
               /\ waiters'[v][i] # holder[v]
    <3>1. CASE v = w
      <4> DEFINE r == Without(waiters[w], k)
      <4>0. waiters'[v] = r /\ i \in 1..Len(r)
        BY <1>3, <2>1, <3>1
      <4> HIDE DEF r
      <4>1. \E j \in 1..Len(waiters[w]) : r[i] = waiters[w][j]
        BY <1>2, <4>0 DEF r
      <4>2. r[i] # t
        BY <1>2, <4>0 DEF r
      <4>3. \A j \in 1..Len(waiters[w]) :
              Waits(waiters[w][j], w) /\ waiters[w][j] # holder[w]
        BY <1>1 DEF QueueWaits
      <4> QED
        BY <3>1, <4>0, <4>1, <4>2, <4>3
    <3>2. CASE v # w
      BY <1>1, <1>3, <1>4, <3>2 DEF QueueWaits
    <3> QED
      BY <3>1, <3>2
  <2>2. \A u, v : Waits(u, v) => u \in Tasks
    BY DEF Waits, Tasks
  <2>3. QED
    BY <2>1, <2>2 DEF QueueWaits
<1>9. QueueDistinct'
  BY <1>1, <1>2, <1>3 DEF QueueDistinct
<1>10. QED
  BY <1>6, <1>7, <1>8, <1>9 DEF LockInv
-----------------------------------------------------------------------------
\* The steps of a call.
LEMMA CallFails ==
  ASSUME LockInv, NEW c \in Calls, pc[c] \in {"wait", "drain", "read"},
         holder[on[c]] = c, AttemptFails(c), UNCHANGED <<mpc, mw, phase>>
  PROVE  LockInv'
<1>1. /\ Release(on[c]) /\ busy' = [busy EXCEPT ![on[c]] = FALSE]
      /\ on' = on
      /\ \E x \in {"scan"} \cup Over : pc' = [pc EXCEPT ![c] = x]
  BY DEF AttemptFails, Over
<1>2. QED
  BY <1>1, CallLeaves

LEMMA CallSteps ==
  ASSUME LockInv, next \in Workers, NEW c \in Calls,
         Call(c) \/ CallStep(c) \/ Cancel(c) \/ WorkerError(c)
  PROVE  LockInv'
<1>1. LockTypes /\ HolderIsAt /\ InsideHolds /\ BusyIsInside /\ QueueWaits
      /\ QueueDistinct /\ MonitorOff
  BY DEF LockInv
<1>2. pc[c] \in {"drain", "read"} => holder[on[c]] = c
  BY <1>1 DEF InsideHolds
<1> USE DEF Over
<1>3. CASE Call(c)
  <2>1. pc[c] = "idle" /\ UNCHANGED <<busy, holder, waiters, on, mpc, mw, phase>>
    BY <1>3 DEF Call, poolVars, besideCalls, lockVars, monVars
  <2>2. \E x \in {"scan", "failed"} : pc' = [pc EXCEPT ![c] = x]
    BY <1>3 DEF Call
  <2>3. LockTypes'
    BY <1>1, <2>1, <2>2 DEF LockTypes
  <2>4. \A t, v : (At(t, v)' <=> At(t, v)) /\ (Waits(t, v)' <=> Waits(t, v))
    BY <1>1, <2>1, <2>2 DEF At, Waits, LockTypes
  <2>5. \A d \in Calls : pc'[d] \in {"drain", "read"} <=> pc[d] \in {"drain", "read"}
    BY <1>1, <2>1, <2>2 DEF LockTypes
  <2>6. HolderIsAt' /\ QueueWaits'
    BY <1>1, <2>1, <2>4 DEF HolderIsAt, QueueWaits
  <2>7. InsideHolds' /\ BusyIsInside'
    BY <1>1, <2>1, <2>5 DEF InsideHolds, BusyIsInside
  <2>8. QueueDistinct' /\ MonitorOff'
    BY <1>1, <2>1 DEF QueueDistinct, MonitorOff
  <2>9. QED
    BY <2>3, <2>6, <2>7, <2>8 DEF LockInv
<1>4. CASE Scan(c)
  <2>1. pc[c] = "scan" /\ UNCHANGED <<busy, mpc, mw, phase>>
    BY <1>4 DEF Scan, monVars
  <2>2. CASE UNCHANGED <<holder, waiters, turn, pc, on>>
    BY <2>1, <2>2, LockUnchanged DEF LockState
  <2>3. CASE /\ Acquire(next, c) /\ pc' = [pc EXCEPT ![c] = "wait"]
             /\ on' = [on EXCEPT ![c] = next]
    <3>1. PICK v \in Workers : v = next
      OBVIOUS
    <3>2. Acquire(v, c) /\ on' = [on EXCEPT ![c] = v]
      BY <2>3, <3>1
    <3>3. c \in Tasks /\ \A u \in Workers : ~At(c, u)
      BY <2>1, TasksDistinct DEF At
    <3>4. /\ holder' \in [Workers -> Tasks \cup {NoOne}]
          /\ waiters' \in [Workers -> Seq(Tasks)]
      BY <3>2, <3>3, AcquireQueues
    <3>5. LockTypes' /\ MonitorOff'
      BY <1>1, <2>1, <2>3, <3>2, <3>4 DEF LockTypes, MonitorOff
    <3>6. Waits(c, v)' /\ \A u \in Workers : Waits(c, u)' => u = v
      BY <1>1, <2>3, <3>2, TasksDistinct DEF Waits, LockTypes
    <3>7. \A t \in Tasks \ {c}, u \in Workers :
            (At(t, u)' <=> At(t, u)) /\ (Waits(t, u)' <=> Waits(t, u))
      BY <1>1, <2>1, <2>3, <3>2 DEF At, Waits, LockTypes
    <3>8. \A d \in Calls : /\ pc'[d] \in {"drain", "read"} <=> pc[d] \in {"drain", "read"}
                           /\ pc[d] \in {"drain", "read"} => on'[d] = on[d]
      BY <1>1, <2>1, <2>3, <3>2 DEF LockTypes
    <3>9. QED
      BY <2>1, <3>2, <3>3, <3>5, <3>6, <3>7, <3>8, TaskEnters
  <2>4. QED
    BY <1>4, <2>2, <2>3 DEF Scan
<1>5. CASE Begin(c)
  <2>1. pc[c] = "wait" /\ holder[on[c]] = c /\ UNCHANGED <<mpc, mw, phase>>
    BY <1>5 DEF Begin, poolVars, besideCalls, monVars
  <2>2. CASE AttemptFails(c)
    BY <2>1, <2>2, CallFails
  <2>3. CASE /\ busy' = [busy EXCEPT ![on[c]] = TRUE]
             /\ pc' = [pc EXCEPT ![c] = "drain"]
             /\ UNCHANGED <<holder, waiters, on>>
    <3>1. LockTypes' /\ MonitorOff'
      BY <1>1, <2>1, <2>3 DEF LockTypes, MonitorOff
    <3>2. \A t, v : At(t, v)' <=> At(t, v)
      BY <1>1, <2>1, <2>3 DEF At, LockTypes
    <3>3. \A t, v : t # c => (Waits(t, v)' <=> Waits(t, v))
      BY <1>1, <2>1, <2>3 DEF Waits, LockTypes
    <3>4. \A v \in Workers : \A i \in 1..Len(waiters[v]) : waiters[v][i] # c
      BY <1>1, <2>1, TasksDistinct DEF QueueWaits, Waits
    <3>5. HolderIsAt' /\ QueueWaits' /\ QueueDistinct'
      BY <1>1, <2>3, <3>2, <3>3, <3>4 DEF HolderIsAt, QueueWaits, QueueDistinct
    <3>6. InsideHolds'
      BY <1>1, <2>1, <2>3 DEF InsideHolds, LockTypes
    <3>7. BusyIsInside'
      BY <1>1, <2>1, <2>3 DEF BusyIsInside, LockTypes
    <3>8. QED
      BY <3>1, <3>5, <3>6, <3>7 DEF LockInv
  <2>4. QED
    BY <1>5, <2>2, <2>3 DEF Begin
<1>6. CASE Drained(c)
  <2>1. pc[c] = "drain" /\ UNCHANGED <<mpc, mw, phase>>
    BY <1>6 DEF Drained, poolVars, besideCalls, monVars
  <2>2. CASE AttemptFails(c)
    BY <1>2, <2>1, <2>2, CallFails
  <2>3. CASE pc' = [pc EXCEPT ![c] = "read"] /\ UNCHANGED <<lockVars, on>>
    <3>1. LockTypes' /\ MonitorOff' /\ UNCHANGED <<busy, holder, waiters, on>>
      BY <1>1, <2>1, <2>3 DEF LockTypes, MonitorOff, lockVars
    <3>2. \A t, v : (At(t, v)' <=> At(t, v)) /\ (Waits(t, v)' <=> Waits(t, v))
      BY <1>1, <2>1, <2>3 DEF At, Waits, LockTypes
    <3>3. HolderIsAt' /\ QueueWaits' /\ QueueDistinct'
      BY <1>1, <3>1, <3>2 DEF HolderIsAt, QueueWaits, QueueDistinct
    <3>4. InsideHolds' /\ BusyIsInside'
      BY <1>1, <2>1, <2>3, <3>1 DEF InsideHolds, BusyIsInside, LockTypes
    <3>5. QED
      BY <3>1, <3>3, <3>4 DEF LockInv
  <2>4. QED
    BY <1>6, <2>2, <2>3 DEF Drained
<1>7. CASE Return(c)
  <2>1. pc[c] = "read" /\ UNCHANGED <<mpc, mw, phase>>
    BY <1>7 DEF Return, poolVars, besideCalls, monVars
  <2>2. CASE AttemptFails(c)
    BY <1>2, <2>1, <2>2, CallFails
  <2>3. CASE /\ pc' = [pc EXCEPT ![c] = "done"]
             /\ busy' = [busy EXCEPT ![on[c]] = FALSE]
             /\ Release(on[c]) /\ on' = on
    BY <1>2, <2>1, <2>3, CallLeaves
  <2>4. QED
    BY <1>7, <2>2, <2>3 DEF Return
<1>8. CASE Eof(c) \/ Timeout(c) \/ WorkerError(c)
  <2>1. pc[c] = "read" /\ AttemptFails(c) /\ UNCHANGED <<mpc, mw, phase>>
    BY <1>8 DEF Eof, Timeout, WorkerError, poolVars, besideCalls, monVars
  <2>2. QED
    BY <1>2, <2>1, CallFails
<1>9. CASE Cancel(c)
  <2>1. /\ pc[c] \in {"wait", "drain", "read"} /\ pc' = [pc EXCEPT ![c] = "cancelled"]
        /\ busy' = [busy EXCEPT ![on[c]] = IF pc[c] = "wait" THEN @ ELSE FALSE]
        /\ Abandon(on[c], c) /\ UNCHANGED <<on, mpc, mw, phase>>
    BY <1>9 DEF Cancel, poolVars, besideCalls, monVars
  <2>2. CASE holder[on[c]] = c /\ Release(on[c])
    <3>1. pc[c] = "wait" => ~busy[on[c]]
      BY <1>1, <2>2 DEF BusyIsInside, LockTypes
    <3>2. busy' = [busy EXCEPT ![on[c]] = FALSE]
      BY <1>1, <2>1, <3>1 DEF LockTypes
    <3>3. QED
      BY <2>1, <2>2, <3>2, CallLeaves
  <2>3. CASE \E i \in DOMAIN waiters[on[c]] :
               /\ holder[on[c]] # c /\ waiters[on[c]][i] = c
               /\ waiters' = [waiters EXCEPT ![on[c]] = Without(@, i)]
               /\ UNCHANGED holder
    <3>1. on[c] \in Workers /\ waiters[on[c]] \in Seq(Tasks)
      BY <1>1 DEF LockTypes
    <3>2. PICK k \in 1..Len(waiters[on[c]]) :
               /\ holder[on[c]] # c /\ waiters[on[c]][k] = c
               /\ waiters' = [waiters EXCEPT ![on[c]] = Without(@, k)]
               /\ UNCHANGED holder
      BY <2>3, <3>1, LenProperties
    <3>3. pc[c] = "wait" /\ busy' = busy
      BY <1>1, <1>2, <2>1, <3>2 DEF LockTypes
    <3>4. PICK w \in Workers : w = on[c]
      BY <3>1
    <3>5. Without(waiters[w], k) \in Seq(Tasks)
      BY <1>1, <3>1, <3>4, WithoutTask DEF QueueDistinct
    <3>6. LockTypes' /\ MonitorOff'
      BY <1>1, <2>1, <3>2, <3>3, <3>4, <3>5 DEF LockTypes, MonitorOff
    <3>7. \A t \in Tasks \ {c}, u \in Workers :
            (At(t, u)' <=> At(t, u)) /\ (Waits(t, u)' <=> Waits(t, u))
      BY <1>1, <2>1 DEF At, Waits, LockTypes
    <3>8. \A d \in Calls : pc'[d] \in {"drain", "read"} <=> pc[d] \in {"drain", "read"}
      BY <1>1, <2>1, <3>3 DEF LockTypes
    <3>9. c \in Tasks
      BY TasksDistinct
    <3>10. QED
      BY <2>1, <3>2, <3>3, <3>4, <3>6, <3>7, <3>8, <3>9, TaskLeavesQueue
  <2>4. QED
    BY <2>1, <2>2, <2>3 DEF Abandon
<1>10. QED
  BY <1>3, <1>4, <1>5, <1>6, <1>7, <1>8, <1>9 DEF CallStep

\* The monitor goes from a place outside every lock to the queue of worker v.
LEMMA MonitorEnters ==
  ASSUME LockInv, NEW v \in Workers, mpc \in {"sleep", "next", "restart"},
         Acquire(v, Monitor), mpc' = "wait", mw' = v, UNCHANGED <<busy, pc, on, phase>>
  PROVE  LockInv'
<1>1. LockTypes /\ MonitorOff
  BY DEF LockInv
<1>2. Monitor \in Tasks /\ \A u \in Workers : ~At(Monitor, u)
  BY TasksDistinct DEF At
<1>3. /\ holder' \in [Workers -> Tasks \cup {NoOne}]
      /\ waiters' \in [Workers -> Seq(Tasks)]
  BY <1>2, AcquireQueues
<1>4. LockTypes' /\ MonitorOff'
  BY <1>1, <1>3 DEF LockTypes, MonitorOff
<1>5. Waits(Monitor, v)' /\ \A u \in Workers : Waits(Monitor, u)' => u = v
  BY TasksDistinct DEF Waits
<1>6. \A t \in Tasks \ {Monitor}, u \in Workers :
        (At(t, u)' <=> At(t, u)) /\ (Waits(t, u)' <=> Waits(t, u))
  BY DEF At, Waits
<1>7. QED
  BY <1>2, <1>4, <1>5, <1>6, TaskEnters

\* The monitor moves on without touching a lock.
LEMMA MonitorMoves ==
  ASSUME LockInv, UNCHANGED <<busy, holder, waiters, pc, on, mw>>,
         MonitorOff',
         \/ /\ mpc \in {"wait", "drain"} /\ holder[mw] = Monitor
            /\ mpc' \in {"drain", "read"}
         \/ /\ mpc \notin {"wait", "drain", "read"}
            /\ mpc' \notin {"wait", "drain", "read"}
  PROVE  LockInv'
<1>1. LockTypes /\ HolderIsAt /\ InsideHolds /\ BusyIsInside /\ QueueWaits /\ QueueDistinct
  BY DEF LockInv
<1>2. LockTypes' /\ QueueDistinct' /\ InsideHolds' /\ BusyIsInside'
  BY <1>1 DEF LockTypes, QueueDistinct, InsideHolds, BusyIsInside
<1>3. \A t, v : At(t, v)' <=> At(t, v)
  BY DEF At
<1>4. \A t, v : t # Monitor => (Waits(t, v)' <=> Waits(t, v))
  BY DEF Waits
<1>5. \A v \in Workers : \A i \in 1..Len(waiters[v]) :
        waiters[v][i] = Monitor => mpc = "wait" /\ mw = v /\ holder[v] # Monitor
  BY <1>1, TasksDistinct DEF QueueWaits, Waits
<1>6. HolderIsAt'
  BY <1>1, <1>3 DEF HolderIsAt
<1>7. QueueWaits'
  BY <1>1, <1>4, <1>5 DEF QueueWaits
<1>8. QED
  BY <1>2, <1>6, <1>7 DEF LockInv

LEMMA MonitorSteps ==
  ASSUME LockInv, MonitorStep
  PROVE  LockInv'
<1>1. LockTypes /\ InsideHolds /\ MonitorOff
  BY DEF LockInv
<1>2. mpc \in {"drain", "read"} => holder[mw] = Monitor
  BY <1>1 DEF InsideHolds
<1>3. mpc # "off" => phase \notin {"new", "starting"}
  BY <1>1 DEF MonitorOff
<1>4. CASE MonWake
  <2>1. UNCHANGED <<busy, pc, on, phase>> /\ mpc = "sleep" /\ mpc' = "wait" /\ mw' = 0
        /\ Acquire(0, Monitor)
    BY <1>4 DEF MonWake, poolVars, besideMonitor, callVars
  <2>2. QED
    BY <2>1, MonitorEnters, TasksDistinct
<1>5. CASE MonAsk
  <2>1. mpc = "wait" /\ holder[mw] = Monitor /\ UNCHANGED <<busy, pc, on, mw, phase>>
    BY <1>5 DEF MonAsk, Unhealthy, poolVars, besideMonitor, callVars, lockVars
  <2>2. CASE Unhealthy
    BY <1>3, <2>1, <2>2, MonitorLeaves DEF Unhealthy
  <2>3. CASE mpc' = "drain" /\ UNCHANGED lockVars
    BY <1>3, <2>1, <2>3, MonitorMoves DEF lockVars, MonitorOff
  <2>4. QED
    BY <1>5, <2>2, <2>3 DEF MonAsk
<1>6. CASE MonDrained
  <2>1. mpc = "drain" /\ UNCHANGED <<busy, pc, on, mw, phase>>
    BY <1>6 DEF MonDrained, Unhealthy, poolVars, besideMonitor, callVars, lockVars
  <2>2. CASE Unhealthy
    BY <1>2, <1>3, <2>1, <2>2, MonitorLeaves DEF Unhealthy
  <2>3. CASE mpc' = "read" /\ UNCHANGED lockVars
    BY <1>2, <1>3, <2>1, <2>3, MonitorMoves DEF lockVars, MonitorOff
  <2>4. QED
    BY <1>6, <2>2, <2>3 DEF MonDrained
<1>7. CASE MonRead \/ MonTimeout
  <2>1. /\ mpc = "read" /\ UNCHANGED <<busy, pc, on, mw, phase>>
        /\ Release(mw) /\ mpc' \in {"next", "restart"}
    BY <1>7 DEF MonRead, MonTimeout, Unhealthy, poolVars, besideMonitor, callVars
  <2>2. QED
    BY <1>2, <1>3, <2>1, MonitorLeaves
<1>8. CASE MonGoOn
  <2>1. mpc \in {"next", "restart"} /\ MonNext /\ UNCHANGED <<busy, pc, on, phase>>
    BY <1>8 DEF MonGoOn, poolVars, besideMonitor, callVars
  <2>2. CASE mw + 1 < Size
    <3>1. PICK v \in Workers : v = mw + 1
      BY <1>1, <2>2 DEF LockTypes, Workers
    <3>2. Acquire(v, Monitor) /\ mpc' = "wait" /\ mw' = v
      BY <2>1, <2>2, <3>1 DEF MonNext
    <3>3. QED
      BY <2>1, <3>2, MonitorEnters
  <2>3. CASE ~(mw + 1 < Size)
    BY <1>3, <2>1, <2>3, MonitorMoves DEF MonNext, MonitorOff
  <2>4. QED
    BY <2>2, <2>3
<1>9. QED
  BY <1>4, <1>5, <1>6, <1>7, <1>8 DEF MonitorStep

LEMMA StopSteps ==
  ASSUME LockInv, Stop
  PROVE  LockInv'
<1>1. LockTypes /\ HolderIsAt /\ InsideHolds /\ BusyIsInside /\ QueueWaits
      /\ QueueDistinct /\ MonitorOff
  BY DEF LockInv
<1>2. /\ UNCHANGED <<busy, pc, on, mw>> /\ mpc' = "off"
      /\ phase' \notin {"new", "starting"}
  BY DEF Stop, callVars
<1>3. MonitorOff'
  BY <1>2 DEF MonitorOff
<1>4. CASE mpc \notin {"wait", "drain", "read"}
  BY <1>2, <1>3, <1>4, MonitorMoves DEF Stop
<1>5. CASE mpc \in {"wait", "drain", "read"}
  <2>1. Abandon(mw, Monitor)
    BY <1>5 DEF Stop
  <2>2. CASE holder[mw] = Monitor /\ Release(mw)
    BY <1>2, <1>5, <2>2, MonitorLeaves
  <2>3. CASE \E i \in DOMAIN waiters[mw] :
               /\ holder[mw] # Monitor /\ waiters[mw][i] = Monitor
               /\ waiters' = [waiters EXCEPT ![mw] = Without(@, i)]
               /\ UNCHANGED holder
    <3>1. PICK w \in Workers : w = mw
      BY <1>1 DEF LockTypes
    <3>2. waiters[w] \in Seq(Tasks) /\ Monitor \in Tasks
      BY <1>1, TasksDistinct DEF LockTypes
    <3>3. PICK k \in 1..Len(waiters[w]) :
               /\ waiters[w][k] = Monitor
               /\ waiters' = [waiters EXCEPT ![w] = Without(@, k)]
               /\ UNCHANGED holder
      BY <2>3, <3>1, <3>2, LenProperties
    <3>4. Without(waiters[w], k) \in Seq(Tasks)
      BY <1>1, <3>2, WithoutTask DEF QueueDistinct
    <3>5. LockTypes'
      BY <1>1, <1>2, <3>3, <3>4 DEF LockTypes
    <3>6. \A t \in Tasks \ {Monitor}, u \in Workers :
            (At(t, u)' <=> At(t, u)) /\ (Waits(t, u)' <=> Waits(t, u))
      BY <1>2 DEF At, Waits
    <3>7. QED
      BY <1>2, <1>3, <3>2, <3>3, <3>5, <3>6, TaskLeavesQueue
  <2>4. QED
    BY <2>1, <2>2, <2>3 DEF Abandon
<1>6. QED
  BY <1>4, <1>5
-----------------------------------------------------------------------------
\* The index into the workers wraps around.
LEMMA NextStaysInRange ==
  ASSUME next \in Workers, [Next]_vars
  PROVE  next' \in Workers
<1>1. CASE next' = next
  BY <1>1
<1>2. CASE next' = (next + 1) % Size
  BY <1>2, ModRange DEF Workers
<1>3. CASE next' # next
  <2>1. ASSUME UNCHANGED vars PROVE FALSE
    BY <1>3, <2>1 DEF vars, poolVars
  <2>2. ASSUME NEW p \in Procs, ProcessStep(p) \/ Hang(p) \/ Crash(p) PROVE FALSE
    BY <1>3, <2>2 DEF ProcessStep, BootDone, TakeRequest, Answer, Hang, Crash, poolVars, loopVars
  <2>3. ASSUME NEW t \in Restarts, RestartStep(t) \/ RestartTimeout(t) PROVE FALSE
    BY <1>3, <2>3 DEF RestartStep, RestartBegin, RestartReap, RestartSpawn, RestartReady,
       RestartDrop, RestartTimeout, poolVars, besideRestarts
  <2>4. ASSUME MonitorStep PROVE FALSE
    BY <1>3, <2>4 DEF MonitorStep, MonWake, MonAsk, MonDrained, MonRead, MonTimeout,
       MonGoOn, poolVars, besideMonitor
  <2>5. ASSUME NEW w \in Workers, ShutStep(w) \/ StartTimeout(w) PROVE FALSE
    BY <1>3, <2>5 DEF ShutStep, ShutWorker, ShutWait, ShutExited, ShutKill, ShutReap,
       StartTimeout, poolVars, besideShutdown
  <2>6. ASSUME Start \/ StartDone \/ Stop \/ Down \/ Quiet PROVE FALSE
    BY <1>3, <2>6 DEF Start, StartDone, Stop, Down, Quiet, vars, poolVars
  <2>7. ASSUME NEW c \in Calls, Call(c) \/ CallStep(c) \/ Cancel(c) \/ WorkerError(c)
        PROVE  next' = (next + 1) % Size
    BY <1>3, <2>7 DEF CallStep, Call, Scan, Begin, Drained, Return, Eof, Timeout, Cancel,
       WorkerError, poolVars, besideCalls
  <2>8. next' = (next + 1) % Size
    BY <2>1, <2>2, <2>3, <2>4, <2>5, <2>6, <2>7 DEF Next
  <2>9. QED
    BY <1>2, <2>8
<1>4. QED
  BY <1>1, <1>3

LEMMA LockNext ==
  ASSUME LockInv, next \in Workers, [Next]_vars
  PROVE  LockInv'
<1>1. CASE UNCHANGED vars
  BY <1>1, LockUnchanged DEF vars, LockState, poolVars, lockVars, callVars, monVars
<1>2. ASSUME NEW p \in Procs, ProcessStep(p) \/ Hang(p) \/ Crash(p) PROVE LockInv'
  BY <1>2, LockUnchanged DEF ProcessStep, BootDone, TakeRequest, Answer, Hang, Crash,
     LockState, poolVars, loopVars, lockVars, callVars, monVars
<1>3. ASSUME NEW t \in Restarts, RestartStep(t) \/ RestartTimeout(t) PROVE LockInv'
  BY <1>3, LockUnchanged DEF RestartStep, RestartBegin, RestartReap, RestartSpawn,
     RestartReady, RestartDrop, RestartTimeout, LockState, poolVars, besideRestarts, lockVars, callVars,
     monVars
<1>4. ASSUME NEW w \in Workers, ShutStep(w) \/ StartTimeout(w) PROVE LockInv'
  BY <1>4, LockUnchanged DEF ShutStep, ShutWorker, ShutWait, ShutExited, ShutKill,
     ShutReap, StartTimeout, LockState, poolVars, besideShutdown, lockVars, callVars, monVars
<1>5. ASSUME NEW c \in Calls, Call(c) \/ CallStep(c) \/ Cancel(c) \/ WorkerError(c)
      PROVE  LockInv'
  BY <1>5, CallSteps
<1>6. CASE MonitorStep
  BY <1>6, MonitorSteps
<1>7. CASE Stop
  BY <1>7, StopSteps
<1>8. CASE Start \/ Down
  <2>1. /\ UNCHANGED <<busy, holder, waiters, pc, on, mpc, mw>>
        /\ phase' \in {"new", "starting"} => phase \in {"new", "starting"}
    BY <1>8 DEF Start, Down, lockVars, callVars, monVars
  <2>2. MonitorOff'
    BY <2>1 DEF LockInv, MonitorOff
  <2>3. /\ \A t, v : (At(t, v)' <=> At(t, v)) /\ (Waits(t, v)' <=> Waits(t, v))
        /\ LockTypes' /\ InsideHolds' /\ BusyIsInside' /\ QueueDistinct'
    BY <2>1 DEF LockInv, At, Waits, LockTypes, InsideHolds, BusyIsInside, QueueDistinct
  <2>4. HolderIsAt' /\ QueueWaits'
    BY <2>1, <2>3 DEF LockInv, HolderIsAt, QueueWaits
  <2>5. QED
    BY <2>2, <2>3, <2>4 DEF LockInv
<1>9. CASE StartDone
  <2>1. /\ UNCHANGED <<busy, holder, waiters, pc, on, mw>>
        /\ phase = "starting" /\ phase' \in {"running", "stopping"}
        /\ mpc' \in {"sleep", mpc}
    BY <1>9 DEF StartDone, lockVars, callVars
  <2>2. mpc = "off" /\ MonitorOff'
    BY <2>1 DEF LockInv, MonitorOff
  <2>3. QED
    BY <2>1, <2>2, MonitorMoves
<1>10. CASE Quiet
  BY <1>1, <1>10 DEF Quiet
<1>11. QED
  BY <1>1, <1>2, <1>3, <1>4, <1>5, <1>6, <1>7, <1>8, <1>9, <1>10 DEF Next

\* The locks of the workers and their busy flags are right in every reachable
\* state: for every size of the pool, any number of calls, and whatever crashes,
\* hangs, times out, is cancelled or shut down.
THEOREM BusyMeansInside == Spec => []LockDiscipline
<1>1. Init => LockInv /\ next \in Workers
  BY LockInit, TasksDistinct DEF Init
<1>2. LockInv /\ next \in Workers /\ [Next]_vars => (LockInv /\ next \in Workers)'
  BY LockNext, NextStaysInRange
<1>3. LockInv => LockDiscipline
  BY LockInvDiscipline
<1>4. QED
  BY <1>1, <1>2, <1>3, PTL DEF Spec
-----------------------------------------------------------------------------
(* Type correctness, by the parts of the state. *)

LoopTypes ==
  /\ phase \in {"new", "starting", "running", "stopping", "down"}
  /\ started \in BOOLEAN
  /\ proc \in [Workers -> Procs \cup {NoProc}]
  /\ rbuf \in [Workers -> Seq(Lines)]
  /\ turn \in Tasks \cup {NoOne}

\* A task that is inside a worker talks to a process.
CallTypes ==
  /\ \A c \in Calls : pc[c] \in {"drain", "read"} => src[c] \in Procs
  /\ tries \in [Calls -> 0..(Size + 1)]
  /\ src \in [Calls -> Procs \cup {NoProc}]
  /\ answer \in [Calls -> Lines \cup {NoLine}]

RestartTypes ==
  /\ ph \in [Restarts -> {"none", "due", "reap", "spawn", "ready", "drop"}]
  /\ target \in [Restarts -> Workers]
  /\ awaited \in [Restarts -> Procs \cup {NoProc}]

MonTypes ==
  /\ mpc \in {"drain", "read"} => msrc \in Procs
  /\ mpc \in {"off", "sleep", "wait", "drain", "read", "next", "restart"}
  /\ msrc \in Procs \cup {NoProc}

DownTypes ==
  /\ dph \in [Workers -> {"todo", "sent", "wait", "reap", "done"}]
  /\ dproc \in [Workers -> Procs \cup {NoProc}]

OsTypes ==
  /\ st \in [Procs -> {"free", "starting", "up", "hung", "dead"}]
  /\ stdin \in [Procs -> Seq(Lines)] /\ stdout \in [Procs -> Seq(Lines)]
  /\ cur \in [Procs -> Lines \cup {NoLine}] /\ served \in [Procs -> Nat]

HistTypes == ran \in [Calls -> Nat] /\ faults \in 0..MaxFaults

\* A call begins its rounds from the first one and no round after the last attempt.
Rounds ==
  \A c \in Calls : /\ pc[c] = "idle" => tries[c] = 0
                   /\ pc[c] = "scan" => tries[c] <= Size

TypeInv ==
  /\ LoopTypes /\ CallTypes /\ RestartTypes /\ MonTypes /\ DownTypes /\ OsTypes
  /\ HistTypes /\ Rounds

\* What the steps rely on: the types and the locks.
PoolInv == LockInv /\ next \in Workers /\ TypeInv

LEMMA PoolTyped == PoolInv => TypeOK
BY DEF PoolInv, LockInv, LockTypes, TypeInv, LoopTypes, CallTypes, RestartTypes, MonTypes,
       DownTypes, OsTypes, HistTypes, TypeOK

LEMMA LinesTyped ==
  /\ \A c \in Calls : c \in Lines
  /\ Health \in Lines /\ Shutdown \in Lines /\ Torn \in Lines
  /\ \A p \in Procs : p # NoProc
BY DEF Lines

LEMMA LiveTyped ==
  ASSUME NEW p \in Procs \cup {NoProc}, Live(p)
  PROVE  p \in Procs
BY DEF Live

LEMMA FaultTyped ==
  ASSUME HistTypes, NEW kind, Fault(kind)
  PROVE  faults' \in 0..MaxFaults
BY DEF HistTypes, Fault

LEMMA SpareFresh ==
  ASSUME \E p \in Procs : Fresh(p)
  PROVE  Spare \in Procs /\ Fresh(Spare)
BY DEF Spare

\* The processes of the start are as many as the workers.
LEMMA StartInjective ==
  ASSUME NEW f, f = CHOOSE g \in [Workers -> Procs] : IsInjective(g)
  PROVE  /\ f \in [Workers -> Procs]
         /\ \A v, w \in Workers : f[v] = f[w] => v = w
<1>1. f \in [Workers -> Procs] /\ IsInjective(f)
  BY ProcsAssumption
<1> QED
  BY <1>1 DEF IsInjective

(* What happens to processes. *)

LEMMA DieTyped ==
  ASSUME OsTypes, NEW p \in Procs, Die(p)
  PROVE  OsTypes'
<1>1. <<>> \in Seq(Lines)
  OBVIOUS
<1> QED
  BY <1>1 DEF OsTypes, Die

LEMMA SpawnedTyped ==
  ASSUME OsTypes, NEW ps, Spawned(ps)
  PROVE  OsTypes'
<1>1. <<>> \in Seq(Lines)
  OBVIOUS
<1> QED
  BY <1>1 DEF OsTypes, Spawned

\* A line is written to a process.
LEMMA WriteTyped ==
  ASSUME OsTypes, NEW p \in Procs, NEW line \in Lines,
         stdin' = [stdin EXCEPT ![p] = Append(@, line)],
         UNCHANGED <<st, cur, stdout, served>>
  PROVE  OsTypes'
<1>1. Append(stdin[p], line) \in Seq(Lines)
  BY AppendProperties DEF OsTypes
<1> QED
  BY <1>1 DEF OsTypes

LEMMA TearTyped ==
  ASSUME cur \in [Procs -> Lines \cup {NoLine}], NEW p, NEW t, Tear(p, t)
  PROVE  cur' \in [Procs -> Lines \cup {NoLine}]
BY LinesTyped DEF Tear

\* Reading takes a line away.
LEMMA ReadTyped ==
  ASSUME LoopTypes, OsTypes, NEW w \in Workers, NEW p \in Procs, NEW line,
         ReadLine(w, p, line)
  PROVE  /\ rbuf' \in [Workers -> Seq(Lines)]
         /\ stdout' \in [Procs -> Seq(Lines)]
<1>1. rbuf[w] \in Seq(Lines) /\ stdout[p] \in Seq(Lines)
      /\ rbuf \in [Workers -> Seq(Lines)] /\ stdout \in [Procs -> Seq(Lines)]
  BY DEF LoopTypes, OsTypes
<1>2. CASE rbuf[w] # <<>> /\ rbuf' = [rbuf EXCEPT ![w] = Tail(@)] /\ UNCHANGED stdout
  <2>1. Tail(rbuf[w]) \in Seq(Lines)
    BY <1>1, <1>2, HeadTailProperties
  <2> QED
    BY <1>1, <1>2, <2>1
<1>3. ASSUME NEW k \in 1..Len(stdout[p]),
             rbuf' = [rbuf EXCEPT ![w] = SubSeq(stdout[p], 2, k)],
             stdout' = [stdout EXCEPT ![p] = SubSeq(@, k + 1, Len(@))]
      PROVE  /\ rbuf' \in [Workers -> Seq(Lines)]
             /\ stdout' \in [Procs -> Seq(Lines)]
  <2>1. /\ SubSeq(stdout[p], 2, k) \in Seq(Lines)
        /\ SubSeq(stdout[p], k + 1, Len(stdout[p])) \in Seq(Lines)
    <3>1. Len(stdout[p]) \in Nat /\ \A i \in 1..Len(stdout[p]) : stdout[p][i] \in Lines
      BY <1>1, ElementOfSeq
    <3> QED
      BY <1>1, <3>1, SubSeqProperties
  <2> QED
    BY <1>1, <1>3, <2>1
<1> QED
  BY <1>2, <1>3 DEF ReadLine

(* The steps, one group at a time. *)

LEMMA ProcessTypes ==
  ASSUME TypeInv, NEW p \in Procs, ProcessStep(p) \/ Hang(p) \/ Crash(p)
  PROVE  TypeInv'
<1> USE DEF TypeInv
<1>1. UNCHANGED loopVars => /\ LoopTypes' <=> turn' \in Tasks \cup {NoOne}
                            /\ CallTypes' /\ RestartTypes' /\ MonTypes' /\ DownTypes'
                            /\ Rounds'
  BY DEF loopVars, poolVars, callVars, restartVars, monVars, downVars, LoopTypes,
         CallTypes, RestartTypes, MonTypes, DownTypes, Rounds
<1>2. CASE BootDone(p)
  <2>1. OsTypes' /\ HistTypes'
    BY <1>2 DEF BootDone, OsTypes, HistTypes, histVars
  <2> QED
    BY <1>1, <1>2, <2>1 DEF BootDone, LoopTypes
<1>3. CASE TakeRequest(p)
  <2>1. /\ Head(stdin[p]) \in Lines /\ Tail(stdin[p]) \in Seq(Lines)
        /\ Cardinality({Head(stdin[p])} \cap Calls) \in Nat
    <3>1. stdin[p] \in Seq(Lines) /\ stdin[p] # <<>>
      BY <1>3 DEF TakeRequest, OsTypes
    <3>2. {Head(stdin[p])} \cap Calls = {} \/ {Head(stdin[p])} \cap Calls = {Head(stdin[p])}
      OBVIOUS
    <3>3. Cardinality({Head(stdin[p])} \cap Calls) \in Nat
      <4> DEFINE calls == {Head(stdin[p])} \cap Calls
      <4>1. calls = {} => Cardinality(calls) = 0
        BY FS_EmptySet
      <4>2. calls = {Head(stdin[p])} => Cardinality(calls) = 1
        BY FS_Singleton
      <4> QED
        BY <3>2, <4>1, <4>2
    <3>4. Head(stdin[p]) \in Lines /\ Tail(stdin[p]) \in Seq(Lines)
      BY <3>1, HeadTailProperties
    <3> QED
      BY <3>3, <3>4
  <2>2. OsTypes'
    BY <1>3, <2>1 DEF TakeRequest, OsTypes
  <2>3. HistTypes'
    BY <1>3 DEF TakeRequest, HistTypes
  <2> QED
    BY <1>1, <1>3, <2>2, <2>3 DEF TakeRequest, LoopTypes
<1>4. CASE Answer(p)
  <2>1. cur[p] \in Lines /\ <<>> \in Seq(Lines)
    BY <1>4 DEF Answer, OsTypes
  <2>2. Append(stdout[p], cur[p]) \in Seq(Lines)
    BY <2>1, AppendProperties DEF OsTypes
  <2>3. OsTypes' /\ HistTypes'
    BY <1>4, <2>1, <2>2 DEF Answer, OsTypes, HistTypes, histVars
  <2> QED
    BY <1>1, <1>4, <2>3 DEF Answer, LoopTypes
<1>5. CASE Hang(p)
  <2>1. OsTypes'
    BY <1>5 DEF Hang, OsTypes
  <2>2. HistTypes'
    BY <1>5, FaultTyped DEF Hang, HistTypes
  <2> QED
    BY <1>1, <1>5, <2>1, <2>2 DEF Hang, LoopTypes
<1>6. CASE Crash(p)
  <2>1. OsTypes'
    BY <1>6, DieTyped DEF Crash
  <2>2. HistTypes'
    BY <1>6, FaultTyped DEF Crash, HistTypes
  <2> QED
    BY <1>1, <1>6, <2>1, <2>2 DEF Crash, LoopTypes
<1> QED
  BY <1>2, <1>3, <1>4, <1>5, <1>6 DEF ProcessStep

\* What Acquire does to the task that goes on.
LEMMA AcquireTurn ==
  ASSUME NEW w, NEW t \in Tasks, Acquire(w, t)
  PROVE  turn' \in Tasks \cup {NoOne}
BY DEF Acquire

LEMMA FailsTyped ==
  ASSUME LockInv, TypeInv, NEW c \in Calls, AttemptFails(c), pc[c] # "idle"
  PROVE  /\ CallTypes' /\ RestartTypes' /\ Rounds'
         /\ turn' \in Tasks \cup {NoOne}
<1>1. on[c] \in Workers /\ pc \in [Calls -> {"idle", "scan", "wait", "drain", "read"} \cup Over]
  BY DEF LockInv, LockTypes
<1>2. CallTypes'
  BY <1>1 DEF AttemptFails, TypeInv, CallTypes, Over
<1>3. RestartTypes'
  BY <1>1 DEF AttemptFails, TypeInv, RestartTypes
<1>4. Rounds'
  BY <1>1 DEF AttemptFails, TypeInv, Rounds, CallTypes
<1>5. turn' \in Tasks \cup {NoOne}
  BY DEF AttemptFails, Tasks
<1> QED
  BY <1>2, <1>3, <1>4, <1>5

LEMMA CallsTyped ==
  ASSUME LockInv, next \in Workers, TypeInv, NEW c \in Calls,
         Call(c) \/ CallStep(c) \/ Cancel(c) \/ WorkerError(c)
  PROVE  TypeInv'
<1> LoopTypes /\ CallTypes /\ RestartTypes /\ MonTypes /\ DownTypes /\ OsTypes /\ HistTypes
    /\ Rounds
  BY DEF TypeInv
<1> on[c] \in Workers /\ pc \in [Calls -> {"idle", "scan", "wait", "drain", "read"} \cup Over]
  BY DEF LockInv, LockTypes
<1> c \in Tasks /\ c \in Lines
  BY DEF Tasks, Lines
<1>1. UNCHANGED besideCalls =>
        /\ MonTypes' /\ DownTypes'
        /\ rbuf' \in [Workers -> Seq(Lines)] /\ turn' \in Tasks \cup {NoOne} => LoopTypes'
  BY DEF besideCalls, poolVars, monVars, downVars, MonTypes, DownTypes, LoopTypes
<1>2. rbuf' = rbuf => rbuf' \in [Workers -> Seq(Lines)]
  BY DEF LoopTypes
<1>3. UNCHANGED osVars => OsTypes'
  BY DEF osVars, OsTypes
<1>4. UNCHANGED histVars => HistTypes'
  BY DEF histVars, HistTypes
<1>5. UNCHANGED restartVars => RestartTypes'
  BY DEF restartVars, RestartTypes
<1>6. CASE Call(c)
  <2>1. CallTypes' /\ turn' \in Tasks \cup {NoOne}
    BY <1>6 DEF Call, CallTypes
  <2>2. Rounds'
    <3>1. tries' = tries /\ pc[c] = "idle" /\ pc'[c] # "idle"
          /\ \A d \in Calls \ {c} : pc'[d] = pc[d]
      BY <1>6 DEF Call
    <3>2. tries[c] = 0 /\ 0 <= Size
      BY <3>1 DEF Rounds, PoolAssumption
    <3> QED
      BY <3>1, <3>2 DEF Rounds
  <2> QED
    BY <1>1, <1>2, <1>3, <1>4, <1>5, <1>6, <2>1, <2>2 DEF Call, TypeInv
<1>7. CASE Scan(c)
  <2>1. tries[c] \in 0..Size /\ pc[c] = "scan"
    BY <1>7 DEF Scan, Rounds, CallTypes
  <2>2. CallTypes'
    BY <1>7, <2>1 DEF Scan, CallTypes
  <2>3. LoopTypes'
    BY <1>7, AcquireTurn DEF Scan, LoopTypes
  <2>4. Rounds'
    <3>1. /\ tries'[c] = tries[c] + 1 /\ \A d \in Calls \ {c} : tries'[d] = tries[d]
          /\ \A d \in Calls \ {c} : pc'[d] = pc[d]
          /\ pc'[c] = "wait" \/ (tries[c] < Size /\ pc'[c] = "scan")
      BY <1>7, <2>1 DEF Scan, CallTypes
    <3> QED
      BY <2>1, <3>1 DEF Rounds
  <2>5. MonTypes' /\ DownTypes'
    BY <1>7 DEF Scan, monVars, downVars, MonTypes, DownTypes
  <2> QED
    BY <1>3, <1>4, <1>5, <1>7, <2>2, <2>3, <2>4, <2>5 DEF Scan, TypeInv
<1>8. CASE Begin(c)
  <2>1. CASE ~Live(proc[on[c]])
    <3>1. AttemptFails(c) /\ UNCHANGED osVars
      BY <1>8, <2>1 DEF Begin, osVars
    <3> QED
      BY <1>1, <1>2, <1>3, <1>4, <1>8, <3>1, FailsTyped DEF Begin, TypeInv
  <2>2. CASE Live(proc[on[c]])
    <3>1. /\ stdin' = [stdin EXCEPT ![proc[on[c]]] = Append(@, c)]
          /\ src' = [src EXCEPT ![c] = proc[on[c]]]
          /\ pc' = [pc EXCEPT ![c] = "drain"]
          /\ turn' = NoOne
          /\ UNCHANGED <<tries, answer, restartVars>>
      BY <1>8, <2>2 DEF Begin
    <3>2. proc[on[c]] \in Procs
      BY <2>2, LiveTyped DEF LoopTypes
    <3>3. OsTypes'
      BY <1>8, <3>1, <3>2, WriteTyped DEF Begin
    <3>4. CallTypes' /\ Rounds'
      BY <3>1, <3>2 DEF CallTypes, Rounds
    <3> QED
      BY <1>1, <1>2, <1>4, <1>5, <1>8, <3>1, <3>3, <3>4 DEF Begin, TypeInv
  <2> QED
    BY <1>8, <2>1, <2>2 DEF Begin
<1>9. CASE Drained(c)
  <2>1. CASE AttemptFails(c)
    BY <1>1, <1>2, <1>3, <1>4, <1>9, <2>1, FailsTyped DEF Drained, TypeInv
  <2>2. CASE ~AttemptFails(c)
    <3>1. /\ proc[on[c]] # NoProc
          /\ src' = [src EXCEPT ![c] = proc[on[c]]]
          /\ pc' = [pc EXCEPT ![c] = "read"]
          /\ UNCHANGED <<tries, answer, restartVars, turn>>
      BY <1>9, <2>2 DEF Drained
    <3>2. CallTypes' /\ Rounds'
      BY <3>1 DEF CallTypes, Rounds, LoopTypes
    <3>3. turn' \in Tasks \cup {NoOne}
      BY <3>1 DEF LoopTypes
    <3> QED
      BY <1>1, <1>2, <1>3, <1>4, <1>5, <1>9, <3>1, <3>2, <3>3 DEF Drained, TypeInv
  <2> QED
    BY <1>9, <2>1, <2>2
<1>10. CASE Return(c)
  <2>1. PICK line \in Lines :
          /\ ReadLine(on[c], src[c], line)
          /\ IF line = Torn
             THEN AttemptFails(c)
             ELSE /\ answer' = [answer EXCEPT ![c] = line]
                  /\ pc' = [pc EXCEPT ![c] = "done"]
                  /\ src' = [src EXCEPT ![c] = NoProc]
                  /\ UNCHANGED <<on, tries, restartVars, turn>>
    BY <1>10 DEF Return
  <2>2. src[c] \in Procs /\ pc[c] = "read"
    BY <1>10 DEF Return, CallTypes
  <2>3. rbuf' \in [Workers -> Seq(Lines)] /\ stdout' \in [Procs -> Seq(Lines)]
    BY <2>1, <2>2, ReadTyped
  <2>4. OsTypes'
    BY <1>10, <2>3 DEF Return, OsTypes
  <2>5. CASE line = Torn
    BY <1>1, <1>4, <1>10, <2>1, <2>2, <2>3, <2>4, <2>5, FailsTyped DEF Return, TypeInv
  <2>6. CASE line # Torn
    <3>1. CallTypes' /\ Rounds'
      BY <2>1, <2>6 DEF CallTypes, Rounds
    <3>2. turn' \in Tasks \cup {NoOne}
      BY <2>1, <2>6 DEF LoopTypes
    <3> QED
      BY <1>1, <1>4, <1>5, <1>10, <2>1, <2>3, <2>4, <2>6, <3>1, <3>2 DEF Return, TypeInv
  <2> QED
    BY <2>5, <2>6
<1>11. CASE Eof(c)
  BY <1>1, <1>2, <1>3, <1>4, <1>11, FailsTyped DEF Eof, TypeInv
<1>12. CASE Timeout(c)
  <2>1. OsTypes'
    <3>1. cur' \in [Procs -> Lines \cup {NoLine}]
      BY <1>12, TearTyped DEF Timeout, OsTypes
    <3> QED
      BY <1>12, <3>1 DEF Timeout, OsTypes
  <2>2. HistTypes'
    BY <1>12, FaultTyped DEF Timeout, HistTypes
  <2> QED
    BY <1>1, <1>2, <1>12, <2>1, <2>2, FailsTyped DEF Timeout, TypeInv
<1>13. CASE Cancel(c)
  <2>1. OsTypes'
    <3>1. cur' \in [Procs -> Lines \cup {NoLine}]
      BY <1>13, TearTyped DEF Cancel, OsTypes
    <3> QED
      BY <1>13, <3>1 DEF Cancel, OsTypes
  <2>2. HistTypes'
    BY <1>13, FaultTyped DEF Cancel, HistTypes
  <2>3. CallTypes' /\ Rounds'
    BY <1>13 DEF Cancel, CallTypes, Rounds
  <2>4. turn' \in Tasks \cup {NoOne}
    BY <1>13 DEF Cancel, LoopTypes
  <2> QED
    BY <1>1, <1>2, <1>5, <1>13, <2>1, <2>2, <2>3, <2>4 DEF Cancel, TypeInv
<1>14. CASE WorkerError(c)
  <2>1. PICK line \in Calls : ReadLine(on[c], src[c], line)
    BY <1>14 DEF WorkerError
  <2>2. src[c] \in Procs /\ pc[c] = "read"
    BY <1>14 DEF WorkerError, CallTypes
  <2>3. rbuf' \in [Workers -> Seq(Lines)] /\ stdout' \in [Procs -> Seq(Lines)]
    BY <2>1, <2>2, ReadTyped
  <2>4. OsTypes'
    BY <1>14, <2>3 DEF WorkerError, OsTypes
  <2>5. HistTypes'
    BY <1>14, FaultTyped DEF WorkerError, HistTypes
  <2> QED
    BY <1>1, <1>14, <2>2, <2>3, <2>4, <2>5, FailsTyped DEF WorkerError, TypeInv
<1> QED
  BY <1>6, <1>7, <1>8, <1>9, <1>10, <1>11, <1>12, <1>13, <1>14 DEF CallStep

LEMMA RestartsTyped ==
  ASSUME TypeInv, NEW t \in Restarts, RestartStep(t) \/ RestartTimeout(t)
  PROVE  TypeInv'
<1> LoopTypes /\ CallTypes /\ RestartTypes /\ MonTypes /\ DownTypes /\ OsTypes /\ HistTypes
    /\ Rounds
  BY DEF TypeInv
<1> target[t] \in Workers /\ proc[target[t]] \in Procs \cup {NoProc}
  BY DEF RestartTypes, LoopTypes
<1>1. UNCHANGED besideRestarts =>
        /\ CallTypes' /\ Rounds' /\ MonTypes' /\ DownTypes'
        /\ proc' \in [Workers -> Procs \cup {NoProc}] /\ turn' \in Tasks \cup {NoOne}
             => LoopTypes'
  BY DEF besideRestarts, poolVars, callVars, monVars, downVars, CallTypes, Rounds, MonTypes,
         DownTypes, LoopTypes
<1>2. proc \in [Workers -> Procs \cup {NoProc}] /\ turn \in Tasks \cup {NoOne}
  BY DEF LoopTypes
<1>3. UNCHANGED osVars => OsTypes'
  BY DEF osVars, OsTypes
<1>4. UNCHANGED histVars => HistTypes'
  BY DEF histVars, HistTypes
<1>5. CASE RestartBegin(t)
  <2>1. OsTypes'
    <3>1. CASE Live(proc[target[t]])
      BY <1>5, <3>1, LiveTyped, DieTyped DEF RestartBegin
    <3>2. CASE ~Live(proc[target[t]])
      BY <1>3, <1>5, <3>2 DEF RestartBegin
    <3> QED
      BY <3>1, <3>2
  <2>2. RestartTypes'
    BY <1>5 DEF RestartBegin, RestartTypes, besideRestarts
  <2>3. proc' \in [Workers -> Procs \cup {NoProc}] /\ turn' \in Tasks \cup {NoOne}
    BY <1>2, <1>5 DEF RestartBegin
  <2> QED
    BY <1>1, <1>4, <1>5, <2>1, <2>2, <2>3 DEF RestartBegin, TypeInv
<1>6. CASE RestartReap(t) \/ RestartDrop(t)
  <2>1. RestartTypes'
    BY <1>6 DEF RestartReap, RestartDrop, RestartTypes, besideRestarts
  <2> QED
    BY <1>1, <1>2, <1>3, <1>4, <1>6, <2>1 DEF RestartReap, RestartDrop, TypeInv
<1>7. CASE RestartSpawn(t)
  <2>1. Spare \in Procs
    BY <1>7, SpareFresh DEF RestartSpawn
  <2>2. RestartTypes'
    BY <1>7, <2>1 DEF RestartSpawn, RestartTypes, besideRestarts
  <2>3. OsTypes'
    BY <1>7, SpawnedTyped DEF RestartSpawn
  <2>4. proc' \in [Workers -> Procs \cup {NoProc}]
    BY <1>2, <1>7, <2>1 DEF RestartSpawn
  <2> QED
    BY <1>1, <1>2, <1>4, <1>7, <2>2, <2>3, <2>4 DEF RestartSpawn, TypeInv
<1>8. CASE RestartReady(t)
  <2>1. RestartTypes'
    BY <1>8 DEF RestartReady, RestartTypes, besideRestarts
  <2> QED
    BY <1>1, <1>2, <1>3, <1>4, <1>8, <2>1 DEF RestartReady, TypeInv
<1>9. CASE RestartTimeout(t)
  <2>1. RestartTypes'
    BY <1>9 DEF RestartTimeout, RestartTypes, besideRestarts
  <2>2. OsTypes'
    BY <1>3, <1>9, LiveTyped, DieTyped DEF RestartTimeout
  <2>3. HistTypes'
    BY <1>9, FaultTyped DEF RestartTimeout, HistTypes
  <2> QED
    BY <1>1, <1>2, <1>9, <2>1, <2>2, <2>3 DEF RestartTimeout, TypeInv
<1> QED
  BY <1>5, <1>6, <1>7, <1>8, <1>9 DEF RestartStep

\* The check has failed.
LEMMA UnhealthyTyped ==
  ASSUME LockInv, TypeInv, Unhealthy
  PROVE  RestartTypes' /\ MonTypes' /\ turn' \in Tasks \cup {NoOne}
<1>1. mw \in Workers /\ MonitorRestart \in Restarts
  BY DEF LockInv, LockTypes, Restarts
<1>2. RestartTypes'
  BY <1>1 DEF Unhealthy, TypeInv, RestartTypes
<1>3. MonTypes' /\ turn' \in Tasks \cup {NoOne}
  BY DEF Unhealthy, MonTypes, Tasks
<1> QED
  BY <1>2, <1>3

LEMMA MonitorTyped ==
  ASSUME LockInv, TypeInv, MonitorStep
  PROVE  TypeInv'
<1> LoopTypes /\ CallTypes /\ RestartTypes /\ MonTypes /\ DownTypes /\ OsTypes /\ HistTypes
    /\ Rounds
  BY DEF TypeInv
<1> mw \in Workers /\ Monitor \in Tasks /\ proc[mw] \in Procs \cup {NoProc}
  BY DEF LockInv, LockTypes, Tasks, LoopTypes
<1>1. UNCHANGED besideMonitor =>
        /\ CallTypes' /\ Rounds' /\ DownTypes'
        /\ turn' \in Tasks \cup {NoOne} => LoopTypes'
  BY DEF besideMonitor, poolVars, callVars, downVars, CallTypes, Rounds, DownTypes, LoopTypes
<1>2. turn \in Tasks \cup {NoOne}
  BY DEF LoopTypes
<1>3. UNCHANGED osVars => OsTypes'
  BY DEF osVars, OsTypes
<1>4. UNCHANGED histVars => HistTypes'
  BY DEF histVars, HistTypes
<1>5. UNCHANGED restartVars => RestartTypes'
  BY DEF restartVars, RestartTypes
<1>6. CASE MonWake
  <2>1. MonTypes' /\ turn' \in Tasks \cup {NoOne}
    BY <1>6, AcquireTurn DEF MonWake, MonTypes
  <2> QED
    BY <1>1, <1>3, <1>4, <1>5, <1>6, <2>1 DEF MonWake, TypeInv
<1>7. CASE MonAsk
  <2>1. CASE Live(proc[mw])
    <3>1. proc[mw] \in Procs
      BY <2>1, LiveTyped
    <3>2. OsTypes'
      BY <1>7, <2>1, <3>1, WriteTyped, LinesTyped DEF MonAsk
    <3>3. MonTypes' /\ turn' \in Tasks \cup {NoOne} /\ UNCHANGED restartVars
      BY <1>7, <2>1, <3>1 DEF MonAsk, MonTypes
    <3> QED
      BY <1>1, <1>4, <1>5, <1>7, <3>2, <3>3 DEF MonAsk, TypeInv
  <2>2. CASE ~Live(proc[mw])
    <3>1. Unhealthy /\ UNCHANGED osVars
      BY <1>7, <2>2 DEF MonAsk, osVars
    <3> QED
      BY <1>1, <1>3, <1>4, <1>7, <3>1, UnhealthyTyped DEF MonAsk, TypeInv
  <2> QED
    BY <2>1, <2>2
<1>8. CASE MonDrained
  <2>1. CASE Unhealthy
    BY <1>1, <1>3, <1>4, <1>8, <2>1, UnhealthyTyped DEF MonDrained, TypeInv
  <2>2. CASE ~Unhealthy
    <3>1. MonTypes' /\ turn' \in Tasks \cup {NoOne} /\ UNCHANGED restartVars
      BY <1>2, <1>8, <2>2 DEF MonDrained, MonTypes
    <3> QED
      BY <1>1, <1>3, <1>4, <1>5, <1>8, <3>1 DEF MonDrained, TypeInv
  <2> QED
    BY <2>1, <2>2
<1>9. CASE MonRead
  <2>1. mpc = "read" /\ msrc \in Procs
    BY <1>9 DEF MonRead, MonTypes
  <2>2. OsTypes'
    <3>1. stdout[msrc] # <<>> => Tail(stdout[msrc]) \in Seq(Lines)
      BY <2>1, HeadTailProperties DEF OsTypes
    <3>2. \/ UNCHANGED stdout
          \/ stdout[msrc] # <<>> /\ stdout' = [stdout EXCEPT ![msrc] = Tail(@)]
      BY <1>9 DEF MonRead
    <3>3. stdout' \in [Procs -> Seq(Lines)]
      BY <3>1, <3>2 DEF OsTypes
    <3> QED
      BY <1>9, <3>3 DEF MonRead, OsTypes
  <2>3. CASE Unhealthy
    BY <1>1, <1>4, <1>9, <2>2, <2>3, UnhealthyTyped DEF MonRead, TypeInv
  <2>4. CASE ~Unhealthy
    <3>1. MonTypes' /\ turn' \in Tasks \cup {NoOne} /\ UNCHANGED restartVars
      BY <1>9, <2>4 DEF MonRead, MonTypes
    <3> QED
      BY <1>1, <1>4, <1>5, <1>9, <2>2, <3>1 DEF MonRead, TypeInv
  <2> QED
    BY <2>3, <2>4
<1>10. CASE MonTimeout
  <2>1. HistTypes'
    BY <1>10, FaultTyped DEF MonTimeout, HistTypes
  <2> QED
    BY <1>1, <1>3, <1>10, <2>1, UnhealthyTyped DEF MonTimeout, TypeInv
<1>11. CASE MonGoOn
  <2>1. MonTypes' /\ turn' \in Tasks \cup {NoOne}
    BY <1>11, AcquireTurn DEF MonGoOn, MonNext, MonTypes
  <2> QED
    BY <1>1, <1>3, <1>4, <1>5, <1>11, <2>1 DEF MonGoOn, TypeInv
<1> QED
  BY <1>6, <1>7, <1>8, <1>9, <1>10, <1>11 DEF MonitorStep

LEMMA ShutTyped ==
  ASSUME TypeInv, NEW w \in Workers, ShutStep(w) \/ StartTimeout(w)
  PROVE  TypeInv'
<1> LoopTypes /\ CallTypes /\ RestartTypes /\ MonTypes /\ DownTypes /\ OsTypes /\ HistTypes
    /\ Rounds
  BY DEF TypeInv
<1> proc \in [Workers -> Procs \cup {NoProc}] /\ turn \in Tasks \cup {NoOne}
  BY DEF LoopTypes
<1>1. UNCHANGED besideShutdown =>
        /\ CallTypes' /\ Rounds' /\ MonTypes' /\ RestartTypes'
        /\ proc' \in [Workers -> Procs \cup {NoProc}] /\ turn' \in Tasks \cup {NoOne}
             => LoopTypes'
  BY DEF besideShutdown, poolVars, callVars, monVars, restartVars, CallTypes, Rounds,
         MonTypes, RestartTypes, LoopTypes
<1>2. UNCHANGED osVars => OsTypes'
  BY DEF osVars, OsTypes
<1>3. UNCHANGED histVars => HistTypes'
  BY DEF histVars, HistTypes
<1>4. CASE ShutWorker(w)
  <2>1. OsTypes'
    <3>1. CASE Live(proc[w])
      BY <1>4, <3>1, LiveTyped, LinesTyped, WriteTyped DEF ShutWorker
    <3>2. CASE ~Live(proc[w])
      BY <1>2, <1>4, <3>2 DEF ShutWorker, osVars
    <3> QED
      BY <3>1, <3>2
  <2>2. DownTypes'
    BY <1>4 DEF ShutWorker, DownTypes
  <2> QED
    BY <1>1, <1>3, <1>4, <2>1, <2>2 DEF ShutWorker, TypeInv
<1>5. CASE ShutWait(w) \/ ShutExited(w) \/ ShutReap(w)
  <2>1. DownTypes'
    BY <1>5 DEF ShutWait, ShutExited, ShutReap, DownTypes
  <2>2. proc' \in [Workers -> Procs \cup {NoProc}]
    BY <1>5 DEF ShutWait, ShutExited, ShutReap
  <2> QED
    BY <1>1, <1>2, <1>3, <1>5, <2>1, <2>2 DEF ShutWait, ShutExited, ShutReap, TypeInv
<1>6. CASE ShutKill(w)
  <2>1. OsTypes'
    BY <1>2, <1>6, LiveTyped, DieTyped DEF ShutKill
  <2>2. DownTypes' /\ proc' \in [Workers -> Procs \cup {NoProc}]
    BY <1>6 DEF ShutKill, DownTypes
  <2> QED
    BY <1>1, <1>3, <1>6, <2>1, <2>2 DEF ShutKill, TypeInv
<1>7. CASE StartTimeout(w)
  <2>1. OsTypes'
    BY <1>7, DieTyped DEF StartTimeout
  <2>2. DownTypes' /\ HistTypes'
    BY <1>7, FaultTyped DEF StartTimeout, DownTypes, downVars, HistTypes
  <2> QED
    BY <1>1, <1>7, <2>1, <2>2 DEF StartTimeout, TypeInv
<1> QED
  BY <1>4, <1>5, <1>6, <1>7 DEF ShutStep

LEMMA PhasesTyped ==
  ASSUME TypeInv, Start \/ StartDone \/ Stop \/ Down
  PROVE  TypeInv'
<1> LoopTypes /\ CallTypes /\ RestartTypes /\ MonTypes /\ DownTypes /\ OsTypes /\ HistTypes
    /\ Rounds
  BY DEF TypeInv
<1>1. CallTypes' /\ Rounds'
  BY DEF Start, StartDone, Stop, Down, callVars, CallTypes, Rounds
<1>2. HistTypes'
  BY FaultTyped DEF Start, StartDone, Stop, Down, histVars, HistTypes
<1>3. OsTypes'
  <2>1. CASE Start
    BY <2>1, SpawnedTyped DEF Start
  <2>2. CASE ~Start
    BY <2>2 DEF StartDone, Stop, Down, osVars, OsTypes
  <2> QED
    BY <2>1, <2>2
<1>4. RestartTypes' /\ MonTypes' /\ DownTypes'
  BY DEF Start, StartDone, Stop, Down, restartVars, monVars, downVars, StartShutdown,
         RestartTypes, MonTypes, DownTypes
<1>5. LoopTypes'
  <2>1. CASE Start
    <3>1. proc' \in [Workers -> Procs \cup {NoProc}]
      BY <2>1, StartInjective DEF Start
    <3> QED
      BY <2>1, <3>1 DEF Start, LoopTypes
  <2>2. CASE ~Start
    BY <2>2 DEF StartDone, Stop, Down, LoopTypes
  <2> QED
    BY <2>1, <2>2
<1> QED
  BY <1>1, <1>2, <1>3, <1>4, <1>5 DEF TypeInv

LEMMA InitTyped ==
  ASSUME Init
  PROVE  TypeInv
<1>1. <<>> \in Seq(Lines) /\ 0 \in Workers /\ 0 \in 0..(Size + 1) /\ 0 \in 0..MaxFaults
  BY DEF Workers, PoolAssumption
<1>2. LoopTypes /\ CallTypes /\ RestartTypes /\ MonTypes /\ DownTypes
  BY <1>1 DEF Init, LoopTypes, CallTypes, RestartTypes, MonTypes, DownTypes
<1>3. OsTypes /\ HistTypes /\ Rounds
  BY <1>1 DEF Init, OsTypes, HistTypes, Rounds
<1> QED
  BY <1>2, <1>3 DEF TypeInv

LEMMA PoolInvariant == Spec => []PoolInv
<1>1. Init => PoolInv
  BY LockInit, InitTyped, TasksDistinct DEF Init, PoolInv
<1>2. PoolInv /\ [Next]_vars => PoolInv'
  <2> SUFFICES ASSUME PoolInv, [Next]_vars PROVE TypeInv'
    BY LockNext, NextStaysInRange DEF PoolInv
  <2> LockInv /\ next \in Workers /\ TypeInv
    BY DEF PoolInv
  <2>1. CASE UNCHANGED vars
    BY <2>1 DEF vars, poolVars, lockVars, callVars, restartVars, monVars, downVars, osVars,
       histVars, TypeInv, LoopTypes, CallTypes, RestartTypes, MonTypes, DownTypes, OsTypes,
       HistTypes, Rounds
  <2>2. ASSUME NEW p \in Procs, ProcessStep(p) \/ Hang(p) \/ Crash(p) PROVE TypeInv'
    BY <2>2, ProcessTypes
  <2>3. ASSUME NEW c \in Calls, Call(c) \/ CallStep(c) \/ Cancel(c) \/ WorkerError(c)
        PROVE  TypeInv'
    BY <2>3, CallsTyped
  <2>4. ASSUME NEW t \in Restarts, RestartStep(t) \/ RestartTimeout(t) PROVE TypeInv'
    BY <2>4, RestartsTyped
  <2>5. ASSUME NEW w \in Workers, ShutStep(w) \/ StartTimeout(w) PROVE TypeInv'
    BY <2>5, ShutTyped
  <2>6. CASE Start \/ StartDone \/ Stop \/ Down
    BY <2>6, PhasesTyped
  <2>7. CASE MonitorStep
    BY <2>7, MonitorTyped
  <2>8. CASE Quiet
    BY <2>1, <2>8 DEF Quiet
  <2> QED
    BY <2>1, <2>2, <2>3, <2>4, <2>5, <2>6, <2>7, <2>8 DEF Next
<1> QED
  BY <1>1, <1>2, PTL DEF Spec

\* Every variable has its type, whatever crashes, hangs, is cancelled or shut down:
\* the index wraps around, a call that talks has a process to talk to, and no call
\* begins a round after its last attempt.
THEOREM TypeCorrect == Spec => []TypeOK
BY PoolInvariant, PoolTyped, PTL

-----------------------------------------------------------------------------
(* Whose a process is.  Workers are restarted without their lock, so a call may *)
(* talk to a process that its worker has no more; but never does one worker    *)
(* use the process of another.                                                 *)

Talking == {"drain", "read"}

Uses(p, w) ==
  \/ proc[w] = p
  \/ \E c \in Calls : pc[c] \in Talking /\ on[c] = w /\ src[c] = p
  \/ mpc \in Talking /\ mw = w /\ msrc = p

OneWorker ==
  \A p \in Procs : \A v, w \in Workers : Uses(p, v) /\ Uses(p, w) => v = w

\* Before the pool runs there are no calls.
Early == phase \in {"new", "starting"} => \A c \in Calls : pc[c] = "idle"

\* Between the check and the kill nobody goes on and nobody is inside.
AboutToKill ==
  ph[MonitorRestart] = "due" =>
    turn = Monitor /\ mpc = "restart" /\ Inside(target[MonitorRestart]) = {}

OwnerInv == PoolInv /\ OneWorker /\ Early /\ AboutToKill

\* A call goes on: it may take over the process of its worker, others stay.
Goes(c) ==
  /\ UNCHANGED <<proc, mpc, mw, msrc, phase>>
  /\ \A d \in Calls \ {c} : pc'[d] = pc[d] /\ on'[d] = on[d] /\ src'[d] = src[d]
  /\ pc'[c] \in Talking =>
       on'[c] = on[c] /\ (src'[c] = proc[on[c]] \/ (pc[c] \in Talking /\ src'[c] = src[c]))
  /\ turn \in {NoOne, c}
  /\ ph'[MonitorRestart] = ph[MonitorRestart]
  /\ phase \in {"new", "starting"} => pc' = pc

LEMMA FailsGoes ==
  ASSUME PoolInv, NEW c \in Calls, AttemptFails(c), UNCHANGED besideCalls,
         turn \in {NoOne, c}, pc[c] \in {"wait", "drain", "read"}, Early
  PROVE  Goes(c)
<1>1. /\ src \in [Calls -> Procs \cup {NoProc}]
      /\ pc \in [Calls -> {"idle", "scan", "wait", "drain", "read"} \cup Over]
      /\ ph \in [Restarts -> {"none", "due", "reap", "spawn", "ready", "drop"}]
  BY DEF PoolInv, TypeInv, CallTypes, RestartTypes, LockInv, LockTypes
<1>2. <<c, tries[c]>> # MonitorRestart
  BY DEF MonitorRestart, PoolAssumption
<1>3. ph'[MonitorRestart] = ph[MonitorRestart]
  BY <1>1, <1>2 DEF AttemptFails, Restarts
<1>4. pc'[c] \notin Talking /\ \A d \in Calls \ {c} : pc'[d] = pc[d]
  BY <1>1 DEF AttemptFails, Talking
<1>5. \A d \in Calls \ {c} : on'[d] = on[d] /\ src'[d] = src[d]
  BY <1>1 DEF AttemptFails
<1>6. phase \notin {"new", "starting"}
  BY DEF Early
<1> QED
  BY <1>3, <1>4, <1>5, <1>6 DEF Goes, besideCalls, poolVars, monVars

LEMMA CallGoes ==
  ASSUME OwnerInv, NEW c \in Calls, Call(c) \/ CallStep(c) \/ Cancel(c) \/ WorkerError(c)
  PROVE  Goes(c)
<1> PoolInv /\ Early
  BY DEF OwnerInv
<1>1. /\ src \in [Calls -> Procs \cup {NoProc}] /\ on \in [Calls -> Workers]
      /\ pc \in [Calls -> {"idle", "scan", "wait", "drain", "read"} \cup Over]
  BY DEF PoolInv, TypeInv, CallTypes, LockInv, LockTypes
<1>2. CASE Call(c)
  BY <1>1, <1>2 DEF Call, Goes, Talking, besideCalls, poolVars, monVars, restartVars
<1>3. CASE Scan(c)
  <2>1. phase \notin {"new", "starting"}
    BY <1>3 DEF Scan, Early
  <2> QED
    BY <1>1, <1>3, <2>1 DEF Scan, Goes, Talking, monVars, restartVars
<1>4. CASE Begin(c)
  <2>1. CASE AttemptFails(c)
    BY <1>4, <2>1, FailsGoes DEF Begin
  <2>2. CASE ~AttemptFails(c)
    <3>1. phase \notin {"new", "starting"}
      BY <1>4 DEF Begin, Early
    <3> QED
      BY <1>1, <1>4, <2>2, <3>1 DEF Begin, Goes, Talking, besideCalls, poolVars, monVars,
         restartVars
  <2> QED
    BY <2>1, <2>2
<1>5. CASE Drained(c)
  <2>1. CASE AttemptFails(c)
    BY <1>5, <2>1, FailsGoes DEF Drained
  <2>2. CASE ~AttemptFails(c)
    <3>1. phase \notin {"new", "starting"}
      BY <1>5 DEF Drained, Early
    <3> QED
      BY <1>1, <1>5, <2>2, <3>1 DEF Drained, Goes, Talking, besideCalls, poolVars, monVars,
         restartVars, callVars
  <2> QED
    BY <2>1, <2>2
<1>6. CASE Return(c)
  <2>1. CASE AttemptFails(c)
    BY <1>6, <2>1, FailsGoes DEF Return
  <2>2. CASE ~AttemptFails(c)
    <3>1. phase \notin {"new", "starting"}
      BY <1>6 DEF Return, Early
    <3> QED
      BY <1>1, <1>6, <2>2, <3>1 DEF Return, Goes, Talking, besideCalls, poolVars, monVars,
         restartVars
  <2> QED
    BY <2>1, <2>2
<1>7. CASE Eof(c) \/ Timeout(c) \/ WorkerError(c)
  BY <1>7, FailsGoes DEF Eof, Timeout, WorkerError
<1>8. CASE Cancel(c)
  <2>1. phase \notin {"new", "starting"}
    BY <1>8 DEF Cancel, Early
  <2> QED
    BY <1>1, <1>8, <2>1 DEF Cancel, Goes, Talking, besideCalls, poolVars, monVars, restartVars
<1> QED
  BY <1>2, <1>3, <1>4, <1>5, <1>6, <1>7, <1>8 DEF CallStep

\* A worker uses nothing new.
LEMMA UsesKept ==
  ASSUME OneWorker, \A p \in Procs, w \in Workers : Uses(p, w)' => Uses(p, w)
  PROVE  OneWorker'
BY DEF OneWorker

LEMMA GoesOwner ==
  ASSUME OwnerInv, NEW c \in Calls, Goes(c)
  PROVE  OneWorker' /\ Early' /\ AboutToKill'
<1>1. \A p \in Procs, w \in Workers : Uses(p, w)' => Uses(p, w)
  BY DEF Goes, Uses
<1>2. OneWorker'
  BY <1>1, UsesKept DEF OwnerInv
<1>3. Early'
  BY DEF OwnerInv, Early, Goes
<1>4. ph[MonitorRestart] # "due"
  BY TasksDistinct DEF OwnerInv, AboutToKill, Goes
<1>5. AboutToKill'
  BY <1>4 DEF AboutToKill, Goes
<1> QED
  BY <1>2, <1>3, <1>5

\* The monitor holds the lock of its worker: no call is inside.
LEMMA MonitorAlone ==
  ASSUME LockInv, holder[mw] = Monitor
  PROVE  Inside(mw) = {}
<1> SUFFICES ASSUME NEW c \in Inside(mw) PROVE FALSE
  OBVIOUS
<1>1. c \in Calls /\ holder[mw] = c
  BY DEF Inside, LockInv, InsideHolds
<1> QED
  BY <1>1, TasksDistinct

LEMMA UnhealthyOwner ==
  ASSUME OwnerInv, Unhealthy, holder[mw] = Monitor, UNCHANGED <<proc, callVars, phase>>
  PROVE  OneWorker' /\ Early' /\ AboutToKill'
<1> PoolInv /\ LockInv
  BY DEF OwnerInv, PoolInv
<1>1. \A p \in Procs, w \in Workers : Uses(p, w)' => Uses(p, w)
  BY DEF Unhealthy, Uses, Talking, callVars
<1>2. OneWorker'
  BY <1>1, UsesKept DEF OwnerInv
<1>3. Early'
  BY DEF OwnerInv, Early, callVars
<1>4. target'[MonitorRestart] = mw
  BY DEF Unhealthy, PoolInv, TypeInv, RestartTypes, Restarts
<1>5. Inside(mw)' = Inside(mw)
  BY DEF Unhealthy, Inside, callVars
<1>6. AboutToKill'
  BY <1>4, <1>5, MonitorAlone DEF AboutToKill, Unhealthy, Inside, callVars
<1> QED
  BY <1>2, <1>3, <1>6

LEMMA MonitorOwner ==
  ASSUME OwnerInv, MonitorStep
  PROVE  OneWorker' /\ Early' /\ AboutToKill'
<1> PoolInv /\ LockInv /\ InsideHolds
  BY DEF OwnerInv, PoolInv, LockInv
<1>1. UNCHANGED <<proc, callVars, phase>>
  BY DEF MonitorStep, MonWake, MonAsk, MonDrained, MonRead, MonTimeout, MonGoOn,
         besideMonitor, poolVars
<1>2. CASE Unhealthy
  <2>1. holder[mw] = Monitor
    <3>1. CASE mpc \in {"drain", "read"}
      BY <3>1 DEF InsideHolds
    <3>2. CASE mpc \notin {"drain", "read"}
      <4>1. MonAsk \/ MonWake \/ MonGoOn
        BY <3>2 DEF MonitorStep, MonDrained, MonRead, MonTimeout
      <4>2. mpc' = "restart"
        BY <1>2 DEF Unhealthy
      <4>3. MonAsk
        BY <4>1, <4>2 DEF MonWake, MonGoOn, MonNext
      <4> QED
        BY <4>3 DEF MonAsk
    <3> QED
      BY <3>1, <3>2
  <2> QED
    BY <1>1, <1>2, <2>1, UnhealthyOwner
<1>3. CASE ~Unhealthy
  <2>1. /\ ph' = ph /\ target' = target
        /\ mpc' \in Talking => mw' = mw /\ (msrc' = proc[mw] \/ (mpc \in Talking /\ msrc' = msrc))
    BY <1>3 DEF MonitorStep, MonWake, MonAsk, MonDrained, MonRead, MonTimeout, MonGoOn,
       MonNext, restartVars, Talking
  <2>2. \A p \in Procs, w \in Workers : Uses(p, w)' => Uses(p, w)
    BY <1>1, <2>1 DEF Uses, callVars
  <2>3. OneWorker'
    BY <2>2, UsesKept DEF OwnerInv
  <2>4. Early'
    BY <1>1 DEF OwnerInv, Early, callVars
  <2>5. CASE ph[MonitorRestart] = "due"
    <3>1. turn = Monitor /\ mpc = "restart"
      BY <2>5 DEF OwnerInv, AboutToKill
    <3>2. FALSE
      BY <2>5, <3>1, TasksDistinct DEF MonitorStep, MonWake, MonAsk, MonDrained, MonRead, MonTimeout,
         MonGoOn
    <3> QED
      BY <3>2
  <2>6. CASE ph[MonitorRestart] # "due"
    BY <2>1, <2>3, <2>4, <2>6 DEF AboutToKill
  <2> QED
    BY <2>5, <2>6
<1> QED
  BY <1>2, <1>3

LEMMA RestartOwner ==
  ASSUME OwnerInv, NEW t \in Restarts, RestartStep(t) \/ RestartTimeout(t)
  PROVE  OneWorker' /\ Early' /\ AboutToKill'
<1> PoolInv
  BY DEF OwnerInv
<1>1. /\ proc \in [Workers -> Procs \cup {NoProc}] /\ target[t] \in Workers
      /\ ph \in [Restarts -> {"none", "due", "reap", "spawn", "ready", "drop"}]
      /\ MonitorRestart \in Restarts
  BY DEF PoolInv, TypeInv, LoopTypes, RestartTypes, Restarts
<1>2. UNCHANGED <<callVars, monVars, phase, target>>
  BY DEF RestartStep, RestartBegin, RestartReap, RestartSpawn, RestartReady, RestartDrop,
         RestartTimeout, besideRestarts, poolVars
<1>3. Early'
  BY <1>2 DEF OwnerInv, Early, callVars
<1>4. ph'[MonitorRestart] = "due" => ph[MonitorRestart] = "due" /\ turn' = turn
  <2>1. CASE RestartBegin(t)
    <3>1. ph'[t] # "due" /\ \A u \in Restarts \ {t} : ph'[u] = ph[u]
      BY <1>1, <2>1 DEF RestartBegin
    <3>2. CASE ph[MonitorRestart] = "due"
      <4>1. turn = Monitor
        BY <3>2 DEF OwnerInv, AboutToKill
      <4>2. t = MonitorRestart
        BY <2>1, <4>1, TasksDistinct DEF RestartBegin
      <4> QED
        BY <3>1, <4>2
    <3>3. CASE ph[MonitorRestart] # "due"
      BY <1>1, <3>1, <3>3
    <3> QED
      BY <3>2, <3>3
  <2>2. CASE ~RestartBegin(t)
    BY <1>1, <2>2 DEF RestartStep, RestartReap, RestartSpawn, RestartReady, RestartDrop,
       RestartTimeout
  <2> QED
    BY <2>1, <2>2
<1>5. AboutToKill'
  <2>1. Inside(target[MonitorRestart])' = Inside(target[MonitorRestart])
    BY <1>2 DEF Inside, callVars
  <2> QED
    BY <1>2, <1>4, <2>1 DEF OwnerInv, AboutToKill, monVars, Inside, callVars
<1>6. OneWorker'
  <2>1. CASE RestartSpawn(t)
    <3>1. PICK s \in Procs : s = Spare /\ Fresh(s)
      BY <2>1, SpareFresh DEF RestartSpawn
    <3>2. \A w \in Workers : ~Uses(s, w)
      BY <3>1 DEF Fresh, Mentioned, Uses
    <3>3. proc' = [proc EXCEPT ![target[t]] = s]
      BY <2>1, <3>1 DEF RestartSpawn
    <3>4. \A p \in Procs, w \in Workers :
            Uses(p, w)' => Uses(p, w) \/ (p = s /\ w = target[t])
      BY <1>1, <1>2, <3>3 DEF Uses, callVars, monVars
    <3>5. \A w \in Workers : Uses(s, w)' => w = target[t]
      BY <3>2, <3>4
    <3> HIDE DEF Uses
    <3>6. SUFFICES ASSUME NEW p \in Procs, NEW v \in Workers, NEW w \in Workers,
                          Uses(p, v)', Uses(p, w)'
                   PROVE  v = w
      BY DEF OneWorker
    <3>7. CASE p = s
      BY <3>5, <3>6, <3>7
    <3>8. CASE p # s
      <4>1. Uses(p, v) /\ Uses(p, w)
        BY <3>4, <3>6, <3>8
      <4> QED
        BY <4>1 DEF OwnerInv, OneWorker
    <3> QED
      BY <3>7, <3>8
  <2>2. CASE ~RestartSpawn(t)
    <3>1. \A w \in Workers : proc'[w] \in {proc[w], NoProc}
      BY <1>1, <2>2 DEF RestartStep, RestartBegin, RestartReap, RestartReady, RestartDrop,
         RestartTimeout
    <3>2. \A p \in Procs : p # NoProc
      BY LinesTyped
    <3>3. \A p \in Procs, w \in Workers : Uses(p, w)' => Uses(p, w)
      BY <1>2, <3>1, <3>2 DEF Uses, callVars, monVars
    <3> QED
      BY <3>3, UsesKept DEF OwnerInv
  <2> QED
    BY <2>1, <2>2
<1> QED
  BY <1>3, <1>5, <1>6

LEMMA PhaseOwner ==
  ASSUME OwnerInv, Start \/ StartDone \/ Stop \/ Down
  PROVE  OneWorker' /\ Early' /\ AboutToKill'
<1> PoolInv /\ MonitorOff
  BY DEF OwnerInv, PoolInv, LockInv
<1>1. callVars' = callVars
  BY DEF Start, StartDone, Stop, Down
<1>2. Early'
  BY <1>1 DEF OwnerInv, Early, callVars, Start, StartDone, Stop, Down
<1>3. ph[MonitorRestart] # "due"
  BY TasksDistinct DEF OwnerInv, AboutToKill, Start, StartDone, Stop, Down
<1>4. AboutToKill'
  <2>1. ph'[MonitorRestart] # "due"
    BY <1>3 DEF Start, StartDone, Stop, Down, restartVars, PoolInv, TypeInv, RestartTypes,
       Restarts
  <2> QED
    BY <2>1 DEF AboutToKill
<1>5. OneWorker'
  <2>1. CASE Start
    <3>1. \A c \in Calls : pc'[c] = "idle"
      BY <1>1, <2>1 DEF Start, OwnerInv, Early, callVars
    <3>2. mpc' = "off"
      BY <2>1 DEF Start, MonitorOff, monVars
    <3>3. \A p \in Procs, w \in Workers : Uses(p, w)' => proc'[w] = p
      BY <3>1, <3>2 DEF Uses, Talking
    <3>4. \A v, w \in Workers : proc'[v] = proc'[w] => v = w
      BY <2>1, StartInjective DEF Start
    <3> QED
      BY <3>3, <3>4 DEF OneWorker
  <2>2. CASE ~Start
    <3>1. proc' = proc /\ (mpc' \in Talking => UNCHANGED monVars)
      BY <2>2 DEF StartDone, Stop, Down, monVars, Talking
    <3>2. \A p \in Procs, w \in Workers : Uses(p, w)' => Uses(p, w)
      BY <1>1, <3>1 DEF Uses, callVars, monVars
    <3> QED
      BY <3>2, UsesKept DEF OwnerInv
  <2> QED
    BY <2>1, <2>2
<1> QED
  BY <1>2, <1>4, <1>5

LEMMA ShutOwner ==
  ASSUME OwnerInv, NEW w \in Workers, ShutStep(w) \/ StartTimeout(w)
  PROVE  OneWorker' /\ Early' /\ AboutToKill'
<1>1. UNCHANGED <<callVars, restartVars, monVars, phase, turn>>
  BY DEF ShutStep, ShutWorker, ShutWait, ShutExited, ShutKill, ShutReap, StartTimeout,
         besideShutdown, poolVars
<1>2. \A v \in Workers : proc'[v] \in {proc[v], NoProc}
  <2>1. proc \in [Workers -> Procs \cup {NoProc}]
    BY DEF OwnerInv, PoolInv, TypeInv, LoopTypes
  <2> QED
    BY <2>1 DEF ShutStep, ShutWorker, ShutWait, ShutExited, ShutKill, ShutReap, StartTimeout
<1>3. \A p \in Procs : p # NoProc
  BY LinesTyped
<1>4. \A p \in Procs, v \in Workers : Uses(p, v)' => Uses(p, v)
  BY <1>1, <1>2, <1>3 DEF Uses, callVars, monVars
<1>5. OneWorker'
  BY <1>4, UsesKept DEF OwnerInv
<1>6. Early' /\ AboutToKill'
  BY <1>1 DEF OwnerInv, Early, AboutToKill, Inside, callVars, restartVars, monVars
<1> QED
  BY <1>5, <1>6

LEMMA StayOwner ==
  ASSUME OwnerInv, UNCHANGED <<phase, proc, callVars, restartVars, monVars, turn>>
  PROVE  OneWorker' /\ Early' /\ AboutToKill'
BY DEF OwnerInv, OneWorker, Uses, Early, AboutToKill, Inside, callVars, restartVars, monVars

LEMMA OwnerInvariant == Spec => []OwnerInv
<1>1. Init => OneWorker /\ Early /\ AboutToKill
  <2> SUFFICES ASSUME Init PROVE OneWorker /\ Early /\ AboutToKill
    OBVIOUS
  <2>1. \A p \in Procs, w \in Workers : ~Uses(p, w)
    BY LinesTyped DEF Init, Uses, Talking
  <2>2. ph[MonitorRestart] = "none"
    BY DEF Init, Restarts
  <2> QED
    BY <2>1, <2>2 DEF Init, OneWorker, Early, AboutToKill
<1>2. OwnerInv /\ [Next]_vars => (OneWorker /\ Early /\ AboutToKill)'
  <2> SUFFICES ASSUME OwnerInv, [Next]_vars PROVE OneWorker' /\ Early' /\ AboutToKill'
    OBVIOUS
  <2>1. CASE UNCHANGED vars \/ Quiet
    BY <2>1, StayOwner DEF vars, poolVars, Quiet
  <2>2. ASSUME NEW p \in Procs, ProcessStep(p) \/ Hang(p) \/ Crash(p)
        PROVE  OneWorker' /\ Early' /\ AboutToKill'
    BY <2>2, StayOwner DEF ProcessStep, BootDone, TakeRequest, Answer, Hang, Crash, loopVars,
       poolVars
  <2>3. ASSUME NEW c \in Calls, Call(c) \/ CallStep(c) \/ Cancel(c) \/ WorkerError(c)
        PROVE  OneWorker' /\ Early' /\ AboutToKill'
    BY <2>3, CallGoes, GoesOwner
  <2> QED
    BY <2>1, <2>2, <2>3, RestartOwner, ShutOwner, PhaseOwner, MonitorOwner DEF Next
<1> QED
  BY <1>1, <1>2, PoolInvariant, PTL DEF Spec, OwnerInv

\* Nobody but the monitor gets to run between its check and its kill.
LEMMA MonitorKills ==
  ASSUME OwnerInv, Next, ph[MonitorRestart] = "due", ph'[MonitorRestart] # "due"
  PROVE  RestartBegin(MonitorRestart)
<1>1. turn = Monitor /\ mpc = "restart"
  BY DEF OwnerInv, AboutToKill
<1>2. \A c \in Calls : ~Call(c) /\ ~CallStep(c) /\ ~Cancel(c) /\ ~WorkerError(c)
  BY <1>1, TasksDistinct
  DEF Call, CallStep, Scan, Begin, Drained, Return, Eof, Timeout, Cancel, WorkerError
<1>3. ~(MonitorStep \/ Start \/ StartDone \/ Stop \/ Down)
  BY <1>1, TasksDistinct
  DEF MonitorStep, MonWake, MonAsk, MonDrained, MonRead, MonTimeout, MonGoOn, Start,
      StartDone, Stop, Down
<1>4. \A w \in Workers : ~ShutStep(w) /\ ~StartTimeout(w)
  BY <1>1, TasksDistinct
  DEF ShutStep, ShutWorker, ShutWait, ShutExited, ShutKill, ShutReap, StartTimeout
<1>5. \A p \in Procs : ~(ProcessStep(p) \/ Hang(p) \/ Crash(p))
  BY DEF ProcessStep, BootDone, TakeRequest, Answer, Hang, Crash, loopVars, restartVars
<1>6. ~Quiet
  BY DEF Quiet, vars, restartVars
<1>7. PICK t \in Restarts : RestartStep(t) \/ RestartTimeout(t)
  BY <1>2, <1>3, <1>4, <1>5, <1>6 DEF Next
<1> QED
  BY <1>1, <1>7, TasksDistinct
  DEF RestartStep, RestartBegin, RestartReap, RestartSpawn, RestartReady, RestartDrop,
      RestartTimeout

\* Of the other steps that move the monitor's restart on, only start()'s timeout ends
\* a process: the one the worker has by then.
LEMMA MonitorMovesOn ==
  ASSUME OwnerInv, Next, ph[MonitorRestart] # "due",
         ph'[MonitorRestart] # ph[MonitorRestart],
         NEW p \in Procs, st[p] # "dead", st'[p] = "dead"
  PROVE  /\ ph[MonitorRestart] = "ready" /\ ph'[MonitorRestart] = "drop"
         /\ st[awaited[MonitorRestart]] = "starting"
         /\ p = proc[target[MonitorRestart]]
<1>1. /\ ph \in [Restarts -> {"none", "due", "reap", "spawn", "ready", "drop"}]
      /\ st \in [Procs -> {"free", "starting", "up", "hung", "dead"}]
      /\ MonitorRestart \in Restarts
  BY DEF OwnerInv, PoolInv, TypeInv, RestartTypes, OsTypes, Restarts
<1>2. \A c \in Calls : ~Call(c) /\ ~CallStep(c) /\ ~Cancel(c) /\ ~WorkerError(c)
  BY CallGoes DEF Goes
<1>3. ~(MonitorStep \/ StartDone \/ Stop \/ Down)
  BY DEF MonitorStep, MonWake, MonAsk, MonDrained, MonRead, MonTimeout, MonGoOn, StartDone,
     Stop, Down, osVars
<1>4. ~Start /\ \A w \in Workers : ~ShutStep(w) /\ ~StartTimeout(w)
  BY DEF Start, ShutStep, ShutWorker, ShutWait, ShutExited, ShutKill, ShutReap, StartTimeout,
     besideShutdown, restartVars
<1>5. \A q \in Procs : ~(ProcessStep(q) \/ Hang(q) \/ Crash(q))
  BY DEF ProcessStep, BootDone, TakeRequest, Answer, Hang, Crash, loopVars, restartVars
<1>6. ~Quiet
  BY DEF Quiet, vars, restartVars
<1>7. PICK t \in Restarts : RestartStep(t) \/ RestartTimeout(t)
  BY <1>2, <1>3, <1>4, <1>5, <1>6 DEF Next
<1>8. t = MonitorRestart
  BY <1>1, <1>7
  DEF RestartStep, RestartBegin, RestartReap, RestartSpawn, RestartReady, RestartDrop,
      RestartTimeout
<1>9. ~RestartStep(t)
  BY <1>1, <1>8
  DEF RestartStep, RestartBegin, RestartReap, RestartSpawn, RestartReady, RestartDrop, Spawned,
      osVars
<1>10. RestartTimeout(MonitorRestart)
  BY <1>7, <1>8, <1>9
<1>11. p = proc[target[MonitorRestart]]
  BY <1>1, <1>10 DEF RestartTimeout, Die, osVars
<1> QED
  BY <1>1, <1>10, <1>11 DEF RestartTimeout

\* No step of the health monitor's restart ends a process a call talks to, but for
\* start()'s timeout, which kills the process the worker has by then: for every size
\* of the pool, any number of calls and every fault.
THEOREM CallsSpared == Spec => MonitorSparesCalls
<1> DEFINE Spared ==
      ph'[MonitorRestart] # ph[MonitorRestart] =>
        \A c \in Calls : pc[c] \in {"drain", "read"} /\ st[src[c]] # "dead" =>
          \/ st'[src[c]] # "dead"
          \/ /\ ph[MonitorRestart] = "ready" /\ ph'[MonitorRestart] = "drop"
             /\ st[awaited[MonitorRestart]] = "starting"
             /\ src[c] = proc[target[MonitorRestart]]
<1>1. OwnerInv /\ [Next]_vars => [Spared]_vars
  <2> SUFFICES ASSUME OwnerInv, Next, ph'[MonitorRestart] # ph[MonitorRestart],
                      NEW c \in Calls, pc[c] \in {"drain", "read"}, st[src[c]] # "dead",
                      st'[src[c]] = "dead"
               PROVE  /\ ph[MonitorRestart] = "ready" /\ ph'[MonitorRestart] = "drop"
                      /\ st[awaited[MonitorRestart]] = "starting"
                      /\ src[c] = proc[target[MonitorRestart]]
    OBVIOUS
  <2> PoolInv
    BY DEF OwnerInv
  <2>1. /\ target[MonitorRestart] \in Workers /\ on[c] \in Workers /\ src[c] \in Procs
        /\ st \in [Procs -> {"free", "starting", "up", "hung", "dead"}]
    BY DEF PoolInv, TypeInv, RestartTypes, CallTypes, OsTypes, LockInv, LockTypes, Restarts
  <2>2. CASE ph[MonitorRestart] = "due"
    <3>1. RestartBegin(MonitorRestart)
      BY <2>2, MonitorKills
    <3>2. src[c] # proc[target[MonitorRestart]]
      <4>1. SUFFICES ASSUME src[c] = proc[target[MonitorRestart]] PROVE FALSE
        OBVIOUS
      <4>2. Uses(src[c], on[c]) /\ Uses(src[c], target[MonitorRestart])
        BY <4>1 DEF Uses, Talking
      <4>3. on[c] = target[MonitorRestart]
        BY <2>1, <4>2 DEF OwnerInv, OneWorker
      <4> QED
        BY <2>2, <4>3 DEF OwnerInv, AboutToKill, Inside
    <3>3. st'[src[c]] = st[src[c]]
      BY <2>1, <3>1, <3>2 DEF RestartBegin, Die, osVars
    <3> QED
      BY <3>3
  <2>3. CASE ph[MonitorRestart] # "due"
    BY <2>1, <2>3, MonitorMovesOn
  <2> QED
    BY <2>2, <2>3
<1> HIDE DEF Spared
<1>2. Spec => [][Spared]_vars
  BY <1>1, OwnerInvariant, PTL DEF Spec
<1> QED
  BY <1>2 DEF Spared, MonitorSparesCalls

-----------------------------------------------------------------------------
(* Whose an answer is, as long as nobody gives up on one.  A process is calm   *)
(* when nothing is on its way through it or its code hangs; it holds a line    *)
(* that is on its way: in stdin, being served, or in stdout.                   *)

Blank(p) == stdin[p] = <<>> /\ cur[p] = NoLine

Calm(p) == stdout[p] = <<>> /\ (Blank(p) \/ st[p] = "hung")

Holds(p, line) ==
  \/ stdin[p] = <<line>> /\ cur[p] = NoLine /\ stdout[p] = <<>>
  \/ stdin[p] = <<>> /\ cur[p] = line /\ stdout[p] = <<>>
  \/ Blank(p) /\ stdout[p] = <<line>>

\* Task t talks to process p, under the lock of worker w.
Talks(t, w, p) ==
  \/ t \in Calls /\ pc[t] \in Talking /\ on[t] = w /\ src[t] = p
  \/ t = Monitor /\ mpc \in Talking /\ mw = w /\ msrc = p

Request(t) == IF t = Monitor THEN Health ELSE t

\* Nothing is on its way to a task but the answer to its request, and when the
\* worker has got another process meanwhile, nobody asked that one.
Asked ==
  \A t \in Tasks, w \in Workers, p \in Procs : Talks(t, w, p) =>
    /\ Calm(p) \/ Holds(p, Request(t))
    /\ proc[w] \notin {p, NoProc} => Calm(proc[w])

\* A live process nobody talks to is calm: what a task did not get died with it.
Unasked ==
  \A w \in Workers :
    Live(proc[w]) /\ (\A t \in Tasks, p \in Procs : ~Talks(t, w, p)) => Calm(proc[w])

Conversation == phase \in {"starting", "running"} => Asked /\ Unasked

NoRest == \A w \in Workers : rbuf[w] = <<>>

\* A process that is not there has no requests.
Unborn ==
  /\ \A p \in Procs : phase = "new" \/ st[p] \in {"free", "dead"} => Blank(p)
  /\ \A w \in Workers : proc[w] # NoProc => st[proc[w]] # "free"

Served ==
  /\ started <=> phase = "running"
  /\ ~started => mpc = "off" /\ \A c \in Calls : pc[c] \in {"idle", "failed"}

AnswerInv == OwnerInv /\ Unborn /\ Served /\ NoRest /\ Conversation /\ OwnAnswer

LEMMA OneLine ==
  /\ \A x : Head(<<x>>) = x /\ Tail(<<x>>) = <<>> /\ Append(<<>>, x) = <<x>> /\ <<x>> # <<>>
  /\ \A x : Len(<<x>>) = 1 /\ SubSeq(<<x>>, 2, 1) = <<>>
OBVIOUS

\* Whoever talks under a lock holds it.
LEMMA TalkerHolds ==
  ASSUME LockInv, NEW t \in Tasks, NEW w, NEW p, Talks(t, w, p)
  PROVE  holder[w] = t
BY DEF LockInv, InsideHolds, Talks, Talking

LEMMA TalkerUses ==
  ASSUME NEW t \in Tasks, NEW w, NEW p, Talks(t, w, p)
  PROVE  Uses(p, w)
BY DEF Talks, Uses, Talking

\* Processes go on by themselves, end or begin, and nobody is written to.
Settles ==
  /\ \A p \in Procs : Calm(p) => Calm(p)'
  /\ \A p \in Procs, t \in Tasks : Holds(p, Request(t)) => Holds(p, Request(t))' \/ Calm(p)'
  /\ \A w \in Workers : \/ proc'[w] = NoProc
                        \/ proc'[w] = proc[w] /\ (Live(proc[w])' => Live(proc[w]))
                        \/ proc'[w] \in Procs /\ Calm(proc[w])'

LEMMA SettlesTalk ==
  ASSUME PoolInv, Asked /\ Unasked, Settles, UNCHANGED <<callVars, monVars>>
  PROVE  Asked' /\ Unasked'
<1>1. \A t \in Tasks, w \in Workers, p \in Procs : Talks(t, w, p)' <=> Talks(t, w, p)
  BY DEF Talks, callVars, monVars
<1>2. \A w \in Workers : proc[w] # NoProc => proc[w] \in Procs
  BY DEF PoolInv, TypeInv, LoopTypes
<1> HIDE DEF Talks, Calm, Holds
<1>3. Asked'
  <2> SUFFICES ASSUME NEW t \in Tasks, NEW w \in Workers, NEW p \in Procs, Talks(t, w, p)'
               PROVE  /\ Calm(p)' \/ Holds(p, Request(t))'
                      /\ proc'[w] \notin {p, NoProc} => Calm(proc[w])'
    BY DEF Asked
  <2>1. Talks(t, w, p)
    BY <1>1
  <2>2. (Calm(p) \/ Holds(p, Request(t))) /\ (proc[w] \notin {p, NoProc} => Calm(proc[w]))
    BY <2>1 DEF Asked
  <2>3. Calm(p)' \/ Holds(p, Request(t))'
    BY <2>2 DEF Settles
  <2>4. proc'[w] \notin {p, NoProc} => Calm(proc[w])'
    <3>1. CASE proc'[w] = proc[w] /\ proc[w] \notin {p, NoProc}
      <4>1. PICK q \in Procs : q = proc[w]
        BY <1>2, <3>1
      <4>2. Calm(q)'
        BY <2>2, <3>1, <4>1 DEF Settles
      <4> QED
        BY <3>1, <4>1, <4>2
    <3>2. CASE proc'[w] \in Procs /\ Calm(proc[w])'
      BY <3>2
    <3> QED
      BY <3>1, <3>2 DEF Settles
  <2> QED
    BY <2>3, <2>4
<1>4. Unasked'
  <2> SUFFICES ASSUME NEW w \in Workers, Live(proc[w])',
                      \A t \in Tasks, p \in Procs : ~Talks(t, w, p)'
               PROVE  Calm(proc[w])'
    BY DEF Unasked
  <2>1. proc'[w] # NoProc
    BY DEF Live
  <2>2. CASE proc'[w] = proc[w] /\ Live(proc[w])
    <3>1. PICK q \in Procs : q = proc[w]
      BY <1>2, <2>1, <2>2
    <3>2. Calm(q)
      BY <1>1, <2>2, <3>1 DEF Unasked
    <3> QED
      BY <2>2, <3>1, <3>2 DEF Settles
  <2> QED
    BY <2>1, <2>2 DEF Settles
<1> QED
  BY <1>3, <1>4

\* A task goes on and the others stay.
Alone(t) ==
  \A u \in Tasks \ {t}, w \in Workers, p \in Procs : Talks(u, w, p)' <=> Talks(u, w, p)

\* A task writes its request to the process of the worker it has locked.
LEMMA TaskAsks ==
  ASSUME OwnerInv, Asked /\ Unasked, NEW t \in Tasks, NEW w \in Workers, NEW p \in Procs,
         holder[w] = t, Alone(t), p = proc[w], Live(p),
         \A v \in Workers, q \in Procs : ~Talks(t, v, q),
         \A v \in Workers, q \in Procs : Talks(t, v, q)' => v = w /\ q = p, Talks(t, w, p)',
         stdin' = [stdin EXCEPT ![p] = Append(@, Request(t))],
         UNCHANGED <<proc, st, cur, stdout>>
  PROVE  Asked' /\ Unasked'
<1> LockInv /\ PoolInv
  BY DEF OwnerInv, PoolInv
<1>1. \A u \in Tasks, q \in Procs : ~Talks(u, w, q)
  BY TalkerHolds
<1>2. Calm(p)
  BY <1>1 DEF Unasked
<1>3. stdin \in [Procs -> Seq(Lines)]
  BY DEF PoolInv, TypeInv, OsTypes
<1>4. Calm(p)' \/ Holds(p, Request(t))'
  BY <1>2, <1>3, OneLine DEF Calm, Holds, Blank
<1>5. \A q \in Procs \ {p} : Calm(q)' = Calm(q) /\ \A x : Holds(q, x)' = Holds(q, x)
  BY <1>3 DEF Calm, Holds, Blank
<1>6. \A v \in Workers \ {w} : proc[v] # p
  BY DEF OwnerInv, OneWorker, Uses
<1>7. \A u \in Tasks \ {t}, v \in Workers, q \in Procs : Talks(u, v, q) => v # w /\ q # p
  <2> SUFFICES ASSUME NEW u \in Tasks \ {t}, NEW v \in Workers, NEW q \in Procs, Talks(u, v, q)
               PROVE  v # w /\ q # p
    OBVIOUS
  <2>1. v # w
    BY <1>1
  <2>2. Uses(q, v) /\ Uses(p, w)
    BY TalkerUses DEF Uses
  <2> QED
    BY <2>1, <2>2 DEF OwnerInv, OneWorker
<1>8. \A v \in Workers : proc[v] # NoProc => proc[v] \in Procs
  BY DEF PoolInv, TypeInv, LoopTypes
<1>9. Live(p)' /\ \A v \in Workers : Live(proc[v])' = Live(proc[v])
  BY DEF Live
<1> HIDE DEF Talks, Calm, Holds, Live
<1>10. Asked'
  <2> SUFFICES ASSUME NEW u \in Tasks, NEW v \in Workers, NEW q \in Procs, Talks(u, v, q)'
               PROVE  /\ Calm(q)' \/ Holds(q, Request(u))'
                      /\ proc[v] \notin {q, NoProc} => Calm(proc[v])'
    BY DEF Asked
  <2>1. CASE u = t
    <3>1. v = w /\ q = p
      BY <2>1
    <3> QED
      BY <1>4, <2>1, <3>1
  <2>2. CASE u # t
    <3>1. Talks(u, v, q) /\ v # w /\ q # p
      BY <1>7, <2>2 DEF Alone
    <3>2. Calm(q) \/ Holds(q, Request(u))
      BY <3>1 DEF Asked
    <3>3. Calm(q)' \/ Holds(q, Request(u))'
      BY <1>5, <3>1, <3>2
    <3>4. ASSUME proc[v] \notin {q, NoProc} PROVE Calm(proc[v])'
      <4>1. PICK r \in Procs \ {p} : r = proc[v]
        BY <1>6, <1>8, <3>1, <3>4
      <4>2. Calm(r)
        BY <3>1, <3>4, <4>1 DEF Asked
      <4>3. Calm(r)'
        BY <1>5, <4>2
      <4> QED
        BY <4>1, <4>3
    <3> QED
      BY <3>3, <3>4
  <2> QED
    BY <2>1, <2>2
<1>11. Unasked'
  <2> SUFFICES ASSUME NEW v \in Workers, Live(proc[v])',
                      \A u \in Tasks, q \in Procs : ~Talks(u, v, q)'
               PROVE  Calm(proc[v])'
    BY DEF Unasked
  <2>1. v # w
    OBVIOUS
  <2>2. \A u \in Tasks, q \in Procs : ~Talks(u, v, q)
    BY DEF Alone
  <2>3. PICK r \in Procs \ {p} : r = proc[v]
    BY <1>6, <1>8, <2>1 DEF Live
  <2>4. Calm(r)
    BY <1>9, <2>2, <2>3 DEF Unasked
  <2>5. Calm(r)'
    BY <1>5, <2>4
  <2> QED
    BY <2>3, <2>5
<1> QED
  BY <1>10, <1>11

\* After drain() a task goes on with the process its worker has by now.
LEMMA TaskTakesOver ==
  ASSUME PoolInv, Asked /\ Unasked, NEW t \in Tasks, NEW w \in Workers, NEW p \in Procs,
         Alone(t), \A v \in Workers, q \in Procs : Talks(t, v, q) <=> v = w /\ q = p,
         proc[w] \in Procs,
         \A v \in Workers, q \in Procs : Talks(t, v, q)' <=> v = w /\ q = proc[w],
         UNCHANGED <<proc, osVars>>
  PROVE  Asked' /\ Unasked'
<1>1. PICK n \in Procs : n = proc[w]
  OBVIOUS
<1>2. n # NoProc
  BY LinesTyped
<1>3. \A q : Calm(q)' = Calm(q) /\ Live(q)' = Live(q) /\ \A x : Holds(q, x)' = Holds(q, x)
  BY DEF Calm, Holds, Blank, Live, osVars
<1>4. \A v \in Workers : Calm(proc[v])' = Calm(proc[v]) /\ Live(proc[v])' = Live(proc[v])
  BY DEF Calm, Blank, Live, osVars
<1>5. Calm(n) \/ Holds(n, Request(t))
  BY <1>1, <1>2 DEF Asked
<1> HIDE DEF Talks, Calm, Holds, Live
<1>6. Asked'
  <2> SUFFICES ASSUME NEW u \in Tasks, NEW v \in Workers, NEW q \in Procs, Talks(u, v, q)'
               PROVE  /\ Calm(q)' \/ Holds(q, Request(u))'
                      /\ proc'[v] \notin {q, NoProc} => Calm(proc[v])'
    BY DEF Asked
  <2>1. CASE u = t
    BY <1>1, <1>3, <1>5, <2>1
  <2>2. CASE u # t
    <3>1. Talks(u, v, q)
      BY <2>2 DEF Alone
    <3> QED
      BY <1>3, <1>4, <3>1 DEF Asked
  <2> QED
    BY <2>1, <2>2
<1>7. Unasked'
  <2> SUFFICES ASSUME NEW v \in Workers, Live(proc[v])',
                      \A u \in Tasks, q \in Procs : ~Talks(u, v, q)'
               PROVE  Calm(proc[v])'
    BY DEF Unasked
  <2>1. v # w
    BY <1>1
  <2>2. \A u \in Tasks, q \in Procs : ~Talks(u, v, q)
    BY <2>1 DEF Alone
  <2> QED
    BY <1>4, <2>2 DEF Unasked
<1> QED
  BY <1>6, <1>7

\* A task that talks to nobody afterwards leaves no live process that is not calm.
LEMMA TaskLeaves ==
  ASSUME Asked /\ Unasked, NEW t \in Tasks, Alone(t),
         \A v \in Workers, q \in Procs : ~Talks(t, v, q)',
         \A v \in Workers, q \in Procs : Talks(t, v, q) /\ Live(proc[v]) => Calm(proc[v]),
         UNCHANGED <<proc, osVars>>
  PROVE  Asked' /\ Unasked'
<1>1. \A q : Calm(q)' = Calm(q) /\ Live(q)' = Live(q) /\ \A x : Holds(q, x)' = Holds(q, x)
  BY DEF Calm, Holds, Blank, Live, osVars
<1>2. \A v \in Workers : Calm(proc[v])' = Calm(proc[v]) /\ Live(proc[v])' = Live(proc[v])
  BY DEF Calm, Blank, Live, osVars
<1> HIDE DEF Talks, Calm, Holds, Live
<1>3. Asked'
  BY <1>1, <1>2 DEF Asked, Alone
<1>4. Unasked'
  <2> SUFFICES ASSUME NEW v \in Workers, Live(proc[v])',
                      \A u \in Tasks, q \in Procs : ~Talks(u, v, q)'
               PROVE  Calm(proc[v])'
    BY DEF Unasked
  <2>1. \A u \in Tasks \ {t}, q \in Procs : ~Talks(u, v, q)
    BY DEF Alone
  <2>2. CASE \E q \in Procs : Talks(t, v, q)
    BY <1>2, <2>2
  <2>3. CASE \A q \in Procs : ~Talks(t, v, q)
    BY <1>2, <2>1, <2>3 DEF Unasked
  <2> QED
    BY <2>2, <2>3
<1> QED
  BY <1>3, <1>4

\* A task that gives up on a process that is dead, or calm, leaves as it should.
LEMMA TaskGivesUp ==
  ASSUME PoolInv, Asked /\ Unasked, NEW t \in Tasks, NEW w \in Workers, NEW p \in Procs,
         Alone(t), \A v \in Workers, q \in Procs : Talks(t, v, q) <=> v = w /\ q = p,
         \A v \in Workers, q \in Procs : ~Talks(t, v, q)',
         proc[w] = NoProc \/ st[p] = "dead" \/ Calm(p),
         UNCHANGED <<proc, osVars>>
  PROVE  Asked' /\ Unasked'
<1>1. Live(proc[w]) => Calm(proc[w])
  <2>1. proc[w] \notin {p, NoProc} => Calm(proc[w])
    BY DEF Asked
  <2> QED
    BY <2>1 DEF Live
<1> QED
  BY <1>1, TaskLeaves

\* What a task reads is the answer to its request, and nothing is left after it.
LEMMA TaskHears ==
  ASSUME OwnerInv, Asked /\ Unasked, NEW t \in Tasks, NEW w \in Workers, NEW p \in Procs,
         Talks(t, w, p), stdout[p] # <<>>
  PROVE  /\ Blank(p) /\ stdout[p] = <<Request(t)>>
         /\ /\ Alone(t)
            /\ \A v \in Workers, q \in Procs : ~Talks(t, v, q)'
            /\ stdout' = [stdout EXCEPT ![p] = <<>>]
            /\ UNCHANGED <<proc, st, stdin, cur>>
            => Asked' /\ Unasked'
<1> LockInv /\ PoolInv
  BY DEF OwnerInv, PoolInv
<1>1. Blank(p) /\ stdout[p] = <<Request(t)>>
  BY DEF Asked, Calm, Holds, Blank
<1>2. SUFFICES ASSUME Alone(t), \A v \in Workers, q \in Procs : ~Talks(t, v, q)',
                      stdout' = [stdout EXCEPT ![p] = <<>>], UNCHANGED <<proc, st, stdin, cur>>
               PROVE  Asked' /\ Unasked'
  BY <1>1
<1>3. stdout \in [Procs -> Seq(Lines)]
  BY DEF PoolInv, TypeInv, OsTypes
<1>4. Calm(p)'
  BY <1>1, <1>2, <1>3 DEF Calm, Blank
<1>5. \A q \in Procs \ {p} : Calm(q)' = Calm(q) /\ \A x : Holds(q, x)' = Holds(q, x)
  BY <1>2, <1>3 DEF Calm, Holds, Blank
<1>6. \A v \in Workers : proc[v] # NoProc => proc[v] \in Procs
  BY DEF PoolInv, TypeInv, LoopTypes
<1>7. \A v \in Workers : Live(proc[v])' = Live(proc[v])
  BY <1>2 DEF Live
<1>8. \A v \in Workers, q \in Procs : proc[v] = q \/ (\E u \in Tasks : Talks(u, v, q)) =>
        Uses(q, v)
  BY TalkerUses DEF Uses
<1>9. \A v \in Workers \ {w} : ~Uses(p, v)
  BY <1>8 DEF OwnerInv, OneWorker
<1>10. \A v \in Workers, q \in Procs, u \in Tasks \ {t} : Talks(u, v, q) => v # w
  BY TalkerHolds
<1> HIDE DEF Talks, Calm, Holds, Live, Uses
<1>11. \A v \in Workers : Calm(proc[v]) /\ proc[v] # NoProc => Calm(proc[v])'
  <2> SUFFICES ASSUME NEW v \in Workers, Calm(proc[v]), proc[v] # NoProc
               PROVE  Calm(proc[v])'
    OBVIOUS
  <2>1. PICK r \in Procs : r = proc[v]
    BY <1>6
  <2>2. Calm(r)'
    BY <1>4, <1>5, <2>1
  <2> QED
    BY <1>2, <2>1, <2>2
<1>12. Asked'
  <2> SUFFICES ASSUME NEW u \in Tasks, NEW v \in Workers, NEW q \in Procs, Talks(u, v, q)'
               PROVE  /\ Calm(q)' \/ Holds(q, Request(u))'
                      /\ proc'[v] \notin {q, NoProc} => Calm(proc[v])'
    BY DEF Asked
  <2>1. u # t /\ Talks(u, v, q)
    BY <1>2 DEF Alone
  <2>2. q # p
    BY <1>8, <1>9, <1>10, <2>1
  <2>3. (Calm(q) \/ Holds(q, Request(u))) /\ (proc[v] \notin {q, NoProc} => Calm(proc[v]))
    BY <2>1 DEF Asked
  <2> QED
    BY <1>2, <1>5, <1>11, <2>2, <2>3
<1>13. Unasked'
  <2> SUFFICES ASSUME NEW v \in Workers, Live(proc[v])',
                      \A u \in Tasks, q \in Procs : ~Talks(u, v, q)'
               PROVE  Calm(proc[v])'
    BY DEF Unasked
  <2>1. Live(proc[v]) /\ proc[v] # NoProc
    BY <1>7 DEF Live
  <2>2. CASE v = w
    <3>1. proc[w] = p \/ Calm(proc[w])
      BY <2>1, <2>2 DEF Asked
    <3> QED
      BY <1>2, <1>4, <1>11, <2>1, <2>2, <3>1
  <2>3. CASE v # w
    <3>1. \A u \in Tasks, q \in Procs : ~Talks(u, v, q)
      <4>1. \A q \in Procs : ~Talks(t, v, q)
        <5>1. SUFFICES ASSUME NEW q \in Procs, Talks(t, v, q) PROVE v = w
          BY <2>3
        <5> QED
          BY <5>1 DEF Talks
      <4> QED
        BY <1>2, <4>1 DEF Alone
    <3> QED
      BY <1>11, <2>1, <3>1 DEF Unasked
  <2> QED
    BY <2>2, <2>3
<1> QED
  BY <1>12, <1>13

(* The steps, under the hypothesis. *)

\* No timeout strikes while an answer is still to come, no caller is cancelled and
\* the pool is not shut down.
Patient == Faults \cap {"late", "cancel", "stop"} = {}

LEMMA NobodyGivesUp ==
  ASSUME Patient, NEW kind \in {"late", "cancel", "stop"}
  PROVE  ~Fault(kind)
BY DEF Patient, Fault

LEMMA CallTypesHold ==
  ASSUME AnswerInv
  PROVE  /\ OwnerInv /\ PoolInv /\ LockInv
         /\ on \in [Calls -> Workers] /\ src \in [Calls -> Procs \cup {NoProc}]
         /\ pc \in [Calls -> {"idle", "scan", "wait", "drain", "read"} \cup Over]
         /\ answer \in [Calls -> Lines \cup {NoLine}]
         /\ proc \in [Workers -> Procs \cup {NoProc}]
         /\ rbuf \in [Workers -> Seq(Lines)]
         /\ stdin \in [Procs -> Seq(Lines)] /\ stdout \in [Procs -> Seq(Lines)]
         /\ \A c \in Calls : pc[c] \in {"drain", "read"} => src[c] \in Procs
         /\ mpc \in {"drain", "read"} => msrc \in Procs
         /\ mw \in Workers
BY DEF AnswerInv, OwnerInv, PoolInv, TypeInv, CallTypes, LockInv, LockTypes, LoopTypes, OsTypes,
       MonTypes

\* A call that has begun runs in a pool that runs.
LEMMA CallRuns ==
  ASSUME AnswerInv, NEW c \in Calls, pc[c] \in {"scan", "wait", "drain", "read"}
  PROVE  started /\ phase = "running" /\ Asked /\ Unasked
BY DEF AnswerInv, Served, Conversation

LEMMA GoesAlone ==
  ASSUME NEW c \in Calls, Goes(c)
  PROVE  Alone(c)
BY TasksDistinct DEF Goes, Alone, Talks

LEMMA CallTalksTo ==
  ASSUME NEW c \in Calls
  PROVE  /\ c \in Tasks /\ Request(c) = c
         /\ \A v, q : Talks(c, v, q) <=> pc[c] \in Talking /\ on[c] = v /\ src[c] = q
         /\ \A v, q : Talks(c, v, q)' <=> pc'[c] \in Talking /\ on'[c] = v /\ src'[c] = q
BY TasksDistinct DEF Talks, Request

\* Every worker is locked by one task: a call that waits finds nobody talking.
LEMMA BeginTalk ==
  ASSUME AnswerInv, NEW c \in Calls, Begin(c)
  PROVE  Asked' /\ Unasked'
<1>1. /\ OwnerInv /\ PoolInv /\ on[c] \in Workers /\ Asked /\ Unasked
      /\ src \in [Calls -> Procs \cup {NoProc}] /\ proc \in [Workers -> Procs \cup {NoProc}]
      /\ pc \in [Calls -> {"idle", "scan", "wait", "drain", "read"} \cup Over]
  BY CallTypesHold, CallRuns DEF Begin
<1>2. Alone(c)
  BY <1>1, CallGoes, GoesAlone DEF CallStep
<1>3. \A v, q : ~Talks(c, v, q)
  BY CallTalksTo DEF Begin, Talking
<1>4. CASE Live(proc[on[c]])
  <2>1. PICK p \in Procs : p = proc[on[c]]
    BY <1>1, <1>4 DEF Live
  <2>2. \A v, q : Talks(c, v, q)' <=> v = on[c] /\ q = p
    BY <1>1, <1>4, <2>1, CallTalksTo DEF Begin, Talking
  <2>3. /\ stdin' = [stdin EXCEPT ![p] = Append(@, Request(c))] /\ holder[on[c]] = c
        /\ UNCHANGED <<proc, st, cur, stdout>>
    BY <1>4, <2>1, CallTalksTo DEF Begin, besideCalls
  <2>4. Live(p)
    BY <1>4, <2>1
  <2> HIDE DEF Begin, Talks, Alone, Live
  <2>5. c \in Tasks
    BY CallTalksTo
  <2> QED
    BY <1>1, <1>2, <1>3, <2>1, <2>2, <2>3, <2>4, <2>5, TaskAsks
<1>5. CASE ~Live(proc[on[c]])
  <2>1. \A v, q : ~Talks(c, v, q)'
    BY <1>1, <1>5, CallTalksTo DEF Begin, AttemptFails, Talking
  <2>2. UNCHANGED <<proc, osVars>>
    BY <1>5 DEF Begin, besideCalls, osVars
  <2>3. c \in Tasks
    BY CallTalksTo
  <2> HIDE DEF Begin, Talks, Alone, Live
  <2> QED
    BY <1>1, <1>2, <1>3, <2>1, <2>2, <2>3, TaskLeaves
<1> QED
  BY <1>4, <1>5

\* A call that fails has talked to a process that is dead, or calm, or gone.
LEMMA FailsTalk ==
  ASSUME AnswerInv, NEW c \in Calls, CallStep(c), AttemptFails(c), pc[c] \in Talking,
         proc[on[c]] = NoProc \/ st[src[c]] = "dead" \/ Calm(src[c]),
         UNCHANGED <<proc, osVars>>
  PROVE  Asked' /\ Unasked'
<1>1. /\ OwnerInv /\ PoolInv /\ on[c] \in Workers /\ src[c] \in Procs /\ Asked /\ Unasked
      /\ pc \in [Calls -> {"idle", "scan", "wait", "drain", "read"} \cup Over]
  BY CallTypesHold, CallRuns DEF Talking
<1>2. Alone(c)
  BY <1>1, CallGoes, GoesAlone
<1>3. \A v, q : Talks(c, v, q) <=> v = on[c] /\ q = src[c]
  BY CallTalksTo
<1>4. \A v, q : ~Talks(c, v, q)'
  BY <1>1, CallTalksTo DEF AttemptFails, Talking
<1>5. c \in Tasks
  BY CallTalksTo
<1> HIDE DEF Talks, Alone, Calm, AttemptFails
<1> QED
  BY <1>1, <1>2, <1>3, <1>4, <1>5, TaskGivesUp

LEMMA DrainedTalk ==
  ASSUME AnswerInv, NEW c \in Calls, Drained(c)
  PROVE  Asked' /\ Unasked'
<1>1. /\ OwnerInv /\ PoolInv /\ on[c] \in Workers /\ src[c] \in Procs /\ Asked /\ Unasked
      /\ src \in [Calls -> Procs \cup {NoProc}] /\ proc \in [Workers -> Procs \cup {NoProc}]
      /\ pc \in [Calls -> {"idle", "scan", "wait", "drain", "read"} \cup Over]
  BY CallTypesHold, CallRuns DEF Drained
<1>2. pc[c] \in Talking /\ CallStep(c) /\ UNCHANGED <<proc, osVars>>
  BY DEF Drained, Talking, CallStep, besideCalls
<1>3. CASE AttemptFails(c)
  <2>1. proc[on[c]] = NoProc \/ st[src[c]] = "dead"
    BY <1>1, <1>3 DEF Drained, AttemptFails
  <2> QED
    BY <1>2, <1>3, <2>1, FailsTalk
<1>4. CASE ~AttemptFails(c)
  <2>1. /\ proc[on[c]] # NoProc /\ src' = [src EXCEPT ![c] = proc[on[c]]]
        /\ pc' = [pc EXCEPT ![c] = "read"] /\ on' = on
    BY <1>4 DEF Drained
  <2>2. Alone(c)
    BY <1>1, <1>2, CallGoes, GoesAlone
  <2>3. \A v, q : Talks(c, v, q) <=> v = on[c] /\ q = src[c]
    BY <1>2, CallTalksTo
  <2>4. \A v, q : Talks(c, v, q)' <=> v = on[c] /\ q = proc[on[c]]
    BY <1>1, <2>1, CallTalksTo DEF Talking
  <2>5. c \in Tasks /\ proc[on[c]] \in Procs
    BY <1>1, <2>1, CallTalksTo
  <2> HIDE DEF Talks, Alone, Drained
  <2> QED
    BY <1>1, <1>2, <2>2, <2>3, <2>4, <2>5, TaskTakesOver
<1> QED
  BY <1>3, <1>4

\* The line a call reads is its answer, and it was the only one.
LEMMA ReturnTalk ==
  ASSUME AnswerInv, NEW c \in Calls, Return(c)
  PROVE  Asked' /\ Unasked' /\ NoRest' /\ OwnAnswer'
<1>1. /\ OwnerInv /\ PoolInv /\ on[c] \in Workers /\ src[c] \in Procs /\ Asked /\ Unasked
      /\ pc \in [Calls -> {"idle", "scan", "wait", "drain", "read"} \cup Over]
      /\ answer \in [Calls -> Lines \cup {NoLine}]
      /\ rbuf \in [Workers -> Seq(Lines)] /\ stdout \in [Procs -> Seq(Lines)]
      /\ rbuf[on[c]] = <<>>
  BY CallTypesHold, CallRuns DEF Return, AnswerInv, NoRest
<1>2. pc[c] \in Talking /\ CallStep(c) /\ UNCHANGED <<proc, st, stdin, cur>>
  BY DEF Return, Talking, CallStep, besideCalls
<1>3. PICK line \in Lines :
        /\ ReadLine(on[c], src[c], line)
        /\ IF line = Torn
           THEN AttemptFails(c)
           ELSE answer' = [answer EXCEPT ![c] = line] /\ pc' = [pc EXCEPT ![c] = "done"]
  BY DEF Return
<1>4. PICK k \in 1..Len(stdout[src[c]]) :
        /\ stdout[src[c]] # <<>> /\ line = Head(stdout[src[c]])
        /\ rbuf' = [rbuf EXCEPT ![on[c]] = SubSeq(stdout[src[c]], 2, k)]
        /\ stdout' = [stdout EXCEPT ![src[c]] = SubSeq(@, k + 1, Len(@))]
  BY <1>1, <1>3 DEF ReadLine
<1>5. c \in Tasks /\ Request(c) = c /\ Talks(c, on[c], src[c])
  BY <1>2, CallTalksTo
<1>6. stdout[src[c]] = <<c>>
  BY <1>1, <1>4, <1>5, TaskHears
<1>7. line = c /\ k = 1 /\ Len(stdout[src[c]]) = 1
  BY <1>4, <1>6, OneLine
<1>8. /\ rbuf' = [rbuf EXCEPT ![on[c]] = <<>>]
      /\ stdout' = [stdout EXCEPT ![src[c]] = <<>>]
  <2>1. SubSeq(stdout[src[c]], 2, k) = <<>>
    BY <1>6, <1>7, OneLine
  <2>2. SubSeq(stdout[src[c]], k + 1, Len(stdout[src[c]])) = <<>>
    <3>1. k + 1 = 2
      BY <1>7
    <3> QED
      BY <1>6, <1>7, <3>1, OneLine
  <2> QED
    BY <1>4, <2>1, <2>2
<1>9. answer' = [answer EXCEPT ![c] = c] /\ pc' = [pc EXCEPT ![c] = "done"]
  BY <1>3, <1>7
<1>10. NoRest'
  BY <1>1, <1>8 DEF AnswerInv, NoRest
<1>11. OwnAnswer'
  BY <1>1, <1>9 DEF AnswerInv, OwnAnswer
<1>12. Alone(c)
  BY <1>1, <1>2, CallGoes, GoesAlone
<1>13. \A v, q : ~Talks(c, v, q)'
  BY <1>1, <1>9, CallTalksTo DEF Talking
<1> HIDE DEF Talks, Alone, Return
<1>14. Asked' /\ Unasked'
  BY <1>1, <1>2, <1>4, <1>5, <1>8, <1>12, <1>13, TaskHears
<1> QED
  BY <1>10, <1>11, <1>14

\* The line that says a call failed was the only one.
LEMMA ErrorTalk ==
  ASSUME AnswerInv, NEW c \in Calls, WorkerError(c)
  PROVE  Asked' /\ Unasked' /\ NoRest'
<1>1. /\ OwnerInv /\ PoolInv /\ on[c] \in Workers /\ src[c] \in Procs /\ Asked /\ Unasked
      /\ pc \in [Calls -> {"idle", "scan", "wait", "drain", "read"} \cup Over]
      /\ rbuf \in [Workers -> Seq(Lines)] /\ stdout \in [Procs -> Seq(Lines)]
      /\ rbuf[on[c]] = <<>>
  BY CallTypesHold, CallRuns DEF WorkerError, AnswerInv, NoRest
<1>2. pc[c] \in Talking /\ AttemptFails(c) /\ UNCHANGED <<proc, st, stdin, cur>>
  BY DEF WorkerError, Talking, besideCalls
<1>3. PICK line \in Calls : ReadLine(on[c], src[c], line)
  BY DEF WorkerError
<1>4. PICK k \in 1..Len(stdout[src[c]]) :
        /\ stdout[src[c]] # <<>>
        /\ rbuf' = [rbuf EXCEPT ![on[c]] = SubSeq(stdout[src[c]], 2, k)]
        /\ stdout' = [stdout EXCEPT ![src[c]] = SubSeq(@, k + 1, Len(@))]
  BY <1>1, <1>3 DEF ReadLine
<1>5. c \in Tasks /\ Request(c) = c /\ Talks(c, on[c], src[c])
  BY <1>2, CallTalksTo
<1>6. stdout[src[c]] = <<c>>
  BY <1>1, <1>4, <1>5, TaskHears
<1>7. k = 1 /\ Len(stdout[src[c]]) = 1
  BY <1>4, <1>6, OneLine
<1>8. /\ rbuf' = [rbuf EXCEPT ![on[c]] = <<>>]
      /\ stdout' = [stdout EXCEPT ![src[c]] = <<>>]
  <2>1. SubSeq(stdout[src[c]], 2, k) = <<>>
    BY <1>6, <1>7, OneLine
  <2>2. SubSeq(stdout[src[c]], k + 1, Len(stdout[src[c]])) = <<>>
    <3>1. k + 1 = 2
      BY <1>7
    <3> QED
      BY <1>6, <1>7, <3>1, OneLine
  <2> QED
    BY <1>4, <2>1, <2>2
<1>9. NoRest'
  BY <1>1, <1>8 DEF AnswerInv, NoRest
<1>10. Alone(c)
  BY <1>1, CallGoes, GoesAlone
<1>11. \A v, q : ~Talks(c, v, q)'
  BY <1>1, <1>2, CallTalksTo DEF AttemptFails, Talking
<1> HIDE DEF Talks, Alone, WorkerError
<1>12. Asked' /\ Unasked'
  BY <1>1, <1>2, <1>4, <1>5, <1>8, <1>10, <1>11, TaskHears
<1> QED
  BY <1>9, <1>12

LEMMA ErrorAnswers ==
  ASSUME AnswerInv, NEW c \in Calls, WorkerError(c)
  PROVE  Unborn' /\ Served' /\ NoRest' /\ Conversation' /\ OwnAnswer'
<1>1. started /\ phase = "running"
  BY CallRuns DEF WorkerError
<1>2. UNCHANGED <<phase, started, mpc, proc, st, stdin, cur, answer>>
  BY DEF WorkerError, AttemptFails, besideCalls, poolVars, monVars
<1>3. Served'
  BY <1>1, <1>2 DEF AnswerInv, Served
<1>4. Unborn'
  BY <1>2 DEF AnswerInv, Unborn, Blank
<1>5. \A d \in Calls : pc'[d] = "done" => pc[d] = "done"
  BY CallTypesHold DEF WorkerError, AttemptFails
<1>6. OwnAnswer'
  BY <1>2, <1>5 DEF AnswerInv, OwnAnswer
<1> QED
  BY <1>3, <1>4, <1>6, ErrorTalk DEF Conversation

\* Nothing is on its way to a call that gives up: its process is silent for good.
LEMMA EndTalk ==
  ASSUME AnswerInv, Patient, NEW c \in Calls, Eof(c) \/ Timeout(c)
  PROVE  Asked' /\ Unasked' /\ UNCHANGED osVars
<1>1. on[c] \in Workers /\ src[c] \in Procs /\ Asked
  BY CallTypesHold, CallRuns DEF Eof, Timeout
<1>2. pc[c] \in Talking /\ CallStep(c) /\ AttemptFails(c) /\ proc' = proc
  BY DEF Eof, Timeout, Talking, CallStep, besideCalls
<1>3. CASE Eof(c)
  BY <1>2, <1>3, FailsTalk DEF Eof
<1>4. CASE Timeout(c)
  <2>1. Silent(src[c]) /\ UNCHANGED osVars
    BY <1>4, NobodyGivesUp DEF Timeout, osVars
  <2>2. Calm(src[c])
    BY <1>4, <2>1 DEF Timeout, NothingToRead, Silent, Calm, Blank
  <2> QED
    BY <1>2, <2>1, <2>2, FailsTalk
<1> QED
  BY <1>3, <1>4

LEMMA CallAnswers ==
  ASSUME AnswerInv, Patient, NEW c \in Calls, Call(c) \/ CallStep(c)
  PROVE  Unborn' /\ Served' /\ NoRest' /\ Conversation' /\ OwnAnswer'
<1>1. /\ OwnerInv /\ PoolInv /\ on[c] \in Workers
      /\ pc \in [Calls -> {"idle", "scan", "wait", "drain", "read"} \cup Over]
      /\ proc \in [Workers -> Procs \cup {NoProc}] /\ stdin \in [Procs -> Seq(Lines)]
  BY CallTypesHold
<1>2. Goes(c) /\ Alone(c)
  BY <1>1, CallGoes, GoesAlone
<1>3. CASE Call(c)
  <2>1. /\ UNCHANGED <<phase, started, mpc, proc, osVars, rbuf, answer>>
        /\ pc' = [pc EXCEPT ![c] = IF started THEN "scan" ELSE "failed"] /\ pc[c] = "idle"
    BY <1>3 DEF Call, besideCalls, poolVars, monVars
  <2>2. Unborn'
    BY <2>1 DEF AnswerInv, Unborn, Blank, osVars
  <2>3. Served' /\ NoRest' /\ OwnAnswer'
    BY <1>1, <2>1 DEF AnswerInv, Served, NoRest, OwnAnswer
  <2>4. \A v, q : ~Talks(c, v, q) /\ ~Talks(c, v, q)'
    BY <1>1, <2>1, CallTalksTo DEF Talking
  <2>5. Conversation'
    <3>1. SUFFICES ASSUME Asked /\ Unasked PROVE Asked' /\ Unasked'
      BY <2>1 DEF AnswerInv, Conversation
    <3>2. c \in Tasks
      BY CallTalksTo
    <3> QED
      BY <1>2, <2>1, <2>4, <3>1, <3>2, TaskLeaves
  <2> QED
    BY <2>2, <2>3, <2>5
<1>4. CASE CallStep(c)
  <2>1. pc[c] \in {"scan", "wait", "drain", "read"}
    BY <1>4 DEF CallStep, Scan, Begin, Drained, Return, Eof, Timeout
  <2>2. started /\ phase = "running" /\ Asked /\ Unasked
    BY <2>1, CallRuns
  <2>3. UNCHANGED <<phase, started, mpc, proc>>
    BY <1>4 DEF CallStep, Scan, Begin, Drained, Return, Eof, Timeout, besideCalls, poolVars,
       monVars
  <2>4. Served'
    BY <2>2, <2>3 DEF AnswerInv, Served
  <2>5. Unborn'
    <3>1. CASE Begin(c) /\ Live(proc[on[c]])
      <4>1. /\ st[proc[on[c]]] \notin {"free", "dead"} /\ UNCHANGED <<st, cur>>
            /\ stdin' = [stdin EXCEPT ![proc[on[c]]] = Append(@, c)]
        BY <1>1, <3>1 DEF Begin, AnswerInv, Unborn, Live
      <4> QED
        BY <1>1, <2>2, <2>3, <4>1 DEF AnswerInv, Unborn, Blank
    <3>2. CASE ~(Begin(c) /\ Live(proc[on[c]]))
      <4>1. UNCHANGED <<st, stdin, cur>>
        <5>1. CASE Eof(c) \/ Timeout(c)
          BY <5>1, EndTalk DEF osVars
        <5>2. CASE Scan(c) \/ Begin(c) \/ Drained(c) \/ Return(c)
          BY <3>2, <5>2 DEF Scan, Begin, Drained, Return, osVars
        <5> QED
          BY <1>4, <5>1, <5>2 DEF CallStep
      <4> QED
        BY <2>3, <4>1 DEF AnswerInv, Unborn, Blank
    <3> QED
      BY <3>1, <3>2
  <2>6. CASE Scan(c)
    <3>1. UNCHANGED <<proc, osVars, rbuf, answer>> /\ pc'[c] \in {"scan", "wait"}
          /\ pc[c] = "scan"
      BY <1>1, <2>6 DEF Scan, callVars
    <3>2. \A v, q : ~Talks(c, v, q) /\ ~Talks(c, v, q)'
      BY <3>1, CallTalksTo DEF Talking
    <3>3. c \in Tasks
      BY CallTalksTo
    <3>4. Asked' /\ Unasked'
      BY <1>2, <2>2, <3>1, <3>2, <3>3, TaskLeaves
    <3>5. NoRest' /\ OwnAnswer'
      BY <1>1, <1>2, <3>1 DEF AnswerInv, NoRest, OwnAnswer, Goes
    <3> QED
      BY <2>4, <2>5, <3>4, <3>5 DEF Conversation
  <2>7. CASE Return(c)
    BY <2>4, <2>5, <2>7, ReturnTalk DEF Conversation
  <2>8. CASE Begin(c) \/ Drained(c) \/ Eof(c) \/ Timeout(c)
    <3>1. Asked' /\ Unasked'
      BY <2>8, BeginTalk, DrainedTalk, EndTalk
    <3>2. UNCHANGED <<rbuf, answer>> /\ pc'[c] # "done"
      BY <1>1, <2>8 DEF Begin, Drained, Eof, Timeout, AttemptFails
    <3>3. NoRest' /\ OwnAnswer'
      BY <1>2, <3>2 DEF AnswerInv, NoRest, OwnAnswer, Goes
    <3> QED
      BY <2>4, <2>5, <3>1, <3>3 DEF Conversation
  <2> QED
    BY <1>4, <2>6, <2>7, <2>8 DEF CallStep
<1> QED
  BY <1>3, <1>4

(* The monitor, which reads the stream itself. *)

LEMMA MonitorTalksTo ==
  /\ Monitor \in Tasks /\ Request(Monitor) = Health
  /\ \A v, q : Talks(Monitor, v, q) <=> mpc \in Talking /\ mw = v /\ msrc = q
  /\ \A v, q : Talks(Monitor, v, q)' <=> mpc' \in Talking /\ mw' = v /\ msrc' = q
BY TasksDistinct DEF Talks, Request

LEMMA MonitorRuns ==
  ASSUME AnswerInv, MonitorStep
  PROVE  /\ OwnerInv /\ PoolInv /\ LockInv /\ started /\ phase = "running" /\ Asked /\ Unasked
         /\ Alone(Monitor)
         /\ mw \in Workers /\ (mpc \in Talking => msrc \in Procs)
         /\ proc \in [Workers -> Procs \cup {NoProc}]
         /\ UNCHANGED <<phase, started, proc, rbuf, callVars>>
<1>1. mpc # "off"
  BY TasksDistinct DEF MonitorStep, MonWake, MonAsk, MonDrained, MonRead, MonTimeout, MonGoOn
<1>2. started /\ phase = "running" /\ Asked /\ Unasked
  BY <1>1 DEF AnswerInv, Served, Conversation
<1>3. UNCHANGED <<phase, started, proc, rbuf, callVars>>
  BY DEF MonitorStep, MonWake, MonAsk, MonDrained, MonRead, MonTimeout, MonGoOn,
     besideMonitor, poolVars
<1>4. Alone(Monitor)
  BY <1>3, TasksDistinct DEF Alone, Talks, callVars
<1> QED
  BY <1>2, <1>3, <1>4, CallTypesHold DEF Talking

LEMMA UnhealthyTalk ==
  ASSUME AnswerInv, MonitorStep, Unhealthy, mpc \in Talking,
         proc[mw] = NoProc \/ st[msrc] = "dead" \/ Calm(msrc), UNCHANGED osVars
  PROVE  Asked' /\ Unasked'
<1>1. \A v, q : Talks(Monitor, v, q) <=> v = mw /\ q = msrc
  BY MonitorTalksTo
<1>2. \A v, q : ~Talks(Monitor, v, q)'
  BY MonitorTalksTo DEF Unhealthy, Talking
<1>3. Monitor \in Tasks
  BY MonitorTalksTo
<1> HIDE DEF Talks, Alone, Calm, Unhealthy, MonitorStep
<1> QED
  BY <1>1, <1>2, <1>3, MonitorRuns, TaskGivesUp

LEMMA MonAskTalk ==
  ASSUME AnswerInv, MonAsk
  PROVE  Asked' /\ Unasked'
<1>1. MonitorStep /\ \A v, q : ~Talks(Monitor, v, q)
  BY MonitorTalksTo DEF MonitorStep, MonAsk, Talking
<1>2. Monitor \in Tasks
  BY MonitorTalksTo
<1>3. CASE Live(proc[mw])
  <2>1. PICK p \in Procs : p = proc[mw]
    BY <1>1, <1>3, MonitorRuns DEF Live
  <2>2. \A v, q : Talks(Monitor, v, q)' <=> v = mw /\ q = p
    BY <1>3, <2>1, MonitorTalksTo DEF MonAsk, Talking
  <2>3. /\ stdin' = [stdin EXCEPT ![p] = Append(@, Request(Monitor))] /\ holder[mw] = Monitor
        /\ UNCHANGED <<proc, st, cur, stdout>>
    BY <1>3, <2>1, MonitorTalksTo DEF MonAsk, besideMonitor
  <2>4. Live(p)
    BY <1>3, <2>1
  <2>5. OwnerInv /\ Asked /\ Unasked /\ Alone(Monitor)
    BY <1>1, MonitorRuns
  <2>6. PICK w \in Workers : w = mw
    BY <1>1, MonitorRuns
  <2>7. holder[w] = Monitor /\ p = proc[w] /\ \A v, q : Talks(Monitor, v, q)' <=> v = w /\ q = p
    BY <2>1, <2>2, <2>3, <2>6
  <2> HIDE DEF MonAsk, Talks, Alone, Live, MonitorStep
  <2>8. Talks(Monitor, w, p)'
    BY <2>7
  <2> QED
    BY <1>1, <1>2, <2>3, <2>4, <2>5, <2>6, <2>7, <2>8, TaskAsks
<1>4. CASE ~Live(proc[mw])
  <2>1. \A v, q : ~Talks(Monitor, v, q)'
    BY <1>4, MonitorTalksTo DEF MonAsk, Unhealthy, Talking
  <2>2. UNCHANGED <<proc, osVars>>
    BY <1>4 DEF MonAsk, besideMonitor, osVars
  <2> HIDE DEF MonAsk, Talks, Alone, Live, MonitorStep
  <2> QED
    BY <1>1, <1>2, <2>1, <2>2, MonitorRuns, TaskLeaves
<1> QED
  BY <1>3, <1>4

LEMMA MonDrainedTalk ==
  ASSUME AnswerInv, MonDrained
  PROVE  Asked' /\ Unasked'
<1>1. mpc \in Talking /\ MonitorStep /\ UNCHANGED <<proc, osVars>>
  BY DEF MonDrained, Talking, MonitorStep, besideMonitor
<1>2. CASE Unhealthy
  <2>1. proc[mw] = NoProc \/ st[msrc] = "dead"
    BY <1>2 DEF MonDrained, Unhealthy
  <2> QED
    BY <1>1, <1>2, <2>1, UnhealthyTalk
<1>3. CASE ~Unhealthy
  <2>1. proc[mw] # NoProc /\ mpc' = "read" /\ msrc' = proc[mw] /\ mw' = mw
    BY <1>3 DEF MonDrained
  <2>2. \A v, q : Talks(Monitor, v, q) <=> v = mw /\ q = msrc
    BY <1>1, MonitorTalksTo
  <2>3. \A v, q : Talks(Monitor, v, q)' <=> v = mw /\ q = proc[mw]
    BY <2>1, MonitorTalksTo DEF Talking
  <2>4. Monitor \in Tasks /\ proc[mw] \in Procs
    BY <1>1, <2>1, MonitorTalksTo, MonitorRuns
  <2> HIDE DEF Talks, Alone, MonDrained, MonitorStep
  <2> QED
    BY <1>1, <2>2, <2>3, <2>4, MonitorRuns, TaskTakesOver
<1> QED
  BY <1>2, <1>3

LEMMA MonReadTalk ==
  ASSUME AnswerInv, MonRead
  PROVE  Asked' /\ Unasked'
<1>1. mpc \in Talking /\ MonitorStep /\ proc' = proc
  BY DEF MonRead, Talking, MonitorStep, besideMonitor
<1>2. CASE stdout[msrc] = <<>>
  <2>1. st[msrc] = "dead" /\ Unhealthy /\ UNCHANGED osVars
    BY <1>2 DEF MonRead, osVars
  <2> QED
    BY <1>1, <2>1, UnhealthyTalk
<1>3. CASE stdout[msrc] # <<>>
  <2>1. /\ mpc' \notin Talking /\ UNCHANGED <<st, stdin, cur>>
        /\ stdout' = [stdout EXCEPT ![msrc] = Tail(@)]
    BY <1>3 DEF MonRead, Unhealthy, Talking
  <2>2. Talks(Monitor, mw, msrc) /\ Monitor \in Tasks /\ \A v, q : ~Talks(Monitor, v, q)'
    BY <1>1, <2>1, MonitorTalksTo
  <2>3. stdout[msrc] = <<Request(Monitor)>>
    BY <1>1, <1>3, <2>2, MonitorRuns, TaskHears
  <2>4. stdout' = [stdout EXCEPT ![msrc] = <<>>]
    BY <2>1, <2>3, OneLine
  <2> HIDE DEF Talks, Alone, MonRead, MonitorStep
  <2> QED
    BY <1>1, <1>3, <2>1, <2>2, <2>4, MonitorRuns, TaskHears
<1> QED
  BY <1>2, <1>3

LEMMA MonTimeoutTalk ==
  ASSUME AnswerInv, Patient, MonTimeout
  PROVE  Asked' /\ Unasked' /\ UNCHANGED osVars
<1>1. mpc \in Talking /\ MonitorStep /\ Unhealthy /\ UNCHANGED <<proc, osVars>>
  BY DEF MonTimeout, Talking, MonitorStep, besideMonitor
<1>2. Silent(msrc)
  BY NobodyGivesUp DEF MonTimeout
<1>3. Calm(msrc)
  BY <1>2 DEF MonTimeout, Silent, Calm, Blank
<1> QED
  BY <1>1, <1>3, UnhealthyTalk

LEMMA MonitorAnswers ==
  ASSUME AnswerInv, Patient, MonitorStep
  PROVE  Unborn' /\ Served' /\ NoRest' /\ Conversation' /\ OwnAnswer'
<1>1. Served' /\ NoRest' /\ OwnAnswer'
  BY MonitorRuns DEF AnswerInv, Served, NoRest, OwnAnswer, callVars
<1>2. Unborn'
  <2>1. stdin \in [Procs -> Seq(Lines)]
    BY CallTypesHold
  <2>2. CASE MonAsk /\ Live(proc[mw])
    <3>1. /\ st[proc[mw]] \notin {"free", "dead"} /\ UNCHANGED <<st, cur>>
          /\ stdin' = [stdin EXCEPT ![proc[mw]] = Append(@, Health)]
      BY <2>2, MonitorRuns DEF MonAsk, AnswerInv, Unborn, Live
    <3> QED
      BY <2>1, <3>1, MonitorRuns DEF AnswerInv, Unborn, Blank
  <2>3. CASE ~(MonAsk /\ Live(proc[mw]))
    <3>1. UNCHANGED <<st, stdin, cur>>
      BY <2>3 DEF MonitorStep, MonWake, MonAsk, MonDrained, MonRead, MonTimeout, MonGoOn, osVars
    <3> QED
      BY <3>1, MonitorRuns DEF AnswerInv, Unborn, Blank
  <2> QED
    BY <2>2, <2>3
<1>3. CASE MonWake \/ MonGoOn
  <2>1. mpc \notin Talking /\ mpc' \notin Talking /\ UNCHANGED osVars
    BY <1>3 DEF MonWake, MonGoOn, MonNext, Talking
  <2>2. \A v, q : ~Talks(Monitor, v, q) /\ ~Talks(Monitor, v, q)'
    BY <2>1, MonitorTalksTo
  <2>3. Monitor \in Tasks
    BY MonitorTalksTo
  <2> HIDE DEF MonWake, MonGoOn, Talks, Alone, MonitorStep
  <2> QED
    BY <1>1, <1>2, <2>1, <2>2, <2>3, MonitorRuns, TaskLeaves DEF Conversation
<1> QED
  BY <1>1, <1>2, <1>3, MonAskTalk, MonDrainedTalk, MonReadTalk, MonTimeoutTalk
  DEF MonitorStep, Conversation

(* The processes, the restarts and the phases of the pool. *)

\* Processes alone: who is calm stays calm, what is on its way goes on.
LEMMA ProcessSettles ==
  ASSUME AnswerInv, NEW p \in Procs, ProcessStep(p) \/ Hang(p) \/ Crash(p)
  PROVE  Settles /\ Unborn'
<1>1. /\ stdin \in [Procs -> Seq(Lines)] /\ stdout \in [Procs -> Seq(Lines)]
      /\ cur \in [Procs -> Lines \cup {NoLine}]
      /\ st \in [Procs -> {"free", "starting", "up", "hung", "dead"}]
  BY DEF AnswerInv, OwnerInv, PoolInv, TypeInv, OsTypes
<1>2. UNCHANGED <<proc, phase>>
  BY DEF ProcessStep, BootDone, TakeRequest, Answer, Hang, Crash, loopVars, poolVars
<1>3. \A q \in Procs \ {p} : /\ stdin'[q] = stdin[q] /\ stdout'[q] = stdout[q]
                             /\ cur'[q] = cur[q] /\ st'[q] = st[q]
  BY <1>1 DEF ProcessStep, BootDone, TakeRequest, Answer, Hang, Crash, Die
<1>4. /\ st[p] \in {"starting", "up", "hung"}
      /\ st'[p] # "free"
  BY <1>1 DEF ProcessStep, BootDone, TakeRequest, Answer, Hang, Crash, Die
<1>5. /\ Calm(p) => Calm(p)'
      /\ \A t \in Tasks : Holds(p, Request(t)) => Holds(p, Request(t))' \/ Calm(p)'
      /\ phase = "new" \/ st'[p] = "dead" => Blank(p)'
  <2>0. /\ \A t \in Tasks : Request(t) # NoLine /\ Request(t) # Shutdown
        /\ phase = "new" => Blank(p)
    BY <1>1, TasksDistinct DEF Request, AnswerInv, Unborn
  <2>1. CASE BootDone(p)
    BY <1>1, <2>0, <2>1 DEF BootDone, Calm, Holds, Blank
  <2>2. CASE TakeRequest(p)
    BY <1>1, <1>4, <2>0, <2>2, OneLine DEF TakeRequest, Calm, Holds, Blank
  <2>3. CASE Answer(p)
    BY <1>1, <1>4, <2>0, <2>3, OneLine DEF Answer, Calm, Holds, Blank
  <2>4. CASE Hang(p)
    BY <1>1, <1>4, <2>0, <2>4 DEF Hang, Calm, Holds, Blank
  <2>5. CASE Crash(p)
    BY <1>1, <1>4, <2>0, <2>5 DEF Crash, Die, Calm, Holds, Blank
  <2> QED
    BY <2>1, <2>2, <2>3, <2>4, <2>5 DEF ProcessStep
<1>6. \A q \in Procs \ {p} :
        Calm(q)' = Calm(q) /\ Blank(q)' = Blank(q) /\ \A x : Holds(q, x)' = Holds(q, x)
  BY <1>3 DEF Calm, Holds, Blank
<1>7. \A w \in Workers : Live(proc[w])' => Live(proc[w])
  BY <1>2, <1>3, <1>4, CallTypesHold DEF Live
<1>8. Unborn'
  <2>1. \A q \in Procs : phase' = "new" \/ st'[q] \in {"free", "dead"} => Blank(q)'
    BY <1>2, <1>3, <1>4, <1>5, <1>6 DEF AnswerInv, Unborn
  <2>2. \A w \in Workers : proc'[w] # NoProc => st'[proc'[w]] # "free"
    <3>1. SUFFICES ASSUME NEW w \in Workers, proc'[w] # NoProc
                   PROVE  st'[proc'[w]] # "free"
      OBVIOUS
    <3>2. proc'[w] = proc[w] /\ proc[w] \in Procs
      BY <1>2, <3>1, CallTypesHold
    <3>3. st[proc[w]] # "free"
      BY <3>1, <3>2 DEF AnswerInv, Unborn
    <3> QED
      BY <1>2, <1>3, <1>4, <3>2, <3>3
  <2> QED
    BY <2>1, <2>2 DEF Unborn
<1> HIDE DEF Calm, Holds, Blank, Live
<1>9. Settles
  BY <1>2, <1>5, <1>6, <1>7 DEF Settles
<1> QED
  BY <1>8, <1>9

\* A process is killed: what it wrote before can be read.
LEMMA DieSettles ==
  ASSUME AnswerInv, NEW p \in Procs, Die(p), phase' = phase,
         \A w \in Workers : proc'[w] \in {proc[w], NoProc}
  PROVE  Settles /\ Unborn'
<1>1. /\ stdin \in [Procs -> Seq(Lines)] /\ stdout \in [Procs -> Seq(Lines)]
      /\ cur \in [Procs -> Lines \cup {NoLine}]
      /\ st \in [Procs -> {"free", "starting", "up", "hung", "dead"}]
  BY DEF AnswerInv, OwnerInv, PoolInv, TypeInv, OsTypes
<1>2. \A q \in Procs \ {p} : /\ stdin'[q] = stdin[q] /\ stdout'[q] = stdout[q]
                             /\ cur'[q] = cur[q] /\ st'[q] = st[q]
  BY <1>1 DEF Die
<1>3. st'[p] = "dead" /\ Blank(p)' /\ stdout'[p] = stdout[p]
  BY <1>1 DEF Die, Blank
<1>4. \A t \in Tasks : Request(t) # NoLine
  BY TasksDistinct DEF Request
<1>5. /\ Calm(p) => Calm(p)'
      /\ \A t \in Tasks : Holds(p, Request(t)) => Holds(p, Request(t))' \/ Calm(p)'
  BY <1>1, <1>3, <1>4 DEF Calm, Holds, Blank
<1>6. \A q \in Procs \ {p} :
        Calm(q)' = Calm(q) /\ Blank(q)' = Blank(q) /\ \A x : Holds(q, x)' = Holds(q, x)
  BY <1>2 DEF Calm, Holds, Blank
<1>7. \A w \in Workers : proc'[w] = NoProc \/ (proc'[w] = proc[w] /\ (Live(proc[w])' => Live(proc[w])))
  BY <1>2, <1>3, CallTypesHold DEF Live
<1>8. Unborn'
  <2>1. \A q \in Procs : phase' = "new" \/ st'[q] \in {"free", "dead"} => Blank(q)'
    BY <1>2, <1>3, <1>6 DEF AnswerInv, Unborn
  <2>2. \A w \in Workers : proc'[w] # NoProc => st'[proc'[w]] # "free"
    <3>1. SUFFICES ASSUME NEW w \in Workers, proc'[w] # NoProc
                   PROVE  st'[proc'[w]] # "free"
      OBVIOUS
    <3>2. proc'[w] = proc[w] /\ proc[w] \in Procs
      BY <1>2, <3>1, CallTypesHold
    <3>3. st[proc[w]] # "free"
      BY <3>1, <3>2 DEF AnswerInv, Unborn
    <3> QED
      BY <1>2, <1>3, <3>2, <3>3
  <2> QED
    BY <2>1, <2>2 DEF Unborn
<1> HIDE DEF Calm, Holds, Blank, Live
<1>9. Settles
  BY <1>5, <1>6, <1>7 DEF Settles
<1> QED
  BY <1>8, <1>9

\* Workers lose their processes.
LEMMA DropSettles ==
  ASSUME AnswerInv, UNCHANGED <<osVars, phase>>, \A w \in Workers : proc'[w] \in {proc[w], NoProc}
  PROVE  Settles /\ Unborn'
<1>1. \A p : Calm(p)' = Calm(p) /\ Blank(p)' = Blank(p) /\ \A x : Holds(p, x)' = Holds(p, x)
  BY DEF Calm, Holds, Blank, osVars
<1>2. \A w \in Workers : proc'[w] = NoProc \/ (proc'[w] = proc[w] /\ (Live(proc[w])' => Live(proc[w])))
  BY DEF Live, osVars
<1>3. Unborn'
  BY <1>1 DEF AnswerInv, Unborn, osVars
<1> HIDE DEF Calm, Holds, Blank, Live
<1>4. Settles
  BY <1>1, <1>2 DEF Settles
<1> QED
  BY <1>3, <1>4

\* A new process takes the place of one that is gone.
LEMMA SpawnSettles ==
  ASSUME AnswerInv, NEW s \in Procs, Fresh(s), Spawned({s}), NEW w \in Workers,
         proc' = [proc EXCEPT ![w] = s], phase' = phase
  PROVE  Settles /\ Unborn'
<1>1. /\ stdin \in [Procs -> Seq(Lines)] /\ stdout \in [Procs -> Seq(Lines)]
      /\ st \in [Procs -> {"free", "starting", "up", "hung", "dead"}]
  BY DEF AnswerInv, OwnerInv, PoolInv, TypeInv, OsTypes
<1>2. /\ UNCHANGED <<stdin, cur>> /\ st'[s] = "starting" /\ stdout'[s] = <<>>
      /\ \A q \in Procs \ {s} : stdout'[q] = stdout[q] /\ st'[q] = st[q]
  BY <1>1 DEF Spawned
<1>3. Blank(s) /\ \A v \in Workers : proc[v] # s
  BY DEF Fresh, Mentioned, AnswerInv, Unborn
<1>4. Calm(s)' /\ Blank(s)'
  BY <1>2, <1>3 DEF Calm, Blank
<1>5. \A q \in Procs \ {s} :
        Calm(q)' = Calm(q) /\ Blank(q)' = Blank(q) /\ \A x : Holds(q, x)' = Holds(q, x)
  BY <1>2 DEF Calm, Holds, Blank
<1>6. proc'[w] = s /\ \A v \in Workers \ {w} : proc'[v] = proc[v]
  BY CallTypesHold
<1>7. \A v \in Workers \ {w} : proc'[v] = NoProc \/ (proc'[v] = proc[v] /\ (Live(proc[v])' => Live(proc[v])))
  BY <1>2, <1>3, <1>6, CallTypesHold DEF Live
<1>8. Unborn'
  <2>1. \A q \in Procs : phase' = "new" \/ st'[q] \in {"free", "dead"} => Blank(q)'
    BY <1>2, <1>4, <1>5 DEF AnswerInv, Unborn
  <2>2. \A v \in Workers : proc'[v] # NoProc => st'[proc'[v]] # "free"
    <3>1. SUFFICES ASSUME NEW v \in Workers \ {w}, proc'[v] # NoProc
                   PROVE  st'[proc'[v]] # "free"
      BY <1>2, <1>6
    <3>2. proc'[v] = proc[v] /\ proc[v] \in Procs \ {s}
      BY <1>3, <1>6, <3>1, CallTypesHold
    <3>3. st[proc[v]] # "free"
      BY <3>1, <3>2 DEF AnswerInv, Unborn
    <3> QED
      BY <1>2, <3>2, <3>3
  <2> QED
    BY <2>1, <2>2 DEF Unborn
<1>9. proc'[w] \in Procs /\ Calm(proc[w])'
  BY <1>4, <1>6 DEF Calm, Blank
<1> HIDE DEF Calm, Holds, Blank, Live
<1>10. Settles
  BY <1>4, <1>5, <1>7, <1>9 DEF Settles
<1> QED
  BY <1>8, <1>10

LEMMA SettlesAnswer ==
  ASSUME AnswerInv, Settles, UNCHANGED <<callVars, monVars, phase, started, rbuf>>
  PROVE  Served' /\ NoRest' /\ Conversation' /\ OwnAnswer'
<1>1. Served' /\ NoRest' /\ OwnAnswer'
  BY DEF AnswerInv, Served, NoRest, OwnAnswer, callVars, monVars
<1>2. Conversation'
  <2>1. PoolInv
    BY DEF AnswerInv, OwnerInv
  <2> HIDE DEF Settles
  <2> QED
    BY <2>1, SettlesTalk DEF AnswerInv, Conversation
<1> QED
  BY <1>1, <1>2

LEMMA RestartAnswers ==
  ASSUME AnswerInv, NEW t \in Restarts, RestartStep(t) \/ RestartTimeout(t)
  PROVE  Unborn' /\ Served' /\ NoRest' /\ Conversation' /\ OwnAnswer'
<1>1. /\ proc \in [Workers -> Procs \cup {NoProc}] /\ target[t] \in Workers
      /\ \A p \in Procs : p # NoProc
  BY LinesTyped DEF AnswerInv, OwnerInv, PoolInv, TypeInv, LoopTypes, RestartTypes
<1>2. UNCHANGED <<callVars, monVars, phase, started, rbuf>>
  BY DEF RestartStep, RestartBegin, RestartReap, RestartSpawn, RestartReady, RestartDrop,
     RestartTimeout, besideRestarts, poolVars
<1>3. Settles /\ Unborn'
  <2>1. CASE RestartSpawn(t)
    <3>1. PICK s \in Procs : s = Spare /\ Fresh(s)
      BY <2>1, SpareFresh DEF RestartSpawn
    <3>2. Spawned({s}) /\ proc' = [proc EXCEPT ![target[t]] = s]
      BY <2>1, <3>1 DEF RestartSpawn
    <3> QED
      BY <1>1, <1>2, <3>1, <3>2, SpawnSettles
  <2>2. CASE ~RestartSpawn(t)
    <3>1. \A w \in Workers : proc'[w] \in {proc[w], NoProc}
      BY <1>1, <2>2 DEF RestartStep, RestartBegin, RestartReap, RestartReady, RestartDrop,
         RestartTimeout
    <3>2. UNCHANGED osVars \/ (Live(proc[target[t]]) /\ Die(proc[target[t]]))
      BY <2>2 DEF RestartStep, RestartBegin, RestartReap, RestartReady, RestartDrop,
         RestartTimeout
    <3>3. Live(proc[target[t]]) => proc[target[t]] \in Procs
      BY <1>1 DEF Live
    <3> QED
      BY <1>2, <3>1, <3>2, <3>3, DieSettles, DropSettles
  <2> QED
    BY <2>1, <2>2
<1> QED
  BY <1>2, <1>3, SettlesAnswer

LEMMA ShutAnswers ==
  ASSUME AnswerInv, NEW w \in Workers, ShutStep(w) \/ StartTimeout(w)
  PROVE  Unborn' /\ Served' /\ NoRest' /\ Conversation' /\ OwnAnswer'
<1>1. proc \in [Workers -> Procs \cup {NoProc}] /\ stdin \in [Procs -> Seq(Lines)]
  BY CallTypesHold
<1>2. UNCHANGED <<callVars, monVars, phase, started, rbuf>>
  BY DEF ShutStep, ShutWorker, ShutWait, ShutExited, ShutKill, ShutReap, StartTimeout,
         besideShutdown, poolVars
<1>3. CASE ShutWorker(w)
  <2>1. phase = "stopping" /\ phase' = "stopping" /\ proc' = proc /\ UNCHANGED <<st, cur>>
    BY <1>2, <1>3 DEF ShutWorker
  <2>2. Served' /\ NoRest' /\ OwnAnswer' /\ Conversation'
    BY <1>2, <2>1 DEF AnswerInv, Served, NoRest, OwnAnswer, Conversation, callVars, monVars
  <2>3. Unborn'
    <3>1. CASE Live(proc[w])
      <4>1. stdin' = [stdin EXCEPT ![proc[w]] = Append(@, Shutdown)]
        BY <1>3, <3>1 DEF ShutWorker
      <4>2. st[proc[w]] \notin {"free", "dead"}
        BY <3>1 DEF AnswerInv, Unborn, Live
      <4> QED
        BY <1>1, <2>1, <4>1, <4>2 DEF AnswerInv, Unborn, Blank
    <3>2. CASE ~Live(proc[w])
      <4>1. stdin' = stdin
        BY <1>3, <3>2 DEF ShutWorker
      <4> QED
        BY <2>1, <4>1 DEF AnswerInv, Unborn, Blank
    <3> QED
      BY <3>1, <3>2
  <2> QED
    BY <2>2, <2>3
<1>4. CASE ~ShutWorker(w)
  <2>1. \A v \in Workers : proc'[v] \in {proc[v], NoProc}
    BY <1>1, <1>4 DEF ShutStep, ShutWait, ShutExited, ShutKill, ShutReap, StartTimeout
  <2>2. UNCHANGED osVars \/ (proc[w] # NoProc /\ Die(proc[w]))
    BY <1>4 DEF ShutStep, ShutWait, ShutExited, ShutKill, ShutReap, StartTimeout, Live
  <2>3. proc[w] # NoProc => proc[w] \in Procs
    BY <1>1
  <2>4. Settles /\ Unborn'
    BY <1>2, <2>1, <2>2, <2>3, DieSettles, DropSettles
  <2> QED
    BY <1>2, <2>4, SettlesAnswer
<1> QED
  BY <1>3, <1>4

LEMMA PhaseAnswers ==
  ASSUME AnswerInv, Patient, Start \/ StartDone \/ Stop \/ Down
  PROVE  Unborn' /\ Served' /\ NoRest' /\ Conversation' /\ OwnAnswer'
<1>1. UNCHANGED <<callVars, rbuf>>
  BY DEF Start, StartDone, Stop, Down
<1>2. NoRest' /\ OwnAnswer'
  BY <1>1 DEF AnswerInv, NoRest, OwnAnswer, callVars
<1>3. ~Stop
  BY NobodyGivesUp DEF Stop
<1>4. CASE Start
  <2>1. /\ phase = "new" /\ phase' = "starting" /\ UNCHANGED <<started, monVars, stdin, cur>>
        /\ ~started /\ mpc = "off" /\ \A c \in Calls : pc[c] \in {"idle", "failed"}
    BY <1>4 DEF Start, Spawned, AnswerInv, Served
  <2>2. Served'
    BY <1>1, <2>1 DEF Served, callVars, monVars
  <2>3. proc' \in [Workers -> Procs]
    BY <1>4, StartInjective DEF Start
  <2>4. \A p \in Procs : Blank(p)'
    BY <2>1 DEF AnswerInv, Unborn, Blank
  <2>5. \A w \in Workers : st'[proc'[w]] = "starting" /\ stdout'[proc'[w]] = <<>>
    <3>1. \A w \in Workers : proc'[w] \in Range(proc')
      BY <2>3 DEF Range
    <3> QED
      BY <1>4, <2>3, <3>1 DEF Start, Spawned
  <2>6. Unborn'
    BY <2>4, <2>5 DEF Unborn
  <2>7. \A t \in Tasks : \A w, p : ~Talks(t, w, p)'
    BY <1>1, <2>1, TasksDistinct DEF Talks, Talking, callVars, monVars
  <2>8. Conversation'
    BY <2>3, <2>4, <2>5, <2>7 DEF Conversation, Asked, Unasked, Calm, Blank
  <2> QED
    BY <1>2, <2>2, <2>6, <2>8
<1>5. CASE StartDone
  <2>1. /\ phase = "starting" /\ UNCHANGED <<proc, osVars>> /\ mpc' \notin Talking
        /\ mpc = "off" /\ (\A c \in Calls : pc[c] \in {"idle", "failed"}) /\ Unasked
        /\ \/ started' /\ phase' = "running"
           \/ ~started' /\ phase' = "stopping" /\ mpc' = "off"
    BY <1>5 DEF StartDone, AnswerInv, Served, Conversation, Talking
  <2>2. Served'
    BY <1>1, <2>1 DEF Served, callVars
  <2>3. Unborn'
    BY <2>1 DEF AnswerInv, Unborn, Blank, osVars
  <2>4. \A t \in Tasks : \A w, p : ~Talks(t, w, p) /\ ~Talks(t, w, p)'
    BY <1>1, <2>1, TasksDistinct DEF Talks, Talking, callVars
  <2>5. Conversation'
    BY <2>1, <2>4 DEF Conversation, Asked, Unasked, Calm, Blank, Live, osVars
  <2> QED
    BY <1>2, <2>2, <2>3, <2>5
<1>6. CASE Down
  <2>1. /\ phase = "stopping" /\ phase' = "down" /\ UNCHANGED <<started, proc, osVars, monVars>>
    BY <1>6 DEF Down
  <2>2. Served' /\ Conversation' /\ Unborn'
    BY <1>1, <2>1 DEF AnswerInv, Served, Conversation, Unborn, Blank, callVars, monVars, osVars
  <2> QED
    BY <1>2, <2>2
<1> QED
  BY <1>3, <1>4, <1>5, <1>6

LEMMA StayAnswers ==
  ASSUME AnswerInv, UNCHANGED vars
  PROVE  Unborn' /\ Served' /\ NoRest' /\ Conversation' /\ OwnAnswer'
<1>1. UNCHANGED <<osVars, proc, callVars, monVars, phase, started, rbuf>>
  BY DEF vars, poolVars
<1>2. Settles /\ Unborn'
  BY <1>1, DropSettles
<1> QED
  BY <1>1, <1>2, SettlesAnswer

\* A call returns the answer to its own request whenever processes crash, hang or
\* start too slowly, as long as nobody gives up on an answer that is to come: for
\* every size of the pool, any number of calls, restarts and health checks.
THEOREM AnswersAreOwn == ASSUME Patient PROVE Spec => []OwnAnswer
<1>1. Init => Unborn /\ Served /\ NoRest /\ Conversation /\ OwnAnswer
  BY DEF Init, Unborn, Blank, Served, NoRest, Conversation, OwnAnswer
<1>2. AnswerInv /\ [Next]_vars => (Unborn /\ Served /\ NoRest /\ Conversation /\ OwnAnswer)'
  <2> SUFFICES ASSUME AnswerInv, [Next]_vars
               PROVE  Unborn' /\ Served' /\ NoRest' /\ Conversation' /\ OwnAnswer'
    OBVIOUS
  <2>1. CASE UNCHANGED vars \/ Quiet
    BY <2>1, StayAnswers DEF Quiet
  <2>2. ASSUME NEW p \in Procs, ProcessStep(p) \/ Hang(p) \/ Crash(p)
        PROVE  Unborn' /\ Served' /\ NoRest' /\ Conversation' /\ OwnAnswer'
    <3>1. UNCHANGED <<callVars, monVars, phase, started, rbuf>>
      BY <2>2 DEF ProcessStep, BootDone, TakeRequest, Answer, Hang, Crash, loopVars, poolVars
    <3> QED
      BY <2>2, <3>1, ProcessSettles, SettlesAnswer
  <2>3. ASSUME NEW c \in Calls, Cancel(c)
        PROVE  FALSE
    BY <2>3, NobodyGivesUp DEF Cancel
  <2> QED
    BY <2>1, <2>2, <2>3, CallAnswers, ErrorAnswers, RestartAnswers, ShutAnswers, PhaseAnswers, MonitorAnswers
    DEF Next
<1> QED
  BY <1>1, <1>2, OwnerInvariant, PTL DEF Spec, AnswerInv
=============================================================================
