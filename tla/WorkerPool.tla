----------------------------- MODULE WorkerPool -----------------------------
(***************************************************************************)
(* The pool of Pyodide workers: WorkerPool and PyodideWorker               *)
(* (worker_pool.py) and the Deno process behind each worker                *)
(* (worker_server.ts).                                                     *)
(*                                                                         *)
(* The tasks of one asyncio event loop (calls of WorkerPool.execute,       *)
(* restart tasks, the health monitor, shutdown) interleave at their        *)
(* awaits; `turn` names the task that goes on without awaiting.  The       *)
(* processes run beside the loop.  A request travels over the stdin of a   *)
(* process, its answer comes back as a line of its stdout, and nothing     *)
(* compares the id of an answer with that of the request: a line is        *)
(* therefore the name of what it answers.                                  *)
(***************************************************************************)
EXTENDS Naturals, Sequences, FiniteSets, Functions

CONSTANTS
  Size,          \* WorkerPool.size
  Calls,         \* calls of WorkerPool.execute
  Procs,         \* identities for processes: enough for those alive at a time
  RequestLimit,  \* PYODIDE_WORKER_REQUEST_LIMIT
  Monitored,     \* FALSE: PYODIDE_HEALTH_CHECK_INTERVAL exceeds the behaviour
  Faults,        \* what the environment may do, of FaultKinds
  MaxFaults,     \* bound: faults in a behaviour
  Monitor,       \* the health monitor's task
  NoOne,         \* no task
  NoProc,        \* self.process = None
  NoLine, Torn, Health, Shutdown  \* lines other than the answer to a call

\* crash: a process dies.  hang: code never ends.  late: a timeout strikes while
\* the answer is still to come.  cancel: a caller is cancelled.  slow: a start
\* takes more than 15 s.  stop: WorkerPool.shutdown is called.  error: the answer
\* to a request is an error.
FaultKinds == {"crash", "hang", "late", "cancel", "slow", "stop", "error"}

Workers == 0..(Size - 1)
Lines == Calls \cup {Health, Shutdown, Torn}
Tasks == Calls \cup {Monitor}

ASSUME PoolAssumption ==
  /\ Size \in Nat \ {0}
  /\ RequestLimit \in Nat
  /\ Monitored \in BOOLEAN
  /\ MaxFaults \in Nat
  /\ Faults \subseteq FaultKinds
  /\ Monitor \notin Calls /\ NoOne \notin Tasks
  /\ NoProc \notin Procs
  /\ {NoLine, Torn, Health, Shutdown} \cap Calls = {}
  /\ NoLine \notin {Torn, Health, Shutdown} /\ Torn \notin {Health, Shutdown}
  /\ Health # Shutdown

\* There is a process for every worker.
ASSUME ProcsAssumption == \E f \in [Workers -> Procs] : IsInjective(f)

\* Restart tasks: the k-th attempt of a call spawns <<c, k>>; the monitor
\* restarts in its own task.
MonitorRestart == <<Monitor, 0>>
Restarts == (Calls \X (1..Size)) \cup {MonitorRestart}

VARIABLES
  phase,    \* "new", "starting", "running", "stopping", "down"
  started,  \* WorkerPool.started
  next,     \* WorkerPool.next_worker_idx
  proc,     \* PyodideWorker.process
  busy,     \* PyodideWorker.busy
  holder,   \* task that holds PyodideWorker.lock, or was handed it
  waiters,  \* tasks queued on the lock, in order
  rbuf,     \* PyodideWorker._read_buffer
  pc,       \* where a call of execute is
  on,       \* the worker it uses
  tries,    \* rounds of the loop it has begun; Size + 1 is the last attempt
  src,      \* the process it wrote to, then the one whose stdout it reads
  answer,   \* the line it returned
  ph,       \* where a restart task is
  target,   \* the worker it restarts
  awaited,  \* the process it waits for
  mpc, mw, msrc,  \* the health monitor: where, at which worker, reading whom
  dph, dproc,     \* PyodideWorker.shutdown: where, waiting for whom
  st,       \* process: "free", "starting", "up", "hung", "dead"
  stdin,    \* requests not yet taken
  cur,      \* the request being served
  stdout,   \* answers not yet read
  served,   \* requestCount of the process
  turn,     \* task that runs without awaiting, or NoOne
  ran,      \* history: how often the code of a call was started
  faults    \* faults so far

poolVars == <<phase, started, next>>
lockVars == <<busy, holder, waiters>>
callVars == <<pc, on, tries, src, answer>>
restartVars == <<ph, target, awaited>>
monVars == <<mpc, mw, msrc>>
downVars == <<dph, dproc>>
osVars == <<st, stdin, cur, stdout, served>>
histVars == <<ran, faults>>
vars == <<poolVars, proc, lockVars, rbuf, callVars, restartVars, monVars, downVars,
          osVars, turn, histVars>>

\* What a process, a call, a restart, the monitor and the shutdown leave alone.
loopVars == <<poolVars, proc, lockVars, rbuf, callVars, restartVars, monVars, downVars>>
besideCalls == <<poolVars, proc, monVars, downVars>>
besideRestarts == <<poolVars, lockVars, rbuf, callVars, target, monVars, downVars>>
besideMonitor == <<poolVars, proc, rbuf, callVars, downVars>>
besideShutdown == <<poolVars, lockVars, rbuf, callVars, restartVars, monVars>>

Init ==
  /\ phase = "new" /\ started = FALSE /\ next = 0
  /\ proc = [w \in Workers |-> NoProc]
  /\ busy = [w \in Workers |-> FALSE]
  /\ holder = [w \in Workers |-> NoOne]
  /\ waiters = [w \in Workers |-> <<>>]
  /\ rbuf = [w \in Workers |-> <<>>]
  /\ pc = [c \in Calls |-> "idle"] /\ on = [c \in Calls |-> 0]
  /\ tries = [c \in Calls |-> 0] /\ src = [c \in Calls |-> NoProc]
  /\ answer = [c \in Calls |-> NoLine]
  /\ ph = [t \in Restarts |-> "none"] /\ target = [t \in Restarts |-> 0]
  /\ awaited = [t \in Restarts |-> NoProc]
  /\ mpc = "off" /\ mw = 0 /\ msrc = NoProc
  /\ dph = [w \in Workers |-> "todo"] /\ dproc = [w \in Workers |-> NoProc]
  /\ st = [p \in Procs |-> "free"] /\ stdin = [p \in Procs |-> <<>>]
  /\ cur = [p \in Procs |-> NoLine] /\ stdout = [p \in Procs |-> <<>>]
  /\ served = [p \in Procs |-> 0]
  /\ turn = NoOne
  /\ ran = [c \in Calls |-> 0] /\ faults = 0

Fault(kind) ==
  /\ kind \in Faults
  /\ faults < MaxFaults
  /\ faults' = faults + 1
-----------------------------------------------------------------------------
(* Processes. *)

Live(p) == p # NoProc /\ st[p] # "dead"

\* A process ends: what it had not served is gone, what it wrote can be read.
Die(p) ==
  /\ st' = [st EXCEPT ![p] = "dead"]
  /\ stdin' = [stdin EXCEPT ![p] = <<>>]
  /\ cur' = [cur EXCEPT ![p] = NoLine]
  /\ UNCHANGED <<stdout, served>>

Mentioned ==
  {proc[w] : w \in Workers} \cup {src[c] : c \in Calls} \cup {msrc}
    \cup {awaited[t] : t \in Restarts} \cup {dproc[w] : w \in Workers}

\* Identities of processes that are gone and that nobody refers to are reused.
Fresh(p) == st[p] \in {"free", "dead"} /\ p \notin Mentioned

Spare == CHOOSE p \in Procs : Fresh(p)

\* create_subprocess_exec; the process loads Pyodide before it reads stdin.
Spawned(ps) ==
  /\ st' = [p \in Procs |-> IF p \in ps THEN "starting" ELSE st[p]]
  /\ stdout' = [p \in Procs |-> IF p \in ps THEN <<>> ELSE stdout[p]]
  /\ served' = [p \in Procs |-> IF p \in ps THEN 0 ELSE served[p]]
  /\ UNCHANGED <<stdin, cur>>

BootDone(p) ==
  /\ st[p] = "starting"
  /\ st' = [st EXCEPT ![p] = "up"]
  /\ UNCHANGED <<loopVars, stdin, cur, stdout, served, turn, histVars>>

\* The loop of run(): the next line of stdin, one at a time.
TakeRequest(p) ==
  /\ st[p] = "up" /\ cur[p] = NoLine /\ stdin[p] # <<>>
  /\ cur' = [cur EXCEPT ![p] = Head(stdin[p])]
  /\ stdin' = [stdin EXCEPT ![p] = Tail(@)]
  /\ LET calls == {Head(stdin[p])} \cap Calls IN
       /\ served' = [served EXCEPT ![p] = @ + Cardinality(calls)]
       /\ ran' = [c \in Calls |-> IF c \in calls THEN ran[c] + 1 ELSE ran[c]]
  /\ UNCHANGED <<loopVars, st, stdout, turn, faults>>

\* The answer is a line of stdout; after that of a shutdown request comes exit(0).
Answer(p) ==
  /\ st[p] = "up" /\ cur[p] # NoLine
  /\ stdout' = [stdout EXCEPT ![p] = Append(@, cur[p])]
  /\ cur' = [cur EXCEPT ![p] = NoLine]
  /\ st' = [st EXCEPT ![p] = IF cur[p] = Shutdown THEN "dead" ELSE @]
  /\ stdin' = [stdin EXCEPT ![p] = IF cur[p] = Shutdown THEN <<>> ELSE @]
  /\ UNCHANGED <<loopVars, served, turn, histVars>>

Hang(p) ==
  /\ Fault("hang")
  /\ st[p] = "up" /\ cur[p] \in Calls
  /\ st' = [st EXCEPT ![p] = "hung"]
  /\ UNCHANGED <<loopVars, stdin, cur, stdout, served, turn, ran>>

Crash(p) ==
  /\ Fault("crash")
  /\ st[p] \in {"starting", "up", "hung"}
  /\ Die(p)
  /\ UNCHANGED <<loopVars, turn, ran>>
-----------------------------------------------------------------------------
(* asyncio.Lock: first come, first served. *)

\* Whoever finds the lock free goes on at once, the others queue.
Acquire(w, t) ==
  IF holder[w] = NoOne
  THEN /\ holder' = [holder EXCEPT ![w] = t]
       /\ turn' = t
       /\ UNCHANGED waiters
  ELSE /\ waiters' = [waiters EXCEPT ![w] = Append(@, t)]
       /\ turn' = NoOne
       /\ UNCHANGED holder

\* The lock passes to the first in the queue.
Release(w) ==
  IF waiters[w] = <<>>
  THEN /\ holder' = [holder EXCEPT ![w] = NoOne]
       /\ UNCHANGED waiters
  ELSE /\ holder' = [holder EXCEPT ![w] = Head(waiters[w])]
       /\ waiters' = [waiters EXCEPT ![w] = Tail(@)]

\* The queue without its i-th task.
Without(queue, i) ==
  [j \in 1..(Len(queue) - 1) |-> IF j < i THEN queue[j] ELSE queue[j + 1]]

\* A cancelled task lets go of the lock or leaves the queue.
Abandon(w, t) ==
  \/ holder[w] = t /\ Release(w)
  \/ \E i \in DOMAIN waiters[w] :
       /\ holder[w] # t /\ waiters[w][i] = t
       /\ waiters' = [waiters EXCEPT ![w] = Without(@, i)]
       /\ UNCHANGED holder
-----------------------------------------------------------------------------
(* WorkerPool.execute and PyodideWorker.execute. *)

Call(c) ==
  /\ turn = NoOne /\ pc[c] = "idle" /\ phase \notin {"new", "starting"}
  /\ pc' = [pc EXCEPT ![c] = IF started THEN "scan" ELSE "failed"]
  /\ turn' = IF started THEN c ELSE NoOne
  /\ UNCHANGED <<besideCalls, lockVars, rbuf, on, tries, src, answer, restartVars,
                 osVars, histVars>>

\* Bug: the index does not wrap around.
ScanUnwrapped(c) ==
  /\ turn = c /\ pc[c] = "scan"
  /\ next' = next + 1
  /\ tries' = [tries EXCEPT ![c] = @ + 1]
  /\ Acquire(next, c)
  /\ pc' = [pc EXCEPT ![c] = "wait"]
  /\ on' = [on EXCEPT ![c] = next]
  /\ UNCHANGED <<phase, started, proc, busy, rbuf, src, answer, restartVars, monVars,
                 downVars, osVars, histVars>>

\* Bug: PyodideWorker.execute does not wait for its lock.
ScanUnlocked(c) ==
  /\ turn = c /\ pc[c] = "scan"
  /\ next' = (next + 1) % Size
  /\ tries' = [tries EXCEPT ![c] = @ + 1]
  /\ IF tries[c] < Size /\ busy[next]
     THEN UNCHANGED <<holder, turn, pc, on>>
     ELSE /\ holder' = [holder EXCEPT ![next] = c]
          /\ pc' = [pc EXCEPT ![c] = "wait"]
          /\ on' = [on EXCEPT ![c] = next]
          /\ UNCHANGED turn
  /\ UNCHANGED <<phase, started, proc, busy, waiters, rbuf, src, answer, restartVars,
                 monVars, downVars, osVars, histVars>>

\* A round of the loop: a busy worker is passed over, except by the attempt
\* after the last round.
Scan(c) ==
  /\ turn = c /\ pc[c] = "scan"
  /\ next' = (next + 1) % Size
  /\ tries' = [tries EXCEPT ![c] = @ + 1]
  /\ IF tries[c] < Size /\ busy[next]
     THEN UNCHANGED <<holder, waiters, turn, pc, on>>
     ELSE /\ Acquire(next, c)
          /\ pc' = [pc EXCEPT ![c] = "wait"]
          /\ on' = [on EXCEPT ![c] = next]
  /\ UNCHANGED <<phase, started, proc, busy, rbuf, src, answer, restartVars, monVars,
                 downVars, osVars, histVars>>

\* Bug: busy is reset on success only.
AttemptFailsBusy(c) ==
  LET w == on[c] IN
  /\ Release(w)
  /\ IF tries[c] <= Size
     THEN /\ ph' = [ph EXCEPT ![<<c, tries[c]>>] = "due"]
          /\ target' = [target EXCEPT ![<<c, tries[c]>>] = w]
          /\ pc' = [pc EXCEPT ![c] = "scan"]
          /\ turn' = c
     ELSE /\ pc' = [pc EXCEPT ![c] = "failed"]
          /\ turn' = NoOne
          /\ UNCHANGED <<ph, target>>
  /\ src' = [src EXCEPT ![c] = NoProc]
  /\ UNCHANGED <<busy, awaited, on, tries, answer>>

\* PyodideWorker.execute raised: the lock is released and, unless this was the
\* last attempt, a restart is scheduled and the loop goes on.
AttemptFails(c) ==
  LET w == on[c] IN
  /\ busy' = [busy EXCEPT ![w] = FALSE]
  /\ Release(w)
  /\ IF tries[c] <= Size
     THEN /\ ph' = [ph EXCEPT ![<<c, tries[c]>>] = "due"]
          /\ target' = [target EXCEPT ![<<c, tries[c]>>] = w]
          /\ pc' = [pc EXCEPT ![c] = "scan"]
          /\ turn' = c
     ELSE /\ pc' = [pc EXCEPT ![c] = "failed"]
          /\ turn' = NoOne
          /\ UNCHANGED <<ph, target>>
  /\ src' = [src EXCEPT ![c] = NoProc]
  /\ UNCHANGED <<awaited, on, tries, answer>>

Begin(c) ==
  LET w == on[c] IN
  /\ turn \in {NoOne, c} /\ pc[c] = "wait" /\ holder[w] = c
  /\ IF Live(proc[w])
     THEN /\ busy' = [busy EXCEPT ![w] = TRUE]
          /\ stdin' = [stdin EXCEPT ![proc[w]] = Append(@, c)]
          /\ src' = [src EXCEPT ![c] = proc[w]]
          /\ pc' = [pc EXCEPT ![c] = "drain"]
          /\ turn' = NoOne
          /\ UNCHANGED <<holder, waiters, on, tries, answer, restartVars>>
     ELSE AttemptFails(c) /\ UNCHANGED stdin
  /\ UNCHANGED <<besideCalls, rbuf, st, cur, stdout, served, histVars>>

\* drain() may report that the pipe is broken.  After it self.process is read
\* again: it may be None or another process.
Drained(c) ==
  LET w == on[c] IN
  /\ turn = NoOne /\ pc[c] = "drain"
  /\ \/ /\ proc[w] # NoProc
        /\ src' = [src EXCEPT ![c] = proc[w]]
        /\ pc' = [pc EXCEPT ![c] = "read"]
        /\ UNCHANGED <<lockVars, on, tries, answer, restartVars, turn>>
     \/ /\ proc[w] = NoProc \/ st[src[c]] = "dead"
        /\ AttemptFails(c)
  /\ UNCHANGED <<besideCalls, rbuf, osVars, histVars>>

\* The first line there is: of the buffer, else of a chunk of stdout whose
\* other lines stay in the buffer.
ReadLine(w, p, line) ==
  \/ /\ rbuf[w] # <<>>
     /\ line = Head(rbuf[w])
     /\ rbuf' = [rbuf EXCEPT ![w] = Tail(@)]
     /\ UNCHANGED stdout
  \/ /\ rbuf[w] = <<>> /\ stdout[p] # <<>>
     /\ line = Head(stdout[p])
     /\ \E k \in 1..Len(stdout[p]) :
          /\ rbuf' = [rbuf EXCEPT ![w] = SubSeq(stdout[p], 2, k)]
          /\ stdout' = [stdout EXCEPT ![p] = SubSeq(@, k + 1, Len(@))]

Return(c) ==
  LET w == on[c] IN
  /\ turn = NoOne /\ pc[c] = "read"
  /\ \E line \in Lines :
       /\ ReadLine(w, src[c], line)
       /\ IF line = Torn
          THEN AttemptFails(c)
          ELSE /\ answer' = [answer EXCEPT ![c] = line]
               /\ pc' = [pc EXCEPT ![c] = "done"]
               /\ src' = [src EXCEPT ![c] = NoProc]
               /\ busy' = [busy EXCEPT ![w] = FALSE]
               /\ Release(w)
               /\ UNCHANGED <<on, tries, restartVars, turn>>
  /\ UNCHANGED <<besideCalls, st, stdin, cur, served, histVars>>

\* The process lives and answers that it could not serve the request.
WorkerError(c) ==
  /\ turn = NoOne /\ pc[c] = "read"
  /\ Fault("error")
  /\ \E line \in Calls : ReadLine(on[c], src[c], line)
  /\ AttemptFails(c)
  /\ UNCHANGED <<besideCalls, st, stdin, cur, served, ran>>

NothingToRead(w, p) == rbuf[w] = <<>> /\ stdout[p] = <<>>

\* The process closed its stdout.
Eof(c) ==
  /\ turn = NoOne /\ pc[c] = "read"
  /\ NothingToRead(on[c], src[c]) /\ st[src[c]] = "dead"
  /\ AttemptFails(c)
  /\ UNCHANGED <<besideCalls, rbuf, osVars, histVars>>

\* No answer will come from p: its code hangs, or it was asked nothing.
Silent(p) == st[p] = "hung" \/ (stdin[p] = <<>> /\ cur[p] = NoLine)

\* A reader that gives up loses what it has read of an unfinished line.
Tear(p, t) ==
  \/ UNCHANGED cur
  \/ cur[p] = t /\ cur' = [cur EXCEPT ![p] = Torn]

\* Bug: no timeout on the read.
TimeoutNever(c) == FALSE /\ UNCHANGED vars

Timeout(c) ==
  /\ turn = NoOne /\ pc[c] = "read"
  /\ NothingToRead(on[c], src[c]) /\ st[src[c]] # "dead"
  /\ IF Silent(src[c])
     THEN UNCHANGED <<faults, cur>>
     ELSE Fault("late") /\ Tear(src[c], c)
  /\ AttemptFails(c)
  /\ UNCHANGED <<besideCalls, rbuf, st, stdin, stdout, served, ran>>

\* CancelledError is no Exception: no restart, no other attempt.
Cancel(c) ==
  /\ turn = NoOne /\ pc[c] \in {"wait", "drain", "read"}
  /\ Fault("cancel")
  /\ pc' = [pc EXCEPT ![c] = "cancelled"]
  /\ busy' = [busy EXCEPT ![on[c]] = IF pc[c] = "wait" THEN @ ELSE FALSE]
  /\ Abandon(on[c], c)
  /\ IF pc[c] = "read" THEN Tear(src[c], c) ELSE UNCHANGED cur
  /\ src' = [src EXCEPT ![c] = NoProc]
  /\ UNCHANGED <<besideCalls, rbuf, on, tries, answer, restartVars, st, stdin, stdout,
                 served, turn, ran>>
-----------------------------------------------------------------------------
(* WorkerPool.start: all workers at once; a process that is not ready in time  *)
(* is killed, and one failure shuts everything down.                           *)

StartShutdown == dph' = [w \in Workers |-> "todo"] /\ UNCHANGED dproc

Start ==
  /\ turn = NoOne /\ phase = "new"
  /\ phase' = "starting"
  /\ proc' = CHOOSE f \in [Workers -> Procs] : IsInjective(f)
  /\ Spawned(Range(proc'))
  /\ UNCHANGED <<started, next, lockVars, rbuf, callVars, restartVars, monVars,
                 downVars, turn, histVars>>

StartTimeout(w) ==
  /\ turn = NoOne /\ phase = "starting"
  /\ proc[w] # NoProc /\ st[proc[w]] = "starting"
  /\ Fault("slow")
  /\ Die(proc[w])
  /\ proc' = [proc EXCEPT ![w] = NoProc]
  /\ UNCHANGED <<besideShutdown, downVars, turn, ran>>

StartDone ==
  /\ turn = NoOne /\ phase = "starting"
  /\ \A w \in Workers : proc[w] # NoProc => st[proc[w]] # "starting"
  /\ IF \A w \in Workers : proc[w] # NoProc /\ st[proc[w]] = "up"
     THEN /\ started' = TRUE /\ phase' = "running" /\ mpc' = "sleep"
          /\ UNCHANGED downVars
     ELSE /\ phase' = "stopping" /\ StartShutdown
          /\ UNCHANGED <<started, mpc>>
  /\ UNCHANGED <<next, proc, lockVars, rbuf, callVars, restartVars, mw, msrc, osVars,
                 turn, histVars>>
-----------------------------------------------------------------------------
(* _restart_worker: kill, then start, without the lock of the worker. *)

\* process.kill(); a process that is gone already needs no waiting.
RestartBegin(t) ==
  LET p == proc[target[t]] IN
  /\ ph[t] = "due"
  /\ turn = NoOne \/ (turn = Monitor /\ t = MonitorRestart)
  /\ turn' = NoOne
  /\ IF Live(p)
     THEN /\ Die(p)
          /\ ph' = [ph EXCEPT ![t] = "reap"]
          /\ awaited' = [awaited EXCEPT ![t] = p]
          /\ UNCHANGED proc
     ELSE /\ ph' = [ph EXCEPT ![t] = "spawn"]
          /\ proc' = [proc EXCEPT ![target[t]] = NoProc]
          /\ UNCHANGED <<awaited, osVars>>
  /\ UNCHANGED <<besideRestarts, histVars>>

\* self.process = None after the wait, whatever it is by now.
RestartReap(t) ==
  /\ turn = NoOne /\ ph[t] = "reap"
  /\ proc' = [proc EXCEPT ![target[t]] = NoProc]
  /\ ph' = [ph EXCEPT ![t] = "spawn"]
  /\ awaited' = [awaited EXCEPT ![t] = NoProc]
  /\ UNCHANGED <<besideRestarts, osVars, turn, histVars>>

\* The new process replaces whatever self.process is by now.
RestartSpawn(t) ==
  /\ turn = NoOne /\ ph[t] = "spawn"
  /\ \E p \in Procs : Fresh(p)
  /\ Spawned({Spare})
  /\ proc' = [proc EXCEPT ![target[t]] = Spare]
  /\ awaited' = [awaited EXCEPT ![t] = Spare]
  /\ ph' = [ph EXCEPT ![t] = "ready"]
  /\ UNCHANGED <<besideRestarts, turn, histVars>>

\* "Ready" or the end of stderr; self.process is read anew for every chunk.
RestartReady(t) ==
  /\ turn = NoOne /\ ph[t] = "ready"
  /\ st[awaited[t]] # "starting" \/ proc[target[t]] # awaited[t]
  /\ ph' = [ph EXCEPT ![t] = "none"]
  /\ awaited' = [awaited EXCEPT ![t] = NoProc]
  /\ UNCHANGED <<besideRestarts, proc, osVars, turn, histVars>>

\* 15 s are over: the process the worker has by now is killed.
RestartTimeout(t) ==
  LET p == proc[target[t]] IN
  /\ turn = NoOne /\ ph[t] = "ready" /\ st[awaited[t]] = "starting"
  /\ Fault("slow")
  /\ IF Live(p) THEN Die(p) ELSE UNCHANGED osVars
  /\ ph' = [ph EXCEPT ![t] = "drop"]
  /\ UNCHANGED <<besideRestarts, proc, awaited, turn, ran>>

RestartDrop(t) ==
  /\ turn = NoOne /\ ph[t] = "drop"
  /\ proc' = [proc EXCEPT ![target[t]] = NoProc]
  /\ ph' = [ph EXCEPT ![t] = "none"]
  /\ awaited' = [awaited EXCEPT ![t] = NoProc]
  /\ UNCHANGED <<besideRestarts, osVars, turn, histVars>>
-----------------------------------------------------------------------------
(* _health_monitor and PyodideWorker.health_check. *)

MonWake ==
  /\ turn = NoOne /\ mpc = "sleep" /\ Monitored
  /\ mw' = 0 /\ mpc' = "wait"
  /\ Acquire(0, Monitor)
  /\ UNCHANGED <<besideMonitor, busy, restartVars, msrc, osVars, histVars>>

\* Bug: the restart is a task of its own, it starts when others have run.
UnhealthyLater ==
  /\ Release(mw)
  /\ ph' = [ph EXCEPT ![MonitorRestart] = "due"]
  /\ target' = [target EXCEPT ![MonitorRestart] = mw]
  /\ mpc' = "restart" /\ msrc' = NoProc
  /\ turn' = NoOne
  /\ UNCHANGED <<busy, awaited, mw>>

\* The check failed: the lock is released and the monitor itself restarts.
Unhealthy ==
  /\ Release(mw)
  /\ ph' = [ph EXCEPT ![MonitorRestart] = "due"]
  /\ target' = [target EXCEPT ![MonitorRestart] = mw]
  /\ mpc' = "restart" /\ msrc' = NoProc
  /\ turn' = Monitor
  /\ UNCHANGED <<busy, awaited, mw>>

\* Bug: a worker without a process is passed over.
MonAskSkipsDead ==
  /\ turn \in {NoOne, Monitor} /\ mpc = "wait" /\ holder[mw] = Monitor
  /\ IF Live(proc[mw])
     THEN /\ stdin' = [stdin EXCEPT ![proc[mw]] = Append(@, Health)]
          /\ mpc' = "drain" /\ msrc' = proc[mw]
          /\ turn' = NoOne
          /\ UNCHANGED <<lockVars, restartVars, mw>>
     ELSE /\ Release(mw)
          /\ mpc' = "next" /\ turn' = Monitor
          /\ UNCHANGED <<busy, restartVars, mw, msrc, stdin>>
  /\ UNCHANGED <<besideMonitor, st, cur, stdout, served, histVars>>

MonAsk ==
  /\ turn \in {NoOne, Monitor} /\ mpc = "wait" /\ holder[mw] = Monitor
  /\ IF Live(proc[mw])
     THEN /\ stdin' = [stdin EXCEPT ![proc[mw]] = Append(@, Health)]
          /\ mpc' = "drain" /\ msrc' = proc[mw]
          /\ turn' = NoOne
          /\ UNCHANGED <<lockVars, restartVars, mw>>
     ELSE Unhealthy /\ UNCHANGED stdin
  /\ UNCHANGED <<besideMonitor, st, cur, stdout, served, histVars>>

MonDrained ==
  /\ turn = NoOne /\ mpc = "drain"
  /\ \/ /\ proc[mw] # NoProc
        /\ mpc' = "read" /\ msrc' = proc[mw]
        /\ UNCHANGED <<lockVars, restartVars, mw, turn>>
     \/ /\ proc[mw] = NoProc \/ st[msrc] = "dead"
        /\ Unhealthy
  /\ UNCHANGED <<besideMonitor, osVars, histVars>>

\* On to the next worker, or to sleep.
MonNext ==
  IF mw + 1 < Size
  THEN /\ mw' = mw + 1 /\ mpc' = "wait"
       /\ Acquire(mw + 1, Monitor)
  ELSE /\ mpc' = "sleep" /\ turn' = NoOne
       /\ UNCHANGED <<mw, holder, waiters>>

\* readline() on the stream itself: the lines in _read_buffer are not seen.
MonRead ==
  /\ turn = NoOne /\ mpc = "read"
  /\ \/ /\ stdout[msrc] # <<>>
        /\ stdout' = [stdout EXCEPT ![msrc] = Tail(@)]
        /\ IF Head(stdout[msrc]) = Health /\ served[msrc] < RequestLimit
           THEN /\ Release(mw)
                /\ mpc' = "next" /\ msrc' = NoProc /\ turn' = Monitor
                /\ UNCHANGED <<busy, restartVars, mw>>
           ELSE Unhealthy
     \/ /\ stdout[msrc] = <<>> /\ st[msrc] = "dead"
        /\ Unhealthy
        /\ UNCHANGED stdout
  /\ UNCHANGED <<besideMonitor, st, stdin, cur, served, histVars>>

MonTimeout ==
  /\ turn = NoOne /\ mpc = "read"
  /\ stdout[msrc] = <<>> /\ st[msrc] # "dead"
  /\ IF Silent(msrc) THEN UNCHANGED faults ELSE Fault("late")
  /\ Unhealthy
  /\ UNCHANGED <<besideMonitor, osVars, ran>>

MonGoOn ==
  /\ \/ turn = Monitor /\ mpc = "next"
     \/ turn = NoOne /\ mpc = "restart" /\ ph[MonitorRestart] = "none"
  /\ MonNext
  /\ UNCHANGED <<besideMonitor, busy, restartVars, msrc, osVars, histVars>>
-----------------------------------------------------------------------------
(* WorkerPool.shutdown, and PyodideWorker.shutdown of all workers at once.  *)
(* Restart tasks of calls are not cancelled.                                *)

Stop ==
  /\ turn = NoOne /\ phase = "running"
  /\ Fault("stop")
  /\ phase' = "stopping" /\ started' = FALSE
  /\ StartShutdown
  /\ mpc' = "off" /\ msrc' = NoProc
  /\ IF mpc \in {"wait", "drain", "read"}
     THEN Abandon(mw, Monitor)
     ELSE UNCHANGED <<holder, waiters>>
  /\ ph' = [ph EXCEPT ![MonitorRestart] = "none"]
  /\ awaited' = [awaited EXCEPT ![MonitorRestart] = NoProc]
  /\ UNCHANGED <<next, proc, busy, rbuf, callVars, target, mw, osVars, turn, ran>>

ShutWorker(w) ==
  /\ turn = NoOne /\ phase = "stopping" /\ dph[w] = "todo"
  /\ IF Live(proc[w])
     THEN /\ stdin' = [stdin EXCEPT ![proc[w]] = Append(@, Shutdown)]
          /\ dph' = [dph EXCEPT ![w] = "sent"]
     ELSE /\ dph' = [dph EXCEPT ![w] = "done"]
          /\ UNCHANGED stdin
  /\ UNCHANGED <<besideShutdown, proc, dproc, st, cur, stdout, served, turn,
                 histVars>>

\* self.process.wait() on the process of this moment; on None it raises, and
\* gather() returns what was raised.
ShutWait(w) ==
  /\ turn = NoOne /\ dph[w] = "sent"
  /\ IF proc[w] # NoProc
     THEN /\ dph' = [dph EXCEPT ![w] = "wait"]
          /\ dproc' = [dproc EXCEPT ![w] = proc[w]]
     ELSE /\ dph' = [dph EXCEPT ![w] = "done"]
          /\ UNCHANGED dproc
  /\ UNCHANGED <<besideShutdown, proc, osVars, turn, histVars>>

ShutExited(w) ==
  /\ turn = NoOne /\ dph[w] = "wait" /\ st[dproc[w]] = "dead"
  /\ dph' = [dph EXCEPT ![w] = "done"]
  /\ dproc' = [dproc EXCEPT ![w] = NoProc]
  /\ UNCHANGED <<besideShutdown, proc, osVars, turn, histVars>>

\* 2 s are over.
ShutKill(w) ==
  /\ turn = NoOne /\ dph[w] = "wait" /\ st[dproc[w]] # "dead"
  /\ IF Live(proc[w])
     THEN /\ Die(proc[w])
          /\ dph' = [dph EXCEPT ![w] = "reap"]
          /\ UNCHANGED proc
     ELSE /\ proc' = [proc EXCEPT ![w] = NoProc]
          /\ dph' = [dph EXCEPT ![w] = "done"]
          /\ UNCHANGED osVars
  /\ dproc' = [dproc EXCEPT ![w] = NoProc]
  /\ UNCHANGED <<besideShutdown, turn, histVars>>

ShutReap(w) ==
  /\ turn = NoOne /\ dph[w] = "reap"
  /\ proc' = [proc EXCEPT ![w] = NoProc]
  /\ dph' = [dph EXCEPT ![w] = "done"]
  /\ UNCHANGED <<besideShutdown, dproc, osVars, turn, histVars>>

Down ==
  /\ turn = NoOne /\ phase = "stopping"
  /\ \A w \in Workers : dph[w] = "done"
  /\ phase' = "down"
  /\ UNCHANGED <<started, next, proc, lockVars, rbuf, callVars, restartVars, monVars,
                 downVars, osVars, turn, histVars>>
-----------------------------------------------------------------------------
Over == {"done", "failed", "cancelled"}

\* Nothing is left to do.
Quiet ==
  /\ phase = "down" \/ (phase = "running" /\ ~Monitored)
  /\ \A c \in Calls : pc[c] \in Over
  /\ \A t \in Restarts : ph[t] = "none"
  /\ UNCHANGED vars

ProcessStep(p) == BootDone(p) \/ TakeRequest(p) \/ Answer(p)

CallStep(c) ==
  Scan(c) \/ Begin(c) \/ Drained(c) \/ Return(c) \/ Eof(c) \/ Timeout(c)

RestartStep(t) ==
  RestartBegin(t) \/ RestartReap(t) \/ RestartSpawn(t) \/ RestartReady(t) \/ RestartDrop(t)

MonitorStep ==
  MonWake \/ MonAsk \/ MonDrained \/ MonRead \/ MonTimeout \/ MonGoOn

ShutStep(w) ==
  ShutWorker(w) \/ ShutWait(w) \/ ShutExited(w) \/ ShutKill(w) \/ ShutReap(w)

Next ==
  \/ Start \/ StartDone \/ \E w \in Workers : StartTimeout(w)
  \/ \E p \in Procs : ProcessStep(p) \/ Hang(p) \/ Crash(p)
  \/ \E c \in Calls : Call(c) \/ CallStep(c) \/ Cancel(c) \/ WorkerError(c)
  \/ \E t \in Restarts : RestartStep(t) \/ RestartTimeout(t)
  \/ MonitorStep
  \/ Stop \/ Down \/ \E w \in Workers : ShutStep(w)
  \/ Quiet

\* The event loop runs every task that can go on, a process serves what it is
\* sent; nothing is promised of crashes, late answers, cancellations or shutdown.
\* Tasks are disabled while another one has the turn: strong fairness.
Fairness ==
  /\ SF_vars(Start) /\ SF_vars(StartDone) /\ SF_vars(Down)
  /\ \A p \in Procs : WF_vars(ProcessStep(p))
  /\ \A c \in Calls : SF_vars(CallStep(c))
  /\ \A t \in Restarts : SF_vars(RestartStep(t))
  /\ SF_vars(MonitorStep)
  /\ \A w \in Workers : SF_vars(ShutStep(w))

Spec == Init /\ [][Next]_vars /\ Fairness
-----------------------------------------------------------------------------
\* Every variable has its type.
TypeOK ==
  /\ phase \in {"new", "starting", "running", "stopping", "down"}
  /\ started \in BOOLEAN /\ next \in Workers
  /\ proc \in [Workers -> Procs \cup {NoProc}]
  /\ busy \in [Workers -> BOOLEAN]
  /\ holder \in [Workers -> Tasks \cup {NoOne}]
  /\ waiters \in [Workers -> Seq(Tasks)]
  /\ rbuf \in [Workers -> Seq(Lines)]
  /\ pc \in [Calls -> {"idle", "scan", "wait", "drain", "read"} \cup Over]
  /\ on \in [Calls -> Workers] /\ tries \in [Calls -> 0..(Size + 1)]
  /\ src \in [Calls -> Procs \cup {NoProc}]
  /\ answer \in [Calls -> Lines \cup {NoLine}]
  /\ ph \in [Restarts -> {"none", "due", "reap", "spawn", "ready", "drop"}]
  /\ target \in [Restarts -> Workers]
  /\ awaited \in [Restarts -> Procs \cup {NoProc}]
  /\ mpc \in {"off", "sleep", "wait", "drain", "read", "next", "restart"}
  /\ mw \in Workers /\ msrc \in Procs \cup {NoProc}
  /\ dph \in [Workers -> {"todo", "sent", "wait", "reap", "done"}]
  /\ dproc \in [Workers -> Procs \cup {NoProc}]
  /\ st \in [Procs -> {"free", "starting", "up", "hung", "dead"}]
  /\ stdin \in [Procs -> Seq(Lines)] /\ stdout \in [Procs -> Seq(Lines)]
  /\ cur \in [Procs -> Lines \cup {NoLine}] /\ served \in [Procs -> Nat]
  /\ turn \in Tasks \cup {NoOne}
  /\ ran \in [Calls -> Nat] /\ faults \in 0..MaxFaults

\* A call returns the answer to its own request, though a line read from a worker
\* carries no check of whom it is for, workers are restarted without their lock,
\* and self.process may be another process after drain() than before it.
OwnAnswer == \A c \in Calls : pc[c] = "done" => answer[c] = c

\* The calls that talk to the process of worker w.
Inside(w) == {c \in Calls : pc[c] \in {"drain", "read"} /\ on[c] = w}

\* worker.busy, by which execute() passes over workers without taking their lock,
\* says exactly that a call holds the lock and talks to the process: whatever
\* fails, is cancelled, restarted or shut down, no worker stays busy for ever and
\* no two calls write to one worker.
LockDiscipline ==
  \A w \in Workers : Inside(w) = IF busy[w] THEN {holder[w]} ELSE {}

\* No step of the health monitor's restart ends a process a call is talking to, but
\* for one.  The kill comes after a check made under the lock, and no waiting call
\* gets to run between the two; from then on the lock is free.  The exception: when
\* the new process is not ready in time, start() kills the process the worker has by
\* then, in which a call may be.
MonitorSparesCalls ==
  [][ph'[MonitorRestart] # ph[MonitorRestart] =>
       \A c \in Calls : pc[c] \in {"drain", "read"} /\ st[src[c]] # "dead" =>
         \/ st'[src[c]] # "dead"
         \/ /\ ph[MonitorRestart] = "ready" /\ ph'[MonitorRestart] = "drop"
            /\ st[awaited[MonitorRestart]] = "starting"
            /\ src[c] = proc[target[MonitorRestart]]]_vars

\* Every call of execute() ends, with a result or an error, though processes crash
\* or hang and workers are restarted under it.
EveryCallReturns ==
  \A c \in Calls : pc[c] # "idle" ~> pc[c] \in Over

\* A worker without a live process gets one, as long as the pool runs: the monitor
\* finds what a failed or overtaken restart left behind.
Recovers ==
  \A w \in Workers :
    (started /\ ~Live(proc[w])) ~> (~started \/ Live(proc[w]))
=============================================================================
