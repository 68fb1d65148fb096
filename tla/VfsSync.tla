------------------------------ MODULE VfsSync ------------------------------
(***************************************************************************)
(* Executions and the files they leave (sandbox_executor.py, session.py,   *)
(* worker_server.ts): the files of a workspace are listed, sent to a       *)
(* worker and mounted there, the code runs, what it changed is collected,  *)
(* sent back, saved file by file, and what it removed is deleted.          *)
(*                                                                         *)
(* An action is the code between two awaits of the host, or one request on *)
(* a worker: requests on a worker do not overlap (module WorkerPool), and  *)
(* nobody else sees its file system.  A worker keeps its files and its     *)
(* Python variables from one request to the next, whoever sent them.       *)
(*                                                                         *)
(* The content of a file is known by the execution that wrote it, Python   *)
(* variables by the execution that defined them; saved variables by those  *)
(* whose variables were there when they were pickled, though pickling      *)
(* skips some kinds (open files, types).  The files every                  *)
(* execution brings along (helpers, site-packages of the sandbox itself)   *)
(* are left out; the worker always has some under /site-packages.          *)
(***************************************************************************)
EXTENDS Naturals, FiniteSets

CONSTANTS
  Threads,     \* thread ids
  Workspace,   \* the vfs_id of a thread
  Paths,       \* file paths outside the system directories
  Tracked,     \* those in the directories /tmp, /home and /site-packages
  Deletable,   \* those whose names begin so, but not with /home/pyodide
  Workers,     \* workers of the pool
  Execs,       \* executions
  Thread,      \* the thread of an execution
  Kind,        \* its kind
  Follows,     \* the executions its caller has waited for
  Programs,    \* what its code may do to each path
  Size,        \* the size of a content
  Seed,        \* the content of a file nobody here wrote
  Seeded,      \* the files of each workspace at first
  MaxFiles,    \* quota: max_files
  Sticky,      \* executions that define a name which clearing or restoring the
               \* variables relies on (list, globals) or keeps (micropip)
  Unpickles,   \* bound: TRUE if saved variables can always be restored
  None         \* no file

Kinds == {"stateful", "stateless", "shell", "api"}
Effects == {"left", "wrote", "slipped", "removed"}
VfsIds == {Workspace[t] : t \in Threads}
Contents == Execs \cup {Seed}

ASSUME SyncAssumption ==
  /\ Tracked \subseteq Paths /\ Deletable \subseteq Paths
  /\ Thread \in [Execs -> Threads]
  /\ Kind \in [Execs -> Kinds]
  /\ Follows \in [Execs -> SUBSET Execs]
  /\ Programs \in [Execs -> SUBSET [Paths -> Effects]]
  /\ Size \in [Contents -> Nat]
  /\ Seeded \in [VfsIds -> SUBSET Paths]
  /\ MaxFiles \in Nat
  /\ Sticky \subseteq Execs
  /\ Unpickles \in BOOLEAN
  /\ Seed \notin Execs
  /\ None \notin Contents

VARIABLES
  vfs,      \* the files of a workspace in the database
  bytes,    \* the pickled variables of a thread; {}: no row
  fs,       \* the files of a worker
  globals,  \* the variables of a worker
  pc,       \* where an execution is
  call,     \* its local variables
  past      \* history: what its code found and did, what others changed meanwhile

vars == <<vfs, bytes, fs, globals, pc, call, past>>
stored == <<vfs, bytes>>
workers == <<fs, globals>>

Empty == [p \in Paths |-> None]
Present(files) == {p \in Paths : files[p] # None}
Vfs(e) == Workspace[Thread[e]]

NoCall == [loaded |-> {}, listed |-> {}, sent |-> Empty, created |-> {}, doomed |-> {},
           reported |-> {}, fresh |-> {}]
NoPast == [found |-> Empty, did |-> [p \in Paths |-> "left"], stirred |-> {}]

\* Only a stateful executor has variables to load; quotas are checked for Python;
\* write_file and delete_file may also be called for themselves.
Entry == [stateful |-> "load", stateless |-> "check", shell |-> "list", api |-> "api"]

Init ==
  /\ vfs = [v \in VfsIds |-> [p \in Paths |-> IF p \in Seeded[v] THEN Seed ELSE None]]
  /\ bytes = [t \in Threads |-> {}]
  /\ fs = [w \in Workers |-> Empty]
  /\ globals = [w \in Workers |-> {}]
  /\ pc = [e \in Execs |-> Entry[Kind[e]]]
  /\ call = [e \in Execs |-> NoCall]
  /\ past = [e \in Execs |-> NoPast]

Goto(e, label) == pc' = [pc EXCEPT ![e] = label]

\* The execution is over; its local variables are gone.
End(e) ==
  /\ Goto(e, "done")
  /\ call' = [call EXCEPT ![e] = NoCall]
  /\ past' = [past EXCEPT ![e] = NoPast]
-----------------------------------------------------------------------------
(* Before the code runs. *)

\* StatefulExecutor.execute: the variables of the thread.
Load(e) ==
  /\ pc[e] = "load"
  /\ call' = [call EXCEPT ![e].loaded = bytes[Thread[e]]]
  /\ Goto(e, "check")
  /\ UNCHANGED <<stored, workers, past>>

CheckQuota(e) ==
  /\ pc[e] = "check"
  /\ IF Cardinality(Present(vfs[Vfs(e)])) >= MaxFiles
     THEN End(e)
     ELSE Goto(e, "list") /\ UNCHANGED <<call, past>>
  /\ UNCHANGED <<stored, workers>>

\* before_vfs_files
List(e) ==
  /\ pc[e] = "list"
  /\ call' = [call EXCEPT ![e].listed = Present(vfs[Vfs(e)])]
  /\ Goto(e, "fetch")
  /\ UNCHANGED <<stored, workers, past>>

\* files_dict, read by a query of its own.
Fetch(e) ==
  /\ pc[e] = "fetch"
  /\ call' = [call EXCEPT ![e].sent = vfs[Vfs(e)]]
  /\ Goto(e, "run")
  /\ UNCHANGED <<stored, workers, past>>
-----------------------------------------------------------------------------
(* A request on a worker. *)

\* Files of earlier requests stay unless one is mounted in their place.
Mounted(sent, files) == [p \in Paths |-> IF sent[p] # None THEN sent[p] ELSE files[p]]

\* What is there when the code of e has done did.
After(e, found, did) ==
  [p \in Paths |-> CASE did[p] = "left" -> found[p]
                     [] did[p] = "removed" -> None
                     [] OTHER -> e]

\* Bug: sizes are not compared.
NoticedNew(found, did, final) ==
  {p \in Paths :
     /\ final[p] # None
     /\ did[p] = "wrote" \/ p \notin Tracked \/ found[p] = None}

\* Bug: nothing is compared, all files that are there are collected.
NoticedAll(found, did, final) == {p \in Paths : final[p] # None}

\* Bug: files that are gone again are collected too.
NoticedGone(found, did, final) ==
  {p \in Paths : \/ did[p] = "wrote" \/ p \notin Tracked \/ found[p] = None
                 \/ final[p] # None /\ Size[final[p]] # Size[found[p]]}

\* What a Python worker collects: the tracker misses what "slipped" by it, of
\* which a new size tells; outside the tracked directories nothing was known.
Noticed(found, did, final) ==
  {p \in Paths :
     /\ final[p] # None
     /\ \/ did[p] = "wrote"
        \/ p \notin Tracked
        \/ found[p] = None
        \/ Size[final[p]] # Size[found[p]]}

\* What clearing the variables of a worker leaves.  A failure is logged only: where
\* somebody's name is in the way, others may stay with it.
Uncleared(w) == {{}} \cup {left \in SUBSET globals[w] : left \cap Sticky # {}}

\* Bug: variables are added to those that are there.
VariablesMixed(e, w) ==
  CASE Kind[e] # "stateful" -> {globals[w]}
    [] OTHER -> {globals[w] \cup call[e].loaded}

\* The variables the code starts with.  A failure to restore is logged only, too.
Variables(e, w) ==
  CASE Kind[e] # "stateful" -> {globals[w]}
    [] call[e].loaded = {} -> Uncleared(w)
    [] OTHER -> {call[e].loaded \cup left : left \in Uncleared(w)}
                \cup {left \in {globals[w]} : ~Unpickles \/ left \cap Sticky # {}}

\* What the host deletes: files it knew, and whose names begin as those of tracked
\* directories do, that are not in the list of what these directories hold.  A name
\* may begin so (/homework.txt) and not be in any of them.
Doomed(e, final) ==
  {p \in call[e].listed \cap Deletable :
     Kind[e] = "stateful" /\ (p \notin Tracked \/ final[p] = None)}

\* The host has the result of a request that succeeded.
Received(e, found, did, final, created, doomed, fresh) ==
  /\ call' = [call EXCEPT ![e].created = {<<p, final[p]>> : p \in created},
                          ![e].doomed = doomed, ![e].fresh = fresh]
  /\ past' = [past EXCEPT ![e].found = found, ![e].did = did]
  /\ Goto(e, IF created = {} THEN "detect" ELSE "save")

\* The worker serves the request.  If the code succeeded, the answer may reach the
\* host; if the answer is lost the request is repeated or given up.
Run(e, w) ==
  /\ pc[e] = "run" /\ Kind[e] # "shell"
  /\ \E did \in Programs[e], start \in Variables(e, w) :
       LET found == Mounted(call[e].sent, fs[w])
           final == After(e, found, did) IN
       /\ fs' = [fs EXCEPT ![w] = final]
       /\ globals' = [globals EXCEPT ![w] = start \cup {e}]
       /\ \/ \E fresh \in IF Kind[e] = "stateful" THEN {{}, start \cup {e}} ELSE {{}} :
               Received(e, found, did, final, Noticed(found, did, final),
                        Doomed(e, final), fresh)
          \/ End(e)
          \/ UNCHANGED <<pc, call, past>>
  /\ UNCHANGED stored

\* A shell command has a process of its own.  Its files carry time stamps, so that
\* no change slips by, and its result has no list of files: nothing is deleted,
\* though execute_shell goes through what it would delete.
RunShell(e) ==
  /\ pc[e] = "run" /\ Kind[e] = "shell"
  /\ \/ \E did \in Programs[e] :
          LET final == After(e, call[e].sent, did) IN
          Received(e, call[e].sent, did, final,
                   {p \in Paths : did[p] \in {"wrote", "slipped"}}, {}, {})
     \/ End(e)
  /\ UNCHANGED <<stored, workers>>

\* A worker dies, or is restarted after a timeout or by the monitor.
Replace(w) ==
  /\ fs[w] # Empty \/ globals[w] # {}
  /\ fs' = [fs EXCEPT ![w] = Empty]
  /\ globals' = [globals EXCEPT ![w] = {}]
  /\ UNCHANGED <<stored, pc, call, past>>
-----------------------------------------------------------------------------
(* After the code has run. *)

AfterFiles(e) == IF call[e].fresh = {} THEN "return" ELSE "persist"

\* Bug: with nothing to delete it answers at once, before the variables are saved.
AfterReportDone(e) == IF call[e].doomed = {} THEN "return" ELSE "delete"

AfterReport(e) == IF call[e].doomed = {} THEN AfterFiles(e) ELSE "delete"

Before == {"load", "check", "list", "api"}

\* Who has listed the files of the workspace does not find this path as it was.
Stir(e, p) ==
  [f \in Execs |-> IF f # e /\ Vfs(f) = Vfs(e) /\ pc[f] \notin Before \cup {"done"}
                   THEN [past[f] EXCEPT !.stirred = @ \cup {p}] ELSE past[f]]

Save(e) ==
  /\ pc[e] = "save"
  /\ \E file \in call[e].created :
       LET left == call[e].created \ {file} IN
       /\ vfs' = [vfs EXCEPT ![Vfs(e)][file[1]] = file[2]]
       /\ call' = [call EXCEPT ![e].created = left, ![e].reported = @ \cup {file[1]}]
       /\ past' = Stir(e, file[1])
       /\ Goto(e, IF left # {} THEN "save" ELSE AfterReport(e))
  /\ UNCHANGED <<bytes, workers>>

\* No file was collected: those that are new in the workspace count as created.
\* From Python there is always one to save, /sitecustomize.py, which every execution
\* brings along, unless the code removed it.
Detect(e) ==
  /\ pc[e] = "detect"
  /\ \/ call' = [call EXCEPT ![e].reported = Present(vfs[Vfs(e)]) \ call[e].listed]
     \/ Kind[e] # "shell" /\ UNCHANGED call
  /\ Goto(e, AfterReport(e))
  /\ UNCHANGED <<stored, workers, past>>

Delete(e) ==
  /\ pc[e] = "delete"
  /\ \E p \in call[e].doomed :
       LET left == call[e].doomed \ {p} IN
       /\ vfs' = [vfs EXCEPT ![Vfs(e)][p] = None]
       /\ call' = [call EXCEPT ![e].doomed = left]
       /\ past' = Stir(e, p)
       /\ Goto(e, IF left # {} THEN "delete" ELSE AfterFiles(e))
  /\ UNCHANGED <<bytes, workers>>

\* StatefulExecutor.execute, after success.
Persist(e) ==
  /\ pc[e] = "persist"
  /\ bytes' = [bytes EXCEPT ![Thread[e]] = call[e].fresh]
  /\ Goto(e, "return")
  /\ UNCHANGED <<vfs, workers, call, past>>

Return(e) ==
  /\ pc[e] = "return"
  /\ End(e)
  /\ UNCHANGED <<stored, workers>>

\* An exception at any statement: the execution has failed, what it saved stays.
Fail(e) ==
  /\ pc[e] \notin {"return", "done"}
  /\ End(e)
  /\ UNCHANGED <<stored, workers>>

\* One call of write_file or delete_file by a tool of the agent.
Tool(e) ==
  /\ pc[e] = "api"
  /\ \E did \in Programs[e], p \in Paths :
       /\ did[p] # "left"
       /\ vfs' = [vfs EXCEPT ![Vfs(e)][p] = IF did[p] = "removed" THEN None ELSE e]
       /\ past' = Stir(e, p)
  /\ Goto(e, "done")
  /\ UNCHANGED <<bytes, workers, call>>
-----------------------------------------------------------------------------
Begun(e) == \A f \in Follows[e] : pc[f] = "done"

Next ==
  \/ \E e \in {x \in Execs : Begun(x)} :
       \/ Load(e) \/ CheckQuota(e) \/ List(e) \/ Fetch(e)
       \/ RunShell(e) \/ \E w \in Workers : Run(e, w)
       \/ Save(e) \/ Detect(e) \/ Delete(e) \/ Persist(e)
       \/ Return(e) \/ Fail(e) \/ Tool(e)
  \/ \E w \in Workers : Replace(w)

Spec == Init /\ [][Next]_vars
-----------------------------------------------------------------------------
(* Properties. *)

Labels == Before \cup {"fetch", "run", "save", "detect", "delete", "persist", "return",
                   "done"}
FileMaps == [Paths -> Contents \cup {None}]
CallRows == [loaded : SUBSET Execs, listed : SUBSET Paths, sent : FileMaps,
             created : SUBSET (Paths \X Contents), doomed : SUBSET Paths,
             reported : SUBSET Paths, fresh : SUBSET Execs]
PastRows == [found : FileMaps, did : [Paths -> Effects], stirred : SUBSET Paths]

\* Files are contents on both sides, also those left from other requests.
TypeOK ==
  /\ vfs \in [VfsIds -> FileMaps]
  /\ bytes \in [Threads -> SUBSET Execs]
  /\ fs \in [Workers -> FileMaps]
  /\ globals \in [Workers -> SUBSET Execs]
  /\ pc \in [Execs -> Labels]
  /\ call \in [Execs -> CallRows]
  /\ past \in [Execs -> PastRows]

Wrote(e, p) == past[e].did[p] \in {"wrote", "slipped"}

\* An execution writes and deletes in its own workspace only, and only what its code
\* wrote or removed, whatever else is on the worker.  The exception: a file that
\* others deleted between its two queries and wrote again later is deleted.
OwnChanges ==
  [][\A v \in VfsIds, p \in Tracked : vfs'[v][p] # vfs[v][p] =>
       \E e \in Execs :
         /\ Vfs(e) = v
         /\ \/ pc[e] = "api" /\ pc'[e] = "done"
            \/ pc[e] = "save" /\ vfs'[v][p] = e /\ Wrote(e, p)
            \/ /\ pc[e] = "delete" /\ vfs'[v][p] = None /\ p \in call[e].listed
               /\ past[e].did[p] = "removed" \/ call[e].sent[p] = None]_vars

\* A write nobody notices: past the tracker, to a file of the same size.
Unnoticed(e, p) ==
  /\ past[e].did[p] = "slipped" /\ Kind[e] # "shell"
  /\ past[e].found[p] # None /\ Size[past[e].found[p]] = Size[e]

\* What the workspace should have at a tracked path when execution e has succeeded:
\* only a stateful execution removes files, and none of the directory it works in.
Intended(e, p) ==
  IF Wrote(e, p) /\ ~Unnoticed(e, p) THEN e
  ELSE IF past[e].did[p] = "removed" /\ Kind[e] = "stateful" /\ p \in Deletable THEN None
  ELSE call[e].sent[p]

\* All changes of an execution that succeeded are in the workspace, where nobody
\* else changed it meanwhile: mounting, collecting, saving and deleting lose none.
Delivered ==
  \A e \in Execs : pc[e] = "return" =>
    \A p \in Tracked \ past[e].stirred : vfs[Vfs(e)][p] = Intended(e, p)

\* What an execution reports as created, its code wrote or others changed meanwhile.
ReportsOwn ==
  \A e \in Execs : pc[e] = "return" =>
    \A p \in call[e].reported \cap Tracked : Wrote(e, p) \/ p \in past[e].stirred

\* What is stored for a thread is what one of its executions loaded, with what its
\* code defined: nothing of those that ran on the worker before.  The exceptions: among
\* the variables was a name that stands in the way of clearing or restoring, or what
\* was loaded cannot be restored.
SessionExact ==
  [][\A t \in Threads : bytes'[t] # bytes[t] =>
       \E e \in Execs :
         /\ Thread[e] = t /\ pc[e] = "persist"
         /\ \/ bytes'[t] = call[e].loaded \cup {e}
            \/ bytes'[t] \cap Sticky # {}
            \/ call[e].loaded # {} /\ ~Unpickles]_vars

\* The phase of an execution: the quota is checked before the files are listed, and
\* what follows the request are changes to the workspace.
Phase(label) ==
  CASE label = "check" -> "list"
    [] label \in {"save", "detect", "delete", "persist"} -> "apply"
    [] OTHER -> label

\* The changes of tracked files an execution has still to make.
DueChanges(c) == {file \in c.created : file[1] \in Tracked}
                 \cup {<<p, None>> : p \in c.doomed \cap Tracked}

\* The files and the executions as a sandbox shows them.
BoxVfs == [v \in VfsIds |-> [p \in Tracked |-> vfs[v][p]]]
BoxAt == [e \in Execs |-> Phase(pc[e])]
BoxRow(e) ==
  [loaded |-> call[e].loaded,
   listed |-> call[e].listed \cap Tracked,
   sent |-> [p \in Tracked |-> call[e].sent[p]],
   did |-> [p \in Tracked |-> past[e].did[p]],
   due |-> DueChanges(call[e]),
   reported |-> call[e].reported \cap Tracked,
   fresh |-> IF pc[e] = "return" THEN {} ELSE call[e].fresh]
BoxTask == [e \in Execs |-> BoxRow(e)]

\* Workers are shared, keep files and variables, die and repeat requests, and an
\* execution saves its files among those of others: all the same it does to tracked
\* files and saved variables what it would do in a sandbox of its own.
Box == INSTANCE Sandbox WITH
  Paths <- Tracked, vfs <- BoxVfs, at <- BoxAt, task <- BoxTask
Sandboxed == Box!Spec
=============================================================================
