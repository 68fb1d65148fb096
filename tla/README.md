# A formal model of Mayflower Sandbox

TLA+ modules, TLC model-checking runs and TLAPS proofs for Mayflower Sandbox, a
sandbox that runs Python (Pyodide on Deno) and shell commands (BusyBox WASM) over a
virtual file system kept in PostgreSQL or SQLite. Paths below are relative to
`src/mayflower_sandbox/` of the repository unless they begin with `docs/`.

- [The system](#the-system): its parts, their state, what is hard about them
- [The modules](#the-modules): what is modelled, and how it corresponds to the code
- [The runs](#the-runs): what each check shows, its bounds, the fairness assumed
- [Disagreements with the documentation](#disagreements-with-the-documentation)
- [The proofs](#the-proofs): what is proved, from what, along which argument
- [What is not modelled](#what-is-not-modelled)
- [What could come next](#what-could-come-next)
- [Working with the project](#working-with-the-project)

## The system

An agent framework calls `MayflowerSandboxBackend`. A Python command goes to
`SandboxExecutor`, which loads the files of the thread's workspace from the database,
sends them with the code to a worker of the pool, and saves what came back. A shell
command goes to a Deno process of its own that runs BusyBox applets, one web worker for
each stage of a pipeline. Everything on the Python side is asyncio: calls interleave at
their awaits. Beside it run operating-system processes (the Deno workers), web workers
with shared memory (the pipeline stages), a cleanup job, a health monitor, and
sometimes a second thread (`SyncSandboxManager`).

### Components

**Worker pool** (`worker_pool.py`, the request loop of `worker_server.ts`).
State: for each worker its process, `busy`, a lock, a read buffer; for the pool
`started` and the index of the round robin. Operations: `start`, `execute` (round robin
over workers that are not busy; on an error a restart task and the next worker; at last
one worker in any case), `_restart_worker` (kill, then start), `_health_monitor`,
`shutdown`. It talks to each process by one line of JSON on stdin and one on stdout.
Hard: restarts, the monitor and shutdown do not take the lock under which calls talk to
the process; `self.process` is read again after awaits; answers carry ids that nobody
compares; processes crash, hang or answer after the timeout; callers are cancelled.
Correct means: a call gets the answer to its own code; `busy` is true exactly while a
call talks to the process; every call ends; a dead worker is replaced; the monitor's
restart kills no process a call is using, unless `start()` gives up on the new one.

**Shell pipeline pipes** (`shell_executor.ts` 894-976, 1189-1365).
State: a `SharedArrayBuffer` for each pipe with a ring of bytes, a read pointer, a
write pointer, a closed flag. Operations: `PipeWriter.write`, `close`,
`PipeReader.read`, the `run` handler of a stage, `executePipeline` that waits for all
stages and terminates them. Hard: two threads on shared memory; modular pointers where
a full ring and an empty one are close; the end of input is decided from several atomic
loads; a sleep that misses its wake-up; a stage that throws.
Correct means: bytes arrive in order, complete, unaltered; the end of input comes after
the last byte; the pipeline ends.

**Sessions, virtual file system, snapshots, cleanup** (`manager.py`, `filesystem.py`,
`session.py`, `cleanup.py`, `db.py`).
State: the tables `sandbox_sessions`, `sandbox_filesystem`, `sandbox_session_bytes`
with foreign keys and cascades. Operations: create or open a session, write, delete and
list files, save, load and delete the pickled Python state, create and restore
snapshots, the hourly cleanup of expired sessions and orphaned files. Several threads
can share one file system through a `vfs_id`. Hard: no operation uses a transaction;
rows are read in one statement and acted on in a later one; ownership of a file (a
session) and membership (a `vfs_id`) are different things; SQLite commits only at
certain statements; the process restarts.
Correct means: nothing of one workspace gets into another; a snapshot does not change;
a restore replaces exactly; the cleanup takes expired things only, and, where it is
started, all of them;
what was written survives a restart.

**Execution and VFS synchronisation** (`sandbox_executor.py`, `worker_server.ts`
192-319, `fs_utils.ts`). State: class-level worker pools and MCP bridge, the file system
inside each worker process, which outlives a call. Operations: quota check, lazy start
of bridge and pool, mounting, running, collecting what changed, saving it, deleting what
is gone. Hard: the worker's file system and variables are shared by whoever runs there
next, and clearing or restoring the variables can fail without anybody noticing; the
snapshot before covers three directories and the one after all of it; the list of files
before an execution is old when it is compared afterwards; saving stops half-way on an
error; quotas are checked before and for one execution alone. Correct means: an
execution changes exactly the files its code changed, and in its own workspace, and the
variables stored for a thread are its own.

**Shell evaluation** (`shell_executor.ts` 129-385, 525-892, 1264-1465). State: the files
of the workspace as the line has changed them so far, the paths changed, the last exit
status. Operations: cut a line into tokens, parse it, run its lists with `;`, `&&`, `||`,
run a simple command in a fresh BusyBox module or a pipeline in a web worker for each
stage, merge what the stages changed. Hard: precedence and skipping; a conflict between
two stages is found when all have run; a worker that fails must end its pipeline, the
others included. Correct means: a line does what the POSIX grammar says, and every call
is answered.

**DeepAgents backend** (`deepagents_backend.py`, `install_skill` of `integrations.py`).
State: the files of the workspace, files waiting for the tool node in a class-level
dictionary, the packages and the index of installed skills. Operations: `awrite` (must
not exist), `aedit` (read, replace, write), uploads, deletions, snapshots, `execute` and
`aexecute` with the hand-over of created files, the installation of a skill. Hard:
check-then-act and read-modify-write across awaits, a restore under calls in flight, an
installation of several writes. Correct means: nothing is lost and nothing comes back
where calls do not overlap; created files reach the node that ran the tool; index and
package agree.

**MCP session manager** (`mcp_bindings.py`). State: connections and time stamps for each
thread and server. Operations: throttle, connect or reuse, expire, call. Hard: all of it
with awaits between reading and writing the dictionaries. Correct means: a request talks
to a connection of its own thread and server that nobody closes under it; no connection
is leaked.

**MCP bridge** (`mcp_bridge_server.py`, `schema_validator.py`, `_ensure_mcp_bridge` and
`_ensure_pool` of `sandbox_executor.py`, `add_http_mcp_server` of `integrations.py`).
State: one bridge for the whole class with the servers of the thread that started it, one
pool for each network configuration with the port its workers may reach, two locks.
Operations: start both on demand, answer the requests of code in the workers. Hard:
looks before and under a lock, failures while it is held, a configuration read once.
Correct means: one bridge, never replaced, and the port handed out is its own.

**Synchronous facade** (`sync_manager.py`). A thread with an event loop in front of the
above; a result that does not come in time cancels the call. Correct means: warm-up
once, no call for ever.

**One-shot executor** (`executor.ts`), **HTTP server, tools, bootstrap, history
extraction** (`server.py`, `integrations.py`, `bootstrap.py`, `history_extraction.py`),
**schema tools** (`schema_codegen.py`, `schema_validator.py`), **document helpers**
(`helpers/`) and **demo**: sequential code, adapters and text processing, without state
shared between actors.

`PROJECT.json` lists the same components with their files and status, and every hazard
at the line where it bites with the properties that cover it.

## The modules

| Module | What it is |
| --- | --- |
| `BytePipe` | abstract: what a pipe promises, without a buffer |
| `ShellPipe` | the ring buffer between two stages, thread steps at atomic accesses; implements `BytePipe` |
| `ShellPipe_proofs`, `ModArith` | its proofs; the modular arithmetic they need |
| `WorkerPool` | pool, workers, restarts, monitor, shutdown, processes |
| `WorkerPool_proofs` | its proofs |
| `SessionStore`, `MCSessionStore` | the store, one action for each SQL statement; its instance |
| `SessionStore_proofs` | its proofs |
| `Sandbox` | abstract: what an execution promises, without workers |
| `VfsSync`, `MCVfsSync` | executions, the files of the worker and of the workspace; implements `Sandbox`; its instance |
| `VfsSync_proofs` | its proofs |
| `ShellMeaning` | abstract: what a command line means, from the grammar |
| `ShellApplets` | a simple command in its module: redirections, changes; used by both |
| `ShellCall`, `MCShellCall` | tokenizer, parser, evaluation, workers; implements `ShellMeaning`; its instance |
| `Backend`, `MCBackend` | the agent's calls on one workspace, one action for each statement; its instance |
| `Backend_proofs` | its proofs |
| `McpSessions`, `MCMcpSessions` | the session manager, one action from await to await; its instance |
| `McpSessions_proofs` | its proofs |
| `McpBridge`, `MCMcpBridge` | bridge and pools at class level, the requests to the bridge; its instance |
| `McpBridge_proofs` | its proofs |

`PROJECT.json` ("map") names the source lines of every definition. Definitions marked
"Bug" or "Mutation" are not part of a specification: each is an action as a plausible
mistake would leave it, kept to show that a property notices.

### ShellPipe

Each atomic load or store and each byte copied is an action, with one reduction: a
pointer that only its own thread stores is loaded together with the other one, since no
other thread can tell. A byte is its position in the stream, 0 a slot never written, so
that "in order, complete, unaltered" is `out[i] = i`.

| Action | Code |
| --- | --- |
| `Emit` | the `print` callback hands a line to `PipeWriter.write` |
| `WriterLoad`, `WriterCopy`, `WriterPublish` | one round of `write`: free space, copy, store of `writePtr` and notification |
| `CloseWriter`, `StageError`, `ReaderError` | the end of a stage's `run` handler, good and bad |
| `ReaderLoad`, `ReaderDecide` | `read`: load of `writePtr`; load of `closed` and the decision |
| `ReaderWait`, `ReaderTimeout` | `Atomics.wait` with 100 ms |
| `ReaderCopy`, `ReaderReturn` | copy, store of `readPtr` |
| `ReaderQuit` | an applet, such as head, that stops asking |
| `Terminate` | `Promise.all` was rejected; the `finally` of `executePipeline` |

`write` computes the free space modulo the ring size and replaces 0, a full ring, by
`N - 1` (`Room`): a writer never waits. `Spec` is this code in any environment;
`KeptUpSpec` restricts the environment, not the code, to one where a line is printed
only when it fits. `seen` is a history variable: how much was published when `read`
loaded `writePtr`.

### WorkerPool

The unit of interleaving is the code between two awaits. `turn` names a task that
continues without awaiting, for instance from a failed attempt into the next round of
the loop; while it is set no other task of the event loop moves, processes do. The ready
queue of asyncio is not modelled: any task that can run may be next.

| State | Code |
| --- | --- |
| `phase`, `started`, `next` | life cycle of the pool, `WorkerPool.started`, `next_worker_idx` |
| `proc`, `busy`, `holder`, `waiters`, `rbuf` | `PyodideWorker.process`, `busy`, `lock` (with its queue), `_read_buffer` |
| `pc`, `on`, `tries`, `src`, `answer` | a call: where it is, on which worker, which round, whose stdout |
| `ph`, `target`, `awaited` | a restart task |
| `mpc`, `mw`, `msrc` / `dph`, `dproc` | the monitor / the shutdown of each worker |
| `st`, `stdin`, `cur`, `stdout`, `served` | a Deno process with its pipes |

An answer is the name of the request it answers. `Torn` is the rest of a line whose
beginning was lost with a read that was given up. Restart tasks are named by the call
and the attempt that started them, the monitor restarts in its own task. Process
identities are reused once nobody refers to them, so that `Procs` bounds how many exist
at a time and not how many are ever started; there is one for every worker
(`ProcsAssumption`). `Faults` says which failures the
environment may produce, `MaxFaults` how many (an `"error"` is the answer of a live
process that it could not serve the request); a timeout of a request that hangs or was
lost is no fault but what must follow.

### SessionStore

`db` is the content of the tables as the next statement sees it, `disk` as last
committed. On PostgreSQL they agree (`Autocommit`); on SQLite, as `db.py` drives it,
`execute` commits whatever is pending and `fetchrow` does not, so that an
`INSERT ... RETURNING` waits for the next `execute` of anybody. `Restart` falls back to
`disk`.

| Action | Statement |
| --- | --- |
| `Create` | `create_session` |
| `OpenSelect`, `OpenInsert`, `OpenTouch`, `SaveBytes`, `Ran` | `StatefulExecutor.execute`: open the session, save the state, touch |
| `Reset` | `delete_session_bytes` |
| `EnsureSession`, `Upsert` / `Unlink` | `write_file` / `delete_file` |
| `SnapSelect`, `SnapInsert`, `SnapFiles`, `SnapBytes` | `create_snapshot` |
| `RestSelect` ... `RestBytes` | `restore_snapshot`: check, target, delete files, delete state, copy files, copy state |
| `CleanLook` ... `CleanSweep` | one round of `CleanupJob.run_once` |
| `Expire`, `Restart` | time, and the application |

Constraints are modelled where a statement can violate them: primary keys, foreign keys
on insertion (an upsert of an existing file checks none), cascades from a session to its
files, state and snapshots. The schema is that of `db.py`. A call and the content it
writes are known by the call's name; a snapshot has the name of the call that took it,
since its id is a fresh UUID. Time is one event, `Expire`, for each session of `Mortal`.
`took` is a history variable: what a snapshot copied; what a restore deleted and no other
restore has put back since (`PutBack`).

### VfsSync

An execution is a sequence of actions, one for the code between two awaits of the host;
a request on a worker is one action, since requests on a worker do not overlap
(`WorkerPool`) and nobody else sees its file system.

| State | Code |
| --- | --- |
| `vfs`, `bytes` | `sandbox_filesystem` for each `vfs_id`, `sandbox_session_bytes` for each thread |
| `fs`, `globals` | the file system and the Python globals of a worker process, which outlive a request |
| `pc`, `call` | where an execution is; its local variables: `session_bytes`, `before_vfs_files`, `files_dict`, the created files not saved yet, the files to delete, what it reports, the new session bytes |
| `past` | history: the files the code found, what it did to each, which paths others changed since the execution began |

| Action | Code |
| --- | --- |
| `Load`, `Persist` | `StatefulExecutor.execute`: load and save of the session bytes |
| `CheckQuota`, `List`, `Fetch` | `_check_resource_quotas`, `before_vfs_files`, `get_all_files_for_pyodide` |
| `Run` | `PyodideWorker.execute` on a worker: clear or restore variables (`Uncleared`, `Variables`), mount (`Mounted`), run (`After`), collect (`Noticed`), list the files that remain, which decides what the host will delete (`Doomed`) |
| `RunShell` | the process of `execute_shell` |
| `Save`, `Detect`, `Delete` | `_save_created_files`, `_detect_vfs_fallback_files`, the deletions: one file each |
| `Return`, `Fail` | success; an exception, a failure or a timeout at any of the statements |
| `Replace` | a worker dies or is restarted |
| `Tool` | `write_file` or `delete_file` called for itself |

The content of a file is the execution that wrote it, and so are variables, so that
"of another thread" can be said. `Programs` gives what the code of an execution may do
to each path: leave it, write it, write it past the tracker (`slipped`: a compiled
library), remove it. `Size` says which contents have the same size, for that is what the
snapshots compare. `Follows` orders the executions of a caller that waits. `Tracked` are
the paths in the directories a worker looks at before the code runs, `Deletable` those the
host may delete, which is another set. `Sticky` are the executions that define a name
clearing or restoring relies on. Names that begin with `__` are neither cleared nor saved,
and are left out.

What the model shows of the code, and the properties allow for:

- A write past the tracker over a file of the same size is not noticed and lost, also if
  the file it covers is another thread's leftover on the worker (`Unnoticed`).
- A file that disappears between `List` and `Fetch` counts as deleted by the code; if it
  is written again before the deletions, it is deleted (last case of `OwnChanges`).
- The result of a shell command has no list of files, so that the deletions in
  `execute_shell` (953-977) never happen: what a shell command removes stays.
- A Python execution always has `/sitecustomize.py` to save, which is outside the
  tracked directories, so that `Detect` matters to shell commands, and to Python only
  if the code removes that file.
- What the host deletes after a stateful execution it decides by the names of files
  (`Doomed`, `sandbox_executor.py` 812-821). A file under `/home/pyodide`, the directory
  Python works in, is never deleted, so that one the code removed stays in the workspace
  and is mounted again (`Intended`). A file such as `/tmpx` or `/homework.txt`, whose name
  begins as that of a tracked directory, is in none of them, hence never in the worker's
  list, and every successful stateful execution deletes it.
- A failure to clear the variables, or to restore saved ones, is logged only
  (`worker_server.ts` 227-229, 241-242). Code that names a variable `list`, `globals` or
  `frozenset` makes clearing throw, with all variables still there or some already gone
  (`Uncleared`); a name that clearing keeps, such as `micropip`, stays as it is. The next
  code starts with those variables, whosever they are, and they are saved for its thread.
  `SessionExact` says that this, and saved bytes that cannot be restored (`Unpickles` is
  false), are the only ways to it.
- Of two executions of one thread at the same time, the last to save wins: each saves what
  it loaded and defined, and nothing merges the two.

`Sandbox` is the same seen by a caller who knows nothing of workers: an execution looks
at its workspace, runs in a sandbox that is thrown away, and what its code changed, and
nothing else, comes to the workspace one path at a time, then its session, then the
answer; a failure may come between any two of these and loses the rest. Only tracked
paths are in it. Two leaks of the worker are left in it, because the code has them: at a
path where no file was sent, one of an earlier execution may hide a write past the
tracker, or that a file listed before was gone when it was to be sent; and variables that
cannot be cleared or restored may be anybody's. It deletes no file that the host would not
(`Deletable`).
The mapping (`Sandboxed`) projects the workspaces to the tracked paths (`BoxVfs`), names
the phases (`BoxAt`) and shows of a call what it read and what it still has to do
(`BoxTask`): the files not saved yet and those to delete are changes that are due. What
the code did is taken from the history `past`. A quota that is met, the save of an
untracked file, the replacement of a worker, and a request that is repeated because the
answer was lost, are steps that change nothing there.

### ShellApplets, ShellMeaning, ShellCall

A line is written from words and operators. `ShellMeaning` cuts that sequence at its
operators, the loosest first (`;`, then `&&` and `||`, then `|`), and executes one
pipeline after another on the files. `ShellCall` has only the text: it tokenizes it
(`Scan`), parses it by recursive descent (`Parse` and below), and evaluates the tree.
That both agree is the refinement `Means`.

| Action | Code |
| --- | --- |
| `SyntaxError`, `Throw` | an exception reaches `executeShell`: exit status 1, no files |
| `Continue` | a segment of an and-or list that is passed over |
| `ExecuteSimpleCommand`, `SimpleCommandThrows` | `executeSimpleCommand` in a module of its own |
| `StartPipeline`, `Ready`, `Done`, `WorkerFails`, `Join` | `executePipeline`: workers start, report ready, report done or fail; `Promise.all`, the merge, `applyChangedFiles` |
| `Return` | the result |

An applet is what it does to the files of its module and its exit status (`Does`); what
it prints is in `ShellPipe`. A content is the sequence of the commands that wrote it.
What the model shows of the code: a file an applet removes stays, for
`findChangedFiles` looks at what is there afterwards; `>` together with `>>` appends to
the file of `>`; a redirection without a command does nothing; a line that throws
reports none of the files written before. Time stamps of files are taken to differ when
their contents do: two writes of one size within the clock's resolution could hide each
other in the code. The files of a line are those of the workspace; what an applet writes
under `/dev`, `/proc` or `/sys` is never reported (`shell_executor.ts` 49, 690-694), and
such paths are left out.

### Backend

The content of a file is the set of calls it descends from: an edit makes a content from
the one it read, a write or an upload starts anew. That is enough to say that a write is
lost, or that what was replaced has come back. Nine kinds of calls: `awrite`, `aedit`,
`aupload_files`, `adelete`, `install_skill`, `acreate_snapshot`, `arestore_snapshot`,
`aexecute` (or a Python execution), and a shell command through the synchronous
`execute`. Which of the last two a command becomes is decided by its text
(`_should_route_to_pyodide` and its kin) and is a free choice here.

| Action | Code |
| --- | --- |
| `Check`, `Get`, `ReadIndex` | the reads of `awrite`, `aedit`, `install_skill` |
| `Put`, `Drop` | the upsert; the deletion |
| `Install`, `Row` | the files of a skill's package; its row |
| `Copy`, `Clear`, `Fill` | snapshot; the two halves of a restore |
| `Load`, `Save`, `Saved` | an execution: the files it starts from, each file it saves, which files the result names (`Created`: those saved or, without any, those that are new in the workspace) |
| `Erase`, `Erased` | each file the code removed; the end of the execution |
| `Show`, `Publish`, `Consume` | `_astore_pending_files`: read back each file the result names, empty where that fails for whatever reason, and store; `consume_pending_files_update` |
| `Fail` | an exception at any statement, with what was saved or deleted so far left as it is, or no such script |

A call may begin at any time; `prior` records which calls were over then, so that a
property can tell a later call from one that overlapped. `_execute_shell` stores nothing
for the tool node, unlike `aexecute` of the same command (`Erased`). Executions are as in
`VfsSync`, seen from the workspace: they start from the files there, save file by file and
delete file by file. `VfsSync` has what is left out here: the list and the fetch are one
statement (`Load`), which removed file is deleted is a free choice (`Erase`), and no file is
deleted for its name alone. An execution changes no file of a skill's package here.

### McpSessions

| Action | Code |
| --- | --- |
| `Call`, `Wake` | arrival and the end of the throttle's sleep, up to the next await |
| `Reuse`, `BeginClose`, `Open` | the three ways through `ensure_connected` (`Proceed`) |
| `CloseDone`, `CloseFail` | `_close_session`: the `finally` drops whatever record the key has by then |
| `OpenDone`, `OpenFail` | the connection is there and recorded; an exception while connecting |
| `ToolDone`, `Tick` | the answer; the clock |

Requests read the clock before they await and use it afterwards (`at`), as the code
does. `disturbed` is a history variable: keys for which requests overlapped or a close or
connect failed. For those `OneConnection` says nothing, and the model shows that the code
leaks connections: two requests that find no record both connect, and the second record
replaces the first; what a failed connect has opened is not closed.

### McpBridge

| Action | Code |
| --- | --- |
| `Enter`, `LockBridge`, `ReadConfig`, `Listen`, `Stop`, `BridgeFails` | `_ensure_mcp_bridge`, with `start` and `shutdown` of the bridge |
| `EnterPool`, `LockPool`, `PoolStarted`, `PoolFails` | `_ensure_pool` |
| `LoadServers`, `CallTool`, `UsePackage`, `Finish` | the prelude's servers, a call through the bridge, the package cache, the end |
| `AddServer` | the row of `add_http_mcp_server` |

A bridge and its port are named by the execution that started it. A worker may reach the
port its pool was created with, for ever: a pool that is older than the bridge has none,
and its executions, though given the port, are denied (`MayReach`).

## The runs

States are distinct states; "finds" says that the run ends with a counterexample.

| Run | Question | Result |
| --- | --- | --- |
| `kept_up` | does the ring keep the promise of a pipe if the reader keeps up? | holds, 4 273 states |
| `overrun` | if it does not, what remains? | only written bytes are read, both stages end; 43 565 states |
| `pool_calls` | two calls, two workers, a crash, hang, slow start or error anywhere | holds, 30 478 states |
| `pool_monitor` | a call, the monitor, every kind of fault, shutdown | holds, 27 868 states |
| `pool_answer` | can a call get the answer of another one? | finds that it can |
| `session_store` | all operations, the cleanup job once started, expiry, a restart, on SQLite | holds, 542 501 states |
| `vfs_sync` | does an execution change what its code changed, all of it, and nothing else? | holds, 359 106 states |
| `shell_call` | does a command line do what the grammar says, and end? | holds, 66 012 states |
| `backend_calls` | what do three calls on one workspace do to each other? | holds, 2 086 096 states |
| `mcp_sessions` | do requests share sessions without taking them from each other? | holds, 784 262 states |
| `mcp_bridge` | is there one bridge, whoever comes first and whatever fails? | holds, 233 227 states |
| `mcp_registered` | does the bridge know the servers a thread has bound? | finds that it does not |

### What the passing runs show

- `kept_up`: `InOrder` and `UnreadIntact` (every byte read is the right one, none is
  overwritten unread), `EofSnapshot` (the end of input cuts off at most what was
  published between two loads of `read`), `DeliversPrefix` (the refinement of
  `BytePipe`).
- `overrun`: with lines longer than the ring and a reader of one byte at a time,
  `OnlyWritten` and `PipelineEnds`.
- `pool_calls`: `OwnAnswer`, `LockDiscipline` under retries and concurrent restarts.
- `pool_monitor`: `EveryCallReturns`, `Recovers` (a worker without a
  live process gets one, also if a restart failed), `MonitorSparesCalls` (no step of the
  monitor's restart ends a process a call talks to, with one exception: while the new
  process starts, its worker has it and the lock is free, so that a call may write to it,
  and if it is not ready in 15 s `start()` kills it, or whatever process another restart
  has put there; the call then fails and tries the next worker).
- `session_store`: `Provenance` (every file of a workspace was written there or came by
  a restore), `SnapshotFixed`, `RestoreExact` (a restore mixes with what others write or
  restore meanwhile in one way only: that stays or makes it fail), `CleanupSparesLive`,
  `OwnFilesStay` (of a thread that shares its file system with nobody), and
  `ExpiredSessionsGo`, which is about an application that starts the cleanup job: by
  default nothing does, and an expired session stays for ever.
- `vfs_sync`: `OwnChanges` (under the tracked paths a workspace changes only by what one
  of its executions wrote or removed, though the worker is full of other files),
  `Delivered` (all changes of an execution that succeeds are in the workspace, except
  where others changed the same path meanwhile; of the files it removed, those the host
  deletes: only a stateful execution's, and none under `/home/pyodide`), `SessionExact` (the
  variables stored are those loaded and those defined, none of the worker's earlier guests,
  unless a name among them stands in the way of clearing or restoring), `Sandboxed` (the
  refinement of `Sandbox`: which changes come to the workspace, what is reported, what is
  stored, and that the answer comes last).
- `shell_call`: `Means` (the refinement of `ShellMeaning`: what runs and what is passed
  over, on which files, with which exit status, and what is reported), `Answered` (no
  failure of a worker leaves the call waiting).
- `backend_calls`: `Kept` (what a successful call put in a file is lost only to a call
  that overlapped it, or to a later one that replaces the file), `Gone` (what was
  replaced, deleted or undone does not come back, except through an overlapping call, a
  later restore, or the restored snapshot itself), `HandedOver` (an execution nothing overlaps
  hands over the files it saved and no others, each as saved or, where reading it back
  failed, empty, and once), `Installed` (an entry of the index has its package, a
  row has its entry, though installations fail half way).
- `mcp_sessions`: `Undisturbed` (for the lifetime of a session, counted from the look at
  the dictionary, nobody begins to close a request's connection, which is of the request's
  own thread and server), `OneConnection` (without overlap and failures, no connection is
  leaked).
- `mcp_bridge`: `OneBridge`, `KeptForever` (nobody replaces a bridge or pool that others
  may be using), `Through` (a failure under a lock leaves nobody waiting).

### Bounds

- *Pipe.* A ring of 4 slots holds 3 bytes; 8 bytes wrap both pointers twice, and lines
  of 1 to 3 bytes fill the ring exactly, leave one slot and leave more. The overrun has
  3 slots and a line of 4. The proofs remove the bounds for the safety properties.
- *Pool.* Two workers and two calls are enough for a retry on another worker, for a
  queue on a lock, and for two restarts of one worker at once; one worker with a call
  and the monitor for all races between those two. `MaxFaults = 1`: one failure strikes
  at every possible point, and what it causes (restarts, retries, timeouts) is not
  counted. The exception of `MonitorSparesCalls` takes two, what the monitor restarts for
  and a slow start: with `MaxFaults = 2` TLC reaches it in 13 steps, and the proof has no
  such bound. `RequestLimit = 1` makes the monitor recycle a healthy worker. Four or five
  process identities exceed what is alive or referred to at a time. The proofs of the
  safety properties remove the bounds, `MaxFaults` among them.
- *Store.* Two threads of one workspace and one of its own; four calls, each of several
  possible kinds: two writers, a snapshot, a restore, and two restores of one session that
  overlap; two paths; one restart. A thread and a snapshot can expire.
- *Executions.* One worker, so that every execution meets what the others left. A
  stateless execution goes first and leaves files, in a workspace of its own; then a
  stateful one runs twice while the other thread of its workspace has a tool's call and a
  shell command. Two tracked paths, which exist at first in the shared workspace, one of
  them under `/home/pyodide`, and one path whose name only begins as that of a tracked
  directory. The programs remove, write and leave a file, and one write slips by the tracker
  and has the size of the first content. The stateless execution defines a name that
  clearing relies on. A quota of 3 files can be reached. `Unpickles` is true, so that of
  the two exceptions of `SessionExact` the one for names is needed. The proofs remove these
  bounds.
- *Shell.* Every line of up to three of the eleven kinds of tokens (`Longest`), with and
  without blanks, well formed or not, quoted operators and an empty word among them; and
  every line of three of seven simple commands (succeeding, failing, writing, removing,
  with each redirection, with one that cannot be made) joined by two of the four operators,
  which has every pair of precedences. One file.
- *Backend.* Any three calls of any kind, on the index or another file, which exist or do
  not; at most one of them an execution (`MaxRuns`), for `HandedOver` excuses executions
  that overlap. Three calls are one that puts something in a file, one that changes it, and
  one between. The proofs remove the bounds.
- *MCP sessions.* Three requests, two keys, a lifetime of 2 and an interval of 1 in a clock
  of 5 (`MaxTime`) and three connections (`MaxConns`): enough for a session that expires,
  is closed and opened again while two other requests use the key. Proved without bounds.
- *MCP bridge.* Two executions of one thread with different network configurations, one of
  which may reach any host, and one of another thread; each stateful or not; one server,
  which either thread may bind at any time, one package.

### Fairness

- *Pipe.* The threads of the stages are scheduled (weak fairness of writer and reader;
  each is enabled until it moves); an applet ends some day; the main thread reacts to a
  stage that failed. Weak fairness of the reader includes the 100 ms timeout.
- *Pool.* The event loop runs every task that can go on and a process serves what it was
  sent. A task is disabled while another has the turn, which is why the tasks need
  strong fairness; the turn is always given back after finitely many steps. Nothing is
  promised of crashes, late answers, cancellations and shutdown.
- *Store.* Only the cleanup loop is fair, and only in `JobSpec`: an application that calls
  `CleanupJob.start()` (`cleanup.py:182-192`) whenever it starts, as one has to do for itself;
  `_run_loop` then catches every exception and goes on. `Spec`, which the theorems are
  about, promises no cleanup. Calls may stop anywhere.
- *Executions, backend, MCP sessions.* None: nothing is said about when they end.
- *Shell.* The next step is taken: applets end, workers load or report an error, the main
  thread goes on. Which step of which worker is free.
- *MCP bridge.* The steps up to the code of an execution are awaited queries, the start of
  a local server and of processes, each of which ends or raises: weak fairness of each
  execution's part before its code. When the code ends is left open.

Deadlock is checked where the system runs on by itself (pipe, pool, store). In `vfs_sync`,
`backend_calls`, `mcp_sessions`, `mcp_bridge` and `shell_call` it is not: the executions,
calls and the clock of an instance are used up, or the line is answered, and the system
rests.

## Disagreements with the documentation

Two of them are runs of their own that check the promise and end with a counterexample.

- `pool_answer`. `worker_pool.py:230` returns the next line of stdout without comparing
  ids. After a cancelled call (the synchronous facade cancels at its timeout) the next
  call on that worker gets the cancelled call's result, against the isolation of threads
  in `docs/architecture/system-design.md:150`.
- `mcp_registered`. `mcp_bridge_server.py:113` wants `reload_configs` called when servers
  are added or removed, and nothing calls it. The bridge keeps what it read when the first
  execution of any thread started it, and refuses the servers another thread has bound, or
  the same thread later, as not registered.

The others are in the models too, and the properties of the passing runs are stated so as
to say exactly how far they go.

- `docs/architecture/command-routing.md:88` has a slow downstream stage hold the writer
  back. `shell_executor.ts:928` takes a full ring for an empty one (`Room`): the writer
  goes on and overwrites bytes that were not read. Hence the two environments of the pipe.
- `read` loads `writePtr` before `closed`, so that bytes published in between and followed
  by `close` are cut off; `EofSnapshot` says that no others are.
- `docs/how-to/collaborative-workspaces.md:39` keeps shared files as long as any session
  shares the `vfs_id`. A file belongs to the session that made it (`db.py:249`), and goes
  with it by the cascade; `OwnFilesStay` is about a session's own files.
- `docs/how-to/vfs-snapshots.md:41` has a snapshot capture the files of the workspace.
  `session.py:199` opens the session without its `vfs_id`, and `create_snapshot` copies the
  file system named in the row.
- `docs/architecture/system-design.md:89` promises automatic cleanup of expired sessions, and
  `docs/how-to/vfs-snapshots.md:34` of snapshots by the `CleanupJob`. Nothing but a test
  (`tests/test_cleanup.py`) and an example of an embedding application
  (`docs/reference/api.md:322`) calls `CleanupJob.start()`: by default what has expired stays.
- A snapshot purged while it is restored leaves the target empty, or with what another
  restore of the target has put there; `RestoreExact` speaks of the snapshot as it then is.
- `docs/architecture/system-design.md:78` has files survive a restart. On SQLite a write
  that has returned is lost unless an `execute` came after it (`db.py:168`).
- `docs/architecture/system-design.md:150` calls the files of two threads completely
  separate. A worker keeps its files; `worker_server.ts` looks at three directories before
  the code runs (389) and at all of them afterwards (311), so that a file another thread
  left elsewhere counts as created and is saved. `OwnChanges` shows that this does not
  happen under the three directories.
- The comment at `worker_server.ts:215` has clearing the variables prevent state of one
  thread from reaching another. A failure to clear is only logged (227-229), and one name is
  enough for it; the variables are then saved for the other thread. `SessionExact` and
  `Sandbox` say where this can happen.
- The comment at `sandbox_executor.py:811` has files under `/tmp`, `/home` and
  `/site-packages` tracked for deletion. The code compares the beginnings of names and
  leaves out `/home/pyodide` (812-821): files removed there come back, and a file `/tmpx`
  is deleted by the next stateful execution. `Delivered` speaks of what the host deletes.

## The proofs

All theorems hold for every value of the constants that satisfies the named assumption
of the module (`PipeAssumption`, `PoolAssumption` and `ProcsAssumption`,
`StoreAssumption`, `SyncAssumption`, `BackendAssumption`, `ConstantsAssumption` of
`McpSessions`, `BridgeAssumption`): any ring size above 1, any number of workers, calls,
threads, faults, restarts, executions, paths, programs, requests and keys. The assumptions
only say what the constants are, that names of different kinds differ, and that each
worker can have a process of its own. One theorem has a hypothesis more, which the table
names. Every invariant and every action property of a passing run is proved, but for
`ShellCall!TypeOK`.

| Theorem | Statement |
| --- | --- |
| `ShellPipe_proofs!TypeCorrect` | `Spec => []TypeOK`: pointers stay in the ring, overrun or not |
| `ReadsOnlyWritten` | `Spec => []OnlyWritten` |
| `ReadsInOrder`, `NothingOverwritten`, `EofAfterSnapshot` | `KeptUpSpec => []InOrder`, `[]UnreadIntact`, `[]EofSnapshot` |
| `PipeRefinement` | `KeptUpSpec => DeliversPrefix`: the ring implements `BytePipe!PrefixSpec` |
| `WorkerPool_proofs!TypeCorrect`, `BusyMeansInside` | `Spec => []TypeOK`, `[]LockDiscipline` |
| `CallsSpared` | `Spec => MonitorSparesCalls` |
| `AnswersAreOwn` | `Spec => []OwnAnswer`, if nobody gives up on an answer (`Patient`) |
| `SessionStore_proofs!TypeCorrect` | `Spec => []TypeOK` |
| `LiveSessionsSpared` | `Spec => CleanupSparesLive` |
| `FilesHaveSource`, `SnapshotsStay` | `Spec => []Provenance`, `[]SnapshotFixed` |
| `RestoresExact`, `OwnFilesKept` | `Spec => RestoreExact`, `OwnFilesStay` |
| `VfsSync_proofs!TypeCorrect` | `Spec => []TypeOK` |
| `AllDelivered`, `ReportsAreOwn` | `Spec => []Delivered`, `[]ReportsOwn` (the latter in no run, where `Sandboxed` says step by step what is reported) |
| `ExecutionsSandboxed` | `Spec => Sandboxed`: executions on shared workers implement `Sandbox!Spec` |
| `ChangesOwn` | `Spec => OwnChanges` |
| `SessionsExact` | `Spec => SessionExact`, whether saved variables can be restored or not |
| `Backend_proofs!TypeCorrect`, `WritesStay` | `Spec => []TypeOK`, `[]Kept` |
| `SkillsWhole`, `StaysGone`, `HandsOver` | `Spec => []Installed`, `[]Gone`, `[]HandedOver` |
| `McpSessions_proofs!TypeCorrect`, `KeepsConnection`, `HoldsOne` | `Spec => []TypeOK`, `[]Undisturbed`, `[]OneConnection` |
| `McpBridge_proofs!TypeCorrect`, `ServesOne`, `NeverReplaced` | `Spec => []TypeOK`, `[]OneBridge`, `KeptForever` |

*Pipe.* `RingInv` ties pointers to counts: `readPtr` is the number of bytes read modulo
`N`, `writePtr` the number published, and the two numbers are less than `N` apart. From
that the arithmetic of `ModArith` (written out there, since the solver knows little about
modulo) gives that `(r + N - 1 - w) % N` is the free space (`RingFree`), that
`(w + N - r) % N` is what can be read (`RingUsed`), and that two different positions
less than `N` apart have different slots (`RingDistinct`), so that the copy of the
writer hits no unread byte. `InOrder` alone is not inductive: it needs `Content` (each
unread byte is in its slot) and `ReadCall` (what a `read` in progress has seen). The
refinement adds `ShutInv`, that the writer publishes nothing after `close`. `OnlyWritten`
holds even when the writer overruns the reader, where none of this does: until the ring has
been full both pointers are counts, the read pointer not above the other, and the slots
below are written (`Filled`, `ReadsFilled`); from then on every slot is.

*Pool.* `LockDiscipline` speaks of `busy` and of the calls inside. Its inductive form
`LockInv` says that a holder is at that lock (`HolderIsAt`), that who is inside holds
(`InsideHolds`), that a busy worker's holder is a call inside (`BusyIsInside`), and that
a queue contains, once each, tasks that wait for this lock and do not hold it
(`QueueWaits`, `QueueDistinct`), without which a hand-over could give the lock to a
task that is elsewhere. Only seven variables matter (`LockState`); steps that leave them
alone are settled by one lemma, those of calls and monitor fall into a few kinds
(entering, moving, leaving) with a lemma each. The types (`PoolInv`) need the locks: only
a task inside talks to a process, and no call begins a round after its last (`Rounds`).

`MonitorSparesCalls` needs to know whose a process is. Restarts do not take the lock, so a
call may talk to a process its worker has no more; `OneWorker` says that no two workers
use one process all the same, and `AboutToKill` that from the monitor's check to its kill
nobody is inside that worker and no other task of the event loop moves (`MonitorKills`).
Of all other steps that move the restart on, only the timeout of `start()` ends a process
(`MonitorMovesOn`); a call may be in that one, which the property says.

`OwnAnswer` relates what is on its way through a process to who talks to it
(`Conversation`). While a task talks, the process holds nothing but the line of that
task, in stdin, being served or in stdout (`Asked`); a live process nobody talks to
holds nothing, or hangs (`Unasked`). That a restart puts another process under a call
that is in `drain` or `read` is allowed for: the new one has not been asked by anybody.
The hypothesis `Patient` leaves every crash, every hang, every slow start, every error,
and the timeouts that follow from them; it excludes a timeout while the answer is still
to come (`late`), a cancelled caller (`cancel`) and a shutdown (`stop`). No kind of
fault is excluded without need: with any one of the three, TLC finds a call with the
answer of another (`pool_answer` for the cancellation).

*Store.* The cleanup deletes by ids it read in an earlier statement. A live session is
spared because every id read still has an expired row (`VictimsExpired`), no two rows
have one id (`UniqueIds`), and the id of a snapshot was never in use (`FreshIds`), both
of which must also hold of `disk`, to which a restart falls back. `FreshIds` is what
stops an id that was deleted from coming back alive with the cleanup still holding it.

`Provenance`, `SnapshotFixed` and `RestoreExact` rest on one invariant, `SourceInv`: each
row of `db`, and of `disk`, to which a restart falls back, has a source that stays. A file
was written by a call that has written for the last time (`Settled`), or was copied by a
snapshot that has recorded it (`FileSource`); the copy of a snapshot is what it recorded
(`SnapHeld`). For a restore, `Gone` says that between its deletions and its copies nothing
it has deleted is in the target. This is false unless the history forgets what another
restore of the session has put back (`PutBack`): of two restores that overlap one deletes a
file, the other one puts it back, and if the snapshot of the first is purged before it is
copied, the target keeps a file that the first restore meant to replace. The proof found
this, and the instance now has two such restores. `OwnFilesStay` needs of `SourceInv` only
that the row of a thread names its own file system or its workspace (`VfsOfSession`).

*Executions.* `OwnChanges` and `SessionExact` are about one step, and need what an
execution still carries from earlier ones. `SyncInv` says it for each execution: before
the request it carries nothing (`NothingYet`); what is left to save under the tracked
paths, its code wrote (`CreatedOwn`); what is left to delete was listed, and was removed
by the code or not there when fetched (`DoomedOwn`); the new session bytes are those
loaded and its own, or there is a name among them, or saved bytes, that made clearing or
restoring fail (`FreshOwn`). These hold after the request by two lemmas about the
operators, whatever was on the worker: what is noticed under a tracked path without having
been written would have been found with that content, hence with that size
(`NoticedWrites`); what is missing at the end was not mounted or was removed
(`MissingRemoved`).

`Delivered` and `ReportsOwn` follow a path from the list to the return (`KeptInv`). A path
is quiet for an execution while nobody else has changed it since the list (`Quiet`). Until
the code has run, the two queries and the workspace agree at quiet paths (`Matches`);
afterwards a quiet path has what it should have in the end, unless it still waits to be
saved or deleted, and then it has what was sent (`Owed`), and what waits is what the code
wrote or removed (`Due`). A step of another execution or of a tool either leaves a path
alone or makes it loud (`Apart`), so that one lemma settles all of them.

`ExecutionsSandboxed` shows that every step of `VfsSync` is, under the mapping, one step
of `Sandbox` or none (`BoxStep`). It needs `KeptInv` and a little more (`Ready`): a
tool's call has done nothing before it ends, nothing was reported when the workspace is
looked at for new files, a session that is stored is not empty. What a row of the
mapping becomes when one field of a call changes is a lemma for each field (`RowIs` and
the following), so that the steps themselves never expand it. The heart is
`CollectedMapped`: whatever is on the worker, the tracked files it collects and those it
misses are what a sandbox publishes and withdraws, if the files of earlier requests that
hide a change (`Hidden`) are chosen for the sandbox's own choice of them.
`NoticedWrites` and `MissingRemoved` are one half of this, the other is that nothing is
lost. `Saves` and `Variables` are related in the same way (`SavesMapped`), with and
without `Unpickles`, so that this theorem needs no hypothesis.

*Backend.* `Kept` speaks of finished calls. Its inductive form says the same of every
call that has written (`Stays`), and of a call about to write that what it will put in
the file has all that the calls before it wrote, unless a call excuses the loss
(`Carries`). `Fits` says which kind of call is where, and `Order` that the calls in
`prior` are over, so that "overlapped" and "later" do not change once both calls have
begun. The other three add an invariant each. `Skills` (for `Installed`): wherever the
mark of an installation is in a content, in the workspace, a snapshot or a variable of a
call, its package is whole or another call excuses it (`Traces`), and an installation
goes on only with the part it has just written (`Pages`). `Undoing` (for `Gone`): what a
call undid is neither in the file nor in what a later call has read from it (`Unseen`),
and a restore fills only what it has emptied (`Emptied`). `Passing` (for `HandedOver`):
what an execution nothing overlaps saved is first in the files, then in what it reads
back, unless that failed, then in the pending update (`Handing`), and every update is of
one call that has stored it (`Once`). Its result names the files it saved and no others:
while it runs nobody else writes, so that the look for new files, made only when nothing
was saved, adds none, and its deletions spare what it saved.

*MCP sessions.* A request that found a live record must not find its connection closed
within the lifetime. `Records` says that a record whose connection somebody has begun to
close is expired, so that nobody is given it; `Promised` that a record, as long as it
names the connection of a request, was renewed no earlier than that request looked, so
that nobody closes it sooner. `OneConnection` needs `Serial`, which says for a key nothing
has disturbed at which point its one request is, and what is held then.

*MCP bridge.* `Locked`: an execution between the two statements of a lock holds it, and
what the lock protects is not there yet. With it, each step has only one way to set
`_mcp_bridge` or a pool.

### Only model-checked

Liveness (`PipelineEnds`, `EveryCallReturns`, `Recovers`, `ExpiredSessionsGo`, `Through`,
`Answered`), because the prover handles no fairness. `Means` and the types of `ShellCall`:
tokenizer, parser and grammar are recursive over the line, and what they compute for every
line, or that it has its type, is an induction over data, which the prover cannot do.
`OwnAnswer` with late answers, cancellations or a shutdown is false (`pool_calls` and
`AnswersAreOwn` show it without, `pool_answer` its violation).

## What is not modelled

- *Pipe:* a failure of a third stage, which terminates both sides; the redirections of a
  stage, whose lines do not enter the pipe; the applets themselves.
- *Pool:* the change of the event loop under a running pool, the 50 MB limit of a line,
  `start` after `shutdown`, the content of requests. Two concurrent restarts of a worker
  can leave a process that nobody refers to, and a restart task can spawn one after the
  pool is down; this is in the model, the documentation promises nothing exact about it,
  and no property is stated.
- *Store:* tables for skills and MCP servers (the former is in `Backend`, the latter in
  `McpBridge`), dry runs, a second cleanup job, snapshots of snapshots, the column
  `last_accessed`, limits on size and paths, the pool of connections
  (two operations acquire a second connection while they hold one), and expiry by clock:
  `expires_at` is compared with local time in some queries and with the database's clock in
  others, here both happen at once.
- *Executions:* helpers and bootstrap files, the quota by bytes, the limits of a single
  file (any statement may fail anyway), snapshots and cleanup beside executions
  (`SessionStore` has them). The lazy start of pools and of the bridge is in `McpBridge`.
- *Shell:* unterminated quotes, the search for the BusyBox directory, what applets print,
  `execute_shell` around the process (`VfsSync!RunShell`).
- *Backend:* deletions of files for their names alone, and changes an execution makes to
  a skill's package (`VfsSync` has deletions in full); reading, listing, grep and glob,
  which change nothing; the routing of a command by its text; `vfs_id` after a restore,
  which may name another workspace; calls of other threads on the workspace.
- *Bridge:* `/eval_ts`, which runs a process of its own and shares no state;
  `reload_configs` and the shutdown of a kept bridge, which nothing calls; how a tool call
  goes on behind the bridge (`McpSessions`); the wrappers `add_http_mcp_server` writes.
- *Synchronous facade* (`sync_manager.py`): one call at a time through a future with a
  timeout; its cancellation is in `WorkerPool` (`Cancel`).
- *Everything else* (`executor.ts`, `server.py`, `bootstrap.py`, `history_extraction.py`,
  `schema_codegen.py`, `helpers/`, the demo): adapters, text generation and processing,
  sequential code without state shared between actors.

## What could come next

1. The pool of database connections, for the deadlock of nested acquisitions.
2. `Backend` composed with `Sandbox` in place of its own `Load` and `Save`, so that the two
   theorems can be put together.
3. An abstract specification of the pool (a call gets an answer or an error) refined by
   `WorkerPool`, from `Conversation`.

## Working with the project

    tlc -workers 2 -config ShellPipe_kept_up.cfg ShellPipe
    tlc -workers 2 -config WorkerPool_monitor.cfg WorkerPool
    tlc -workers 2 -config Backend_calls.cfg MCBackend
    tlc -workers 2 -config ShellCall_call.cfg MCShellCall
    tlapm McpSessions_proofs.tla

`PROJECT.json` lists each run with its module, configuration and properties, one
mutation for each property that makes TLC find it violated, the map to the source, the
hazards and the theorems. The largest runs, `session_store`, `vfs_sync` and
`backend_calls`, take two to five minutes on two cores, each proof module one or two.
