---------------------------- MODULE SessionStore ----------------------------
(***************************************************************************)
(* The session store: sessions, the virtual file system and the pickled    *)
(* Python state of threads in one SQL database (db.py), the calls that     *)
(* work on it (SandboxManager, VirtualFilesystem, SessionRecovery,         *)
(* StatefulExecutor) and the job that cleans it up (CleanupJob).           *)
(*                                                                         *)
(* No call opens a transaction: each of its SQL statements is an action,   *)
(* and statements of other calls and of the cleanup come in between.  A    *)
(* call, and the content it writes, is known by its name; a snapshot has   *)
(* the name of the call that made it.                                      *)
(***************************************************************************)
EXTENDS Naturals

CONSTANTS
  Threads,      \* thread ids
  Workspace,    \* the vfs_id the callers of a thread pass to VirtualFilesystem
  Paths,        \* file paths
  Calls,        \* calls of the API
  Does,         \* for each call, the operations it may be: name, thread, path
  Autocommit,   \* TRUE: PostgreSQL.  FALSE: SQLite as db.py drives it
  Mortal,       \* bound: the sessions whose time runs out in a behaviour
  MaxRestarts,  \* bound: restarts of the application
  Memory,       \* in place of a path: the pickled Python state
  None          \* no value

Ops == {"create", "run", "reset", "write", "unlink", "snapshot", "restore"}
SessionIds == Threads \cup Calls
VfsIds == SessionIds \cup {Workspace[t] : t \in Threads}

ASSUME StoreAssumption ==
  /\ Threads \cap Calls = {}
  /\ \A t \in Threads : Workspace[t] \notin Calls /\ Workspace[t] # None
  /\ Does \in [Calls -> SUBSET (Ops \X Threads \X (Paths \cup {None}))]
  /\ Autocommit \in BOOLEAN
  /\ Mortal \subseteq SessionIds
  /\ MaxRestarts \in Nat
  /\ Memory \notin Paths
  /\ None \notin SessionIds \cup Paths \cup Ops

VARIABLES
  db,        \* the tables, as the next statement sees them
  disk,      \* the tables, as last committed
  pc,        \* the next statement of a call
  args,      \* what a call was asked, and the vfs_id it has read
  cpc,       \* the next statement of the cleanup job
  victims,   \* the expired sessions it has read
  restarts,  \* restarts so far
  took       \* history: what a snapshot copied; what a restore deleted and no
             \* other one has put back

vars == <<db, disk, pc, args, cpc, victims, restarts, took>>
cleaner == <<cpc, victims, restarts>>

NoArgs == [op |-> None, thread |-> None, vfs |-> None, path |-> None, snap |-> None]

Init ==
  /\ db = [sessions |-> {}, files |-> {}, bytes |-> {}]
  /\ disk = db
  /\ pc = [c \in Calls |-> "idle"]
  /\ args = [c \in Calls |-> NoArgs]
  /\ cpc = "sleep" /\ victims = {}
  /\ restarts = 0
  /\ took = [c \in Calls |-> {}]
-----------------------------------------------------------------------------
(* Statements. *)

\* Through execute(), which commits all there is.
Executed(d) == db' = d /\ disk' = d

\* Through fetchrow(), which does not.
Fetched(d) ==
  /\ db' = d
  /\ disk' = IF Autocommit THEN d ELSE disk

\* A SELECT, or a statement that violates a constraint.
Unchanged == UNCHANGED <<db, disk>>

Session(id, vfs, parent) ==
  [id |-> id, vfs |-> vfs, parent |-> parent, expired |-> FALSE]
HasSession(id) == \E s \in db.sessions : s.id = id
Insert(s) == [db EXCEPT !.sessions = @ \cup {s}]

InVfs(v) == {f \in db.files : f.vfs = v}
BytesOf(id) == {b \in db.bytes : b.id = id}

\* The files of a VFS with another owner, in another VFS.
Copies(from, owner, vfs) ==
  {[f EXCEPT !.owner = owner, !.vfs = vfs] : f \in InVfs(from)}

\* PRIMARY KEY (vfs_id, file_path)
Clash(fs) == \E f \in fs, g \in db.files : f.vfs = g.vfs /\ f.path = g.path

\* Bug: the cascade goes from the child to its parent.
WithoutParents(ids) ==
  LET gone == ids \cup {s.parent : s \in {x \in db.sessions : x.id \in ids}} IN
  [sessions |-> {s \in db.sessions : s.id \notin gone},
   files |-> {f \in db.files : f.owner \notin gone},
   bytes |-> {b \in db.bytes : b.id \notin gone}]

\* DELETE of sessions with ON DELETE CASCADE; parents are never snapshots.
Without(ids) ==
  LET gone == ids \cup {s.id : s \in {x \in db.sessions : x.parent \in ids}} IN
  [sessions |-> {s \in db.sessions : s.id \notin gone},
   files |-> {f \in db.files : f.owner \notin gone},
   bytes |-> {b \in db.bytes : b.id \notin gone}]

\* Paths with their content, and the memory, as histories record them.
FilesAt(d, v) == {<<f.path, f.content>> : f \in {g \in d.files : g.vfs = v}}
MemoryAt(d, id) == {<<Memory, b.content>> : b \in {x \in d.bytes : x.id = id}}

Goto(c, label) == pc' = [pc EXCEPT ![c] = label]

\* A call starts with its first statement.
Begin(c, op, t, vfs, path, snap) ==
  /\ pc[c] = "idle"
  /\ <<op, t, path>> \in Does[c]
  /\ args' = [args EXCEPT ![c] =
       [op |-> op, thread |-> t, vfs |-> vfs, path |-> path, snap |-> snap]]
-----------------------------------------------------------------------------
(* SandboxManager.create_session; StatefulExecutor.execute and             *)
(* reset_session.                                                          *)

Create(c, t) ==
  /\ Begin(c, "create", t, Workspace[t], None, None)
  /\ IF HasSession(t)
     THEN Unchanged /\ Goto(c, "failed")
     ELSE Fetched(Insert(Session(t, Workspace[t], None))) /\ Goto(c, "done")
  /\ UNCHANGED <<cleaner, took>>

\* StatefulExecutor passes no vfs_id to get_or_create_session.
OpenSelect(c, t) ==
  /\ Begin(c, "run", t, t, None, None)
  /\ Goto(c, IF ~HasSession(t) THEN "insert"
             ELSE IF \E s \in db.sessions : s.id = t /\ s.expired THEN "failed"
             ELSE "touch")
  /\ Unchanged
  /\ UNCHANGED <<cleaner, took>>

\* The row that update_last_accessed changes is not modelled; its commit is.
OpenTouch(c) ==
  /\ pc[c] = "touch"
  /\ Executed(db)
  /\ Goto(c, "save")
  /\ UNCHANGED <<args, cleaner, took>>

\* Bug: vfs_id does not default to the thread.
OpenInsertNoVfs(c) ==
  /\ pc[c] = "insert"
  /\ IF HasSession(args[c].thread)
     THEN Unchanged /\ Goto(c, "failed")
     ELSE Fetched(Insert(Session(args[c].thread, None, None))) /\ Goto(c, "save")
  /\ UNCHANGED <<args, cleaner, took>>

OpenInsert(c) ==
  /\ pc[c] = "insert"
  /\ IF HasSession(args[c].thread)
     THEN Unchanged /\ Goto(c, "failed")
     ELSE Fetched(Insert(Session(args[c].thread, args[c].vfs, None))) /\ Goto(c, "save")
  /\ UNCHANGED <<args, cleaner, took>>

\* The code ran; its state is saved if it succeeded.
SaveBytes(c) ==
  LET t == args[c].thread IN
  /\ pc[c] = "save"
  /\ \/ Unchanged /\ Goto(c, "touchAgain")
     \/ IF HasSession(t)
        THEN /\ Executed([db EXCEPT !.bytes =
                  (@ \ BytesOf(t)) \cup {[id |-> t, content |-> c]}])
             /\ Goto(c, "touchAgain")
        ELSE Unchanged /\ Goto(c, "failed")
  /\ UNCHANGED <<args, cleaner, took>>

Ran(c) ==
  /\ pc[c] = "touchAgain"
  /\ Executed(db)
  /\ Goto(c, "done")
  /\ UNCHANGED <<args, cleaner, took>>

Reset(c, t) ==
  /\ Begin(c, "reset", t, None, None, None)
  /\ Executed([db EXCEPT !.bytes = @ \ BytesOf(t)])
  /\ Goto(c, "done")
  /\ UNCHANGED <<cleaner, took>>
-----------------------------------------------------------------------------
(* VirtualFilesystem.write_file and delete_file. *)

EnsureSession(c, t, p) ==
  /\ Begin(c, "write", t, Workspace[t], p, None)
  /\ Executed(IF HasSession(t) THEN db ELSE Insert(Session(t, Workspace[t], None)))
  /\ Goto(c, "upsert")
  /\ UNCHANGED <<cleaner, took>>

\* Bug: ON CONFLICT (file_path), without the VFS.
UpsertAnyVfs(c) ==
  LET a == args[c]
      same == {f \in db.files : f.path = a.path} IN
  /\ pc[c] = "upsert"
  /\ IF same = {} /\ ~HasSession(a.thread)
     THEN Unchanged /\ Goto(c, "failed")
     ELSE /\ Fetched([db EXCEPT !.files = (@ \ same) \cup
               IF same # {}
               THEN {[f EXCEPT !.content = c] : f \in same}
               ELSE {[owner |-> a.thread, vfs |-> a.vfs, path |-> a.path, content |-> c]}])
          /\ Goto(c, "done")
  /\ UNCHANGED <<args, cleaner, took>>

\* An existing file keeps its owner, and no foreign key is checked for it.
Upsert(c) ==
  LET a == args[c]
      same == {f \in InVfs(a.vfs) : f.path = a.path} IN
  /\ pc[c] = "upsert"
  /\ IF same = {} /\ ~HasSession(a.thread)
     THEN Unchanged /\ Goto(c, "failed")
     ELSE /\ Fetched([db EXCEPT !.files = (@ \ same) \cup
               IF same # {}
               THEN {[f EXCEPT !.content = c] : f \in same}
               ELSE {[owner |-> a.thread, vfs |-> a.vfs, path |-> a.path, content |-> c]}])
          /\ Goto(c, "done")
  /\ UNCHANGED <<args, cleaner, took>>

Unlink(c, t, p) ==
  /\ Begin(c, "unlink", t, Workspace[t], p, None)
  /\ Executed([db EXCEPT !.files = {f \in @ : ~(f.vfs = Workspace[t] /\ f.path = p)}])
  /\ Goto(c, "done")
  /\ UNCHANGED <<cleaner, took>>
-----------------------------------------------------------------------------
(* SandboxManager.create_snapshot. *)

\* Nothing asks whether the session has expired.
SnapSelect(c, t) ==
  /\ \/ \E s \in db.sessions :
          /\ s.id = t
          /\ Begin(c, "snapshot", t, s.vfs, None, c)
          /\ Goto(c, "snapInsert")
     \/ /\ ~HasSession(t)
        /\ Begin(c, "snapshot", t, None, None, c)
        /\ Goto(c, "failed")
  /\ Unchanged
  /\ UNCHANGED <<cleaner, took>>

SnapInsert(c) ==
  /\ pc[c] = "snapInsert"
  /\ IF HasSession(args[c].thread)
     THEN Executed(Insert(Session(c, c, args[c].thread))) /\ Goto(c, "snapFiles")
     ELSE Unchanged /\ Goto(c, "failed")
  /\ UNCHANGED <<args, cleaner, took>>

SnapFiles(c) ==
  LET copies == Copies(args[c].vfs, c, c) IN
  /\ pc[c] = "snapFiles"
  /\ IF copies = {} \/ HasSession(c)
     THEN /\ Executed([db EXCEPT !.files = @ \cup copies])
          /\ Goto(c, "snapBytes")
          /\ took' = [took EXCEPT ![c] = FilesAt(db, args[c].vfs)]
     ELSE Unchanged /\ Goto(c, "failed") /\ UNCHANGED took
  /\ UNCHANGED <<args, cleaner>>

SnapBytes(c) ==
  LET t == args[c].thread
      copies == {[b EXCEPT !.id = c] : b \in BytesOf(t)} IN
  /\ pc[c] = "snapBytes"
  /\ IF copies = {} \/ HasSession(c)
     THEN /\ Executed([db EXCEPT !.bytes = @ \cup copies])
          /\ Goto(c, "done")
          /\ took' = [took EXCEPT ![c] = @ \cup MemoryAt(db, t)]
     ELSE Unchanged /\ Goto(c, "failed") /\ UNCHANGED took
  /\ UNCHANGED <<args, cleaner>>
-----------------------------------------------------------------------------
(* SandboxManager.restore_snapshot. *)

\* What restores of c's target, its VFS or its thread, have deleted, without rows.
PutBack(c, target, rows) ==
  took' = [x \in Calls |->
    IF x # c /\ args[x].op = "restore" /\ args[x][target] = args[c][target]
    THEN took[x] \ rows ELSE took[x]]

RestSelect(c, t, s) ==
  /\ pc[s] = "done" /\ args[s].op = "snapshot"
  /\ Begin(c, "restore", t, t, None, s)
  /\ Goto(c, IF HasSession(s) THEN "restTarget" ELSE "failed")
  /\ Unchanged
  /\ UNCHANGED <<cleaner, took>>

RestTarget(c) ==
  LET t == args[c].thread IN
  /\ pc[c] = "restTarget"
  /\ \/ \E s \in db.sessions :
          /\ s.id = t
          /\ args' = [args EXCEPT ![c].vfs = s.vfs]
          /\ Goto(c, "wipeFiles")
     \/ /\ ~HasSession(t)
        /\ Goto(c, "restInsert")
        /\ UNCHANGED args
  /\ Unchanged
  /\ UNCHANGED <<cleaner, took>>

RestInsert(c) ==
  LET t == args[c].thread IN
  /\ pc[c] = "restInsert"
  /\ IF HasSession(t)
     THEN Unchanged /\ Goto(c, "failed")
     ELSE Executed(Insert(Session(t, t, None))) /\ Goto(c, "wipeFiles")
  /\ UNCHANGED <<args, cleaner, took>>

\* Bug: the files the thread owns, not those of the VFS.
WipeFilesOwned(c) ==
  /\ pc[c] = "wipeFiles"
  /\ Executed([db EXCEPT !.files = {f \in @ : f.owner # args[c].thread}])
  /\ Goto(c, "wipeBytes")
  /\ took' = [took EXCEPT ![c] = FilesAt(db, args[c].vfs)]
  /\ UNCHANGED <<args, cleaner>>

WipeFiles(c) ==
  /\ pc[c] = "wipeFiles"
  /\ Executed([db EXCEPT !.files = @ \ InVfs(args[c].vfs)])
  /\ Goto(c, "wipeBytes")
  /\ took' = [took EXCEPT ![c] = FilesAt(db, args[c].vfs)]
  /\ UNCHANGED <<args, cleaner>>

WipeBytes(c) ==
  LET t == args[c].thread IN
  /\ pc[c] = "wipeBytes"
  /\ Executed([db EXCEPT !.bytes = @ \ BytesOf(t)])
  /\ Goto(c, "restFiles")
  /\ took' = [took EXCEPT ![c] = @ \cup MemoryAt(db, t)]
  /\ UNCHANGED <<args, cleaner>>

\* Bug: the rows of the snapshot are moved.
RestFilesMoved(c) ==
  LET a == args[c]
      copies == Copies(a.snap, a.thread, a.vfs) IN
  /\ pc[c] = "restFiles"
  /\ IF copies = {} \/ (HasSession(a.thread) /\ ~Clash(copies))
     THEN /\ Executed([db EXCEPT !.files = (@ \ InVfs(a.snap)) \cup copies])
          /\ Goto(c, "restBytes")
          /\ PutBack(c, "vfs", FilesAt(db, a.snap))
     ELSE Unchanged /\ Goto(c, "failed") /\ UNCHANGED took
  /\ UNCHANGED <<args, cleaner>>

\* A file that was written since the deletion makes the statement fail.
RestFiles(c) ==
  LET a == args[c]
      copies == Copies(a.snap, a.thread, a.vfs) IN
  /\ pc[c] = "restFiles"
  /\ IF copies = {} \/ (HasSession(a.thread) /\ ~Clash(copies))
     THEN /\ Executed([db EXCEPT !.files = @ \cup copies])
          /\ Goto(c, "restBytes")
          /\ PutBack(c, "vfs", FilesAt(db, a.snap))
     ELSE Unchanged /\ Goto(c, "failed") /\ UNCHANGED took
  /\ UNCHANGED <<args, cleaner>>

RestBytes(c) ==
  LET t == args[c].thread
      copies == {[b EXCEPT !.id = t] : b \in BytesOf(args[c].snap)} IN
  /\ pc[c] = "restBytes"
  /\ IF copies = {} \/ (HasSession(t) /\ BytesOf(t) = {})
     THEN /\ Executed([db EXCEPT !.bytes = @ \cup copies])
          /\ Goto(c, "done")
          /\ PutBack(c, "thread", MemoryAt(db, args[c].snap))
     ELSE Unchanged /\ Goto(c, "failed") /\ UNCHANGED took
  /\ UNCHANGED <<args, cleaner>>
-----------------------------------------------------------------------------
(* CleanupJob.run_once, over and over. *)

Expired == {s.id : s \in {x \in db.sessions : x.expired}}
Orphans == {f \in db.files : \A s \in db.sessions : s.vfs # f.vfs}

besideCleaner == <<pc, args, restarts, took>>

CleanLook ==
  /\ cpc = "sleep"
  /\ cpc' = IF Expired = {} THEN "orphans" ELSE "list"
  /\ Unchanged
  /\ UNCHANGED <<besideCleaner, victims>>

\* Bug: sessions that have snapshots are left.
CleanListChildless ==
  /\ cpc = "list"
  /\ victims' = Expired \ {s.parent : s \in db.sessions}
  /\ cpc' = IF victims' = {} THEN "orphans" ELSE "delete"
  /\ Unchanged
  /\ UNCHANGED besideCleaner

\* SandboxManager.cleanup_expired_sessions reads the list once more.
CleanList ==
  /\ cpc = "list"
  /\ victims' = Expired
  /\ cpc' = IF victims' = {} THEN "orphans" ELSE "delete"
  /\ Unchanged
  /\ UNCHANGED besideCleaner

\* By the ids read before, whatever has become of the sessions.
CleanDelete ==
  /\ cpc = "delete"
  /\ Executed(Without(victims))
  /\ victims' = {}
  /\ cpc' = "orphans"
  /\ UNCHANGED besideCleaner

CleanOrphans ==
  /\ cpc = "orphans"
  /\ cpc' = IF Orphans = {} THEN "sleep" ELSE "sweep"
  /\ Unchanged
  /\ UNCHANGED <<besideCleaner, victims>>

\* Bug: only sessions that have not expired count.
CleanSweepExpired ==
  /\ cpc = "sweep"
  /\ Executed([db EXCEPT !.files =
       {f \in @ : \E s \in db.sessions : s.vfs = f.vfs /\ ~s.expired}])
  /\ cpc' = "sleep"
  /\ UNCHANGED <<besideCleaner, victims>>

\* The condition is evaluated anew.
CleanSweep ==
  /\ cpc = "sweep"
  /\ Executed([db EXCEPT !.files = @ \ Orphans])
  /\ cpc' = "sleep"
  /\ UNCHANGED <<besideCleaner, victims>>
-----------------------------------------------------------------------------
(* Time and the application. *)

\* expires_at is past: a stored value, the same in both copies.
Aged(d, id) ==
  [d EXCEPT !.sessions = {IF s.id = id THEN [s EXCEPT !.expired = TRUE] ELSE s : s \in @}]

Expire(id) ==
  /\ \E s \in db.sessions : s.id = id /\ ~s.expired
  /\ db' = Aged(db, id) /\ disk' = Aged(disk, id)
  /\ UNCHANGED <<pc, args, cleaner, took>>

Over == {"done", "failed", "crashed"}

\* The process ends and starts again; close() does not commit either.
Restart ==
  /\ restarts < MaxRestarts
  /\ restarts' = restarts + 1
  /\ db' = disk
  /\ pc' = [c \in Calls |-> IF pc[c] \in Over \cup {"idle"} THEN pc[c] ELSE "crashed"]
  /\ cpc' = "sleep" /\ victims' = {}
  /\ UNCHANGED <<disk, args, took>>
-----------------------------------------------------------------------------
First(c) ==
  \E t \in Threads :
    \/ Create(c, t) \/ OpenSelect(c, t) \/ Reset(c, t) \/ SnapSelect(c, t)
    \/ \E p \in Paths : EnsureSession(c, t, p) \/ Unlink(c, t, p)
    \/ \E s \in Calls : RestSelect(c, t, s)

Later(c) ==
  \/ OpenTouch(c) \/ OpenInsert(c) \/ SaveBytes(c) \/ Ran(c)
  \/ Upsert(c)
  \/ SnapInsert(c) \/ SnapFiles(c) \/ SnapBytes(c)
  \/ RestTarget(c) \/ RestInsert(c) \/ WipeFiles(c) \/ WipeBytes(c)
  \/ RestFiles(c) \/ RestBytes(c)

Clean == CleanLook \/ CleanList \/ CleanDelete \/ CleanOrphans \/ CleanSweep

Next ==
  \/ \E c \in Calls : First(c) \/ Later(c)
  \/ Clean
  \/ \E id \in Mortal : Expire(id)
  \/ Restart

Spec == Init /\ [][Next]_vars

\* An application that starts a CleanupJob whenever it starts itself, and does not stop
\* it: nothing in the package starts one.  Calls may stop anywhere.
JobSpec == Spec /\ WF_vars(Clean)
-----------------------------------------------------------------------------
(* Properties. *)

SessionRows == [id : SessionIds, vfs : VfsIds, parent : Threads \cup {None},
                expired : BOOLEAN]
FileRows == [owner : SessionIds, vfs : VfsIds, path : Paths, content : Calls]
ByteRows == [id : SessionIds, content : Calls]
ArgRows == [op : Ops \cup {None}, thread : Threads \cup {None},
            vfs : VfsIds \cup {None}, path : Paths \cup {None},
            snap : Calls \cup {None}]
Tables == [sessions : SUBSET SessionRows, files : SUBSET FileRows,
           bytes : SUBSET ByteRows]

Labels == {"idle", "touch", "insert", "save", "touchAgain", "upsert", "snapInsert",
           "snapFiles", "snapBytes", "restTarget", "restInsert", "wipeFiles",
           "wipeBytes", "restFiles", "restBytes"} \cup Over

\* The tables keep their types, whatever is copied between them (manager.py).
TypeOK ==
  /\ db \in Tables /\ disk \in Tables
  /\ pc \in [Calls -> Labels]
  /\ args \in [Calls -> ArgRows]
  /\ cpc \in {"sleep", "list", "delete", "orphans", "sweep"}
  /\ victims \subseteq SessionIds
  /\ restarts \in 0..MaxRestarts
  /\ took \in [Calls -> SUBSET ((Paths \cup {Memory}) \X Calls)]

\* Snapshot s holds this path with this content.
Holds(s, path, content) == args[s].op = "snapshot" /\ <<path, content>> \in took[s]

\* Every file of a VFS was written there by a call with that vfs_id, or is in a
\* snapshot that was restored there, or the VFS is a snapshot that copied it:
\* whatever is copied, restored and cleaned up in between, nothing of a workspace
\* gets into another one by itself (write_file, create_snapshot, restore_snapshot).
Provenance ==
  \A f \in db.files :
    \/ args[f.content].vfs = f.vfs
    \/ f.vfs \in Calls /\ Holds(f.vfs, f.path, f.content)
    \/ \E r \in Calls :
         /\ args[r].op = "restore" /\ args[r].vfs = f.vfs
         /\ Holds(args[r].snap, f.path, f.content)

\* A finished snapshot keeps what it copied, files and memory, until its session
\* goes: writes, restores, sweeps and restarts leave it alone.
SnapshotFixed ==
  \A c \in Calls :
    pc[c] = "done" /\ args[c].op = "snapshot" /\ HasSession(c)
      => FilesAt(db, c) \cup MemoryAt(db, c) = took[c]

\* restore_snapshot leaves nothing in the target of what it meant to replace, and
\* all that the snapshot has, though its statements are no transaction: what was
\* written or restored by another call meanwhile stays, or makes it fail.
RestoreExact ==
  [][\A c \in Calls :
       LET a == args[c] IN
       /\ pc[c] = "restFiles" /\ pc'[c] = "restBytes" =>
            /\ FilesAt(db, a.snap) \subseteq FilesAt(db', a.vfs)
            /\ FilesAt(db', a.vfs) \cap took[c] \subseteq FilesAt(db, a.snap)
       /\ pc[c] = "restBytes" /\ pc'[c] = "done" =>
            /\ MemoryAt(db, a.snap) \subseteq MemoryAt(db', a.thread)
            /\ MemoryAt(db', a.thread) \cap took[c] \subseteq MemoryAt(db, a.snap)]_vars

\* The cleanup deletes no session but those that have expired and their snapshots:
\* though it deletes by ids read before, a live session never has such an id.
CleanupSparesLive ==
  [][Clean => \A s \in db.sessions \ db'.sessions :
       s.expired \/ \E x \in db.sessions : x.id = s.parent /\ x.expired]_vars

\* A thread that shares its VFS with nobody loses a file to the cleanup only
\* together with its session (the cascade and the sweep of cleanup.py agree).
OwnFilesStay ==
  [][Clean => \A f \in db.files \ db'.files :
       f.owner \in Threads /\ f.vfs = f.owner /\ Workspace[f.owner] = f.owner
         => \A s \in db'.sessions : s.id # f.owner]_vars

\* Where the application starts the job (JobSpec), an expired session is cleaned up,
\* however often the application restarts: run_once may stop early and reads its list
\* twice.
ExpiredSessionsGo == \A id \in Mortal : id \in Expired ~> id \notin Expired
=============================================================================
