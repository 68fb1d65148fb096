------------------------ MODULE SessionStore_proofs ------------------------
(***************************************************************************)
(* Type correctness of the session store; that the cleanup job deletes no  *)
(* session that is alive, and no file of a thread's own workspace without  *)
(* its session; where the stored files come from; that a snapshot keeps    *)
(* what it copied, and that a restore puts exactly that in the target.     *)
(***************************************************************************)
EXTENDS SessionStore, TLAPS

USE StoreAssumption

(***************************************************************************)
(* The tables that the statements build.                                   *)
(***************************************************************************)
LEMMA SessionsTyped ==
  ASSUME TypeOK, NEW S \in SUBSET SessionRows
  PROVE  [db EXCEPT !.sessions = S] \in Tables
BY DEF TypeOK, Tables

LEMMA FilesTyped ==
  ASSUME TypeOK, NEW F \in SUBSET FileRows
  PROVE  [db EXCEPT !.files = F] \in Tables
BY DEF TypeOK, Tables

LEMMA BytesTyped ==
  ASSUME TypeOK, NEW B \in SUBSET ByteRows
  PROVE  [db EXCEPT !.bytes = B] \in Tables
BY DEF TypeOK, Tables

LEMMA Parts ==
  ASSUME TypeOK
  PROVE  /\ db.sessions \in SUBSET SessionRows
         /\ db.files \in SUBSET FileRows
         /\ db.bytes \in SUBSET ByteRows
BY DEF TypeOK, Tables

LEMMA InsertTyped ==
  ASSUME TypeOK, NEW id \in SessionIds, NEW vfs \in VfsIds,
         NEW parent \in Threads \cup {None}
  PROVE  Insert(Session(id, vfs, parent)) \in Tables
<1>1. Session(id, vfs, parent) \in SessionRows
  BY DEF Session, SessionRows
<1>2. db.sessions \cup {Session(id, vfs, parent)} \in SUBSET SessionRows
  BY <1>1, Parts
<1> QED
  BY <1>2 DEF Insert, TypeOK, Tables

LEMMA CopiesTyped ==
  ASSUME TypeOK, NEW from, NEW owner \in SessionIds, NEW vfs \in VfsIds
  PROVE  Copies(from, owner, vfs) \in SUBSET FileRows
<1> SUFFICES ASSUME NEW f \in db.files
             PROVE  [f EXCEPT !.owner = owner, !.vfs = vfs] \in FileRows
  BY DEF Copies, InVfs
<1> QED
  BY Parts DEF FileRows

LEMMA ByteCopiesTyped ==
  ASSUME TypeOK, NEW from, NEW id \in SessionIds
  PROVE  {[b EXCEPT !.id = id] : b \in BytesOf(from)} \in SUBSET ByteRows
<1> SUFFICES ASSUME NEW b \in db.bytes PROVE [b EXCEPT !.id = id] \in ByteRows
  BY DEF BytesOf
<1> QED
  BY Parts DEF ByteRows

LEMMA WithoutTyped ==
  ASSUME TypeOK, NEW ids
  PROVE  Without(ids) \in Tables
BY Parts DEF Without, Tables

LEMMA AgedTyped ==
  ASSUME NEW d \in Tables, NEW id
  PROVE  Aged(d, id) \in Tables
<1> DEFINE S == {IF s.id = id THEN [s EXCEPT !.expired = TRUE] ELSE s : s \in d.sessions}
<1>1. \A s \in SessionRows : [s EXCEPT !.expired = TRUE] \in SessionRows
  BY DEF SessionRows
<1>2. d.sessions \subseteq SessionRows
  BY DEF Tables
<1>3. S \in SUBSET SessionRows
  BY <1>1, <1>2
<1> QED
  BY <1>3 DEF Aged, Tables

LEMMA ExecutedTyped ==
  ASSUME NEW d \in Tables, Executed(d)
  PROVE  db' \in Tables /\ disk' \in Tables
BY DEF Executed

LEMMA FetchedTyped ==
  ASSUME TypeOK, NEW d \in Tables, Fetched(d)
  PROVE  db' \in Tables /\ disk' \in Tables
BY DEF Fetched, TypeOK

LEMMA GotoTyped ==
  ASSUME TypeOK, NEW c \in Calls, NEW label \in Labels, Goto(c, label)
  PROVE  pc' \in [Calls -> Labels]
BY DEF Goto, TypeOK

LEMMA BeginTyped ==
  ASSUME TypeOK, NEW c \in Calls, NEW op \in Ops, NEW t \in Threads,
         NEW vfs \in VfsIds \cup {None}, NEW path \in Paths \cup {None},
         NEW snap \in Calls \cup {None}, Begin(c, op, t, vfs, path, snap)
  PROVE  args' \in [Calls -> ArgRows]
BY DEF Begin, TypeOK, ArgRows

LEMMA Ids ==
  /\ \A t \in Threads : t \in SessionIds /\ t \in VfsIds /\ Workspace[t] \in VfsIds
  /\ \A c \in Calls : c \in SessionIds /\ c \in VfsIds
BY DEF SessionIds, VfsIds

LEMMA TookTyped ==
  ASSUME TypeOK, NEW v, NEW id
  PROVE  /\ FilesAt(db, v) \in SUBSET ((Paths \cup {Memory}) \X Calls)
         /\ MemoryAt(db, id) \in SUBSET ((Paths \cup {Memory}) \X Calls)
BY Parts DEF FilesAt, MemoryAt, FileRows, ByteRows

LEMMA PutBackTyped ==
  ASSUME TypeOK, NEW c \in Calls, NEW target, NEW rows, PutBack(c, target, rows)
  PROVE  took' \in [Calls -> SUBSET ((Paths \cup {Memory}) \X Calls)]
BY DEF PutBack, TypeOK

(***************************************************************************)
(* Every step keeps the types.                                             *)
(***************************************************************************)
Active(c) == pc[c] \notin Over \cup {"idle"}

\* What the later statements of a call rely on.
ArgsInv ==
  \A c \in Calls : Active(c) =>
    /\ args[c].thread \in Threads /\ args[c].vfs \in VfsIds
    /\ pc[c] = "upsert" => args[c].path \in Paths

LEMMA SessionCallsTyped ==
  ASSUME TypeOK, ArgsInv, NEW c \in Calls, NEW t \in Threads,
         \/ Create(c, t) \/ OpenSelect(c, t) \/ OpenTouch(c) \/ OpenInsert(c)
         \/ SaveBytes(c) \/ Ran(c) \/ Reset(c, t)
  PROVE  TypeOK'
<1>0. db \in Tables
  BY DEF TypeOK
<1>1. CASE Create(c, t)
  <2>1. Insert(Session(t, Workspace[t], None)) \in Tables
    BY Ids, InsertTyped
  <2>2. db' \in Tables /\ disk' \in Tables
    BY <1>1, <2>1, FetchedTyped DEF Create, Unchanged, TypeOK
  <2>3. pc' \in [Calls -> Labels]
    BY <1>1, GotoTyped DEF Create, Labels, Over
  <2>4. args' \in [Calls -> ArgRows]
    BY <1>1, Ids, BeginTyped DEF Create, Ops
  <2> QED
    BY <1>1, <2>2, <2>3, <2>4 DEF Create, cleaner, TypeOK
<1>2. CASE OpenSelect(c, t)
  <2>1. pc' \in [Calls -> Labels]
    BY <1>2, GotoTyped DEF OpenSelect, Labels, Over
  <2>2. args' \in [Calls -> ArgRows]
    BY <1>2, Ids, BeginTyped DEF OpenSelect, Ops
  <2> QED
    BY <1>2, <2>1, <2>2 DEF OpenSelect, Unchanged, cleaner, TypeOK
<1>3. CASE OpenTouch(c)
  <2>1. pc' \in [Calls -> Labels]
    BY <1>3, GotoTyped DEF OpenTouch, Labels
  <2> QED
    BY <1>0, <1>3, <2>1, ExecutedTyped DEF OpenTouch, cleaner, TypeOK
<1>4. CASE OpenInsert(c)
  <2>1. args[c].thread \in Threads /\ args[c].vfs \in VfsIds
    BY <1>4 DEF OpenInsert, ArgsInv, Active, Over
  <2>2. Insert(Session(args[c].thread, args[c].vfs, None)) \in Tables
    BY <2>1, Ids, InsertTyped
  <2>3. db' \in Tables /\ disk' \in Tables
    BY <1>4, <2>2, FetchedTyped DEF OpenInsert, Unchanged, TypeOK
  <2>4. pc' \in [Calls -> Labels]
    BY <1>4, GotoTyped DEF OpenInsert, Labels, Over
  <2> QED
    BY <1>4, <2>3, <2>4 DEF OpenInsert, cleaner, TypeOK
<1>5. CASE SaveBytes(c)
  <2> DEFINE row == [id |-> args[c].thread, content |-> c]
             B == (db.bytes \ BytesOf(args[c].thread)) \cup {row}
  <2>1. args[c].thread \in Threads
    BY <1>5 DEF SaveBytes, ArgsInv, Active, Over
  <2>2. row \in ByteRows
    BY <2>1, Ids DEF ByteRows
  <2>3. [db EXCEPT !.bytes = B] \in Tables
    BY <2>2, BytesTyped, Parts
  <2>4. db' \in Tables /\ disk' \in Tables
    BY <1>5, <2>3, ExecutedTyped DEF SaveBytes, Unchanged, TypeOK
  <2>5. pc' \in [Calls -> Labels]
    BY <1>5, GotoTyped DEF SaveBytes, Labels, Over
  <2> QED
    BY <1>5, <2>4, <2>5 DEF SaveBytes, cleaner, TypeOK
<1>6. CASE Ran(c)
  <2>1. pc' \in [Calls -> Labels]
    BY <1>6, GotoTyped DEF Ran, Labels, Over
  <2> QED
    BY <1>0, <1>6, <2>1, ExecutedTyped DEF Ran, cleaner, TypeOK
<1>7. CASE Reset(c, t)
  <2>1. [db EXCEPT !.bytes = @ \ BytesOf(t)] \in Tables
    BY BytesTyped, Parts
  <2>2. pc' \in [Calls -> Labels]
    BY <1>7, GotoTyped DEF Reset, Labels, Over
  <2>3. args' \in [Calls -> ArgRows]
    BY <1>7, BeginTyped DEF Reset, Ops
  <2> QED
    BY <1>7, <2>1, <2>2, <2>3, ExecutedTyped DEF Reset, cleaner, TypeOK
<1> QED
  BY <1>1, <1>2, <1>3, <1>4, <1>5, <1>6, <1>7

LEMMA FileCallsTyped ==
  ASSUME TypeOK, ArgsInv, NEW c \in Calls, NEW t \in Threads, NEW p \in Paths,
         EnsureSession(c, t, p) \/ Upsert(c) \/ Unlink(c, t, p)
  PROVE  TypeOK'
<1>1. CASE EnsureSession(c, t, p)
  <2>1. db \in Tables /\ Insert(Session(t, Workspace[t], None)) \in Tables
    BY Ids, InsertTyped DEF TypeOK
  <2>2. db' \in Tables /\ disk' \in Tables
    BY <1>1, <2>1, ExecutedTyped DEF EnsureSession
  <2>3. pc' \in [Calls -> Labels]
    BY <1>1, GotoTyped DEF EnsureSession, Labels
  <2>4. args' \in [Calls -> ArgRows]
    BY <1>1, Ids, BeginTyped DEF EnsureSession, Ops
  <2> QED
    BY <1>1, <2>2, <2>3, <2>4 DEF EnsureSession, cleaner, TypeOK
<1>2. CASE Upsert(c)
  <2> DEFINE a == args[c]
             same == {f \in InVfs(a.vfs) : f.path = a.path}
             row == [owner |-> a.thread, vfs |-> a.vfs, path |-> a.path, content |-> c]
             new == IF same # {} THEN {[f EXCEPT !.content = c] : f \in same} ELSE {row}
  <2>1. a.thread \in Threads /\ a.vfs \in VfsIds /\ a.path \in Paths
    BY <1>2 DEF Upsert, ArgsInv, Active, Over
  <2>2. row \in FileRows
    BY <2>1, Ids DEF FileRows
  <2>3. {[f EXCEPT !.content = c] : f \in same} \in SUBSET FileRows
    <3> SUFFICES ASSUME NEW f \in same PROVE [f EXCEPT !.content = c] \in FileRows
      OBVIOUS
    <3> QED
      BY Parts DEF InVfs, FileRows
  <2>4. (db.files \ same) \cup new \in SUBSET FileRows
    BY <2>2, <2>3, Parts
  <2>5. [db EXCEPT !.files = (@ \ same) \cup new] \in Tables
    BY <2>4, FilesTyped
  <2>6. \/ Unchanged
        \/ Fetched([db EXCEPT !.files = (@ \ same) \cup new])
    BY <1>2 DEF Upsert
  <2>7. db' \in Tables /\ disk' \in Tables
    BY <2>5, <2>6, FetchedTyped DEF Unchanged, TypeOK
  <2>8. pc' \in [Calls -> Labels]
    BY <1>2, GotoTyped DEF Upsert, Labels, Over
  <2> QED
    BY <1>2, <2>7, <2>8 DEF Upsert, cleaner, TypeOK
<1>3. CASE Unlink(c, t, p)
  <2>1. {f \in db.files : ~(f.vfs = Workspace[t] /\ f.path = p)} \in SUBSET FileRows
    BY Parts
  <2>2. [db EXCEPT !.files = {f \in @ : ~(f.vfs = Workspace[t] /\ f.path = p)}] \in Tables
    BY <2>1, FilesTyped
  <2>3. db' \in Tables /\ disk' \in Tables
    BY <1>3, <2>2, ExecutedTyped DEF Unlink
  <2>4. pc' \in [Calls -> Labels]
    BY <1>3, GotoTyped DEF Unlink, Labels, Over
  <2>5. args' \in [Calls -> ArgRows]
    BY <1>3, Ids, BeginTyped DEF Unlink, Ops
  <2> QED
    BY <1>3, <2>3, <2>4, <2>5 DEF Unlink, cleaner, TypeOK
<1> QED
  BY <1>1, <1>2, <1>3

LEMMA SnapshotTyped ==
  ASSUME TypeOK, ArgsInv, NEW c \in Calls, NEW t \in Threads,
         SnapSelect(c, t) \/ SnapInsert(c) \/ SnapFiles(c) \/ SnapBytes(c)
  PROVE  TypeOK'
<1>1. CASE SnapSelect(c, t)
  <2>1. pc' \in [Calls -> Labels]
    BY <1>1, GotoTyped DEF SnapSelect, Labels, Over
  <2>2. args' \in [Calls -> ArgRows]
    <3>1. ASSUME NEW s \in db.sessions, Begin(c, "snapshot", t, s.vfs, None, c)
          PROVE  args' \in [Calls -> ArgRows]
      BY <3>1, Parts, BeginTyped DEF SessionRows, Ops
    <3>2. ASSUME Begin(c, "snapshot", t, None, None, c)
          PROVE  args' \in [Calls -> ArgRows]
      BY <3>2, BeginTyped DEF Ops
    <3> QED
      BY <1>1, <3>1, <3>2 DEF SnapSelect
  <2> QED
    BY <1>1, <2>1, <2>2 DEF SnapSelect, Unchanged, cleaner, TypeOK
<1>2. CASE SnapInsert(c)
  <2>1. args[c].thread \in Threads
    BY <1>2 DEF SnapInsert, ArgsInv, Active, Over
  <2>2. Insert(Session(c, c, args[c].thread)) \in Tables
    BY <2>1, Ids, InsertTyped
  <2>3. db' \in Tables /\ disk' \in Tables
    BY <1>2, <2>2, ExecutedTyped DEF SnapInsert, Unchanged, TypeOK
  <2>4. pc' \in [Calls -> Labels]
    BY <1>2, GotoTyped DEF SnapInsert, Labels, Over
  <2> QED
    BY <1>2, <2>3, <2>4 DEF SnapInsert, cleaner, TypeOK
<1>3. CASE SnapFiles(c)
  <2> DEFINE F == db.files \cup Copies(args[c].vfs, c, c)
  <2>1. F \in SUBSET FileRows
    BY Ids, CopiesTyped, Parts
  <2>2. [db EXCEPT !.files = F] \in Tables
    BY <2>1, FilesTyped
  <2>3. db' \in Tables /\ disk' \in Tables
    BY <1>3, <2>2, ExecutedTyped DEF SnapFiles, Unchanged, TypeOK
  <2>4. pc' \in [Calls -> Labels]
    BY <1>3, GotoTyped DEF SnapFiles, Labels, Over
  <2>5. took' \in [Calls -> SUBSET ((Paths \cup {Memory}) \X Calls)]
    BY <1>3, TookTyped DEF SnapFiles, TypeOK
  <2> QED
    BY <1>3, <2>3, <2>4, <2>5 DEF SnapFiles, cleaner, TypeOK
<1>4. CASE SnapBytes(c)
  <2> DEFINE B == db.bytes \cup {[b EXCEPT !.id = c] : b \in BytesOf(args[c].thread)}
  <2>1. B \in SUBSET ByteRows
    BY Ids, ByteCopiesTyped, Parts
  <2>2. [db EXCEPT !.bytes = B] \in Tables
    BY <2>1, BytesTyped
  <2>3. db' \in Tables /\ disk' \in Tables
    BY <1>4, <2>2, ExecutedTyped DEF SnapBytes, Unchanged, TypeOK
  <2>4. pc' \in [Calls -> Labels]
    BY <1>4, GotoTyped DEF SnapBytes, Labels, Over
  <2>5. took' \in [Calls -> SUBSET ((Paths \cup {Memory}) \X Calls)]
    BY <1>4, TookTyped DEF SnapBytes, TypeOK
  <2> QED
    BY <1>4, <2>3, <2>4, <2>5 DEF SnapBytes, cleaner, TypeOK
<1> QED
  BY <1>1, <1>2, <1>3, <1>4

LEMMA RestoreTyped ==
  ASSUME TypeOK, ArgsInv, NEW c \in Calls, NEW t \in Threads, NEW s \in Calls,
         \/ RestSelect(c, t, s) \/ RestTarget(c) \/ RestInsert(c) \/ WipeFiles(c)
         \/ WipeBytes(c) \/ RestFiles(c) \/ RestBytes(c)
  PROVE  TypeOK'
<1> DEFINE a == args[c]
<1>0. pc[c] \in {"restTarget", "restInsert", "wipeFiles", "wipeBytes", "restFiles", "restBytes"}
        => a.thread \in Threads /\ a.vfs \in VfsIds
  BY DEF ArgsInv, Active, Over
<1>1. CASE RestSelect(c, t, s)
  <2>1. pc' \in [Calls -> Labels]
    BY <1>1, GotoTyped DEF RestSelect, Labels, Over
  <2>2. args' \in [Calls -> ArgRows]
    BY <1>1, Ids, BeginTyped DEF RestSelect, Ops
  <2> QED
    BY <1>1, <2>1, <2>2 DEF RestSelect, Unchanged, cleaner, TypeOK
<1>2. CASE RestTarget(c)
  <2>1. pc' \in [Calls -> Labels]
    BY <1>2, GotoTyped DEF RestTarget, Labels
  <2>2. args' \in [Calls -> ArgRows]
    <3>1. ASSUME NEW x \in db.sessions, args' = [args EXCEPT ![c].vfs = x.vfs]
          PROVE  args' \in [Calls -> ArgRows]
      BY <3>1, Parts DEF SessionRows, ArgRows, TypeOK
    <3> QED
      BY <1>2, <3>1 DEF RestTarget, TypeOK
  <2> QED
    BY <1>2, <2>1, <2>2 DEF RestTarget, Unchanged, cleaner, TypeOK
<1>3. CASE RestInsert(c)
  <2>1. a.thread \in Threads
    BY <1>0, <1>3 DEF RestInsert
  <2>2. Insert(Session(a.thread, a.thread, None)) \in Tables
    BY <2>1, Ids, InsertTyped
  <2>3. db' \in Tables /\ disk' \in Tables
    BY <1>3, <2>2, ExecutedTyped DEF RestInsert, Unchanged, TypeOK
  <2>4. pc' \in [Calls -> Labels]
    BY <1>3, GotoTyped DEF RestInsert, Labels, Over
  <2> QED
    BY <1>3, <2>3, <2>4 DEF RestInsert, cleaner, TypeOK
<1>4. CASE WipeFiles(c)
  <2>1. [db EXCEPT !.files = @ \ InVfs(a.vfs)] \in Tables
    BY Parts, FilesTyped
  <2>2. db' \in Tables /\ disk' \in Tables
    BY <1>4, <2>1, ExecutedTyped DEF WipeFiles
  <2>3. pc' \in [Calls -> Labels]
    BY <1>4, GotoTyped DEF WipeFiles, Labels
  <2>4. took' \in [Calls -> SUBSET ((Paths \cup {Memory}) \X Calls)]
    BY <1>4, TookTyped DEF WipeFiles, TypeOK
  <2> QED
    BY <1>4, <2>2, <2>3, <2>4 DEF WipeFiles, cleaner, TypeOK
<1>5. CASE WipeBytes(c)
  <2>1. [db EXCEPT !.bytes = @ \ BytesOf(a.thread)] \in Tables
    BY Parts, BytesTyped
  <2>2. db' \in Tables /\ disk' \in Tables
    BY <1>5, <2>1, ExecutedTyped DEF WipeBytes
  <2>3. pc' \in [Calls -> Labels]
    BY <1>5, GotoTyped DEF WipeBytes, Labels
  <2>4. took' \in [Calls -> SUBSET ((Paths \cup {Memory}) \X Calls)]
    BY <1>5, TookTyped DEF WipeBytes, TypeOK
  <2> QED
    BY <1>5, <2>2, <2>3, <2>4 DEF WipeBytes, cleaner, TypeOK
<1>6. CASE RestFiles(c)
  <2> DEFINE F == db.files \cup Copies(a.snap, a.thread, a.vfs)
  <2>1. a.thread \in SessionIds /\ a.vfs \in VfsIds
    BY <1>0, <1>6, Ids DEF RestFiles
  <2>2. F \in SUBSET FileRows
    BY <2>1, CopiesTyped, Parts
  <2>3. [db EXCEPT !.files = F] \in Tables
    BY <2>2, FilesTyped
  <2>4. db' \in Tables /\ disk' \in Tables
    BY <1>6, <2>3, ExecutedTyped DEF RestFiles, Unchanged, TypeOK
  <2>5. pc' \in [Calls -> Labels]
    BY <1>6, GotoTyped DEF RestFiles, Labels, Over
  <2>6. took' \in [Calls -> SUBSET ((Paths \cup {Memory}) \X Calls)]
    BY <1>6, PutBackTyped DEF RestFiles, TypeOK
  <2> QED
    BY <1>6, <2>4, <2>5, <2>6 DEF RestFiles, cleaner, TypeOK
<1>7. CASE RestBytes(c)
  <2> DEFINE B == db.bytes \cup {[b EXCEPT !.id = a.thread] : b \in BytesOf(a.snap)}
  <2>1. a.thread \in SessionIds
    BY <1>0, <1>7, Ids DEF RestBytes
  <2>2. B \in SUBSET ByteRows
    BY <2>1, ByteCopiesTyped, Parts
  <2>3. [db EXCEPT !.bytes = B] \in Tables
    BY <2>2, BytesTyped
  <2>4. db' \in Tables /\ disk' \in Tables
    BY <1>7, <2>3, ExecutedTyped DEF RestBytes, Unchanged, TypeOK
  <2>5. pc' \in [Calls -> Labels]
    BY <1>7, GotoTyped DEF RestBytes, Labels, Over
  <2>6. took' \in [Calls -> SUBSET ((Paths \cup {Memory}) \X Calls)]
    BY <1>7, PutBackTyped DEF RestBytes, TypeOK
  <2> QED
    BY <1>7, <2>4, <2>5, <2>6 DEF RestBytes, cleaner, TypeOK
<1> QED
  BY <1>1, <1>2, <1>3, <1>4, <1>5, <1>6, <1>7

LEMMA CleanTyped ==
  ASSUME TypeOK, Clean
  PROVE  TypeOK'
<1>1. db' \in Tables /\ disk' \in Tables
  <2>1. db \in Tables /\ Without(victims) \in Tables
    BY WithoutTyped DEF TypeOK
  <2>2. [db EXCEPT !.files = @ \ Orphans] \in Tables
    BY Parts, FilesTyped
  <2> QED
    BY <2>1, <2>2, ExecutedTyped
    DEF Clean, CleanLook, CleanList, CleanDelete, CleanOrphans, CleanSweep, Unchanged, TypeOK
<1>2. victims' \subseteq SessionIds
  <2>1. Expired \subseteq SessionIds
    BY Parts DEF Expired, SessionRows
  <2> QED
    BY <2>1 DEF Clean, CleanLook, CleanList, CleanDelete, CleanOrphans, CleanSweep, TypeOK
<1>3. cpc' \in {"sleep", "list", "delete", "orphans", "sweep"}
  BY DEF Clean, CleanLook, CleanList, CleanDelete, CleanOrphans, CleanSweep
<1>4. UNCHANGED besideCleaner
  BY DEF Clean, CleanLook, CleanList, CleanDelete, CleanOrphans, CleanSweep
<1> QED
  BY <1>1, <1>2, <1>3, <1>4 DEF besideCleaner, TypeOK

LEMMA ExpireTyped ==
  ASSUME TypeOK, NEW id, Expire(id)
  PROVE  TypeOK'
BY AgedTyped DEF Expire, cleaner, TypeOK

LEMMA RestartTyped ==
  ASSUME TypeOK, Restart
  PROVE  TypeOK'
<1>1. pc' \in [Calls -> Labels]
  BY DEF Restart, TypeOK, Labels, Over
<1>2. restarts' \in 0..MaxRestarts
  BY DEF Restart, TypeOK
<1> QED
  BY <1>1, <1>2 DEF Restart, TypeOK

LEMMA FirstCases ==
  ASSUME NEW c \in Calls, First(c)
  PROVE  \E t \in Threads :
           \/ Create(c, t) \/ OpenSelect(c, t) \/ Reset(c, t) \/ SnapSelect(c, t)
           \/ \E p \in Paths : EnsureSession(c, t, p) \/ Unlink(c, t, p)
           \/ \E s \in Calls : RestSelect(c, t, s)
BY DEF First

LEMMA LaterActive ==
  ASSUME NEW c \in Calls, Later(c)
  PROVE  Active(c)
BY DEF Later, OpenTouch, OpenInsert, SaveBytes, Ran, Upsert, SnapInsert, SnapFiles,
       SnapBytes, RestTarget, RestInsert, WipeFiles, WipeBytes, RestFiles, RestBytes,
       Active, Over

LEMMA StepTyped ==
  ASSUME TypeOK, ArgsInv, [Next]_vars
  PROVE  TypeOK'
<1>1. ASSUME NEW c \in Calls, First(c) PROVE TypeOK'
  <2> PICK t \in Threads :
           \/ Create(c, t) \/ OpenSelect(c, t) \/ Reset(c, t) \/ SnapSelect(c, t)
           \/ \E p \in Paths : EnsureSession(c, t, p) \/ Unlink(c, t, p)
           \/ \E s \in Calls : RestSelect(c, t, s)
    BY <1>1, FirstCases
  <2> QED
    BY SessionCallsTyped, FileCallsTyped, SnapshotTyped, RestoreTyped
<1>2. ASSUME NEW c \in Calls, Later(c) PROVE TypeOK'
  <2>0. args[c].thread \in Threads
    BY <1>2, LaterActive DEF ArgsInv
  <2>1. CASE OpenTouch(c) \/ OpenInsert(c) \/ SaveBytes(c) \/ Ran(c)
    BY <2>0, <2>1, SessionCallsTyped
  <2>2. CASE Upsert(c)
    <3>1. args[c].path \in Paths
      BY <1>2, <2>2, LaterActive DEF Upsert, ArgsInv
    <3> QED
      BY <2>0, <2>2, <3>1, FileCallsTyped
  <2>3. CASE SnapInsert(c) \/ SnapFiles(c) \/ SnapBytes(c)
    BY <2>0, <2>3, SnapshotTyped
  <2>4. CASE \/ RestTarget(c) \/ RestInsert(c) \/ WipeFiles(c) \/ WipeBytes(c)
             \/ RestFiles(c) \/ RestBytes(c)
    BY <2>0, <2>4, RestoreTyped
  <2> QED
    BY <1>2, <2>1, <2>2, <2>3, <2>4 DEF Later
<1>3. CASE UNCHANGED vars
  BY <1>3 DEF vars, TypeOK
<1> QED
  BY <1>1, <1>2, <1>3, CleanTyped, ExpireTyped, RestartTyped DEF Next

\* What a call was asked stays; only a restore learns the VFS of its target.
LEMMA FirstArgs ==
  ASSUME TypeOK, ArgsInv, NEW c \in Calls, First(c)
  PROVE  ArgsInv'
<1> PICK t \in Threads :
         \/ Create(c, t) \/ OpenSelect(c, t) \/ Reset(c, t) \/ SnapSelect(c, t)
         \/ \E p \in Paths : EnsureSession(c, t, p) \/ Unlink(c, t, p)
         \/ \E s \in Calls : RestSelect(c, t, s)
  BY FirstCases
<1> SUFFICES ASSUME NEW x \in Calls, Active(x)'
             PROVE  /\ args'[x].thread \in Threads /\ args'[x].vfs \in VfsIds
                    /\ pc'[x] = "upsert" => args'[x].path \in Paths
  BY DEF ArgsInv
<1>1. ASSUME x # c PROVE pc'[x] = pc[x] /\ args'[x] = args[x]
  BY <1>1 DEF Create, OpenSelect, Reset, SnapSelect, EnsureSession, Unlink, RestSelect,
              Begin, Goto, TypeOK
<1>2. CASE x # c
  BY <1>1, <1>2 DEF ArgsInv, Active
<1>3. CASE x = c
  <2>1. CASE Create(c, t) \/ Reset(c, t) \/ \E p \in Paths : Unlink(c, t, p)
    BY <1>3, <2>1 DEF Create, Reset, Unlink, Goto, Active, Over, TypeOK
  <2>2. CASE OpenSelect(c, t)
    BY <1>3, <2>2, Ids DEF OpenSelect, Begin, Goto, TypeOK
  <2>3. CASE SnapSelect(c, t)
    <3>1. CASE HasSession(t)
      <4>1. PICK s \in db.sessions : Begin(c, "snapshot", t, s.vfs, None, c)
                                     /\ Goto(c, "snapInsert")
        BY <2>3, <3>1 DEF SnapSelect
      <4> QED
        BY <1>3, <4>1, Parts DEF SessionRows, Begin, Goto, TypeOK
    <3>2. CASE ~HasSession(t)
      <4>1. pc'[c] = "failed"
        BY <2>3, <3>2 DEF SnapSelect, HasSession, Goto, TypeOK
      <4> QED
        BY <1>3, <4>1 DEF Active, Over
    <3> QED
      BY <3>1, <3>2
  <2>4. CASE \E p \in Paths : EnsureSession(c, t, p)
    BY <1>3, <2>4, Ids DEF EnsureSession, Begin, Goto, TypeOK
  <2>5. CASE \E s \in Calls : RestSelect(c, t, s)
    BY <1>3, <2>5, Ids DEF RestSelect, Begin, Goto, TypeOK
  <2> QED
    BY <2>1, <2>2, <2>3, <2>4, <2>5
<1> QED
  BY <1>2, <1>3

LEMMA LaterArgs ==
  ASSUME TypeOK, ArgsInv, NEW c \in Calls, Later(c)
  PROVE  ArgsInv'
<1>1. Active(c)
  BY LaterActive
<1>2. \A x \in Calls : x # c => pc'[x] = pc[x]
  BY DEF Later, OpenTouch, OpenInsert, SaveBytes, Ran, Upsert, SnapInsert, SnapFiles,
         SnapBytes, RestTarget, RestInsert, WipeFiles, WipeBytes, RestFiles, RestBytes,
         Goto, TypeOK
<1>3. pc'[c] # "upsert"
  BY DEF Later, OpenTouch, OpenInsert, SaveBytes, Ran, Upsert, SnapInsert, SnapFiles,
         SnapBytes, RestTarget, RestInsert, WipeFiles, WipeBytes, RestFiles, RestBytes,
         Goto, TypeOK
<1>4. CASE RestTarget(c)
  <2>1. \/ args' = args
        \/ \E s \in db.sessions : args' = [args EXCEPT ![c].vfs = s.vfs]
    BY <1>4 DEF RestTarget
  <2>2. \A s \in db.sessions : s.vfs \in VfsIds
    BY Parts DEF SessionRows
  <2>3. /\ args'[c].thread = args[c].thread
        /\ args'[c].vfs \in VfsIds
        /\ \A x \in Calls : x # c => args'[x] = args[x]
    BY <1>1, <2>1, <2>2 DEF ArgsInv, ArgRows, TypeOK
  <2> QED
    BY <1>1, <1>2, <1>3, <2>3 DEF ArgsInv, Active
<1>5. CASE ~RestTarget(c)
  <2>1. args' = args
    BY <1>5 DEF Later, OpenTouch, OpenInsert, SaveBytes, Ran, Upsert, SnapInsert,
                SnapFiles, SnapBytes, RestInsert, WipeFiles, WipeBytes, RestFiles,
                RestBytes
  <2> QED
    BY <1>1, <1>2, <1>3, <2>1 DEF ArgsInv, Active
<1> QED
  BY <1>4, <1>5

LEMMA StepArgs ==
  ASSUME TypeOK, ArgsInv, [Next]_vars
  PROVE  ArgsInv'
<1>1. CASE Clean
  BY <1>1 DEF Clean, CleanLook, CleanList, CleanDelete, CleanOrphans, CleanSweep,
              besideCleaner, ArgsInv, Active
<1>2. ASSUME NEW id, Expire(id) PROVE ArgsInv'
  BY <1>2 DEF Expire, ArgsInv, Active
<1>3. CASE Restart
  BY <1>3 DEF Restart, ArgsInv, Active, Over, TypeOK
<1>4. CASE UNCHANGED vars
  BY <1>4 DEF vars, ArgsInv, Active
<1> QED
  BY <1>1, <1>2, <1>3, <1>4, FirstArgs, LaterArgs DEF Next

\* The store keeps its types (TypeOK), for all threads, workspaces, calls and both
\* databases.
THEOREM TypeCorrect == Spec => []TypeOK
<1>1. Init => TypeOK /\ ArgsInv
  BY DEF Init, TypeOK, ArgsInv, Active, Over, Labels, Tables, NoArgs, ArgRows
<1>2. TypeOK /\ ArgsInv /\ [Next]_vars => TypeOK' /\ ArgsInv'
  BY StepTyped, StepArgs
<1> QED
  BY <1>1, <1>2, PTL DEF Spec

(***************************************************************************)
(* The cleanup deletes by ids it has read before.  That it hits no live    *)
(* session takes three facts: ids are unique, the id of a snapshot was     *)
(* never used before, and every id that was read still has an expired row. *)
(***************************************************************************)
UniqueIds(d) == \A s, x \in d.sessions : s.id = x.id => s = x

FreshIds(d) ==
  \A s \in d.sessions : s.id \in Calls => pc[s.id] \notin {"idle", "snapInsert"}

VictimsExpired == \A id \in victims : \E s \in db.sessions : s.id = id /\ s.expired

CleanInv ==
  /\ UniqueIds(db) /\ UniqueIds(disk)
  /\ FreshIds(db) /\ FreshIds(disk)
  /\ VictimsExpired

\* A call adds at most one session, whose id is new.
Grows(c) ==
  \/ db'.sessions = db.sessions
  \/ \E s :
       /\ db'.sessions = db.sessions \cup {s}
       /\ ~HasSession(s.id)
       /\ s.id \in Calls => s.id = c /\ pc'[c] = "snapFiles"

LEMMA InsertGrows ==
  ASSUME TypeOK, NEW c \in Calls, NEW t \in Threads, NEW vfs,
         ~HasSession(t), db' = Insert(Session(t, vfs, None))
  PROVE  Grows(c)
<1>1. db'.sessions = db.sessions \cup {Session(t, vfs, None)}
  BY DEF Insert, TypeOK, Tables
<1>2. Session(t, vfs, None).id = t /\ t \notin Calls
  BY DEF Session, StoreAssumption
<1> QED
  BY <1>1, <1>2 DEF Grows

\* A statement on another table adds none.
LEMMA OthersGrow ==
  ASSUME TypeOK, NEW c \in Calls,
         \/ db' = db
         \/ \E F : db' = [db EXCEPT !.files = F]
         \/ \E B : db' = [db EXCEPT !.bytes = B]
  PROVE  Grows(c)
BY DEF Grows, TypeOK, Tables

LEMMA FirstGrows ==
  ASSUME TypeOK, NEW c \in Calls, First(c)
  PROVE  Grows(c) /\ (disk' = disk \/ disk' = db')
<1> PICK t \in Threads :
         \/ Create(c, t) \/ OpenSelect(c, t) \/ Reset(c, t) \/ SnapSelect(c, t)
         \/ \E p \in Paths : EnsureSession(c, t, p) \/ Unlink(c, t, p)
         \/ \E s \in Calls : RestSelect(c, t, s)
  BY FirstCases
<1>1. CASE Create(c, t)
  BY <1>1, InsertGrows DEF Create, Fetched, Unchanged, Grows
<1>2. CASE OpenSelect(c, t) \/ SnapSelect(c, t) \/ \E s \in Calls : RestSelect(c, t, s)
  BY <1>2 DEF OpenSelect, SnapSelect, RestSelect, Unchanged, Grows
<1>3. CASE Reset(c, t)
  BY <1>3 DEF Reset, Executed, Grows, TypeOK, Tables
<1>4. CASE \E p \in Paths : EnsureSession(c, t, p)
  BY <1>4, InsertGrows DEF EnsureSession, Executed, Grows
<1>5. CASE \E p \in Paths : Unlink(c, t, p)
  BY <1>5 DEF Unlink, Executed, Grows, TypeOK, Tables
<1> QED
  BY <1>1, <1>2, <1>3, <1>4, <1>5

LEMMA LaterGrows ==
  ASSUME TypeOK, ArgsInv, FreshIds(db), NEW c \in Calls, Later(c)
  PROVE  Grows(c) /\ (disk' = disk \/ disk' = db')
<1>0. args[c].thread \in Threads
  BY LaterActive DEF ArgsInv
<1>1. CASE OpenInsert(c)
  <2> DEFINE new == Insert(Session(args[c].thread, args[c].vfs, None))
  <2>1. \/ db' = db /\ disk' = disk
        \/ ~HasSession(args[c].thread) /\ db' = new /\ (disk' = db' \/ disk' = disk)
    BY <1>1 DEF OpenInsert, Fetched, Unchanged
  <2> QED
    BY <1>0, <2>1, InsertGrows, OthersGrow
<1>2. CASE RestInsert(c)
  <2> DEFINE new == Insert(Session(args[c].thread, args[c].thread, None))
  <2>1. \/ db' = db /\ disk' = disk
        \/ ~HasSession(args[c].thread) /\ db' = new /\ disk' = db'
    BY <1>2 DEF RestInsert, Executed, Unchanged
  <2> QED
    BY <1>0, <2>1, InsertGrows, OthersGrow
<1>3. CASE SnapInsert(c)
  <2>1. ~HasSession(c)
    BY <1>3 DEF SnapInsert, FreshIds, HasSession
  <2>2. CASE HasSession(args[c].thread)
    <3> DEFINE s == Session(c, c, args[c].thread)
    <3>1. db'.sessions = db.sessions \cup {s} /\ disk' = db'
      BY <1>3, <2>2 DEF SnapInsert, Executed, Insert, TypeOK, Tables
    <3>2. s.id = c /\ pc'[c] = "snapFiles"
      BY <1>3, <2>2 DEF SnapInsert, Goto, Session, TypeOK
    <3> HIDE DEF s
    <3> QED
      BY <2>1, <3>1, <3>2 DEF Grows
  <2>3. CASE ~HasSession(args[c].thread)
    BY <1>3, <2>3 DEF SnapInsert, Unchanged, Grows
  <2> QED
    BY <2>2, <2>3
<1>4. CASE OpenTouch(c) \/ Ran(c) \/ RestTarget(c)
  BY <1>4 DEF OpenTouch, Ran, RestTarget, Executed, Unchanged, Grows
<1>5. CASE SaveBytes(c)
  <2> DEFINE B == (db.bytes \ BytesOf(args[c].thread))
                     \cup {[id |-> args[c].thread, content |-> c]}
  <2>1. Unchanged \/ Executed([db EXCEPT !.bytes = B])
    BY <1>5 DEF SaveBytes
  <2> QED
    BY <2>1, OthersGrow DEF Executed, Unchanged
<1>6. CASE SnapBytes(c)
  <2> DEFINE B == db.bytes \cup {[b EXCEPT !.id = c] : b \in BytesOf(args[c].thread)}
  <2>1. Unchanged \/ Executed([db EXCEPT !.bytes = B])
    BY <1>6 DEF SnapBytes
  <2> HIDE DEF B
  <2> QED
    BY <2>1, OthersGrow DEF Executed, Unchanged
<1>7. CASE RestBytes(c)
  <2> DEFINE B == db.bytes \cup
                    {[b EXCEPT !.id = args[c].thread] : b \in BytesOf(args[c].snap)}
  <2>1. Unchanged \/ Executed([db EXCEPT !.bytes = B])
    BY <1>7 DEF RestBytes
  <2> HIDE DEF B
  <2> QED
    BY <2>1, OthersGrow DEF Executed, Unchanged
<1>8. CASE WipeBytes(c) \/ WipeFiles(c)
  BY <1>8, OthersGrow DEF WipeBytes, WipeFiles, Executed
<1>9. CASE SnapFiles(c) \/ RestFiles(c)
  <2>1. Unchanged \/ \E F : Executed([db EXCEPT !.files = F])
    BY <1>9 DEF SnapFiles, RestFiles
  <2> QED
    BY <2>1, OthersGrow DEF Executed, Unchanged
<1>10. CASE Upsert(c)
  <2> DEFINE a == args[c]
             same == {f \in InVfs(a.vfs) : f.path = a.path}
             row == [owner |-> a.thread, vfs |-> a.vfs, path |-> a.path, content |-> c]
             F == (db.files \ same) \cup
                     IF same # {} THEN {[f EXCEPT !.content = c] : f \in same} ELSE {row}
  <2>1. Unchanged \/ Fetched([db EXCEPT !.files = F])
    BY <1>10 DEF Upsert
  <2> HIDE DEF F
  <2> QED
    BY <2>1, OthersGrow DEF Fetched, Unchanged
<1> QED
  BY <1>1, <1>2, <1>3, <1>4, <1>5, <1>6, <1>7, <1>8, <1>9, <1>10 DEF Later

LEMMA LabelsMove ==
  ASSUME TypeOK, NEW c \in Calls, First(c) \/ Later(c), NEW x \in Calls,
         pc'[x] \in {"idle", "snapInsert"}
  PROVE  pc[x] \in {"idle", "snapInsert"}
<1>1. CASE First(c)
  <2>1. pc[c] = "idle" /\ (x # c => pc'[x] = pc[x])
    BY <1>1 DEF First, Create, OpenSelect, Reset, SnapSelect, EnsureSession, Unlink,
                RestSelect, Begin, Goto, TypeOK
  <2> QED
    BY <2>1
<1>2. CASE Later(c)
  BY <1>2 DEF Later, OpenTouch, OpenInsert, SaveBytes, Ran, Upsert, SnapInsert,
              SnapFiles, SnapBytes, RestTarget, RestInsert, WipeFiles, WipeBytes,
              RestFiles, RestBytes, Goto, TypeOK
<1> QED
  BY <1>1, <1>2

LEMMA CallClean ==
  ASSUME TypeOK, ArgsInv, CleanInv, NEW c \in Calls, First(c) \/ Later(c)
  PROVE  CleanInv'
<1>1. Grows(c) /\ (disk' = disk \/ disk' = db')
  BY FirstGrows, LaterGrows DEF CleanInv
<1>2. victims' = victims
  BY DEF First, Create, OpenSelect, Reset, SnapSelect, EnsureSession, Unlink,
         RestSelect, Later, OpenTouch, OpenInsert, SaveBytes, Ran, Upsert, SnapInsert,
         SnapFiles, SnapBytes, RestTarget, RestInsert, WipeFiles, WipeBytes, RestFiles,
         RestBytes, cleaner
<1>3. CASE db'.sessions = db.sessions
  <2>1. UniqueIds(db') /\ VictimsExpired'
    BY <1>2, <1>3 DEF UniqueIds, VictimsExpired, CleanInv
  <2>2. FreshIds(db)' /\ (disk' = disk => FreshIds(disk)')
    BY <1>3, LabelsMove DEF FreshIds, CleanInv
  <2> QED
    BY <1>1, <2>1, <2>2 DEF CleanInv, UniqueIds, FreshIds
<1>4. CASE db'.sessions # db.sessions
  <2>0. PICK s : /\ db'.sessions = db.sessions \cup {s}
                 /\ ~HasSession(s.id)
                 /\ s.id \in Calls => s.id = c /\ pc'[c] = "snapFiles"
    BY <1>1, <1>4 DEF Grows
  <2>1. UniqueIds(db')
    BY <2>0 DEF HasSession, UniqueIds, CleanInv
  <2>2. VictimsExpired'
    BY <1>2, <2>0 DEF VictimsExpired, CleanInv
  <2>3. FreshIds(db)' /\ (disk' = disk => FreshIds(disk)')
    BY <2>0, LabelsMove DEF FreshIds, CleanInv
  <2> QED
    BY <1>1, <2>1, <2>2, <2>3 DEF CleanInv, UniqueIds, FreshIds
<1> QED
  BY <1>3, <1>4

LEMMA CleanStepClean ==
  ASSUME TypeOK, CleanInv, Clean
  PROVE  CleanInv'
<1>1. db'.sessions \subseteq db.sessions /\ (disk' = disk \/ disk' = db')
  <2>1. CASE CleanLook \/ CleanList \/ CleanOrphans
    BY <2>1 DEF CleanLook, CleanList, CleanOrphans, Unchanged
  <2>2. CASE CleanDelete
    BY <2>2 DEF CleanDelete, Executed, Without
  <2>3. CASE CleanSweep
    BY <2>3 DEF CleanSweep, Executed, TypeOK, Tables
  <2> QED
    BY <2>1, <2>2, <2>3 DEF Clean
<1>2. pc' = pc
  BY DEF Clean, CleanLook, CleanList, CleanDelete, CleanOrphans, CleanSweep,
         besideCleaner
<1>3. VictimsExpired'
  BY DEF Clean, CleanLook, CleanList, CleanDelete, CleanOrphans, CleanSweep, Executed,
         Unchanged, Expired, VictimsExpired, CleanInv, TypeOK, Tables
<1> QED
  BY <1>1, <1>2, <1>3 DEF CleanInv, UniqueIds, FreshIds

LEMMA AgedSessions ==
  ASSUME NEW d \in Tables, NEW id, UniqueIds(d), FreshIds(d)
  PROVE  /\ UniqueIds(Aged(d, id)) /\ FreshIds(Aged(d, id))
         /\ \A s \in d.sessions : \E x \in Aged(d, id).sessions :
              x.id = s.id /\ (s.expired => x.expired)
<1> DEFINE old(s) == IF s.id = id THEN [s EXCEPT !.expired = TRUE] ELSE s
<1>1. Aged(d, id).sessions = {old(s) : s \in d.sessions}
  BY DEF Aged, Tables
<1>2. \A s \in d.sessions : old(s).id = s.id /\ (s.expired => old(s).expired)
  BY DEF Tables, SessionRows
<1> HIDE DEF old
<1> QED
  BY <1>1, <1>2 DEF UniqueIds, FreshIds

LEMMA StepClean ==
  ASSUME TypeOK, ArgsInv, CleanInv, [Next]_vars
  PROVE  CleanInv'
<1>1. ASSUME NEW id, Expire(id) PROVE CleanInv'
  <2>1. db \in Tables /\ disk \in Tables
    BY DEF TypeOK
  <2>2. /\ db' = Aged(db, id) /\ disk' = Aged(disk, id)
        /\ pc' = pc /\ victims' = victims
    BY <1>1 DEF Expire, cleaner
  <2> QED
    BY <2>1, <2>2, AgedSessions DEF CleanInv, UniqueIds, FreshIds, VictimsExpired
<1>2. CASE Restart
  BY <1>2 DEF Restart, CleanInv, UniqueIds, FreshIds, VictimsExpired, TypeOK
<1>3. CASE UNCHANGED vars
  BY <1>3 DEF vars, CleanInv, UniqueIds, FreshIds, VictimsExpired
<1> QED
  BY <1>1, <1>2, <1>3, CallClean, CleanStepClean DEF Next

\* Every session the cleanup deletes has expired, or its parent has
\* (CleanupSparesLive), though manager.py deletes by a list read earlier.
THEOREM LiveSessionsSpared == Spec => CleanupSparesLive
<1> DEFINE Spares == Clean => \A s \in db.sessions \ db'.sessions :
             s.expired \/ \E x \in db.sessions : x.id = s.parent /\ x.expired
           Inv == TypeOK /\ ArgsInv /\ CleanInv
<1>1. Init => Inv
  BY DEF Init, TypeOK, ArgsInv, CleanInv, UniqueIds, FreshIds, VictimsExpired, Active,
         Over, Labels, Tables, NoArgs, ArgRows
<1>2. Inv /\ [Next]_vars => Inv'
  BY StepTyped, StepArgs, StepClean
<1>3. Inv => Spares
  <2> SUFFICES ASSUME Inv, Clean, NEW s \in db.sessions \ db'.sessions
               PROVE  s.expired \/ \E x \in db.sessions : x.id = s.parent /\ x.expired
    OBVIOUS
  <2>1. db' = Without(victims)
    BY DEF Clean, CleanLook, CleanList, CleanDelete, CleanOrphans, CleanSweep, Executed,
           Unchanged, TypeOK, Tables
  <2>2. s.id \in victims \/ \E y \in db.sessions : y.id = s.id /\ y.parent \in victims
    BY <2>1 DEF Without
  <2>3. s.id \in victims \/ s.parent \in victims
    BY <2>2 DEF CleanInv, UniqueIds
  <2> QED
    BY <2>3 DEF CleanInv, VictimsExpired, UniqueIds
<1> HIDE DEF Inv
<1>4. Spec => []Inv
  BY <1>1, <1>2, PTL DEF Spec
<1> QED
  BY <1>3, <1>4, PTL DEF CleanupSparesLive

(***************************************************************************)
(* Where the rows come from.  Each row of either copy of the tables has a  *)
(* source that no later step takes away: the call that wrote its content,  *)
(* or what a snapshot recorded that it copied.                             *)
(***************************************************************************)
\* No statement of this call writes its content any more.
Settled(w) == pc[w] \in Over \cup {"touchAgain"}

Running == {"touch", "insert", "save", "touchAgain"}
Snapping == {"snapInsert", "snapFiles", "snapBytes"}
Restoring == {"restTarget", "restInsert", "wipeFiles", "wipeBytes", "restFiles",
              "restBytes"}

\* The operation a call has begun, and what it has recorded.
Asked ==
  \A c \in Calls :
    /\ args[c].vfs \notin Calls
    /\ args[c].op = "restore" => args[c].snap \in Calls
    /\ pc[c] = "idle" => args[c].op = None
    /\ pc[c] \in Running => args[c].op = "run"
    /\ pc[c] = "insert" => args[c].vfs = args[c].thread
    /\ pc[c] = "upsert" => args[c].op = "write"
    /\ pc[c] \in Snapping => args[c].op = "snapshot"
    /\ pc[c] \in Restoring => args[c].op = "restore"
    /\ pc[c] \in {"idle", "snapInsert", "snapFiles"} => took[c] = {}
    /\ \A e \in took[c] : Settled(e[2])

\* A snapshot is its own VFS; a thread has its own or its workspace.
VfsOfSession(s) ==
  IF s.id \in Calls THEN s.vfs = s.id ELSE s.vfs \in {s.id, Workspace[s.id]}

FileSource(f) ==
  /\ Settled(f.content)
  /\ f.vfs \in Calls => f.owner = f.vfs
  /\ \/ args[f.content].op = "write" /\ args[f.content].vfs = f.vfs
     \/ f.vfs \in Calls /\ Holds(f.vfs, f.path, f.content)
     \/ \E r \in Calls :
          /\ args[r].op = "restore" /\ args[r].vfs = f.vfs /\ pc[r] # "restTarget"
          /\ Holds(args[r].snap, f.path, f.content)

ByteSource(b) == Settled(b.content) /\ (b.id \in Calls => pc[b.id] = "done")

\* The copy of a snapshot is what it recorded.
SnapHeld(d) ==
  \A c \in Calls : (\E s \in d.sessions : s.id = c) =>
    /\ pc[c] = "snapBytes" => FilesAt(d, c) = took[c]
    /\ pc[c] = "done" /\ args[c].op = "snapshot"
         => FilesAt(d, c) \cup MemoryAt(d, c) = took[c]

Sourced(d) ==
  /\ \A s \in d.sessions : VfsOfSession(s)
  /\ \A f \in d.files : FileSource(f)
  /\ \A b \in d.bytes : ByteSource(b)
  /\ SnapHeld(d)

\* What a restore has deleted is gone until its own copies come.
Gone ==
  \A c \in Calls :
    /\ pc[c] \in {"wipeBytes", "restFiles"} =>
         FilesAt(db, args[c].vfs) \cap took[c] = {}
    /\ pc[c] \in {"restFiles", "restBytes"} =>
         MemoryAt(db, args[c].thread) \cap took[c] = {}

SourceInv == Asked /\ Sourced(db) /\ Sourced(disk) /\ Gone

(***************************************************************************)
(* What a step leaves of the calls: their arguments, their labels and      *)
(* their histories.                                                        *)
(***************************************************************************)
Steady ==
  \A x \in Calls :
    /\ Settled(x) => Settled(x)'
    /\ \/ args'[x] = args[x]
       \/ pc[x] = "idle"
       \/ pc[x] = "restTarget" /\ \E v : args'[x] = [args[x] EXCEPT !.vfs = v]
    /\ pc[x] \notin {"idle", "restTarget"} => pc'[x] # "restTarget"
    /\ pc[x] = "done" => pc'[x] = "done"
    /\ args[x].op = "snapshot" => took[x] \subseteq took'[x]

\* Only the call that takes the step moves on; of the others' histories a restore
\* may take what it has put back.
Alone(c) ==
  \A x \in Calls : x # c =>
    /\ pc'[x] = pc[x] /\ args'[x] = args[x]
    /\ took'[x] \subseteq took[x]
    /\ args[x].op # "restore" => took'[x] = took[x]

LEMMA FirstMoves ==
  ASSUME TypeOK, NEW c \in Calls, First(c)
  PROVE  /\ Alone(c) /\ took' = took /\ pc[c] = "idle"
         /\ pc'[c] \in {"done", "failed", "touch", "insert", "upsert", "snapInsert",
                        "restTarget"}
<1>1. took' = took /\ pc[c] = "idle"
  BY DEF First, Create, OpenSelect, Reset, SnapSelect, EnsureSession, Unlink,
         RestSelect, Begin
<1>2. \A x \in Calls : x # c => pc'[x] = pc[x] /\ args'[x] = args[x]
  BY DEF First, Create, OpenSelect, Reset, SnapSelect, EnsureSession, Unlink,
         RestSelect, Begin, Goto, TypeOK
<1>3. pc'[c] \in {"done", "failed", "touch", "insert", "upsert", "snapInsert",
                  "restTarget"}
  BY DEF First, Create, OpenSelect, Reset, SnapSelect, EnsureSession, Unlink,
         RestSelect, Begin, Goto, TypeOK
<1> QED
  BY <1>1, <1>2, <1>3 DEF Alone

LEMMA PutBackTakes ==
  ASSUME TypeOK, NEW c \in Calls, NEW target, NEW rows, PutBack(c, target, rows)
  PROVE  /\ took'[c] = took[c]
         /\ \A x \in Calls :
              /\ took'[x] \subseteq took[x]
              /\ args[x].op # "restore" => took'[x] = took[x]
              /\ x # c /\ args[x].op = "restore" /\ args[x][target] = args[c][target]
                   => took'[x] = took[x] \ rows
BY DEF PutBack, TypeOK

\* What each later statement makes of the label of its call.
Successor(c) ==
  \/ pc'[c] = "failed"
  \/ pc[c] = "touch" /\ pc'[c] = "save"
  \/ pc[c] = "insert" /\ pc'[c] = "save"
  \/ pc[c] = "save" /\ pc'[c] = "touchAgain"
  \/ pc[c] = "touchAgain" /\ pc'[c] = "done"
  \/ pc[c] = "upsert" /\ pc'[c] = "done"
  \/ pc[c] = "snapInsert" /\ pc'[c] = "snapFiles"
  \/ pc[c] = "snapFiles" /\ pc'[c] = "snapBytes"
  \/ pc[c] = "snapBytes" /\ pc'[c] = "done"
  \/ pc[c] = "restTarget" /\ pc'[c] \in {"wipeFiles", "restInsert"}
  \/ pc[c] = "restInsert" /\ pc'[c] = "wipeFiles"
  \/ pc[c] = "wipeFiles" /\ pc'[c] = "wipeBytes"
  \/ pc[c] = "wipeBytes" /\ pc'[c] = "restFiles"
  \/ pc[c] = "restFiles" /\ pc'[c] = "restBytes"
  \/ pc[c] = "restBytes" /\ pc'[c] = "done"

LEMMA LaterMoves ==
  ASSUME TypeOK, NEW c \in Calls, Later(c)
  PROVE  Successor(c) /\ \A x \in Calls : x # c => pc'[x] = pc[x]
<1> USE DEF Goto, Successor, TypeOK
<1>1. CASE OpenTouch(c) \/ OpenInsert(c) \/ SaveBytes(c) \/ Ran(c) \/ Upsert(c)
  BY <1>1 DEF OpenTouch, OpenInsert, SaveBytes, Ran, Upsert
<1>2. CASE SnapInsert(c) \/ SnapFiles(c) \/ SnapBytes(c)
  BY <1>2 DEF SnapInsert, SnapFiles, SnapBytes
<1>3. CASE RestTarget(c) \/ RestInsert(c) \/ WipeFiles(c) \/ WipeBytes(c)
  BY <1>3 DEF RestTarget, RestInsert, WipeFiles, WipeBytes
<1>4. CASE RestFiles(c) \/ RestBytes(c)
  BY <1>4 DEF RestFiles, RestBytes
<1> QED
  BY <1>1, <1>2, <1>3, <1>4 DEF Later

\* A restore learns the VFS of its target; all else that was asked stays.
LEMMA LaterArgsStay ==
  ASSUME TypeOK, NEW c \in Calls, Later(c)
  PROVE  /\ \A x \in Calls : x # c => args'[x] = args[x]
         /\ \/ args'[c] = args[c]
            \/ /\ pc[c] = "restTarget"
               /\ \E s \in db.sessions :
                    s.id = args[c].thread /\ args'[c] = [args[c] EXCEPT !.vfs = s.vfs]
<1>1. CASE RestTarget(c)
  BY <1>1 DEF RestTarget, TypeOK
<1>2. CASE ~RestTarget(c)
  <2>1. args' = args
    BY <1>2 DEF Later, OpenTouch, OpenInsert, SaveBytes, Ran, Upsert, SnapInsert,
                SnapFiles, SnapBytes, RestInsert, WipeFiles, WipeBytes, RestFiles,
                RestBytes
  <2> QED
    BY <2>1
<1> QED
  BY <1>1, <1>2

\* Histories change when rows are copied or deleted.
LEMMA LaterTook ==
  ASSUME TypeOK, NEW c \in Calls, Later(c)
  PROVE  /\ \A x \in Calls : x # c =>
              took'[x] \subseteq took[x] /\ (args[x].op # "restore" => took'[x] = took[x])
         /\ \/ took'[c] = took[c]
            \/ pc[c] \in {"snapFiles", "wipeFiles"} /\ took'[c] = FilesAt(db, args[c].vfs)
            \/ /\ pc[c] \in {"snapBytes", "wipeBytes"}
               /\ took'[c] = took[c] \cup MemoryAt(db, args[c].thread)
<1>1. CASE SnapFiles(c) \/ WipeFiles(c)
  BY <1>1 DEF SnapFiles, WipeFiles, TypeOK
<1>2. CASE SnapBytes(c) \/ WipeBytes(c)
  BY <1>2 DEF SnapBytes, WipeBytes, TypeOK
<1>3. CASE RestFiles(c) \/ RestBytes(c)
  <2>1. took' = took \/ \E target, rows : PutBack(c, target, rows)
    BY <1>3 DEF RestFiles, RestBytes
  <2> QED
    BY <2>1, PutBackTakes
<1>4. CASE ~(\/ SnapFiles(c) \/ WipeFiles(c) \/ SnapBytes(c) \/ WipeBytes(c)
             \/ RestFiles(c) \/ RestBytes(c))
  <2>1. took' = took
    BY <1>4 DEF Later, OpenTouch, OpenInsert, SaveBytes, Ran, Upsert, SnapInsert,
                RestTarget, RestInsert
  <2> QED
    BY <2>1
<1> QED
  BY <1>1, <1>2, <1>3, <1>4

LEMMA CallSteady ==
  ASSUME TypeOK, Asked, NEW c \in Calls, First(c) \/ Later(c)
  PROVE  Steady /\ Alone(c)
<1>1. CASE First(c)
  BY <1>1, FirstMoves DEF Steady, Alone, Settled, Over
<1>2. CASE Later(c)
  <2>1. Alone(c)
    BY <1>2, LaterMoves, LaterArgsStay, LaterTook DEF Alone
  <2>2. Successor(c) /\ pc[c] # "idle"
    BY <1>2, LaterMoves, LaterActive DEF Active
  <2>3. args[c].op = "snapshot" => took[c] \subseteq took'[c]
    BY <1>2, LaterTook DEF Asked, Restoring
  <2>4. \/ args'[c] = args[c]
        \/ pc[c] = "restTarget" /\ \E v : args'[c] = [args[c] EXCEPT !.vfs = v]
    BY <1>2, LaterArgsStay
  <2>5. /\ Settled(c) => Settled(c)'
        /\ pc[c] \notin {"idle", "restTarget"} => pc'[c] # "restTarget"
        /\ pc[c] = "done" => pc'[c] = "done"
    BY <1>2, <2>2, LaterActive DEF Active, Successor, Settled, Over
  <2> QED
    BY <2>1, <2>3, <2>4, <2>5 DEF Alone, Steady, Settled
<1> QED
  BY <1>1, <1>2

LEMMA StepSteady ==
  ASSUME TypeOK, Asked, [Next]_vars
  PROVE  Steady
<1>1. CASE Clean \/ UNCHANGED vars \/ \E id \in Mortal : Expire(id)
  <2>1. UNCHANGED <<pc, args, took>>
    BY <1>1 DEF vars, Expire, Clean, CleanLook, CleanList, CleanDelete, CleanOrphans,
                CleanSweep, besideCleaner
  <2> QED
    BY <2>1 DEF Steady, Settled
<1>2. CASE Restart
  BY <1>2 DEF Restart, Steady, Settled, Over, TypeOK
<1> QED
  BY <1>1, <1>2, CallSteady DEF Next

\* A source once there stays.
LEMMA SourcesStay ==
  ASSUME TypeOK, Asked, Steady
  PROVE  /\ \A f \in FileRows : FileSource(f) => FileSource(f)'
         /\ \A b \in ByteRows : ByteSource(b) => ByteSource(b)'
<1>1. \A x \in Calls : args[x].op \in {"write", "snapshot"} => args'[x] = args[x]
  BY DEF Steady, Asked, Restoring, Ops
<1>2. \A s, p, w : s \in Calls /\ Holds(s, p, w) => Holds(s, p, w)'
  BY <1>1 DEF Holds, Steady
<1>3. ASSUME NEW f \in FileRows, FileSource(f) PROVE FileSource(f)'
  <2>1. f.content \in Calls
    BY DEF FileRows
  <2>2. CASE args[f.content].op = "write" /\ args[f.content].vfs = f.vfs
    BY <1>1, <1>3, <2>1, <2>2 DEF FileSource, Steady
  <2>3. CASE f.vfs \in Calls /\ Holds(f.vfs, f.path, f.content)
    BY <1>2, <1>3, <2>1, <2>3 DEF FileSource, Steady
  <2>4. ASSUME NEW r \in Calls, args[r].op = "restore", args[r].vfs = f.vfs,
               pc[r] # "restTarget", Holds(args[r].snap, f.path, f.content)
        PROVE  FileSource(f)'
    <3>1. args'[r] = args[r] /\ pc'[r] # "restTarget" /\ args[r].snap \in Calls
      BY <2>4 DEF Steady, Asked, Ops
    <3> QED
      BY <1>2, <1>3, <2>1, <2>4, <3>1 DEF FileSource, Steady
  <2> QED
    BY <1>3, <2>2, <2>3, <2>4 DEF FileSource
<1>4. ASSUME NEW b \in ByteRows, ByteSource(b) PROVE ByteSource(b)'
  BY <1>4 DEF ByteRows, ByteSource, Steady
<1> QED
  BY <1>3, <1>4

(***************************************************************************)
(* What was asked.                                                         *)
(***************************************************************************)
\* The VFS ids of threads are never those of snapshots.
LEMMA ThreadVfs ==
  ASSUME TypeOK, Sourced(db), NEW t \in Threads
  PROVE  /\ t \notin Calls /\ Workspace[t] \notin Calls
         /\ \A s \in db.sessions : s.id = t => s.vfs \notin Calls
<1>1. t \notin Calls /\ Workspace[t] \notin Calls
  BY DEF StoreAssumption
<1> QED
  BY <1>1 DEF Sourced, VfsOfSession

LEMMA RecordedSettled ==
  ASSUME TypeOK, Sourced(db)
  PROVE  /\ \A v : \A e \in FilesAt(db, v) : e[2] \in Calls /\ Settled(e[2])
         /\ \A id : \A e \in MemoryAt(db, id) : e[2] \in Calls /\ Settled(e[2])
<1>1. \A f \in db.files : f.content \in Calls /\ Settled(f.content)
  BY Parts DEF Sourced, FileSource, FileRows
<1>2. \A b \in db.bytes : b.content \in Calls /\ Settled(b.content)
  BY Parts DEF Sourced, ByteSource, ByteRows
<1> QED
  BY <1>1, <1>2 DEF FilesAt, MemoryAt

LEMMA NoneIsNoCall == None \notin Calls /\ None \notin Ops
BY DEF StoreAssumption, SessionIds

\* What the first statement of a call leaves in its arguments.
LEMMA FirstAsked ==
  ASSUME TypeOK, Sourced(db), NEW c \in Calls, First(c)
  PROVE  /\ args'[c].vfs \notin Calls
         /\ args'[c].op = "restore" => args'[c].snap \in Calls
         /\ pc'[c] \in Running => args'[c].op = "run" /\ args'[c].vfs = args'[c].thread
         /\ pc'[c] = "upsert" => args'[c].op = "write"
         /\ pc'[c] \in Snapping => args'[c].op = "snapshot"
         /\ pc'[c] \in Restoring => args'[c].op = "restore"
         /\ pc'[c] = "done" => args'[c].op # "snapshot"
<1> PICK t \in Threads :
         \/ Create(c, t) \/ OpenSelect(c, t) \/ Reset(c, t) \/ SnapSelect(c, t)
         \/ \E p \in Paths : EnsureSession(c, t, p) \/ Unlink(c, t, p)
         \/ \E s \in Calls : RestSelect(c, t, s)
  BY FirstCases
<1> USE DEF Begin, Goto, TypeOK, Running, Snapping, Restoring
<1>1. CASE Create(c, t)
  BY <1>1, ThreadVfs, NoneIsNoCall DEF Create
<1>2. CASE OpenSelect(c, t)
  BY <1>2, ThreadVfs, NoneIsNoCall DEF OpenSelect
<1>3. CASE Reset(c, t)
  BY <1>3, NoneIsNoCall DEF Reset
<1>4. CASE SnapSelect(c, t)
  BY <1>4, ThreadVfs, NoneIsNoCall DEF SnapSelect
<1>5. CASE \E p \in Paths : EnsureSession(c, t, p)
  BY <1>5, ThreadVfs, NoneIsNoCall DEF EnsureSession
<1>6. CASE \E p \in Paths : Unlink(c, t, p)
  BY <1>6, ThreadVfs, NoneIsNoCall DEF Unlink
<1>7. CASE \E s \in Calls : RestSelect(c, t, s)
  BY <1>7, ThreadVfs, NoneIsNoCall DEF RestSelect
<1> QED
  BY <1>1, <1>2, <1>3, <1>4, <1>5, <1>6, <1>7

LEMMA StepAsked ==
  ASSUME TypeOK, ArgsInv, SourceInv, [Next]_vars
  PROVE  Asked'
<1>0. Asked /\ Sourced(db) /\ Steady
  BY StepSteady DEF SourceInv
<1>1. \A x \in Calls : Settled(x) => Settled(x)'
  BY <1>0 DEF Steady
<1>2. \A x \in Calls : \A e \in took[x] : e[2] \in Calls
  BY DEF TypeOK
<1>3. ASSUME NEW c \in Calls, First(c) PROVE Asked'
  <2>1. Alone(c) /\ took' = took /\ pc[c] = "idle"
    BY <1>3, FirstMoves
  <2>2. took[c] = {}
    BY <1>0, <2>1 DEF Asked
  <2>3. pc'[c] # "idle"
    BY <1>3, FirstMoves
  <2>4. \A x \in Calls : \A e \in took'[x] : Settled(e[2])'
    BY <1>0, <1>1, <1>2, <2>1 DEF Asked
  <2>5. \A x \in Calls : x # c => pc'[x] = pc[x] /\ args'[x] = args[x]
    BY <2>1 DEF Alone
  <2> QED
    BY <1>0, <1>3, <2>1, <2>2, <2>3, <2>4, <2>5, FirstAsked DEF Asked, Running
<1>4. ASSUME NEW c \in Calls, Later(c) PROVE Asked'
  <2>1. Alone(c) /\ Active(c)
    BY <1>0, <1>4, CallSteady, LaterActive
  <2>2. /\ args'[c].vfs \notin Calls
        /\ args'[c].op = args[c].op /\ args'[c].snap = args[c].snap
        /\ args'[c].thread = args[c].thread
    <3>1. CASE args'[c] = args[c]
      BY <1>0, <3>1 DEF Asked
    <3>2. ASSUME NEW s \in db.sessions, s.id = args[c].thread,
                 args'[c] = [args[c] EXCEPT !.vfs = s.vfs]
          PROVE  /\ args'[c].vfs \notin Calls
                 /\ args'[c].op = args[c].op /\ args'[c].snap = args[c].snap
                 /\ args'[c].thread = args[c].thread
      <4>1. s.vfs \notin Calls
        BY <1>0, <2>1, <3>2, ThreadVfs DEF ArgsInv
      <4> QED
        BY <3>2, <4>1 DEF TypeOK, ArgRows
    <3> QED
      BY <1>4, <3>1, <3>2, LaterArgsStay
  <2>3. Successor(c)
    BY <1>4, LaterMoves
  <2>4. /\ pc'[c] \notin {"idle", "insert", "upsert", "snapInsert"}
        /\ pc'[c] \in Running => args[c].op = "run"
        /\ pc'[c] \in Snapping => args[c].op = "snapshot"
        /\ pc'[c] \in Restoring => args[c].op = "restore"
    BY <1>0, <2>3 DEF Asked, Successor, Running, Snapping, Restoring
  <2>5. pc'[c] = "snapFiles" => took'[c] = {}
    <3>1. pc'[c] = "snapFiles" => pc[c] = "snapInsert"
      BY <2>3 DEF Successor
    <3> QED
      BY <1>0, <1>4, <3>1, LaterTook DEF Asked
  <2>6. \A e \in took'[c] : Settled(e[2])'
    BY <1>0, <1>1, <1>2, <1>4, LaterTook, RecordedSettled DEF Asked
  <2>7. \A x \in Calls : x # c => /\ pc'[x] = pc[x] /\ args'[x] = args[x]
                                  /\ took'[x] \subseteq took[x]
    BY <2>1 DEF Alone
  <2>8. \A x \in Calls : \A e \in took'[x] : Settled(e[2])'
    BY <1>0, <1>1, <1>2, <2>6, <2>7 DEF Asked
  <2>9. ASSUME NEW x \in Calls, x # c, pc'[x] \in {"idle", "snapInsert", "snapFiles"}
        PROVE  took'[x] = {}
    BY <1>0, <2>7, <2>9 DEF Asked
  <2> QED
    BY <1>0, <2>2, <2>4, <2>5, <2>7, <2>8, <2>9 DEF Asked
<1>5. CASE Clean \/ UNCHANGED vars \/ \E id \in Mortal : Expire(id)
  <2>1. UNCHANGED <<pc, args, took>>
    BY <1>5 DEF vars, Expire, Clean, CleanLook, CleanList, CleanDelete, CleanOrphans,
                CleanSweep, besideCleaner
  <2> QED
    BY <1>0, <2>1 DEF Asked, Settled
<1>6. CASE Restart
  <2>1. /\ UNCHANGED <<args, took>>
        /\ \A x \in Calls : pc'[x] = pc[x] \/ pc'[x] = "crashed"
    BY <1>6 DEF Restart, TypeOK
  <2>2. \A x \in Calls : \A e \in took'[x] : Settled(e[2])'
    BY <1>0, <1>1, <1>2, <2>1 DEF Asked
  <2> QED
    BY <1>0, <2>1, <2>2 DEF Asked, Running, Snapping, Restoring
<1> QED
  BY <1>3, <1>4, <1>5, <1>6 DEF Next

(***************************************************************************)
(* What a step does to the rows.                                           *)
(***************************************************************************)
Entry(f) == <<f.path, f.content>>

\* A call adds a file by writing it, or as a copy of another one.
NewFile(c, f) ==
  \/ /\ pc[c] = "upsert" /\ pc'[c] = "done"
     /\ f.content = c /\ f.vfs = args[c].vfs
  \/ /\ pc[c] = "snapFiles" /\ f.vfs = c /\ f.owner = c
     /\ took'[c] = FilesAt(db, args[c].vfs)
     /\ Entry(f) \in FilesAt(db, args[c].vfs)
  \/ /\ pc[c] = "restFiles" /\ f.vfs = args[c].vfs
     /\ Entry(f) \in FilesAt(db, args[c].snap)
     /\ PutBack(c, "vfs", FilesAt(db, args[c].snap))

FilesMove(c) ==
  /\ \A f \in db'.files \ db.files : NewFile(c, f)
  /\ \A f \in db.files \ db'.files : f.vfs \notin Calls

NewBytes(c, b) ==
  \/ pc[c] = "save" /\ pc'[c] = "touchAgain" /\ b.id = args[c].thread /\ b.content = c
  \/ /\ pc[c] = "snapBytes" /\ pc'[c] = "done" /\ b.id = c
     /\ <<Memory, b.content>> \in MemoryAt(db, args[c].thread)
  \/ /\ pc[c] = "restBytes" /\ b.id = args[c].thread
     /\ <<Memory, b.content>> \in MemoryAt(db, args[c].snap)
     /\ PutBack(c, "thread", MemoryAt(db, args[c].snap))

BytesMove(c) ==
  /\ \A b \in db'.bytes \ db.bytes : NewBytes(c, b)
  /\ \A b \in db.bytes \ db'.bytes : b.id \notin Calls

\* A statement on another table leaves both alone.
LEMMA OthersMove ==
  ASSUME TypeOK, NEW c \in Calls, db' = db \/ \E S : db' = [db EXCEPT !.sessions = S]
  PROVE  FilesMove(c) /\ BytesMove(c)
BY DEF FilesMove, BytesMove, TypeOK, Tables

LEMMA OnlyFilesMove ==
  ASSUME TypeOK, NEW c \in Calls, NEW F, db' = [db EXCEPT !.files = F],
         \A f \in F \ db.files : NewFile(c, f),
         \A f \in db.files \ F : f.vfs \notin Calls
  PROVE  FilesMove(c) /\ BytesMove(c)
BY DEF FilesMove, BytesMove, TypeOK, Tables

LEMMA OnlyBytesMove ==
  ASSUME TypeOK, NEW c \in Calls, NEW B, db' = [db EXCEPT !.bytes = B],
         \A b \in B \ db.bytes : NewBytes(c, b),
         \A b \in db.bytes \ B : b.id \notin Calls
  PROVE  FilesMove(c) /\ BytesMove(c)
BY DEF FilesMove, BytesMove, TypeOK, Tables

LEMMA FirstRows ==
  ASSUME TypeOK, NEW c \in Calls, First(c)
  PROVE  FilesMove(c) /\ BytesMove(c)
<1> PICK t \in Threads :
         \/ Create(c, t) \/ OpenSelect(c, t) \/ Reset(c, t) \/ SnapSelect(c, t)
         \/ \E p \in Paths : EnsureSession(c, t, p) \/ Unlink(c, t, p)
         \/ \E s \in Calls : RestSelect(c, t, s)
  BY FirstCases
<1>1. CASE Create(c, t)
  <2>1. db' = db \/ \E S : db' = [db EXCEPT !.sessions = S]
    BY <1>1 DEF Create, Fetched, Unchanged, Insert
  <2> QED
    BY <2>1, OthersMove
<1>2. CASE OpenSelect(c, t) \/ SnapSelect(c, t) \/ \E s \in Calls : RestSelect(c, t, s)
  <2>1. db' = db
    BY <1>2 DEF OpenSelect, SnapSelect, RestSelect, Unchanged
  <2> QED
    BY <2>1, OthersMove
<1>3. CASE Reset(c, t)
  <2>1. db' = [db EXCEPT !.bytes = db.bytes \ BytesOf(t)]
    BY <1>3 DEF Reset, Executed
  <2>2. \A b \in BytesOf(t) : b.id \notin Calls
    BY DEF BytesOf, StoreAssumption
  <2> QED
    BY <2>1, <2>2, OnlyBytesMove
<1>4. CASE \E p \in Paths : EnsureSession(c, t, p)
  <2>1. db' = db \/ \E S : db' = [db EXCEPT !.sessions = S]
    BY <1>4 DEF EnsureSession, Executed, Insert
  <2> QED
    BY <2>1, OthersMove
<1>5. ASSUME NEW p \in Paths, Unlink(c, t, p) PROVE FilesMove(c) /\ BytesMove(c)
  <2> DEFINE F == {f \in db.files : ~(f.vfs = Workspace[t] /\ f.path = p)}
  <2>1. db' = [db EXCEPT !.files = F]
    BY <1>5 DEF Unlink, Executed
  <2>2. \A f \in db.files \ F : f.vfs \notin Calls
    BY DEF StoreAssumption
  <2>3. F \subseteq db.files
    OBVIOUS
  <2> HIDE DEF F
  <2> QED
    BY <2>1, <2>2, <2>3, OnlyFilesMove
<1> QED
  BY <1>1, <1>2, <1>3, <1>4, <1>5

LEMMA UpsertRows ==
  ASSUME TypeOK, Asked, NEW c \in Calls, Upsert(c)
  PROVE  FilesMove(c) /\ BytesMove(c)
<1> DEFINE a == args[c]
           same == {f \in InVfs(a.vfs) : f.path = a.path}
           row == [owner |-> a.thread, vfs |-> a.vfs, path |-> a.path, content |-> c]
           new == IF same # {} THEN {[f EXCEPT !.content = c] : f \in same} ELSE {row}
           F == (db.files \ same) \cup new
<1>1. CASE Unchanged
  BY <1>1, OthersMove DEF Unchanged
<1>2. CASE ~Unchanged
  <2>1. db' = [db EXCEPT !.files = F] /\ pc'[c] = "done" /\ pc[c] = "upsert"
    BY <1>2 DEF Upsert, Fetched, Goto, TypeOK
  <2>2. \A f \in new : f.content = c /\ f.vfs = args[c].vfs
    <3>1. row.content = c /\ row.vfs = args[c].vfs
      OBVIOUS
    <3>2. ASSUME NEW f \in same
          PROVE  [f EXCEPT !.content = c].content = c /\ [f EXCEPT !.content = c].vfs = a.vfs
      <4>1. f \in FileRows /\ f.vfs = a.vfs
        BY Parts DEF InVfs
      <4> QED
        BY <4>1 DEF FileRows
    <3> QED
      BY <3>1, <3>2
  <2>3. \A f \in same : f.vfs \notin Calls
    BY DEF InVfs, Asked
  <2> HIDE DEF new, same
  <2> QED
    BY <2>1, <2>2, <2>3, OnlyFilesMove DEF NewFile
<1> QED
  BY <1>1, <1>2

\* Copies have the content and the path of what they copy.
LEMMA CopyEntries ==
  ASSUME TypeOK, NEW from, NEW owner, NEW vfs
  PROVE  /\ \A f \in Copies(from, owner, vfs) :
              /\ f.owner = owner /\ f.vfs = vfs
              /\ Entry(f) \in FilesAt(db, from)
         /\ \A e \in FilesAt(db, from) : \E f \in Copies(from, owner, vfs) : Entry(f) = e
<1> DEFINE copy(g) == [g EXCEPT !.owner = owner, !.vfs = vfs]
<1>1. \A g \in InVfs(from) :
        /\ copy(g).owner = owner /\ copy(g).vfs = vfs
        /\ copy(g).path = g.path /\ copy(g).content = g.content
  BY Parts DEF InVfs, FileRows
<1>2. FilesAt(db, from) = {<<g.path, g.content>> : g \in InVfs(from)}
  BY DEF FilesAt, InVfs
<1>3. Copies(from, owner, vfs) = {copy(g) : g \in InVfs(from)}
  BY DEF Copies
<1> HIDE DEF copy
<1> QED
  BY <1>1, <1>2, <1>3 DEF Entry

LEMMA SnapshotRows ==
  ASSUME TypeOK, NEW c \in Calls, SnapInsert(c) \/ SnapFiles(c) \/ SnapBytes(c)
  PROVE  FilesMove(c) /\ BytesMove(c)
<1>1. CASE Unchanged
  BY <1>1, OthersMove DEF Unchanged
<1>2. CASE SnapInsert(c) /\ ~Unchanged
  <2>1. \E S : db' = [db EXCEPT !.sessions = S]
    BY <1>2 DEF SnapInsert, Executed, Insert
  <2> QED
    BY <2>1, OthersMove
<1>3. CASE SnapFiles(c) /\ ~Unchanged
  <2> DEFINE copies == Copies(args[c].vfs, c, c)
  <2>1. /\ db' = [db EXCEPT !.files = db.files \cup copies]
        /\ pc[c] = "snapFiles"
        /\ took'[c] = FilesAt(db, args[c].vfs)
    BY <1>3 DEF SnapFiles, Executed, TypeOK
  <2>2. \A f \in copies : f.owner = c /\ f.vfs = c /\ Entry(f) \in FilesAt(db, args[c].vfs)
    BY CopyEntries
  <2>3. \A f \in copies : NewFile(c, f)
    BY <2>1, <2>2 DEF NewFile
  <2> HIDE DEF copies
  <2> QED
    BY <2>1, <2>3, OnlyFilesMove
<1>4. CASE SnapBytes(c) /\ ~Unchanged
  <2> DEFINE copies == {[b EXCEPT !.id = c] : b \in BytesOf(args[c].thread)}
  <2>1. /\ db' = [db EXCEPT !.bytes = db.bytes \cup copies]
        /\ pc[c] = "snapBytes" /\ pc'[c] = "done"
    BY <1>4 DEF SnapBytes, Executed, Goto, TypeOK
  <2>2. \A b \in copies : b.id = c /\ <<Memory, b.content>> \in MemoryAt(db, args[c].thread)
    BY Parts DEF BytesOf, ByteRows, MemoryAt
  <2>3. \A b \in copies : NewBytes(c, b)
    BY <2>1, <2>2 DEF NewBytes
  <2> HIDE DEF copies
  <2> QED
    BY <2>1, <2>3, OnlyBytesMove
<1> QED
  BY <1>1, <1>2, <1>3, <1>4

LEMMA RestoreRows ==
  ASSUME TypeOK, ArgsInv, Asked, NEW c \in Calls,
         \/ RestTarget(c) \/ RestInsert(c) \/ WipeFiles(c) \/ WipeBytes(c)
         \/ RestFiles(c) \/ RestBytes(c)
  PROVE  FilesMove(c) /\ BytesMove(c)
<1>0. args[c].vfs \notin Calls
  BY DEF Asked
<1>1. CASE Unchanged
  BY <1>1, OthersMove DEF Unchanged
<1>2. CASE (RestTarget(c) \/ RestInsert(c)) /\ ~Unchanged
  <2>1. \E S : db' = [db EXCEPT !.sessions = S]
    BY <1>2 DEF RestTarget, RestInsert, Executed, Insert
  <2> QED
    BY <2>1, OthersMove
<1>3. CASE WipeFiles(c)
  <2> DEFINE F == db.files \ InVfs(args[c].vfs)
  <2>1. db' = [db EXCEPT !.files = F]
    BY <1>3 DEF WipeFiles, Executed
  <2>2. \A f \in db.files \ F : f.vfs \notin Calls
    BY <1>0 DEF InVfs
  <2> QED
    BY <2>1, <2>2, OnlyFilesMove
<1>4. CASE WipeBytes(c)
  <2> DEFINE B == db.bytes \ BytesOf(args[c].thread)
  <2>1. db' = [db EXCEPT !.bytes = B]
    BY <1>4 DEF WipeBytes, Executed
  <2>2. args[c].thread \in Threads
    BY <1>4 DEF WipeBytes, ArgsInv, Active, Over
  <2>3. \A b \in db.bytes \ B : b.id \notin Calls
    BY <2>2 DEF BytesOf, StoreAssumption
  <2> QED
    BY <2>1, <2>3, OnlyBytesMove
<1>5. CASE RestFiles(c) /\ ~Unchanged
  <2> DEFINE copies == Copies(args[c].snap, args[c].thread, args[c].vfs)
  <2>1. /\ db' = [db EXCEPT !.files = db.files \cup copies]
        /\ pc[c] = "restFiles"
        /\ PutBack(c, "vfs", FilesAt(db, args[c].snap))
    BY <1>5 DEF RestFiles, Executed
  <2>2. \A f \in copies : f.vfs = args[c].vfs /\ Entry(f) \in FilesAt(db, args[c].snap)
    BY CopyEntries
  <2>3. \A f \in copies : NewFile(c, f)
    BY <2>1, <2>2 DEF NewFile
  <2> HIDE DEF copies
  <2> QED
    BY <2>1, <2>3, OnlyFilesMove
<1>6. CASE RestBytes(c) /\ ~Unchanged
  <2> DEFINE copies == {[b EXCEPT !.id = args[c].thread] : b \in BytesOf(args[c].snap)}
  <2>1. /\ db' = [db EXCEPT !.bytes = db.bytes \cup copies]
        /\ pc[c] = "restBytes"
        /\ PutBack(c, "thread", MemoryAt(db, args[c].snap))
    BY <1>6 DEF RestBytes, Executed
  <2>2. \A b \in copies : /\ b.id = args[c].thread
                          /\ <<Memory, b.content>> \in MemoryAt(db, args[c].snap)
    BY Parts DEF BytesOf, ByteRows, MemoryAt
  <2>3. \A b \in copies : NewBytes(c, b)
    BY <2>1, <2>2 DEF NewBytes
  <2> HIDE DEF copies
  <2> QED
    BY <2>1, <2>3, OnlyBytesMove
<1> QED
  BY <1>1, <1>2, <1>3, <1>4, <1>5, <1>6

LEMMA SaveRows ==
  ASSUME TypeOK, ArgsInv, NEW c \in Calls,
         OpenTouch(c) \/ OpenInsert(c) \/ SaveBytes(c) \/ Ran(c)
  PROVE  FilesMove(c) /\ BytesMove(c)
<1>1. CASE OpenTouch(c) \/ OpenInsert(c) \/ Ran(c) \/ Unchanged
  <2>1. db' = db \/ \E S : db' = [db EXCEPT !.sessions = S]
    BY <1>1 DEF OpenTouch, OpenInsert, Ran, Executed, Fetched, Unchanged, Insert
  <2> QED
    BY <2>1, OthersMove
<1>2. CASE SaveBytes(c) /\ ~Unchanged
  <2> DEFINE row == [id |-> args[c].thread, content |-> c]
             B == (db.bytes \ BytesOf(args[c].thread)) \cup {row}
  <2>1. db' = [db EXCEPT !.bytes = B] /\ pc[c] = "save" /\ pc'[c] = "touchAgain"
    BY <1>2 DEF SaveBytes, Executed, Goto, TypeOK
  <2>2. args[c].thread \in Threads
    BY <1>2 DEF SaveBytes, ArgsInv, Active, Over
  <2>3. \A b \in BytesOf(args[c].thread) : b.id \notin Calls
    BY <2>2 DEF BytesOf, StoreAssumption
  <2>4. NewBytes(c, row)
    BY <2>1 DEF NewBytes
  <2> HIDE DEF row
  <2> QED
    BY <2>1, <2>3, <2>4, OnlyBytesMove
<1> QED
  BY <1>1, <1>2

LEMMA CallRows ==
  ASSUME TypeOK, ArgsInv, Asked, NEW c \in Calls, First(c) \/ Later(c)
  PROVE  FilesMove(c) /\ BytesMove(c)
BY FirstRows, UpsertRows, SnapshotRows, RestoreRows, SaveRows DEF Later

\* The sessions a call adds have the VFS they should have.
LEMMA InsertVfs ==
  ASSUME TypeOK, NEW id, NEW vfs, NEW parent, db' = Insert(Session(id, vfs, parent)),
         IF id \in Calls THEN vfs = id ELSE vfs \in {id, Workspace[id]}
  PROVE  \A s \in db'.sessions \ db.sessions : VfsOfSession(s)
<1>1. db'.sessions = db.sessions \cup {Session(id, vfs, parent)}
  BY DEF Insert, TypeOK, Tables
<1>2. Session(id, vfs, parent).id = id /\ Session(id, vfs, parent).vfs = vfs
  BY DEF Session
<1> QED
  BY <1>1, <1>2 DEF VfsOfSession

LEMMA CallVfs ==
  ASSUME TypeOK, ArgsInv, Asked, NEW c \in Calls, First(c) \/ Later(c)
  PROVE  \A s \in db'.sessions \ db.sessions : VfsOfSession(s)
<1>1. ASSUME NEW t \in Threads, db' = Insert(Session(t, Workspace[t], None))
      PROVE  \A s \in db'.sessions \ db.sessions : VfsOfSession(s)
  <2>1. t \notin Calls
    BY DEF StoreAssumption
  <2> QED
    BY <1>1, <2>1, InsertVfs
<1>2. ASSUME NEW t \in Threads, db' = Insert(Session(t, t, None))
      PROVE  \A s \in db'.sessions \ db.sessions : VfsOfSession(s)
  <2>1. t \notin Calls
    BY DEF StoreAssumption
  <2> QED
    BY <1>2, <2>1, InsertVfs
<1>3. CASE \E t \in Threads : Create(c, t) \/ \E p \in Paths : EnsureSession(c, t, p)
  <2> PICK t \in Threads : Create(c, t) \/ \E p \in Paths : EnsureSession(c, t, p)
    BY <1>3
  <2>1. db' = db \/ db' = Insert(Session(t, Workspace[t], None))
    BY DEF Create, EnsureSession, Fetched, Executed, Unchanged
  <2> QED
    BY <1>1, <2>1
<1>4. CASE OpenInsert(c)
  <2>1. args[c].thread \in Threads /\ args[c].vfs = args[c].thread
    BY <1>4 DEF OpenInsert, ArgsInv, Active, Over, Asked
  <2>2. db' = db \/ db' = Insert(Session(args[c].thread, args[c].vfs, None))
    BY <1>4 DEF OpenInsert, Fetched, Unchanged
  <2> QED
    BY <1>2, <2>1, <2>2
<1>5. CASE RestInsert(c)
  <2>1. args[c].thread \in Threads
    BY <1>5 DEF RestInsert, ArgsInv, Active, Over
  <2>2. db' = db \/ db' = Insert(Session(args[c].thread, args[c].thread, None))
    BY <1>5 DEF RestInsert, Executed, Unchanged
  <2> QED
    BY <1>2, <2>1, <2>2
<1>6. CASE SnapInsert(c)
  <2>1. db' = db \/ db' = Insert(Session(c, c, args[c].thread))
    BY <1>6 DEF SnapInsert, Executed, Unchanged
  <2> QED
    BY <2>1, InsertVfs
<1>7. CASE \E t \in Threads : \/ OpenSelect(c, t) \/ Reset(c, t) \/ SnapSelect(c, t)
                              \/ \E p \in Paths : Unlink(c, t, p)
                              \/ \E s \in Calls : RestSelect(c, t, s)
  <2>1. db'.sessions = db.sessions
    BY <1>7 DEF OpenSelect, Reset, SnapSelect, Unlink, RestSelect, Executed, Unchanged,
                TypeOK, Tables
  <2> QED
    BY <2>1
<1>8. CASE \/ OpenTouch(c) \/ SaveBytes(c) \/ Ran(c) \/ RestTarget(c)
           \/ SnapBytes(c) \/ WipeBytes(c) \/ RestBytes(c)
  <2>1. db' = db \/ \E B : db' = [db EXCEPT !.bytes = B]
    BY <1>8 DEF OpenTouch, SaveBytes, Ran, RestTarget, SnapBytes, WipeBytes, RestBytes,
                Executed, Unchanged
  <2> QED
    BY <2>1 DEF TypeOK, Tables
<1>9. CASE Upsert(c) \/ SnapFiles(c) \/ WipeFiles(c) \/ RestFiles(c)
  <2>1. db' = db \/ \E F : db' = [db EXCEPT !.files = F]
    BY <1>9 DEF Upsert, SnapFiles, WipeFiles, RestFiles, Executed, Fetched, Unchanged
  <2> QED
    BY <2>1 DEF TypeOK, Tables
<1>10. First(c) => \E t \in Threads :
         \/ Create(c, t) \/ OpenSelect(c, t) \/ Reset(c, t) \/ SnapSelect(c, t)
         \/ \E p \in Paths : EnsureSession(c, t, p) \/ Unlink(c, t, p)
         \/ \E s \in Calls : RestSelect(c, t, s)
  BY FirstCases
<1> QED
  BY <1>3, <1>4, <1>5, <1>6, <1>7, <1>8, <1>9, <1>10 DEF Later

(***************************************************************************)
(* Every row has its source after a step of a call.                        *)
(***************************************************************************)
\* Files in the VFS of a snapshot are what the snapshot recorded.
LEMMA SnapshotHolds ==
  ASSUME TypeOK, Asked, Sourced(db), NEW s \in Calls, NEW e \in FilesAt(db, s)
  PROVE  args[s].op = "snapshot" /\ e \in took[s]
<1> PICK f \in db.files : f.vfs = s /\ e = <<f.path, f.content>>
  BY DEF FilesAt
<1>1. FileSource(f) /\ f.content \in Calls
  BY Parts DEF Sourced, FileRows
<1>2. Holds(s, f.path, f.content)
  BY <1>1 DEF FileSource, Asked
<1> QED
  BY <1>2 DEF Holds

LEMMA CallFilesSourced ==
  ASSUME TypeOK, ArgsInv, SourceInv, NEW c \in Calls, First(c) \/ Later(c)
  PROVE  \A f \in db'.files : FileSource(f)'
<1>0. /\ Asked /\ Sourced(db) /\ Steady /\ Alone(c) /\ FilesMove(c)
      /\ \A x \in Calls : Settled(x) => Settled(x)'
  BY CallSteady, CallRows DEF SourceInv, Steady
<1>1. ASSUME NEW f \in db.files PROVE FileSource(f)'
  BY <1>0, Parts, SourcesStay DEF Sourced
<1>2. ASSUME NEW f \in db'.files \ db.files PROVE FileSource(f)'
  <2>1. NewFile(c, f)
    BY <1>0 DEF FilesMove
  <2>2. CASE pc[c] = "upsert" /\ pc'[c] = "done" /\ f.content = c /\ f.vfs = args[c].vfs
    <3>1. args[c].op = "write" /\ args[c].vfs \notin Calls /\ args'[c] = args[c]
      BY <1>0, <2>2 DEF Asked, Steady
    <3>2. Settled(c)'
      BY <2>2 DEF Settled, Over
    <3> QED
      BY <2>2, <3>1, <3>2 DEF FileSource
  <2>3. CASE /\ pc[c] = "snapFiles" /\ f.vfs = c /\ f.owner = c
             /\ took'[c] = FilesAt(db, args[c].vfs)
             /\ Entry(f) \in FilesAt(db, args[c].vfs)
    <3>1. args[c].op = "snapshot" /\ args'[c] = args[c]
      BY <1>0, <2>3 DEF Asked, Snapping, Steady
    <3>2. Settled(f.content)'
      BY <1>0, <2>3, RecordedSettled DEF Entry
    <3>3. Holds(f.vfs, f.path, f.content)'
      BY <2>3, <3>1 DEF Holds, Entry
    <3> QED
      BY <2>3, <3>2, <3>3 DEF FileSource
  <2>4. CASE /\ pc[c] = "restFiles" /\ f.vfs = args[c].vfs
             /\ Entry(f) \in FilesAt(db, args[c].snap)
    <3>1. /\ args[c].op = "restore" /\ args[c].snap \in Calls /\ args[c].vfs \notin Calls
          /\ args'[c] = args[c] /\ pc'[c] # "restTarget"
      BY <1>0, <2>4 DEF Asked, Restoring, Steady
    <3>2. Settled(f.content)'
      BY <1>0, <2>4, RecordedSettled DEF Entry
    <3>3. args[args[c].snap].op = "snapshot" /\ Entry(f) \in took[args[c].snap]
      BY <1>0, <2>4, <3>1, SnapshotHolds
    <3>4. args'[args[c].snap] = args[args[c].snap] /\ Entry(f) \in took'[args[c].snap]
      BY <1>0, <3>1, <3>3, NoneIsNoCall DEF Asked, Steady, Restoring, Ops
    <3>5. Holds(args[c].snap, f.path, f.content)'
      BY <3>1, <3>3, <3>4 DEF Holds, Entry
    <3> QED
      BY <2>4, <3>1, <3>2, <3>5 DEF FileSource
  <2> QED
    BY <2>1, <2>2, <2>3, <2>4 DEF NewFile
<1> QED
  BY <1>1, <1>2

LEMMA CallBytesSourced ==
  ASSUME TypeOK, ArgsInv, SourceInv, NEW c \in Calls, First(c) \/ Later(c)
  PROVE  \A b \in db'.bytes : ByteSource(b)'
<1>0. /\ Asked /\ Sourced(db) /\ Steady /\ BytesMove(c)
      /\ \A x \in Calls : Settled(x) => Settled(x)'
  BY CallSteady, CallRows DEF SourceInv, Steady
<1>1. ASSUME NEW b \in db.bytes PROVE ByteSource(b)'
  BY <1>0, Parts, SourcesStay DEF Sourced
<1>2. ASSUME NEW b \in db'.bytes \ db.bytes PROVE ByteSource(b)'
  <2>1. NewBytes(c, b)
    BY <1>0 DEF BytesMove
  <2>2. pc[c] \in {"save", "restBytes"} => args[c].thread \notin Calls
    BY DEF ArgsInv, Active, Over, StoreAssumption
  <2>3. CASE pc[c] = "save" /\ pc'[c] = "touchAgain" /\ b.id = args[c].thread /\ b.content = c
    BY <2>2, <2>3 DEF ByteSource, Settled
  <2>4. CASE /\ pc[c] = "snapBytes" /\ pc'[c] = "done" /\ b.id = c
             /\ <<Memory, b.content>> \in MemoryAt(db, args[c].thread)
    BY <1>0, <2>4, RecordedSettled DEF ByteSource
  <2>5. CASE /\ pc[c] = "restBytes" /\ b.id = args[c].thread
             /\ <<Memory, b.content>> \in MemoryAt(db, args[c].snap)
    BY <1>0, <2>2, <2>5, RecordedSettled DEF ByteSource
  <2> QED
    BY <2>1, <2>3, <2>4, <2>5 DEF NewBytes
<1> QED
  BY <1>1, <1>2

(***************************************************************************)
(* The copy of a snapshot.                                                 *)
(***************************************************************************)
\* Nobody but the snapshot itself writes to it.
LEMMA CopiesStay ==
  ASSUME TypeOK, ArgsInv, SourceInv, NEW c \in Calls, First(c) \/ Later(c), NEW s \in Calls
  PROVE  /\ ~(s = c /\ pc[c] = "snapFiles") => FilesAt(db', s) = FilesAt(db, s)
         /\ ~(s = c /\ pc[c] = "snapBytes") => MemoryAt(db', s) = MemoryAt(db, s)
<1>0. Asked /\ FilesMove(c) /\ BytesMove(c)
  BY CallRows DEF SourceInv
<1>1. ASSUME ~(s = c /\ pc[c] = "snapFiles") PROVE FilesAt(db', s) = FilesAt(db, s)
  <2>1. \A f \in db'.files \ db.files : f.vfs # s
    BY <1>0, <1>1 DEF FilesMove, NewFile, Asked
  <2>2. {f \in db'.files : f.vfs = s} = {f \in db.files : f.vfs = s}
    BY <1>0, <2>1 DEF FilesMove
  <2> QED
    BY <2>2 DEF FilesAt
<1>2. ASSUME ~(s = c /\ pc[c] = "snapBytes") PROVE MemoryAt(db', s) = MemoryAt(db, s)
  <2>0. pc[c] \in {"save", "restBytes"} => args[c].thread \notin Calls
    BY DEF ArgsInv, Active, Over, StoreAssumption
  <2>1. \A b \in db'.bytes \ db.bytes : b.id # s
    BY <1>0, <1>2, <2>0 DEF BytesMove, NewBytes
  <2>2. {b \in db'.bytes : b.id = s} = {b \in db.bytes : b.id = s}
    BY <1>0, <2>1 DEF BytesMove
  <2> QED
    BY <2>2 DEF MemoryAt
<1> QED
  BY <1>1, <1>2

LEMMA SnapFilesHeld ==
  ASSUME TypeOK, Asked, Sourced(db), NEW c \in Calls, SnapFiles(c), pc'[c] = "snapBytes"
  PROVE  FilesAt(db', c) = took'[c] /\ disk' = db'
<1> DEFINE copies == Copies(args[c].vfs, c, c)
<1>1. /\ db' = [db EXCEPT !.files = db.files \cup copies] /\ disk' = db'
      /\ took'[c] = FilesAt(db, args[c].vfs) /\ pc[c] = "snapFiles"
  BY DEF SnapFiles, Executed, Goto, TypeOK
<1>2. \A f \in db.files : f.vfs # c
  <2> SUFFICES ASSUME NEW f \in db.files, f.vfs = c PROVE FALSE
    OBVIOUS
  <2>1. <<f.path, f.content>> \in FilesAt(db, c)
    BY DEF FilesAt
  <2> QED
    BY <1>1, <2>1, SnapshotHolds DEF Asked
<1>3. db'.files = db.files \cup copies
  BY <1>1 DEF TypeOK, Tables
<1>4. \A f \in copies : f.vfs = c /\ Entry(f) \in FilesAt(db, args[c].vfs)
  BY CopyEntries
<1>5. \A e \in FilesAt(db, args[c].vfs) : \E f \in copies : Entry(f) = e
  BY CopyEntries
<1> HIDE DEF copies
<1>6. {f \in db'.files : f.vfs = c} = copies
  BY <1>2, <1>3, <1>4
<1>7. FilesAt(db', c) = {Entry(f) : f \in copies}
  BY <1>6 DEF FilesAt, Entry
<1>8. FilesAt(db', c) \subseteq FilesAt(db, args[c].vfs)
  BY <1>4, <1>7
<1>9. FilesAt(db, args[c].vfs) \subseteq FilesAt(db', c)
  BY <1>5, <1>7
<1>10. FilesAt(db', c) = FilesAt(db, args[c].vfs)
  BY <1>8, <1>9
<1> QED
  BY <1>1, <1>10

LEMMA SnapBytesHeld ==
  ASSUME TypeOK, Asked, Sourced(db), NEW c \in Calls, SnapBytes(c), pc'[c] = "done"
  PROVE  /\ MemoryAt(db', c) = MemoryAt(db, args[c].thread)
         /\ took'[c] = took[c] \cup MemoryAt(db, args[c].thread)
         /\ disk' = db'
<1> DEFINE t == args[c].thread
           copy(b) == [b EXCEPT !.id = c]
           copies == {copy(b) : b \in BytesOf(t)}
<1>1. /\ db' = [db EXCEPT !.bytes = db.bytes \cup copies] /\ disk' = db'
      /\ took'[c] = took[c] \cup MemoryAt(db, t) /\ pc[c] = "snapBytes"
  BY DEF SnapBytes, Executed, Goto, TypeOK
<1>2. \A b \in db.bytes : b.id # c
  BY <1>1 DEF Sourced, ByteSource
<1>3. db'.bytes = db.bytes \cup copies
  BY <1>1 DEF TypeOK, Tables
<1>4. \A b \in BytesOf(t) : copy(b).id = c /\ copy(b).content = b.content
  BY Parts DEF BytesOf, ByteRows
<1> HIDE DEF copy
<1>5. {b \in db'.bytes : b.id = c} = copies
  BY <1>2, <1>3, <1>4
<1>6. MemoryAt(db', c) = {<<Memory, b.content>> : b \in copies}
  BY <1>5 DEF MemoryAt
<1>7. MemoryAt(db, t) = {<<Memory, b.content>> : b \in BytesOf(t)}
  BY DEF MemoryAt, BytesOf
<1>8. {<<Memory, b.content>> : b \in copies} = {<<Memory, b.content>> : b \in BytesOf(t)}
  BY <1>4
<1> QED
  BY <1>1, <1>6, <1>7, <1>8

LEMMA CallHeld ==
  ASSUME TypeOK, ArgsInv, SourceInv, CleanInv, NEW c \in Calls, First(c) \/ Later(c)
  PROVE  SnapHeld(db)' /\ (disk' = disk => SnapHeld(disk)')
<1>0. /\ Asked /\ Sourced(db) /\ Sourced(disk) /\ SnapHeld(db) /\ SnapHeld(disk)
      /\ Steady /\ Alone(c)
  BY CallSteady DEF SourceInv, Sourced
\* The moves that complete a copy.
<1>1. pc'[c] = "snapBytes" => SnapFiles(c)
  <2>1. First(c) => pc'[c] # "snapBytes"
    BY FirstMoves
  <2>2. Later(c) => Successor(c)
    BY LaterMoves
  <2>3. Later(c) /\ pc'[c] = "snapBytes" => pc[c] = "snapFiles"
    BY <2>2 DEF Successor
  <2> QED
    BY <2>1, <2>3 DEF Later, OpenTouch, OpenInsert, SaveBytes, Ran, Upsert, SnapInsert,
                      SnapBytes, RestTarget, RestInsert, WipeFiles, WipeBytes, RestFiles,
                      RestBytes
<1>2. pc'[c] = "done" /\ args'[c].op = "snapshot" => SnapBytes(c) /\ pc[c] = "snapBytes"
  <2>1. First(c) => ~(pc'[c] = "done" /\ args'[c].op = "snapshot")
    BY <1>0, FirstAsked
  <2>2. Later(c) => Successor(c) /\ args'[c].op = args[c].op
    <3>1. ASSUME NEW v, args'[c] = [args[c] EXCEPT !.vfs = v]
          PROVE  args'[c].op = args[c].op
      BY <3>1 DEF TypeOK, ArgRows
    <3>2. Later(c) => \/ args'[c] = args[c]
                      \/ \E s \in db.sessions : args'[c] = [args[c] EXCEPT !.vfs = s.vfs]
      BY LaterArgsStay
    <3> QED
      BY <3>1, <3>2, LaterMoves
  <2>3. Later(c) /\ pc'[c] = "done" /\ args'[c].op = "snapshot" => pc[c] = "snapBytes"
    BY <1>0, <2>2 DEF Successor, Asked, Running, Restoring
  <2> QED
    BY <2>1, <2>3 DEF Later, OpenTouch, OpenInsert, SaveBytes, Ran, Upsert, SnapInsert,
                      SnapFiles, RestTarget, RestInsert, WipeFiles, WipeBytes, RestFiles,
                      RestBytes
<1>3. \A x \in Calls : x # c => /\ pc'[x] = pc[x] /\ args'[x] = args[x]
                                /\ args[x].op = "snapshot" => took'[x] = took[x]
  BY <1>0 DEF Alone
<1>4. \A x \in Calls : pc[x] = "snapBytes" => args[x].op = "snapshot"
  BY <1>0 DEF Asked, Snapping
<1>5. ASSUME NEW x \in Calls, \E s \in db'.sessions : s.id = x
      PROVE  /\ pc'[x] = "snapBytes" => FilesAt(db', x) = took'[x]
             /\ pc'[x] = "done" /\ args'[x].op = "snapshot"
                  => FilesAt(db', x) \cup MemoryAt(db', x) = took'[x]
  <2>1. (\E s \in db.sessions : s.id = x) \/ (x = c /\ pc'[c] = "snapFiles")
    <3>1. Grows(c)
      BY FirstGrows, LaterGrows DEF CleanInv
    <3> QED
      BY <1>5, <3>1 DEF Grows
  <2>2. CASE x # c
    <3>1. FilesAt(db', x) = FilesAt(db, x) /\ MemoryAt(db', x) = MemoryAt(db, x)
      BY <2>2, CopiesStay
    <3> QED
      BY <1>0, <1>3, <1>4, <2>1, <2>2, <3>1 DEF SnapHeld
  <2>3. CASE x = c /\ pc'[c] = "snapBytes"
    BY <1>0, <1>1, <2>3, SnapFilesHeld
  <2>4. CASE x = c /\ pc'[c] = "done" /\ args'[c].op = "snapshot"
    <3>1. SnapBytes(c) /\ pc[c] = "snapBytes"
      BY <1>2, <2>4
    <3>2. FilesAt(db', c) = FilesAt(db, c)
      BY <3>1, CopiesStay
    <3>3. FilesAt(db, c) = took[c]
      BY <1>0, <2>1, <2>4, <3>1 DEF SnapHeld
    <3> QED
      BY <1>0, <2>4, <3>1, <3>2, <3>3, SnapBytesHeld
  <2> QED
    BY <2>2, <2>3, <2>4
<1>6. ASSUME disk' = disk, NEW x \in Calls, \E s \in disk.sessions : s.id = x
      PROVE  /\ pc'[x] = "snapBytes" => FilesAt(disk', x) = took'[x]
             /\ pc'[x] = "done" /\ args'[x].op = "snapshot"
                  => FilesAt(disk', x) \cup MemoryAt(disk', x) = took'[x]
  <2>1. CASE x # c
    BY <1>0, <1>3, <1>4, <1>6, <2>1 DEF SnapHeld
  <2>2. CASE x = c /\ pc'[c] = "snapBytes"
    BY <1>0, <1>1, <2>2, SnapFilesHeld
  <2>3. CASE x = c /\ pc'[c] = "done" /\ args'[c].op = "snapshot"
    <3>1. SnapBytes(c) /\ pc[c] = "snapBytes" /\ disk' = db'
      BY <1>0, <1>2, <2>3, SnapBytesHeld
    <3>2. \E s \in db'.sessions : s.id = x
      BY <1>6, <3>1
    <3> QED
      BY <1>5, <2>3, <3>1, <3>2
  <2> QED
    BY <2>1, <2>2, <2>3
<1> QED
  BY <1>5, <1>6 DEF SnapHeld

LEMMA CallSourced ==
  ASSUME TypeOK, ArgsInv, SourceInv, CleanInv, NEW c \in Calls, First(c) \/ Later(c)
  PROVE  Sourced(db)' /\ Sourced(disk)'
<1>0. Asked /\ Sourced(db) /\ Sourced(disk) /\ Steady
  BY CallSteady DEF SourceInv
<1>1. \A s \in db'.sessions : VfsOfSession(s)
  BY <1>0, CallVfs DEF Sourced
<1>2. Sourced(db)'
  BY <1>1, CallFilesSourced, CallBytesSourced, CallHeld DEF Sourced, VfsOfSession
<1>3. CASE disk' = disk
  <2>1. \A f \in disk.files : FileSource(f)'
    BY <1>0, SourcesStay DEF Sourced, TypeOK, Tables
  <2>2. \A b \in disk.bytes : ByteSource(b)'
    BY <1>0, SourcesStay DEF Sourced, TypeOK, Tables
  <2>3. SnapHeld(disk)'
    BY <1>3, CallHeld
  <2> QED
    BY <1>0, <1>2, <1>3, <2>1, <2>2, <2>3 DEF Sourced, VfsOfSession
<1>4. CASE disk' = db'
  BY <1>2, <1>4 DEF Sourced, SnapHeld, FilesAt, MemoryAt
<1> QED
  BY <1>3, <1>4, FirstGrows, LaterGrows DEF CleanInv

(***************************************************************************)
(* The cleanup, time and restarts.                                         *)
(***************************************************************************)
\* The cleanup only deletes, and of a snapshot that stays it deletes nothing.
LEMMA CleanRows ==
  ASSUME TypeOK, SourceInv, Clean
  PROVE  /\ db'.sessions \subseteq db.sessions
         /\ db'.files \subseteq db.files
         /\ db'.bytes \subseteq db.bytes
         /\ \A c \in Calls : (\E s \in db'.sessions : s.id = c) =>
              FilesAt(db', c) = FilesAt(db, c) /\ MemoryAt(db', c) = MemoryAt(db, c)
         /\ (UNCHANGED <<db, disk>> \/ disk' = db')
<1>1. CASE CleanLook \/ CleanList \/ CleanOrphans
  BY <1>1 DEF CleanLook, CleanList, CleanOrphans, Unchanged
<1>2. CASE CleanDelete
  <2> DEFINE gone == victims \cup {s.id : s \in {x \in db.sessions : x.parent \in victims}}
  <2>1. /\ db'.sessions = {s \in db.sessions : s.id \notin gone}
        /\ db'.files = {f \in db.files : f.owner \notin gone}
        /\ db'.bytes = {b \in db.bytes : b.id \notin gone}
        /\ disk' = db'
    BY <1>2 DEF CleanDelete, Executed, Without
  <2> HIDE DEF gone
  <2>2. ASSUME NEW c \in Calls, NEW s \in db'.sessions, s.id = c
        PROVE  FilesAt(db', c) = FilesAt(db, c) /\ MemoryAt(db', c) = MemoryAt(db, c)
    <3>1. c \notin gone
      BY <2>1, <2>2
    <3>2. \A f \in db.files : f.vfs = c => f.owner = c
      BY DEF SourceInv, Sourced, FileSource
    <3>3. {f \in db'.files : f.vfs = c} = {f \in db.files : f.vfs = c}
      BY <2>1, <3>1, <3>2
    <3>4. {b \in db'.bytes : b.id = c} = {b \in db.bytes : b.id = c}
      BY <2>1, <3>1
    <3> QED
      BY <3>3, <3>4 DEF FilesAt, MemoryAt
  <2> QED
    BY <2>1, <2>2
<1>3. CASE CleanSweep
  <2>1. /\ db'.sessions = db.sessions
        /\ db'.files = db.files \ Orphans
        /\ db'.bytes = db.bytes
        /\ disk' = db'
    BY <1>3 DEF CleanSweep, Executed, TypeOK, Tables
  <2>2. ASSUME NEW c \in Calls, NEW s \in db'.sessions, s.id = c
        PROVE  FilesAt(db', c) = FilesAt(db, c) /\ MemoryAt(db', c) = MemoryAt(db, c)
    <3>1. s \in db.sessions /\ s.vfs = c
      BY <2>1, <2>2 DEF SourceInv, Sourced, VfsOfSession
    <3>2. \A f \in db.files : f.vfs = c => f \notin Orphans
      BY <3>1 DEF Orphans
    <3>3. {f \in db'.files : f.vfs = c} = {f \in db.files : f.vfs = c}
      BY <2>1, <3>2
    <3> QED
      BY <2>1, <3>3 DEF FilesAt, MemoryAt
  <2> QED
    BY <2>1, <2>2
<1> QED
  BY <1>1, <1>2, <1>3 DEF Clean

LEMMA CleanSourced ==
  ASSUME TypeOK, SourceInv, Clean
  PROVE  Sourced(db)' /\ Sourced(disk)' /\ Gone'
<1>0. UNCHANGED <<pc, args, took>>
  BY DEF Clean, CleanLook, CleanList, CleanDelete, CleanOrphans, CleanSweep,
         besideCleaner
<1>1. Sourced(db)'
  <2>1. SnapHeld(db)'
    BY <1>0, CleanRows DEF SnapHeld, SourceInv, Sourced
  <2>2. /\ \A f \in db'.files : FileSource(f)'
        /\ \A b \in db'.bytes : ByteSource(b)'
    BY <1>0, CleanRows DEF SourceInv, Sourced, FileSource, ByteSource, Settled, Holds
  <2>3. \A s \in db'.sessions : VfsOfSession(s)
    BY CleanRows DEF SourceInv, Sourced
  <2> QED
    BY <2>1, <2>2, <2>3 DEF Sourced, VfsOfSession
<1>2. Sourced(disk)'
  <2>1. CASE UNCHANGED <<db, disk>>
    BY <1>0, <2>1 DEF SourceInv, Sourced, SnapHeld, FileSource, ByteSource, Settled, Holds
  <2>2. CASE disk' = db'
    BY <1>1, <2>2 DEF Sourced, SnapHeld, FilesAt, MemoryAt
  <2> QED
    BY <2>1, <2>2, CleanRows
<1>3. Gone'
  <2>1. \A v : FilesAt(db', v) \subseteq FilesAt(db, v)
    BY CleanRows DEF FilesAt
  <2>2. \A id : MemoryAt(db', id) \subseteq MemoryAt(db, id)
    BY CleanRows DEF MemoryAt
  <2> QED
    BY <1>0, <2>1, <2>2 DEF SourceInv, Gone
<1> QED
  BY <1>1, <1>2, <1>3

LEMMA AgedSourced ==
  ASSUME NEW d \in Tables, NEW id, Sourced(d)
  PROVE  Sourced(Aged(d, id))
<1> DEFINE old(s) == IF s.id = id THEN [s EXCEPT !.expired = TRUE] ELSE s
<1>1. /\ Aged(d, id).sessions = {old(s) : s \in d.sessions}
      /\ Aged(d, id).files = d.files /\ Aged(d, id).bytes = d.bytes
  BY DEF Aged, Tables
<1>2. \A s \in d.sessions : old(s).id = s.id /\ old(s).vfs = s.vfs
  BY DEF Tables, SessionRows
<1> HIDE DEF old
<1>3. \A s \in Aged(d, id).sessions : \E x \in d.sessions : x.id = s.id /\ x.vfs = s.vfs
  BY <1>1, <1>2
<1>4. \A s \in Aged(d, id).sessions : VfsOfSession(s)
  BY <1>3 DEF Sourced, VfsOfSession
<1>5. SnapHeld(Aged(d, id))
  <2>1. \A v : FilesAt(Aged(d, id), v) = FilesAt(d, v) /\ MemoryAt(Aged(d, id), v) = MemoryAt(d, v)
    BY <1>1 DEF FilesAt, MemoryAt
  <2> QED
    BY <1>3, <2>1 DEF Sourced, SnapHeld
<1> QED
  BY <1>1, <1>4, <1>5 DEF Sourced

LEMMA ExpireSourced ==
  ASSUME TypeOK, SourceInv, NEW id, Expire(id)
  PROVE  Sourced(db)' /\ Sourced(disk)' /\ Gone'
<1>0. /\ UNCHANGED <<pc, args, took>>
      /\ db' = Aged(db, id) /\ disk' = Aged(disk, id)
      /\ db'.files = db.files /\ db'.bytes = db.bytes
  BY DEF Expire, Aged, TypeOK, Tables
<1>1. Sourced(Aged(db, id)) /\ Sourced(Aged(disk, id))
  BY AgedSourced DEF SourceInv, TypeOK
<1>2. Sourced(db') /\ Sourced(disk')
  BY <1>0, <1>1
<1>3. Sourced(db)'
  BY <1>0, <1>2 DEF Sourced, SnapHeld, FileSource, ByteSource, Settled, Holds, VfsOfSession,
                    FilesAt, MemoryAt
<1>4. Sourced(disk)'
  BY <1>0, <1>2 DEF Sourced, SnapHeld, FileSource, ByteSource, Settled, Holds, VfsOfSession,
                    FilesAt, MemoryAt
<1>5. Gone'
  BY <1>0 DEF SourceInv, Gone, FilesAt, MemoryAt
<1> QED
  BY <1>3, <1>4, <1>5

LEMMA RestartSourced ==
  ASSUME TypeOK, SourceInv, Restart
  PROVE  Sourced(db)' /\ Sourced(disk)' /\ Gone'
<1>0. /\ db' = disk /\ disk' = disk /\ UNCHANGED <<args, took>>
      /\ \A x \in Calls : pc'[x] \in Over \cup {"idle"}
      /\ \A x \in Calls : pc'[x] = pc[x] \/ pc'[x] = "crashed"
  BY DEF Restart, TypeOK, Over
<1>1. Steady
  BY DEF Restart, Steady, Settled, Over, TypeOK
<1>2. /\ \A f \in disk.files : FileSource(f)'
      /\ \A b \in disk.bytes : ByteSource(b)'
  BY <1>1, SourcesStay DEF SourceInv, Sourced, TypeOK, Tables
<1>3. SnapHeld(disk)'
  BY <1>0 DEF SourceInv, Sourced, SnapHeld
<1>4. Sourced(disk)'
  BY <1>0, <1>2, <1>3 DEF SourceInv, Sourced, VfsOfSession
<1>5. Sourced(db)'
  BY <1>0, <1>4 DEF Sourced, SnapHeld, FilesAt, MemoryAt
<1>6. Gone'
  BY <1>0 DEF Gone, Over
<1> QED
  BY <1>4, <1>5, <1>6

(***************************************************************************)
(* What a restore has deleted stays away until its own copies come.        *)
(***************************************************************************)
\* What another call adds to the target is new, or no longer in the history.
LEMMA OthersGone ==
  ASSUME TypeOK, ArgsInv, SourceInv, NEW c \in Calls, First(c) \/ Later(c),
         NEW x \in Calls, x # c
  PROVE  /\ pc[x] \in {"wipeBytes", "restFiles"} =>
              FilesAt(db', args[x].vfs) \cap took'[x] = {}
         /\ pc[x] \in {"restFiles", "restBytes"} =>
              MemoryAt(db', args[x].thread) \cap took'[x] = {}
<1>0. Asked /\ Gone /\ Alone(c) /\ FilesMove(c) /\ BytesMove(c)
  BY CallSteady, CallRows DEF SourceInv
<1>1. took'[x] \subseteq took[x]
  BY <1>0 DEF Alone
<1>2. pc[x] \in Restoring => /\ args[x].op = "restore" /\ args[x].vfs \notin Calls
                             /\ args[x].thread \notin Calls
  BY <1>0 DEF Asked, ArgsInv, Active, Over, Restoring, StoreAssumption
<1>3. pc[c] \in {"upsert", "save"} => \A e \in took[x] : e[2] # c
  BY <1>0 DEF Asked, Settled, Over
<1>4. ASSUME pc[x] \in {"wipeBytes", "restFiles"}, NEW f \in db'.files,
             f.vfs = args[x].vfs, Entry(f) \in took'[x]
      PROVE  FALSE
  <2>1. CASE f \in db.files
    <3>1. Entry(f) \in FilesAt(db, args[x].vfs)
      BY <1>4, <2>1 DEF FilesAt, Entry
    <3> QED
      BY <1>0, <1>1, <1>4, <3>1 DEF Gone
  <2>2. CASE f \notin db.files
    <3>1. NewFile(c, f)
      BY <1>0, <2>2 DEF FilesMove
    <3>2. CASE pc[c] = "upsert" /\ f.content = c
      BY <1>1, <1>3, <1>4, <3>2 DEF Entry
    <3>3. CASE f.vfs = c
      BY <1>2, <1>4, <3>3 DEF Restoring
    <3>4. CASE /\ f.vfs = args[c].vfs
               /\ Entry(f) \in FilesAt(db, args[c].snap)
               /\ PutBack(c, "vfs", FilesAt(db, args[c].snap))
      <4>1. args[x].op = "restore" /\ args[x].vfs = args[c].vfs
        BY <1>2, <1>4, <3>4 DEF Restoring
      <4>2. args[x]["vfs"] = args[c]["vfs"]
        BY <4>1
      <4>3. took'[x] = took[x] \ FilesAt(db, args[c].snap)
        BY <3>4, <4>1, <4>2, PutBackTakes
      <4> QED
        BY <1>4, <3>4, <4>3
    <3> QED
      BY <3>1, <3>2, <3>3, <3>4 DEF NewFile
  <2> QED
    BY <2>1, <2>2
<1>5. ASSUME pc[x] \in {"restFiles", "restBytes"}, NEW b \in db'.bytes,
             b.id = args[x].thread, <<Memory, b.content>> \in took'[x]
      PROVE  FALSE
  <2>1. CASE b \in db.bytes
    <3>1. <<Memory, b.content>> \in MemoryAt(db, args[x].thread)
      BY <1>5, <2>1 DEF MemoryAt
    <3> QED
      BY <1>0, <1>1, <1>5, <3>1 DEF Gone
  <2>2. CASE b \notin db.bytes
    <3>1. NewBytes(c, b)
      BY <1>0, <2>2 DEF BytesMove
    <3>2. CASE pc[c] = "save" /\ b.content = c
      BY <1>1, <1>3, <1>5, <3>2
    <3>3. CASE b.id = c
      BY <1>2, <1>5, <3>3 DEF Restoring
    <3>4. CASE /\ b.id = args[c].thread
               /\ <<Memory, b.content>> \in MemoryAt(db, args[c].snap)
               /\ PutBack(c, "thread", MemoryAt(db, args[c].snap))
      <4>1. args[x].op = "restore" /\ args[x].thread = args[c].thread
        BY <1>2, <1>5, <3>4 DEF Restoring
      <4>2. args[x]["thread"] = args[c]["thread"]
        BY <4>1
      <4>3. took'[x] = took[x] \ MemoryAt(db, args[c].snap)
        BY <3>4, <4>1, <4>2, PutBackTakes
      <4> QED
        BY <1>5, <3>4, <4>3
    <3> QED
      BY <3>1, <3>2, <3>3, <3>4 DEF NewBytes
  <2> QED
    BY <2>1, <2>2
<1>6. \A e \in FilesAt(db', args[x].vfs) :
        \E f \in db'.files : f.vfs = args[x].vfs /\ Entry(f) = e
  BY DEF FilesAt, Entry
<1>7. \A e \in MemoryAt(db', args[x].thread) :
        \E b \in db'.bytes : b.id = args[x].thread /\ <<Memory, b.content>> = e
  BY DEF MemoryAt
<1> QED
  BY <1>4, <1>5, <1>6, <1>7

\* Its own deletions delete what they record.
LEMMA OwnGone ==
  ASSUME TypeOK, Gone, NEW c \in Calls, Later(c)
  PROVE  /\ pc'[c] \in {"wipeBytes", "restFiles"} =>
              FilesAt(db', args[c].vfs) \cap took'[c] = {}
         /\ pc'[c] \in {"restFiles", "restBytes"} =>
              MemoryAt(db', args[c].thread) \cap took'[c] = {}
<1>0. Successor(c)
  BY LaterMoves
<1>1. CASE pc'[c] = "wipeBytes"
  <2>1. WipeFiles(c)
    BY <1>0, <1>1 DEF Successor, Later, OpenTouch, OpenInsert, SaveBytes, Ran, Upsert,
                      SnapInsert, SnapFiles, SnapBytes, RestTarget, RestInsert,
                      WipeBytes, RestFiles, RestBytes
  <2>2. db'.files = db.files \ InVfs(args[c].vfs)
    BY <2>1 DEF WipeFiles, Executed, TypeOK, Tables
  <2>3. FilesAt(db', args[c].vfs) = {}
    BY <2>2 DEF FilesAt, InVfs
  <2> QED
    BY <1>1, <2>3
<1>2. CASE pc'[c] = "restFiles"
  <2>1. WipeBytes(c)
    BY <1>0, <1>2 DEF Successor, Later, OpenTouch, OpenInsert, SaveBytes, Ran, Upsert,
                      SnapInsert, SnapFiles, SnapBytes, RestTarget, RestInsert,
                      WipeFiles, RestFiles, RestBytes
  <2>2. /\ db'.files = db.files /\ db'.bytes = db.bytes \ BytesOf(args[c].thread)
        /\ took'[c] = took[c] \cup MemoryAt(db, args[c].thread)
        /\ pc[c] = "wipeBytes"
    BY <2>1 DEF WipeBytes, Executed, TypeOK, Tables
  <2>3. MemoryAt(db', args[c].thread) = {}
    BY <2>2 DEF MemoryAt, BytesOf
  <2>4. FilesAt(db', args[c].vfs) = FilesAt(db, args[c].vfs)
    BY <2>2 DEF FilesAt
  <2>5. \A e \in FilesAt(db, args[c].vfs) : e[1] \in Paths
    BY Parts DEF FilesAt, FileRows
  <2>6. \A e \in MemoryAt(db, args[c].thread) : e[1] = Memory
    BY DEF MemoryAt
  <2>7. Memory \notin Paths
    BY DEF StoreAssumption
  <2>8. FilesAt(db, args[c].vfs) \cap took[c] = {}
    BY <2>2 DEF Gone
  <2> QED
    BY <2>2, <2>3, <2>4, <2>5, <2>6, <2>7, <2>8
<1>3. CASE pc'[c] = "restBytes"
  <2>1. RestFiles(c) /\ pc[c] = "restFiles"
    BY <1>0, <1>3 DEF Successor, Later, OpenTouch, OpenInsert, SaveBytes, Ran, Upsert,
                      SnapInsert, SnapFiles, SnapBytes, RestTarget, RestInsert,
                      WipeFiles, WipeBytes, RestBytes
  <2>2. db'.bytes = db.bytes
    BY <2>1 DEF RestFiles, Executed, Unchanged, TypeOK, Tables
  <2>3. took'[c] = took[c]
    BY <2>1, LaterTook
  <2>4. MemoryAt(db', args[c].thread) = MemoryAt(db, args[c].thread)
    BY <2>2 DEF MemoryAt
  <2> QED
    BY <1>3, <2>1, <2>3, <2>4 DEF Gone
<1> QED
  BY <1>1, <1>2, <1>3

LEMMA CallGone ==
  ASSUME TypeOK, ArgsInv, SourceInv, NEW c \in Calls, First(c) \/ Later(c)
  PROVE  Gone'
<1>0. Alone(c) /\ Gone
  BY CallSteady DEF SourceInv
<1>1. ASSUME NEW x \in Calls, x # c
      PROVE  pc'[x] = pc[x] /\ args'[x] = args[x]
  BY <1>0, <1>1 DEF Alone
<1>2. CASE First(c)
  <2>1. pc'[c] \notin {"wipeBytes", "restFiles", "restBytes"}
    BY <1>2, FirstMoves
  <2> QED
    BY <1>1, <2>1, OthersGone DEF Gone
<1>3. CASE Later(c)
  <2>1. pc'[c] \in {"wipeBytes", "restFiles", "restBytes"} => args'[c] = args[c]
    BY <1>3, LaterMoves, LaterArgsStay DEF Successor
  <2> QED
    BY <1>0, <1>1, <1>3, <2>1, OthersGone, OwnGone DEF Gone
<1> QED
  BY <1>2, <1>3

(***************************************************************************)
(* The theorems.                                                           *)
(***************************************************************************)
StoreInv == TypeOK /\ ArgsInv /\ CleanInv /\ SourceInv

LEMMA StepSource ==
  ASSUME StoreInv, [Next]_vars
  PROVE  SourceInv'
<1>0. TypeOK /\ ArgsInv /\ CleanInv /\ SourceInv
  BY DEF StoreInv
<1>1. Asked'
  BY <1>0, StepAsked
<1>2. CASE UNCHANGED vars
  <2>1. Sourced(db)' /\ Sourced(disk)'
    BY <1>0, <1>2 DEF vars, SourceInv, Sourced, SnapHeld, FileSource, ByteSource, Settled,
                      Holds, VfsOfSession, FilesAt, MemoryAt
  <2>2. Gone'
    BY <1>0, <1>2 DEF vars, SourceInv, Gone, FilesAt, MemoryAt
  <2> QED
    BY <1>1, <2>1, <2>2 DEF SourceInv
<1>3. CASE Next
  <2>1. Sourced(db)' /\ Sourced(disk)' /\ Gone'
    BY <1>0, <1>3, CallSourced, CallGone, CleanSourced, ExpireSourced, RestartSourced DEF Next
  <2> QED
    BY <1>1, <2>1 DEF SourceInv
<1> QED
  BY <1>2, <1>3

LEMMA InitStore == Init => StoreInv
<1> SUFFICES ASSUME Init PROVE StoreInv
  OBVIOUS
<1>1. TypeOK /\ ArgsInv
  BY DEF Init, TypeOK, ArgsInv, Active, Over, Labels, Tables, NoArgs, ArgRows
<1>2. CleanInv
  BY DEF Init, CleanInv, UniqueIds, FreshIds, VictimsExpired
<1>3. Asked
  BY NoneIsNoCall DEF Init, NoArgs, Asked, Running, Snapping, Restoring, Ops
<1>4. Sourced(db) /\ Sourced(disk) /\ Gone
  BY DEF Init, Sourced, SnapHeld, Gone
<1> QED
  BY <1>1, <1>2, <1>3, <1>4 DEF StoreInv, SourceInv

LEMMA StoreHolds == Spec => []StoreInv
<1>1. StoreInv /\ [Next]_vars => StoreInv'
  <2> SUFFICES ASSUME StoreInv, [Next]_vars PROVE StoreInv'
    OBVIOUS
  <2>1. TypeOK' /\ ArgsInv' /\ CleanInv'
    BY StepTyped, StepArgs, StepClean DEF StoreInv
  <2>2. SourceInv'
    BY StepSource
  <2> QED
    BY <2>1, <2>2 DEF StoreInv
<1> QED
  BY <1>1, InitStore, PTL DEF Spec

\* Nothing of one VFS gets into another by itself (Provenance): every file of
\* filesystem.py was written in its VFS, copied into a snapshot, or restored from one.
THEOREM FilesHaveSource == Spec => []Provenance
<1>1. StoreInv => Provenance
  BY DEF StoreInv, SourceInv, Sourced, FileSource, Provenance
<1> QED
  BY <1>1, StoreHolds, PTL

\* A finished snapshot keeps what it copied for as long as its session lives
\* (SnapshotFixed), whatever writes, restores, sweeps and restarts come.
THEOREM SnapshotsStay == Spec => []SnapshotFixed
<1>1. StoreInv => SnapshotFixed
  BY DEF StoreInv, SourceInv, Sourced, SnapHeld, HasSession, SnapshotFixed
<1> QED
  BY <1>1, StoreHolds, PTL

\* A label is left by a step of its own call.
LEMMA OwnStep ==
  ASSUME StoreInv, [Next]_vars, NEW c \in Calls, pc[c] \in {"restFiles", "restBytes"},
         pc'[c] \in {"restBytes", "done"}, pc'[c] # pc[c]
  PROVE  RestFiles(c) \/ RestBytes(c)
<1>0. TypeOK /\ Asked
  BY DEF StoreInv, SourceInv
<1>1. \E x \in Calls : First(x) \/ Later(x)
  BY <1>0 DEF Next, vars, Expire, Restart, Over, Clean, CleanLook, CleanList, CleanDelete,
              CleanOrphans, CleanSweep, besideCleaner, TypeOK
<1>2. First(c) \/ Later(c)
  BY <1>0, <1>1, CallSteady DEF Alone
<1>3. Later(c)
  BY <1>0, <1>2, FirstMoves
<1> QED
  BY <1>3 DEF Later, OpenTouch, OpenInsert, SaveBytes, Ran, Upsert, SnapInsert, SnapFiles,
              SnapBytes, RestTarget, RestInsert, WipeFiles, WipeBytes

LEMMA FilesRestored ==
  ASSUME TypeOK, Gone, NEW c \in Calls, RestFiles(c), pc'[c] = "restBytes"
  PROVE  /\ FilesAt(db, args[c].snap) \subseteq FilesAt(db', args[c].vfs)
         /\ FilesAt(db', args[c].vfs) \cap took[c] \subseteq FilesAt(db, args[c].snap)
<1> DEFINE copies == Copies(args[c].snap, args[c].thread, args[c].vfs)
<1>1. db'.files = db.files \cup copies /\ pc[c] = "restFiles"
  BY DEF RestFiles, Executed, Goto, TypeOK, Tables
<1>2. /\ \A f \in copies : f.vfs = args[c].vfs /\ Entry(f) \in FilesAt(db, args[c].snap)
      /\ \A e \in FilesAt(db, args[c].snap) : \E f \in copies : Entry(f) = e
  BY CopyEntries
<1> HIDE DEF copies
<1>3. FilesAt(db, args[c].snap) \subseteq FilesAt(db', args[c].vfs)
  BY <1>1, <1>2 DEF FilesAt, Entry
<1>4. ASSUME NEW e \in FilesAt(db', args[c].vfs), e \in took[c]
      PROVE  e \in FilesAt(db, args[c].snap)
  <2>1. PICK f \in db'.files : f.vfs = args[c].vfs /\ e = Entry(f)
    BY <1>4 DEF FilesAt, Entry
  <2>2. f \in db.files => e \in FilesAt(db, args[c].vfs)
    BY <2>1 DEF FilesAt, Entry
  <2> QED
    BY <1>1, <1>2, <1>4, <2>1, <2>2 DEF Gone
<1> QED
  BY <1>3, <1>4

LEMMA MemoryRestored ==
  ASSUME TypeOK, Gone, NEW c \in Calls, RestBytes(c), pc'[c] = "done"
  PROVE  /\ MemoryAt(db, args[c].snap) \subseteq MemoryAt(db', args[c].thread)
         /\ MemoryAt(db', args[c].thread) \cap took[c] \subseteq MemoryAt(db, args[c].snap)
<1> DEFINE t == args[c].thread
           copy(b) == [b EXCEPT !.id = t]
           copies == {copy(b) : b \in BytesOf(args[c].snap)}
<1>1. db'.bytes = db.bytes \cup copies /\ pc[c] = "restBytes"
  BY DEF RestBytes, Executed, Goto, TypeOK, Tables
<1>2. \A b \in BytesOf(args[c].snap) : copy(b).id = t /\ copy(b).content = b.content
  BY Parts DEF BytesOf, ByteRows
<1> HIDE DEF copy
<1>3. \A e \in MemoryAt(db, args[c].snap) :
        \E b \in BytesOf(args[c].snap) : <<Memory, b.content>> = e
  BY DEF MemoryAt, BytesOf
<1>4. \A b \in BytesOf(args[c].snap) : <<Memory, b.content>> \in MemoryAt(db, args[c].snap)
  BY DEF MemoryAt, BytesOf
<1>5. MemoryAt(db, args[c].snap) \subseteq MemoryAt(db', t)
  <2> SUFFICES ASSUME NEW e \in MemoryAt(db, args[c].snap) PROVE e \in MemoryAt(db', t)
    OBVIOUS
  <2>1. PICK b \in BytesOf(args[c].snap) : <<Memory, b.content>> = e
    BY <1>3
  <2>2. copy(b) \in db'.bytes /\ copy(b).id = t /\ <<Memory, copy(b).content>> = e
    BY <1>1, <1>2, <2>1
  <2> QED
    BY <2>2 DEF MemoryAt
<1>6. ASSUME NEW e \in MemoryAt(db', t), e \in took[c]
      PROVE  e \in MemoryAt(db, args[c].snap)
  <2>1. PICK b \in db'.bytes : b.id = t /\ e = <<Memory, b.content>>
    BY <1>6 DEF MemoryAt
  <2>2. b \in db.bytes => e \in MemoryAt(db, t)
    BY <2>1 DEF MemoryAt
  <2>3. b \notin db.bytes
    BY <1>1, <1>6, <2>2 DEF Gone
  <2> QED
    BY <1>1, <1>2, <1>4, <2>1, <2>3
<1> QED
  BY <1>5, <1>6

\* The statements of restore_snapshot, though no transaction, leave in the target all
\* the snapshot has and nothing of what they deleted (RestoreExact).
THEOREM RestoresExact == Spec => RestoreExact
<1> DEFINE Exact ==
  \A c \in Calls :
       LET a == args[c] IN
       /\ pc[c] = "restFiles" /\ pc'[c] = "restBytes" =>
            /\ FilesAt(db, a.snap) \subseteq FilesAt(db', a.vfs)
            /\ FilesAt(db', a.vfs) \cap took[c] \subseteq FilesAt(db, a.snap)
       /\ pc[c] = "restBytes" /\ pc'[c] = "done" =>
            /\ MemoryAt(db, a.snap) \subseteq MemoryAt(db', a.thread)
            /\ MemoryAt(db', a.thread) \cap took[c] \subseteq MemoryAt(db, a.snap)
<1>1. StoreInv /\ [Next]_vars => Exact
  <2> SUFFICES ASSUME StoreInv, [Next]_vars, NEW c \in Calls
               PROVE  LET a == args[c] IN
                      /\ pc[c] = "restFiles" /\ pc'[c] = "restBytes" =>
                           /\ FilesAt(db, a.snap) \subseteq FilesAt(db', a.vfs)
                           /\ FilesAt(db', a.vfs) \cap took[c] \subseteq FilesAt(db, a.snap)
                      /\ pc[c] = "restBytes" /\ pc'[c] = "done" =>
                           /\ MemoryAt(db, a.snap) \subseteq MemoryAt(db', a.thread)
                           /\ MemoryAt(db', a.thread) \cap took[c]
                                \subseteq MemoryAt(db, a.snap)
    OBVIOUS
  <2>0. TypeOK /\ Gone
    BY DEF StoreInv, SourceInv
  <2>1. pc[c] = "restFiles" /\ pc'[c] = "restBytes" => RestFiles(c)
    BY OwnStep DEF RestBytes
  <2>2. pc[c] = "restBytes" /\ pc'[c] = "done" => RestBytes(c)
    BY OwnStep DEF RestFiles
  <2> QED
    BY <2>0, <2>1, <2>2, FilesRestored, MemoryRestored
<1> HIDE DEF Exact
<1>2. Spec => [][Exact]_vars
  BY <1>1, StoreHolds, PTL DEF Spec
<1> QED
  BY <1>2 DEF Exact, RestoreExact

\* The cascade and the orphan sweep of the cleanup agree on the files of a thread that
\* shares its VFS with nobody: none goes while its session stays (OwnFilesStay).
THEOREM OwnFilesKept == Spec => OwnFilesStay
<1> DEFINE Kept ==
  Clean => \A f \in db.files \ db'.files :
       f.owner \in Threads /\ f.vfs = f.owner /\ Workspace[f.owner] = f.owner
         => \A s \in db'.sessions : s.id # f.owner
<1>1. StoreInv => Kept
  <2> SUFFICES ASSUME StoreInv, Clean, NEW f \in db.files \ db'.files,
                      f.owner \in Threads, f.vfs = f.owner, Workspace[f.owner] = f.owner,
                      NEW s \in db'.sessions, s.id = f.owner
               PROVE  FALSE
    OBVIOUS
  <2>0. TypeOK /\ Sourced(db)
    BY DEF StoreInv, SourceInv
  <2>1. CASE CleanDelete
    BY <2>1 DEF CleanDelete, Executed, Without
  <2>2. CASE CleanSweep
    <3>1. s \in db.sessions /\ f \in Orphans
      BY <2>0, <2>2 DEF CleanSweep, Executed, TypeOK, Tables
    <3>2. s.vfs = f.vfs
      BY <2>0, <3>1 DEF Sourced, VfsOfSession, StoreAssumption
    <3> QED
      BY <3>1, <3>2 DEF Orphans
  <2>3. CASE CleanLook \/ CleanList \/ CleanOrphans
    BY <2>3 DEF CleanLook, CleanList, CleanOrphans, Unchanged
  <2> QED
    BY <2>1, <2>2, <2>3 DEF Clean
<1> HIDE DEF Kept
<1>2. Spec => [][Kept]_vars
  BY <1>1, StoreHolds, PTL DEF Spec
<1> QED
  BY <1>2 DEF Kept, OwnFilesStay
=============================================================================
