------------------------------ MODULE Backend ------------------------------
(***************************************************************************)
(* The calls an agent makes on one workspace through the DeepAgents        *)
(* backend (deepagents_backend.py) and the skill installer                 *)
(* (integrations.py): writes, edits, uploads, deletions, snapshots,        *)
(* executions and installations, each a coroutine that awaits one database *)
(* statement after another while the other calls go on.                    *)
(*                                                                         *)
(* The content of a file is the set of calls it descends from: an edit     *)
(* makes a content from the one it read, a write or an upload starts anew. *)
(***************************************************************************)
EXTENDS Naturals, FiniteSets

CONSTANTS Calls, Paths,
          Index,      \* /site-packages/skills/index.json
          NoFile,
          MaxRuns     \* bound: executions that begin

ASSUME BackendAssumption == Index \in Paths /\ NoFile \notin Calls

VARIABLES
  files,      \* sandbox_filesystem: the files of the workspace
  package,    \* and those of the package of each installation
  saved,      \* the snapshot each call took
  skills,     \* sandbox_skills
  pending,    \* _pending_files_by_thread, of the thread of the calls
  handed,     \* the updates tool nodes have consumed
  call,       \* where each call is
  result,     \* how it ended
  prior       \* the calls that were over when it began

vars == <<files, package, saved, skills, pending, handed, call, result, prior>>
workspace == <<files, package>>
others == <<saved, skills, pending, handed, prior>>

\* "execute" is aexecute and the execution of Python; "shell" a shell command
\* executed through the synchronous execute().  Which of them a command is,
\* _should_route_to_pyodide and the parsers of Python commands decide by its text.
Kinds == {"write", "edit", "upload", "delete", "install", "snapshot", "restore",
          "execute", "shell"}
Runs == {"execute", "shell"}
Parts == {"SKILL.md", "init", "lib"}
Absent == {NoFile}     \* there is no such file
Contents == (SUBSET Calls) \cup {Absent}
Nothing == [p \in Paths |-> Absent]
NoPackage == [c \in Calls |-> {}]
Idle == [pc |-> "idle", kind |-> "write", path |-> Index, from |-> {}, seen |-> Nothing,
         made |-> {}, listed |-> {}]
NoUpdate == [by |-> {}, files |-> Nothing]

Init ==
  /\ \E old \in {Absent, {}} : files = [p \in Paths |-> old]
  /\ package = NoPackage
  /\ saved = [c \in Calls |-> {}]
  /\ skills = {}
  /\ pending = NoUpdate
  /\ handed = {}
  /\ call = [c \in Calls |-> Idle]
  /\ result = [c \in Calls |-> "none"]
  /\ prior = [c \in Calls |-> {}]

At(c, pc) == call[c].pc = pc
Kind(c) == call[c].kind
Path(c) == call[c].path
Over(c) == result[c] # "none"
Goto(c, pc) == call' = [call EXCEPT ![c].pc = pc] /\ UNCHANGED result
\* Bug: nobody is told that the call is over.
EndSilent(c, answer) ==
  /\ call' = [call EXCEPT ![c].pc = "over", ![c].seen = Nothing]
  /\ UNCHANGED result
\* What a call has read is forgotten with it.
End(c, answer) ==
  /\ call' = [call EXCEPT ![c].pc = "over", ![c].seen = Nothing]
  /\ result' = [result EXCEPT ![c] = answer]

----------------------------------------------------------------------------
(* The first await of each kind of call. *)
Entry == [write |-> "check", edit |-> "get", upload |-> "put", delete |-> "drop",
          install |-> "SKILL.md", snapshot |-> "copy", restore |-> "clear",
          execute |-> "load", shell |-> "load"]

Begin(c, kind, p, from) ==
  /\ At(c, "idle")
  /\ kind = "restore" <=> from # {}
  /\ kind \in {"install", "snapshot", "restore"} \cup Runs => p = Index
  /\ kind \in Runs => Cardinality({d \in Calls : Kind(d) \in Runs}) < MaxRuns
  /\ call' = [call EXCEPT ![c] = [Idle EXCEPT !.pc = Entry[kind], !.kind = kind, !.path = p,
                                             !.from = from]]
  /\ prior' = [prior EXCEPT ![c] = {d \in Calls : Over(d)}]
  /\ UNCHANGED <<files, package, saved, skills, pending, handed, result>>

\* A statement fails, or the script to execute is not there: the call ends,
\* and what it did so far stays, some files of an execution saved, too.
Fail(c) ==
  /\ call[c].pc \in {"check", "get", "put", "drop", "SKILL.md", "init", "lib", "index", "row",
                     "copy", "clear", "fill", "load", "save", "erase"}
  /\ End(c, "error")
  /\ UNCHANGED <<workspace, others>>

\* Bug: a file that exists is written all the same.
CheckNothing(c) == At(c, "check") /\ Goto(c, "put") /\ UNCHANGED <<workspace, others>>
\* awrite: only a new file can be written, which is looked up first.
Check(c) ==
  /\ At(c, "check")
  /\ IF files[Path(c)] = Absent THEN Goto(c, "put") ELSE End(c, "error")
  /\ UNCHANGED <<workspace, others>>

\* aedit and the index: the content the call will write is made from this one.
See(c, pc, some) ==
  /\ call' = [call EXCEPT ![c].pc = pc,
                          ![c].seen = [p \in Paths |-> IF p \in some THEN files[p] ELSE Absent]]
  /\ UNCHANGED result

Get(c) ==
  /\ At(c, "get")
  /\ IF files[Path(c)] = Absent THEN End(c, "error") ELSE See(c, "put", {Path(c)})
  /\ UNCHANGED <<workspace, others>>

ReadIndex(c) == At(c, "index") /\ See(c, "put", {Index}) /\ UNCHANGED <<workspace, others>>

Known(c) == IF call[c].seen[Path(c)] = Absent THEN {} ELSE call[c].seen[Path(c)]

\* The upsert of a write, an edit, an upload and the index.
PutOver(c) == IF Kind(c) \in {"edit", "install"} THEN Known(c) \cup {c} ELSE {c}
Put(c) ==
  /\ At(c, "put")
  /\ files' = [files EXCEPT ![Path(c)] = PutOver(c)]
  /\ IF Kind(c) = "install" THEN Goto(c, "row") ELSE End(c, "ok")
  /\ UNCHANGED <<package, others>>

Drop(c) ==
  /\ At(c, "drop")
  /\ files' = [files EXCEPT ![Path(c)] = Absent]
  /\ End(c, IF files[Path(c)] = Absent THEN "error" ELSE "ok")
  /\ UNCHANGED <<package, others>>

----------------------------------------------------------------------------
(* install_skill: the package, then the index, then the row. *)
Page(c, part, next) ==
  /\ At(c, part)
  /\ package' = [package EXCEPT ![c] = @ \cup {part}]
  /\ Goto(c, next)
  /\ UNCHANGED <<files, others>>

\* Bug: the index before the code.
InstallEarly(c) == Page(c, "SKILL.md", "index") \/ Page(c, "init", "index") \/ Page(c, "lib", "index")
\* A skill without code fences has no lib.
Install(c) == \/ Page(c, "SKILL.md", "init")
              \/ \E next \in {"lib", "index"} : Page(c, "init", next)
              \/ Page(c, "lib", "index")

Row(c) ==
  /\ At(c, "row")
  /\ skills' = skills \cup {c}
  /\ End(c, "ok")
  /\ UNCHANGED <<workspace, saved, pending, handed, prior>>

----------------------------------------------------------------------------
(* Snapshots. *)
Copy(c) ==
  /\ At(c, "copy")
  /\ saved' = [saved EXCEPT ![c] = {[files |-> files, package |-> package]}]
  /\ End(c, "ok")
  /\ UNCHANGED <<workspace, skills, pending, handed, prior>>

\* Bug: the files of the workspace are left where they are.
ClearNothing(c) == At(c, "clear") /\ Goto(c, "fill") /\ UNCHANGED <<workspace, others>>

\* The workspace is emptied by one statement and filled by the next,
\* which fails when a file of the snapshot has been written in between.
Clear(c) ==
  /\ At(c, "clear")
  /\ files' = Nothing
  /\ package' = NoPackage
  /\ Goto(c, "fill")
  /\ UNCHANGED others

Merged(old, new) == [p \in Paths |-> IF new[p] = Absent THEN old[p] ELSE new[p]]
Unique(snap) ==
  /\ \A p \in Paths : snap.files[p] = Absent \/ files[p] = Absent
  /\ \A c \in Calls : snap.package[c] \cap package[c] = {}

Fill(c) ==
  /\ At(c, "fill")
  /\ \E snap \in call[c].from :
       IF Unique(snap)
       THEN /\ files' = Merged(files, snap.files)
            /\ package' = [d \in Calls |-> package[d] \cup snap.package[d]]
            /\ End(c, "ok")
       ELSE /\ End(c, "error")
            /\ UNCHANGED workspace
  /\ UNCHANGED others

----------------------------------------------------------------------------
(* Executions. The sandbox starts from the files of the workspace and      *)
(* saves what the code created or changed, file by file, and deletes what  *)
(* it removed; the backend then reads each created file back and leaves    *)
(* them for the tool node.                                                 *)
Load(c) == At(c, "load") /\ See(c, "save", Paths) /\ UNCHANGED <<workspace, others>>

Save(c, p, fresh) ==
  /\ At(c, "save") /\ p \notin call[c].made
  /\ files' = [files EXCEPT ![p] = IF fresh \/ call[c].seen[p] = Absent THEN {c}
                                  ELSE call[c].seen[p] \cup {c}]
  /\ call' = [call EXCEPT ![c].made = @ \cup {p}]
  /\ UNCHANGED <<package, result, others>>

\* The files the result names: those saved or, after a success without any, those that
\* came into the workspace meanwhile, whoever wrote them.
Found(c) == {p \in Paths : files[p] # Absent /\ call[c].seen[p] = Absent}
Created(c) == IF call[c].made = {} THEN {{}, Found(c)} ELSE {call[c].made}
Saved(c) ==
  /\ At(c, "save")
  /\ \E listed \in Created(c) : call' = [call EXCEPT ![c].pc = "erase", ![c].listed = listed]
  /\ UNCHANGED <<workspace, result, others>>

\* A file that was there and that the code removed; what a shell command removes stays.
Erase(c, p) ==
  /\ At(c, "erase") /\ Kind(c) = "execute"
  /\ p \notin call[c].made /\ call[c].seen[p] # Absent
  /\ files' = [files EXCEPT ![p] = Absent]
  /\ call' = [call EXCEPT ![c].seen[p] = Absent]
  /\ UNCHANGED <<package, result, others>>

\* Bug: nothing is left for the tool node.
ErasedSilent(c) ==
  /\ At(c, "erase")
  /\ call' = [call EXCEPT ![c].seen = Nothing, ![c].pc = "consume"]
  /\ UNCHANGED <<workspace, result, others>>
\* _execute_shell, the synchronous one, leaves nothing for the tool node.
Erased(c) ==
  /\ At(c, "erase")
  /\ call' = [call EXCEPT ![c].seen = Nothing,
                 ![c].pc = IF call[c].listed = {} \/ Kind(c) = "shell" THEN "consume" ELSE "show"]
  /\ UNCHANGED <<workspace, result, others>>

\* A file that is gone is shown empty, and so is one that cannot be read for any other
\* reason: the failure is logged only.
Show(c, p) ==
  /\ At(c, "show") /\ p \in call[c].listed /\ call[c].seen[p] = Absent
  /\ \E shown \in {{}} \cup ({files[p]} \ {Absent}) : call' = [call EXCEPT ![c].seen[p] = shown]
  /\ UNCHANGED <<workspace, result, others>>

Publish(c) ==
  /\ At(c, "show") /\ \A p \in call[c].listed : call[c].seen[p] # Absent
  /\ pending' = [by |-> {c}, files |-> call[c].seen]
  /\ Goto(c, "consume")
  /\ UNCHANGED <<workspace, saved, skills, handed, prior>>

\* consume_pending_files_update, which the tool node calls after execute().
Consume(c) ==
  /\ At(c, "consume")
  /\ handed' = IF pending = NoUpdate THEN handed ELSE handed \cup {pending}
  /\ pending' = NoUpdate
  /\ End(c, "ok")
  /\ UNCHANGED <<workspace, saved, skills, prior>>

Step(c) ==
  \/ \E kind \in Kinds, p \in Paths : Begin(c, kind, p, {})
  \/ \E d \in Calls : Begin(c, "restore", Index, saved[d])
  \/ Fail(c) \/ Check(c) \/ Get(c) \/ ReadIndex(c) \/ Put(c) \/ Drop(c)
  \/ Install(c) \/ Row(c) \/ Copy(c) \/ Clear(c) \/ Fill(c)
  \/ Load(c) \/ Saved(c) \/ Erased(c) \/ Publish(c) \/ Consume(c)
  \/ \E p \in Paths : Erase(c, p) \/ Show(c, p) \/ \E fresh \in BOOLEAN : Save(c, p, fresh)

Next == \E c \in Calls : Step(c)
Spec == Init /\ [][Next]_vars

----------------------------------------------------------------------------
Begun(c) == ~At(c, "idle")
Overlap(c, d) == Begun(c) /\ Begun(d) /\ c # d /\ c \notin prior[d] /\ d \notin prior[c]
After(c, d) == Begun(d) /\ c \in prior[d]
Touches(d, p) == Kind(d) \in Runs \cup {"restore"} \/ (Path(d) = p /\ Kind(d) # "snapshot")
Replaces(d) == Kind(d) \in Runs \cup {"upload", "delete", "restore"}
Writes(c) == CASE Kind(c) \in {"write", "edit", "upload", "install"} -> {Path(c)}
               [] Kind(c) \in Runs -> call[c].made
               [] OTHER -> {}

\* Every variable has its type, and a call has its answer when it is over.
TypeOK ==
  /\ files \in [Paths -> Contents]
  /\ package \in [Calls -> SUBSET Parts]
  /\ saved \in [Calls -> SUBSET [files : [Paths -> Contents], package : [Calls -> SUBSET Parts]]]
  /\ skills \subseteq Calls
  /\ pending \in [by : SUBSET Calls, files : [Paths -> Contents]]
  /\ handed \subseteq [by : SUBSET Calls, files : [Paths -> Contents]]
  /\ call \in [Calls -> [pc : {"idle", "check", "get", "put", "drop", "SKILL.md", "init", "lib",
                                "index", "row", "copy", "clear", "fill", "load", "save",
                                "erase", "show", "consume", "over"},
                         kind : Kinds, path : Paths, seen : [Paths -> Contents],
                         from : SUBSET [files : [Paths -> Contents],
                                        package : [Calls -> SUBSET Parts]],
                         made : SUBSET Paths, listed : SUBSET Paths]]
  /\ result \in [Calls -> {"none", "ok", "error"}]
  /\ prior \in [Calls -> SUBSET Calls]
  /\ \A c \in Calls : At(c, "over") <=> Over(c)

\* What a successful write, edit, upload, installation or execution put in a
\* file stays in what the file becomes, unless a call on the file overlapped
\* it or a later call replaces the whole file. Later writes and edits and
\* later installations, which read the file in one statement and write it in
\* another, do not lose it (awrite, aedit, install_skill).
Kept ==
  \A c \in Calls : \A p \in Writes(c) : result[c] = "ok" =>
    \/ c \in files[p]
    \/ \E d \in Calls : Touches(d, p) /\ (Overlap(c, d) \/ (After(c, d) /\ Replaces(d)))

\* What was replaced, deleted or undone does not come back: once a write, an
\* upload, a deletion or a restore has succeeded, nothing of the calls that
\* were over before it is in the file, unless the restored snapshot has it, a
\* call on the file overlapped it, or a later restore brings it back (awrite,
\* aupload_files, adelete, arestore_snapshot).
Undone(d, c, p) ==
  \/ Kind(d) \in {"write", "upload", "delete"} /\ Path(d) = p
  \/ Kind(d) = "restore" /\ \A snap \in call[d].from : c \notin snap.files[p]
Gone ==
  \A d, c \in Calls, p \in Paths :
    result[d] = "ok" /\ After(c, d) /\ Undone(d, c, p) =>
      \/ c \notin files[p]
      \/ \E g \in Calls : Touches(g, p) /\ (Overlap(g, d) \/ (After(d, g) /\ Kind(g) = "restore"))

\* An execution nothing overlapped hands the tool node exactly the files it saved,
\* each as it saved it or, where reading it back failed, empty, and no update is handed
\* over a second time (_astore_pending_files, consume_pending_files_update).
HandedOver ==
  /\ pending \notin handed
  /\ \A c \in Calls :
       /\ result[c] = "ok" /\ Kind(c) = "execute" /\ call[c].made # {}
       /\ \A d \in Calls : ~Overlap(c, d)
       => \E u \in handed :
            /\ u.by = {c}
            /\ \A p \in call[c].made : c \in u.files[p] \/ u.files[p] = {}
            /\ \A p \in Paths \ call[c].made : u.files[p] = Absent

\* A skill in the index has its package, and a skill with a row in
\* sandbox_skills is in the index, unless another call on them overlapped the
\* installation or a later one replaced them, even when installations fail half
\* way (install_skill).
Disturbed(c) == \E d \in Calls : Touches(d, Index) /\ (Overlap(c, d) \/ (After(c, d) /\ Replaces(d)))
Installed ==
  \A c \in Calls : Kind(c) = "install" /\ ~Disturbed(c) =>
    /\ c \in files[Index] => {"SKILL.md", "init"} \subseteq package[c]
    /\ c \in skills => c \in files[Index]
============================================================================
