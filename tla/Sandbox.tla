------------------------------ MODULE Sandbox ------------------------------
(***************************************************************************)
(* What an execution promises to its caller, without workers: it looks at  *)
(* the files of its workspace, runs alone in a sandbox that is thrown away *)
(* afterwards, and then the changes its code made, and no others, come to  *)
(* the workspace one by one.  The answer comes after the last of them.     *)
(*                                                                         *)
(* Paths are the tracked ones only.  Two things of the sandbox are not as  *)
(* new: a path at which no file was sent may have one of an earlier        *)
(* execution, which hides what happens there, and the variables may be     *)
(* anybody's if those saved cannot be restored, or if somebody has defined *)
(* a name that clearing relies on, which then is among them.               *)
(***************************************************************************)
CONSTANTS Threads, Workspace, Paths, Execs, Thread, Kind, Follows, Programs, Size, Seed,
          Seeded, Deletable, Sticky, Unpickles, None

VARIABLES
  vfs,    \* the files of a workspace
  bytes,  \* the saved variables of a thread
  at,     \* where an execution is
  task    \* what it knows and did, and the changes it has still to make

vars == <<vfs, bytes, at, task>>

Vfs(e) == Workspace[Thread[e]]
Present(files) == {p \in Paths : files[p] # None}

Blank == [loaded |-> {}, listed |-> {}, sent |-> [p \in Paths |-> None],
          did |-> [p \in Paths |-> "left"], due |-> {}, reported |-> {}, fresh |-> {}]

Entry == [stateful |-> "load", stateless |-> "list", shell |-> "list", api |-> "api"]

Init ==
  /\ vfs = [v \in {Workspace[t] : t \in Threads} |->
              [p \in Paths |-> IF p \in Seeded[v] THEN Seed ELSE None]]
  /\ bytes = [t \in Threads |-> {}]
  /\ at = [e \in Execs |-> Entry[Kind[e]]]
  /\ task = [e \in Execs |-> Blank]

Step(e, phase, row) ==
  /\ at' = [at EXCEPT ![e] = phase]
  /\ task' = [task EXCEPT ![e] = row]
-----------------------------------------------------------------------------
(* It looks at the workspace, in two steps. *)

Load(e) ==
  /\ at[e] = "load"
  /\ Step(e, "list", [task[e] EXCEPT !.loaded = bytes[Thread[e]]])
  /\ UNCHANGED <<vfs, bytes>>

List(e) ==
  /\ at[e] = "list"
  /\ Step(e, "fetch", [task[e] EXCEPT !.listed = Present(vfs[Vfs(e)])])
  /\ UNCHANGED <<vfs, bytes>>

Fetch(e) ==
  /\ at[e] = "fetch"
  /\ Step(e, "run", [task[e] EXCEPT !.sent = vfs[Vfs(e)]])
  /\ UNCHANGED <<vfs, bytes>>
-----------------------------------------------------------------------------
(* It runs. *)

\* The files that come to the workspace: all that were written, but for writes that
\* slipped by the tracker and left the size of the file as it was.
Published(e, did, hidden) ==
  {p \in Paths :
     \/ did[p] = "wrote"
     \/ /\ did[p] = "slipped"
        /\ \/ Kind[e] = "shell"
           \/ task[e].sent[p] = None /\ p \notin hidden
           \/ task[e].sent[p] # None /\ Size[task[e].sent[p]] # Size[e]}

\* The files that go, as far as files may: those that were removed, and those that
\* were listed but gone before they could be sent.
Withdrawn(e, did, hidden) ==
  {p \in task[e].listed \cap Deletable :
     /\ Kind[e] = "stateful"
     /\ \/ did[p] = "removed"
        \/ did[p] = "left" /\ task[e].sent[p] = None /\ p \notin hidden}

Changes(e, did, hidden) ==
  {<<p, e>> : p \in Published(e, did, hidden)}
    \cup {<<p, None>> : p \in Withdrawn(e, did, hidden)}

Start(e) ==
  {start \in SUBSET Execs :
     \/ start = task[e].loaded
     \/ start \cap Sticky # {}
     \/ task[e].loaded # {} /\ ~Unpickles}
Saves(e) == {{}} \cup IF Kind[e] = "stateful" THEN {s \cup {e} : s \in Start(e)} ELSE {}

Done(did) == [p \in Paths |-> did[p]]

\* What remains to be done when the code has run.
Ran(e, did, hidden, fresh) ==
  [task[e] EXCEPT !.did = Done(did), !.due = Changes(e, did, hidden), !.fresh = fresh]

Run(e) ==
  /\ at[e] = "run"
  /\ \E did \in Programs[e], fresh \in Saves(e),
        hidden \in SUBSET {p \in Paths : task[e].sent[p] = None} :
       Step(e, "apply", Ran(e, did, hidden, fresh))
  /\ UNCHANGED <<vfs, bytes>>
-----------------------------------------------------------------------------
(* Its changes come to the workspace. *)

\* There is no answer while anything remains to be done.
Phases(row) == {"apply"} \cup IF row.due = {} /\ row.fresh = {} THEN {"return"} ELSE {}

\* What comes is reported, what goes is not.
Reported(e, change) ==
  task[e].reported \cup (IF change[2] = None THEN {} ELSE {change[1]})

Apply(e) ==
  /\ at[e] = "apply"
  /\ \E change \in task[e].due :
       LET row == [task[e] EXCEPT !.due = task[e].due \ {change},
                                  !.reported = Reported(e, change)] IN
       /\ vfs' = [vfs EXCEPT ![Vfs(e)][change[1]] = change[2]]
       /\ \E phase \in Phases(row) : Step(e, phase, row)
  /\ UNCHANGED bytes

\* If there was nothing to publish, what is new in the workspace may be reported.
Report(e) ==
  /\ at[e] = "apply" /\ task[e].reported = {}
  /\ \A change \in task[e].due : change[2] = None
  /\ LET row == [task[e] EXCEPT !.reported = Present(vfs[Vfs(e)]) \ task[e].listed] IN
     \E phase \in Phases(row) : Step(e, phase, row)
  /\ UNCHANGED <<vfs, bytes>>

Finish(e) ==
  /\ at[e] = "apply" /\ "return" \in Phases(task[e])
  /\ Step(e, "return", task[e])
  /\ UNCHANGED <<vfs, bytes>>

Persist(e) ==
  /\ at[e] = "apply" /\ task[e].due = {} /\ task[e].fresh # {}
  /\ bytes' = [bytes EXCEPT ![Thread[e]] = task[e].fresh]
  /\ Step(e, "return", [task[e] EXCEPT !.fresh = {}])
  /\ UNCHANGED vfs

Answer(e) == at[e] = "return" /\ Step(e, "done", Blank) /\ UNCHANGED <<vfs, bytes>>

\* It fails: the changes made so far stay, the others are lost.
Abort(e) ==
  /\ at[e] \notin {"return", "done"}
  /\ Step(e, "done", Blank)
  /\ UNCHANGED <<vfs, bytes>>

\* A file is written or deleted by a call of its own.
Tool(e) ==
  /\ at[e] = "api"
  /\ \E did \in Programs[e], p \in Paths :
       /\ did[p] # "left"
       /\ vfs' = [vfs EXCEPT ![Vfs(e)][p] = IF did[p] = "removed" THEN None ELSE e]
  /\ Step(e, "done", Blank)
  /\ UNCHANGED bytes
-----------------------------------------------------------------------------
Act(e) ==
  \/ Load(e) \/ List(e) \/ Fetch(e) \/ Run(e)
  \/ Apply(e) \/ Report(e) \/ Finish(e) \/ Persist(e)
  \/ Answer(e) \/ Abort(e) \/ Tool(e)

\* An execution begins when those its caller waits for are over.
Next == \E e \in Execs : (\A f \in Follows[e] : at[f] = "done") /\ Act(e)

Spec == Init /\ [][Next]_vars
=============================================================================
