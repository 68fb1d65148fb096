----------------------------- MODULE MCVfsSync -----------------------------
(* Instances of VfsSync for TLC.  ada and bob work in one VFS, "team"; cy  *)
(* works in her own.  "home" and "cwd" are tracked paths, one of them      *)
(* under /home/pyodide; "tmpx" is a path like /tmpx, which is in none of   *)
(* the tracked directories, and whose name begins as theirs.               *)
EXTENDS VfsSync

MCThreads == {"ada", "bob", "cy"}
MCWorkspace == [t \in MCThreads |-> IF t = "cy" THEN "own" ELSE "team"]
MCPaths == {"home", "cwd", "tmpx"}
MCTracked == {"home", "cwd"}
MCDeletable == {"home", "tmpx"}
MCThread == [a1 |-> "ada", a2 |-> "ada", b |-> "bob", t |-> "bob", c |-> "cy"]
MCExecs == DOMAIN MCThread
MCKind == [a1 |-> "stateful", a2 |-> "stateful", b |-> "shell", t |-> "api",
           c |-> "stateless"]
\* cy goes first and leaves files on the worker; t and b run while ada does.
MCFollows == [e \in MCExecs |-> CASE e = "a1" -> {"c"} [] e = "a2" -> {"a1"}
                                 [] e = "b" -> {"t"} [] OTHER -> {}]

Does(home, cwd, tmpx) == [home |-> home, cwd |-> cwd, tmpx |-> tmpx]
MCPrograms ==
  [a1 |-> {Does("removed", "removed", "left"), Does("left", "left", "left")},
   a2 |-> {Does("slipped", "left", "left"), Does("removed", "wrote", "left")},
   b |-> {Does("wrote", "left", "left")},
   t |-> {Does("removed", "left", "left")},
   c |-> {Does("wrote", "left", "wrote")}]

\* a2 and the seed have the same size.
MCSize == [x \in MCExecs \cup {"seed"} |-> IF x \in {"a2", "seed"} THEN 1 ELSE 2]
MCSeeded == [team |-> {"home", "cwd"}, own |-> {}]
\* cy's code defines a name that clearing relies on.
MCSticky == {"c"}
=============================================================================
