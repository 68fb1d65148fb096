---------------------------- MODULE ShellApplets ----------------------------
(***************************************************************************)
(* A simple command executed in a BusyBox module of its own                *)
(* (shell_executor.ts, executeApplet): its redirections, and what the      *)
(* applet may do to the files mounted in that module.                      *)
(*                                                                         *)
(* A content is the sequence of the commands that wrote it.                *)
(***************************************************************************)
EXTENDS Integers, SequencesExt

CONSTANTS Does,       \* what each applet does: the files it writes and removes, its exit
                      \* status, and whether its output can be redirected
          None,       \* no redirection
          Old         \* the files of the workspace

NoAnswer == [exit |-> -1, files |-> <<>>]
Failed == [exit |-> 1, files |-> <<>>]

\* A token is a word or an operator, and a sequence of characters.
Word(chars) == [type |-> "word", value |-> chars]
Operator(chars) == [type |-> "operator", value |-> chars]
And == Operator(<<"&", "&">>)
Or == Operator(<<"|", "|">>)
Pipe == Operator(<<"|">>)
Semicolon == Operator(<<";">>)
Into == Operator(<<">">>)
Onto == Operator(<<">", ">">>)
From == Operator(<<"<">>)
Redirects == {Into, Onto, From}

Overlaid(fs, changes) == changes @@ fs
Removed(fs, paths) == [p \in DOMAIN fs \ paths |-> fs[p]]

\* handleRedirection: ">" with ">>" appends to the file of ">".
Target(cmd) == IF cmd.out # None THEN cmd.out ELSE cmd.append
Redirected(fs, cmd, id) ==
  IF Target(cmd) = None THEN fs
  ELSE Overlaid(fs, [p \in {Target(cmd)} |->
         IF cmd.append # None /\ p \in DOMAIN fs THEN Append(fs[p], id) ELSE <<id>>])

\* A redirection that cannot be made is an exit status of 1.
Executed(fs, cmd, id) ==
  LET e == Does[cmd.argv[1]]
      own == Removed(Overlaid(fs, [p \in e.writes |-> <<id>>]), e.removes)
  IN  IF Target(cmd) # None /\ ~e.redirects THEN [exit |-> 1, files |-> own]
      ELSE [exit |-> e.exit, files |-> Redirected(own, cmd, id)]

\* What the command leaves in its module.
Outcome(fs, cmd, id) ==
  CASE cmd.argv = <<>> -> [exit |-> 0, files |-> fs]
    [] cmd.argv # <<>> /\ cmd.in # None /\ cmd.in \notin DOMAIN fs -> [exit |-> 1, files |-> fs]
    [] OTHER -> Executed(fs, cmd, id)

\* snapshotFs, findChangedFiles and collectFiles: what was written since
\* before. A file that was removed is not a change.
Changes(before, after) ==
  [p \in {q \in DOMAIN after : q \notin DOMAIN before \/ after[q] # before[q]} |-> after[p]]
============================================================================
