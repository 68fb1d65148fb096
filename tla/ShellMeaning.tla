---------------------------- MODULE ShellMeaning ----------------------------
(***************************************************************************)
(* What a shell call promises (shell_executor.ts, its heading): lists of   *)
(* and-or lists of pipelines with POSIX precedence, executed one pipeline  *)
(* after another on the files of the workspace.                            *)
(*                                                                         *)
(* A line is a sequence of words and operators.  The grammar is stated by  *)
(* cutting the line at its operators, the loosest first.                   *)
(***************************************************************************)
EXTENDS ShellApplets, FiniteSetsExt

VARIABLES
  line,      \* the pipelines of the line that was called
  position,  \* how many of its pipelines have been executed or passed over
  files,
  changed,   \* the paths written since the call began
  exit,      \* the last exit status
  answer

vars == <<line, position, files, changed, exit, answer>>

Chains == {And, Or}

\* The pieces of s between the operators ops, and the operators.
Nth(set, n) == CHOOSE i \in set : Cardinality({j \in set : j < i}) = n - 1
Places(s, ops) == {0, Len(s) + 1} \cup {i \in DOMAIN s : s[i] \in ops}
Cut(s, ops) ==
  LET at == Places(s, ops)
  IN  [n \in 1..(Cardinality(at) - 1) |-> SubSeq(s, Nth(at, n) + 1, Nth(at, n + 1) - 1)]
Between(s, ops) == SelectSeq(s, LAMBDA w : w \in ops)

\* The lists of a line; a ";" may end it.
Lists(s) == LET cut == Cut(s, {Semicolon})
            IN  IF Len(cut) > 1 /\ Last(cut) = <<>> THEN Front(cut) ELSE cut

\* A command is words and redirections to words that are not empty.
Proper(s) ==
  /\ s # <<>>
  /\ \A i \in DOMAIN s : s[i] \in Redirects =>
       i < Len(s) /\ s[i + 1].type = "word" /\ s[i + 1].value # <<>>
WellFormed(s) ==
  s # <<>> => \A list \in ToSet(Lists(s)) : \A pipe \in ToSet(Cut(list, Chains)) :
                \A command \in ToSet(Cut(pipe, {Pipe})) : Proper(command)

\* The redirection of a kind a command ends with, and its arguments.
Redirection(s, op) ==
  LET at == {i \in DOMAIN s : s[i] = op} IN IF at = {} THEN None ELSE s[Max(at) + 1].value
Arguments(s) ==
  LET at == {i \in DOMAIN s : s[i] \notin Redirects /\ (i > 1 => s[i - 1] \notin Redirects)}
  IN  [n \in 1..Cardinality(at) |-> s[Nth(at, n)].value]
Read(s) == [argv |-> Arguments(s), out |-> Redirection(s, Into), append |-> Redirection(s, Onto),
            in |-> Redirection(s, From)]
AllRead(pieces) == [i \in DOMAIN pieces |-> Read(pieces[i])]

\* The pipelines of a line in order, each after ";", "&&" or "||".
Linked(list) == LET pipes == Cut(list, Chains)
                IN  [i \in DOMAIN pipes |->
                      [after |-> IF i = 1 THEN Semicolon ELSE Between(list, Chains)[i - 1],
                       commands |-> AllRead(Cut(pipes[i], {Pipe}))]]
Pipelines(s) == IF s = <<>> THEN <<>> ELSE FlattenSeq([i \in DOMAIN Lists(s) |-> Linked(Lists(s)[i])])
Meant(s) == [ok |-> WellFormed(s), pipelines |-> IF WellFormed(s) THEN Pipelines(s) ELSE <<>>]

----------------------------------------------------------------------------
Init ==
  /\ position = 0
  /\ files = Old
  /\ changed = {}
  /\ exit = 0
  /\ answer = NoAnswer

\* A line that cannot be read fails, before anything of it is executed.
Refuse ==
  /\ answer = NoAnswer /\ position = 0 /\ ~line.ok
  /\ answer' = Failed
  /\ UNCHANGED <<line, position, files, changed, exit>>

Upcoming == line.pipelines[position + 1]
Wanted == CASE Upcoming.after = And -> exit = 0
            [] Upcoming.after = Or -> exit # 0
            [] OTHER -> TRUE
Running == answer = NoAnswer /\ line.ok /\ position < Len(line.pipelines)

Pass ==
  /\ Running /\ ~Wanted
  /\ position' = position + 1
  /\ UNCHANGED <<line, files, changed, exit, answer>>

\* The commands of a pipeline all start from the same files. What they write
\* appears when all have ended; the last one gives the exit status.
Ends == [i \in DOMAIN Upcoming.commands |-> Outcome(files, Upcoming.commands[i], <<position, i>>)]
Touched(i) == DOMAIN Changes(files, Ends[i].files)
Disjoint == \A i, j \in DOMAIN Ends : i # j => Touched(i) \cap Touched(j) = {}

Execute ==
  /\ Running /\ Wanted /\ Disjoint
  /\ files' = FoldLeft(LAMBDA fs, end : Overlaid(fs, Changes(files, end.files)), files, Ends)
  /\ changed' = changed \cup UNION {Touched(i) : i \in DOMAIN Ends}
  /\ exit' = Last(Ends).exit
  /\ position' = position + 1
  /\ UNCHANGED <<line, answer>>

\* A pipeline that breaks ends the call, and none of its files are reported.
Break ==
  /\ Running /\ Wanted
  /\ answer' = Failed
  /\ UNCHANGED <<line, position, files, changed, exit>>

Finish ==
  /\ answer = NoAnswer /\ line.ok /\ position = Len(line.pipelines)
  /\ answer' = [exit |-> exit, files |-> [p \in changed |-> files[p]]]
  /\ UNCHANGED <<line, position, files, changed, exit>>

Next == Refuse \/ Pass \/ Execute \/ Break \/ Finish
Spec == Init /\ [][Next]_vars
=============================================================================
