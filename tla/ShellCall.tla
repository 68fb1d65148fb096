----------------------------- MODULE ShellCall -----------------------------
(***************************************************************************)
(* A shell call (shell_executor.ts, executeShell): the command is cut into *)
(* tokens, parsed, and evaluated pipeline by pipeline.  A pipeline of      *)
(* several commands is executed by a worker for each, whose pipes are in   *)
(* ShellPipe.                                                              *)
(*                                                                         *)
(* A command is a text, a sequence of characters.  What the words and      *)
(* operators it was written from mean is kept beside it.                   *)
(***************************************************************************)
EXTENDS ShellApplets

CONSTANT Commands     \* each a text and what it means

VARIABLES
  source,    \* what the command means
  text,
  tree,      \* parsed
  item, segment,  \* the and-or list, and the pipeline of it, evaluated next
  files, changedFiles, lastExitCode,   \* state: EvaluationState
  workers,   \* the workers of the pipeline that is executed
  result

vars == <<source, text, tree, item, segment, files, changedFiles, lastExitCode, workers, result>>
state == <<files, changedFiles, lastExitCode>>
here == <<source, text, tree>>

Quotes == {"'", "\""}
Blanks == {" ", "\t", "\n"}
Double == {<<"&", "&">>, <<"|", "|">>, <<">", ">">>}
Single == {"|", ";", ">", "<"}
Control == {Pipe, And, Or, Semicolon}

----------------------------------------------------------------------------
(* tokenizeShell: current is the word being read, quote the quote it is    *)
(* in, past the index of the last character that has been read.            *)
PushWord(scan) == IF scan.current = <<>> THEN scan.tokens ELSE Append(scan.tokens, Word(scan.current))
NextTwo(s, i) == SubSeq(s, i, IF i < Len(s) THEN i + 1 ELSE i)
Scan(s, scan, i) ==
  CASE i <= scan.past -> scan
    [] i > scan.past /\ scan.quote # None ->
         [scan EXCEPT !.current = Append(@, s[i]), !.quote = IF s[i] = @ THEN None ELSE @]
    [] i > scan.past /\ scan.quote = None /\ s[i] \in Quotes ->
         [scan EXCEPT !.current = Append(@, s[i]), !.quote = s[i]]
    [] i > scan.past /\ scan.quote = None /\ s[i] \in Blanks ->
         [scan EXCEPT !.tokens = PushWord(scan), !.current = <<>>]
    [] i > scan.past /\ scan.quote = None /\ NextTwo(s, i) \in Double ->
         [scan EXCEPT !.tokens = Append(PushWord(scan), Operator(NextTwo(s, i))), !.current = <<>>,
                      !.past = i + 1]
    [] i > scan.past /\ scan.quote = None /\ NextTwo(s, i) \notin Double /\ s[i] \in Single ->
         [scan EXCEPT !.tokens = Append(PushWord(scan), Operator(<<s[i]>>)), !.current = <<>>]
    [] OTHER -> [scan EXCEPT !.current = Append(@, s[i])]
TokenizeShell(s) ==
  LET scan == FoldLeftDomain(LAMBDA acc, i : Scan(s, acc, i),
                             [tokens |-> <<>>, current |-> <<>>, quote |-> None, past |-> 0], s)
  IN  PushWord(scan)

\* parseArgv on a word: without the quotes it is in.
Unquote(acc, char) ==
  CASE acc.quote = char -> [acc EXCEPT !.quote = None]
    [] acc.quote = None /\ char \in Quotes -> [acc EXCEPT !.quote = char]
    [] OTHER -> [acc EXCEPT !.value = Append(@, char)]
ParseWord(raw) == FoldLeft(Unquote, [value |-> <<>>, quote |-> None], raw).value
Plain(t) == [i \in DOMAIN t |->
              IF t[i].type = "word" THEN Word(ParseWord(t[i].value)) ELSE t[i]]

----------------------------------------------------------------------------
(* ShellParser, on the tokens t from token i on: the node it has read, and *)
(* the token after it.                                                     *)
Is(t, i, ops) == i \in DOMAIN t /\ t[i] \in ops
Wrong == [ok |-> FALSE, node |-> <<>>, next |-> 0]
Prefixed(node, more) == IF more.ok THEN [more EXCEPT !.node = <<node>> \o @] ELSE Wrong

\* parseSimpleCommandTokens: op is a redirection that awaits its target.
NoCommand == [argv |-> <<>>, out |-> None, append |-> None, in |-> None]
Redirect(cmd, op, target) ==
  CASE op = Into -> [cmd EXCEPT !.out = target]
    [] op = Onto -> [cmd EXCEPT !.append = target]
    [] OTHER -> [cmd EXCEPT !.in = target]
Take(acc, token) ==
  CASE token.type = "operator" ->
         [acc EXCEPT !.ok = @ /\ acc.op = None /\ token \in Redirects, !.op = token]
    [] token.type = "word" /\ acc.op = None ->
         [acc EXCEPT !.command.argv = Append(@, token.value)]
    [] OTHER -> [acc EXCEPT !.ok = @ /\ token.value # <<>>, !.op = None,
                            !.command = Redirect(@, acc.op, token.value)]
End(t, i) == CHOOSE j \in i..(Len(t) + 1) :
               /\ j = Len(t) + 1 \/ t[j] \in Control
               /\ \A k \in i..(j - 1) : t[k] \notin Control
Complete(taken, end) == IF taken.ok /\ taken.op = None
                        THEN [ok |-> TRUE, node |-> taken.command, next |-> end] ELSE Wrong
ParseSimpleCommand(t, i) ==
  IF End(t, i) = i THEN Wrong
  ELSE Complete(FoldLeft(Take, [ok |-> TRUE, op |-> None, command |-> NoCommand],
                         Plain(SubSeq(t, i, End(t, i) - 1))), End(t, i))

ParsePipeline(t, first) ==
  LET parse[i \in 1..(Len(t) + 1)] ==
        LET one == ParseSimpleCommand(t, i)
        IN  IF Is(t, one.next, {Pipe}) THEN Prefixed(one.node, parse[one.next + 1])
            ELSE [one EXCEPT !.node = <<@>>]
  IN  parse[first]

\* The rest of an and-or list: operators, each with the pipeline right of it.
Headed(head, rest) == IF rest.ok THEN [rest EXCEPT !.node = [first |-> head, rest |-> @]] ELSE Wrong
ParseAndOr(t, first) ==
  LET rest[i \in 0..(Len(t) + 1)] ==
        IF i = 0 THEN Wrong
        ELSE IF ~Is(t, i, {And, Or}) THEN [ok |-> TRUE, node |-> <<>>, next |-> i]
        ELSE LET right == ParsePipeline(t, i + 1)
             IN  Prefixed([operator |-> t[i], right |-> right.node], rest[right.next])
      head == ParsePipeline(t, first)
  IN  Headed(head.node, rest[head.next])

\* A sequence of lists; a ";" may end it.
Continues(t, list) == Is(t, list.next, {Semicolon}) /\ list.next < Len(t)
Final(t, list) ==
  IF list.ok /\ (list.next > Len(t) \/ t[list.next] = Semicolon)
  THEN [list EXCEPT !.node = <<@>>] ELSE Wrong
Parse(t) ==
  LET items[i \in 1..(Len(t) + 1)] ==
        LET list == ParseAndOr(t, i)
        IN  IF Continues(t, list) THEN Prefixed(list.node, items[list.next + 1])
            ELSE Final(t, list)
  IN  IF t = <<>> THEN [ok |-> TRUE, node |-> <<>>, next |-> 1] ELSE items[1]

----------------------------------------------------------------------------
\* parseShellExpression, before anything is executed.
Parsed(s) == Parse(TokenizeShell(s))

Init ==
  /\ \E command \in Commands : source = command.source /\ text = command.text
  /\ tree = Parsed(text)
  /\ item = 1 /\ segment = 0
  /\ files = Old /\ changedFiles = <<>> /\ lastExitCode = 0
  /\ workers = <<>>
  /\ result = NoAnswer

\* Bug: the workers go on.
ThrowLeaves == result' = Failed /\ UNCHANGED <<here, item, segment, state, workers>>
\* An exception ends the call; what had been evaluated is not reported.
Throw == result' = Failed /\ workers' = <<>> /\ UNCHANGED <<here, item, segment, state>>

\* The parser has thrown.
SyntaxError == ~tree.ok /\ result = NoAnswer /\ Throw

\* evaluateSequence: the pipeline that is next, and the one after it.
Evaluating == tree.ok /\ result = NoAnswer /\ item <= Len(tree.node)
Segment == tree.node[item].rest[segment]
Node == IF segment = 0 THEN tree.node[item].first ELSE Segment.right
ShouldRun == \/ segment = 0
             \/ segment > 0 /\ IF Segment.operator = And THEN lastExitCode = 0 ELSE lastExitCode # 0
Advance == /\ UNCHANGED here
           /\ IF segment < Len(tree.node[item].rest)
              THEN segment' = segment + 1 /\ UNCHANGED item
              ELSE segment' = 0 /\ item' = item + 1
Position == FoldLeft(LAMBDA n, list : n + 1 + Len(list.rest), segment, SubSeq(tree.node, 1, item - 1))
Id(i) == <<Position, i>>

Continue ==
  /\ Evaluating /\ ~ShouldRun
  /\ Advance
  /\ UNCHANGED <<state, workers, result>>

\* applyChangedFiles, and the end of executeNode.
Apply(changes, exit) ==
  /\ files' = Overlaid(files, changes)
  /\ changedFiles' = Overlaid(changedFiles, changes)
  /\ lastExitCode' = exit
  /\ workers' = <<>>
  /\ Advance
  /\ UNCHANGED result

Simple == Evaluating /\ ShouldRun /\ Len(Node) = 1
ExecuteSimpleCommand ==
  /\ Simple
  /\ LET end == Outcome(files, Node[1], Id(1))
     IN  Apply(Changes(files, end.files), end.exit)
SimpleCommandThrows == Simple /\ Throw

----------------------------------------------------------------------------
(* executePipeline: each worker loads BusyBox and the files of the         *)
(* workspace, executes its command and sends what it changed.              *)
StartPipeline ==
  /\ Evaluating /\ ShouldRun /\ Len(Node) > 1 /\ workers = <<>>
  /\ workers' = [i \in DOMAIN Node |-> [at |-> "init"]]
  /\ UNCHANGED <<here, item, segment, state, result>>

Become(i, worker) ==
  /\ workers' = [workers EXCEPT ![i] = worker]
  /\ UNCHANGED <<here, item, segment, state, result>>

Ready(i) == workers[i].at = "init" /\ Become(i, [at |-> "run"])

Done(i) ==
  /\ workers[i].at = "run"
  /\ LET end == Outcome(files, Node[i], Id(i))
     IN  Become(i, [at |-> "done", exit |-> end.exit, created |-> Changes(files, end.files)])

\* Bug: nobody listens to the error of a worker.
Unheard(i) == workers[i].at \in {"init", "run"} /\ Become(i, [at |-> "error"])
\* The promise of the worker is rejected, and the others are terminated.
WorkerFails(i) == workers[i].at \in {"init", "run"} /\ Throw

\* Bug: the last writer wins.
NoConflict == FALSE
\* mergePipelineChanges
Conflict == \E i, j \in DOMAIN workers :
              i # j /\ DOMAIN workers[i].created \cap DOMAIN workers[j].created # {}
Merge == FoldLeft(LAMBDA merged, w : Overlaid(merged, w.created), <<>>, workers)
Join ==
  /\ workers # <<>> /\ \A i \in DOMAIN workers : workers[i].at = "done"
  /\ IF Conflict THEN Throw ELSE Apply(Merge, Last(workers).exit)

Return ==
  /\ tree.ok /\ result = NoAnswer /\ item > Len(tree.node)
  /\ result' = [exit |-> lastExitCode, files |-> changedFiles]
  /\ UNCHANGED <<here, item, segment, state, workers>>

Worker(i) == Ready(i) \/ Done(i) \/ WorkerFails(i)
Next == \/ SyntaxError \/ Continue \/ ExecuteSimpleCommand \/ SimpleCommandThrows
        \/ StartPipeline \/ Join \/ Return
        \/ \E i \in DOMAIN workers : Worker(i)
Spec == Init /\ [][Next]_vars /\ WF_vars(Next)

----------------------------------------------------------------------------
\* Every variable has its type; workers exist only while a pipeline of several
\* commands is executed, one for each.
TypeOK ==
  /\ tree.ok \in BOOLEAN
  /\ item \in 1..(Len(tree.node) + 1)
  /\ item <= Len(tree.node) => segment \in 0..Len(tree.node[item].rest)
  /\ DOMAIN changedFiles \subseteq DOMAIN files
  /\ lastExitCode \in {0, 1}
  /\ workers # <<>> => Evaluating /\ Len(Node) > 1 /\ DOMAIN workers = DOMAIN Node
  /\ result.exit \in {-1, 0, 1}

\* The call does what the command means by the grammar and the order of POSIX
\* lists: what is executed and what is passed over, from which files, with
\* which exit status, and what is reported (executeShell).
Meaning == INSTANCE ShellMeaning
             WITH line <- source, position <- Position, exit <- lastExitCode,
                  changed <- DOMAIN changedFiles, answer <- result
Means == Meaning!Spec

\* Every call is answered, when applets end: no failure of a worker leaves it
\* waiting for the others (executePipeline).
Answered == <>(result # NoAnswer)
============================================================================
