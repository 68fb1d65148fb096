---------------------------- MODULE MCShellCall ----------------------------
(* ShellCall for TLC: texts of up to Longest tokens, with and without        *)
(* blanks, and of three commands joined by two operators.                    *)
EXTENDS ShellCall, TLC

CONSTANT Longest

f == Word(<<"f">>)
ok == Word(<<"o">>)
fails == Word(<<"n">>)
writes == Word(<<"w">>)
removes == Word(<<"r">>)
stuck == Word(<<"s">>)
quoted == Word(<<";", "|">>)
empty == Word(<<>>)
Tokens == {ok, f, quoted, empty} \cup Redirects \cup Control

Special == {"&", "|", ";", ">", "<", " "}
Rendered(token) ==
  IF token.type = "word" /\ (token.value = <<>> \/ ToSet(token.value) \cap Special # {})
  THEN <<"'">> \o token.value \o <<"'">> ELSE token.value
\* A blank is needed between two words and between two operators.
Text(s, blanks) ==
  FlattenSeq([i \in DOMAIN s |->
    IF i = Len(s) \/ (~blanks /\ s[i].type # s[i + 1].type) THEN Rendered(s[i])
    ELSE Append(Rendered(s[i]), " ")])

Simples == {<<ok>>, <<fails>>, <<writes>>, <<removes>>, <<ok, Into, f>>, <<From, f, ok>>,
            <<stuck, Onto, f>>}
Joined == {a \o <<o>> \o b \o <<p>> \o c : a, b, c \in Simples, o, p \in Control}
TheCommands == {[source |-> Meaning!Meant(s), text |-> Text(s, blanks)] :
                  s \in BoundedSeq(Tokens, Longest), blanks \in BOOLEAN}
               \cup {[source |-> Meaning!Meant(s), text |-> Text(s, FALSE)] : s \in Joined}

TheFile == <<"f">>
Nothing == [writes |-> {}, removes |-> {}, exit |-> 0, redirects |-> TRUE]
TheApplets == [w \in {t.value : t \in {ok, f, quoted, empty, fails, writes, removes, stuck}} |->
  CASE w = fails.value -> [Nothing EXCEPT !.exit = 1]
    [] w = writes.value -> [Nothing EXCEPT !.writes = {TheFile}]
    [] w = removes.value -> [Nothing EXCEPT !.removes = {TheFile}, !.exit = 1]
    [] w = stuck.value -> [Nothing EXCEPT !.redirects = FALSE]
    [] OTHER -> Nothing]
Workspace == [p \in {TheFile} |-> <<<<-1, 0>>>>]
============================================================================
