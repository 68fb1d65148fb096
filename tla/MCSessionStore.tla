--------------------------- MODULE MCSessionStore ---------------------------
(* Instances of SessionStore for TLC.  ada and bob work in one VFS, "team"; *)
(* cy works in her own.  Two restores of ada's session can overlap.          *)
EXTENDS SessionStore

MCThreads == {"ada", "bob", "cy"}
MCWorkspace == [t \in MCThreads |-> IF t = "cy" THEN "cy" ELSE "team"]
MCMortal == {"cy", "snap"}
MCPaths == {"p", "q"}

\* Every operation, by threads that share a VFS and by one that does not.
MCDoes ==
  [one |-> {<<"write", "ada", "p">>, <<"write", "cy", "p">>, <<"create", "cy", None>>},
   two |-> {<<"write", "bob", "p">>, <<"write", "bob", "q">>, <<"unlink", "bob", "p">>,
            <<"run", "ada", None>>, <<"restore", "ada", None>>},
   snap |-> {<<"snapshot", "ada", None>>, <<"snapshot", "cy", None>>},
   rest |-> {<<"restore", "ada", None>>, <<"restore", "bob", None>>, <<"restore", "cy", None>>,
             <<"reset", "cy", None>>}]

MCCalls == DOMAIN MCDoes
=============================================================================
