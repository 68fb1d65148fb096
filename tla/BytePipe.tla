------------------------------ MODULE BytePipe ------------------------------
(***************************************************************************)
(* What a shell pipe promises to the two stages it connects, without a     *)
(* buffer: bytes come out in the order they went in, none is invented, and *)
(* the end of the input is reported only after the writer has closed.      *)
(* A byte is its position in the stream: 1 is the first byte written.      *)
(***************************************************************************)
EXTENDS Naturals, Sequences

VARIABLES
  sent,  \* how many bytes the upstream stage has put into the pipe
  got,   \* the bytes the downstream stage has taken out, in order
  shut,  \* the upstream stage has closed the pipe
  eof    \* the downstream stage was told that the input has ended

vars == <<sent, got, shut, eof>>

Init ==
  /\ sent = 0
  /\ got = <<>>
  /\ shut = FALSE
  /\ eof = FALSE

Send ==
  /\ ~shut
  /\ sent' \in Nat
  /\ sent' > sent
  /\ UNCHANGED <<got, shut, eof>>

Close ==
  /\ ~shut
  /\ shut' = TRUE
  /\ UNCHANGED <<sent, got, eof>>

\* The next n bytes of the stream, and nothing else.
Receive ==
  /\ ~eof
  /\ \E n \in 1..(sent - Len(got)) :
       got' = got \o [i \in 1..n |-> Len(got) + i]
  /\ UNCHANGED <<sent, shut, eof>>

\* End of input: everything that was sent has been received.
EndOfInput ==
  /\ shut
  /\ ~eof
  /\ Len(got) = sent
  /\ eof' = TRUE
  /\ UNCHANGED <<sent, got, shut>>

\* End of input that may cut the stream short.
TruncatedEnd ==
  /\ shut
  /\ ~eof
  /\ eof' = TRUE
  /\ UNCHANGED <<sent, got, shut>>

Next == Send \/ Close \/ Receive \/ EndOfInput

\* The promise of a pipe: the whole stream, then the end of input.
Spec == Init /\ [][Next]_vars

\* A weaker promise: a prefix of the stream, then the end of input.
PrefixSpec == Init /\ [][Next \/ TruncatedEnd]_vars
=============================================================================
