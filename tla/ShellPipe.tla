------------------------------ MODULE ShellPipe ------------------------------
(***************************************************************************)
(* One pipe of a BusyBox pipeline (shell_executor.ts): a ring buffer in a  *)
(* SharedArrayBuffer between two web workers, with a read pointer, a write *)
(* pointer and a closed flag that both sides access with Atomics.          *)
(*                                                                         *)
(* The upstream stage prints lines (PipeWriter.write) and closes when its  *)
(* applet has finished.  The downstream stage asks for input               *)
(* (PipeReader.read) until it gets null or has read enough.  Each atomic   *)
(* access and each byte copied is a step; a pointer that only its own      *)
(* thread stores is loaded together with the other one.                    *)
(*                                                                         *)
(* A byte is its position in the stream; 0 is a byte never written.        *)
(***************************************************************************)
EXTENDS Naturals, Sequences

CONSTANTS
  N,          \* PIPE_BUFFER_SIZE
  LineSizes,  \* encoded sizes of the lines a stage prints (a line ends in \n)
  ReadLen,    \* maxLen of PipeReader.read
  MaxBytes    \* bound: bytes printed in a behaviour

ASSUME PipeAssumption ==
  /\ N \in Nat \ {0, 1}
  /\ LineSizes \subseteq Nat \ {0}
  /\ ReadLen \in Nat \ {0}
  /\ MaxBytes \in Nat

VARIABLES
  data,      \* the ring
  readPtr,   \* control[0]
  writePtr,  \* control[1]
  closed,    \* control[2] # 0
  wpc,       \* where the writing stage is
  printed,   \* bytes handed to write() so far
  stored,    \* bytes copied into the ring so far
  sent,      \* bytes published by a store to writePtr so far
  goal,      \* value of stored when the current round of write() is copied
  rpc,       \* where the reading stage is
  seenPtr,   \* the writePtr that read() loaded
  seen,      \* history: value of sent when read() loaded writePtr
  take,      \* toRead
  chunk,     \* the result being filled
  out        \* bytes handed to the downstream applet, in order

wvars == <<wpc, printed, stored, sent, goal>>
rvars == <<rpc, seenPtr, seen, take, chunk, out>>
vars == <<data, readPtr, writePtr, closed, wvars, rvars>>

Slots == 0..(N - 1)
WriterOver == {"closed", "failed", "killed"}
ReaderOver == {"eof", "quit", "failed", "killed"}
Least(a, b) == IF a <= b THEN a ELSE b

Init ==
  /\ data = [s \in Slots |-> 0]
  /\ readPtr = 0 /\ writePtr = 0 /\ closed = FALSE
  /\ wpc = "idle" /\ printed = 0 /\ stored = 0 /\ sent = 0 /\ goal = 0
  /\ rpc = "idle" /\ seenPtr = 0 /\ seen = 0 /\ take = 0
  /\ chunk = <<>> /\ out = <<>>
-----------------------------------------------------------------------------
(* The upstream stage. *)

\* Atomics.notify(control, 1, 1)
Notify == rpc' = IF rpc = "asleep" THEN "retry" ELSE rpc

\* Free slots as write() computes them, and the correction it applies to 0.
Available == (readPtr + N - 1 - writePtr) % N
Room == IF Available = 0 THEN N - 1 ELSE Available

Emit(n) ==
  /\ wpc = "idle"
  /\ printed + n <= MaxBytes
  /\ printed' = printed + n
  /\ wpc' = "load"
  /\ UNCHANGED <<data, readPtr, writePtr, closed, stored, sent, goal, rvars>>

WriterLoad ==
  /\ wpc = "load"
  /\ goal' = sent + Least(printed - sent, Room)
  /\ wpc' = "copy"
  /\ UNCHANGED <<data, readPtr, writePtr, closed, printed, stored, sent, rvars>>

\* Mutation: every round of write() copies from the start of the text.
WriterCopyRestarts ==
  /\ wpc = "copy"
  /\ stored < goal
  /\ data' = [data EXCEPT ![(writePtr + (stored - sent)) % N] = stored - sent + 1]
  /\ stored' = stored + 1
  /\ UNCHANGED <<readPtr, writePtr, closed, wpc, printed, sent, goal, rvars>>

\* Mutation: the slot after the write pointer.
WriterCopyShifted ==
  /\ wpc = "copy"
  /\ stored < goal
  /\ data' = [data EXCEPT ![(writePtr + (stored - sent) + 1) % N] = stored + 1]
  /\ stored' = stored + 1
  /\ UNCHANGED <<readPtr, writePtr, closed, wpc, printed, sent, goal, rvars>>

WriterCopy ==
  /\ wpc = "copy"
  /\ stored < goal
  /\ data' = [data EXCEPT ![(writePtr + (stored - sent)) % N] = stored + 1]
  /\ stored' = stored + 1
  /\ UNCHANGED <<readPtr, writePtr, closed, wpc, printed, sent, goal, rvars>>

\* Mutation: the pointer does not wrap.
WriterPublishUnwrapped ==
  /\ wpc = "copy"
  /\ stored = goal
  /\ writePtr' = writePtr + (goal - sent)
  /\ sent' = goal
  /\ wpc' = IF goal < printed THEN "load" ELSE "idle"
  /\ Notify
  /\ UNCHANGED <<data, readPtr, closed, printed, stored, goal,
                 seenPtr, seen, take, chunk, out>>

WriterPublish ==
  /\ wpc = "copy"
  /\ stored = goal
  /\ writePtr' = (writePtr + (goal - sent)) % N
  /\ sent' = goal
  /\ wpc' = IF goal < printed THEN "load" ELSE "idle"
  /\ Notify
  /\ UNCHANGED <<data, readPtr, closed, printed, stored, goal,
                 seenPtr, seen, take, chunk, out>>

\* The applet has finished.
CloseWriter ==
  /\ wpc = "idle"
  /\ closed' = TRUE
  /\ wpc' = "closed"
  /\ Notify
  /\ UNCHANGED <<data, readPtr, writePtr, printed, stored, sent, goal,
                 seenPtr, seen, take, chunk, out>>

\* The applet throws: the stage reports an error and never closes its pipe.
StageError ==
  /\ wpc = "idle"
  /\ wpc' = "failed"
  /\ UNCHANGED <<data, readPtr, writePtr, closed, printed, stored, sent, goal, rvars>>
-----------------------------------------------------------------------------
(* The downstream stage. *)

ReaderLoad ==
  /\ rpc \in {"idle", "retry"}
  /\ seenPtr' = writePtr
  /\ seen' = sent
  /\ rpc' = "loaded"
  /\ UNCHANGED <<data, readPtr, writePtr, closed, wvars, take, chunk, out>>

\* Mutation: closed is tested before the data that is still there.
ReaderDecideClosedFirst ==
  LET available == (seenPtr + N - readPtr) % N IN
  /\ rpc = "loaded"
  /\ take' = Least(ReadLen, available)
  /\ rpc' = IF closed THEN "eof" ELSE IF available > 0 THEN "copy" ELSE "waiting"
  /\ UNCHANGED <<data, readPtr, writePtr, closed, wvars, seenPtr, seen, chunk, out>>

\* Loads closed, then decides on the three values.
ReaderDecide ==
  LET available == (seenPtr + N - readPtr) % N IN
  /\ rpc = "loaded"
  /\ take' = Least(ReadLen, available)
  /\ rpc' = IF available > 0 THEN "copy"
            ELSE IF closed THEN "eof" ELSE "waiting"
  /\ UNCHANGED <<data, readPtr, writePtr, closed, wvars, seenPtr, seen, chunk, out>>

\* Atomics.wait(control, 1, writePtr, 100) sleeps only if the value is the same.
ReaderWait ==
  /\ rpc = "waiting"
  /\ rpc' = IF writePtr = seenPtr THEN "asleep" ELSE "retry"
  /\ UNCHANGED <<data, readPtr, writePtr, closed, wvars, seenPtr, seen, take, chunk, out>>

\* The 100 ms are over.
ReaderTimeout ==
  /\ rpc = "asleep"
  /\ rpc' = "retry"
  /\ UNCHANGED <<data, readPtr, writePtr, closed, wvars, seenPtr, seen, take, chunk, out>>

ReaderCopy ==
  /\ rpc = "copy"
  /\ Len(chunk) < take
  /\ chunk' = Append(chunk, data[(readPtr + Len(chunk)) % N])
  /\ UNCHANGED <<data, readPtr, writePtr, closed, wvars, rpc, seenPtr, seen, take, out>>

\* Mutation: the bytes stay in the ring.
ReaderReturnKeeps ==
  /\ rpc = "copy"
  /\ Len(chunk) = take
  /\ out' = out \o chunk
  /\ chunk' = <<>>
  /\ rpc' = "idle"
  /\ UNCHANGED <<data, readPtr, writePtr, closed, wvars, seenPtr, seen, take>>

ReaderReturn ==
  /\ rpc = "copy"
  /\ Len(chunk) = take
  /\ readPtr' = (readPtr + take) % N
  /\ out' = out \o chunk
  /\ chunk' = <<>>
  /\ rpc' = "idle"
  /\ UNCHANGED <<data, writePtr, closed, wvars, seenPtr, seen, take>>

\* An applet such as head stops asking for input.
ReaderQuit ==
  /\ rpc = "idle"
  /\ rpc' = "quit"
  /\ UNCHANGED <<data, readPtr, writePtr, closed, wvars, seenPtr, seen, take, chunk, out>>

\* The downstream applet throws.
ReaderError ==
  /\ rpc = "idle"
  /\ rpc' = "failed"
  /\ UNCHANGED <<data, readPtr, writePtr, closed, wvars, seenPtr, seen, take, chunk, out>>

\* Mutation: the main thread waits for every stage, whatever one reports.
TerminateNever == FALSE /\ UNCHANGED vars

\* A stage reported an error, Promise.all is rejected: the main thread
\* terminates the stages, wherever they are.
Terminate ==
  /\ wpc = "failed" \/ rpc = "failed"
  /\ wpc \notin WriterOver \/ rpc \notin ReaderOver
  /\ wpc' = IF wpc \in WriterOver THEN wpc ELSE "killed"
  /\ rpc' = IF rpc \in ReaderOver THEN rpc ELSE "killed"
  /\ UNCHANGED <<data, readPtr, writePtr, closed, printed, stored, sent, goal,
                 seenPtr, seen, take, chunk, out>>
-----------------------------------------------------------------------------
Writer == WriterLoad \/ WriterCopy \/ WriterPublish
InRead == ReaderDecide \/ ReaderWait \/ ReaderTimeout \/ ReaderCopy \/ ReaderReturn
Reader == ReaderLoad \/ InRead \/ ReaderQuit

\* Both stages are over.
Finished ==
  /\ wpc \in WriterOver
  /\ rpc \in ReaderOver

Others ==
  \/ CloseWriter
  \/ StageError
  \/ ReaderError
  \/ Writer
  \/ Reader
  \/ Terminate
  \/ Finished /\ UNCHANGED vars

Next == (\E n \in LineSizes : Emit(n)) \/ Others

\* The worker threads are scheduled; an applet ends some day, and a consumer
\* that has a byte to ask for asks for it or stops.
Fairness ==
  /\ WF_vars(Writer)
  /\ WF_vars(CloseWriter \/ StageError)
  /\ WF_vars(Reader)
  /\ WF_vars(Terminate)

Spec == Init /\ [][Next]_vars /\ Fairness

(***************************************************************************)
(* The environment in which the ring can keep its promise: the downstream  *)
(* stage keeps up, so that a line is printed only when it fits.  Pointers  *)
(* still wrap around any number of times.                                  *)
(***************************************************************************)
KeptUpNext == (\E n \in LineSizes : n <= Available /\ Emit(n)) \/ Others

KeptUpSpec == Init /\ [][KeptUpNext]_vars /\ Fairness
-----------------------------------------------------------------------------
(* Properties. *)

\* Pointers stay inside the ring (PipeWriter.write and PipeReader.read store
\* them modulo PIPE_BUFFER_SIZE), whatever was overwritten.
TypeOK ==
  /\ data \in [Slots -> Nat]
  /\ readPtr \in Slots /\ writePtr \in Slots /\ seenPtr \in Slots
  /\ closed \in BOOLEAN
  /\ wpc \in {"idle", "load", "copy"} \cup WriterOver
  /\ rpc \in {"idle", "loaded", "waiting", "asleep", "retry", "copy"} \cup ReaderOver
  /\ printed \in Nat /\ stored \in Nat /\ sent \in Nat /\ goal \in Nat
  /\ seen \in Nat /\ take \in Nat
  /\ chunk \in Seq(Nat) /\ out \in Seq(Nat)

\* What PipeReader.read has returned is the stream, from its first byte on:
\* nothing lost, repeated, reordered or read before it was published.
InOrder == Len(out) <= sent /\ \A i \in 1..Len(out) : out[i] = i

\* No byte is overwritten between its publication and its reading.
UnreadIntact == \A k \in (Len(out) + 1)..sent : data[(k - 1) % N] = k

\* read() reports the end of input from three separate loads.  What it can cut
\* off is what was published between the load of writePtr and that of closed.
EofSnapshot == rpc = "eof" => Len(out) = seen

\* Even when the writer overruns the reader, read() hands out only bytes that
\* write() has stored, never the initial content of the ring.
OnlyWritten == \A i \in 1..Len(out) : out[i] \in 1..stored

\* Both stages end: a write to a full ring does not block, a reader that misses
\* the notification of close() wakes up by its timeout, and a stage whose partner
\* throws, which leaves the pipe open, is terminated.
PipelineEnds == <>[]Finished

\* The ring implements the abstract pipe, except that the end of input may
\* come before the last bytes.
Pipe == INSTANCE BytePipe WITH got <- out, shut <- closed, eof <- (rpc = "eof")
DeliversPrefix == Pipe!PrefixSpec
=============================================================================
