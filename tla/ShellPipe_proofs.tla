--------------------------- MODULE ShellPipe_proofs ---------------------------
(***************************************************************************)
(* Proofs about the pipe of ShellPipe for every ring size, every set of    *)
(* line sizes and every read length.                                       *)
(***************************************************************************)
EXTENDS ShellPipe, ModArith, SequenceTheorems

\* How far the writing stage is in a call of write().
Counts ==
  /\ sent <= stored /\ stored <= printed
  /\ wpc \in {"idle", "closed", "failed"} => stored = sent /\ printed = sent
  /\ wpc = "load" => stored = sent /\ sent < printed
  /\ wpc = "copy" => stored <= goal /\ goal <= printed

\* The pointers stand for counts that are never a whole ring apart.
Pointers ==
  /\ readPtr = Len(out) % N
  /\ writePtr = sent % N
  /\ Len(out) <= sent
  /\ printed - Len(out) < N

\* Every byte stored and not yet read is in its slot.
Content == \A k \in (Len(out) + 1)..stored : data[(k - 1) % N] = k

\* What a call of read() has found so far.
ReadCall ==
  /\ rpc \in {"loaded", "copy"} =>
       Len(out) <= seen /\ seen <= sent /\ seenPtr = seen % N
  /\ rpc \notin {"copy", "killed"} => chunk = <<>>
  /\ rpc = "copy" =>
       /\ Len(out) + take <= seen
       /\ Len(chunk) <= take
       /\ \A i \in 1..Len(chunk) : chunk[i] = Len(out) + i

WInv == TypeOK /\ Counts
RingInv == WInv /\ Pointers /\ Content /\ ReadCall /\ InOrder /\ EofSnapshot
-----------------------------------------------------------------------------
USE PipeAssumption DEF WriterOver, ReaderOver

LEMMA LeastNat ==
  ASSUME NEW a \in Nat, NEW b \in Nat
  PROVE  Least(a, b) \in Nat /\ Least(a, b) <= a /\ Least(a, b) <= b
BY DEF Least

\* A pointer modulo the size is a slot.
LEMMA ModSlot ==
  ASSUME NEW x \in Nat
  PROVE  x % N \in Slots
BY ModRange DEF Slots

\* The free slots computed by write(), after its correction, are a natural number.
LEMMA RoomNat ==
  ASSUME TypeOK
  PROVE  Room \in Nat
<1>1. readPtr + N - 1 - writePtr \in Nat
  BY DEF TypeOK, Slots
<1>2. Available \in 0..(N - 1)
  BY <1>1, ModRange DEF Available
<1>3. QED
  BY <1>2 DEF Room

\* The used slots computed by read() are a natural number.
LEMMA UsedNat ==
  ASSUME TypeOK
  PROVE  (seenPtr + N - readPtr) % N \in Nat
<1> DEFINE x == seenPtr + N - readPtr
<1>1. x \in Nat
  BY DEF TypeOK, Slots
<1> HIDE DEF x
<1>2. x % N \in Nat
  BY <1>1, ModRange
<1>3. QED
  BY <1>2 DEF x

LEMMA InitWInv == Init => WInv
BY DEF Init, WInv, TypeOK, Counts, Slots

LEMMA PrintWInv ==
  ASSUME WInv, NEW n \in LineSizes, Emit(n)
  PROVE  WInv'
BY DEF WInv, TypeOK, Counts, Emit, rvars

LEMMA WriterWInv ==
  ASSUME WInv, Writer
  PROVE  WInv'
<1> USE DEF WInv, Counts
<1>1. CASE WriterLoad
  <2>1. printed - sent \in Nat /\ Room \in Nat
    BY <1>1, RoomNat DEF WriterLoad, TypeOK
  <2> DEFINE m == Least(printed - sent, Room)
  <2>4. m \in Nat /\ m <= printed - sent
    BY <2>1, LeastNat
  <2>5. goal' = sent + m
    BY <1>1 DEF WriterLoad
  <2> HIDE DEF m
  <2>2. goal' \in Nat /\ sent <= goal' /\ goal' <= printed
    BY <2>4, <2>5 DEF TypeOK
  <2>3. QED
    BY <1>1, <2>2 DEF WriterLoad, TypeOK, rvars
<1>2. CASE WriterCopy
  <2>1. stored - sent \in Nat
    BY DEF TypeOK
  <2>2. stored + 1 \in Nat /\ data' \in [Slots -> Nat]
    <3> DEFINE slot == (writePtr + (stored - sent)) % N
    <3>1. data' = [data EXCEPT ![slot] = stored + 1]
      BY <1>2 DEF WriterCopy
    <3> HIDE DEF slot
    <3>2. data \in [Slots -> Nat] /\ stored + 1 \in Nat
      BY DEF TypeOK
    <3>3. QED
      BY <3>1, <3>2
  <2>3. QED
    BY <1>2, <2>2 DEF WriterCopy, TypeOK, rvars
<1>3. CASE WriterPublish
  <2>1. writePtr + (goal - sent) \in Nat
    BY <1>3 DEF WriterPublish, TypeOK, Slots
  <2>2. writePtr' \in Slots
    BY <1>3, <2>1, ModSlot DEF WriterPublish
  <2>3. rpc' \in {"idle", "loaded", "waiting", "asleep", "retry", "copy"}
                 \cup ReaderOver
    BY <1>3 DEF WriterPublish, TypeOK, Notify
  <2>4. QED
    BY <1>3, <2>2, <2>3 DEF WriterPublish, TypeOK
<1>4. QED
  BY <1>1, <1>2, <1>3 DEF Writer

LEMMA ReaderWInv ==
  ASSUME WInv, Reader
  PROVE  WInv'
<1> USE DEF WInv, Counts
<1>1. CASE ReaderLoad
  BY <1>1 DEF ReaderLoad, TypeOK, wvars
<1>2. CASE ReaderDecide
  <2>1. take' \in Nat
    BY <1>2, UsedNat, LeastNat DEF ReaderDecide
  <2>2. rpc' \in {"copy", "eof", "waiting"}
    BY <1>2 DEF ReaderDecide
  <2>3. UNCHANGED <<data, readPtr, writePtr, closed, wvars, seenPtr, seen, chunk, out>>
    BY <1>2 DEF ReaderDecide
  <2>4. QED
    BY <2>1, <2>2, <2>3 DEF TypeOK, wvars
<1>3. CASE ReaderWait
  BY <1>3 DEF ReaderWait, TypeOK, wvars
<1>4. CASE ReaderTimeout
  BY <1>4 DEF ReaderTimeout, TypeOK, wvars
<1>5. CASE ReaderCopy
  <2>1. readPtr + Len(chunk) \in Nat
    BY DEF TypeOK, Slots
  <2>2. data[(readPtr + Len(chunk)) % N] \in Nat
    BY <2>1, ModSlot DEF TypeOK
  <2>3. chunk' \in Seq(Nat)
    BY <1>5, <2>2 DEF ReaderCopy, TypeOK
  <2>4. UNCHANGED <<data, readPtr, writePtr, closed, wvars, rpc, seenPtr, seen, take, out>>
    BY <1>5 DEF ReaderCopy
  <2>5. QED
    BY <2>3, <2>4 DEF TypeOK, wvars
<1>6. CASE ReaderReturn
  <2>1. readPtr' \in Slots
    BY <1>6, ModSlot DEF ReaderReturn, TypeOK, Slots
  <2>2. out' \in Seq(Nat)
    BY <1>6 DEF ReaderReturn, TypeOK
  <2>3. QED
    BY <1>6, <2>1, <2>2 DEF ReaderReturn, TypeOK, wvars
<1>7. CASE ReaderQuit
  BY <1>7 DEF ReaderQuit, TypeOK, wvars
<1>8. QED
  BY <1>1, <1>2, <1>3, <1>4, <1>5, <1>6, <1>7 DEF Reader, InRead

LEMMA OthersWInv ==
  ASSUME WInv, Others
  PROVE  WInv'
<1>1. CASE CloseWriter
  BY <1>1 DEF WInv, Counts, TypeOK, CloseWriter, Notify
<1>2. CASE StageError
  BY <1>2 DEF WInv, Counts, TypeOK, StageError, rvars
<1>3. CASE Terminate
  BY <1>3 DEF WInv, Counts, TypeOK, Terminate
<1>4. CASE UNCHANGED vars
  BY <1>4 DEF WInv, Counts, TypeOK, vars, wvars, rvars
<1>5. CASE ReaderError
  BY <1>5 DEF WInv, Counts, TypeOK, ReaderError, ReaderOver, wvars
<1>6. QED
  BY <1>1, <1>2, <1>3, <1>4, <1>5, WriterWInv, ReaderWInv DEF Others

LEMMA NextWInv == WInv /\ [Next]_vars => WInv'
<1> SUFFICES ASSUME WInv, [Next]_vars PROVE WInv'
  OBVIOUS
<1>1. CASE UNCHANGED vars
  BY <1>1 DEF WInv, Counts, TypeOK, vars, wvars, rvars
<1>2. QED
  BY <1>1, PrintWInv, OthersWInv DEF Next

\* The pointers and counters of the pipe keep their types, even when the
\* writer overruns the reader.
THEOREM TypeCorrect == Spec => []TypeOK
<1>1. WInv => TypeOK
  BY DEF WInv
<1>2. QED
  BY <1>1, InitWInv, NextWInv, PTL DEF Spec
-----------------------------------------------------------------------------
(* When the writer overruns the reader. *)

\* What has been written: the slots from the first one on, all of them once the
\* ring has been full.  Until then both pointers are counts.
Filled ==
  /\ \A s \in Slots : s < stored => data[s] \in 1..stored
  /\ sent < N => writePtr = sent /\ readPtr <= sent

\* A read that loaded the pointer before the ring was full stays below it.
ReadsFilled ==
  /\ rpc \in {"loaded", "copy"} => seen <= sent
  /\ rpc \in {"loaded", "copy"} /\ seen < N => seenPtr = seen /\ readPtr <= seen
  /\ rpc = "copy" /\ seen < N => readPtr + take <= seen
  /\ rpc \notin {"copy", "killed"} => chunk = <<>>

\* Bytes in the hands of the reader have been stored.
Known(bytes) == \A i \in 1..Len(bytes) : bytes[i] \in 1..stored
FillInv == WInv /\ Filled /\ ReadsFilled /\ Known(chunk) /\ Known(out)

\* A count smaller than the ring is a slot of its own.
LEMMA SmallMod ==
  ASSUME NEW x \in Nat, x < N
  PROVE  x % N = x
<1>1. x \in 0..(N - 1) /\ x = N * 0 + x
  OBVIOUS
<1> QED
  BY <1>1, ModUnique

LEMMA FillInit == Init => FillInv
BY InitWInv DEF Init, FillInv, Filled, ReadsFilled, Known

\* Steps that touch neither the ring nor what the reader holds.
Quiet ==
  /\ UNCHANGED <<data, readPtr, writePtr, stored, sent, seenPtr, seen, take, chunk, out>>
  /\ \/ rpc' = rpc
     \/ rpc' = "killed"
     \/ rpc \notin {"copy", "killed"} /\ rpc' \in {"retry", "asleep", "quit", "failed"}

LEMMA QuietFill ==
  ASSUME FillInv, WInv', Quiet
  PROVE  FillInv'
BY DEF Quiet, FillInv, Filled, ReadsFilled, Known

LEMMA WriterFill ==
  ASSUME FillInv, Writer, WInv'
  PROVE  FillInv'
<1> USE DEF FillInv
<1>1. CASE WriterLoad
  BY <1>1, QuietFill DEF WriterLoad, rvars, Quiet
<1>2. CASE WriterCopy
  <2> DEFINE slot == (writePtr + (stored - sent)) % N
  <2>1. /\ data' = [data EXCEPT ![slot] = stored + 1] /\ stored' = stored + 1
        /\ UNCHANGED <<readPtr, writePtr, sent, rvars>>
    BY <1>2 DEF WriterCopy
  <2>2. /\ stored \in Nat /\ sent \in Nat /\ sent <= stored /\ writePtr \in Nat
        /\ data \in [Slots -> Nat]
    <3>1. sent <= stored
      BY DEF WInv, Counts
    <3>2. stored \in Nat /\ sent \in Nat /\ writePtr \in Slots /\ data \in [Slots -> Nat]
      BY DEF WInv, TypeOK
    <3>3. Slots \subseteq Nat
      BY DEF Slots
    <3> QED
      BY <3>1, <3>2, <3>3
  <2>3. stored < N => slot = stored
    <3> SUFFICES ASSUME stored < N PROVE slot = stored
      OBVIOUS
    <3>1. writePtr + (stored - sent) = stored
      BY <2>2 DEF Filled
    <3>2. stored % N = stored
      BY <2>2, SmallMod
    <3> QED
      BY <3>1, <3>2
  <2> HIDE DEF slot
  <2>4. Filled'
    BY <2>1, <2>2, <2>3 DEF Filled, Slots
  <2>5. ReadsFilled'
    BY <2>1 DEF ReadsFilled, rvars
  <2>6. Known(chunk)' /\ Known(out)'
    BY <2>1, <2>2 DEF Known, rvars
  <2> QED
    BY <2>4, <2>5, <2>6
<1>3. CASE WriterPublish
  <2>1. /\ writePtr' = (writePtr + (goal - sent)) % N /\ sent' = goal /\ stored = goal /\ Notify
        /\ UNCHANGED <<data, readPtr, stored, seenPtr, seen, take, chunk, out>>
    BY <1>3 DEF WriterPublish
  <2>2. sent \in Nat /\ goal \in Nat /\ sent <= goal /\ readPtr \in Nat /\ seen \in Nat
    BY <2>1 DEF WInv, TypeOK, Counts, Slots
  <2>3. goal < N => writePtr' = goal
    <3> SUFFICES ASSUME goal < N PROVE writePtr' = goal
      OBVIOUS
    <3>1. writePtr + (goal - sent) = goal
      BY <2>2 DEF Filled
    <3>2. goal % N = goal
      BY <2>2, SmallMod
    <3> QED
      BY <2>1, <3>1, <3>2
  <2>4. Filled'
    BY <2>1, <2>2, <2>3 DEF Filled
  <2>5. ReadsFilled'
    BY <2>1, <2>2 DEF ReadsFilled, Notify
  <2>6. Known(chunk)' /\ Known(out)'
    BY <2>1 DEF Known
  <2> QED
    BY <2>4, <2>5, <2>6
<1> QED
  BY <1>1, <1>2, <1>3 DEF Writer

LEMMA ReaderFill ==
  ASSUME FillInv, Reader, WInv'
  PROVE  FillInv'
<1> USE DEF FillInv
<1>0. /\ readPtr \in 0..(N - 1) /\ seenPtr \in 0..(N - 1) /\ seen \in Nat /\ take \in Nat
      /\ sent \in Nat /\ stored \in Nat /\ sent <= stored /\ chunk \in Seq(Nat) /\ out \in Seq(Nat)
  BY DEF WInv, TypeOK, Counts, Slots
<1>1. CASE ReaderLoad
  BY <1>0, <1>1 DEF ReaderLoad, wvars, Filled, ReadsFilled, Known
<1>2. CASE ReaderDecide
  <2> DEFINE available == (seenPtr + N - readPtr) % N
  <2>1. /\ rpc = "loaded" /\ take' = Least(ReadLen, available)
        /\ rpc' \in {"copy", "eof", "waiting"}
        /\ UNCHANGED <<data, readPtr, writePtr, stored, sent, seenPtr, seen, chunk, out>>
    BY <1>2 DEF ReaderDecide, wvars
  <2>2. available \in Nat
    BY UsedNat DEF WInv
  <2>3. seen < N => readPtr + available = seen
    <3> SUFFICES ASSUME seen < N PROVE readPtr + available = seen
      OBVIOUS
    <3>1. seenPtr = seen /\ readPtr <= seen
      BY <2>1 DEF ReadsFilled
    <3>2. seen + N - readPtr = N * 1 + (seen - readPtr) /\ seen - readPtr \in 0..(N - 1)
      BY <1>0, <3>1
    <3> DEFINE x == seen + N - readPtr
    <3>3. x \in Nat /\ x = N * 1 + (seen - readPtr) /\ 1 \in Int
      BY <1>0, <3>2
    <3> HIDE DEF x
    <3>4. x % N = seen - readPtr
      BY <3>2, <3>3, ModUnique
    <3>5. (seen + N - readPtr) % N = seen - readPtr
      BY <3>4 DEF x
    <3> QED
      BY <1>0, <3>1, <3>5
  <2> HIDE DEF available
  <2>4. PICK a \in Nat : take' \in Nat /\ take' <= a /\ (seen < N => readPtr + a = seen)
    BY <2>1, <2>2, <2>3, LeastNat
  <2>5. ReadsFilled'
    <3>1. readPtr \in Nat /\ seen \in Nat
      BY <1>0
    <3>2. seen < N => readPtr + take' <= seen
      <4>1. \A t, m \in Nat : t <= m => readPtr + t <= readPtr + m
        BY <3>1
      <4> QED
        BY <2>4, <3>1, <4>1
    <3> QED
      BY <2>1, <3>2 DEF ReadsFilled
  <2> QED
    BY <2>1, <2>5 DEF Filled, Known
<1>3. CASE ReaderWait \/ ReaderTimeout \/ ReaderQuit
  BY <1>3, QuietFill DEF ReaderWait, ReaderTimeout, ReaderQuit, wvars, Quiet
<1>4. CASE ReaderCopy
  <2> DEFINE slot == (readPtr + Len(chunk)) % N
  <2>1. /\ rpc = "copy" /\ Len(chunk) < take /\ chunk' = Append(chunk, data[slot])
        /\ UNCHANGED <<data, readPtr, writePtr, stored, sent, rpc, seenPtr, seen, take, out>>
    BY <1>4 DEF ReaderCopy, wvars
  <2>0. readPtr + Len(chunk) \in Nat
    BY <1>0
  <2>2. slot \in Slots
    BY <2>0, ModSlot
  <2>3. seen < N => slot = readPtr + Len(chunk) /\ slot < seen
    <3> SUFFICES ASSUME seen < N PROVE slot = readPtr + Len(chunk) /\ slot < seen
      OBVIOUS
    <3>1. readPtr + Len(chunk) < seen
      BY <1>0, <2>1 DEF ReadsFilled
    <3>2. readPtr + Len(chunk) < N
      BY <1>0, <2>0, <3>1
    <3>3. (readPtr + Len(chunk)) % N = readPtr + Len(chunk)
      BY <2>0, <3>2, SmallMod
    <3> QED
      BY <3>1, <3>3
  <2> HIDE DEF slot
  <2>4. slot < stored
    BY <1>0, <2>1, <2>2, <2>3 DEF ReadsFilled, Slots
  <2>5. data[slot] \in 1..stored
    BY <2>2, <2>4 DEF Filled
  <2>6. Known(chunk)'
    BY <1>0, <2>1, <2>5 DEF Known
  <2> QED
    BY <2>1, <2>6 DEF Filled, ReadsFilled, Known
<1>5. CASE ReaderReturn
  <2>1. /\ rpc = "copy" /\ Len(chunk) = take /\ readPtr' = (readPtr + take) % N
        /\ out' = out \o chunk /\ chunk' = <<>> /\ rpc' = "idle"
        /\ UNCHANGED <<data, writePtr, stored, sent, seenPtr, seen>>
    BY <1>5 DEF ReaderReturn, wvars
  <2>2. sent < N => readPtr' <= sent
    <3> SUFFICES ASSUME sent < N PROVE readPtr' <= sent
      OBVIOUS
    <3>1. readPtr + take <= sent
      BY <1>0, <2>1 DEF ReadsFilled
    <3>2. (readPtr + take) % N = readPtr + take
      BY <1>0, <3>1, SmallMod
    <3> QED
      BY <2>1, <3>1, <3>2
  <2>3. Filled'
    BY <2>1, <2>2 DEF Filled
  <2>4. Known(out)'
    BY <1>0, <2>1 DEF Known
  <2> QED
    BY <2>1, <2>3, <2>4 DEF ReadsFilled, Known
<1> QED
  BY <1>1, <1>2, <1>3, <1>4, <1>5 DEF Reader, InRead

LEMMA FillStep == FillInv /\ [Next]_vars => FillInv'
<1> SUFFICES ASSUME FillInv, [Next]_vars PROVE FillInv'
  OBVIOUS
<1>1. WInv'
  BY NextWInv DEF FillInv
<1>2. CASE \E n \in LineSizes : Emit(n)
  BY <1>1, <1>2, QuietFill DEF Emit, rvars, Quiet
<1>3. CASE Writer \/ Reader
  BY <1>1, <1>3, WriterFill, ReaderFill
<1>4. CASE CloseWriter
  BY <1>1, <1>4, QuietFill DEF CloseWriter, Notify, Quiet
<1>5. CASE StageError \/ ReaderError
  BY <1>1, <1>5, QuietFill DEF StageError, ReaderError, rvars, wvars, Quiet
<1>6. CASE Terminate
  BY <1>1, <1>6, QuietFill DEF Terminate, Quiet
<1>7. CASE UNCHANGED vars
  BY <1>1, <1>7, QuietFill DEF vars, wvars, rvars, Quiet
<1> QED
  BY <1>2, <1>3, <1>4, <1>5, <1>6, <1>7 DEF Next, Others

\* ReadsOnlyWritten: for any ring size and even when the writer overruns the reader, read()
\* hands out no byte of the ring's initial content.
THEOREM ReadsOnlyWritten == Spec => []OnlyWritten
<1>1. FillInv => OnlyWritten
  BY DEF FillInv, Known, OnlyWritten
<1> QED
  BY <1>1, FillInit, FillStep, PTL DEF Spec
-----------------------------------------------------------------------------
(* When the reader keeps up. *)

LEMMA InitRingInv == Init => RingInv
<1> SUFFICES ASSUME Init PROVE RingInv
  OBVIOUS
<1>1. 0 % N = 0
  BY ModUnique
<1>2. QED
  BY <1>1, InitWInv DEF Init, RingInv, Pointers, Content, ReadCall, InOrder, EofSnapshot

\* A line that fits leaves the writer less than a ring ahead.
LEMMA PrintRing ==
  ASSUME RingInv, NEW n \in LineSizes, n <= Available, Emit(n)
  PROVE  RingInv'
<1>1. printed = sent /\ stored = sent
  BY DEF RingInv, WInv, Counts, Emit
<1>2. Len(out) \in Nat /\ sent \in Nat
  BY DEF RingInv, WInv, TypeOK
<1>3. Available = N - 1 - (sent - Len(out))
  BY <1>1, <1>2, RingFree DEF RingInv, Pointers, Available
<1>4. printed' - Len(out') < N
  BY <1>1, <1>2, <1>3 DEF Emit, rvars
<1>5. UNCHANGED <<data, readPtr, writePtr, closed, stored, sent, goal, rvars>>
  BY DEF Emit
<1>6. WInv'
  BY PrintWInv DEF RingInv
<1>7. QED
  BY <1>4, <1>5, <1>6
  DEF RingInv, Pointers, Content, ReadCall, InOrder, EofSnapshot, rvars

LEMMA WriterRing ==
  ASSUME RingInv, Writer
  PROVE  RingInv'
<1>0. WInv' /\ Len(out) \in Nat /\ sent \in Nat /\ stored \in Nat /\ printed \in Nat
  <2>1. WInv'
    BY WriterWInv DEF RingInv
  <2>2. Len(out) \in Nat /\ sent \in Nat /\ stored \in Nat /\ printed \in Nat
    BY DEF RingInv, WInv, TypeOK
  <2>3. QED
    BY <2>1, <2>2
<1>1. CASE WriterLoad
  <2>1. UNCHANGED <<data, readPtr, writePtr, closed, printed, stored, sent, rvars>>
    BY <1>1 DEF WriterLoad
  <2>2. QED
    BY <1>0, <2>1 DEF RingInv, Pointers, Content, ReadCall, InOrder, EofSnapshot, rvars
<1>2. CASE WriterCopy
  <2> DEFINE slot == (writePtr + (stored - sent)) % N
  <2>1. data' = [data EXCEPT ![slot] = stored + 1] /\ stored' = stored + 1
    BY <1>2 DEF WriterCopy
  <2>2. UNCHANGED <<readPtr, writePtr, closed, printed, sent, rvars>>
    BY <1>2 DEF WriterCopy
  <2>3. slot = stored % N
    <3>1. stored - sent \in Nat
      BY <1>0 DEF RingInv, WInv, Counts
    <3>2. ((sent % N) + (stored - sent)) % N = (sent + (stored - sent)) % N
      BY <1>0, <3>1, ModPlus
    <3>3. sent + (stored - sent) = stored
      BY <1>0
    <3>4. QED
      BY <3>2, <3>3 DEF RingInv, Pointers
  <2>4. stored < printed /\ stored < Len(out) + N
    BY <1>0, <1>2 DEF WriterCopy, RingInv, WInv, TypeOK, Counts, Pointers
  <2>5. slot \in Slots
    BY <1>0, <2>3, ModSlot
  <2> HIDE DEF slot
  <2>6. data \in [Slots -> Nat] /\ Content
    BY DEF RingInv, WInv, TypeOK
  <2>7. Content'
    <3> SUFFICES ASSUME NEW k \in (Len(out) + 1)..(stored + 1)
                 PROVE  data'[(k - 1) % N] = k
      BY <2>1, <2>2 DEF Content, rvars
    <3>1. k \in Nat /\ k - 1 \in Nat
      BY <1>0
    <3>2. CASE k = stored + 1
      <4>1. k - 1 = stored
        BY <1>0, <3>2
      <4>2. QED
        BY <2>1, <2>3, <2>5, <2>6, <3>2, <4>1
    <3>3. CASE k # stored + 1
      <4>1. k \in (Len(out) + 1)..stored
        BY <1>0, <3>3
      <4>2. k - 1 < stored /\ stored - (k - 1) < N
        BY <1>0, <2>4, <4>1
      <4> DEFINE old == (k - 1) % N
      <4>3. old # slot
        BY <1>0, <2>3, <3>1, <4>2, RingDistinct
      <4>4. old \in Slots
        BY <3>1, ModSlot
      <4>5. data[old] = k
        BY <2>6, <4>1 DEF Content
      <4> HIDE DEF old
      <4>6. data'[old] = k
        BY <2>1, <2>6, <4>3, <4>4, <4>5
      <4>7. QED
        BY <4>6 DEF old
    <3>4. QED
      BY <3>2, <3>3
  <2>8. QED
    BY <1>0, <2>2, <2>7 DEF RingInv, Pointers, ReadCall, InOrder, EofSnapshot, rvars
<1>3. CASE WriterPublish
  <2>1. goal = stored /\ sent' = stored /\ printed' = printed /\ stored' = stored
    BY <1>3 DEF WriterPublish
  <2>2. rpc' = rpc \/ (rpc = "asleep" /\ rpc' = "retry")
    BY <1>3 DEF WriterPublish, Notify
  <2>3. UNCHANGED <<data, readPtr, closed, seenPtr, seen, take, chunk, out>>
    BY <1>3 DEF WriterPublish
  <2>4. stored - sent \in Nat /\ sent <= stored
    BY <1>0 DEF RingInv, WInv, Counts
  <2>5. writePtr' = ((sent % N) + (stored - sent)) % N
    BY <1>3 DEF WriterPublish, RingInv, Pointers
  <2>6. writePtr' = (sent + (stored - sent)) % N
    BY <1>0, <2>4, <2>5, ModPlus
  <2>7. sent + (stored - sent) = stored
    BY <1>0
  <2>8. writePtr' = sent' % N
    BY <2>1, <2>6, <2>7
  <2>9. Pointers'
    BY <1>0, <2>1, <2>3, <2>4, <2>8 DEF RingInv, Pointers
  <2>10. ReadCall'
    BY <1>0, <2>1, <2>2, <2>3, <2>4 DEF RingInv, WInv, TypeOK, ReadCall
  <2>11. QED
    BY <1>0, <2>1, <2>2, <2>3, <2>4, <2>9, <2>10
    DEF RingInv, Content, InOrder, EofSnapshot
<1>4. QED
  BY <1>1, <1>2, <1>3 DEF Writer

LEMMA ReaderRing ==
  ASSUME RingInv, Reader
  PROVE  RingInv'
<1>0. WInv'
  BY ReaderWInv DEF RingInv
<1>1. Len(out) \in Nat /\ sent \in Nat /\ seen \in Nat /\ take \in Nat
      /\ stored \in Nat /\ printed \in Nat /\ sent <= stored
  BY DEF RingInv, WInv, TypeOK, Counts
<1>2. out \in Seq(Nat) /\ chunk \in Seq(Nat) /\ Len(chunk) \in Nat
  BY DEF RingInv, WInv, TypeOK
<1>11. sent <= printed
  BY <1>1 DEF RingInv, WInv, TypeOK, Counts
<1>3. CASE ReaderLoad
  BY <1>0, <1>1, <1>3
  DEF ReaderLoad, RingInv, Pointers, Content, ReadCall, InOrder, EofSnapshot, wvars
<1>4. CASE ReaderDecide
  <2> DEFINE available == (seenPtr + N - readPtr) % N
  <2>1. Len(out) <= seen /\ seen - Len(out) < N /\ seen <= sent
    BY <1>1, <1>11, <1>4 DEF ReaderDecide, RingInv, ReadCall, Pointers
  <2>2. seenPtr = seen % N /\ readPtr = Len(out) % N /\ chunk = <<>>
    BY <1>4 DEF ReaderDecide, RingInv, ReadCall, Pointers
  <2>3. available = seen - Len(out)
    BY <1>1, <2>1, <2>2, RingUsed
  <2>4. take' = Least(ReadLen, available)
    BY <1>4 DEF ReaderDecide
  <2>5. rpc' = IF available > 0 THEN "copy" ELSE IF closed THEN "eof" ELSE "waiting"
    BY <1>4 DEF ReaderDecide
  <2>6. UNCHANGED <<data, readPtr, writePtr, closed, wvars, seenPtr, seen, chunk, out>>
    BY <1>4 DEF ReaderDecide
  <2> HIDE DEF available
  <2>7. available \in Nat
    BY <1>1, <2>1, <2>3
  <2>8. take' \in Nat /\ take' <= available
    BY <2>4, <2>7, LeastNat
  <2>9. ReadCall'
    BY <1>1, <2>1, <2>2, <2>3, <2>5, <2>6, <2>7, <2>8 DEF ReadCall, wvars
  <2>10. EofSnapshot'
    BY <1>1, <2>1, <2>3, <2>5, <2>6, <2>7 DEF EofSnapshot
  <2>11. QED
    BY <1>0, <2>6, <2>9, <2>10 DEF RingInv, Pointers, Content, InOrder, wvars
<1>5. CASE ReaderWait
  BY <1>0, <1>5
  DEF ReaderWait, RingInv, Pointers, Content, ReadCall, InOrder, EofSnapshot, wvars
<1>6. CASE ReaderTimeout
  BY <1>0, <1>6
  DEF ReaderTimeout, RingInv, Pointers, Content, ReadCall, InOrder, EofSnapshot, wvars
<1>7. CASE ReaderCopy
  <2> DEFINE slot == (readPtr + Len(chunk)) % N
  <2>1. chunk' = Append(chunk, data[slot]) /\ Len(chunk) < take
    BY <1>7 DEF ReaderCopy
  <2>2. UNCHANGED <<data, readPtr, writePtr, closed, wvars, rpc, seenPtr, seen, take, out>>
    BY <1>7 DEF ReaderCopy
  <2>3. rpc = "copy" /\ Len(out) + take <= seen /\ seen <= sent
    BY <1>7 DEF ReaderCopy, RingInv, ReadCall
  <2>4. slot = (Len(out) + Len(chunk)) % N
    <3>1. ((Len(out) % N) + Len(chunk)) % N = (Len(out) + Len(chunk)) % N
      BY <1>1, <1>2, ModPlus
    <3>2. QED
      BY <3>1 DEF RingInv, Pointers
  <2> HIDE DEF slot
  <2> DEFINE k == Len(out) + Len(chunk) + 1
  <2>5. k \in (Len(out) + 1)..stored /\ k - 1 = Len(out) + Len(chunk)
    BY <1>1, <1>2, <2>1, <2>3
  <2>6. data[(k - 1) % N] = k
    BY <2>5 DEF RingInv, Content
  <2>7. data[slot] = k
    BY <2>4, <2>5, <2>6
  <2>8. \A i \in 1..Len(chunk) : chunk[i] = Len(out) + i
    BY <2>3 DEF RingInv, ReadCall
  <2>9. k \in Nat
    BY <1>1, <1>2
  <2> DEFINE longer == Append(chunk, k)
  <2>10. chunk' = longer /\ Len(longer) = Len(chunk) + 1
    BY <1>2, <2>1, <2>7, <2>9
  <2>11. \A i \in 1..Len(longer) : longer[i] = Len(out) + i
    <3>1. \A i \in 1..Len(chunk) : longer[i] = chunk[i]
      BY <1>2, <2>9
    <3>2. longer[Len(chunk) + 1] = k
      BY <1>2, <2>9
    <3>3. Len(longer) = Len(chunk) + 1
      BY <2>10
    <3>4. k = Len(out) + (Len(chunk) + 1)
      BY <1>1, <1>2
    <3> HIDE DEF longer, k
    <3> SUFFICES ASSUME NEW i \in 1..(Len(chunk) + 1)
                 PROVE  longer[i] = Len(out) + i
      BY <3>3
    <3>5. CASE i \in 1..Len(chunk)
      BY <2>8, <3>1, <3>5
    <3>6. CASE i = Len(chunk) + 1
      BY <3>2, <3>4, <3>6
    <3>7. QED
      BY <1>2, <3>5, <3>6
  <2> HIDE DEF longer, k
  <2>12. Len(chunk') <= take /\ \A i \in 1..Len(chunk') : chunk'[i] = Len(out) + i
    BY <1>1, <1>2, <2>1, <2>10, <2>11
  <2>13. ReadCall'
    BY <2>2, <2>3, <2>12 DEF RingInv, ReadCall, wvars
  <2>14. QED
    BY <1>0, <2>2, <2>13 DEF RingInv, Pointers, Content, InOrder, EofSnapshot, wvars
<1>8. CASE ReaderReturn
  <2>1. rpc = "copy" /\ Len(chunk) = take /\ Len(out) + take <= seen /\ seen <= sent
    BY <1>8 DEF ReaderReturn, RingInv, ReadCall
  <2>2. readPtr' = (readPtr + take) % N /\ out' = out \o chunk /\ chunk' = <<>> /\ rpc' = "idle"
    BY <1>8 DEF ReaderReturn
  <2>3. UNCHANGED <<data, writePtr, closed, wvars, seenPtr, seen, take>>
    BY <1>8 DEF ReaderReturn
  <2>4. Len(out') = Len(out) + take
    <3>1. Len(out \o chunk) = Len(out) + Len(chunk)
      BY <1>2
    <3>2. QED
      BY <2>1, <2>2, <3>1
  <2>5. readPtr' = Len(out') % N
    <3>1. ((Len(out) % N) + take) % N = (Len(out) + take) % N
      BY <1>1, ModPlus
    <3>2. QED
      BY <2>2, <2>4, <3>1 DEF RingInv, Pointers
  <2>6. \A i \in 1..Len(chunk) : chunk[i] = Len(out) + i
    BY <2>1 DEF RingInv, ReadCall
  <2>7. \A i \in 1..Len(out) : out[i] = i
    BY DEF RingInv, InOrder
  <2>8. \A i \in 1..Len(out') : out'[i] = i
    BY <1>1, <1>2, <2>1, <2>2, <2>4, <2>6, <2>7
  <2>9. InOrder'
    BY <1>1, <2>1, <2>3, <2>4, <2>8 DEF InOrder, wvars
  <2>10. Pointers'
    BY <1>1, <2>1, <2>3, <2>4, <2>5 DEF RingInv, Pointers, wvars
  <2>11. Content'
    BY <1>1, <2>3, <2>4 DEF RingInv, Content, wvars
  <2>12. QED
    BY <1>0, <2>2, <2>9, <2>10, <2>11 DEF RingInv, ReadCall, EofSnapshot
<1>9. CASE ReaderQuit
  BY <1>0, <1>9
  DEF ReaderQuit, RingInv, Pointers, Content, ReadCall, InOrder, EofSnapshot, wvars
<1>10. QED
  BY <1>3, <1>4, <1>5, <1>6, <1>7, <1>8, <1>9 DEF Reader, InRead

LEMMA OthersRing ==
  ASSUME RingInv, Others
  PROVE  RingInv'
<1>0. WInv'
  BY OthersWInv DEF RingInv
<1>1. CASE CloseWriter
  BY <1>0, <1>1 DEF CloseWriter, Notify, RingInv, Pointers, Content, ReadCall,
                    InOrder, EofSnapshot
<1>2. CASE StageError
  BY <1>0, <1>2 DEF StageError, rvars, RingInv, Pointers, Content, ReadCall,
                    InOrder, EofSnapshot
<1>3. CASE Terminate
  BY <1>0, <1>3 DEF Terminate, RingInv, Pointers, Content, ReadCall,
                    InOrder, EofSnapshot
<1>4. CASE UNCHANGED vars
  BY <1>0, <1>4 DEF vars, wvars, rvars, RingInv, Pointers, Content, ReadCall,
                    InOrder, EofSnapshot
<1>5. CASE ReaderError
  BY <1>0, <1>5 DEF ReaderError, wvars, RingInv, Pointers, Content, ReadCall,
                    InOrder, EofSnapshot
<1>6. QED
  BY <1>1, <1>2, <1>3, <1>4, <1>5, WriterRing, ReaderRing DEF Others

LEMMA NextRingInv == RingInv /\ [KeptUpNext]_vars => RingInv'
<1> SUFFICES ASSUME RingInv, [KeptUpNext]_vars PROVE RingInv'
  OBVIOUS
<1>1. CASE UNCHANGED vars
  BY <1>1 DEF RingInv, WInv, TypeOK, Counts, Pointers, Content, ReadCall, InOrder,
              EofSnapshot, vars, wvars, rvars
<1>2. QED
  BY <1>1, PrintRing, OthersRing DEF KeptUpNext

LEMMA RingInvariant == KeptUpSpec => []RingInv
BY InitRingInv, NextRingInv, PTL DEF KeptUpSpec

\* What the downstream stage has read is the beginning of what the upstream
\* stage has published, byte for byte, for a ring of any size.
THEOREM ReadsInOrder == KeptUpSpec => []InOrder
<1>1. RingInv => InOrder
  BY DEF RingInv
<1>2. QED
  BY <1>1, RingInvariant, PTL

\* The writer never overwrites a byte that is published and not read.
THEOREM NothingOverwritten == KeptUpSpec => []UnreadIntact
<1>1. RingInv => UnreadIntact
  BY DEF RingInv, WInv, TypeOK, Counts, Content, UnreadIntact
<1>2. QED
  BY <1>1, RingInvariant, PTL

\* The end of input comes after everything that was published when read()
\* loaded the write pointer.
THEOREM EofAfterSnapshot == KeptUpSpec => []EofSnapshot
<1>1. RingInv => EofSnapshot
  BY DEF RingInv
<1>2. QED
  BY <1>1, RingInvariant, PTL
-----------------------------------------------------------------------------
(* The ring implements the abstract pipe. *)

ShutInv == closed => wpc = "closed"

LEMMA ShutInvariant == KeptUpSpec => []ShutInv
<1>1. Init => ShutInv
  BY DEF Init, ShutInv
<1>2. ShutInv /\ [KeptUpNext]_vars => ShutInv'
  BY DEF ShutInv, KeptUpNext, Others, Emit, CloseWriter, StageError, ReaderError,
         Terminate, Writer, WriterLoad, WriterCopy, WriterPublish, Reader, ReaderLoad, InRead,
         ReaderDecide, ReaderWait, ReaderTimeout, ReaderCopy, ReaderReturn, ReaderQuit,
         vars, wvars, rvars
<1>3. QED
  BY <1>1, <1>2, PTL DEF KeptUpSpec

\* A step that leaves the published count, the bytes read, the closed flag and
\* the end of input alone is a stuttering step of the abstract pipe.
LEMMA PipeStutter ==
  ASSUME UNCHANGED <<sent, out, closed>>, (rpc = "eof") = (rpc' = "eof")
  PROVE  UNCHANGED Pipe!vars
BY DEF Pipe!vars

LEMMA WriterMaps ==
  ASSUME RingInv, ShutInv, Writer
  PROVE  [Pipe!Next]_(Pipe!vars)
<1>1. CASE WriterLoad
  BY <1>1, PipeStutter DEF WriterLoad, rvars
<1>2. CASE WriterCopy
  BY <1>2, PipeStutter DEF WriterCopy, rvars
<1>3. CASE WriterPublish
  <2>1. (rpc = "eof") = (rpc' = "eof") /\ UNCHANGED <<closed, out>>
    BY <1>3 DEF WriterPublish, Notify
  <2>2. sent' = goal /\ goal \in Nat /\ sent \in Nat /\ sent <= goal /\ closed = FALSE
    BY <1>3 DEF WriterPublish, RingInv, WInv, TypeOK, Counts, ShutInv
  <2>3. CASE goal = sent
    BY <2>1, <2>2, <2>3, PipeStutter
  <2>4. CASE goal # sent
    <3>1. Pipe!Send
      BY <2>1, <2>2, <2>4 DEF Pipe!Send
    <3>2. QED
      BY <3>1 DEF Pipe!Next
  <2>5. QED
    BY <2>3, <2>4
<1>4. QED
  BY <1>1, <1>2, <1>3 DEF Writer

LEMMA ReaderMaps ==
  ASSUME RingInv, Reader
  PROVE  [Pipe!Next \/ Pipe!TruncatedEnd]_(Pipe!vars)
<1>1. CASE ReaderLoad
  BY <1>1, PipeStutter DEF ReaderLoad, wvars
<1>2. CASE ReaderDecide
  <2>1. rpc # "eof" /\ UNCHANGED <<sent, out, closed>>
    BY <1>2 DEF ReaderDecide, wvars
  <2>2. CASE rpc' # "eof"
    BY <2>1, <2>2, PipeStutter
  <2>3. CASE rpc' = "eof"
    <3>1. closed
      BY <1>2, <2>3 DEF ReaderDecide
    <3>2. Pipe!TruncatedEnd
      BY <2>1, <2>3, <3>1 DEF Pipe!TruncatedEnd
    <3>3. QED
      BY <3>2
  <2>4. QED
    BY <2>2, <2>3
<1>3. CASE ReaderWait \/ ReaderTimeout
  BY <1>3, PipeStutter DEF ReaderWait, ReaderTimeout, wvars
<1>4. CASE ReaderCopy
  BY <1>4, PipeStutter DEF ReaderCopy, wvars
<1>5. CASE ReaderReturn
  <2>1. /\ rpc = "copy" /\ rpc' = "idle" /\ Len(chunk) = take
        /\ out' = out \o chunk
        /\ UNCHANGED <<sent, closed>>
    BY <1>5 DEF ReaderReturn, wvars
  <2>2. /\ Len(out) + take <= sent
        /\ \A i \in 1..Len(chunk) : chunk[i] = Len(out) + i
    BY <2>1 DEF RingInv, WInv, TypeOK, ReadCall
  <2>3. chunk \in Seq(Nat) /\ out \in Seq(Nat) /\ sent \in Nat /\ take \in Nat
    BY DEF RingInv, WInv, TypeOK
  <2>4. chunk = [i \in 1..take |-> Len(out) + i]
    BY <2>1, <2>2, <2>3
  <2>5. CASE take = 0
    <3>1. out' = out
      BY <2>1, <2>3, <2>5
    <3>2. QED
      BY <2>1, <3>1, PipeStutter
  <2>6. CASE take # 0
    <3>1. take \in 1..(sent - Len(out))
      BY <2>2, <2>3, <2>6
    <3>2. Pipe!Receive
      BY <2>1, <2>4, <3>1 DEF Pipe!Receive
    <3>3. QED
      BY <3>2 DEF Pipe!Next
  <2>7. QED
    BY <2>5, <2>6
<1>6. CASE ReaderQuit
  BY <1>6, PipeStutter DEF ReaderQuit, wvars
<1>7. QED
  BY <1>1, <1>2, <1>3, <1>4, <1>5, <1>6 DEF Reader, InRead

LEMMA StepMaps ==
  ASSUME RingInv, ShutInv, [KeptUpNext]_vars
  PROVE  [Pipe!Next \/ Pipe!TruncatedEnd]_(Pipe!vars)
<1>1. ASSUME NEW n \in LineSizes, Emit(n)
      PROVE  UNCHANGED Pipe!vars
  BY <1>1, PipeStutter DEF Emit, rvars
<1>2. CASE CloseWriter
  <2>1. (rpc = "eof") = (rpc' = "eof") /\ UNCHANGED <<sent, out>> /\ closed' = TRUE
    BY <1>2 DEF CloseWriter, Notify
  <2>2. closed = FALSE
    BY <1>2 DEF CloseWriter, ShutInv, RingInv, WInv, TypeOK
  <2>3. Pipe!Close
    BY <2>1, <2>2 DEF Pipe!Close
  <2>4. QED
    BY <2>3 DEF Pipe!Next
<1>3. CASE StageError
  BY <1>3, PipeStutter DEF StageError, rvars
<1>4. CASE Terminate
  BY <1>4, PipeStutter DEF Terminate
<1>5. CASE UNCHANGED vars
  BY <1>5, PipeStutter DEF vars, wvars, rvars
<1>6. CASE ReaderError
  BY <1>6, PipeStutter DEF ReaderError, wvars
<1>7. QED
  BY <1>1, <1>2, <1>3, <1>4, <1>5, <1>6, WriterMaps, ReaderMaps DEF KeptUpNext, Others

\* The ring buffer implements the abstract pipe whose end of input may cut
\* the stream short: its initial state and every step of it do.
THEOREM PipeRefinement == KeptUpSpec => DeliversPrefix
<1>1. Init => Pipe!Init
  BY DEF Init, Pipe!Init
<1>2. RingInv /\ ShutInv /\ [KeptUpNext]_vars => [Pipe!Next \/ Pipe!TruncatedEnd]_(Pipe!vars)
  BY StepMaps
<1>3. QED
  BY <1>1, <1>2, RingInvariant, ShutInvariant, PTL DEF KeptUpSpec, DeliversPrefix, Pipe!PrefixSpec
=============================================================================
