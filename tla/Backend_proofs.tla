--------------------------- MODULE Backend_proofs ---------------------------
(***************************************************************************)
(* Type correctness of the backend; that what a call put in a file stays   *)
(* there until a call on the file overlaps it or replaces the file; that   *)
(* what was undone does not come back; that skills are whole; and that      *)
(* what an execution saved is handed over, once.                           *)
(***************************************************************************)
EXTENDS Backend, TLAPS

USE BackendAssumption

Labels == {"idle", "check", "get", "put", "drop", "SKILL.md", "init", "lib", "index", "row",
           "copy", "clear", "fill", "load", "save", "erase", "show", "consume", "over"}
Snaps == [files : [Paths -> Contents], package : [Calls -> SUBSET Parts]]
Updates == [by : SUBSET Calls, files : [Paths -> Contents]]
CallRows == [pc : Labels, kind : Kinds, path : Paths, seen : [Paths -> Contents],
             from : SUBSET Snaps, made : SUBSET Paths, listed : SUBSET Paths]

\* The two parts of TypeOK.
CallsTyped ==
  /\ call \in [Calls -> CallRows]
  /\ result \in [Calls -> {"none", "ok", "error"}]
  /\ \A c \in Calls : At(c, "over") <=> Over(c)
RestTyped ==
  /\ files \in [Paths -> Contents]
  /\ package \in [Calls -> SUBSET Parts]
  /\ saved \in [Calls -> SUBSET Snaps]
  /\ skills \subseteq Calls
  /\ pending \in Updates
  /\ handed \subseteq Updates
  /\ prior \in [Calls -> SUBSET Calls]

LEMMA TypeParts == TypeOK <=> CallsTyped /\ RestTyped
<1>1. TypeOK => CallsTyped
  BY DEF TypeOK, CallsTyped, CallRows, Labels, Snaps
<1>2. TypeOK => RestTyped
  BY DEF TypeOK, RestTyped, Snaps, Updates
<1>3. CallsTyped /\ RestTyped => TypeOK
  BY DEF TypeOK, CallsTyped, RestTyped, CallRows, Labels, Snaps, Updates
<1> QED
  BY <1>1, <1>2, <1>3

LEMMA FileValues ==
  /\ Nothing \in [Paths -> Contents]
  /\ Absent \in Contents /\ {} \in Contents
  /\ \A c \in Calls : {c} \in Contents
  /\ \A x, y \in SUBSET Calls : x \cup y \in Contents
  /\ \A x \in Contents : x # Absent => x \in SUBSET Calls
  /\ \A x \in Contents, c \in Calls : c \in x => x # Absent
<1>1. Absent \in Contents /\ {} \in Contents /\ \A c \in Calls : {c} \in Contents
  BY DEF Contents
<1>2. Nothing \in [Paths -> Contents]
  BY <1>1 DEF Nothing
<1>3. \A x, y \in SUBSET Calls : x \cup y \in Contents
  BY DEF Contents
<1>4. \A x \in Contents : x # Absent => x \in SUBSET Calls
  BY DEF Contents
<1>5. \A x \in Contents, c \in Calls : c \in x => x # Absent
  BY DEF Absent
<1> QED
  BY <1>1, <1>2, <1>3, <1>4, <1>5

LEMMA TypeInit == Init => TypeOK
<1> SUFFICES ASSUME Init PROVE CallsTyped /\ RestTyped
  BY TypeParts
<1>1. Idle \in CallRows
  BY FileValues DEF Idle, CallRows, Labels, Kinds
<1>2. CallsTyped
  BY <1>1 DEF Init, CallsTyped, At, Over, Idle
<1>3. RestTyped
  <2>1. NoUpdate \in Updates
    BY FileValues DEF NoUpdate, Updates
  <2>2. files \in [Paths -> Contents]
    <3>1. PICK old \in {Absent, {}} : files = [p \in Paths |-> old]
      BY DEF Init
    <3> QED
      BY <3>1, FileValues
  <2> QED
    BY <2>1, <2>2 DEF Init, RestTyped, NoPackage, Parts
<1> QED
  BY <1>2, <1>3

(***************************************************************************)
(* The updates of call and result.  What a step of c leaves as it is:      *)
(***************************************************************************)
Moves(c) ==
  /\ \A d \in Calls : d # c => call'[d] = call[d] /\ result'[d] = result[d]
  /\ call'[c].kind = call[c].kind /\ call'[c].path = call[c].path
  /\ call'[c].from = call[c].from
  /\ \A p \in Paths : call'[c].seen[p] \subseteq call[c].seen[p] \cup files[p] \cup Absent
  /\ ~At(c, "idle") /\ ~Over(c) /\ call'[c].pc # "idle"

Under == Labels \ {"idle", "over"}

LEMMA RowTyped ==
  ASSUME NEW row \in CallRows, NEW pc \in Labels, NEW seen \in [Paths -> Contents]
  PROVE  LET next == [row EXCEPT !.pc = pc]
             shown == [row EXCEPT !.seen = seen]
         IN  /\ next \in CallRows /\ next.pc = pc /\ next.made = row.made /\ next.listed = row.listed
             /\ next.kind = row.kind /\ next.path = row.path /\ next.from = row.from /\ next.seen = row.seen
             /\ shown \in CallRows /\ shown.pc = row.pc /\ shown.made = row.made
             /\ shown.listed = row.listed
             /\ shown.kind = row.kind /\ shown.path = row.path /\ shown.from = row.from /\ shown.seen = seen
<1> DEFINE Values == [Paths -> Contents]
<1>1. seen \in Values /\ CallRows = [pc : Labels, kind : Kinds, path : Paths, seen : Values,
                                   from : SUBSET Snaps, made : SUBSET Paths, listed : SUBSET Paths]
  BY DEF CallRows
<1> HIDE DEF Values
<1> QED
  BY <1>1

LEMMA ShownTyped ==
  ASSUME NEW row \in CallRows, NEW seen \in [Paths -> Contents]
  PROVE  LET shown == [row EXCEPT !.seen = seen]
         IN  /\ shown \in CallRows /\ shown.pc = row.pc /\ shown.made = row.made
             /\ shown.listed = row.listed
             /\ shown.kind = row.kind /\ shown.path = row.path /\ shown.from = row.from /\ shown.seen = seen
BY RowTyped, row.pc \in Labels DEF CallRows

LEMMA ListedTyped ==
  ASSUME NEW row \in CallRows, NEW listed \in SUBSET Paths
  PROVE  LET named == [row EXCEPT !.listed = listed]
         IN  /\ named \in CallRows /\ named.pc = row.pc /\ named.made = row.made
             /\ named.listed = listed /\ named.seen = row.seen
             /\ named.kind = row.kind /\ named.path = row.path /\ named.from = row.from
<1> DEFINE Values == [Paths -> Contents]
<1>1. CallRows = [pc : Labels, kind : Kinds, path : Paths, seen : Values,
                  from : SUBSET Snaps, made : SUBSET Paths, listed : SUBSET Paths]
  BY DEF CallRows
<1> HIDE DEF Values
<1> QED
  BY <1>1

LEMMA EndMoves ==
  ASSUME CallsTyped, NEW c \in Calls, NEW a \in {"ok", "error"}, call[c].pc \in Under, End(c, a)
  PROVE  /\ CallsTyped' /\ Moves(c)
         /\ call'[c].pc = "over" /\ call'[c].made = call[c].made /\ result'[c] = a
<1> DEFINE atEnd == [call EXCEPT ![c].pc = "over"]
<1>0. call[c] \in CallRows /\ "over" \in Labels /\ Nothing \in [Paths -> Contents]
  BY FileValues DEF CallsTyped, Labels
<1>1. /\ atEnd \in [Calls -> CallRows]
      /\ atEnd[c] = [call[c] EXCEPT !.pc = "over"]
      /\ \A d \in Calls : d # c => atEnd[d] = call[d]
  BY <1>0, RowTyped DEF CallsTyped
<1>2. /\ atEnd[c].pc = "over" /\ atEnd[c].made = call[c].made
      /\ atEnd[c].kind = call[c].kind /\ atEnd[c].path = call[c].path /\ atEnd[c].from = call[c].from
  BY <1>0, <1>1, RowTyped
<1>3. call' = [atEnd EXCEPT ![c].seen = Nothing]
  BY DEF End, CallsTyped
<1> HIDE DEF atEnd
<1>4. /\ call' \in [Calls -> CallRows]
      /\ \A d \in Calls : d # c => call'[d] = call[d]
      /\ call'[c].pc = "over" /\ call'[c].made = call[c].made /\ call'[c].seen = Nothing
      /\ call'[c].kind = call[c].kind /\ call'[c].path = call[c].path /\ call'[c].from = call[c].from
  <2>1. /\ call'[c] = [atEnd[c] EXCEPT !.seen = Nothing]
        /\ \A d \in Calls : d # c => call'[d] = atEnd[d]
        /\ DOMAIN call' = Calls /\ call' = [d \in Calls |-> call'[d]]
    BY <1>1, <1>3
  <2>0. atEnd[c] \in CallRows
    BY <1>1
  <2>2. [atEnd[c] EXCEPT !.seen = Nothing] \in CallRows
    BY <1>0, <2>0, RowTyped
  <2>3. call'[c] \in CallRows
    BY <2>1, <2>2
  <2>4. /\ call'[c].pc = atEnd[c].pc /\ call'[c].made = atEnd[c].made
        /\ call'[c].seen = Nothing
        /\ call'[c].kind = atEnd[c].kind /\ call'[c].path = atEnd[c].path /\ call'[c].from = atEnd[c].from
    BY <1>0, <2>0, <2>1, RowTyped
  <2> QED
    BY <1>1, <1>2, <2>1, <2>3, <2>4
<1>5. /\ result' \in [Calls -> {"none", "ok", "error"}] /\ result'[c] = a
      /\ \A d \in Calls : d # c => result'[d] = result[d]
  BY DEF End, CallsTyped
<1> QED
  BY <1>4, <1>5 DEF CallsTyped, Moves, At, Over, Under, Nothing

LEMMA GotoMoves ==
  ASSUME CallsTyped, NEW c \in Calls, NEW pc \in Under, call[c].pc \in Under, Goto(c, pc)
  PROVE  /\ CallsTyped' /\ Moves(c)
         /\ call'[c].pc = pc /\ call'[c].made = call[c].made /\ call'[c].seen = call[c].seen
         /\ result' = result
<1>0. call[c] \in CallRows /\ pc \in Labels /\ Nothing \in [Paths -> Contents]
  BY FileValues DEF CallsTyped, Under
<1>1. /\ call' \in [Calls -> CallRows]
      /\ \A d \in Calls : d # c => call'[d] = call[d]
      /\ call'[c] = [call[c] EXCEPT !.pc = pc]
  BY <1>0, RowTyped DEF Goto, CallsTyped
<1>2. /\ call'[c].pc = pc /\ call'[c].made = call[c].made /\ call'[c].seen = call[c].seen
      /\ call'[c].kind = call[c].kind /\ call'[c].path = call[c].path /\ call'[c].from = call[c].from
  BY <1>0, <1>1, RowTyped
<1> QED
  BY <1>1, <1>2 DEF Goto, CallsTyped, Moves, At, Over, Under

LEMMA SeeMoves ==
  ASSUME CallsTyped, NEW c \in Calls, NEW pc \in Under, call[c].pc \in Under,
         files \in [Paths -> Contents], NEW some, See(c, pc, some)
  PROVE  /\ CallsTyped' /\ Moves(c)
         /\ call'[c].pc = pc /\ call'[c].made = call[c].made
         /\ \A p \in Paths : p \in some => call'[c].seen[p] = files[p]
         /\ result' = result
<1> DEFINE atNext == [call EXCEPT ![c].pc = pc]
           new == [p \in Paths |-> IF p \in some THEN files[p] ELSE Absent]
<1>0. call[c] \in CallRows /\ pc \in Labels /\ Nothing \in [Paths -> Contents]
  BY FileValues DEF CallsTyped, Under
<1>1. /\ atNext \in [Calls -> CallRows]
      /\ atNext[c] = [call[c] EXCEPT !.pc = pc]
      /\ \A d \in Calls : d # c => atNext[d] = call[d]
  BY <1>0, RowTyped DEF CallsTyped
<1>2. /\ atNext[c].pc = pc /\ atNext[c].made = call[c].made
      /\ atNext[c].kind = call[c].kind /\ atNext[c].path = call[c].path /\ atNext[c].from = call[c].from
  BY <1>0, <1>1, RowTyped
<1>3. call' = [atNext EXCEPT ![c].seen = new]
  BY DEF See, CallsTyped
<1>4. /\ new \in [Paths -> Contents]
      /\ \A p \in Paths : new[p] \in {files[p], Absent} /\ (p \in some => new[p] = files[p])
  BY FileValues
<1> HIDE DEF atNext, new
<1>5. /\ call' \in [Calls -> CallRows]
      /\ \A d \in Calls : d # c => call'[d] = call[d]
      /\ call'[c].pc = pc /\ call'[c].made = call[c].made /\ call'[c].seen = new
      /\ call'[c].kind = call[c].kind /\ call'[c].path = call[c].path /\ call'[c].from = call[c].from
  <2>1. /\ call'[c] = [atNext[c] EXCEPT !.seen = new]
        /\ \A d \in Calls : d # c => call'[d] = atNext[d]
        /\ DOMAIN call' = Calls /\ call' = [d \in Calls |-> call'[d]]
    BY <1>1, <1>3
  <2>0. atNext[c] \in CallRows
    BY <1>1
  <2>2. [atNext[c] EXCEPT !.seen = new] \in CallRows
    BY <1>0, <1>4, <2>0, RowTyped
  <2>3. call'[c] \in CallRows
    BY <2>1, <2>2
  <2>4. /\ call'[c].pc = atNext[c].pc /\ call'[c].made = atNext[c].made
        /\ call'[c].kind = atNext[c].kind /\ call'[c].path = atNext[c].path /\ call'[c].from = atNext[c].from
        /\ call'[c].seen = new
    BY <1>0, <1>4, <2>0, <2>1, RowTyped
  <2> QED
    BY <1>1, <1>2, <2>1, <2>3, <2>4
<1>6. result' = result
  BY DEF See
<1> QED
  BY <1>4, <1>5, <1>6 DEF CallsTyped, Moves, At, Over, Under

LEMMA RowMoves ==
  ASSUME CallsTyped, NEW c \in Calls, NEW row \in CallRows, call[c].pc \in Under,
         row.pc \in Under, row.kind = call[c].kind, row.path = call[c].path, row.from = call[c].from,
         \A p \in Paths : row.seen[p] \subseteq call[c].seen[p] \cup files[p] \cup Absent,
         call' = [call EXCEPT ![c] = row], UNCHANGED result
  PROVE  CallsTyped' /\ Moves(c) /\ call'[c] = row
<1>1. /\ call' \in [Calls -> CallRows] /\ call'[c] = row
      /\ \A d \in Calls : d # c => call'[d] = call[d]
  BY DEF CallsTyped
<1> QED
  BY <1>1 DEF CallsTyped, Moves, At, Over, Under

(***************************************************************************)
(* The invariant.  What a call wrote is in the file, or it is excused; a   *)
(* call about to write over a file carries what those before it wrote, or  *)
(* they are excused.                                                       *)
(***************************************************************************)
Puts == {"write", "edit", "upload", "install"}
Wrote(c, p) ==
  \/ Kind(c) \in Puts /\ Path(c) = p /\ (result[c] = "ok" \/ At(c, "row"))
  \/ Kind(c) \in Runs /\ p \in call[c].made
Excused(c, p) ==
  \E d \in Calls : Touches(d, p) /\ (Overlap(c, d) \/ (After(c, d) /\ Replaces(d)))

\* Each kind of call has places of its own.
FitsAt(c) ==
  /\ At(c, "check") => Kind(c) = "write"
  /\ At(c, "get") => Kind(c) = "edit"
  /\ At(c, "put") => Kind(c) \in Puts
  /\ call[c].pc \in {"SKILL.md", "init", "lib", "index", "row"} => Kind(c) = "install"
  /\ At(c, "drop") => Kind(c) = "delete"
  /\ At(c, "copy") => Kind(c) = "snapshot"
  /\ call[c].pc \in {"clear", "fill"} => Kind(c) = "restore"
  /\ call[c].pc \in {"load", "save", "erase", "show", "consume"} => Kind(c) \in Runs
  /\ Kind(c) = "install" => Path(c) = Index
Fits == \A c \in Calls : FitsAt(c)

Order ==
  \A c \in Calls : /\ \A d \in prior[c] : Over(d)
                   /\ At(c, "idle") => call[c].made = {}
Stays == \A c \in Calls, p \in Paths : Wrote(c, p) => c \in files[p] \/ Excused(c, p)
Carries ==
  \A c, d \in Calls :
    At(d, "put") /\ After(c, d) /\ Wrote(c, Path(d)) => c \in PutOver(d) \/ Excused(c, Path(d))

Past == Fits /\ Order /\ Stays /\ Carries
Inv == CallsTyped /\ RestTyped /\ Past

LEMMA StaysKept == Inv => Kept
<1> SUFFICES ASSUME Inv, NEW c \in Calls, NEW p \in Writes(c), result[c] = "ok"
             PROVE  c \in files[p] \/ Excused(c, p)
  BY DEF Kept, Excused
<1>1. call[c] \in CallRows
  BY DEF Inv, CallsTyped
<1>2. p \in Paths /\ Wrote(c, p)
  BY <1>1 DEF Writes, Wrote, Puts, CallRows, Kind, Path
<1> QED
  BY <1>2 DEF Inv, Past, Stays

LEMMA PastInit == Init => Past
<1> SUFFICES ASSUME Init PROVE Past
  OBVIOUS
<1>1. \A c \in Calls : call[c] = Idle /\ result[c] = "none" /\ prior[c] = {}
  BY DEF Init
<1>2. \A c \in Calls : At(c, "idle") /\ Kind(c) = "write" /\ call[c].made = {}
  BY <1>1 DEF At, Kind, Idle
<1>3. \A c \in Calls, p \in Paths : ~Wrote(c, p)
  BY <1>1, <1>2 DEF Wrote, Runs, At
<1> QED
  BY <1>1, <1>2, <1>3 DEF Past, Fits, FitsAt, Order, Stays, Carries, At

\* What holds of a step of c beside what it does to the files.
LEMMA Framed ==
  ASSUME CallsTyped, NEW c \in Calls, Moves(c), UNCHANGED prior
  PROVE  /\ \A d \in Calls, p \in Paths : Excused(d, p)' = Excused(d, p)
         /\ \A d, e \in Calls : /\ After(d, e)' = After(d, e) /\ Overlap(d, e)' = Overlap(d, e)
                                /\ Path(d)' = Path(d) /\ Kind(d)' = Kind(d)
         /\ \A d \in Calls, p \in Paths : Touches(d, p)' = Touches(d, p)
         /\ \A d \in Calls : d # c => /\ Over(d)' = Over(d) /\ PutOver(d)' = PutOver(d)
                                      /\ call'[d] = call[d]
                                      /\ \A p \in Paths : Wrote(d, p)' = Wrote(d, p)
<1>1. \A d \in Calls : /\ Kind(d)' = Kind(d) /\ Path(d)' = Path(d) /\ Begun(d)' = Begun(d)
                       /\ d # c => call'[d] = call[d] /\ result'[d] = result[d]
  BY DEF Moves, Kind, Path, Begun, At
<1>2. \A d, e \in Calls : After(d, e)' = After(d, e) /\ Overlap(d, e)' = Overlap(d, e)
  BY <1>1 DEF After, Overlap
<1>3. \A d \in Calls, p \in Paths : Touches(d, p)' = Touches(d, p) /\ Replaces(d)' = Replaces(d)
  BY <1>1 DEF Touches, Replaces
<1>4. \A d \in Calls, p \in Paths : Excused(d, p)' = Excused(d, p)
  BY <1>2, <1>3 DEF Excused
<1>5. \A d \in Calls : d # c =>
        /\ Over(d)' = Over(d) /\ PutOver(d)' = PutOver(d)
        /\ \A p \in Paths : Wrote(d, p)' = Wrote(d, p)
  BY <1>1 DEF Over, PutOver, Known, Wrote, Kind, Path, At
<1> QED
  BY <1>1, <1>2, <1>3, <1>4, <1>5

LEMMA StepKeeps ==
  ASSUME Inv, NEW c \in Calls, Moves(c), UNCHANGED prior, FitsAt(c)',
         \A p \in Paths : \/ files'[p] = files[p]
                          \/ /\ Touches(c, p)
                             /\ \A d \in prior[c] : Wrote(d, p) => d \in files'[p] \/ Excused(d, p),
         \A p \in Paths : Wrote(c, p)' => c \in files'[p] \/ (Wrote(c, p) /\ files'[p] = files[p]),
         At(c, "put")' => files[Path(c)] = Absent \/ files[Path(c)] \subseteq PutOver(c)'
  PROVE  Past'
<1> USE DEF Inv, Past
<1>0. prior \in [Calls -> SUBSET Calls] /\ \A d \in Calls : Path(d) \in Paths
  BY DEF RestTyped, CallsTyped, CallRows, Path
<1>1. Fits'
  BY Framed DEF Fits, FitsAt, At, Kind, Path
<1>2. Order'
  <2>1. ~At(c, "idle")'
    BY DEF Moves, At
  <2>2. \A d \in Calls : c \notin prior[d]
    BY DEF Order, Moves
  <2> QED
    BY <1>0, <2>1, <2>2, Framed DEF Order, At
<1>3. Stays'
  <2> SUFFICES ASSUME NEW d \in Calls, NEW p \in Paths, Wrote(d, p)'
               PROVE  d \in files'[p] \/ Excused(d, p)
    BY Framed DEF Stays
  <2>1. CASE Wrote(d, p) /\ files'[p] = files[p]
    BY <2>1 DEF Stays
  <2>2. CASE d = c
    BY <2>1, <2>2
  <2>3. CASE d # c /\ files'[p] # files[p]
    <3>1. Wrote(d, p)
      BY <2>3, Framed
    <3>2. Begun(d) /\ Begun(c)
      <4>1. ~At(d, "idle")
        BY <3>1 DEF Wrote, Order, At, CallsTyped, Over
      <4> QED
        BY <4>1 DEF Begun, Moves
    <3>3. CASE d \in prior[c]
      BY <2>3, <3>1, <3>3
    <3>4. CASE d \notin prior[c]
      <4>1. c \notin prior[d]
        BY DEF Order, Moves
      <4> QED
        BY <2>3, <3>2, <3>4, <4>1 DEF Overlap, Excused
    <3> QED
      BY <3>3, <3>4
  <2> QED
    BY <2>1, <2>2, <2>3, Framed
<1>4. Carries'
  <2> SUFFICES ASSUME NEW d \in Calls, NEW e \in Calls, At(e, "put")', After(d, e),
                      Wrote(d, Path(e))'
               PROVE  d \in PutOver(e)' \/ Excused(d, Path(e))
    BY <1>0, Framed DEF Carries
  <2>1. d # c
    BY DEF After, Order, Moves
  <2>2. Wrote(d, Path(e))
    BY <1>0, <2>1, Framed
  <2>3. CASE e # c
    BY <2>2, <2>3, Framed DEF Carries, At
  <2>4. CASE e = c
    <3>1. d \in files[Path(c)] \/ Excused(d, Path(c))
      BY <1>0, <2>2, <2>4 DEF Stays
    <3> QED
      BY <1>0, <2>4, <3>1, FileValues DEF RestTyped
  <2> QED
    BY <2>3, <2>4
<1> QED
  BY <1>1, <1>2, <1>3, <1>4

\* A step that leaves the files alone and ends nothing well.
LEMMA QuietKeeps ==
  ASSUME Inv, NEW c \in Calls, Moves(c), UNCHANGED <<prior, files>>, FitsAt(c)', ~At(c, "put")',
         call'[c].made = call[c].made,
         At(c, "row")' \/ result'[c] = "ok" => At(c, "row") \/ Kind(c) \notin Puts
  PROVE  Past'
<1>1. \A p \in Paths : Wrote(c, p)' => Wrote(c, p)
  BY DEF Wrote, Moves, Kind, Path
<1> QED
  BY <1>1, StepKeeps

(***************************************************************************)
(* Each action keeps the invariant.                                        *)
(***************************************************************************)
LEMMA FailKeeps ==
  ASSUME Inv, NEW c \in Calls, Fail(c)
  PROVE  Inv' /\ Moves(c) /\ UNCHANGED prior
<1>1. call[c].pc \in Under /\ CallsTyped /\ End(c, "error")
  BY DEF Fail, Under, Labels, Inv
<1>2. CallsTyped' /\ Moves(c) /\ call'[c].pc = "over" /\ call'[c].made = call[c].made
      /\ result'[c] = "error"
  BY <1>1, EndMoves
<1>3. FitsAt(c)'
  BY <1>2 DEF FitsAt, At, Inv, Past, Fits, Moves, Kind, Path
<1>4. RestTyped' /\ UNCHANGED <<prior, files>>
  BY DEF Fail, workspace, others, Inv, RestTyped
<1> QED
  BY <1>2, <1>3, <1>4, QuietKeeps DEF Inv, At

LEMMA CheckKeeps ==
  ASSUME Inv, NEW c \in Calls, Check(c)
  PROVE  Inv' /\ Moves(c) /\ UNCHANGED prior
<1>1. call[c].pc \in Under /\ CallsTyped /\ Kind(c) = "write" /\ "put" \in Under
  BY DEF Check, At, Under, Labels, Inv, Past, Fits, FitsAt
<1>2. RestTyped' /\ UNCHANGED <<prior, files>>
  BY DEF Check, workspace, others, Inv, RestTyped
<1>3. CASE files[Path(c)] = Absent /\ Goto(c, "put")
  <2>1. CallsTyped' /\ Moves(c) /\ call'[c].pc = "put" /\ call'[c].made = call[c].made
        /\ result' = result
    BY <1>1, <1>3, GotoMoves
  <2>2. FitsAt(c)'
    BY <1>1, <2>1 DEF FitsAt, At, Moves, Kind, Puts
  <2>3. \A p \in Paths : ~Wrote(c, p)'
    BY <1>1, <2>1 DEF Wrote, Moves, Kind, Runs, At, Over
  <2> QED
    BY <1>2, <1>3, <2>1, <2>2, <2>3, StepKeeps DEF Inv
<1>4. CASE End(c, "error")
  <2>1. CallsTyped' /\ Moves(c) /\ call'[c].pc = "over" /\ call'[c].made = call[c].made
        /\ result'[c] = "error"
    BY <1>1, <1>4, EndMoves
  <2>2. FitsAt(c)'
    BY <1>1, <2>1 DEF FitsAt, At, Moves, Kind
  <2> QED
    BY <1>2, <2>1, <2>2, QuietKeeps DEF Inv, At
<1> QED
  BY <1>3, <1>4 DEF Check

LEMMA GetKeeps ==
  ASSUME Inv, NEW c \in Calls, Get(c)
  PROVE  Inv' /\ Moves(c) /\ UNCHANGED prior
<1>1. call[c].pc \in Under /\ CallsTyped /\ Kind(c) = "edit" /\ "put" \in Under
      /\ files \in [Paths -> Contents] /\ Path(c) \in Paths
  BY DEF Get, At, Under, Labels, Inv, Past, Fits, FitsAt, RestTyped, CallsTyped, CallRows, Path
<1>2. RestTyped' /\ UNCHANGED <<prior, files>>
  BY DEF Get, workspace, others, Inv, RestTyped
<1>3. CASE files[Path(c)] # Absent /\ See(c, "put", {Path(c)})
  <2>1. CallsTyped' /\ Moves(c) /\ call'[c].pc = "put" /\ call'[c].made = call[c].made
        /\ call'[c].seen[Path(c)] = files[Path(c)] /\ result' = result
    BY <1>1, <1>3, SeeMoves
  <2>2. FitsAt(c)'
    BY <1>1, <2>1 DEF FitsAt, At, Moves, Kind, Puts
  <2>3. \A p \in Paths : ~Wrote(c, p)'
    BY <1>1, <2>1 DEF Wrote, Moves, Kind, Runs, At, Over
  <2>4. files[Path(c)] \subseteq PutOver(c)'
    BY <1>1, <1>3, <2>1 DEF PutOver, Known, Moves, Kind, Path
  <2> QED
    BY <1>2, <2>1, <2>2, <2>3, <2>4, StepKeeps DEF Inv
<1>4. CASE End(c, "error")
  <2>1. CallsTyped' /\ Moves(c) /\ call'[c].pc = "over" /\ call'[c].made = call[c].made
        /\ result'[c] = "error"
    BY <1>1, <1>4, EndMoves
  <2>2. FitsAt(c)'
    BY <1>1, <2>1 DEF FitsAt, At, Moves, Kind
  <2> QED
    BY <1>2, <2>1, <2>2, QuietKeeps DEF Inv, At
<1> QED
  BY <1>3, <1>4 DEF Get

LEMMA ReadIndexKeeps ==
  ASSUME Inv, NEW c \in Calls, ReadIndex(c)
  PROVE  Inv' /\ Moves(c) /\ UNCHANGED prior
<1>1. call[c].pc \in Under /\ CallsTyped /\ Kind(c) = "install" /\ Path(c) = Index
      /\ "put" \in Under /\ files \in [Paths -> Contents] /\ result[c] = "none"
  BY DEF ReadIndex, At, Under, Labels, Inv, Past, Fits, FitsAt, RestTyped, CallsTyped, Over
<1>2. RestTyped' /\ UNCHANGED <<prior, files>>
  BY DEF ReadIndex, workspace, others, Inv, RestTyped
<1>3. CallsTyped' /\ Moves(c) /\ call'[c].pc = "put" /\ call'[c].made = call[c].made
      /\ call'[c].seen[Index] = files[Index] /\ result' = result
  BY <1>1, SeeMoves DEF ReadIndex
<1>4. FitsAt(c)'
  BY <1>1, <1>3 DEF FitsAt, At, Moves, Kind, Path, Puts
<1>5. \A p \in Paths : ~Wrote(c, p)'
  BY <1>1, <1>3 DEF Wrote, Moves, Kind, Runs, At
<1>6. files[Path(c)] = Absent \/ files[Path(c)] \subseteq PutOver(c)'
  BY <1>1, <1>3 DEF PutOver, Known, Moves, Kind, Path
<1> QED
  BY <1>2, <1>3, <1>4, <1>5, <1>6, StepKeeps DEF Inv

LEMMA PutKeeps ==
  ASSUME Inv, NEW c \in Calls, Put(c)
  PROVE  Inv' /\ Moves(c) /\ UNCHANGED prior
<1>1. call[c].pc \in Under /\ CallsTyped /\ RestTyped /\ Kind(c) \in Puts /\ {"put", "row"} \subseteq Under
      /\ Path(c) \in Paths /\ (Kind(c) = "install" => Path(c) = Index) /\ At(c, "put")
  BY DEF Put, At, Under, Labels, Inv, Past, Fits, FitsAt, CallsTyped, CallRows, Path
<1>2. PutOver(c) \in Contents /\ c \in PutOver(c)
  <2>1. call[c].seen[Path(c)] \in Contents
    BY <1>1 DEF CallsTyped, CallRows
  <2>2. Known(c) \in SUBSET Calls
    BY <2>1, FileValues DEF Known
  <2> QED
    BY <2>2, FileValues DEF PutOver
<1>3. /\ RestTyped' /\ UNCHANGED prior
      /\ \A p \in Paths : p # Path(c) => files'[p] = files[p]
      /\ files'[Path(c)] = PutOver(c)
  BY <1>1, <1>2 DEF Put, others, RestTyped
<1>4. /\ CallsTyped' /\ Moves(c) /\ call'[c].pc \in {"row", "over"} /\ call'[c].made = call[c].made
      /\ call'[c].pc = "row" => Kind(c) = "install"
  <2>1. CASE Kind(c) = "install" /\ Goto(c, "row")
    BY <1>1, <2>1, GotoMoves
  <2>2. CASE End(c, "ok")
    BY <1>1, <2>2, EndMoves
  <2> QED
    BY <2>1, <2>2 DEF Put
<1>5. FitsAt(c)'
  BY <1>1, <1>4 DEF FitsAt, At, Moves, Kind, Path
<1>6. \A p \in Paths : Wrote(c, p)' => p = Path(c)
  BY <1>1, <1>4 DEF Wrote, Moves, Kind, Path, Puts, Runs
<1>7. \A d \in prior[c] : Wrote(d, Path(c)) => d \in PutOver(c) \/ Excused(d, Path(c))
  <2> SUFFICES ASSUME NEW d \in prior[c], Wrote(d, Path(c))
               PROVE  d \in PutOver(c) \/ Excused(d, Path(c))
    OBVIOUS
  <2>1. d \in Calls /\ After(d, c)
    BY <1>1 DEF RestTyped, After, Begun, At
  <2> QED
    BY <1>1, <2>1 DEF Inv, Past, Carries
<1>8. Touches(c, Path(c)) /\ ~At(c, "put")'
  BY <1>1, <1>4 DEF Touches, Puts, At
<1>9. Past'
  BY <1>2, <1>3, <1>4, <1>5, <1>6, <1>7, <1>8, StepKeeps
<1> QED
  BY <1>3, <1>4, <1>9 DEF Inv

\* A call of a kind that replaces a whole file excuses every call before it.
LEMMA ReplacingExcuses ==
  ASSUME RestTyped, NEW c \in Calls, ~At(c, "idle"), Replaces(c), NEW p, Touches(c, p)
  PROVE  \A d \in prior[c] : Excused(d, p)
BY DEF Excused, After, Begun, RestTyped

LEMMA DropKeeps ==
  ASSUME Inv, NEW c \in Calls, Drop(c)
  PROVE  Inv' /\ Moves(c) /\ UNCHANGED prior
<1>1. call[c].pc \in Under /\ CallsTyped /\ RestTyped /\ Kind(c) = "delete" /\ Path(c) \in Paths
  BY DEF Drop, At, Under, Labels, Inv, Past, Fits, FitsAt, CallsTyped, CallRows, Path
<1>2. CallsTyped' /\ Moves(c) /\ call'[c].pc = "over"
  <2>1. End(c, IF files[Path(c)] = Absent THEN "error" ELSE "ok")
    BY DEF Drop
  <2>2. CASE files[Path(c)] = Absent
    BY <1>1, <2>1, <2>2, EndMoves
  <2>3. CASE files[Path(c)] # Absent
    BY <1>1, <2>1, <2>3, EndMoves
  <2> QED
    BY <2>2, <2>3
<1>3. /\ RestTyped' /\ UNCHANGED prior
      /\ \A p \in Paths : p # Path(c) => files'[p] = files[p]
  BY <1>1, FileValues DEF Drop, others, RestTyped
<1>4. FitsAt(c)' /\ \A p \in Paths : ~Wrote(c, p)'
  BY <1>1, <1>2 DEF FitsAt, Wrote, At, Moves, Kind, Puts, Runs
<1>5. \A d \in prior[c] : Excused(d, Path(c))
  <2>1. ~At(c, "idle") /\ Replaces(c) /\ Touches(c, Path(c))
    BY <1>1, <1>2 DEF Moves, Replaces, Touches
  <2> QED
    BY <1>1, <2>1, ReplacingExcuses
<1>6. Touches(c, Path(c)) /\ ~At(c, "put")'
  BY <1>1, <1>2 DEF Touches, At
<1>7. Past'
  BY <1>2, <1>3, <1>4, <1>5, <1>6, StepKeeps
<1> QED
  BY <1>2, <1>3, <1>7 DEF Inv

LEMMA PageKeeps ==
  ASSUME Inv, NEW c \in Calls, NEW part \in Parts, NEW next \in {"init", "lib", "index"},
         Page(c, part, next)
  PROVE  Inv' /\ Moves(c) /\ UNCHANGED prior
<1>1. call[c].pc \in Under /\ CallsTyped /\ RestTyped /\ next \in Under /\ Kind(c) = "install"
      /\ ~At(c, "row") /\ FitsAt(c)
  BY DEF Page, Parts, At, Under, Labels, Inv, Past, Fits, FitsAt
<1>2. CallsTyped' /\ Moves(c) /\ call'[c].pc = next /\ call'[c].made = call[c].made
      /\ result' = result
  BY <1>1, GotoMoves DEF Page
<1>3. RestTyped' /\ UNCHANGED <<prior, files>>
  BY <1>1 DEF Page, others, RestTyped, Parts
<1>4. FitsAt(c)' /\ ~At(c, "put")' /\ ~At(c, "row")'
  BY <1>1, <1>2 DEF FitsAt, At, Moves, Kind, Path
<1>5. result'[c] # "ok"
  BY <1>2 DEF Moves, Over
<1> QED
  BY <1>2, <1>3, <1>4, <1>5, QuietKeeps DEF Inv

LEMMA InstallKeeps ==
  ASSUME Inv, NEW c \in Calls, Install(c)
  PROVE  Inv' /\ Moves(c) /\ UNCHANGED prior
BY PageKeeps DEF Install, Parts

LEMMA RowKeeps ==
  ASSUME Inv, NEW c \in Calls, Row(c)
  PROVE  Inv' /\ Moves(c) /\ UNCHANGED prior
<1>1. call[c].pc \in Under /\ CallsTyped /\ RestTyped /\ FitsAt(c) /\ At(c, "row") /\ End(c, "ok")
  BY DEF Row, At, Under, Labels, Inv, Past, Fits
<1>2. CallsTyped' /\ Moves(c) /\ call'[c].pc = "over" /\ call'[c].made = call[c].made
  BY <1>1, EndMoves
<1>3. RestTyped' /\ UNCHANGED <<prior, files>>
  BY <1>1 DEF Row, workspace, RestTyped
<1>4. FitsAt(c)' /\ ~At(c, "put")'
  BY <1>1, <1>2 DEF FitsAt, At, Moves, Kind, Path
<1> QED
  BY <1>1, <1>2, <1>3, <1>4, QuietKeeps DEF Inv

LEMMA CopyKeeps ==
  ASSUME Inv, NEW c \in Calls, Copy(c)
  PROVE  Inv' /\ Moves(c) /\ UNCHANGED prior
<1>1. call[c].pc \in Under /\ CallsTyped /\ RestTyped /\ Kind(c) = "snapshot" /\ End(c, "ok")
  BY DEF Copy, At, Under, Labels, Inv, Past, Fits, FitsAt
<1>2. CallsTyped' /\ Moves(c) /\ call'[c].pc = "over" /\ call'[c].made = call[c].made
  BY <1>1, EndMoves
<1>3. RestTyped' /\ UNCHANGED <<prior, files>>
  BY <1>1 DEF Copy, workspace, RestTyped, Snaps
<1>4. FitsAt(c)' /\ ~At(c, "put")' /\ Kind(c) \notin Puts
  BY <1>1, <1>2 DEF FitsAt, At, Moves, Kind, Puts
<1> QED
  BY <1>2, <1>3, <1>4, QuietKeeps DEF Inv

\* A restore touches every path and excuses every call before it.
LEMMA RestoreStep ==
  ASSUME Inv, NEW c \in Calls, Kind(c) = "restore", Moves(c), UNCHANGED prior,
         call'[c].pc \in {"fill", "over"}
  PROVE  Past'
<1>1. \A p \in Paths : ~Wrote(c, p)'
  BY DEF Wrote, Moves, Kind, Puts, Runs
<1>2. FitsAt(c)' /\ ~At(c, "put")'
  BY DEF FitsAt, At, Moves, Kind
<1>3. \A p \in Paths : Touches(c, p) /\ \A d \in prior[c] : Excused(d, p)
  <2>1. RestTyped /\ ~At(c, "idle") /\ Replaces(c) /\ \A p \in Paths : Touches(c, p)
    BY DEF Inv, Moves, Replaces, Touches
  <2> QED
    BY <2>1, ReplacingExcuses
<1> QED
  BY <1>1, <1>2, <1>3, StepKeeps

LEMMA ClearKeeps ==
  ASSUME Inv, NEW c \in Calls, Clear(c)
  PROVE  Inv' /\ Moves(c) /\ UNCHANGED prior
<1>1. call[c].pc \in Under /\ CallsTyped /\ RestTyped /\ Kind(c) = "restore" /\ "fill" \in Under
  BY DEF Clear, At, Under, Labels, Inv, Past, Fits, FitsAt
<1>2. CallsTyped' /\ Moves(c) /\ call'[c].pc = "fill"
  BY <1>1, GotoMoves DEF Clear
<1>3. RestTyped' /\ UNCHANGED prior
  BY <1>1, FileValues DEF Clear, others, RestTyped, NoPackage, Parts
<1> QED
  BY <1>1, <1>2, <1>3, RestoreStep DEF Inv

LEMMA FillKeeps ==
  ASSUME Inv, NEW c \in Calls, Fill(c)
  PROVE  Inv' /\ Moves(c) /\ UNCHANGED prior
<1>1. call[c].pc \in Under /\ CallsTyped /\ RestTyped /\ Kind(c) = "restore"
      /\ call[c].from \subseteq Snaps
  BY DEF Fill, At, Under, Labels, Inv, Past, Fits, FitsAt, CallsTyped, CallRows
<1>2. PICK snap \in call[c].from :
        IF Unique(snap)
        THEN /\ files' = Merged(files, snap.files)
             /\ package' = [d \in Calls |-> package[d] \cup snap.package[d]]
             /\ End(c, "ok")
        ELSE End(c, "error") /\ UNCHANGED workspace
  BY DEF Fill
<1>3. CallsTyped' /\ Moves(c) /\ call'[c].pc = "over"
  <2>1. CASE End(c, "ok")
    BY <1>1, <2>1, EndMoves
  <2>2. CASE End(c, "error")
    BY <1>1, <2>2, EndMoves
  <2> QED
    BY <1>2, <2>1, <2>2
<1>4. RestTyped' /\ UNCHANGED prior
  <2>1. snap.files \in [Paths -> Contents] /\ snap.package \in [Calls -> SUBSET Parts]
    BY <1>1 DEF Snaps
  <2>2. files' \in [Paths -> Contents] /\ package' \in [Calls -> SUBSET Parts]
    <3>1. Merged(files, snap.files) \in [Paths -> Contents]
      BY <1>1, <2>1 DEF Merged, RestTyped
    <3>2. [d \in Calls |-> package[d] \cup snap.package[d]] \in [Calls -> SUBSET Parts]
      BY <1>1, <2>1 DEF RestTyped
    <3> QED
      BY <1>1, <1>2, <3>1, <3>2 DEF RestTyped, workspace
  <2> QED
    BY <1>1, <2>2 DEF Fill, others, RestTyped
<1> QED
  BY <1>1, <1>3, <1>4, RestoreStep DEF Inv

\* An execution touches every path and excuses every call before it.
LEMMA RunStep ==
  ASSUME Inv, NEW c \in Calls, Kind(c) \in Runs, Moves(c), UNCHANGED prior,
         call'[c].pc \in {"save", "erase", "show", "consume", "over"},
         \A p \in Paths : p \in call'[c].made =>
           c \in files'[p] \/ (p \in call[c].made /\ files'[p] = files[p])
  PROVE  Past'
<1>1. \A p \in Paths : Wrote(c, p)' => p \in call'[c].made
  BY DEF Wrote, Moves, Kind, Puts, Runs
<1>2. \A p \in Paths : p \in call[c].made => Wrote(c, p)
  BY DEF Wrote
<1>3. FitsAt(c)' /\ ~At(c, "put")'
  BY DEF FitsAt, At, Moves, Kind, Runs
<1>4. \A p \in Paths : Touches(c, p) /\ \A d \in prior[c] : Excused(d, p)
  <2>1. RestTyped /\ ~At(c, "idle") /\ Replaces(c) /\ \A p \in Paths : Touches(c, p)
    BY DEF Inv, Moves, Replaces, Touches
  <2> QED
    BY <2>1, ReplacingExcuses
<1> QED
  BY <1>1, <1>2, <1>3, <1>4, StepKeeps

LEMMA LoadKeeps ==
  ASSUME Inv, NEW c \in Calls, Load(c)
  PROVE  Inv' /\ Moves(c) /\ UNCHANGED prior
<1>1. call[c].pc \in Under /\ CallsTyped /\ RestTyped /\ Kind(c) \in Runs /\ "save" \in Under
      /\ files \in [Paths -> Contents]
  BY DEF Load, At, Under, Labels, Inv, Past, Fits, FitsAt, RestTyped
<1>2. CallsTyped' /\ Moves(c) /\ call'[c].pc = "save" /\ call'[c].made = call[c].made
  BY <1>1, SeeMoves DEF Load
<1>3. RestTyped' /\ UNCHANGED <<prior, files>>
  BY <1>1 DEF Load, workspace, others, RestTyped
<1> QED
  BY <1>1, <1>2, <1>3, RunStep DEF Inv

LEMMA SaveKeeps ==
  ASSUME Inv, NEW c \in Calls, NEW p \in Paths, NEW fresh \in BOOLEAN, Save(c, p, fresh)
  PROVE  Inv' /\ Moves(c) /\ UNCHANGED prior
<1> DEFINE row == [call[c] EXCEPT !.made = @ \cup {p}]
           new == IF fresh \/ call[c].seen[p] = Absent THEN {c} ELSE call[c].seen[p] \cup {c}
<1>1. call[c].pc \in Under /\ call[c].pc = "save" /\ CallsTyped /\ RestTyped /\ Kind(c) \in Runs
      /\ call[c] \in CallRows
  BY DEF Save, At, Under, Labels, Inv, Past, Fits, FitsAt, CallsTyped
<1>2. /\ row \in CallRows /\ row.pc = "save" /\ row.made = call[c].made \cup {p}
      /\ row.kind = call[c].kind /\ row.path = call[c].path /\ row.from = call[c].from
      /\ row.seen = call[c].seen
  <2> DEFINE Values == [Paths -> Contents]
  <2>1. CallRows = [pc : Labels, kind : Kinds, path : Paths, seen : Values,
                    from : SUBSET Snaps, made : SUBSET Paths, listed : SUBSET Paths]
    BY DEF CallRows
  <2> HIDE DEF Values
  <2> QED
    BY <1>1, <2>1
<1>3. call' = [call EXCEPT ![c] = row]
  BY DEF Save
<1>4. UNCHANGED <<prior, result, package, saved, skills, pending, handed>>
      /\ files' = [files EXCEPT ![p] = new]
  BY DEF Save, others
<1>5. new \in Contents /\ c \in new
  <2>1. call[c].seen[p] \in Contents
    BY <1>1 DEF CallRows
  <2> QED
    BY <2>1, FileValues
<1> HIDE DEF row, new
<1>6. CallsTyped' /\ Moves(c) /\ call'[c] = row
  <2>1. \A q \in Paths : row.seen[q] \subseteq call[c].seen[q] \cup files[q] \cup Absent
    BY <1>2
  <2>2. row.pc \in Under /\ UNCHANGED result
    BY <1>1, <1>2, <1>4
  <2> QED
    BY <1>1, <1>2, <1>3, <2>1, <2>2, RowMoves
<1>7. /\ RestTyped' /\ files'[p] = new
      /\ \A q \in Paths : q # p => files'[q] = files[q]
  BY <1>1, <1>4, <1>5 DEF RestTyped
<1> QED
  BY <1>1, <1>2, <1>4, <1>5, <1>6, <1>7, RunStep DEF Inv

\* The row of a call whose files are saved, and of one whose deletions are done.
LEMMA SavedMoves ==
  ASSUME Inv, NEW c \in Calls, Saved(c)
  PROVE  /\ call[c].pc = "save" /\ UNCHANGED <<result, prior, files, package, saved, skills, pending, handed>>
         /\ CallsTyped' /\ Moves(c) /\ Kind(c) \in Runs
         /\ call'[c].pc = "erase" /\ call'[c].made = call[c].made /\ call'[c].seen = call[c].seen
         /\ call'[c].listed \in Created(c)
<1>1. call[c].pc \in Under /\ call[c].pc = "save" /\ CallsTyped /\ Kind(c) \in Runs
      /\ call[c] \in CallRows /\ "erase" \in Labels /\ "erase" \in Under /\ Nothing \in [Paths -> Contents]
  BY FileValues DEF Saved, At, Under, Labels, Inv, Past, Fits, FitsAt, CallsTyped
<1>2. PICK listed \in Created(c) : call' = [call EXCEPT ![c].pc = "erase", ![c].listed = listed]
  BY DEF Saved
<1>3. listed \in SUBSET Paths
  BY <1>1 DEF Created, Found, CallRows
<1> DEFINE next == [call[c] EXCEPT !.pc = "erase"]
           row == [next EXCEPT !.listed = listed]
<1>4. call' = [call EXCEPT ![c] = row]
  BY <1>1, <1>2 DEF CallsTyped
<1>5. /\ next \in CallRows /\ next.pc = "erase" /\ next.made = call[c].made /\ next.seen = call[c].seen
      /\ next.kind = call[c].kind /\ next.path = call[c].path /\ next.from = call[c].from
  BY <1>1, RowTyped
<1> HIDE DEF next
<1>6. /\ row \in CallRows /\ row.pc = "erase" /\ row.made = call[c].made /\ row.seen = call[c].seen
      /\ row.kind = call[c].kind /\ row.path = call[c].path /\ row.from = call[c].from
      /\ row.listed = listed
  BY <1>3, <1>5, ListedTyped
<1> HIDE DEF row
<1>7. UNCHANGED <<result, prior, files, package, saved, skills, pending, handed>>
  BY DEF Saved, workspace, others
<1>8. CallsTyped' /\ Moves(c) /\ call'[c] = row
  <2>1. \A p \in Paths : row.seen[p] \subseteq call[c].seen[p] \cup files[p] \cup Absent
    BY <1>6
  <2>2. row.pc \in Under /\ UNCHANGED result
    BY <1>1, <1>6, <1>7
  <2> QED
    BY <1>1, <1>4, <1>6, <2>1, <2>2, RowMoves
<1> QED
  BY <1>1, <1>6, <1>7, <1>8

LEMMA SavedKeeps ==
  ASSUME Inv, NEW c \in Calls, Saved(c)
  PROVE  Inv' /\ Moves(c) /\ UNCHANGED prior
<1>1. RestTyped'
  BY SavedMoves DEF Inv, RestTyped
<1> QED
  BY <1>1, SavedMoves, RunStep DEF Inv

LEMMA EraseKeeps ==
  ASSUME Inv, NEW c \in Calls, NEW p \in Paths, Erase(c, p)
  PROVE  Inv' /\ Moves(c) /\ UNCHANGED prior
<1> DEFINE seen == [call[c].seen EXCEPT ![p] = Absent]
           row == [call[c] EXCEPT !.seen = seen]
<1>1. call[c].pc \in Under /\ call[c].pc = "erase" /\ CallsTyped /\ RestTyped /\ Kind(c) \in Runs
      /\ call[c] \in CallRows /\ p \notin call[c].made
  BY DEF Erase, At, Under, Labels, Inv, Past, Fits, FitsAt, CallsTyped
<1>2. /\ seen \in [Paths -> Contents]
      /\ \A q \in Paths : seen[q] \subseteq call[c].seen[q] \cup Absent
  <2>1. call[c].seen \in [Paths -> Contents]
    BY <1>1 DEF CallRows
  <2> QED
    BY <2>1, FileValues
<1>3. call' = [call EXCEPT ![c] = row]
  BY DEF Erase
<1>4. UNCHANGED <<prior, result, package, saved, skills, pending, handed>>
      /\ files' = [files EXCEPT ![p] = Absent]
  BY DEF Erase, others
<1> HIDE DEF seen
<1>5. /\ row \in CallRows /\ row.pc = "erase" /\ row.made = call[c].made
      /\ row.kind = call[c].kind /\ row.path = call[c].path
      /\ row.from = call[c].from /\ row.seen = seen
  BY <1>1, <1>2, ShownTyped
<1> HIDE DEF row
<1>6. CallsTyped' /\ Moves(c) /\ call'[c] = row
  <2>1. \A q \in Paths : row.seen[q] \subseteq call[c].seen[q] \cup files[q] \cup Absent
    BY <1>2, <1>5
  <2>2. row.pc \in Under
    BY <1>1, <1>5
  <2> QED
    BY <1>1, <1>3, <1>4, <1>5, <2>1, <2>2, RowMoves
<1>7. /\ RestTyped'
      /\ \A q \in Paths : q # p => files'[q] = files[q]
  BY <1>1, <1>4, FileValues DEF RestTyped
<1> QED
  BY <1>1, <1>4, <1>5, <1>6, <1>7, RunStep DEF Inv

LEMMA ErasedMoves ==
  ASSUME Inv, NEW c \in Calls, Erased(c)
  PROVE  /\ call[c].pc = "erase" /\ UNCHANGED <<result, prior, files, package, saved, skills, pending, handed>>
         /\ CallsTyped' /\ Moves(c) /\ Kind(c) \in Runs
         /\ call'[c].pc = IF call[c].listed = {} \/ Kind(c) = "shell" THEN "consume" ELSE "show"
         /\ call'[c].made = call[c].made /\ call'[c].seen = Nothing
         /\ call'[c].listed = call[c].listed
<1> DEFINE pc == IF call[c].listed = {} \/ Kind(c) = "shell" THEN "consume" ELSE "show"
           shown == [call[c] EXCEPT !.seen = Nothing]
           row == [shown EXCEPT !.pc = pc]
<1>1. call[c].pc \in Under /\ call[c].pc = "erase" /\ CallsTyped /\ RestTyped /\ Kind(c) \in Runs
      /\ call[c] \in CallRows
  BY DEF Erased, At, Under, Labels, Inv, Past, Fits, FitsAt, CallsTyped
<1>2. pc \in Labels /\ pc \in Under
  BY DEF Under, Labels
<1>3. call' = [call EXCEPT ![c] = row]
  BY <1>1 DEF Erased, CallsTyped
<1>4. UNCHANGED <<result, prior, files, package, saved, skills, pending, handed>>
  BY DEF Erased, workspace, others
<1> HIDE DEF pc
<1>5. /\ shown \in CallRows /\ shown.made = call[c].made /\ shown.from = call[c].from
      /\ shown.kind = call[c].kind /\ shown.path = call[c].path /\ shown.seen = Nothing
      /\ shown.listed = call[c].listed
  <2>1. Nothing \in [Paths -> Contents]
    BY FileValues
  <2> QED
    BY <1>1, <2>1, ShownTyped
<1> HIDE DEF shown
<1>6. /\ row \in CallRows /\ row.pc = pc /\ row.made = shown.made /\ row.from = shown.from
      /\ row.kind = shown.kind /\ row.path = shown.path /\ row.seen = shown.seen
      /\ row.listed = shown.listed
  <2>1. Nothing \in [Paths -> Contents]
    BY FileValues
  <2>2. [shown EXCEPT !.pc = pc] \in CallRows
    BY <1>2, <1>5, <2>1, RowTyped
  <2>3. /\ [shown EXCEPT !.pc = pc].pc = pc /\ [shown EXCEPT !.pc = pc].made = shown.made
        /\ [shown EXCEPT !.pc = pc].kind = shown.kind
        /\ [shown EXCEPT !.pc = pc].path = shown.path
        /\ [shown EXCEPT !.pc = pc].from = shown.from
        /\ [shown EXCEPT !.pc = pc].seen = shown.seen
        /\ [shown EXCEPT !.pc = pc].listed = shown.listed
    BY <1>2, <1>5, <2>1, RowTyped
  <2> QED
    BY <2>2, <2>3
<1> HIDE DEF row
<1>7. CallsTyped' /\ Moves(c) /\ call'[c] = row
  <2>1. \A p \in Paths : row.seen[p] = Absent
    BY <1>5, <1>6 DEF Nothing
  <2> QED
    BY <1>1, <1>2, <1>3, <1>4, <1>5, <1>6, <2>1, RowMoves
<1>8. call'[c].pc = pc
  BY <1>6, <1>7
<1> QED
  BY <1>1, <1>4, <1>5, <1>6, <1>7, <1>8 DEF pc

LEMMA ErasedKeeps ==
  ASSUME Inv, NEW c \in Calls, Erased(c)
  PROVE  Inv' /\ Moves(c) /\ UNCHANGED prior
<1>1. RestTyped'
  BY ErasedMoves DEF Inv, RestTyped
<1> QED
  BY <1>1, ErasedMoves, RunStep DEF Inv

LEMMA ShowKeeps ==
  ASSUME Inv, NEW c \in Calls, NEW p \in Paths, Show(c, p)
  PROVE  Inv' /\ Moves(c) /\ UNCHANGED prior
<1>0. PICK text \in {{}} \cup ({files[p]} \ {Absent}) : call' = [call EXCEPT ![c].seen[p] = text]
  BY DEF Show
<1> DEFINE seen == [call[c].seen EXCEPT ![p] = text]
           row == [call[c] EXCEPT !.seen = seen]
<1>1. call[c].pc \in Under /\ call[c].pc = "show" /\ CallsTyped /\ RestTyped /\ Kind(c) \in Runs
      /\ call[c] \in CallRows /\ call[c].pc \in Labels
  BY DEF Show, At, Under, Labels, Inv, Past, Fits, FitsAt, CallsTyped
<1>2. /\ seen \in [Paths -> Contents]
      /\ \A q \in Paths : seen[q] \subseteq call[c].seen[q] \cup files[q]
  <2>1. text \in Contents /\ call[c].seen \in [Paths -> Contents]
    <3>1. files[p] \in Contents /\ {} \in Contents
      BY <1>1, FileValues DEF RestTyped
    <3> QED
      BY <1>0, <1>1, <3>1 DEF CallRows
  <2>2. text \subseteq files[p]
    BY <1>0
  <2> QED
    BY <2>1, <2>2
<1>3. call' = [call EXCEPT ![c] = row]
  BY <1>0
<1>4. UNCHANGED <<prior, result>> /\ UNCHANGED workspace /\ UNCHANGED others
  BY DEF Show, others
<1> HIDE DEF seen
<1>5. /\ row \in CallRows /\ row.pc = "show" /\ row.made = call[c].made
      /\ row.kind = call[c].kind /\ row.path = call[c].path
      /\ row.from = call[c].from /\ row.seen = seen
  BY <1>1, <1>2, ShownTyped
<1> HIDE DEF row
<1>6. CallsTyped' /\ Moves(c) /\ call'[c] = row
  <2>1. \A q \in Paths : row.seen[q] \subseteq call[c].seen[q] \cup files[q]
    BY <1>2, <1>5
  <2>2. row.pc \in Under
    BY <1>1, <1>5
  <2> QED
    BY <1>1, <1>3, <1>4, <1>5, <2>1, <2>2, RowMoves
<1>7. RestTyped' /\ UNCHANGED files
  BY <1>1, <1>4 DEF RestTyped, workspace, others
<1> QED
  BY <1>1, <1>4, <1>5, <1>6, <1>7, RunStep DEF Inv

LEMMA PublishKeeps ==
  ASSUME Inv, NEW c \in Calls, Publish(c)
  PROVE  Inv' /\ Moves(c) /\ UNCHANGED prior
<1>1. call[c].pc \in Under /\ CallsTyped /\ RestTyped /\ Kind(c) \in Runs /\ "consume" \in Under
      /\ call[c].seen \in [Paths -> Contents]
  BY DEF Publish, At, Under, Labels, Inv, Past, Fits, FitsAt, CallsTyped, CallRows
<1>2. CallsTyped' /\ Moves(c) /\ call'[c].pc = "consume" /\ call'[c].made = call[c].made
  BY <1>1, GotoMoves DEF Publish
<1>3. RestTyped' /\ UNCHANGED <<prior, files>>
  BY <1>1 DEF Publish, workspace, RestTyped, Updates
<1> QED
  BY <1>1, <1>2, <1>3, RunStep DEF Inv

LEMMA ConsumeKeeps ==
  ASSUME Inv, NEW c \in Calls, Consume(c)
  PROVE  Inv' /\ Moves(c) /\ UNCHANGED prior
<1>1. call[c].pc \in Under /\ CallsTyped /\ RestTyped /\ Kind(c) \in Runs /\ End(c, "ok")
  BY DEF Consume, At, Under, Labels, Inv, Past, Fits, FitsAt
<1>2. CallsTyped' /\ Moves(c) /\ call'[c].pc = "over" /\ call'[c].made = call[c].made
  BY <1>1, EndMoves
<1>3. NoUpdate \in Updates
  BY FileValues DEF NoUpdate, Updates
<1>4. RestTyped' /\ UNCHANGED <<prior, files>>
  BY <1>1, <1>3 DEF Consume, workspace, RestTyped
<1> QED
  BY <1>1, <1>2, <1>4, RunStep DEF Inv

\* A call that begins.
Opened(kind, p, from) ==
  [Idle EXCEPT !.pc = Entry[kind], !.kind = kind, !.path = p, !.from = from]

LEMMA BeginRow ==
  ASSUME NEW kind \in Kinds, NEW p \in Paths, NEW from \in SUBSET Snaps
  PROVE  LET row == Opened(kind, p, from)
         IN  /\ row \in CallRows /\ row.pc = Entry[kind] /\ row.kind = kind /\ row.path = p
             /\ row.made = {} /\ row.from = from /\ row.seen = Nothing
<1> DEFINE row == Opened(kind, p, from)
<1>1. row = [pc |-> Entry[kind], kind |-> kind, path |-> p, from |-> from, seen |-> Nothing,
             made |-> {}, listed |-> {}]
  <2> DEFINE one == [Idle EXCEPT !.pc = Entry[kind]]
             two == [one EXCEPT !.kind = kind]
             three == [two EXCEPT !.path = p]
  <2>1. one = [pc |-> Entry[kind], kind |-> "write", path |-> Index, from |-> {},
               seen |-> Nothing, made |-> {}, listed |-> {}]
    BY DEF Idle
  <2>2. row = [three EXCEPT !.from = from]
    BY DEF Opened
  <2> HIDE DEF one, row
  <2>3. two = [pc |-> Entry[kind], kind |-> kind, path |-> Index, from |-> {},
               seen |-> Nothing, made |-> {}, listed |-> {}]
    BY <2>1
  <2> HIDE DEF two
  <2>4. three = [pc |-> Entry[kind], kind |-> kind, path |-> p, from |-> {},
                 seen |-> Nothing, made |-> {}, listed |-> {}]
    BY <2>3
  <2> HIDE DEF three
  <2> QED
    BY <2>2, <2>4
<1>2. Entry[kind] \in Labels
  BY DEF Entry, Kinds, Labels
<1> HIDE DEF row
<1>3. /\ row \in CallRows /\ row.pc = Entry[kind] /\ row.kind = kind /\ row.path = p
      /\ row.made = {} /\ row.from = from /\ row.seen = Nothing
  BY <1>1, <1>2, FileValues DEF CallRows
<1> QED
  BY <1>3 DEF row

LEMMA BeginKeeps ==
  ASSUME Inv, NEW c \in Calls, NEW kind \in Kinds, NEW p \in Paths, NEW from \in SUBSET Snaps,
         Begin(c, kind, p, from)
  PROVE  Inv'
<1> DEFINE row == Opened(kind, p, from)
<1>1. /\ CallsTyped /\ RestTyped /\ At(c, "idle") /\ result[c] = "none" /\ Past
      /\ kind \in {"install", "snapshot", "restore"} \cup Runs => p = Index
      /\ result' = result /\ files' = files
      /\ prior' = [prior EXCEPT ![c] = {d \in Calls : Over(d)}]
      /\ call' = [call EXCEPT ![c] = row]
  BY DEF Begin, Opened, Inv, CallsTyped, At, Over
<1>3. Entry[kind] \in Labels \ {"idle", "over", "row"}
  BY DEF Entry, Kinds, Labels
<1>4. row \in CallRows /\ row.pc = Entry[kind] /\ row.kind = kind /\ row.path = p /\ row.made = {}
  BY BeginRow
<1> HIDE DEF row
<1>5. /\ call'[c] = row /\ call' \in [Calls -> CallRows]
      /\ \A d \in Calls : d # c => call'[d] = call[d] /\ prior'[d] = prior[d]
      /\ prior'[c] = {d \in Calls : Over(d)}
  BY <1>1, <1>4 DEF CallsTyped, RestTyped
<1>6. CallsTyped'
  BY <1>1, <1>3, <1>4, <1>5 DEF CallsTyped, At, Over
<1>7. RestTyped'
  BY <1>1 DEF Begin, RestTyped
<1>8. Fits'
  <2>1. FitsAt(c)'
    BY <1>1, <1>4, <1>5 DEF FitsAt, At, Kind, Path, Entry, Kinds, Puts, Runs
  <2> QED
    BY <1>1, <1>5, <2>1 DEF Past, Fits, FitsAt, At, Kind, Path
<1>9. Order'
  BY <1>1, <1>3, <1>4, <1>5 DEF Past, Order, Over, At
\* Nothing is known of c yet; what excused another call still does.
<1>10. \A d \in Calls, q \in Paths : Wrote(d, q)' => d # c /\ Wrote(d, q)
  BY <1>1, <1>3, <1>4, <1>5 DEF Wrote, Kind, Path, At
<1>11. \A d \in Calls, q \in Paths : d # c /\ Excused(d, q) => Excused(d, q)'
  <2> SUFFICES ASSUME NEW d \in Calls, NEW q \in Paths, d # c, NEW e \in Calls, Touches(e, q),
                      Overlap(d, e) \/ (After(d, e) /\ Replaces(e))
               PROVE  Touches(e, q)' /\ (Overlap(d, e)' \/ (After(d, e)' /\ Replaces(e)'))
    BY DEF Excused
  <2>1. e # c
    BY <1>1 DEF Overlap, After, Begun
  <2> QED
    BY <1>5, <2>1 DEF Touches, Overlap, After, Replaces, Begun, Kind, Path, At
<1>12. Stays'
  BY <1>1, <1>10, <1>11 DEF Past, Stays
<1>13. Carries'
  <2> SUFFICES ASSUME NEW d \in Calls, NEW e \in Calls, At(e, "put")', After(d, e)',
                      Wrote(d, Path(e))'
               PROVE  d \in PutOver(e)' \/ Excused(d, Path(e))'
    BY DEF Carries
  <2>1. CASE e = c
    <3>1. kind = "upload" /\ Path(c)' = p
      BY <1>4, <1>5, <2>1 DEF At, Entry, Kinds, Path
    <3>2. Touches(c, p)' /\ Replaces(c)'
      BY <1>4, <1>5, <3>1 DEF Touches, Replaces, Kind, Path
    <3> QED
      BY <2>1, <3>1, <3>2 DEF Excused
  <2>2. CASE e # c
    <3>1. /\ At(e, "put") /\ After(d, e) /\ Path(e)' = Path(e) /\ PutOver(e)' = PutOver(e)
          /\ Path(e) \in Paths
      BY <1>1, <1>5, <2>2 DEF At, After, Begun, Path, PutOver, Known, Kind, CallsTyped, CallRows
    <3>2. d # c /\ Wrote(d, Path(e))
      BY <1>10, <3>1
    <3> QED
      BY <1>1, <1>11, <3>1, <3>2 DEF Past, Carries
  <2> QED
    BY <2>1, <2>2
<1> QED
  BY <1>6, <1>7, <1>8, <1>9, <1>12, <1>13 DEF Inv, Past

LEMMA InvStep == Inv /\ [Next]_vars => Inv'
<1> SUFFICES ASSUME Inv, [Next]_vars PROVE Inv'
  OBVIOUS
<1>1. CASE UNCHANGED vars
  <2>1. CallsTyped' /\ RestTyped'
    BY <1>1 DEF vars, Inv, CallsTyped, RestTyped, At, Over
  <2>2. Past'
    BY <1>1 DEF vars, Inv, Past, Fits, FitsAt, Order, Stays, Carries, Wrote, Excused, PutOver, Known,
                Touches, Replaces, Overlap, After, Begun, At, Kind, Path, Over
  <2> QED
    BY <2>1, <2>2 DEF Inv
<1>2. ASSUME NEW c \in Calls, Step(c) PROVE Inv'
  <2>1. CASE \E kind \in Kinds, p \in Paths : Begin(c, kind, p, {})
    BY <2>1, BeginKeeps
  <2>2. CASE \E d \in Calls : Begin(c, "restore", Index, saved[d])
    <3>1. \A d \in Calls : saved[d] \in SUBSET Snaps
      BY DEF Inv, RestTyped
    <3> QED
      BY <2>2, <3>1, BeginKeeps DEF Kinds
  <2>3. CASE Fail(c) \/ Check(c) \/ Get(c) \/ ReadIndex(c) \/ Put(c) \/ Drop(c)
    BY <2>3, FailKeeps, CheckKeeps, GetKeeps, ReadIndexKeeps, PutKeeps, DropKeeps
  <2>4. CASE Install(c) \/ Row(c) \/ Copy(c) \/ Clear(c) \/ Fill(c)
    BY <2>4, InstallKeeps, RowKeeps, CopyKeeps, ClearKeeps, FillKeeps
  <2>5. CASE Load(c) \/ Saved(c) \/ Erased(c) \/ Publish(c) \/ Consume(c)
    BY <2>5, LoadKeeps, SavedKeeps, ErasedKeeps, PublishKeeps, ConsumeKeeps
  <2>6. CASE \E p \in Paths : Erase(c, p) \/ Show(c, p) \/ \E fresh \in BOOLEAN : Save(c, p, fresh)
    BY <2>6, EraseKeeps, ShowKeeps, SaveKeeps
  <2> QED
    BY <1>2, <2>1, <2>2, <2>3, <2>4, <2>5, <2>6 DEF Step
<1> QED
  BY <1>1, <1>2 DEF Next

LEMMA InvInit == Init => Inv
BY TypeInit, TypeParts, PastInit DEF Inv

(***************************************************************************)
(* Skills.  Contents pass from files to what calls read, to snapshots and  *)
(* back: wherever an installation has left its mark, its package is there  *)
(* or it is excused.                                                       *)
(***************************************************************************)
Whole(c) == {"SKILL.md", "init"} \subseteq package[c] \/ Excused(c, Index)
Marks == {c \in Calls : Begun(c) /\ (Kind(c) = "install" => Whole(c))} \cup Absent
Marked(fs) == \A p \in Paths : fs[p] \subseteq Marks

Traces ==
  /\ Marked(files)
  /\ \A c \in Calls : /\ Marked(call[c].seen)
                      /\ \A snap \in saved[c] \cup call[c].from : Marked(snap.files)
Pages ==
  \A c \in Calls : Kind(c) = "install" =>
    /\ At(c, "init") => "SKILL.md" \in package[c] \/ Excused(c, Index)
    /\ call[c].pc \in {"lib", "index", "put", "row"} => Whole(c)
Rows == \A c \in skills : result[c] = "ok"
Skills == Traces /\ Pages /\ Rows

LEMMA SkillsInstalled == Inv /\ Skills => Installed
<1> SUFFICES ASSUME Inv, Skills, NEW c \in Calls, Kind(c) = "install", ~Disturbed(c)
             PROVE  /\ c \in files[Index] => {"SKILL.md", "init"} \subseteq package[c]
                    /\ c \in skills => c \in files[Index]
  BY DEF Installed
<1>1. ~Excused(c, Index)
  BY DEF Disturbed, Excused
<1>2. ASSUME c \in files[Index] PROVE {"SKILL.md", "init"} \subseteq package[c]
  <2>1. c \in Marks /\ c \notin Absent
    BY <1>2 DEF Skills, Traces, Marked, Absent
  <2> QED
    BY <1>1, <2>1 DEF Marks, Whole
<1>3. ASSUME c \in skills PROVE c \in files[Index]
  <2>1. Wrote(c, Index)
    BY <1>3 DEF Skills, Rows, Wrote, Puts, Inv, Past, Fits, FitsAt
  <2> QED
    BY <1>1, <2>1 DEF Inv, Past, Stays
<1> QED
  BY <1>2, <1>3

LEMMA SkillsInit == Init => Skills
<1> SUFFICES ASSUME Init PROVE Skills
  OBVIOUS
<1>1. \A c \in Calls : call[c] = Idle /\ saved[c] = {}
  BY DEF Init
<1>2. \A p \in Paths : files[p] \subseteq Marks /\ Nothing[p] \subseteq Marks
  BY DEF Init, Marks, Nothing
<1> QED
  BY <1>1, <1>2 DEF Skills, Traces, Marked, Pages, Rows, Init, Idle, Kind

\* What may be in a file after a step of c: what was there, what c has read
\* or restores, and its own mark.
Restored(c, p) == UNION {snap.files[p] : snap \in call[c].from}
Sources(c, p) == files[p] \cup call[c].seen[p] \cup Restored(c, p) \cup Absent

LEMMA SourceParts ==
  ASSUME NEW c \in Calls, NEW p \in Paths
  PROVE  /\ files[p] \subseteq Sources(c, p) /\ Absent \subseteq Sources(c, p)
         /\ \A snap \in call[c].from : snap.files[p] \subseteq Sources(c, p)
         /\ \A x \in Sources(c, p) : \/ x \in files[p] \cup call[c].seen[p] \cup Absent
                                     \/ \E snap \in call[c].from : x \in snap.files[p]
<1>1. \A x \in Restored(c, p) : \E snap \in call[c].from : x \in snap.files[p]
  BY DEF Restored
<1>2. \A snap \in call[c].from : snap.files[p] \subseteq Restored(c, p)
  BY DEF Restored
<1> QED
  BY <1>1, <1>2 DEF Sources

LEMMA Grows ==
  ASSUME Inv, NEW c \in Calls, Moves(c), UNCHANGED prior,
         \A d \in Calls : Kind(d) = "install" /\ Begun(d) =>
           package[d] \subseteq package'[d] \/ Excused(d, Index)
  PROVE  /\ Marks \subseteq Marks'
         /\ \A d \in Calls : Kind(d) = "install" /\ Begun(d) /\ Whole(d) => Whole(d)'
         /\ \A d \in Calls : Excused(d, Index)' = Excused(d, Index)
<1>1. \A d \in Calls : /\ Excused(d, Index)' = Excused(d, Index)
                       /\ Kind(d)' = Kind(d) /\ Begun(d)' = Begun(d)
  <2>1. \A d \in Calls : Begun(d)' = Begun(d)
    BY DEF Moves, Begun, At
  <2> QED
    BY <2>1, Framed DEF Inv
<1>2. \A d \in Calls : Kind(d) = "install" /\ Begun(d) /\ Whole(d) => Whole(d)'
  BY <1>1 DEF Whole
<1> QED
  BY <1>1, <1>2 DEF Marks

LEMMA TracesKept ==
  ASSUME Inv, Traces, NEW c \in Calls, Moves(c), Marks \subseteq Marks',
         \A p \in Paths : files'[p] \subseteq Sources(c, p) \cup ({c} \cap Marks'),
         \A d \in Calls : saved'[d] \subseteq saved[d] \cup {[files |-> files, package |-> package]}
  PROVE  Traces'
<1>1. \A p \in Paths : Sources(c, p) \subseteq Marks
  <2> SUFFICES ASSUME NEW p \in Paths, NEW x \in Sources(c, p) PROVE x \in Marks
    OBVIOUS
  <2>1. CASE x \in files[p]
    BY <2>1 DEF Traces, Marked
  <2>2. CASE x \in call[c].seen[p]
    BY <2>2 DEF Traces, Marked
  <2>3. CASE \E snap \in call[c].from : x \in snap.files[p]
    BY <2>3 DEF Traces, Marked
  <2>4. CASE x \in Absent
    BY <2>4 DEF Marks
  <2> QED
    BY <2>1, <2>2, <2>3, <2>4, SourceParts
<1>2. Marked(files)'
  BY <1>1 DEF Marked
<1>3. ASSUME NEW d \in Calls PROVE Marked(call[d].seen)'
  <2>1. CASE d = c
    BY <2>1 DEF Moves, Traces, Marked, Marks
  <2>2. CASE d # c
    BY <2>2 DEF Moves, Traces, Marked
  <2> QED
    BY <2>1, <2>2
<1>4. ASSUME NEW d \in Calls, NEW snap \in saved'[d] \cup call'[d].from PROVE Marked(snap.files)'
  <2>1. call'[d].from = call[d].from
    BY DEF Moves
  <2>2. Marked(snap.files)
    BY <2>1 DEF Traces
  <2> QED
    BY <2>2 DEF Marked
<1> QED
  BY <1>2, <1>3, <1>4 DEF Traces

LEMMA SkillStep ==
  ASSUME Inv, Skills, NEW c \in Calls, Moves(c), UNCHANGED prior,
         \A d \in Calls : Kind(d) = "install" /\ Begun(d) =>
           package[d] \subseteq package'[d] \/ Excused(d, Index),
         \A p \in Paths : files'[p] \subseteq Sources(c, p) \cup ({c} \cap Marks'),
         \A d \in Calls : saved'[d] \subseteq saved[d] \cup {[files |-> files, package |-> package]},
         Kind(c) = "install" /\ At(c, "init")' => "SKILL.md" \in package'[c],
         Kind(c) = "install" /\ call'[c].pc \in {"lib", "index", "put", "row"} => Whole(c)',
         skills' = skills \/ (skills' = skills \cup {c} /\ result'[c] = "ok")
  PROVE  Skills'
<1>1. Traces'
  BY Grows, TracesKept DEF Skills
<1>2. Pages'
  <2> SUFFICES ASSUME NEW d \in Calls, Kind(d) = "install"
               PROVE  /\ At(d, "init")' => "SKILL.md" \in package'[d] \/ Excused(d, Index)
                      /\ call'[d].pc \in {"lib", "index", "put", "row"} => Whole(d)'
    BY Grows, Framed DEF Pages, Inv
  <2>1. CASE d = c
    BY <2>1
  <2>2. CASE d # c
    <3>1. call'[d] = call[d]
      BY <2>2 DEF Moves
    <3>2. ASSUME At(d, "init") PROVE "SKILL.md" \in package'[d] \/ Excused(d, Index)
      BY <3>2 DEF Skills, Pages, At, Begun
    <3>3. ASSUME call[d].pc \in {"lib", "index", "put", "row"} PROVE Whole(d)'
      <4>1. Begun(d) /\ Whole(d)
        BY <3>3 DEF Skills, Pages, Begun, At
      <4> QED
        BY <4>1, Grows
    <3> QED
      BY <3>1, <3>2, <3>3 DEF At
  <2> QED
    BY <2>1, <2>2
<1>3. Rows'
  BY DEF Skills, Rows, Moves, Over, Inv, RestTyped
<1> QED
  BY <1>1, <1>2, <1>3 DEF Skills

\* A step that writes no file, takes no snapshot and leaves no page.
LEMMA SkillQuiet ==
  ASSUME Inv, Skills, NEW c \in Calls, Moves(c), UNCHANGED <<prior, files, package, saved, skills>>,
         Kind(c) # "install" \/ call'[c].pc \in {"over"} \/ (At(c, "index") /\ At(c, "put")')
  PROVE  Skills'
<1>1. \A p \in Paths : files[p] \subseteq Sources(c, p)
  BY DEF Sources
<1>2. Kind(c) = "install" /\ At(c, "index") => Whole(c)'
  <2>1. Kind(c) = "install" /\ At(c, "index") => Begun(c) /\ Whole(c)
    BY DEF Skills, Pages, Begun, At
  <2> QED
    BY <2>1, Grows
<1> QED
  BY <1>1, <1>2, SkillStep DEF At

LEMMA PutTraced ==
  ASSUME Inv, Skills, NEW c \in Calls, Put(c), Moves(c), UNCHANGED prior
  PROVE  Skills'
<1>1. /\ At(c, "put") /\ UNCHANGED <<package, saved, skills>> /\ Path(c) \in Paths
      /\ files \in [Paths -> Contents]
      /\ files' = [files EXCEPT ![Path(c)] = PutOver(c)]
  BY DEF Put, others, Inv, CallsTyped, RestTyped, CallRows, Path
<1>2. Kind(c) = "install" => Begun(c) /\ Whole(c)
  BY <1>1 DEF Skills, Pages, At, Begun
<1>3. c \in Marks'
  <2>1. c \in Marks
    BY <1>1, <1>2 DEF Marks, Begun, At
  <2> QED
    BY <1>1, <2>1, Grows
<1>4. \A p \in Paths : files'[p] \subseteq Sources(c, p) \cup {c}
  BY <1>1 DEF PutOver, Known, Sources
<1>5. Kind(c) = "install" => Whole(c)' /\ ~At(c, "init")'
  <2>1. Kind(c) = "install" => Whole(c)'
    BY <1>1, <1>2, Grows
  <2>2. ~At(c, "init")'
    BY DEF Put, Goto, End, At, Inv, CallsTyped, CallRows
  <2> QED
    BY <2>1, <2>2
<1> QED
  BY <1>1, <1>3, <1>4, <1>5, SkillStep

LEMMA PageTraced ==
  ASSUME Inv, Skills, NEW c \in Calls, Install(c), Moves(c), UNCHANGED prior
  PROVE  Skills'
<1>1. PICK part \in Parts, next \in {"init", "lib", "index"} :
        /\ Page(c, part, next)
        /\ next = "init" => part = "SKILL.md"
        /\ next # "init" => part = "init" \/ At(c, "lib")
  BY DEF Install, Page, Parts
<1>2. /\ package' = [package EXCEPT ![c] = @ \cup {part}] /\ UNCHANGED <<files, saved, skills>>
      /\ package \in [Calls -> SUBSET Parts] /\ call'[c].pc = next
  BY <1>1 DEF Page, Goto, others, Inv, RestTyped, CallsTyped
<1>3. /\ package'[c] = package[c] \cup {part}
      /\ \A d \in Calls : package[d] \subseteq package'[d]
  BY <1>2
<1>4. Kind(c) = "install" /\ next # "init" => Whole(c)'
  <2>1. CASE part = "init"
    <3>1. At(c, "init") /\ (Kind(c) = "install" => "SKILL.md" \in package[c] \/ Excused(c, Index))
      BY <1>1, <2>1 DEF Page, Skills, Pages
    <3> QED
      BY <1>3, <2>1, <3>1, Grows DEF Whole
  <2>2. CASE At(c, "lib")
    <3>1. Kind(c) = "install" => Begun(c) /\ Whole(c)
      BY <2>2 DEF Skills, Pages, At, Begun
    <3> QED
      BY <1>3, <3>1, Grows
  <2> QED
    BY <1>1, <2>1, <2>2
<1>5. \A p \in Paths : files[p] \subseteq Sources(c, p)
  BY DEF Sources
<1>6. At(c, "init")' => "SKILL.md" \in package'[c]
  BY <1>1, <1>2, <1>3 DEF At
<1> QED
  BY <1>2, <1>3, <1>4, <1>5, <1>6, SkillStep

LEMMA CopyTraced ==
  ASSUME Inv, Skills, NEW c \in Calls, Copy(c), Moves(c), UNCHANGED prior
  PROVE  Skills'
<1>1. /\ UNCHANGED <<files, package, skills>> /\ saved \in [Calls -> SUBSET Snaps]
      /\ saved' = [saved EXCEPT ![c] = {[files |-> files, package |-> package]}]
      /\ Kind(c) = "snapshot"
  BY DEF Copy, workspace, Inv, RestTyped, Past, Fits, FitsAt
<1>2. \A d \in Calls : saved'[d] \subseteq saved[d] \cup {[files |-> files, package |-> package]}
  BY <1>1
<1>3. \A p \in Paths : files[p] \subseteq Sources(c, p)
  BY DEF Sources
<1> QED
  BY <1>1, <1>2, <1>3, SkillStep

\* A restore excuses every call that has begun.
LEMMA RestoreTraced ==
  ASSUME Inv, Skills, NEW c \in Calls, Clear(c) \/ Fill(c), Moves(c), UNCHANGED prior
  PROVE  Skills'
<1>1. Kind(c) = "restore" /\ UNCHANGED <<saved, skills>>
  BY DEF Clear, Fill, others, Inv, Past, Fits, FitsAt, At
<1>2. \A d \in Calls : Kind(d) = "install" /\ Begun(d) => Excused(d, Index)
  <2> SUFFICES ASSUME NEW d \in Calls, d # c, Begun(d) PROVE Excused(d, Index)
    BY <1>1
  <2>1. Begun(c) /\ Replaces(c) /\ Touches(c, Index) /\ c \notin prior[d]
    BY <1>1 DEF Moves, Begun, Replaces, Touches, Inv, Past, Order
  <2> QED
    BY <2>1 DEF Excused, Overlap, After
<1>3. \A p \in Paths : files'[p] \subseteq Sources(c, p)
  <2>1. CASE Clear(c)
    <3>1. \A p \in Paths : files'[p] = Absent
      BY <2>1 DEF Clear, Nothing
    <3> QED
      BY <3>1, SourceParts
  <2>2. CASE Fill(c)
    <3>1. PICK snap \in call[c].from : files' = Merged(files, snap.files) \/ files' = files
      BY <2>2 DEF Fill, workspace
    <3>2. \A p \in Paths : files'[p] \in {files[p], snap.files[p]}
      BY <3>1 DEF Merged
    <3> QED
      BY <3>2, SourceParts
  <2> QED
    BY <2>1, <2>2
<1> QED
  BY <1>1, <1>2, <1>3, SkillStep

LEMMA SaveTraced ==
  ASSUME Inv, Skills, NEW c \in Calls, NEW p \in Paths, NEW fresh \in BOOLEAN, Save(c, p, fresh),
         Moves(c), UNCHANGED prior
  PROVE  Skills'
<1>1. /\ Kind(c) \in Runs /\ UNCHANGED <<package, saved, skills>> /\ files \in [Paths -> Contents]
      /\ files' = [files EXCEPT ![p] = IF fresh \/ call[c].seen[p] = Absent THEN {c}
                                       ELSE call[c].seen[p] \cup {c}]
  BY DEF Save, others, Inv, RestTyped, Past, Fits, FitsAt, At
<1>2. Kind(c) # "install" /\ Begun(c)
  BY <1>1 DEF Runs, Moves, Begun
<1>3. c \in Marks'
  BY <1>1, <1>2, Grows DEF Marks
<1>4. \A q \in Paths : files'[q] \subseteq Sources(c, q) \cup {c}
  BY <1>1 DEF Sources
<1> QED
  BY <1>1, <1>2, <1>3, <1>4, SkillStep

LEMMA DropTraced ==
  ASSUME Inv, Skills, NEW c \in Calls, Drop(c), Moves(c), UNCHANGED prior
  PROVE  Skills'
<1>1. /\ Kind(c) = "delete" /\ UNCHANGED <<package, saved, skills>> /\ files \in [Paths -> Contents]
      /\ files' = [files EXCEPT ![Path(c)] = Absent]
  BY DEF Drop, others, Inv, RestTyped, Past, Fits, FitsAt
<1>2. \A p \in Paths : files'[p] \subseteq Sources(c, p)
  BY <1>1, SourceParts
<1> QED
  BY <1>1, <1>2, SkillStep

LEMMA EraseTraced ==
  ASSUME Inv, Skills, NEW c \in Calls, NEW p \in Paths, Erase(c, p), Moves(c), UNCHANGED prior
  PROVE  Skills'
<1>1. /\ Kind(c) # "install" /\ UNCHANGED <<package, saved, skills>> /\ files \in [Paths -> Contents]
      /\ files' = [files EXCEPT ![p] = Absent]
  BY DEF Erase, others, Inv, RestTyped
<1>2. \A q \in Paths : files'[q] \subseteq Sources(c, q)
  BY <1>1, SourceParts
<1> QED
  BY <1>1, <1>2, SkillStep

LEMMA RowTraced ==
  ASSUME Inv, Skills, NEW c \in Calls, Row(c), Moves(c), UNCHANGED prior
  PROVE  Skills'
<1>1. /\ UNCHANGED <<files, package, saved>> /\ skills' = skills \cup {c}
      /\ result'[c] = "ok" /\ call'[c].pc = "over"
  BY DEF Row, End, workspace, Inv, CallsTyped, CallRows
<1>2. \A p \in Paths : files[p] \subseteq Sources(c, p)
  BY DEF Sources
<1> QED
  BY <1>1, <1>2, SkillStep DEF At

\* What excused a call when another one begins still does.
LEMMA BeginExcuses ==
  ASSUME Inv, NEW c \in Calls, NEW row \in CallRows, At(c, "idle"), row.pc # "idle",
         call' = [call EXCEPT ![c] = row], prior' = [prior EXCEPT ![c] = {d \in Calls : Over(d)}]
  PROVE  \A d \in Calls, p \in Paths : Begun(d) /\ Excused(d, p) => Excused(d, p)'
<1> SUFFICES ASSUME NEW d \in Calls, NEW p \in Paths, Begun(d), NEW e \in Calls, Touches(e, p),
                    Overlap(d, e) \/ (After(d, e) /\ Replaces(e))
             PROVE  Touches(e, p)' /\ (Overlap(d, e)' \/ (After(d, e)' /\ Replaces(e)'))
  BY DEF Excused
<1>1. d # c /\ e # c
  BY DEF Overlap, After, Begun
<1>2. /\ call'[d] = call[d] /\ call'[e] = call[e]
      /\ prior'[d] = prior[d] /\ prior'[e] = prior[e]
  BY <1>1 DEF Inv, CallsTyped, RestTyped
<1> QED
  BY <1>1, <1>2 DEF Touches, Overlap, After, Replaces, Begun, Kind, Path, At

LEMMA BeginTraced ==
  ASSUME Inv, Skills, NEW c \in Calls, NEW kind \in Kinds, NEW p \in Paths, NEW from \in SUBSET Snaps,
         Begin(c, kind, p, from), \A snap \in from : Marked(snap.files)
  PROVE  Skills'
<1> DEFINE row == Opened(kind, p, from)
<1>1. /\ At(c, "idle") /\ UNCHANGED <<files, package, saved, skills, result>>
      /\ prior' = [prior EXCEPT ![c] = {d \in Calls : Over(d)}]
      /\ call' = [call EXCEPT ![c] = row]
  BY DEF Begin, Opened
<1>2. /\ Entry[kind] \in Labels \ {"idle", "init", "lib", "index", "row"}
      /\ kind = "install" => Entry[kind] # "put"
  BY DEF Entry, Kinds, Labels
<1>3. /\ row \in CallRows /\ row.pc = Entry[kind] /\ row.kind = kind /\ row.from = from
      /\ row.seen = Nothing
  BY <1>2, BeginRow
<1> HIDE DEF row
<1>4. call'[c] = row /\ \A d \in Calls : d # c => call'[d] = call[d]
  BY <1>1 DEF Inv, CallsTyped
<1>5. \A d \in Calls : Begun(d) => /\ d # c /\ Begun(d)' /\ Kind(d)' = Kind(d)
                                   /\ (Excused(d, Index) => Excused(d, Index)')
  <2>1. \A d \in Calls : Begun(d) /\ Excused(d, Index) => Excused(d, Index)'
    BY <1>1, <1>2, <1>3, BeginExcuses
  <2> QED
    BY <1>1, <1>4, <2>1 DEF Begun, At, Kind
<1>6. Marks \subseteq Marks' /\ \A d \in Calls : Begun(d) /\ Whole(d) => Whole(d)'
  BY <1>1, <1>5 DEF Marks, Whole
<1>7. Traces'
  <2>1. ASSUME NEW d \in Calls PROVE Marked(call[d].seen)'
    <3>1. CASE d = c
      BY <1>3, <1>4, <3>1 DEF Marked, Nothing, Marks
    <3>2. CASE d # c
      BY <1>4, <1>6, <3>2 DEF Skills, Traces, Marked
    <3> QED
      BY <3>1, <3>2
  <2>2. ASSUME NEW d \in Calls, NEW snap \in saved'[d] \cup call'[d].from
        PROVE  Marked(snap.files)'
    <3>1. Marked(snap.files)
      BY <1>1, <1>3, <1>4 DEF Skills, Traces
    <3> QED
      BY <1>6, <3>1 DEF Marked
  <2>3. Marked(files)'
    BY <1>1, <1>6 DEF Skills, Traces, Marked
  <2> QED
    BY <2>1, <2>2, <2>3 DEF Traces
<1>8. Pages'
  <2> SUFFICES ASSUME NEW d \in Calls, Kind(d)' = "install"
               PROVE  /\ At(d, "init")' => "SKILL.md" \in package'[d] \/ Excused(d, Index)'
                      /\ call'[d].pc \in {"lib", "index", "put", "row"} => Whole(d)'
    BY DEF Pages
  <2>1. CASE d = c
    BY <1>2, <1>3, <1>4, <2>1 DEF At, Kind
  <2>2. CASE d # c /\ Begun(d)
    BY <1>1, <1>4, <1>5, <1>6, <2>2 DEF Skills, Pages, At, Kind
  <2>3. CASE d # c /\ ~Begun(d)
    BY <1>4, <2>3 DEF Begun, At
  <2> QED
    BY <2>1, <2>2, <2>3
<1>9. Rows'
  BY <1>1 DEF Skills, Rows
<1> QED
  BY <1>7, <1>8, <1>9 DEF Skills

LEMMA SkillsStep == Inv /\ Skills /\ [Next]_vars => Skills'
<1> SUFFICES ASSUME Inv, Skills, [Next]_vars PROVE Skills'
  OBVIOUS
<1>1. CASE UNCHANGED vars
  BY <1>1 DEF vars, Skills, Traces, Marked, Marks, Whole, Pages, Rows, Excused, Touches, Replaces,
              Overlap, After, Begun, At, Kind, Path
<1>2. ASSUME NEW c \in Calls, Step(c) PROVE Skills'
  <2>1. CASE \E kind \in Kinds, p \in Paths : Begin(c, kind, p, {})
    BY <2>1, BeginTraced
  <2>2. CASE \E d \in Calls : Begin(c, "restore", Index, saved[d])
    <3>1. \A d \in Calls : /\ saved[d] \in SUBSET Snaps
                           /\ \A snap \in saved[d] : Marked(snap.files)
      BY DEF Inv, RestTyped, Skills, Traces
    <3> QED
      BY <2>2, <3>1, BeginTraced DEF Kinds
  <2>3. CASE Fail(c) \/ Check(c) \/ Get(c)
    <3>1. /\ Moves(c) /\ UNCHANGED <<prior, files, package, saved, skills>>
          /\ Kind(c) # "install" \/ call'[c].pc = "over"
      <4>1. CASE Fail(c)
        <5>1. CallsTyped /\ call[c].pc \in Under /\ End(c, "error")
          BY <4>1 DEF Fail, Under, Labels, Inv
        <5>2. call'[c].pc = "over"
          BY <5>1, EndMoves
        <5> QED
          BY <4>1, <5>2, FailKeeps DEF Fail, workspace, others
      <4>2. CASE Check(c)
        BY <4>2, CheckKeeps DEF Check, workspace, others, Inv, Past, Fits, FitsAt, At
      <4>3. CASE Get(c)
        BY <4>3, GetKeeps DEF Get, workspace, others, Inv, Past, Fits, FitsAt, At
      <4> QED
        BY <2>3, <4>1, <4>2, <4>3
    <3> QED
      BY <3>1, SkillQuiet
  <2>4. CASE ReadIndex(c)
    <3>1. /\ Moves(c) /\ UNCHANGED <<prior, files, package, saved, skills>>
          /\ At(c, "index") /\ See(c, "put", {Index})
      BY <2>4, ReadIndexKeeps DEF ReadIndex, workspace, others
    <3>2. At(c, "put")'
      <4>1. CallsTyped /\ call[c].pc \in Under /\ "put" \in Under /\ files \in [Paths -> Contents]
        BY <3>1 DEF Inv, RestTyped, At, Under, Labels
      <4> QED
        BY <3>1, <4>1, SeeMoves DEF At
    <3> QED
      BY <3>1, <3>2, SkillQuiet
  <2>5. CASE Put(c) \/ Install(c) \/ Row(c) \/ Copy(c) \/ Clear(c) \/ Fill(c)
    BY <2>5, PutKeeps, PutTraced, InstallKeeps, PageTraced, RowKeeps, RowTraced, CopyKeeps,
       CopyTraced, ClearKeeps, FillKeeps, RestoreTraced
  <2>6. CASE Drop(c)
    BY <2>6, DropKeeps, DropTraced
  <2>7. CASE Load(c) \/ Saved(c) \/ Erased(c) \/ Publish(c) \/ Consume(c) \/ \E p \in Paths : Show(c, p)
    <3>1. /\ Moves(c) /\ UNCHANGED <<prior, files, package, saved, skills>>
          /\ Kind(c) # "install"
      <4>1. call[c].pc \in {"load", "save", "erase", "show", "consume"} => Kind(c) # "install"
        BY DEF Inv, Past, Fits, FitsAt, At, Runs
      <4>2. CASE Load(c)
        BY <4>1, <4>2, LoadKeeps DEF Load, workspace, others, At
      <4>3. CASE Saved(c)
        BY <4>1, <4>3, SavedKeeps DEF Saved, workspace, others, At
      <4>4. CASE Publish(c)
        BY <4>1, <4>4, PublishKeeps DEF Publish, workspace, others, At
      <4>5. CASE Consume(c)
        BY <4>1, <4>5, ConsumeKeeps DEF Consume, workspace, others, At
      <4>6. CASE \E p \in Paths : Show(c, p)
        BY <4>1, <4>6, ShowKeeps DEF Show, workspace, others, At
      <4>7. CASE Erased(c)
        BY <4>1, <4>7, ErasedKeeps DEF Erased, workspace, others, At
      <4> QED
        BY <2>7, <4>2, <4>3, <4>4, <4>5, <4>6, <4>7
    <3> QED
      BY <3>1, SkillQuiet
  <2>8. CASE \E p \in Paths : Erase(c, p) \/ \E fresh \in BOOLEAN : Save(c, p, fresh)
    BY <2>8, SaveKeeps, SaveTraced, EraseKeeps, EraseTraced
  <2> QED
    BY <1>2, <2>1, <2>2, <2>3, <2>4, <2>5, <2>6, <2>7, <2>8 DEF Step
<1> QED
  BY <1>1, <1>2 DEF Next

(***************************************************************************)
(* What is undone.  Once a call has emptied a file of those before it, no  *)
(* file and no later call has anything of them, or it is excused.          *)
(***************************************************************************)
Disputed(d, p) ==
  \E g \in Calls : Touches(g, p) /\ (Overlap(g, d) \/ (After(d, g) /\ Kind(g) = "restore"))
Emptied == \A d \in Calls, p \in Paths : At(d, "fill") => files[p] = Absent \/ Disputed(d, p)
Unseen(d, c, p) == /\ c \notin files[p]
                   /\ \A e \in Calls : After(d, e) => c \notin call[e].seen[p]
Rid == \A d, c \in Calls, p \in Paths :
         result[d] = "ok" /\ After(c, d) /\ Undone(d, c, p) => Unseen(d, c, p) \/ Disputed(d, p)
Undoing == Emptied /\ Rid

LEMMA UndoingGone == Undoing => Gone
BY DEF Undoing, Rid, Unseen, Disputed, Gone

LEMMA UndoingInit == Init => Undoing
<1> SUFFICES ASSUME Init PROVE Undoing
  OBVIOUS
<1>1. \A c \in Calls : call[c] = Idle /\ result[c] = "none"
  BY DEF Init
<1> QED
  BY <1>1 DEF Undoing, Emptied, Rid, At, Idle

\* What a step of c may do to the files, and what it must have done to end well.
FileStep(c) ==
  \A p \in Paths : /\ files'[p] = files[p] \/ Touches(c, p)
                   /\ \/ Kind(c) = "restore"
                      \/ files'[p] \subseteq files[p] \cup call[c].seen[p] \cup {c} \cup Absent
LeavesNothing(c) ==
  /\ At(c, "fill")' => \A p \in Paths : files'[p] = Absent
  /\ result'[c] = "ok" => \A d \in prior[c], p \in Paths :
                            Undone(c, d, p) => d \notin files'[p] \/ Disputed(c, p)

\* Calls of which neither was over when the other began overlap.
LEMMA Meets ==
  ASSUME Inv, NEW c \in Calls, Moves(c), NEW d \in Calls, d # c, Begun(d)
  PROVE  Overlap(c, d) \/ After(d, c)
BY DEF Inv, Past, Order, Moves, Overlap, After, Begun

LEMMA UndoingStep ==
  ASSUME Inv, Undoing, NEW c \in Calls, Moves(c), UNCHANGED prior, FileStep(c), LeavesNothing(c)
  PROVE  Undoing'
<1>1. /\ \A d \in Calls, p \in Paths : Disputed(d, p)' = Disputed(d, p)
      /\ \A d, e \in Calls : After(d, e)' = After(d, e)
      /\ \A d \in Calls : d # c => call'[d] = call[d] /\ result'[d] = result[d]
  <2>1. \A d \in Calls, p \in Paths : Disputed(d, p)' = Disputed(d, p)
    BY Framed DEF Disputed, Inv
  <2> QED
    BY <2>1, Framed DEF Moves, Inv
<1>2. Emptied'
  <2> SUFFICES ASSUME NEW d \in Calls, NEW p \in Paths, At(d, "fill")'
               PROVE  files'[p] = Absent \/ Disputed(d, p)
    BY <1>1 DEF Emptied
  <2>1. CASE d = c
    BY <2>1 DEF LeavesNothing
  <2>2. CASE d # c
    <3>1. At(d, "fill") /\ Begun(d) /\ ~Over(d)
      BY <1>1, <2>2 DEF At, Begun, Inv, CallsTyped
    <3>2. CASE Touches(c, p)
      <4>1. Overlap(c, d)
        BY <2>2, <3>1, Meets DEF Inv, Past, Order, After
      <4> QED
        BY <3>2, <4>1 DEF Disputed
    <3> QED
      BY <3>1, <3>2 DEF Undoing, Emptied, FileStep
  <2> QED
    BY <2>1, <2>2
<1>3. Rid'
  <2> SUFFICES ASSUME NEW d \in Calls, NEW a \in Calls, NEW p \in Paths, result'[d] = "ok",
                      After(a, d), Undone(d, a, p)', ~Disputed(d, p)
               PROVE  Unseen(d, a, p)'
    BY <1>1 DEF Rid
  <2>1. CASE d = c
    <3>1. a \in prior[c] /\ Undone(c, a, p)
      BY <2>1 DEF After, Undone, Kind, Path, Moves
    <3>2. \A e \in Calls : ~After(c, e)
      BY DEF After, Moves, Inv, Past, Order
    <3> QED
      BY <1>1, <2>1, <3>1, <3>2 DEF LeavesNothing, Unseen
  <2>2. CASE d # c
    <3>1. result[d] = "ok" /\ Undone(d, a, p) /\ Begun(d)
      BY <1>1, <2>2 DEF Undone, Kind, Path, After
    <3>2. Unseen(d, a, p)
      BY <3>1 DEF Undoing, Rid
    <3>3. a # c /\ a \notin Absent
      BY DEF After, Moves, Inv, Past, Order, Absent
    <3>4. a \notin files'[p]
      <4>1. CASE files'[p] = files[p]
        BY <3>2, <4>1 DEF Unseen
      <4>2. CASE Touches(c, p)
        <5>1. After(d, c) /\ Kind(c) # "restore"
          BY <2>2, <3>1, <4>2, Meets DEF Disputed
        <5> QED
          BY <3>2, <3>3, <5>1 DEF FileStep, Unseen
      <4> QED
        BY <4>1, <4>2 DEF FileStep
    <3>5. ASSUME NEW e \in Calls, After(d, e) PROVE a \notin call'[e].seen[p]
      BY <1>1, <3>2, <3>3, <3>5 DEF Unseen, Moves
    <3> QED
      BY <1>1, <3>4, <3>5 DEF Unseen
  <2> QED
    BY <2>1, <2>2
<1> QED
  BY <1>2, <1>3 DEF Undoing

\* A step that leaves the files alone, and ends no call that undoes.
LEMMA UndoingQuiet ==
  ASSUME Inv, Undoing, NEW c \in Calls, Moves(c), UNCHANGED <<prior, files>>, ~At(c, "fill")',
         result'[c] = "ok" => Kind(c) \notin {"write", "upload", "delete", "restore"}
  PROVE  Undoing'
<1>1. FileStep(c) /\ LeavesNothing(c)
  BY DEF FileStep, LeavesNothing, Undone
<1> QED
  BY <1>1, UndoingStep

LEMMA PutUndoes ==
  ASSUME Inv, Undoing, NEW c \in Calls, Put(c), Moves(c), UNCHANGED prior
  PROVE  Undoing'
<1>1. /\ Kind(c) \in Puts /\ Path(c) \in Paths /\ files \in [Paths -> Contents]
      /\ files' = [files EXCEPT ![Path(c)] = PutOver(c)] /\ ~At(c, "fill")'
  BY DEF Put, Goto, End, At, Inv, CallsTyped, RestTyped, CallRows, Path, Past, Fits, FitsAt
<1>2. FileStep(c)
  BY <1>1 DEF FileStep, Touches, Puts, PutOver, Known
<1>3. c \notin prior[c]
  BY DEF Moves, Inv, Past, Order
<1>4. ASSUME NEW d \in prior[c], NEW p \in Paths, Undone(c, d, p) PROVE d \notin files'[p]
  <2>1. Path(c) = p /\ Kind(c) \in {"write", "upload"}
    BY <1>1, <1>4 DEF Undone, Puts
  <2> QED
    BY <1>1, <1>3, <2>1 DEF PutOver
<1> QED
  BY <1>1, <1>2, <1>4, UndoingStep DEF LeavesNothing

LEMMA DropUndoes ==
  ASSUME Inv, Undoing, NEW c \in Calls, Drop(c), Moves(c), UNCHANGED prior
  PROVE  Undoing'
<1>1. /\ Kind(c) = "delete" /\ Path(c) \in Paths /\ files \in [Paths -> Contents]
      /\ files' = [files EXCEPT ![Path(c)] = Absent] /\ ~At(c, "fill")'
  BY DEF Drop, End, At, Inv, CallsTyped, RestTyped, CallRows, Path, Past, Fits, FitsAt
<1>2. FileStep(c)
  BY <1>1 DEF FileStep, Touches, Runs
<1>3. ASSUME NEW d \in prior[c], NEW p \in Paths, Undone(c, d, p) PROVE d \notin files'[p]
  BY <1>1, <1>3 DEF Undone, Absent, Inv, RestTyped
<1> QED
  BY <1>1, <1>2, <1>3, UndoingStep DEF LeavesNothing

LEMMA RestoreUndoes ==
  ASSUME Inv, Undoing, NEW c \in Calls, Clear(c) \/ Fill(c), Moves(c), UNCHANGED prior
  PROVE  Undoing'
<1>1. Kind(c) = "restore" /\ FileStep(c)
  BY DEF Clear, Fill, Inv, Past, Fits, FitsAt, At, FileStep, Touches
<1>2. CASE Clear(c)
  <2>1. \A p \in Paths : files'[p] = Absent
    BY <1>2 DEF Clear, Nothing
  <2>2. result'[c] # "ok"
    BY <1>2 DEF Clear, Goto, Moves, Over
  <2> QED
    BY <1>1, <2>1, <2>2, UndoingStep DEF LeavesNothing
<1>3. CASE Fill(c)
  <2>1. ~At(c, "fill")' /\ At(c, "fill")
    BY <1>3 DEF Fill, End, At, Inv, CallsTyped, CallRows
  <2>2. ASSUME NEW d \in prior[c], NEW p \in Paths, Undone(c, d, p), ~Disputed(c, p),
               result'[c] = "ok"
        PROVE  d \notin files'[p]
    <3>1. PICK snap \in call[c].from : files' = Merged(files, snap.files)
      BY <1>3, <2>2 DEF Fill, End, Inv, CallsTyped
    <3>2. d \notin snap.files[p] /\ d \notin Absent
      BY <1>1, <2>2, <3>1 DEF Undone, Absent, Inv, RestTyped
    <3>3. files[p] = Absent
      BY <2>1, <2>2 DEF Undoing, Emptied
    <3> QED
      BY <3>1, <3>2, <3>3 DEF Merged
  <2> QED
    BY <1>1, <2>1, <2>2, UndoingStep DEF LeavesNothing
<1> QED
  BY <1>2, <1>3

LEMMA SaveUndoes ==
  ASSUME Inv, Undoing, NEW c \in Calls, NEW p \in Paths, NEW fresh \in BOOLEAN, Save(c, p, fresh),
         Moves(c), UNCHANGED prior
  PROVE  Undoing'
<1>1. /\ Kind(c) \in Runs /\ files \in [Paths -> Contents] /\ result' = result
      /\ files' = [files EXCEPT ![p] = IF fresh \/ call[c].seen[p] = Absent THEN {c}
                                       ELSE call[c].seen[p] \cup {c}]
  BY DEF Save, Inv, RestTyped, Past, Fits, FitsAt, At
<1>2. FileStep(c)
  BY <1>1 DEF FileStep, Touches
<1>3. ~At(c, "fill")' /\ result'[c] # "ok"
  BY <1>1, SaveKeeps DEF Inv, Past, Fits, FitsAt, Moves, Over, Kind, Runs, At
<1> QED
  BY <1>2, <1>3, UndoingStep DEF LeavesNothing

LEMMA EraseUndoes ==
  ASSUME Inv, Undoing, NEW c \in Calls, NEW p \in Paths, Erase(c, p), Moves(c), UNCHANGED prior
  PROVE  Undoing'
<1>1. /\ Kind(c) \in Runs /\ files \in [Paths -> Contents] /\ result' = result
      /\ files' = [files EXCEPT ![p] = Absent]
  BY DEF Erase, Inv, RestTyped, Past, Fits, FitsAt, At
<1>2. FileStep(c)
  BY <1>1 DEF FileStep, Touches
<1>3. ~At(c, "fill")' /\ result'[c] # "ok"
  BY <1>1, EraseKeeps DEF Inv, Past, Fits, FitsAt, Moves, Over, Kind, Runs, At
<1> QED
  BY <1>2, <1>3, UndoingStep DEF LeavesNothing

LEMMA BeginUndoes ==
  ASSUME Inv, Undoing, NEW c \in Calls, NEW kind \in Kinds, NEW p \in Paths, NEW from \in SUBSET Snaps,
         Begin(c, kind, p, from)
  PROVE  Undoing'
<1> DEFINE row == Opened(kind, p, from)
<1>1. /\ At(c, "idle") /\ UNCHANGED <<files, result>>
      /\ prior' = [prior EXCEPT ![c] = {d \in Calls : Over(d)}]
      /\ call' = [call EXCEPT ![c] = row]
  BY DEF Begin, Opened
<1>2. row.pc \notin {"idle", "fill"} /\ row.seen = Nothing
  <2>1. row.pc = Entry[kind] /\ row.seen = Nothing
    BY BeginRow
  <2> QED
    BY <2>1 DEF Entry, Kinds
<1> HIDE DEF row
<1>3. /\ call'[c] = row /\ result'[c] = "none"
      /\ \A d \in Calls : d # c => call'[d] = call[d] /\ prior'[d] = prior[d]
  BY <1>1 DEF Inv, CallsTyped, RestTyped, At, Over
<1>4. \A d, e \in Calls : d # c /\ e # c => /\ Overlap(d, e)' = Overlap(d, e)
                                            /\ After(d, e)' = After(d, e)
  BY <1>3 DEF Overlap, After, Begun, At
<1>5. ASSUME NEW d \in Calls, d # c, NEW q \in Paths, Disputed(d, q) PROVE Disputed(d, q)'
  <2>1. PICK g \in Calls : Touches(g, q) /\ (Overlap(g, d) \/ (After(d, g) /\ Kind(g) = "restore"))
    BY <1>5 DEF Disputed
  <2>2. g # c
    BY <1>1, <2>1 DEF Overlap, After, Begun
  <2>3. Touches(g, q)' /\ Kind(g)' = Kind(g)
    BY <1>3, <2>1, <2>2 DEF Touches, Kind, Path
  <2> QED
    BY <1>4, <1>5, <2>1, <2>2, <2>3 DEF Disputed
<1>6. Emptied'
  BY <1>1, <1>2, <1>3, <1>5 DEF Undoing, Emptied, At
<1>7. Rid'
  <2> SUFFICES ASSUME NEW d \in Calls, NEW a \in Calls, NEW q \in Paths, result'[d] = "ok",
                      After(a, d)', Undone(d, a, q)', ~Disputed(d, q)'
               PROVE  Unseen(d, a, q)'
    BY DEF Rid
  <2>1. d # c /\ a # c /\ a \notin Absent
    BY <1>1, <1>3 DEF After, Inv, Past, Order, CallsTyped, At, Over, Absent
  <2>2. result[d] = "ok" /\ After(a, d) /\ Undone(d, a, q) /\ ~Disputed(d, q)
    BY <1>1, <1>3, <1>4, <1>5, <2>1 DEF Undone, Kind, Path
  <2>3. Unseen(d, a, q)
    BY <2>2 DEF Undoing, Rid
  <2>4. ASSUME NEW e \in Calls, After(d, e)' PROVE a \notin call'[e].seen[q]
    BY <1>2, <1>3, <1>4, <2>1, <2>3, <2>4 DEF Unseen, Nothing
  <2> QED
    BY <1>1, <2>3, <2>4 DEF Unseen
<1> QED
  BY <1>6, <1>7 DEF Undoing

LEMMA UndoingNext == Inv /\ Undoing /\ [Next]_vars => Undoing'
<1> SUFFICES ASSUME Inv, Undoing, [Next]_vars PROVE Undoing'
  OBVIOUS
<1>1. CASE UNCHANGED vars
  BY <1>1 DEF vars, Undoing, Emptied, Rid, Unseen, Disputed, Undone, Touches, Overlap, After, Begun,
              At, Kind, Path
<1>2. ASSUME NEW c \in Calls, Step(c) PROVE Undoing'
  <2>1. CASE \E kind \in Kinds, p \in Paths : Begin(c, kind, p, {})
    BY <2>1, BeginUndoes
  <2>2. CASE \E d \in Calls : Begin(c, "restore", Index, saved[d])
    <3>1. \A d \in Calls : saved[d] \in SUBSET Snaps
      BY DEF Inv, RestTyped
    <3> QED
      BY <2>2, <3>1, BeginUndoes DEF Kinds
  <2>3. CASE Fail(c)
    <3>1. call'[c].pc = "over" /\ result'[c] = "error" /\ UNCHANGED files
      BY <2>3 DEF Fail, End, workspace, Inv, CallsTyped, CallRows
    <3> QED
      BY <2>3, <3>1, FailKeeps, UndoingQuiet DEF At
  <2>4. CASE Check(c) \/ Get(c) \/ ReadIndex(c) \/ Install(c) \/ Row(c) \/ Copy(c)
             \/ Load(c) \/ Saved(c) \/ Erased(c) \/ Publish(c) \/ Consume(c)
             \/ \E p \in Paths : Show(c, p)
    <3>1. /\ Inv' /\ Moves(c) /\ UNCHANGED prior
      BY <2>4, CheckKeeps, GetKeeps, ReadIndexKeeps, InstallKeeps, RowKeeps, CopyKeeps,
         LoadKeeps, SavedKeeps, ErasedKeeps, PublishKeeps, ConsumeKeeps, ShowKeeps
    <3>2. UNCHANGED files
      BY <2>4 DEF Check, Get, ReadIndex, Install, Page, Row, Copy, Load, Saved, Erased, Publish, Consume,
                  Show, workspace
    <3>3. result'[c] = "ok" => Row(c) \/ Copy(c) \/ Consume(c)
      BY <2>4, <3>1 DEF Check, Get, ReadIndex, Install, Page, Load, Saved, Erased, Publish, Show, Goto,
                        See, End,
                        Moves, Over, Inv, CallsTyped
    <3>4. /\ Kind(c) # "restore"
          /\ Row(c) \/ Copy(c) \/ Consume(c) => Kind(c) \notin {"write", "upload", "delete"}
      BY <2>4 DEF Check, Get, ReadIndex, Install, Page, Row, Copy, Load, Saved, Erased, Publish, Consume,
                  Show, At, Inv, Past, Fits, FitsAt, Runs
    <3>5. ~At(c, "fill")'
      BY <3>1, <3>4 DEF Inv, Past, Fits, FitsAt, Moves, Kind, At
    <3> QED
      BY <3>1, <3>2, <3>3, <3>4, <3>5, UndoingQuiet
  <2>5. CASE Put(c) \/ Drop(c) \/ Clear(c) \/ Fill(c)
    BY <2>5, PutKeeps, PutUndoes, DropKeeps, DropUndoes, ClearKeeps, FillKeeps, RestoreUndoes
  <2>6. CASE \E p \in Paths : Erase(c, p) \/ \E fresh \in BOOLEAN : Save(c, p, fresh)
    BY <2>6, SaveKeeps, SaveUndoes, EraseKeeps, EraseUndoes
  <2> QED
    BY <1>2, <2>1, <2>2, <2>3, <2>4, <2>5, <2>6 DEF Step
<1> QED
  BY <1>1, <1>2 DEF Next

(***************************************************************************)
(* What is handed over.  An execution nothing overlaps has what it saved   *)
(* in the files, then in what it reads back, then in the pending update.   *)
(***************************************************************************)
Alone(c) == \A d \in Calls : ~Overlap(c, d)
\* These contents are the files c saved, or empty where one could not be read, and no others.
Shown(c, contents) ==
  /\ \A p \in call[c].made : c \in contents[p] \/ contents[p] = {}
  /\ \A p \in Paths \ call[c].made : contents[p] = Absent
Updated(c, u) == u.by = {c} /\ Shown(c, u.files)
Handing(c) ==
  /\ At(c, "load") => call[c].made = {}
  /\ Alone(c) /\ Kind(c) = "execute" =>
       /\ call[c].pc \in {"save", "erase", "show"} => \A p \in call[c].made : c \in files[p]
       /\ At(c, "save") => \A p \in Paths \ call[c].made : files[p] = call[c].seen[p]
       /\ call[c].pc \in {"erase", "show"} => call[c].listed = call[c].made
       /\ At(c, "show") =>
            /\ \A p \in call[c].made : call[c].seen[p] \in {Absent, {}} \/ c \in call[c].seen[p]
            /\ \A p \in Paths \ call[c].made : call[c].seen[p] = Absent
       /\ At(c, "consume") /\ call[c].made # {} => Updated(c, pending)
       /\ result[c] = "ok" /\ call[c].made # {} => \E u \in handed : Updated(c, u)
\* Each update is of one call, which has stored it.
Stored(u) == \E c \in Calls : u.by = {c} /\ call[c].pc \in {"consume", "over"}
Once == /\ \A u \in handed : Stored(u)
        /\ pending = NoUpdate \/ Stored(pending)
        /\ pending \notin handed
Passing == Once /\ \A c \in Calls : Handing(c)

LEMMA PassingHandsOver == Inv /\ Passing => HandedOver
<1> SUFFICES ASSUME Inv, Passing, NEW c \in Calls, result[c] = "ok", Kind(c) = "execute",
                    call[c].made # {}, \A d \in Calls : ~Overlap(c, d)
             PROVE  \E u \in handed :
                      /\ u.by = {c}
                      /\ \A p \in call[c].made : c \in u.files[p] \/ u.files[p] = {}
                      /\ \A p \in Paths \ call[c].made : u.files[p] = Absent
  BY DEF HandedOver, Passing, Once
<1> QED
  BY DEF Passing, Handing, Alone, Updated, Shown

LEMMA PassingInit == Init => Passing
<1> SUFFICES ASSUME Init PROVE Passing
  OBVIOUS
<1>1. \A c \in Calls : call[c] = Idle /\ result[c] = "none"
  BY DEF Init
<1>2. Once
  BY DEF Init, Once
<1> QED
  BY <1>1, <1>2 DEF Passing, Handing, At, Idle, Kind

LEMMA PassingStep ==
  ASSUME Inv, Passing, NEW c \in Calls, Moves(c), UNCHANGED prior, handed \subseteq handed',
         Once', Handing(c)'
  PROVE  Passing'
<1> SUFFICES ASSUME NEW d \in Calls, d # c PROVE Handing(d)'
  BY DEF Passing
<1>1. /\ call'[d] = call[d] /\ result'[d] = result[d]
      /\ Alone(d)' = Alone(d) /\ Kind(d)' = Kind(d) /\ At(d, "load")' = At(d, "load")
  BY Framed DEF Moves, Alone, Inv, At
<1>2. Begun(d) /\ Alone(d) => Over(d)
  <2>1. Overlap(c, d) => Overlap(d, c)
    BY DEF Overlap
  <2> QED
    BY <2>1, Meets DEF Alone, After, Inv, Past, Order
<1>3. CASE ~Alone(d) \/ ~Begun(d)
  BY <1>1, <1>3 DEF Passing, Handing, Begun, At, Inv, CallsTyped, Over
<1>4. CASE Over(d)
  <2>1. call[d].pc = "over"
    BY <1>4 DEF Inv, CallsTyped, At
  <2>2. \A u \in handed : Updated(d, u) => Updated(d, u)'
    BY <1>1 DEF Updated, Shown
  <2> QED
    BY <1>1, <2>1, <2>2 DEF Passing, Handing, At
<1> QED
  BY <1>2, <1>3, <1>4

\* The stored updates stay stored.
LEMMA OnceKept ==
  ASSUME Inv, Passing, NEW c \in Calls, Moves(c), UNCHANGED <<pending, handed>>,
         call[c].pc = "consume" => call'[c].pc = "over"
  PROVE  Once'
<1>1. \A u : Stored(u) => Stored(u)'
  <2> SUFFICES ASSUME NEW u, NEW d \in Calls, u.by = {d}, call[d].pc \in {"consume", "over"}
               PROVE  call'[d].pc \in {"consume", "over"}
    BY DEF Stored
  <2>1. CASE d = c
    BY <2>1 DEF Moves, Inv, CallsTyped, At, Over
  <2>2. CASE d # c
    BY <2>2 DEF Moves
  <2> QED
    BY <2>1, <2>2
<1> QED
  BY <1>1 DEF Passing, Once

\* A step that is not an execution's.
LEMMA PassingOther ==
  ASSUME Inv, Passing, NEW c \in Calls, Moves(c), UNCHANGED <<prior, pending, handed>>,
         Kind(c) \notin Runs, Inv'
  PROVE  Passing'
<1>1. call[c].pc # "consume" /\ Kind(c)' # "execute" /\ ~At(c, "load")'
  BY DEF Inv, Past, Fits, FitsAt, Moves, Kind, Runs, At
<1> QED
  BY <1>1, OnceKept, PassingStep DEF Handing

LEMMA LoadPasses ==
  ASSUME Inv, Passing, NEW c \in Calls, Load(c), Moves(c), UNCHANGED prior
  PROVE  Passing'
<1>1. /\ call[c].pc = "load" /\ call[c].made = {} /\ UNCHANGED <<pending, handed, result>>
      /\ CallsTyped /\ call[c].pc \in Under /\ "save" \in Under /\ files \in [Paths -> Contents]
      /\ See(c, "save", Paths)
  BY DEF Load, See, others, Passing, Handing, At, Inv, RestTyped, Under, Labels
<1>2. call'[c].pc = "save" /\ call'[c].made = {} /\ result'[c] # "ok"
      /\ \A p \in Paths : call'[c].seen[p] = files[p]
  BY <1>1, SeeMoves DEF Moves, Over
<1>3. UNCHANGED files
  BY DEF Load, workspace
<1> QED
  BY <1>1, <1>2, <1>3, OnceKept, PassingStep DEF Handing, At

LEMMA SavePasses ==
  ASSUME Inv, Passing, NEW c \in Calls, NEW p \in Paths, NEW fresh \in BOOLEAN, Save(c, p, fresh),
         Moves(c), UNCHANGED prior
  PROVE  Passing'
<1>1. /\ call[c].pc = "save" /\ UNCHANGED <<pending, handed, result>>
      /\ call[c] \in CallRows /\ files \in [Paths -> Contents]
      /\ call' = [call EXCEPT ![c].made = @ \cup {p}]
      /\ files' = [files EXCEPT ![p] = IF fresh \/ call[c].seen[p] = Absent THEN {c}
                                       ELSE call[c].seen[p] \cup {c}]
  BY DEF Save, others, At, Inv, CallsTyped, RestTyped
<1>2. call'[c].pc = "save" /\ call'[c].made = call[c].made \cup {p} /\ call[c].made \subseteq Paths
      /\ call'[c].seen = call[c].seen
  BY <1>1 DEF Inv, CallsTyped, CallRows
<1>3. c \in files'[p] /\ \A q \in Paths : q # p => files'[q] = files[q]
  BY <1>1
<1>4. Alone(c)' = Alone(c) /\ Kind(c)' = Kind(c) /\ result'[c] # "ok"
  BY <1>1, Framed DEF Alone, Inv, Moves, Over
<1>5. Handing(c)'
  BY <1>1, <1>2, <1>3, <1>4 DEF Passing, Handing, At
<1> QED
  BY <1>1, <1>2, <1>5, OnceKept, PassingStep

LEMMA SavedPasses ==
  ASSUME Inv, Passing, NEW c \in Calls, Saved(c), Moves(c), UNCHANGED prior
  PROVE  Passing'
<1>1. /\ call[c].pc = "save" /\ UNCHANGED <<files, pending, handed, result>>
      /\ call[c] \in CallRows /\ call'[c].pc = "erase" /\ call'[c].made = call[c].made
      /\ call'[c].listed \in Created(c)
  BY SavedMoves DEF Inv, CallsTyped
<1>2. Alone(c)' = Alone(c) /\ Kind(c)' = Kind(c) /\ result'[c] # "ok"
  BY <1>1, Framed DEF Alone, Inv, Moves, Over
\* Nothing has come into the workspace.
<1>3. ASSUME Alone(c), Kind(c) = "execute" PROVE call'[c].listed = call[c].made
  <2>1. \A p \in Paths \ call[c].made : files[p] = call[c].seen[p]
    BY <1>1, <1>3 DEF Passing, Handing, At
  <2>2. call[c].made = {} => Found(c) = {}
    BY <2>1 DEF Found
  <2> QED
    BY <1>1, <2>2 DEF Created
<1>4. Handing(c)'
  BY <1>1, <1>2, <1>3 DEF Passing, Handing, At
<1> QED
  BY <1>1, <1>4, OnceKept, PassingStep

LEMMA ErasePasses ==
  ASSUME Inv, Passing, NEW c \in Calls, NEW p \in Paths, Erase(c, p), Moves(c), UNCHANGED prior
  PROVE  Passing'
<1>1. /\ call[c].pc = "erase" /\ UNCHANGED <<pending, handed, result>> /\ call[c] \in CallRows
      /\ p \notin call[c].made /\ files' = [files EXCEPT ![p] = Absent]
      /\ call' = [call EXCEPT ![c].seen[p] = Absent] /\ files \in [Paths -> Contents]
  BY DEF Erase, others, At, Inv, CallsTyped, RestTyped
<1>2. call'[c].pc = "erase" /\ call'[c].made = call[c].made /\ call'[c].listed = call[c].listed
      /\ call[c].made \subseteq Paths
  BY <1>1 DEF Inv, CallsTyped, CallRows
<1>3. \A q \in call[c].made : files'[q] = files[q]
  BY <1>1, <1>2
<1>4. Alone(c)' = Alone(c) /\ Kind(c)' = Kind(c) /\ result'[c] # "ok"
  BY <1>1, Framed DEF Alone, Inv, Moves, Over
<1>5. Handing(c)'
  BY <1>1, <1>2, <1>3, <1>4 DEF Passing, Handing, At
<1> QED
  BY <1>1, <1>2, <1>5, OnceKept, PassingStep

LEMMA ErasedPasses ==
  ASSUME Inv, Passing, NEW c \in Calls, Erased(c), Moves(c), UNCHANGED prior
  PROVE  Passing'
<1>1. /\ call[c].pc = "erase" /\ UNCHANGED <<files, pending, handed, result>>
      /\ call[c] \in CallRows
      /\ call'[c].pc = IF call[c].listed = {} \/ Kind(c) = "shell" THEN "consume" ELSE "show"
      /\ call'[c].made = call[c].made /\ call'[c].seen = Nothing
      /\ call'[c].listed = call[c].listed
  BY ErasedMoves DEF Inv, CallsTyped
<1>2. Alone(c)' = Alone(c) /\ Kind(c)' = Kind(c) /\ result'[c] # "ok"
  BY <1>1, Framed DEF Alone, Inv, Moves, Over
<1>3. \A p \in Paths : Nothing[p] = Absent
  BY DEF Nothing
<1>4. call[c].made \subseteq Paths
  BY <1>1 DEF CallRows
<1>5. Handing(c)'
  BY <1>1, <1>2, <1>3, <1>4 DEF Passing, Handing, At
<1> QED
  BY <1>1, <1>5, OnceKept, PassingStep

LEMMA ShowPasses ==
  ASSUME Inv, Passing, NEW c \in Calls, NEW p \in Paths, Show(c, p), Moves(c), UNCHANGED prior
  PROVE  Passing'
<1>1. /\ call[c].pc = "show" /\ p \in call[c].listed /\ UNCHANGED <<files, pending, handed, result>>
      /\ call[c] \in CallRows
  BY DEF Show, workspace, others, At, Inv, CallsTyped
<1>2. PICK text \in {{}} \cup ({files[p]} \ {Absent}) : call' = [call EXCEPT ![c].seen[p] = text]
  BY DEF Show
<1>3. /\ call'[c].pc = "show" /\ call'[c].made = call[c].made /\ call'[c].listed = call[c].listed
      /\ call'[c].seen = [call[c].seen EXCEPT ![p] = text]
  BY <1>1, <1>2 DEF Inv, CallsTyped, CallRows
<1>4. /\ call'[c].seen[p] = text
      /\ \A q \in Paths : q # p => call'[c].seen[q] = call[c].seen[q]
  BY <1>1, <1>3 DEF CallRows
<1>5. Alone(c)' = Alone(c) /\ Kind(c)' = Kind(c) /\ result'[c] # "ok"
  BY <1>1, Framed DEF Alone, Inv, Moves, Over
<1>6. c \in files[p] => text = {} \/ c \in text
  BY <1>2
<1>7. call[c].made \subseteq Paths
  BY <1>1 DEF CallRows
<1>8. Handing(c)'
  BY <1>1, <1>3, <1>4, <1>5, <1>6, <1>7 DEF Passing, Handing, At
<1> QED
  BY <1>1, <1>3, <1>8, OnceKept, PassingStep

LEMMA PublishPasses ==
  ASSUME Inv, Passing, NEW c \in Calls, Publish(c), Moves(c), UNCHANGED prior
  PROVE  Passing'
<1>1. /\ call[c].pc = "show" /\ \A p \in call[c].listed : call[c].seen[p] # Absent
      /\ UNCHANGED <<handed, result>> /\ call[c] \in CallRows /\ CallsTyped
      /\ pending' = [by |-> {c}, files |-> call[c].seen] /\ Goto(c, "consume")
      /\ call[c].pc \in Under /\ "consume" \in Under
  BY DEF Publish, Goto, At, Inv, CallsTyped, Under, Labels
<1>2. call'[c].pc = "consume" /\ call'[c].made = call[c].made
  BY <1>1, GotoMoves
<1>3. Alone(c)' = Alone(c) /\ Kind(c)' = Kind(c) /\ result'[c] # "ok"
  BY <1>1, Framed DEF Alone, Inv, Moves, Over
<1>4. \A u : Stored(u) => Stored(u)'
  BY <1>1 DEF Stored, Moves
<1>5. pending' \notin handed
  BY <1>1 DEF Passing, Once, Stored
<1>6. Once'
  BY <1>1, <1>2, <1>4, <1>5 DEF Passing, Once, Stored
<1>7. Alone(c) /\ Kind(c) = "execute" => Shown(c, call[c].seen)
  BY <1>1 DEF Passing, Handing, Shown, At
<1>8. Alone(c) /\ Kind(c) = "execute" => Updated(c, pending)'
  BY <1>1, <1>2, <1>7 DEF Updated, Shown
<1>9. Handing(c)'
  BY <1>2, <1>3, <1>8 DEF Handing, At
<1> QED
  BY <1>1, <1>6, <1>9, PassingStep

LEMMA ConsumePasses ==
  ASSUME Inv, Passing, NEW c \in Calls, Consume(c), Moves(c), UNCHANGED prior
  PROVE  Passing'
<1>1. /\ call[c].pc = "consume" /\ pending' = NoUpdate /\ End(c, "ok") /\ CallsTyped
      /\ handed' = IF pending = NoUpdate THEN handed ELSE handed \cup {pending}
      /\ call[c].pc \in Under /\ "ok" \in {"ok", "error"}
  BY DEF Consume, At, Inv, Under, Labels
<1>2. call'[c].pc = "over" /\ call'[c].made = call[c].made
  BY <1>1, EndMoves
<1>3. Alone(c)' = Alone(c) /\ Kind(c)' = Kind(c)
  BY Framed DEF Alone, Inv
<1>4. \A u : Stored(u) => Stored(u)' /\ u # NoUpdate
  BY <1>1, <1>2 DEF Stored, Moves, NoUpdate
<1>5. Once'
  BY <1>1, <1>4 DEF Passing, Once
<1>6. Updated(c, pending) => pending \in handed'
  BY <1>1 DEF Updated, NoUpdate
<1>7. Handing(c)'
  BY <1>1, <1>2, <1>3, <1>6 DEF Passing, Handing, Updated, Shown, At
<1> QED
  BY <1>1, <1>5, <1>7, PassingStep

LEMMA FailPasses ==
  ASSUME Inv, Passing, NEW c \in Calls, Fail(c), Moves(c), UNCHANGED prior
  PROVE  Passing'
<1>1. /\ UNCHANGED <<pending, handed>> /\ call[c].pc # "consume"
      /\ call'[c].pc = "over" /\ result'[c] = "error"
  BY DEF Fail, End, others, Inv, CallsTyped, CallRows
<1> QED
  BY <1>1, OnceKept, PassingStep DEF Handing, At

LEMMA BeginPasses ==
  ASSUME Inv, Passing, NEW c \in Calls, NEW kind \in Kinds, NEW p \in Paths, NEW from \in SUBSET Snaps,
         Begin(c, kind, p, from)
  PROVE  Passing'
<1> DEFINE row == Opened(kind, p, from)
<1>1. /\ At(c, "idle") /\ UNCHANGED <<files, pending, handed, result>>
      /\ prior' = [prior EXCEPT ![c] = {d \in Calls : Over(d)}]
      /\ call' = [call EXCEPT ![c] = row]
  BY DEF Begin, Opened
<1>2. row.pc \notin {"idle", "save", "erase", "show", "consume", "over"} /\ row.made = {}
  <2>1. row.pc = Entry[kind] /\ row.made = {}
    BY BeginRow
  <2> QED
    BY <2>1 DEF Entry, Kinds
<1> HIDE DEF row
<1>3. /\ call'[c] = row /\ result'[c] = "none"
      /\ \A d \in Calls : d # c => call'[d] = call[d] /\ prior'[d] = prior[d]
      /\ prior'[c] = {d \in Calls : Over(d)}
  BY <1>1 DEF Inv, CallsTyped, RestTyped, At, Over
<1>4. Once'
  <2>1. \A u : Stored(u) => Stored(u)'
    BY <1>1, <1>3 DEF Stored, At
  <2> QED
    BY <1>1, <2>1 DEF Passing, Once
<1>5. Handing(c)'
  BY <1>2, <1>3 DEF Handing, At
<1>6. ASSUME NEW d \in Calls, d # c PROVE Handing(d)'
  <2>1. Kind(d)' = Kind(d) /\ \A u : Updated(d, u)' = Updated(d, u)
    BY <1>3, <1>6 DEF Kind, Updated, Shown
  <2>2. Alone(d)' => Alone(d)
    <3> SUFFICES ASSUME NEW e \in Calls, Overlap(d, e) PROVE Overlap(d, e)'
      BY DEF Alone
    <3>1. e # c
      BY <1>1 DEF Overlap, Begun
    <3> QED
      BY <1>3, <1>6, <3>1 DEF Overlap, Begun, At
  <2>3. /\ Updated(d, pending)' = Updated(d, pending)
        /\ (\E u \in handed : Updated(d, u))' = (\E u \in handed : Updated(d, u))
    BY <1>1, <1>3, <1>6 DEF Updated, Shown
  <2>4. call'[d] = call[d] /\ result'[d] = result[d] /\ Handing(d)
    BY <1>1, <1>3, <1>6 DEF Passing
  <2> QED
    BY <1>1, <2>1, <2>2, <2>3, <2>4 DEF Handing, At
<1> QED
  BY <1>4, <1>5, <1>6 DEF Passing

LEMMA PassingNext == Inv /\ Passing /\ [Next]_vars => Passing'
<1> SUFFICES ASSUME Inv, Passing, [Next]_vars PROVE Passing'
  OBVIOUS
<1>0. Inv'
  BY InvStep
<1>1. CASE UNCHANGED vars
  <2>1. \A u : Stored(u)' = Stored(u)
    BY <1>1 DEF vars, Stored
  <2>2. \A c \in Calls : /\ Alone(c)' = Alone(c) /\ \A u : Updated(c, u)' = Updated(c, u)
    BY <1>1 DEF vars, Alone, Overlap, Begun, At, Updated, Shown
  <2>3. \A c \in Calls : Handing(c)' = Handing(c)
    BY <1>1, <2>2 DEF vars, Handing, At, Kind
  <2> QED
    BY <1>1, <2>1, <2>3 DEF vars, Passing, Once
<1>2. ASSUME NEW c \in Calls, Step(c) PROVE Passing'
  <2>1. CASE \E kind \in Kinds, p \in Paths : Begin(c, kind, p, {})
    BY <2>1, BeginPasses
  <2>2. CASE \E d \in Calls : Begin(c, "restore", Index, saved[d])
    <3>1. \A d \in Calls : saved[d] \in SUBSET Snaps
      BY DEF Inv, RestTyped
    <3> QED
      BY <2>2, <3>1, BeginPasses DEF Kinds
  <2>3. CASE Check(c) \/ Get(c) \/ ReadIndex(c) \/ Put(c) \/ Drop(c) \/ Install(c) \/ Row(c)
             \/ Copy(c) \/ Clear(c) \/ Fill(c)
    <3>1. Moves(c) /\ UNCHANGED prior
      BY <2>3, CheckKeeps, GetKeeps, ReadIndexKeeps, PutKeeps, DropKeeps, InstallKeeps, RowKeeps,
         CopyKeeps, ClearKeeps, FillKeeps
    <3>2. UNCHANGED <<pending, handed>>
      BY <2>3 DEF Check, Get, ReadIndex, Put, Drop, Install, Page, Row, Copy, Clear, Fill, others
    <3>3. Kind(c) \notin Runs
      BY <2>3 DEF Check, Get, ReadIndex, Put, Drop, Install, Page, Row, Copy, Clear, Fill,
                  At, Inv, Past, Fits, FitsAt, Puts, Runs
    <3> QED
      BY <1>0, <3>1, <3>2, <3>3, PassingOther
  <2>4. CASE Fail(c) \/ Load(c) \/ Saved(c) \/ Erased(c) \/ Publish(c) \/ Consume(c)
    BY <2>4, FailKeeps, FailPasses, LoadKeeps, LoadPasses, SavedKeeps, SavedPasses, ErasedKeeps,
       ErasedPasses, PublishKeeps, PublishPasses, ConsumeKeeps, ConsumePasses
  <2>5. CASE \E p \in Paths : Erase(c, p) \/ Show(c, p) \/ \E fresh \in BOOLEAN : Save(c, p, fresh)
    BY <2>5, EraseKeeps, ErasePasses, ShowKeeps, ShowPasses, SaveKeeps, SavePasses
  <2> QED
    BY <1>2, <2>1, <2>2, <2>3, <2>4, <2>5 DEF Step
<1> QED
  BY <1>1, <1>2 DEF Next

\* TypeCorrect: the tables, the pending update and every call keep their types, and a call
\* has its answer exactly when it is over, for any calls, paths and executions.
THEOREM TypeCorrect == Spec => []TypeOK
<1>1. Inv => TypeOK
  BY TypeParts DEF Inv
<1> QED
  BY <1>1, InvInit, InvStep, PTL DEF Spec

\* WritesStay: for any number of calls of any kinds, what a call put in a file stays there
\* unless a call on the file overlaps it or a later one replaces the whole file.
THEOREM WritesStay == Spec => []Kept
BY StaysKept, InvInit, InvStep, PTL DEF Spec

\* SkillsWhole: whatever fails half way and for any number of installations, a skill in the
\* index has its package and a skill with a row is in the index, unless another call on them
\* overlapped the installation or a later one replaced them.
THEOREM SkillsWhole == Spec => []Installed
<1>1. Inv /\ Skills => Installed
  BY SkillsInstalled
<1>2. Init => Inv /\ Skills
  BY InvInit, SkillsInit
<1>3. Inv /\ Skills /\ [Next]_vars => (Inv /\ Skills)'
  BY InvStep, SkillsStep
<1> QED
  BY <1>1, <1>2, <1>3, PTL DEF Spec

\* StaysGone: for any number of calls of any kinds, what was replaced, deleted or undone does
\* not come back, unless the restored snapshot has it, a call on the file overlapped the one
\* that undid it, or a later restore brings it back.
THEOREM StaysGone == Spec => []Gone
<1>1. Inv /\ Undoing => Gone
  BY UndoingGone
<1>2. Init => Inv /\ Undoing
  BY InvInit, UndoingInit
<1>3. Inv /\ Undoing /\ [Next]_vars => (Inv /\ Undoing)'
  BY InvStep, UndoingNext
<1> QED
  BY <1>1, <1>2, <1>3, PTL DEF Spec

\* HandsOver: for any number of calls, an execution nothing overlaps hands the tool node the
\* files it saved and no others, each as it saved it or, where reading it back failed, empty;
\* and no update is handed over a second time.
THEOREM HandsOver == Spec => []HandedOver
<1>1. Inv /\ Passing => HandedOver
  BY PassingHandsOver
<1>2. Init => Inv /\ Passing
  BY InvInit, PassingInit
<1>3. Inv /\ Passing /\ [Next]_vars => (Inv /\ Passing)'
  BY InvStep, PassingNext
<1> QED
  BY <1>1, <1>2, <1>3, PTL DEF Spec
=============================================================================
