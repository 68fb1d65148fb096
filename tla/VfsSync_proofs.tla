--------------------------- MODULE VfsSync_proofs ---------------------------
(***************************************************************************)
(* Type correctness of executions; that an execution changes tracked files *)
(* of its own workspace only, and only as its code did; that what is       *)
(* stored for a thread is what one of its executions loaded and defined,   *)
(* and when it is not; that the files an execution made reach its          *)
(* workspace and that the files its result names are its own; that all in  *)
(* all every execution is sandboxed.                                       *)
(***************************************************************************)
EXTENDS VfsSync, TLAPS

USE SyncAssumption

(***************************************************************************)
(* What the operators on files return.                                     *)
(***************************************************************************)
LEMMA EmptyTyped == Empty \in FileMaps
BY DEF Empty, FileMaps

LEMMA MountedTyped ==
  ASSUME NEW sent \in FileMaps, NEW files \in FileMaps
  PROVE  Mounted(sent, files) \in FileMaps
BY DEF Mounted, FileMaps

LEMMA AfterTyped ==
  ASSUME NEW e \in Execs, NEW found \in FileMaps, NEW did \in [Paths -> Effects]
  PROVE  After(e, found, did) \in FileMaps
<1> SUFFICES ASSUME NEW p \in Paths
             PROVE  (CASE did[p] = "left" -> found[p]
                       [] did[p] = "removed" -> None
                       [] OTHER -> e) \in Contents \cup {None}
  BY DEF After, FileMaps
<1>1. CASE did[p] = "left"
  BY <1>1 DEF FileMaps
<1>2. CASE did[p] = "removed"
  BY <1>2
<1>3. CASE did[p] # "left" /\ did[p] # "removed"
  BY <1>3 DEF Contents
<1> QED
  BY <1>1, <1>2, <1>3

\* A worker does at a path exactly what the code did there.
LEMMA AfterAt ==
  ASSUME NEW e \in Execs, NEW found \in FileMaps, NEW did \in [Paths -> Effects],
         NEW p \in Paths
  PROVE  /\ did[p] = "left" => After(e, found, did)[p] = found[p]
         /\ did[p] = "removed" => After(e, found, did)[p] = None
         /\ did[p] \in {"wrote", "slipped"} => After(e, found, did)[p] = e
<1>1. After(e, found, did)[p] = CASE did[p] = "left" -> found[p]
                                  [] did[p] = "removed" -> None
                                  [] OTHER -> e
  BY DEF After
<1>2. CASE did[p] = "left"
  BY <1>1, <1>2
<1>3. CASE did[p] = "removed"
  BY <1>1, <1>3
<1>4. CASE did[p] \in {"wrote", "slipped"}
  BY <1>1, <1>4
<1> QED
  BY <1>2, <1>3, <1>4 DEF Effects

\* A tracked file that is collected was written by the code.
LEMMA NoticedWrites ==
  ASSUME NEW e \in Execs, NEW found \in FileMaps, NEW did \in [Paths -> Effects],
         NEW p \in Tracked, p \in Noticed(found, did, After(e, found, did))
  PROVE  did[p] \in {"wrote", "slipped"} /\ After(e, found, did)[p] = e
<1> DEFINE final == After(e, found, did)
<1>1. p \in Paths /\ final[p] # None
  BY DEF Noticed
<1>2. did[p] = "wrote" \/ found[p] = None \/ Size[final[p]] # Size[found[p]]
  BY DEF Noticed
<1>3. did[p] # "removed"
  BY <1>1, AfterAt
<1>4. did[p] # "left"
  BY <1>1, <1>2, AfterAt
<1>5. did[p] \in {"wrote", "slipped"}
  BY <1>1, <1>3, <1>4 DEF Effects
<1> QED
  BY <1>1, <1>5, AfterAt

\* A tracked file that is missing in the end was removed by the code, or not sent.
LEMMA MissingRemoved ==
  ASSUME NEW e \in Execs, NEW sent \in FileMaps, NEW files \in FileMaps,
         NEW did \in [Paths -> Effects], NEW p \in Paths,
         After(e, Mounted(sent, files), did)[p] = None
  PROVE  did[p] = "removed" \/ sent[p] = None
<1>1. Mounted(sent, files) \in FileMaps
  BY MountedTyped
<1>2. e # None
  BY DEF Contents
<1>3. did[p] \in {"removed", "left"}
  BY <1>1, <1>2, AfterAt DEF Effects
<1>4. CASE did[p] = "left"
  <2>1. Mounted(sent, files)[p] = None
    BY <1>1, <1>4, AfterAt
  <2>2. Mounted(sent, files)[p] = IF sent[p] # None THEN sent[p] ELSE files[p]
    BY DEF Mounted
  <2> QED
    BY <2>1, <2>2
<1> QED
  BY <1>3, <1>4

LEMMA NothingTyped == NoCall \in CallRows /\ NoPast \in PastRows
<1>1. NoPast.did \in [Paths -> Effects]
  BY DEF NoPast, Effects
<1> QED
  BY <1>1, EmptyTyped DEF NoCall, NoPast, CallRows, PastRows

LEMMA EntryTyped ==
  ASSUME NEW e \in Execs
  PROVE  Entry[Kind[e]] \in Before
<1>1. Kind[e] \in {"stateful", "stateless", "shell", "api"}
  BY DEF Kinds
<1> QED
  BY <1>1 DEF Entry, Before

(***************************************************************************)
(* Type correctness.                                                       *)
(***************************************************************************)
ControlTyped ==
  /\ pc' \in [Execs -> Labels]
  /\ call' \in [Execs -> CallRows]
  /\ past' \in [Execs -> PastRows]

LEMMA Fields ==
  ASSUME TypeOK, NEW e \in Execs
  PROVE  /\ call[e].loaded \in SUBSET Execs
         /\ call[e].listed \in SUBSET Paths
         /\ call[e].sent \in FileMaps
         /\ call[e].created \in SUBSET (Paths \X Contents)
         /\ call[e].doomed \in SUBSET Paths
         /\ call[e].reported \in SUBSET Paths
         /\ call[e].fresh \in SUBSET Execs
         /\ past[e].did \in [Paths -> Effects]
         /\ vfs[Vfs(e)] \in FileMaps
         /\ Vfs(e) \in VfsIds
<1>1. call[e] \in CallRows /\ past[e] \in PastRows
  BY DEF TypeOK
<1>2. Vfs(e) \in VfsIds
  BY DEF Vfs, VfsIds
<1> QED
  BY <1>1, <1>2 DEF TypeOK, CallRows, PastRows

LEMMA EndTyped ==
  ASSUME TypeOK, NEW e \in Execs, End(e)
  PROVE  ControlTyped
BY NothingTyped DEF ControlTyped, TypeOK, End, Goto, Labels

LEMMA StirTyped ==
  ASSUME TypeOK, NEW e \in Execs, NEW p \in Paths
  PROVE  Stir(e, p) \in [Execs -> PastRows]
<1> SUFFICES ASSUME NEW f \in Execs
             PROVE  [past[f] EXCEPT !.stirred = @ \cup {p}] \in PastRows
  BY DEF Stir, TypeOK
<1>1. past[f] \in PastRows
  BY DEF TypeOK
<1> QED
  BY <1>1 DEF PastRows

LEMMA VfsTyped ==
  ASSUME TypeOK, NEW v \in VfsIds, NEW p \in Paths, NEW c \in Contents \cup {None}
  PROVE  [vfs EXCEPT ![v][p] = c] \in [VfsIds -> FileMaps]
BY DEF TypeOK, FileMaps

LEMMA LabelsTyped ==
  ASSUME NEW e
  PROVE  AfterFiles(e) \in Labels /\ AfterReport(e) \in Labels
BY DEF AfterFiles, AfterReport, Labels

LEMMA ReceivedTyped ==
  ASSUME TypeOK, NEW e \in Execs, NEW found \in FileMaps,
         NEW did \in [Paths -> Effects], NEW final \in FileMaps,
         NEW created \in SUBSET Paths, \A p \in created : final[p] # None,
         NEW doomed \in SUBSET Paths, NEW fresh \in SUBSET Execs,
         Received(e, found, did, final, created, doomed, fresh)
  PROVE  ControlTyped
<1> DEFINE files == {<<p, final[p]>> : p \in created}
<1>1. files \in SUBSET (Paths \X Contents)
  BY DEF FileMaps
<1>2. [call[e] EXCEPT !.created = files, !.doomed = doomed, !.fresh = fresh] \in CallRows
  <2>1. call[e] \in CallRows
    BY DEF TypeOK
  <2> HIDE DEF files
  <2> QED
    BY <1>1, <2>1 DEF CallRows
<1>3. [past[e] EXCEPT !.found = found, !.did = did] \in PastRows
  <2>1. past[e] \in PastRows
    BY DEF TypeOK
  <2> QED
    BY <2>1 DEF PastRows
<1>4. pc' \in [Execs -> Labels]
  BY DEF Received, Goto, TypeOK, Labels
<1>5. call' = [call EXCEPT ![e] = [call[e] EXCEPT !.created = files, !.doomed = doomed,
                                                !.fresh = fresh]]
  <2> call \in [Execs -> CallRows]
    BY DEF TypeOK
  <2> QED
    BY DEF Received, CallRows
<1>6. past' = [past EXCEPT ![e] = [past[e] EXCEPT !.found = found, !.did = did]]
  <2> past \in [Execs -> PastRows]
    BY DEF TypeOK
  <2> QED
    BY DEF Received, PastRows
<1> QED
  BY <1>2, <1>3, <1>4, <1>5, <1>6 DEF ControlTyped, TypeOK

\* What a request may start with and leave.
LEMMA VariablesTyped ==
  ASSUME TypeOK, NEW e \in Execs, NEW w \in Workers, NEW start \in Variables(e, w)
  PROVE  start \in SUBSET Execs
BY Fields DEF TypeOK, Variables, Uncleared

LEMMA RunTyped ==
  ASSUME TypeOK, NEW e \in Execs, NEW w \in Workers, Run(e, w)
  PROVE  TypeOK'
<1>1. PICK did \in Programs[e], start \in Variables(e, w) :
        LET found == Mounted(call[e].sent, fs[w])
            final == After(e, found, did) IN
        /\ fs' = [fs EXCEPT ![w] = final]
        /\ globals' = [globals EXCEPT ![w] = start \cup {e}]
        /\ \/ \E fresh \in IF Kind[e] = "stateful" THEN {{}, start \cup {e}} ELSE {{}} :
                Received(e, found, did, final, Noticed(found, did, final),
                         Doomed(e, final), fresh)
           \/ End(e)
           \/ UNCHANGED <<pc, call, past>>
  BY DEF Run
<1> DEFINE found == Mounted(call[e].sent, fs[w])
           final == After(e, found, did)
<1>2. found \in FileMaps
  BY Fields, MountedTyped DEF TypeOK
<1>3. did \in [Paths -> Effects]
  OBVIOUS
<1>4. final \in FileMaps
  BY <1>2, <1>3, AfterTyped
<1>5. start \in SUBSET Execs
  BY VariablesTyped
<1>6. fs' \in [Workers -> FileMaps] /\ globals' \in [Workers -> SUBSET Execs]
  BY <1>1, <1>4, <1>5 DEF TypeOK
<1>7. Doomed(e, final) \in SUBSET Paths
  BY Fields DEF Doomed
<1>8. Noticed(found, did, final) \in SUBSET Paths
      /\ \A p \in Noticed(found, did, final) : final[p] # None
  BY DEF Noticed
<1>9. ControlTyped
  <2>1. CASE End(e)
    BY <2>1, EndTyped
  <2>2. CASE UNCHANGED <<pc, call, past>>
    BY <2>2 DEF ControlTyped, TypeOK
  <2>3. ASSUME NEW fresh \in IF Kind[e] = "stateful" THEN {{}, start \cup {e}} ELSE {{}},
               Received(e, found, did, final, Noticed(found, did, final),
                        Doomed(e, final), fresh)
        PROVE  ControlTyped
    <3>1. fresh \in SUBSET Execs
      BY <1>5
    <3> HIDE DEF found, final
    <3> QED
      BY <1>2, <1>3, <1>4, <1>7, <1>8, <2>3, <3>1, ReceivedTyped
  <2> QED
    BY <1>1, <2>1, <2>2, <2>3
<1>10. vfs' \in [VfsIds -> FileMaps] /\ bytes' \in [Threads -> SUBSET Execs]
  BY DEF TypeOK, Run, stored
<1> QED
  BY <1>6, <1>9, <1>10 DEF ControlTyped, TypeOK

LEMMA RunShellTyped ==
  ASSUME TypeOK, NEW e \in Execs, RunShell(e)
  PROVE  TypeOK'
<1>1. ControlTyped
  <2>1. CASE End(e)
    BY <2>1, EndTyped
  <2>2. ASSUME NEW did \in Programs[e],
               Received(e, call[e].sent, did, After(e, call[e].sent, did),
                        {p \in Paths : did[p] \in {"wrote", "slipped"}}, {}, {})
        PROVE  ControlTyped
    <3>1. did \in [Paths -> Effects]
      OBVIOUS
    <3>2. call[e].sent \in FileMaps
      BY Fields
    <3>3. After(e, call[e].sent, did) \in FileMaps
      BY <3>1, <3>2, AfterTyped
    <3> DEFINE created == {p \in Paths : did[p] \in {"wrote", "slipped"}}
    <3>4. created \in SUBSET Paths
      OBVIOUS
    <3>5. \A p \in created : After(e, call[e].sent, did)[p] # None
      BY <3>1, <3>2, AfterAt DEF Contents
    <3> HIDE DEF created
    <3> QED
      BY <2>2, <3>1, <3>2, <3>3, <3>4, <3>5, ReceivedTyped DEF created
  <2> QED
    BY <2>1, <2>2 DEF RunShell
<1> QED
  BY <1>1 DEF ControlTyped, TypeOK, RunShell, stored, workers

LEMMA SaveTyped ==
  ASSUME TypeOK, NEW e \in Execs, Save(e)
  PROVE  TypeOK'
<1>1. PICK file \in call[e].created :
        LET left == call[e].created \ {file} IN
        /\ vfs' = [vfs EXCEPT ![Vfs(e)][file[1]] = file[2]]
        /\ call' = [call EXCEPT ![e].created = left, ![e].reported = @ \cup {file[1]}]
        /\ past' = Stir(e, file[1])
        /\ Goto(e, IF left # {} THEN "save" ELSE AfterReport(e))
  BY DEF Save
<1>2. file[1] \in Paths /\ file[2] \in Contents
  BY Fields
<1>3. vfs' \in [VfsIds -> FileMaps]
  BY <1>1, <1>2, Fields, VfsTyped
<1>4. call' \in [Execs -> CallRows]
  <2>1. call[e] \in CallRows /\ call \in [Execs -> CallRows]
    BY DEF TypeOK
  <2>2. [call[e] EXCEPT !.created = call[e].created \ {file},
                        !.reported = @ \cup {file[1]}] \in CallRows
    BY <1>2, <2>1 DEF CallRows
  <2>3. call' = [call EXCEPT ![e] = [call[e] EXCEPT !.created = call[e].created \ {file},
                                                  !.reported = @ \cup {file[1]}]]
    BY <1>1, <2>1 DEF CallRows
  <2> QED
    BY <2>1, <2>2, <2>3
<1>5. past' \in [Execs -> PastRows]
  BY <1>1, <1>2, StirTyped
<1>6. pc' \in [Execs -> Labels]
  BY <1>1, LabelsTyped DEF Goto, TypeOK, Labels
<1> QED
  BY <1>3, <1>4, <1>5, <1>6 DEF TypeOK, Save, workers

LEMMA DeleteTyped ==
  ASSUME TypeOK, NEW e \in Execs, Delete(e)
  PROVE  TypeOK'
<1>1. PICK p \in call[e].doomed :
        LET left == call[e].doomed \ {p} IN
        /\ vfs' = [vfs EXCEPT ![Vfs(e)][p] = None]
        /\ call' = [call EXCEPT ![e].doomed = left]
        /\ past' = Stir(e, p)
        /\ Goto(e, IF left # {} THEN "delete" ELSE AfterFiles(e))
  BY DEF Delete
<1>2. p \in Paths
  BY Fields
<1>3. vfs' \in [VfsIds -> FileMaps]
  BY <1>1, <1>2, Fields, VfsTyped
<1>4. call' \in [Execs -> CallRows]
  <2>1. call[e] \in CallRows
    BY DEF TypeOK
  <2>2. [call[e] EXCEPT !.doomed = call[e].doomed \ {p}] \in CallRows
    BY <2>1 DEF CallRows
  <2> QED
    BY <1>1, <2>2 DEF TypeOK
<1>5. past' \in [Execs -> PastRows]
  BY <1>1, <1>2, StirTyped
<1>6. pc' \in [Execs -> Labels]
  BY <1>1, LabelsTyped DEF Goto, TypeOK, Labels
<1> QED
  BY <1>3, <1>4, <1>5, <1>6 DEF TypeOK, Delete, workers

LEMMA EndsTyped ==
  ASSUME TypeOK, NEW e \in Execs, Return(e) \/ Fail(e)
  PROVE  TypeOK'
<1>1. ControlTyped
  BY EndTyped DEF Return, Fail
<1> QED
  BY <1>1 DEF ControlTyped, TypeOK, Return, Fail, stored, workers

LEMMA QueriesTyped ==
  ASSUME TypeOK, NEW e \in Execs,
         Load(e) \/ CheckQuota(e) \/ List(e) \/ Fetch(e) \/ Detect(e)
  PROVE  TypeOK'
<1>1. ControlTyped
  <2>1. call[e] \in CallRows /\ bytes[Thread[e]] \in SUBSET Execs
    BY DEF TypeOK
  <2>2. CASE Load(e)
    <3>1. [call[e] EXCEPT !.loaded = bytes[Thread[e]]] \in CallRows
      BY <2>1 DEF CallRows
    <3> QED
      BY <2>2, <3>1 DEF Load, ControlTyped, TypeOK, Goto, Labels, Before
  <2>3. CASE CheckQuota(e)
    <3>1. CASE End(e)
      BY <3>1, EndTyped
    <3>2. CASE Goto(e, "list") /\ UNCHANGED <<call, past>>
      BY <3>2 DEF ControlTyped, TypeOK, Goto, Labels, Before
    <3> QED
      BY <2>3, <3>1, <3>2 DEF CheckQuota
  <2>4. CASE List(e)
    <3>1. [call[e] EXCEPT !.listed = Present(vfs[Vfs(e)])] \in CallRows
      BY <2>1 DEF CallRows, Present
    <3> QED
      BY <2>4, <3>1 DEF List, ControlTyped, TypeOK, Goto, Labels
  <2>5. CASE Fetch(e)
    <3>1. [call[e] EXCEPT !.sent = vfs[Vfs(e)]] \in CallRows
      BY <2>1, Fields DEF CallRows
    <3> QED
      BY <2>5, <3>1 DEF Fetch, ControlTyped, TypeOK, Goto, Labels
  <2>6. CASE Detect(e)
    <3>1. [call[e] EXCEPT !.reported = Present(vfs[Vfs(e)]) \ call[e].listed] \in CallRows
      BY <2>1 DEF CallRows, Present
    <3>2. call' \in [Execs -> CallRows]
      BY <2>6, <3>1 DEF Detect, TypeOK
    <3> QED
      BY <2>6, <3>2, LabelsTyped DEF Detect, ControlTyped, TypeOK, Goto
  <2> QED
    BY <2>2, <2>3, <2>4, <2>5, <2>6
<1> QED
  BY <1>1 DEF ControlTyped, TypeOK, Load, CheckQuota, List, Fetch, Detect, stored, workers

LEMMA OthersTyped ==
  ASSUME TypeOK, NEW e \in Execs, Persist(e) \/ Tool(e)
  PROVE  TypeOK'
<1>1. CASE Persist(e)
  <2>1. call[e].fresh \in SUBSET Execs
    BY Fields
  <2> QED
    BY <1>1, <2>1 DEF Persist, TypeOK, Goto, Labels, workers
<1>2. CASE Tool(e)
  <2>1. PICK did \in Programs[e], p \in Paths :
          /\ vfs' = [vfs EXCEPT ![Vfs(e)][p] = IF did[p] = "removed" THEN None ELSE e]
          /\ past' = Stir(e, p)
    BY <1>2 DEF Tool
  <2>2. vfs' \in [VfsIds -> FileMaps]
    BY <2>1, Fields, VfsTyped DEF Contents
  <2>3. past' \in [Execs -> PastRows]
    BY <2>1, StirTyped
  <2> QED
    BY <1>2, <2>2, <2>3 DEF Tool, TypeOK, Goto, Labels, workers
<1> QED
  BY <1>1, <1>2

LEMMA ReplaceTyped ==
  ASSUME TypeOK, NEW w \in Workers, Replace(w)
  PROVE  TypeOK'
BY EmptyTyped DEF TypeOK, Replace, stored

LEMMA InitTyped ==
  ASSUME Init
  PROVE  TypeOK
<1>1. vfs \in [VfsIds -> FileMaps]
  BY DEF Init, FileMaps, Contents
<1>2. pc \in [Execs -> Labels]
  BY EntryTyped DEF Init, Labels
<1> QED
  BY <1>1, <1>2, EmptyTyped, NothingTyped DEF Init, TypeOK

\* Files are contents, calls and workers have the shape they should have, whatever
\* was left on a worker and whoever runs there next.
THEOREM TypeCorrect == Spec => []TypeOK
<1>1. Init => TypeOK
  BY InitTyped
<1>2. TypeOK /\ [Next]_vars => TypeOK'
  <2> SUFFICES ASSUME TypeOK, [Next]_vars PROVE TypeOK'
    OBVIOUS
  <2>1. CASE UNCHANGED vars
    BY <2>1 DEF vars, TypeOK
  <2>2. ASSUME NEW e \in Execs,
               \/ Load(e) \/ CheckQuota(e) \/ List(e) \/ Fetch(e)
               \/ RunShell(e) \/ \E w \in Workers : Run(e, w)
               \/ Save(e) \/ Detect(e) \/ Delete(e) \/ Persist(e)
               \/ Return(e) \/ Fail(e) \/ Tool(e)
        PROVE  TypeOK'
    BY <2>2, RunTyped, RunShellTyped, SaveTyped, DeleteTyped, EndsTyped, QueriesTyped,
       OthersTyped
  <2>3. ASSUME NEW w \in Workers, Replace(w) PROVE TypeOK'
    BY <2>3, ReplaceTyped
  <2> QED
    BY <2>1, <2>2, <2>3 DEF Next
<1> QED
  BY <1>1, <1>2, PTL DEF Spec

(***************************************************************************)
(* What an execution holds between its statements is its own.              *)
(***************************************************************************)
\* Before there is a result, nothing is to be saved.
NothingYet(e) ==
  pc[e] \in Before \cup {"fetch", "run"} =>
    call[e].created = {} /\ call[e].doomed = {} /\ call[e].fresh = {}

CreatedOwn(e) ==
  \A file \in call[e].created :
    file[1] \in Tracked => file[2] = e /\ Wrote(e, file[1])

DoomedOwn(e) ==
  \A p \in call[e].doomed :
    /\ p \in call[e].listed
    /\ p \in Tracked => past[e].did[p] = "removed" \/ call[e].sent[p] = None

\* What is to be saved was there when the code started, or its code defined it: that
\* was what had been loaded, unless clearing or restoring failed.
FreshOwn(e) ==
  /\ call[e].fresh # {} => \/ call[e].fresh = call[e].loaded \cup {e}
                           \/ call[e].fresh \cap Sticky # {}
                           \/ call[e].loaded # {} /\ ~Unpickles
  /\ pc[e] = "persist" => call[e].fresh # {}

Own(e) == NothingYet(e) /\ CreatedOwn(e) /\ DoomedOwn(e) /\ FreshOwn(e)

SyncInv == TypeOK /\ \A e \in Execs : Own(e)

\* An execution depends on its own variables only.
Same(f) == pc'[f] = pc[f] /\ call'[f] = call[f] /\ past'[f].did = past[f].did

LEMMA SameOwn ==
  ASSUME NEW f \in Execs, Own(f), Same(f)
  PROVE  Own(f)'
BY DEF Same, Own, NothingYet, CreatedOwn, DoomedOwn, FreshOwn, Wrote

LEMMA StirSame ==
  ASSUME TypeOK, NEW e \in Execs, NEW p \in Paths, past' = Stir(e, p), NEW f \in Execs
  PROVE  past'[f].did = past[f].did
<1>1. past[f] \in PastRows
  BY DEF TypeOK
<1>2. past'[f] = [past[f] EXCEPT !.stirred = @ \cup {p}] \/ past'[f] = past[f]
  BY DEF Stir
<1> QED
  BY <1>1, <1>2 DEF PastRows

LEMMA EndOwn ==
  ASSUME SyncInv, NEW e \in Execs, End(e), NEW f \in Execs
  PROVE  Own(f)'
<1> TypeOK /\ Own(f)
  BY DEF SyncInv
<1>1. CASE f = e
  <2>1. pc'[e] = "done" /\ call'[e] = NoCall
    BY DEF End, Goto, TypeOK
  <2> QED
    BY <1>1, <2>1 DEF NoCall, Own, NothingYet, CreatedOwn, DoomedOwn, FreshOwn, Before
<1>2. CASE f # e
  <2>1. Same(f)
    BY <1>2 DEF Same, End, Goto, TypeOK
  <2> QED
    BY <2>1, SameOwn
<1> QED
  BY <1>1, <1>2

LEMMA ReceivedOthers ==
  ASSUME TypeOK, NEW e \in Execs, NEW found, NEW did, NEW final, NEW created, NEW doomed,
         NEW fresh, Received(e, found, did, final, created, doomed, fresh),
         NEW f \in Execs, f # e
  PROVE  Same(f)
BY DEF Same, Received, Goto, TypeOK

LEMMA ReceivedSelf ==
  ASSUME TypeOK, NEW e \in Execs, NEW found, NEW did, NEW final, NEW created, NEW doomed,
         NEW fresh, Received(e, found, did, final, created, doomed, fresh)
  PROVE  /\ pc'[e] \in {"detect", "save"}
         /\ call'[e].created = {<<p, final[p]>> : p \in created}
         /\ call'[e].doomed = doomed
         /\ call'[e].fresh = fresh
         /\ call'[e].loaded = call[e].loaded
         /\ call'[e].listed = call[e].listed
         /\ call'[e].sent = call[e].sent
         /\ past'[e].did = did
<1>1. call[e] \in CallRows /\ past[e] \in PastRows
  BY DEF TypeOK
<1>2. pc'[e] \in {"detect", "save"}
  BY DEF Received, Goto, TypeOK
<1>3. past'[e].did = did
  BY <1>1 DEF Received, TypeOK, PastRows
<1>4. call \in [Execs -> CallRows]
  BY DEF TypeOK
<1> DEFINE files == {<<p, final[p]>> : p \in created}
<1>5. call' = [call EXCEPT ![e].created = files, ![e].doomed = doomed, ![e].fresh = fresh]
  BY DEF Received
<1> HIDE DEF files
<1>6. /\ call'[e].created = files
      /\ call'[e].doomed = doomed
      /\ call'[e].fresh = fresh
      /\ call'[e].loaded = call[e].loaded
      /\ call'[e].listed = call[e].listed
      /\ call'[e].sent = call[e].sent
  BY <1>1, <1>4, <1>5 DEF CallRows
<1> QED
  BY <1>2, <1>3, <1>6 DEF files

\* The variables the code of a stateful execution starts with.
LEMMA StartKnown ==
  ASSUME TypeOK, NEW e \in Execs, Kind[e] = "stateful", NEW w \in Workers,
         NEW start \in Variables(e, w)
  PROVE  \/ start = call[e].loaded
         \/ start \cap Sticky # {}
         \/ call[e].loaded # {} /\ ~Unpickles
<1>1. \A left \in Uncleared(w) : left = {} \/ left \cap Sticky # {}
  BY DEF Uncleared
<1>2. CASE call[e].loaded = {}
  BY <1>1, <1>2 DEF Variables
<1>3. CASE call[e].loaded # {}
  <2>1. \/ \E left \in Uncleared(w) : start = call[e].loaded \cup left
        \/ ~Unpickles
        \/ start \cap Sticky # {}
    BY <1>3 DEF Variables
  <2> QED
    BY <1>1, <1>3, <2>1
<1> QED
  BY <1>2, <1>3

LEMMA RunOwn ==
  ASSUME SyncInv, NEW e \in Execs, NEW w \in Workers, Run(e, w), NEW f \in Execs
  PROVE  Own(f)'
<1> TypeOK /\ Own(f)
  BY DEF SyncInv
<1>1. PICK did \in Programs[e], start \in Variables(e, w) :
        LET found == Mounted(call[e].sent, fs[w])
            final == After(e, found, did) IN
        \/ \E fresh \in IF Kind[e] = "stateful" THEN {{}, start \cup {e}} ELSE {{}} :
             Received(e, found, did, final, Noticed(found, did, final), Doomed(e, final),
                      fresh)
        \/ End(e)
        \/ UNCHANGED <<pc, call, past>>
  BY DEF Run
<1> DEFINE found == Mounted(call[e].sent, fs[w])
           final == After(e, found, did)
           doomed == Doomed(e, final)
<1>2. CASE End(e)
  BY <1>2, EndOwn
<1>3. CASE UNCHANGED <<pc, call, past>>
  BY <1>3, SameOwn DEF Same
<1>4. ASSUME NEW fresh \in IF Kind[e] = "stateful" THEN {{}, start \cup {e}} ELSE {{}},
             Received(e, found, did, final, Noticed(found, did, final), doomed, fresh)
      PROVE  Own(f)'
  <2>1. CASE f # e
    <3>1. Same(f)
      BY <1>4, <2>1, ReceivedOthers
    <3> QED
      BY <3>1, SameOwn
  <2>2. CASE f = e
    <3>1. found \in FileMaps /\ did \in [Paths -> Effects] /\ call[e].sent \in FileMaps
          /\ fs[w] \in FileMaps
      BY Fields, MountedTyped DEF TypeOK
    <3>2. \A p \in Noticed(found, did, final) \cap Tracked :
            did[p] \in {"wrote", "slipped"} /\ final[p] = e
      BY <3>1, NoticedWrites
    <3>3. \A p \in doomed :
            /\ p \in call[e].listed
            /\ p \in Tracked => did[p] = "removed" \/ call[e].sent[p] = None
      BY <3>1, MissingRemoved DEF Doomed
    <3>4. fresh # {} => \/ fresh = call[e].loaded \cup {e}
                        \/ fresh \cap Sticky # {}
                        \/ call[e].loaded # {} /\ ~Unpickles
      BY StartKnown
    <3> HIDE DEF found, final, doomed
    <3>5. /\ pc'[e] \in {"detect", "save"}
          /\ call'[e].created = {<<p, final[p]>> : p \in Noticed(found, did, final)}
          /\ call'[e].doomed = doomed
          /\ call'[e].fresh = fresh
          /\ call'[e].loaded = call[e].loaded
          /\ call'[e].listed = call[e].listed
          /\ call'[e].sent = call[e].sent
          /\ past'[e].did = did
      BY <1>4, ReceivedSelf
    <3>6. NothingYet(e)'
      BY <3>5 DEF NothingYet, Before
    <3>7. CreatedOwn(e)'
      BY <3>2, <3>5 DEF CreatedOwn, Wrote
    <3>8. DoomedOwn(e)'
      BY <3>3, <3>5 DEF DoomedOwn
    <3>9. FreshOwn(e)'
      BY <3>4, <3>5 DEF FreshOwn
    <3> QED
      BY <2>2, <3>6, <3>7, <3>8, <3>9 DEF Own
  <2> QED
    BY <2>1, <2>2
<1> QED
  BY <1>1, <1>2, <1>3, <1>4

LEMMA RunShellOwn ==
  ASSUME SyncInv, NEW e \in Execs, RunShell(e), NEW f \in Execs
  PROVE  Own(f)'
<1> TypeOK /\ Own(f)
  BY DEF SyncInv
<1>1. CASE End(e)
  BY <1>1, EndOwn
<1>2. ASSUME NEW did \in Programs[e],
             Received(e, call[e].sent, did, After(e, call[e].sent, did),
                      {p \in Paths : did[p] \in {"wrote", "slipped"}}, {}, {})
      PROVE  Own(f)'
  <2>1. CASE f # e
    <3>1. Same(f)
      BY <1>2, <2>1, ReceivedOthers
    <3> QED
      BY <3>1, SameOwn
  <2>2. CASE f = e
    <3> DEFINE final == After(e, call[e].sent, did)
               created == {p \in Paths : did[p] \in {"wrote", "slipped"}}
    <3>1. \A p \in created : did[p] \in {"wrote", "slipped"} /\ final[p] = e
      BY Fields, AfterAt
    <3> HIDE DEF final, created
    <3>2. /\ pc'[e] \in {"detect", "save"}
          /\ call'[e].created = {<<p, final[p]>> : p \in created}
          /\ call'[e].doomed = {}
          /\ call'[e].fresh = {}
          /\ past'[e].did = did
      BY <1>2, ReceivedSelf DEF final, created
    <3> QED
      BY <2>2, <3>1, <3>2 DEF Own, NothingYet, CreatedOwn, DoomedOwn, FreshOwn, Wrote, Before
  <2> QED
    BY <2>1, <2>2
<1> QED
  BY <1>1, <1>2 DEF RunShell

LEMMA SaveOwn ==
  ASSUME SyncInv, NEW e \in Execs, Save(e), NEW f \in Execs
  PROVE  Own(f)'
<1> TypeOK /\ Own(f) /\ Own(e)
  BY DEF SyncInv
<1>1. PICK file \in call[e].created :
        LET left == call[e].created \ {file} IN
        /\ call' = [call EXCEPT ![e].created = left, ![e].reported = @ \cup {file[1]}]
        /\ past' = Stir(e, file[1])
        /\ Goto(e, IF left # {} THEN "save" ELSE AfterReport(e))
  BY DEF Save
<1>2. \A x \in Execs : past'[x].did = past[x].did
  <2>1. file[1] \in Paths
    BY Fields
  <2> QED
    BY <1>1, <2>1, StirSame
<1>3. CASE f # e
  <2>1. Same(f)
    BY <1>1, <1>2, <1>3 DEF Same, Goto, TypeOK
  <2> QED
    BY <2>1, SameOwn
<1>4. CASE f = e
  <2>1. /\ call'[e].created = call[e].created \ {file}
        /\ call'[e].doomed = call[e].doomed
        /\ call'[e].fresh = call[e].fresh
        /\ call'[e].loaded = call[e].loaded
        /\ call'[e].listed = call[e].listed
        /\ call'[e].sent = call[e].sent
    <3>1. call[e] \in CallRows /\ call \in [Execs -> CallRows]
      BY DEF TypeOK
    <3> QED
      BY <1>1, <3>1 DEF CallRows
  <2>2. /\ pc'[e] \in {"save", "delete", "persist", "return"}
        /\ pc'[e] = "persist" => call[e].fresh # {}
    BY <1>1 DEF Goto, AfterReport, AfterFiles, TypeOK
  <2>3. NothingYet(e)'
    BY <2>2 DEF NothingYet, Before
  <2>4. CreatedOwn(e)'
    BY <1>2, <2>1 DEF CreatedOwn, Own, Wrote
  <2>5. DoomedOwn(e)'
    BY <1>2, <2>1 DEF DoomedOwn, Own
  <2>6. FreshOwn(e)'
    BY <2>1, <2>2 DEF FreshOwn, Own
  <2> QED
    BY <1>4, <2>3, <2>4, <2>5, <2>6 DEF Own
<1> QED
  BY <1>3, <1>4

LEMMA DeleteOwn ==
  ASSUME SyncInv, NEW e \in Execs, Delete(e), NEW f \in Execs
  PROVE  Own(f)'
<1> TypeOK /\ Own(f) /\ Own(e)
  BY DEF SyncInv
<1>1. PICK p \in call[e].doomed :
        LET left == call[e].doomed \ {p} IN
        /\ call' = [call EXCEPT ![e].doomed = left]
        /\ past' = Stir(e, p)
        /\ Goto(e, IF left # {} THEN "delete" ELSE AfterFiles(e))
  BY DEF Delete
<1>2. \A x \in Execs : past'[x].did = past[x].did
  <2>1. p \in Paths
    BY Fields
  <2> QED
    BY <1>1, <2>1, StirSame
<1>3. CASE f # e
  <2>1. Same(f)
    BY <1>1, <1>2, <1>3 DEF Same, Goto, TypeOK
  <2> QED
    BY <2>1, SameOwn
<1>4. CASE f = e
  <2>1. /\ call'[e].created = call[e].created
        /\ call'[e].doomed = call[e].doomed \ {p}
        /\ call'[e].fresh = call[e].fresh
        /\ call'[e].loaded = call[e].loaded
        /\ call'[e].listed = call[e].listed
        /\ call'[e].sent = call[e].sent
    <3>1. call[e] \in CallRows /\ call \in [Execs -> CallRows]
      BY DEF TypeOK
    <3> QED
      BY <1>1, <3>1 DEF CallRows
  <2>2. /\ pc'[e] \in {"delete", "persist", "return"}
        /\ pc'[e] = "persist" => call[e].fresh # {}
    BY <1>1 DEF Goto, AfterFiles, TypeOK
  <2>3. NothingYet(e)'
    BY <2>2 DEF NothingYet, Before
  <2>4. CreatedOwn(e)'
    BY <1>2, <2>1 DEF CreatedOwn, Own, Wrote
  <2>5. DoomedOwn(e)'
    BY <1>2, <2>1 DEF DoomedOwn, Own
  <2>6. FreshOwn(e)'
    BY <2>1, <2>2 DEF FreshOwn, Own
  <2> QED
    BY <1>4, <2>3, <2>4, <2>5, <2>6 DEF Own
<1> QED
  BY <1>3, <1>4

\* The queries before the code runs, when there is nothing to save.
LEMMA EarlyOwn ==
  ASSUME SyncInv, NEW e \in Execs, Load(e) \/ CheckQuota(e) \/ List(e) \/ Fetch(e),
         NEW f \in Execs
  PROVE  Own(f)'
<1> TypeOK /\ Own(f) /\ Own(e)
  BY DEF SyncInv
<1>1. CASE End(e)
  BY <1>1, EndOwn
<1>2. CASE ~End(e)
  <2>1. /\ pc[e] \in {"load", "check", "list", "fetch"}
        /\ pc'[e] \in {"check", "list", "fetch", "run"}
        /\ past' = past
    BY <1>2 DEF Load, CheckQuota, List, Fetch, Goto, TypeOK
  <2>2. CASE f # e
    <3>1. Same(f)
      BY <1>2, <2>1, <2>2 DEF Same, Load, CheckQuota, List, Fetch, Goto, TypeOK
    <3> QED
      BY <3>1, SameOwn
  <2>3. CASE f = e
    <3>1. call[e].created = {} /\ call[e].doomed = {} /\ call[e].fresh = {}
      BY <2>1 DEF Own, NothingYet, Before
    <3>2. call'[e].created = call[e].created /\ call'[e].doomed = call[e].doomed
          /\ call'[e].fresh = call[e].fresh
      <4>1. call[e] \in CallRows /\ call \in [Execs -> CallRows]
        BY DEF TypeOK
      <4> QED
        BY <1>2, <4>1 DEF Load, CheckQuota, List, Fetch, CallRows
    <3> QED
      BY <2>1, <2>3, <3>1, <3>2 DEF Own, NothingYet, CreatedOwn, DoomedOwn, FreshOwn
  <2> QED
    BY <2>2, <2>3
<1> QED
  BY <1>1, <1>2

LEMMA DetectOwn ==
  ASSUME SyncInv, NEW e \in Execs, Detect(e), NEW f \in Execs
  PROVE  Own(f)'
<1> TypeOK /\ Own(f) /\ Own(e)
  BY DEF SyncInv
<1>1. CASE f # e
  <2>1. Same(f)
    BY <1>1 DEF Same, Detect, Goto, TypeOK
  <2> QED
    BY <2>1, SameOwn
<1>2. CASE f = e
  <2>1. /\ pc'[e] \in {"delete", "persist", "return"}
        /\ pc'[e] = "persist" => call[e].fresh # {}
    BY DEF Detect, Goto, AfterReport, AfterFiles, TypeOK
  <2>2. /\ call'[e].created = call[e].created
        /\ call'[e].doomed = call[e].doomed
        /\ call'[e].fresh = call[e].fresh
        /\ call'[e].loaded = call[e].loaded
        /\ call'[e].listed = call[e].listed
        /\ call'[e].sent = call[e].sent
    <3>1. call[e] \in CallRows /\ call \in [Execs -> CallRows]
      BY DEF TypeOK
    <3> QED
      BY <3>1 DEF Detect, CallRows
  <2>3. past' = past
    BY DEF Detect
  <2> QED
    BY <1>2, <2>1, <2>2, <2>3
    DEF Own, NothingYet, CreatedOwn, DoomedOwn, FreshOwn, Wrote, Before
<1> QED
  BY <1>1, <1>2

LEMMA LateOwn ==
  ASSUME SyncInv, NEW e \in Execs, Persist(e) \/ Tool(e), NEW f \in Execs
  PROVE  Own(f)'
<1> TypeOK /\ Own(f) /\ Own(e)
  BY DEF SyncInv
<1>1. pc'[e] \in {"return", "done"} /\ call' = call
  BY DEF Persist, Tool, Goto, TypeOK
<1>2. past'[f].did = past[f].did
  <2>1. CASE Persist(e)
    BY <2>1 DEF Persist
  <2>2. CASE Tool(e)
    BY <2>2, StirSame DEF Tool
  <2> QED
    BY <2>1, <2>2
<1>3. CASE f # e
  <2>1. Same(f)
    BY <1>1, <1>2, <1>3 DEF Same, Persist, Tool, Goto, TypeOK
  <2> QED
    BY <2>1, SameOwn
<1>4. CASE f = e
  BY <1>1, <1>2, <1>4
  DEF Own, NothingYet, CreatedOwn, DoomedOwn, FreshOwn, Wrote, Before
<1> QED
  BY <1>3, <1>4

LEMMA SyncInvariant == Spec => []SyncInv
<1>1. Init => SyncInv
  <2> SUFFICES ASSUME Init, NEW e \in Execs PROVE Own(e)
    BY InitTyped DEF SyncInv
  <2>1. call[e] = NoCall /\ pc[e] \in Before
    BY EntryTyped DEF Init
  <2> QED
    BY <2>1 DEF NoCall, Own, NothingYet, CreatedOwn, DoomedOwn, FreshOwn, Before
<1>2. TypeOK /\ TypeOK' /\ SyncInv /\ [Next]_vars => SyncInv'
  <2> SUFFICES ASSUME TypeOK, SyncInv, [Next]_vars, NEW f \in Execs PROVE Own(f)'
    BY DEF SyncInv
  <2> Own(f)
    BY DEF SyncInv
  <2>1. CASE UNCHANGED vars
    BY <2>1, SameOwn DEF vars, Same
  <2>2. ASSUME NEW e \in Execs,
               \/ Load(e) \/ CheckQuota(e) \/ List(e) \/ Fetch(e)
               \/ RunShell(e) \/ \E w \in Workers : Run(e, w)
               \/ Save(e) \/ Detect(e) \/ Delete(e) \/ Persist(e)
               \/ Return(e) \/ Fail(e) \/ Tool(e)
        PROVE  Own(f)'
    <3>1. CASE Return(e) \/ Fail(e)
      BY <3>1, EndOwn DEF Return, Fail
    <3> QED
      BY <2>2, <3>1, EarlyOwn, RunOwn, RunShellOwn, SaveOwn, DetectOwn, DeleteOwn, LateOwn
  <2>3. ASSUME NEW w \in Workers, Replace(w) PROVE Own(f)'
    BY <2>3, SameOwn DEF Replace, Same
  <2> QED
    BY <2>1, <2>2, <2>3 DEF Next
<1> QED
  BY <1>1, <1>2, TypeCorrect, PTL DEF Spec

(***************************************************************************)
(* Who changes what is stored.                                             *)
(***************************************************************************)
LEMMA WhoStores ==
  ASSUME Next, vfs' # vfs \/ bytes' # bytes
  PROVE  \E e \in Execs : Save(e) \/ Delete(e) \/ Tool(e) \/ Persist(e)
<1>1. PICK e \in Execs : Save(e) \/ Delete(e) \/ Persist(e) \/ Tool(e)
  BY DEF Next, Load, CheckQuota, List, Fetch, RunShell, Run, Detect, Return, Fail, Replace,
         stored
<1> QED
  BY <1>1

\* An execution changes tracked files of its own workspace only, and only those its
\* code wrote or removed, or that vanished between its two queries.
THEOREM ChangesOwn == Spec => OwnChanges
<1>1. SyncInv /\ [Next]_vars =>
        [\A v \in VfsIds, p \in Tracked : vfs'[v][p] # vfs[v][p] =>
           \E e \in Execs :
             /\ Vfs(e) = v
             /\ \/ pc[e] = "api" /\ pc'[e] = "done"
                \/ pc[e] = "save" /\ vfs'[v][p] = e /\ Wrote(e, p)
                \/ /\ pc[e] = "delete" /\ vfs'[v][p] = None /\ p \in call[e].listed
                   /\ past[e].did[p] = "removed" \/ call[e].sent[p] = None]_vars
  <2> SUFFICES ASSUME SyncInv, Next, NEW v \in VfsIds, NEW p \in Tracked,
                      vfs'[v][p] # vfs[v][p]
               PROVE  \E e \in Execs :
             /\ Vfs(e) = v
             /\ \/ pc[e] = "api" /\ pc'[e] = "done"
                \/ pc[e] = "save" /\ vfs'[v][p] = e /\ Wrote(e, p)
                \/ /\ pc[e] = "delete" /\ vfs'[v][p] = None /\ p \in call[e].listed
                   /\ past[e].did[p] = "removed" \/ call[e].sent[p] = None
    OBVIOUS
  <2> TypeOK /\ p \in Paths
    BY DEF SyncInv
  <2>1. PICK e \in Execs : Save(e) \/ Delete(e) \/ Tool(e) \/ Persist(e)
    BY WhoStores
  <2>2. Own(e) /\ vfs[Vfs(e)] \in FileMaps
    BY Fields DEF SyncInv
  <2>3. CASE Save(e)
    <3>1. PICK file \in call[e].created : vfs' = [vfs EXCEPT ![Vfs(e)][file[1]] = file[2]]
      BY <2>3 DEF Save
    <3>2. Vfs(e) = v /\ file[1] = p /\ vfs'[v][p] = file[2]
      BY <2>2, <3>1 DEF TypeOK, FileMaps
    <3> QED
      BY <2>2, <2>3, <3>2 DEF Save, Own, CreatedOwn
  <2>4. CASE Delete(e)
    <3>1. PICK q \in call[e].doomed : vfs' = [vfs EXCEPT ![Vfs(e)][q] = None]
      BY <2>4 DEF Delete
    <3>2. Vfs(e) = v /\ q = p /\ vfs'[v][p] = None
      BY <2>2, <3>1 DEF TypeOK, FileMaps
    <3> QED
      BY <2>2, <2>4, <3>1, <3>2 DEF Delete, Own, DoomedOwn
  <2>5. CASE Tool(e)
    <3>1. pc[e] = "api" /\ pc'[e] = "done"
      BY <2>5 DEF Tool, Goto, TypeOK
    <3>2. PICK q \in Paths, c \in {e, None} : vfs' = [vfs EXCEPT ![Vfs(e)][q] = c]
      BY <2>5 DEF Tool
    <3>3. Vfs(e) = v
      BY <2>2, <3>2 DEF TypeOK, FileMaps
    <3> QED
      BY <3>1, <3>3
  <2>6. CASE Persist(e)
    BY <2>6 DEF Persist
  <2> QED
    BY <2>1, <2>3, <2>4, <2>5, <2>6
<1> QED
  BY <1>1, SyncInvariant, PTL DEF Spec, OwnChanges

\* What is stored for a thread is what one of its executions loaded and what that
\* execution defined, nothing of another thread that used the worker before, unless a
\* name stood in the way of clearing or what was loaded cannot be restored.
THEOREM SessionsExact == Spec => SessionExact
<1>1. SyncInv /\ [Next]_vars =>
        [\A t \in Threads : bytes'[t] # bytes[t] =>
           \E e \in Execs :
             /\ Thread[e] = t /\ pc[e] = "persist"
             /\ \/ bytes'[t] = call[e].loaded \cup {e}
                \/ bytes'[t] \cap Sticky # {}
                \/ call[e].loaded # {} /\ ~Unpickles]_vars
  <2> SUFFICES ASSUME SyncInv, Next, NEW t \in Threads, bytes'[t] # bytes[t]
               PROVE  \E e \in Execs :
                        /\ Thread[e] = t /\ pc[e] = "persist"
                        /\ \/ bytes'[t] = call[e].loaded \cup {e}
                           \/ bytes'[t] \cap Sticky # {}
                           \/ call[e].loaded # {} /\ ~Unpickles
    OBVIOUS
  <2>1. PICK e \in Execs : Save(e) \/ Delete(e) \/ Tool(e) \/ Persist(e)
    BY WhoStores
  <2>2. Persist(e)
    BY <2>1 DEF Save, Delete, Tool
  <2>3. bytes' = [bytes EXCEPT ![Thread[e]] = call[e].fresh]
    BY <2>2 DEF Persist
  <2>4. Thread[e] = t /\ bytes'[t] = call[e].fresh
    BY <2>3 DEF SyncInv, TypeOK
  <2>5. \/ call[e].fresh = call[e].loaded \cup {e}
        \/ call[e].fresh \cap Sticky # {}
        \/ call[e].loaded # {} /\ ~Unpickles
    BY <2>2 DEF SyncInv, Own, FreshOwn, Persist
  <2>6. pc[e] = "persist"
    BY <2>2 DEF Persist
  <2> QED
    BY <2>4, <2>5, <2>6
<1> QED
  BY <1>1, SyncInvariant, PTL DEF Spec, SessionExact
(***************************************************************************)
(* What happens to a file between the moment it is listed and the return.  *)
(*                                                                         *)
(* A path is quiet for an execution while nobody else has changed it since *)
(* it was listed.  At a quiet path the two queries of the execution agree  *)
(* with each other and with the workspace until the code has run; then the *)
(* workspace has what was sent as long as the path waits to be saved or    *)
(* deleted, and what it should have in the end otherwise.  The invariant   *)
(* was found from Delivered backwards: Owed is Delivered for the steps     *)
(* before the return, Matches what makes it true when the code has run.    *)
(***************************************************************************)
Late == {"save", "detect", "delete", "persist", "return"}
Quiet(f) == Tracked \ past[f].stirred
ToSave(f) == {file[1] : file \in call[f].created}

Matches(f) ==
  /\ pc[f] = "fetch" =>
       \A p \in Quiet(f) : p \in call[f].listed <=> vfs[Vfs(f)][p] # None
  /\ pc[f] = "run" => \A p \in Quiet(f) : call[f].sent[p] = vfs[Vfs(f)][p]
  /\ pc[f] \in Late \cup {"run"} =>
       \A p \in Quiet(f) : p \in call[f].listed <=> call[f].sent[p] # None

Owed(f) ==
  pc[f] \in Late =>
    \A p \in Quiet(f) :
      vfs[Vfs(f)][p] = IF p \in ToSave(f) \cup call[f].doomed
                       THEN call[f].sent[p] ELSE Intended(f, p)

Due(f) ==
  /\ \A file \in call[f].created :
       file[1] \in Tracked => file[2] = f /\ Intended(f, file[1]) = f
  /\ \A p \in call[f].doomed \cap Quiet(f) : Intended(f, p) = None

Spent(f) ==
  /\ pc[f] \in Late \ {"save"} => call[f].created = {}
  /\ pc[f] \in {"persist", "return"} => call[f].doomed = {}

ReportOwn(f) ==
  /\ pc[f] \in Before \cup {"fetch", "run"} => call[f].reported = {}
  /\ \A p \in call[f].reported \cap Tracked : Wrote(f, p) \/ p \in past[f].stirred

Kept(f) == Matches(f) /\ Owed(f) /\ Due(f) /\ Spent(f) /\ ReportOwn(f)
KeptInv == SyncInv /\ \A f \in Execs : Kept(f)

\* A step of somebody else: what is quiet afterwards was so before and is as it was.
Apart(f) ==
  /\ Same(f)
  /\ past'[f].found = past[f].found
  /\ past[f].stirred \subseteq past'[f].stirred
  /\ pc[f] \notin Before \cup {"done"} =>
       \A p \in Quiet(f)' : vfs'[Vfs(f)][p] = vfs[Vfs(f)][p]

LEMMA ApartKept ==
  ASSUME NEW f \in Execs, Kept(f), Apart(f)
  PROVE  Kept(f)'
<1>1. pc'[f] = pc[f] /\ call'[f] = call[f] /\ Quiet(f)' \subseteq Quiet(f)
  BY DEF Apart, Same, Quiet
<1>2. \A p : Wrote(f, p)' = Wrote(f, p) /\ Intended(f, p)' = Intended(f, p)
  BY <1>1 DEF Apart, Same, Wrote, Intended, Unnoticed
<1>3. ToSave(f)' = ToSave(f)
  BY <1>1 DEF ToSave
<1>4. pc[f] \in Late \cup {"fetch", "run"} =>
        \A p \in Quiet(f)' : vfs'[Vfs(f)'][p] = vfs[Vfs(f)][p]
  BY DEF Apart, Late, Before, Vfs
<1>5. Matches(f)'
  BY <1>1, <1>4 DEF Kept, Matches
<1>6. Owed(f)'
  BY <1>1, <1>2, <1>3, <1>4 DEF Kept, Owed
<1>7. Due(f)'
  BY <1>1, <1>2 DEF Kept, Due
<1>8. Spent(f)'
  BY <1>1 DEF Kept, Spent
<1>9. ReportOwn(f)'
  BY <1>1, <1>2 DEF Kept, ReportOwn, Apart
<1> QED
  BY <1>5, <1>6, <1>7, <1>8, <1>9 DEF Kept

LEMMA StillApart ==
  ASSUME NEW f \in Execs, pc'[f] = pc[f], call'[f] = call[f], past'[f] = past[f], vfs' = vfs
  PROVE  Apart(f)
BY DEF Apart, Same

LEMMA StirApart ==
  ASSUME TypeOK, NEW e \in Execs, NEW f \in Execs \ {e}, NEW p \in Paths, NEW c,
         vfs' = [vfs EXCEPT ![Vfs(e)][p] = c], past' = Stir(e, p),
         pc'[f] = pc[f], call'[f] = call[f]
  PROVE  Apart(f)
<1>1. past[f] \in PastRows /\ vfs[Vfs(e)] \in FileMaps /\ vfs[Vfs(f)] \in FileMaps
      /\ Vfs(e) \in VfsIds /\ Vfs(f) \in VfsIds
  BY Fields DEF TypeOK
<1>2. past'[f] = IF Vfs(f) = Vfs(e) /\ pc[f] \notin Before \cup {"done"}
                 THEN [past[f] EXCEPT !.stirred = @ \cup {p}] ELSE past[f]
  BY DEF Stir
<1>3. /\ past'[f].did = past[f].did
      /\ past'[f].found = past[f].found
      /\ past[f].stirred \subseteq past'[f].stirred
      /\ Vfs(f) = Vfs(e) /\ pc[f] \notin Before \cup {"done"} => p \in past'[f].stirred
  BY <1>1, <1>2 DEF PastRows
<1>4. ASSUME pc[f] \notin Before \cup {"done"}, NEW q \in Quiet(f)'
      PROVE  vfs'[Vfs(f)][q] = vfs[Vfs(f)][q]
  <2>1. q \in Paths /\ q \notin past'[f].stirred
    BY DEF Quiet
  <2>2. CASE Vfs(f) = Vfs(e)
    <3>1. q # p
      BY <1>3, <1>4, <2>1, <2>2
    <3> QED
      BY <1>1, <2>1, <3>1 DEF TypeOK, FileMaps
  <2>3. CASE Vfs(f) # Vfs(e)
    BY <1>1, <2>3 DEF TypeOK
  <2> QED
    BY <2>2, <2>3
<1> QED
  BY <1>3, <1>4 DEF Apart, Same

\* Whatever an execution does, the others are where they were.
LEMMA OthersApart ==
  ASSUME TypeOK, NEW e \in Execs, NEW f \in Execs \ {e},
         \/ Load(e) \/ CheckQuota(e) \/ List(e) \/ Fetch(e)
         \/ RunShell(e) \/ \E w \in Workers : Run(e, w)
         \/ Save(e) \/ Detect(e) \/ Delete(e) \/ Persist(e)
         \/ Return(e) \/ Fail(e) \/ Tool(e)
  PROVE  Apart(f)
<1>1. CASE End(e) /\ vfs' = vfs
  BY <1>1, StillApart DEF End, Goto, TypeOK
<1>2. CASE Return(e) \/ Fail(e)
  BY <1>1, <1>2 DEF Return, Fail, stored
<1>3. CASE Load(e) \/ CheckQuota(e) \/ List(e) \/ Fetch(e) \/ Detect(e) \/ Persist(e)
  <2>1. vfs' = vfs
    BY <1>3 DEF Load, CheckQuota, List, Fetch, Detect, Persist, stored
  <2>2. \/ End(e)
        \/ pc'[f] = pc[f] /\ call'[f] = call[f] /\ past'[f] = past[f]
    BY <1>3 DEF Load, CheckQuota, List, Fetch, Detect, Persist, Goto, TypeOK
  <2> QED
    BY <1>1, <2>1, <2>2, StillApart
<1>4. CASE RunShell(e) \/ \E w \in Workers : Run(e, w)
  <2>1. vfs' = vfs
    BY <1>4 DEF RunShell, Run, stored
  <2>2. \/ End(e)
        \/ UNCHANGED <<pc, call, past>>
        \/ \E found, did, final, created, doomed, fresh :
             Received(e, found, did, final, created, doomed, fresh)
    BY <1>4 DEF RunShell, Run
  <2>3. ASSUME NEW found, NEW did, NEW final, NEW created, NEW doomed, NEW fresh,
               Received(e, found, did, final, created, doomed, fresh)
        PROVE  pc'[f] = pc[f] /\ call'[f] = call[f] /\ past'[f] = past[f]
    BY <2>3 DEF Received, Goto, TypeOK
  <2> QED
    BY <1>1, <2>1, <2>2, <2>3, StillApart
<1>5. CASE Save(e)
  <2>1. PICK file \in call[e].created :
          /\ vfs' = [vfs EXCEPT ![Vfs(e)][file[1]] = file[2]]
          /\ past' = Stir(e, file[1])
    BY <1>5 DEF Save
  <2>2. file[1] \in Paths
    BY Fields
  <2>3. pc'[f] = pc[f] /\ call'[f] = call[f]
    BY <1>5 DEF Save, Goto, TypeOK
  <2> QED
    BY <2>1, <2>2, <2>3, StirApart
<1>6. CASE Delete(e)
  <2>1. PICK p \in call[e].doomed :
          vfs' = [vfs EXCEPT ![Vfs(e)][p] = None] /\ past' = Stir(e, p)
    BY <1>6 DEF Delete
  <2>2. p \in Paths
    BY Fields
  <2>3. pc'[f] = pc[f] /\ call'[f] = call[f]
    BY <1>6 DEF Delete, Goto, TypeOK
  <2> QED
    BY <2>1, <2>2, <2>3, StirApart
<1>7. CASE Tool(e)
  <2>1. PICK did \in Programs[e], p \in Paths :
          /\ vfs' = [vfs EXCEPT ![Vfs(e)][p] = IF did[p] = "removed" THEN None ELSE e]
          /\ past' = Stir(e, p)
    BY <1>7 DEF Tool
  <2>2. pc'[f] = pc[f] /\ call'[f] = call[f]
    BY <1>7 DEF Tool, Goto, TypeOK
  <2> QED
    BY <2>1, <2>2, StirApart
<1> QED
  BY <1>2, <1>3, <1>4, <1>5, <1>6, <1>7

\* An execution that is over, or has no result yet, owes nothing.
LEMMA NoneKept ==
  ASSUME NEW f \in Execs, pc'[f] \in Before \cup {"done"},
         call'[f].created = {}, call'[f].doomed = {}, call'[f].reported = {}
  PROVE  Kept(f)'
BY DEF Kept, Matches, Owed, Due, Spent, ReportOwn, Late, Before

LEMMA EndKept ==
  ASSUME TypeOK, NEW e \in Execs, End(e)
  PROVE  Kept(e)'
<1>1. pc'[e] = "done" /\ call'[e] = NoCall
  BY DEF End, Goto, TypeOK
<1> QED
  BY <1>1, NoneKept DEF NoCall

\* The two queries: what is quiet is in both or in none.
LEMMA EarlyKept ==
  ASSUME SyncInv, NEW e \in Execs, Kept(e),
         Load(e) \/ CheckQuota(e) \/ List(e) \/ Fetch(e)
  PROVE  Kept(e)'
<1> TypeOK /\ Own(e)
  BY DEF SyncInv
<1>1. CASE End(e)
  BY <1>1, EndKept
<1>2. CASE ~End(e)
  <2>1. pc[e] \in {"load", "check", "list", "fetch"} /\ past' = past /\ vfs' = vfs
    BY <1>2 DEF Load, CheckQuota, List, Fetch, stored
  <2>2. call[e].created = {} /\ call[e].doomed = {} /\ call[e].reported = {}
    BY <2>1 DEF Own, NothingYet, Kept, ReportOwn, Before
  <2>3. call[e] \in CallRows /\ call \in [Execs -> CallRows]
    BY DEF TypeOK
  <2>4. call'[e].created = {} /\ call'[e].doomed = {} /\ call'[e].reported = {}
    <3>1. /\ call'[e].created = call[e].created
          /\ call'[e].doomed = call[e].doomed
          /\ call'[e].reported = call[e].reported
      BY <1>2, <2>3 DEF Load, CheckQuota, List, Fetch, CallRows
    <3> QED
      BY <2>2, <3>1
  <2>5. CASE Load(e) \/ CheckQuota(e)
    <3>1. pc'[e] \in Before
      BY <1>2, <2>5 DEF Load, CheckQuota, Goto, TypeOK, Before
    <3> QED
      BY <2>4, <3>1, NoneKept
  <2>6. CASE List(e)
    <3>1. pc'[e] = "fetch" /\ call'[e].listed = Present(vfs[Vfs(e)])
      BY <2>3, <2>6 DEF List, Goto, TypeOK, CallRows
    <3>2. \A p \in Tracked : p \in call'[e].listed <=> vfs'[Vfs(e)][p] # None
      BY <2>1, <3>1 DEF Present
    <3> QED
      BY <2>4, <3>1, <3>2
      DEF Kept, Matches, Owed, Due, Spent, ReportOwn, Late, Before, Quiet, Vfs
  <2>7. CASE Fetch(e)
    <3>1. /\ pc[e] = "fetch" /\ pc'[e] = "run"
          /\ call'[e].sent = vfs[Vfs(e)] /\ call'[e].listed = call[e].listed
      BY <2>3, <2>7 DEF Fetch, Goto, TypeOK, CallRows
    <3>2. \A p \in Quiet(e) : p \in call[e].listed <=> vfs[Vfs(e)][p] # None
      BY <3>1 DEF Kept, Matches
    <3>3. Quiet(e)' = Quiet(e) /\ Vfs(e)' = Vfs(e)
      BY <2>1 DEF Quiet, Vfs
    <3>4. Matches(e)'
      BY <2>1, <3>1, <3>2, <3>3 DEF Matches
    <3> QED
      BY <2>4, <3>1, <3>4 DEF Kept, Owed, Due, Spent, ReportOwn, Late
  <2> QED
    BY <2>5, <2>6, <2>7
<1> QED
  BY <1>1, <1>2

\* All that Received assigns.
LEMMA ReceivedRest ==
  ASSUME TypeOK, NEW e \in Execs, NEW found, NEW did, NEW final, NEW created, NEW doomed,
         NEW fresh, Received(e, found, did, final, created, doomed, fresh)
  PROVE  /\ pc'[e] = IF created = {} THEN "detect" ELSE "save"
         /\ call'[e].reported = call[e].reported
         /\ past'[e].found = found
         /\ past'[e].stirred = past[e].stirred
<1>1. past[e] \in PastRows /\ call[e] \in CallRows /\ call \in [Execs -> CallRows]
  BY DEF TypeOK
<1> DEFINE files == {<<p, final[p]>> : p \in created}
<1>2. call' = [call EXCEPT ![e].created = files, ![e].doomed = doomed, ![e].fresh = fresh]
  BY DEF Received
<1> HIDE DEF files
<1>3. call'[e].reported = call[e].reported
  BY <1>1, <1>2 DEF CallRows
<1>4. past'[e].found = found /\ past'[e].stirred = past[e].stirred
  BY <1>1 DEF Received, TypeOK, PastRows
<1> QED
  BY <1>3, <1>4 DEF Received, Goto, TypeOK

\* The host has a result: what is to be saved, what is to be deleted and what the code
\* left as it was sent are all there is.  The hypotheses are what collecting has to do.
LEMMA ReceivedKept ==
  ASSUME SyncInv, NEW e \in Execs, Kept(e), pc[e] = "run", vfs' = vfs,
         NEW found, NEW did, NEW final, NEW created \in SUBSET Paths,
         NEW doomed \in SUBSET Paths, NEW fresh,
         Received(e, found, did, final, created, doomed, fresh),
         \A p \in created \cap Tracked : final[p] = e /\ Intended(e, p)' = e,
         \A p \in doomed \cap Quiet(e) : Intended(e, p)' = None,
         \A p \in Quiet(e) :
            p \notin created \cup doomed => Intended(e, p)' = call[e].sent[p]
  PROVE  Kept(e)'
<1> TypeOK
  BY DEF SyncInv
<1>1. /\ call'[e].created = {<<p, final[p]>> : p \in created}
      /\ call'[e].doomed = doomed
      /\ call'[e].listed = call[e].listed
      /\ call'[e].sent = call[e].sent
      /\ call'[e].reported = call[e].reported
      /\ pc'[e] = IF created = {} THEN "detect" ELSE "save"
      /\ past'[e].stirred = past[e].stirred
  BY ReceivedSelf, ReceivedRest
<1>2. Quiet(e)' = Quiet(e) /\ Vfs(e)' = Vfs(e)
  BY <1>1 DEF Quiet, Vfs
<1>3. ToSave(e)' = created
  <2> DEFINE files == {<<p, final[p]>> : p \in created}
  <2>1. \A p \in created : \E file \in files : file[1] = p
    <3> SUFFICES ASSUME NEW p \in created PROVE \E file \in files : file[1] = p
      OBVIOUS
    <3>1. <<p, final[p]>> \in files /\ <<p, final[p]>>[1] = p
      OBVIOUS
    <3> QED
      BY <3>1
  <2>2. \A file \in files : file[1] \in created
    OBVIOUS
  <2>3. ToSave(e)' = {file[1] : file \in files}
    BY <1>1 DEF ToSave
  <2> HIDE DEF files
  <2>4. \A p \in created : p \in ToSave(e)'
    BY <2>1, <2>3
  <2>5. \A p \in ToSave(e)' : p \in created
    BY <2>2, <2>3
  <2> QED
    BY <2>4, <2>5
<1>4. /\ \A p \in Quiet(e) : call[e].sent[p] = vfs[Vfs(e)][p]
      /\ \A p \in Quiet(e) : p \in call[e].listed <=> call[e].sent[p] # None
  BY DEF Kept, Matches
<1>5. Matches(e)'
  BY <1>1, <1>2, <1>4 DEF Matches
<1>6. Owed(e)'
  <2> SUFFICES ASSUME NEW p \in Quiet(e)
               PROVE  vfs'[Vfs(e)'][p] = IF p \in ToSave(e)' \cup call'[e].doomed
                                         THEN call'[e].sent[p] ELSE Intended(e, p)'
    BY <1>2 DEF Owed
  <2> QED
    BY <1>1, <1>2, <1>3, <1>4
<1>7. Due(e)'
  BY <1>1, <1>2 DEF Due
<1>8. Spent(e)'
  BY <1>1 DEF Spent, Late
<1>9. ReportOwn(e)'
  BY <1>1 DEF Kept, ReportOwn
<1> QED
  BY <1>5, <1>6, <1>7, <1>8, <1>9 DEF Kept

\* What an execution is to leave, once its code has run.
LEMMA IntendedThen ==
  ASSUME TypeOK, NEW e \in Execs, NEW found, NEW did, NEW final, NEW created, NEW doomed,
         NEW fresh, Received(e, found, did, final, created, doomed, fresh), NEW p
  PROVE  Intended(e, p)' =
           IF /\ did[p] \in {"wrote", "slipped"}
              /\ ~(/\ did[p] = "slipped" /\ Kind[e] # "shell"
                   /\ found[p] # None /\ Size[found[p]] = Size[e])
           THEN e
           ELSE IF did[p] = "removed" /\ Kind[e] = "stateful" /\ p \in Deletable THEN None
           ELSE call[e].sent[p]
<1>1. past'[e].did = did /\ past'[e].found = found /\ call'[e].sent = call[e].sent
  BY ReceivedSelf, ReceivedRest
<1> QED
  BY <1>1 DEF Intended, Wrote, Unnoticed

LEMMA RunKept ==
  ASSUME SyncInv, NEW e \in Execs, Kept(e), NEW w \in Workers, Run(e, w)
  PROVE  Kept(e)'
<1> TypeOK
  BY DEF SyncInv
<1>1. PICK did \in Programs[e], start \in Variables(e, w) :
        LET found == Mounted(call[e].sent, fs[w])
            final == After(e, found, did) IN
        \/ \E fresh \in IF Kind[e] = "stateful" THEN {{}, start \cup {e}} ELSE {{}} :
             Received(e, found, did, final, Noticed(found, did, final), Doomed(e, final),
                      fresh)
        \/ End(e)
        \/ UNCHANGED <<pc, call, past>>
  BY DEF Run
<1>2. pc[e] = "run" /\ vfs' = vfs /\ Kind[e] # "shell"
  BY DEF Run, stored
<1> DEFINE found == Mounted(call[e].sent, fs[w])
           final == After(e, found, did)
           doomed == Doomed(e, final)
           created == Noticed(found, did, final)
<1>3. CASE End(e)
  BY <1>3, EndKept
<1>4. CASE UNCHANGED <<pc, call, past>>
  BY <1>2, <1>4, StillApart, ApartKept
<1>5. ASSUME NEW fresh, Received(e, found, did, final, created, doomed, fresh)
      PROVE  Kept(e)'
  <2>1. found \in FileMaps /\ did \in [Paths -> Effects] /\ call[e].sent \in FileMaps
        /\ fs[w] \in FileMaps
    BY Fields, MountedTyped DEF TypeOK
  <2>2. created \in SUBSET Paths
    BY DEF Noticed
  <2>3. doomed \in SUBSET Paths
    BY Fields DEF Doomed
  <2>4. ASSUME NEW p \in Tracked
        PROVE  /\ did[p] \in Effects
               /\ did[p] = "left" => final[p] = found[p]
               /\ did[p] = "removed" => final[p] = None
               /\ did[p] \in {"wrote", "slipped"} => final[p] = e /\ e # None
               /\ call[e].sent[p] # None => found[p] # None
               /\ p \in created => did[p] \in {"wrote", "slipped"} /\ final[p] = e
               /\ p \in created <=> /\ final[p] # None
                                    /\ \/ did[p] = "wrote" \/ found[p] = None
                                       \/ Size[final[p]] # Size[found[p]]
    <3>1. p \in Paths
      OBVIOUS
    <3>2. /\ did[p] = "left" => final[p] = found[p]
          /\ did[p] = "removed" => final[p] = None
          /\ did[p] \in {"wrote", "slipped"} => final[p] = e
      BY <2>1, AfterAt
    <3>3. p \in created => did[p] \in {"wrote", "slipped"} /\ final[p] = e
      BY <2>1, NoticedWrites
    <3>4. call[e].sent[p] # None => found[p] # None
      BY DEF Mounted
    <3>5. p \in created <=> /\ final[p] # None
                            /\ \/ did[p] = "wrote" \/ found[p] = None
                               \/ Size[final[p]] # Size[found[p]]
      <4> HIDE DEF found, final
      <4> QED
        BY DEF Noticed
    <3>6. did[p] \in Effects /\ e # None
      BY <2>1 DEF Contents
    <3> HIDE DEF found, final, created
    <3> QED
      BY <3>2, <3>3, <3>4, <3>5, <3>6
  <2>5. \A p \in Tracked :
          p \in doomed <=> /\ Kind[e] = "stateful" /\ p \in call[e].listed
                          /\ p \in Deletable /\ final[p] = None
    <3> HIDE DEF final
    <3> QED
      BY DEF Doomed
  <2>6. \A p \in Quiet(e) : p \in Tracked /\ (p \in call[e].listed <=> call[e].sent[p] # None)
    BY <1>2 DEF Kept, Matches, Quiet
  <2> HIDE DEF found, final, doomed, created
  <2>7. ASSUME NEW p \in created \cap Tracked
        PROVE  final[p] = e /\ Intended(e, p)' = e
    <3>1. /\ did[p] \in {"wrote", "slipped"} /\ final[p] = e
          /\ did[p] = "slipped" => found[p] = None \/ Size[e] # Size[found[p]]
      BY <2>4
    <3> QED
      BY <1>5, <3>1, IntendedThen
  <2>8. ASSUME NEW p \in doomed \cap Quiet(e)
        PROVE  Intended(e, p)' = None
    <3>1. /\ p \in Tracked /\ call[e].sent[p] # None
          /\ Kind[e] = "stateful" /\ p \in Deletable /\ final[p] = None
      BY <2>5, <2>6
    <3>2. did[p] = "removed"
      BY <2>4, <3>1 DEF Effects
    <3> QED
      BY <1>5, <3>1, <3>2, IntendedThen
  <2>9. ASSUME NEW p \in Quiet(e), p \notin created \cup doomed
        PROVE  Intended(e, p)' = call[e].sent[p]
    <3>1. p \in Tracked
      BY <2>6
    <3>2. did[p] \in {"wrote", "slipped"} =>
            did[p] = "slipped" /\ found[p] # None /\ Size[found[p]] = Size[e]
      BY <2>4, <2>9, <3>1
    <3>3. did[p] = "removed" /\ Kind[e] = "stateful" /\ p \in Deletable =>
            call[e].sent[p] = None
      BY <2>4, <2>5, <2>6, <2>9, <3>1
    <3> QED
      BY <1>2, <1>5, <3>2, <3>3, IntendedThen
  <2> QED
    BY <1>2, <1>5, <2>2, <2>3, <2>7, <2>8, <2>9, ReceivedKept
<1> QED
  BY <1>1, <1>3, <1>4, <1>5

LEMMA RunShellKept ==
  ASSUME SyncInv, NEW e \in Execs, Kept(e), RunShell(e)
  PROVE  Kept(e)'
<1> TypeOK
  BY DEF SyncInv
<1>1. pc[e] = "run" /\ vfs' = vfs /\ Kind[e] = "shell"
  BY DEF RunShell, stored
<1>2. CASE End(e)
  BY <1>2, EndKept
<1>3. ASSUME NEW did \in Programs[e],
             Received(e, call[e].sent, did, After(e, call[e].sent, did),
                      {p \in Paths : did[p] \in {"wrote", "slipped"}}, {}, {})
      PROVE  Kept(e)'
  <2> DEFINE final == After(e, call[e].sent, did)
             created == {p \in Paths : did[p] \in {"wrote", "slipped"}}
  <2>1. created \in SUBSET Paths /\ \A p \in created : did[p] \in {"wrote", "slipped"}
    OBVIOUS
  <2>2. \A p \in created : final[p] = e
    BY Fields, AfterAt
  <2>3. \A p \in Quiet(e) : p \notin created => did[p] \notin {"wrote", "slipped"}
    BY DEF Quiet
  <2>4. Received(e, call[e].sent, did, final, created, {}, {})
    BY <1>3
  <2> HIDE DEF final, created
  <2>5. \A p \in created \cap Tracked : final[p] = e /\ Intended(e, p)' = e
    BY <1>1, <2>1, <2>2, <2>4, IntendedThen
  <2>6. \A p \in Quiet(e) : p \notin created => Intended(e, p)' = call[e].sent[p]
    BY <1>1, <2>3, <2>4, IntendedThen
  <2> QED
    BY <1>1, <2>1, <2>4, <2>5, <2>6, ReceivedKept
<1> QED
  BY <1>2, <1>3 DEF RunShell

\* One file is saved: it is no longer owed.
LEMMA SaveKept ==
  ASSUME SyncInv, NEW e \in Execs, Kept(e), Save(e)
  PROVE  Kept(e)'
<1> TypeOK /\ Own(e)
  BY DEF SyncInv
<1>1. PICK file \in call[e].created :
        LET left == call[e].created \ {file} IN
        /\ vfs' = [vfs EXCEPT ![Vfs(e)][file[1]] = file[2]]
        /\ call' = [call EXCEPT ![e].created = left, ![e].reported = @ \cup {file[1]}]
        /\ past' = Stir(e, file[1])
        /\ Goto(e, IF left # {} THEN "save" ELSE AfterReport(e))
  BY DEF Save
<1> DEFINE p == file[1]
           left == call[e].created \ {file}
<1>2. p \in Paths /\ Vfs(e) \in VfsIds /\ vfs[Vfs(e)] \in FileMaps /\ pc[e] = "save"
  BY Fields DEF Save
<1>3. past'[e] = past[e]
  BY <1>1 DEF Stir
<1>4. /\ call'[e].created = left
      /\ call'[e].reported = call[e].reported \cup {p}
      /\ call'[e].doomed = call[e].doomed
      /\ call'[e].listed = call[e].listed
      /\ call'[e].sent = call[e].sent
  <2>1. call[e] \in CallRows /\ call \in [Execs -> CallRows]
    BY DEF TypeOK
  <2> QED
    BY <1>1, <2>1 DEF CallRows
<1>5. /\ pc'[e] \in {"save", "delete", "persist", "return"}
      /\ pc'[e] # "save" => left = {}
      /\ pc'[e] \in {"persist", "return"} => call[e].doomed = {}
  BY <1>1 DEF Goto, AfterReport, AfterFiles, TypeOK
<1>6. /\ vfs'[Vfs(e)][p] = file[2]
      /\ \A q \in Paths \ {p} : vfs'[Vfs(e)][q] = vfs[Vfs(e)][q]
  BY <1>1, <1>2 DEF TypeOK, FileMaps
<1> HIDE DEF p, left
<1>7. Quiet(e)' = Quiet(e) /\ Vfs(e)' = Vfs(e)
  BY <1>3 DEF Quiet, Vfs
<1>8. \A q : Wrote(e, q)' = Wrote(e, q) /\ Intended(e, q)' = Intended(e, q)
  BY <1>3, <1>4 DEF Wrote, Intended, Unnoticed
<1>9. \A q \in Quiet(e) : q \in Paths /\ q \in Tracked
  BY DEF Quiet
<1>10. Matches(e)'
  BY <1>2, <1>4, <1>5, <1>7 DEF Kept, Matches, Late
<1>11. Due(e)'
  BY <1>4, <1>7, <1>8 DEF Kept, Due, left
<1>12. Owed(e)'
  <2> SUFFICES ASSUME NEW q \in Quiet(e)
               PROVE  vfs'[Vfs(e)][q] = IF q \in ToSave(e)' \cup call[e].doomed
                                        THEN call[e].sent[q] ELSE Intended(e, q)
    BY <1>4, <1>7, <1>8 DEF Owed
  <2>1. vfs[Vfs(e)][q] = IF q \in ToSave(e) \cup call[e].doomed
                         THEN call[e].sent[q] ELSE Intended(e, q)
    BY <1>2 DEF Kept, Owed, Late
  <2>2. CASE q = p
    <3>1. Intended(e, q) = e /\ file[2] = e
      BY <1>9, <2>2 DEF Kept, Due, p
    <3>2. vfs'[Vfs(e)][q] = e
      BY <1>6, <2>2, <3>1
    <3>3. q \notin call[e].doomed
      BY <3>1 DEF Kept, Due, Contents
    <3>4. q \in ToSave(e)' => FALSE
      <4> SUFFICES ASSUME NEW other \in left, other[1] = q PROVE FALSE
        BY <1>4 DEF ToSave
      <4>1. other \in call[e].created /\ other # file
        BY DEF left
      <4>2. other[2] = e
        BY <1>9, <4>1 DEF Kept, Due
      <4>3. other \in Paths \X Contents /\ file \in Paths \X Contents
        BY <4>1, Fields
      <4> QED
        BY <2>2, <3>1, <4>1, <4>2, <4>3 DEF p
    <3> QED
      BY <3>1, <3>2, <3>3, <3>4
  <2>3. CASE q # p
    <3>1. vfs'[Vfs(e)][q] = vfs[Vfs(e)][q]
      BY <1>6, <1>9, <2>3
    <3>2. q \in ToSave(e)' <=> q \in ToSave(e)
      BY <1>4, <2>3 DEF ToSave, left, p
    <3> QED
      BY <2>1, <3>1, <3>2
  <2> QED
    BY <2>2, <2>3
<1>13. Spent(e)'
  BY <1>4, <1>5 DEF Spent, Late
<1>14. ReportOwn(e)'
  <2>1. p \in Tracked => Wrote(e, p)
    BY DEF Own, CreatedOwn, p
  <2> QED
    BY <1>3, <1>4, <1>5, <1>8, <2>1 DEF Kept, ReportOwn, Before
<1> QED
  BY <1>10, <1>11, <1>12, <1>13, <1>14 DEF Kept

LEMMA DeleteKept ==
  ASSUME SyncInv, NEW e \in Execs, Kept(e), Delete(e)
  PROVE  Kept(e)'
<1> TypeOK /\ Own(e)
  BY DEF SyncInv
<1>1. PICK p \in call[e].doomed :
        LET left == call[e].doomed \ {p} IN
        /\ vfs' = [vfs EXCEPT ![Vfs(e)][p] = None]
        /\ call' = [call EXCEPT ![e].doomed = left]
        /\ past' = Stir(e, p)
        /\ Goto(e, IF left # {} THEN "delete" ELSE AfterFiles(e))
  BY DEF Delete
<1>2. p \in Paths /\ Vfs(e) \in VfsIds /\ vfs[Vfs(e)] \in FileMaps /\ pc[e] = "delete"
  BY Fields DEF Delete
<1>3. past'[e] = past[e]
  BY <1>1 DEF Stir
<1>4. /\ call'[e].created = call[e].created
      /\ call'[e].reported = call[e].reported
      /\ call'[e].doomed = call[e].doomed \ {p}
      /\ call'[e].listed = call[e].listed
      /\ call'[e].sent = call[e].sent
  <2>1. call[e] \in CallRows /\ call \in [Execs -> CallRows]
    BY DEF TypeOK
  <2> QED
    BY <1>1, <2>1 DEF CallRows
<1>5. /\ pc'[e] \in {"delete", "persist", "return"}
      /\ pc'[e] # "delete" => call[e].doomed \ {p} = {}
  BY <1>1 DEF Goto, AfterFiles, TypeOK
<1>6. /\ vfs'[Vfs(e)][p] = None
      /\ \A q \in Paths \ {p} : vfs'[Vfs(e)][q] = vfs[Vfs(e)][q]
  BY <1>1, <1>2 DEF TypeOK, FileMaps
<1>7. Quiet(e)' = Quiet(e) /\ Vfs(e)' = Vfs(e) /\ ToSave(e)' = ToSave(e)
  BY <1>3, <1>4 DEF Quiet, Vfs, ToSave
<1>8. \A q : Wrote(e, q)' = Wrote(e, q) /\ Intended(e, q)' = Intended(e, q)
  BY <1>3, <1>4 DEF Wrote, Intended, Unnoticed
<1>9. \A q \in Quiet(e) : q \in Paths
  BY DEF Quiet
<1>10. Matches(e)'
  BY <1>2, <1>4, <1>5, <1>7 DEF Kept, Matches, Late
<1>11. Due(e)'
  BY <1>4, <1>7, <1>8 DEF Kept, Due
<1>12. call[e].created = {}
  BY <1>2 DEF Kept, Spent, Late
<1>13. Owed(e)'
  <2> SUFFICES ASSUME NEW q \in Quiet(e)
               PROVE  vfs'[Vfs(e)][q] = IF q \in ToSave(e) \cup (call[e].doomed \ {p})
                                        THEN call[e].sent[q] ELSE Intended(e, q)
    BY <1>4, <1>7, <1>8 DEF Owed
  <2>1. vfs[Vfs(e)][q] = IF q \in ToSave(e) \cup call[e].doomed
                         THEN call[e].sent[q] ELSE Intended(e, q)
    BY <1>2 DEF Kept, Owed, Late
  <2>2. ToSave(e) = {}
    BY <1>12 DEF ToSave
  <2>3. CASE q = p
    <3>1. Intended(e, q) = None
      BY <1>1, <2>3 DEF Kept, Due
    <3> QED
      BY <1>6, <2>2, <2>3, <3>1
  <2>4. CASE q # p
    BY <1>6, <1>9, <2>1, <2>2, <2>4
  <2> QED
    BY <2>3, <2>4
<1>14. Spent(e)'
  BY <1>4, <1>5, <1>12 DEF Spent, Late
<1>15. ReportOwn(e)'
  BY <1>3, <1>4, <1>5, <1>8 DEF Kept, ReportOwn, Before
<1> QED
  BY <1>10, <1>11, <1>13, <1>14, <1>15 DEF Kept

\* What is new in the workspace and quiet, the code wrote.
LEMMA DetectKept ==
  ASSUME SyncInv, NEW e \in Execs, Kept(e), Detect(e)
  PROVE  Kept(e)'
<1> TypeOK /\ Own(e)
  BY DEF SyncInv
<1>1. pc[e] = "detect" /\ vfs' = vfs /\ past' = past
  BY DEF Detect, stored
<1>2. /\ call'[e].created = call[e].created
      /\ call'[e].doomed = call[e].doomed
      /\ call'[e].listed = call[e].listed
      /\ call'[e].sent = call[e].sent
      /\ \/ call'[e].reported = Present(vfs[Vfs(e)]) \ call[e].listed
         \/ call'[e].reported = call[e].reported
  <2>1. call[e] \in CallRows /\ call \in [Execs -> CallRows]
    BY DEF TypeOK
  <2> QED
    BY <2>1 DEF Detect, CallRows
<1>3. /\ pc'[e] \in {"delete", "persist", "return"}
      /\ pc'[e] # "delete" => call[e].doomed = {}
  BY DEF Detect, Goto, AfterReport, AfterFiles, TypeOK
<1>4. call[e].created = {}
  BY <1>1 DEF Kept, Spent, Late
<1>5. Quiet(e)' = Quiet(e) /\ Vfs(e)' = Vfs(e) /\ ToSave(e)' = ToSave(e)
  BY <1>1, <1>2 DEF Quiet, Vfs, ToSave
<1>6. \A q : Wrote(e, q)' = Wrote(e, q) /\ Intended(e, q)' = Intended(e, q)
  BY <1>1, <1>2 DEF Wrote, Intended, Unnoticed
<1>7. Matches(e)'
  BY <1>1, <1>2, <1>3, <1>5 DEF Kept, Matches, Late
<1>8. Owed(e)'
  BY <1>1, <1>2, <1>5, <1>6 DEF Kept, Owed, Late
<1>9. Due(e)'
  BY <1>2, <1>5, <1>6 DEF Kept, Due
<1>10. Spent(e)'
  BY <1>2, <1>3, <1>4 DEF Spent, Late
<1>11. ASSUME NEW p \in Quiet(e), vfs[Vfs(e)][p] # None, p \notin call[e].listed
       PROVE  Wrote(e, p)
  <2>1. call[e].sent[p] = None
    BY <1>1, <1>11 DEF Kept, Matches, Late
  <2>2. p \notin call[e].doomed
    BY <1>11 DEF Own, DoomedOwn
  <2>3. p \notin ToSave(e)
    BY <1>4 DEF ToSave
  <2>4. vfs[Vfs(e)][p] = Intended(e, p)
    BY <1>1, <2>2, <2>3 DEF Kept, Owed, Late
  <2> QED
    BY <1>11, <2>1, <2>4 DEF Intended
<1>12. ReportOwn(e)'
  <2> SUFFICES ASSUME NEW p \in call'[e].reported \cap Tracked
               PROVE  Wrote(e, p) \/ p \in past[e].stirred
    BY <1>1, <1>3, <1>6 DEF ReportOwn, Before
  <2>1. CASE p \in call[e].reported
    BY <2>1 DEF Kept, ReportOwn
  <2>2. CASE p \in Present(vfs[Vfs(e)]) \ call[e].listed
    BY <1>11, <2>2 DEF Present, Quiet
  <2> QED
    BY <1>2, <2>1, <2>2
<1> QED
  BY <1>7, <1>8, <1>9, <1>10, <1>12 DEF Kept

LEMMA LateKept ==
  ASSUME SyncInv, NEW e \in Execs, Kept(e), Persist(e) \/ Tool(e)
  PROVE  Kept(e)'
<1> TypeOK /\ Own(e)
  BY DEF SyncInv
<1>1. CASE Persist(e)
  <2>1. pc[e] = "persist" /\ pc'[e] = "return" /\ vfs' = vfs /\ call' = call /\ past' = past
    BY <1>1 DEF Persist, Goto, TypeOK
  <2>2. /\ Quiet(e)' = Quiet(e) /\ Vfs(e)' = Vfs(e) /\ ToSave(e)' = ToSave(e)
        /\ \A q : Wrote(e, q)' = Wrote(e, q) /\ Intended(e, q)' = Intended(e, q)
    BY <2>1 DEF Quiet, Vfs, ToSave, Wrote, Intended, Unnoticed
  <2>3. Matches(e)' /\ Owed(e)'
    BY <2>1, <2>2 DEF Kept, Matches, Owed, Late
  <2>4. Due(e)'
    BY <2>1, <2>2 DEF Kept, Due
  <2>5. Spent(e)'
    BY <2>1 DEF Kept, Spent, Late
  <2>6. ReportOwn(e)'
    BY <2>1, <2>2 DEF Kept, ReportOwn, Before
  <2> QED
    BY <2>3, <2>4, <2>5, <2>6 DEF Kept
<1>2. CASE Tool(e)
  <2>1. pc[e] = "api" /\ pc'[e] = "done" /\ call' = call
    BY <1>2 DEF Tool, Goto, TypeOK
  <2>2. call[e].created = {} /\ call[e].doomed = {} /\ call[e].reported = {}
    BY <2>1 DEF Own, NothingYet, Kept, ReportOwn, Before
  <2> QED
    BY <2>1, <2>2, NoneKept
<1> QED
  BY <1>1, <1>2

LEMMA KeptInvariant == Spec => []KeptInv
<1>1. Init => \A f \in Execs : Kept(f)
  <2> SUFFICES ASSUME Init, NEW f \in Execs PROVE Kept(f)
    OBVIOUS
  <2>1. call[f] = NoCall /\ pc[f] \in Before
    BY EntryTyped DEF Init
  <2> QED
    BY <2>1 DEF NoCall, Kept, Matches, Owed, Due, Spent, ReportOwn, Late, Before
<1>2. SyncInv /\ (\A f \in Execs : Kept(f)) /\ [Next]_vars => (\A f \in Execs : Kept(f))'
  <2> SUFFICES ASSUME SyncInv, \A f \in Execs : Kept(f), [Next]_vars, NEW f \in Execs
               PROVE  Kept(f)'
    OBVIOUS
  <2> TypeOK /\ Kept(f)
    BY DEF SyncInv
  <2>1. CASE UNCHANGED vars
    BY <2>1, StillApart, ApartKept DEF vars
  <2>2. ASSUME NEW e \in Execs,
               \/ Load(e) \/ CheckQuota(e) \/ List(e) \/ Fetch(e)
               \/ RunShell(e) \/ \E w \in Workers : Run(e, w)
               \/ Save(e) \/ Detect(e) \/ Delete(e) \/ Persist(e)
               \/ Return(e) \/ Fail(e) \/ Tool(e)
        PROVE  Kept(f)'
    <3>1. CASE f # e
      BY <2>2, <3>1, OthersApart, ApartKept
    <3>2. CASE f = e
      <4>1. CASE Return(e) \/ Fail(e)
        BY <3>2, <4>1, EndKept DEF Return, Fail
      <4> QED
        BY <2>2, <3>2, <4>1, EarlyKept, RunKept, RunShellKept, SaveKept, DetectKept,
           DeleteKept, LateKept
    <3> QED
      BY <3>1, <3>2
  <2>3. ASSUME NEW w \in Workers, Replace(w) PROVE Kept(f)'
    BY <2>3, StillApart, ApartKept DEF Replace, stored
  <2> QED
    BY <2>1, <2>2, <2>3 DEF Next
<1> QED
  BY <1>1, <1>2, SyncInvariant, PTL DEF Spec, KeptInv

\* All an execution that succeeded did to tracked files is in the workspace, where
\* nobody else changed it meanwhile: mounting, collecting, saving and deleting lose
\* nothing but writes of the same size that slipped by the tracker.
THEOREM AllDelivered == Spec => []Delivered
<1>1. KeptInv => Delivered
  <2> SUFFICES ASSUME KeptInv, NEW e \in Execs, pc[e] = "return",
                      NEW p \in Tracked \ past[e].stirred
               PROVE  vfs[Vfs(e)][p] = Intended(e, p)
    BY DEF Delivered
  <2>1. Kept(e) /\ p \in Quiet(e)
    BY DEF KeptInv, Quiet
  <2>2. p \notin ToSave(e) \cup call[e].doomed
    BY <2>1 DEF Kept, Spent, ToSave, Late
  <2> QED
    BY <2>1, <2>2 DEF Kept, Owed, Late
<1> QED
  BY <1>1, KeptInvariant, PTL

\* What an execution reports as created, its code wrote or others changed meanwhile:
\* it never takes a file of the workspace for its own.
THEOREM ReportsAreOwn == Spec => []ReportsOwn
<1>1. KeptInv => ReportsOwn
  BY DEF KeptInv, Kept, ReportOwn, ReportsOwn
<1> QED
  BY <1>1, KeptInvariant, PTL

(***************************************************************************)
(* Executions are sandboxed: every step is one of Sandbox or none, under   *)
(* the mapping of BoxVfs, BoxAt and BoxTask.                               *)
(***************************************************************************)
\* What the invariants above leave open and the mapping needs.
Ready(f) ==
  /\ pc[f] = "api" => call[f] = NoCall /\ past[f].did = NoPast.did
  /\ pc[f] = "detect" => call[f].reported = {}
  /\ pc[f] = "persist" => call[f].fresh # {}

BoxInv == KeptInv /\ \A f \in Execs : Ready(f)

LEMMA SameReady ==
  ASSUME NEW f \in Execs, Ready(f), Same(f)
  PROVE  Ready(f)'
BY DEF Same, Ready

LEMMA EndReady ==
  ASSUME TypeOK, NEW e \in Execs, End(e), NEW f \in Execs, Ready(f)
  PROVE  Ready(f)'
<1>1. CASE f = e
  <2>1. pc'[e] = "done" /\ call'[e] = NoCall
    BY DEF End, Goto, TypeOK
  <2> QED
    BY <1>1, <2>1 DEF NoCall, Ready
<1>2. CASE f # e
  <2>1. Same(f)
    BY <1>2 DEF Same, End, Goto, TypeOK
  <2> QED
    BY <2>1, SameReady
<1> QED
  BY <1>1, <1>2

LEMMA PhaseIs ==
  /\ \A l \in {"load", "list", "fetch", "run", "api", "return", "done"} : Phase(l) = l
  /\ Phase("check") = "list"
  /\ \A l \in {"save", "detect", "delete", "persist"} : Phase(l) = "apply"
BY DEF Phase

LEMMA AtIs ==
  ASSUME NEW e \in Execs, NEW l, pc[e] = l
  PROVE  /\ l \in {"load", "list", "fetch", "run", "api", "return", "done"} => BoxAt[e] = l
         /\ l = "check" => BoxAt[e] = "list"
         /\ l \in {"save", "detect", "delete", "persist"} => BoxAt[e] = "apply"
BY PhaseIs DEF BoxAt

\* One execution moves, the others stay.
LEMMA StepMapped ==
  ASSUME NEW e \in Execs, \A f \in Execs \ {e} : Same(f),
         NEW phase, Phase(pc'[e]) = phase, NEW row, BoxRow(e)' = row
  PROVE  Box!Step(e, phase, row)
<1>1. \A f \in Execs \ {e} : Phase(pc'[f]) = Phase(pc[f]) /\ BoxRow(f)' = BoxRow(f)
  BY DEF Same, BoxRow, DueChanges
<1>2. BoxAt' = [BoxAt EXCEPT ![e] = phase]
  BY <1>1 DEF BoxAt
<1>3. BoxTask' = [BoxTask EXCEPT ![e] = row]
  BY <1>1 DEF BoxTask
<1> QED
  BY <1>2, <1>3 DEF Box!Step

\* Nothing moves that a sandbox shows.
LEMMA StutterMapped ==
  ASSUME NEW e \in Execs, \A f \in Execs \ {e} : Same(f),
         Phase(pc'[e]) = Phase(pc[e]), BoxRow(e)' = BoxRow(e), BoxVfs' = BoxVfs,
         bytes' = bytes
  PROVE  UNCHANGED Box!vars
<1>1. \A f \in Execs \ {e} : Phase(pc'[f]) = Phase(pc[f]) /\ BoxRow(f)' = BoxRow(f)
  BY DEF Same, BoxRow, DueChanges
<1>2. BoxAt' = BoxAt
  BY <1>1 DEF BoxAt
<1>3. BoxTask' = BoxTask
  BY <1>1 DEF BoxTask
<1> QED
  BY <1>2, <1>3 DEF Box!vars

LEMMA BoxReads ==
  ASSUME NEW e \in Execs
  PROVE  /\ BoxAt[e] = Phase(pc[e])
         /\ BoxTask[e] = BoxRow(e)
         /\ Vfs(e) \in VfsIds
         /\ Box!Vfs(e) = Vfs(e)
         /\ BoxVfs[Vfs(e)] = [p \in Tracked |-> vfs[Vfs(e)][p]]
BY DEF BoxAt, BoxTask, BoxVfs, Vfs, VfsIds, Box!Vfs

LEMMA VfsSame ==
  ASSUME vfs' = vfs
  PROVE  BoxVfs' = BoxVfs
BY DEF BoxVfs

\* A change of a tracked file shows, one of another file does not.
LEMMA VfsMapped ==
  ASSUME TypeOK, NEW v \in VfsIds, NEW p \in Paths, NEW c, vfs' = [vfs EXCEPT ![v][p] = c]
  PROVE  /\ p \in Tracked => BoxVfs' = [BoxVfs EXCEPT ![v][p] = c]
         /\ p \notin Tracked => BoxVfs' = BoxVfs
<1>1. vfs \in [VfsIds -> FileMaps] /\ vfs[v] \in FileMaps
  BY DEF TypeOK
<1>2. \A u \in VfsIds, q \in Paths :
        vfs'[u][q] = IF u = v /\ q = p THEN c ELSE vfs[u][q]
  BY <1>1 DEF FileMaps
<1>3. CASE p \in Tracked
  <2>1. \A u \in VfsIds \ {v} : BoxVfs'[u] = BoxVfs[u]
    BY <1>2 DEF BoxVfs
  <2>2. BoxVfs'[v] = [BoxVfs[v] EXCEPT ![p] = c]
    BY <1>2, <1>3 DEF BoxVfs
  <2> QED
    BY <1>3, <2>1, <2>2 DEF BoxVfs
<1>4. CASE p \notin Tracked
  BY <1>2, <1>4 DEF BoxVfs
<1> QED
  BY <1>3, <1>4

LEMMA BlankIs ==
  Box!Blank = [loaded |-> {}, listed |-> {}, sent |-> [p \in Tracked |-> None],
               did |-> [p \in Tracked |-> "left"], due |-> {}, reported |-> {},
               fresh |-> {}]
BY DEF Box!Blank

\* Without local variables there is nothing a sandbox shows.
LEMMA NothingShown ==
  /\ NoCall.loaded = {} /\ NoCall.listed = {} /\ NoCall.reported = {} /\ NoCall.fresh = {}
  /\ [p \in Tracked |-> NoCall.sent[p]] = [p \in Tracked |-> None]
  /\ [p \in Tracked |-> NoPast.did[p]] = [p \in Tracked |-> "left"]
  /\ DueChanges(NoCall) = {}
<1>1. /\ \A p \in Tracked : NoCall.sent[p] = None
      /\ \A p \in Tracked : NoPast.did[p] = "left"
  BY DEF Empty, NoCall, NoPast
<1>2. DueChanges(NoCall) = {}
  BY DEF DueChanges, NoCall
<1> QED
  BY <1>1, <1>2 DEF NoCall

LEMMA RowBlank ==
  ASSUME NEW e \in Execs, call[e] = NoCall, past[e].did = NoPast.did
  PROVE  BoxRow(e) = Box!Blank
<1>1. (IF pc[e] = "return" THEN {} ELSE call[e].fresh) = {}
  BY NothingShown
<1> QED
  BY <1>1, NothingShown, BlankIs DEF BoxRow

LEMMA RowBlankNext ==
  ASSUME NEW e \in Execs, call'[e] = NoCall, past'[e].did = NoPast.did
  PROVE  BoxRow(e)' = Box!Blank
<1>1. (IF pc'[e] = "return" THEN {} ELSE call'[e].fresh) = {}
  BY NothingShown
<1> QED
  BY <1>1, NothingShown, BlankIs DEF BoxRow

\* An execution that is over has forgotten everything.
LEMMA EndMapped ==
  ASSUME TypeOK, NEW e \in Execs, End(e)
  PROVE  Box!Step(e, "done", Box!Blank)
<1>1. \A f \in Execs \ {e} : Same(f)
  BY DEF End, Goto, TypeOK, Same
<1>2. pc'[e] = "done" /\ call'[e] = NoCall /\ past'[e].did = NoPast.did
  BY DEF End, Goto, TypeOK
<1>3. BoxRow(e)' = Box!Blank
  BY <1>2, RowBlankNext
<1>4. Phase("done") = "done"
  BY PhaseIs
<1> QED
  BY <1>1, <1>2, <1>3, <1>4, StepMapped

\* The record a sandbox shows of an execution, field by field.
Row(loaded, listed, sent, did, due, reported, fresh) ==
  [loaded |-> loaded, listed |-> listed, sent |-> sent, did |-> did, due |-> due,
   reported |-> reported, fresh |-> fresh]

ListedOf(e) == call[e].listed \cap Tracked
SentOf(e) == [p \in Tracked |-> call[e].sent[p]]
DidOf(e) == [p \in Tracked |-> past[e].did[p]]
DueOf(e) == DueChanges(call[e])
ReportedOf(e) == call[e].reported \cap Tracked
FreshOf(e) == IF pc[e] = "return" THEN {} ELSE call[e].fresh

LEMMA RowIs ==
  ASSUME NEW e \in Execs
  PROVE  /\ BoxRow(e) = Row(call[e].loaded, ListedOf(e), SentOf(e), DidOf(e), DueOf(e),
                            ReportedOf(e), FreshOf(e))
         /\ BoxRow(e)' = Row(call'[e].loaded, ListedOf(e)', SentOf(e)', DidOf(e)', DueOf(e)',
                             ReportedOf(e)', FreshOf(e)')
BY DEF BoxRow, Row, ListedOf, SentOf, DidOf, DueOf, ReportedOf, FreshOf

LEMMA BoxFields ==
  ASSUME NEW e \in Execs
  PROVE  /\ BoxTask[e] = BoxRow(e)
         /\ BoxTask[e].loaded = call[e].loaded /\ BoxTask[e].listed = ListedOf(e)
         /\ BoxTask[e].sent = SentOf(e) /\ BoxTask[e].did = DidOf(e)
         /\ BoxTask[e].due = DueOf(e) /\ BoxTask[e].reported = ReportedOf(e)
         /\ BoxTask[e].fresh = FreshOf(e)
BY DEF BoxTask, BoxRow, ListedOf, SentOf, DidOf, DueOf, ReportedOf, FreshOf

LEMMA SentShown ==
  ASSUME NEW e \in Execs, NEW p \in Tracked
  PROVE  BoxTask[e].sent[p] = call[e].sent[p]
BY BoxFields DEF SentOf

LEMMA RowFields ==
  ASSUME NEW loaded, NEW listed, NEW sent, NEW did, NEW due, NEW reported, NEW fresh
  PROVE  LET row == Row(loaded, listed, sent, did, due, reported, fresh) IN
         /\ row.loaded = loaded /\ row.listed = listed /\ row.sent = sent
         /\ row.did = did /\ row.due = due /\ row.reported = reported
         /\ row.fresh = fresh
BY DEF Row

(* One lemma for each set of fields a step of Sandbox changes. *)
LEMMA RowLoaded ==
  ASSUME NEW loaded, NEW listed, NEW sent, NEW did, NEW due, NEW reported, NEW fresh,
         NEW x
  PROVE  [Row(loaded, listed, sent, did, due, reported, fresh) EXCEPT !.loaded = x]
           = Row(x, listed, sent, did, due, reported, fresh)
BY DEF Row

LEMMA RowListed ==
  ASSUME NEW loaded, NEW listed, NEW sent, NEW did, NEW due, NEW reported, NEW fresh,
         NEW x
  PROVE  [Row(loaded, listed, sent, did, due, reported, fresh) EXCEPT !.listed = x]
           = Row(loaded, x, sent, did, due, reported, fresh)
BY DEF Row

LEMMA RowSent ==
  ASSUME NEW loaded, NEW listed, NEW sent, NEW did, NEW due, NEW reported, NEW fresh,
         NEW x
  PROVE  [Row(loaded, listed, sent, did, due, reported, fresh) EXCEPT !.sent = x]
           = Row(loaded, listed, x, did, due, reported, fresh)
BY DEF Row

LEMMA RowReported ==
  ASSUME NEW loaded, NEW listed, NEW sent, NEW did, NEW due, NEW reported, NEW fresh,
         NEW x
  PROVE  [Row(loaded, listed, sent, did, due, reported, fresh) EXCEPT !.reported = x]
           = Row(loaded, listed, sent, did, due, x, fresh)
BY DEF Row

LEMMA RowFresh ==
  ASSUME NEW loaded, NEW listed, NEW sent, NEW did, NEW due, NEW reported, NEW fresh,
         NEW x
  PROVE  [Row(loaded, listed, sent, did, due, reported, fresh) EXCEPT !.fresh = x]
           = Row(loaded, listed, sent, did, due, reported, x)
BY DEF Row

LEMMA RowDue ==
  ASSUME NEW loaded, NEW listed, NEW sent, NEW did, NEW due, NEW reported, NEW fresh,
         NEW x
  PROVE  [Row(loaded, listed, sent, did, due, reported, fresh) EXCEPT !.due = x]
           = Row(loaded, listed, sent, did, x, reported, fresh)
BY DEF Row

LEMMA RowDid ==
  ASSUME NEW loaded, NEW listed, NEW sent, NEW did, NEW due, NEW reported, NEW fresh,
         NEW x
  PROVE  [Row(loaded, listed, sent, did, due, reported, fresh) EXCEPT !.did = x]
           = Row(loaded, listed, sent, x, due, reported, fresh)
BY DEF Row

LEMMA RowApplied ==
  ASSUME NEW e \in Execs, NEW x, NEW y
  PROVE  [BoxRow(e) EXCEPT !.due = x, !.reported = y]
           = Row(call[e].loaded, ListedOf(e), SentOf(e), DidOf(e), x, y, FreshOf(e))
<1> DEFINE mid == [BoxRow(e) EXCEPT !.due = x]
<1>1. [BoxRow(e) EXCEPT !.due = x, !.reported = y] = [mid EXCEPT !.reported = y]
  OBVIOUS
<1>2. mid = Row(call[e].loaded, ListedOf(e), SentOf(e), DidOf(e), x, ReportedOf(e),
                FreshOf(e))
  BY RowIs, RowDue
<1> HIDE DEF mid
<1>3. [mid EXCEPT !.reported = y]
        = Row(call[e].loaded, ListedOf(e), SentOf(e), DidOf(e), x, y, FreshOf(e))
  BY <1>2, RowReported
<1> QED
  BY <1>1, <1>3

LEMMA RanIs ==
  ASSUME NEW e \in Execs, NEW did, NEW hidden, NEW fresh
  PROVE  Box!Ran(e, did, hidden, fresh)
           = Row(call[e].loaded, ListedOf(e), SentOf(e), Box!Done(did),
                 Box!Changes(e, did, hidden), ReportedOf(e), fresh)
<1> DEFINE one == [BoxTask[e] EXCEPT !.did = Box!Done(did)]
           two == [one EXCEPT !.due = Box!Changes(e, did, hidden)]
<1>1. Box!Ran(e, did, hidden, fresh) = [two EXCEPT !.fresh = fresh]
  BY DEF Box!Ran
<1>2. one = Row(call[e].loaded, ListedOf(e), SentOf(e), Box!Done(did), DueOf(e),
                ReportedOf(e), FreshOf(e))
  BY RowIs, RowDid, BoxFields
<1> HIDE DEF one
<1>3. two = Row(call[e].loaded, ListedOf(e), SentOf(e), Box!Done(did),
                Box!Changes(e, did, hidden), ReportedOf(e), FreshOf(e))
  BY <1>2, RowDue
<1> HIDE DEF two
<1>4. [two EXCEPT !.fresh = fresh]
        = Row(call[e].loaded, ListedOf(e), SentOf(e), Box!Done(did),
              Box!Changes(e, did, hidden), ReportedOf(e), fresh)
  BY <1>3, RowFresh
<1> QED
  BY <1>1, <1>4

\* What stays if only some of its local variables change.
LEMMA FieldsSame ==
  ASSUME NEW e \in Execs
  PROVE  /\ call'[e].listed = call[e].listed => ListedOf(e)' = ListedOf(e)
         /\ call'[e].sent = call[e].sent => SentOf(e)' = SentOf(e)
         /\ past'[e].did = past[e].did => DidOf(e)' = DidOf(e)
         /\ call'[e].created = call[e].created /\ call'[e].doomed = call[e].doomed
              => DueOf(e)' = DueOf(e)
         /\ call'[e].reported = call[e].reported => ReportedOf(e)' = ReportedOf(e)
         /\ call'[e].fresh = call[e].fresh /\ pc[e] # "return" /\ pc'[e] # "return"
              => FreshOf(e)' = FreshOf(e)
BY DEF ListedOf, SentOf, DidOf, DueOf, DueChanges, ReportedOf, FreshOf

\* The two queries and the load of the variables, and what comes before a result.
LEMMA EarlyBox ==
  ASSUME BoxInv, NEW e \in Execs, Load(e) \/ CheckQuota(e) \/ List(e) \/ Fetch(e)
  PROVE  /\ Ready(e)'
         /\ Box!Load(e) \/ Box!List(e) \/ Box!Fetch(e) \/ Box!Abort(e)
            \/ UNCHANGED Box!vars
<1> TypeOK /\ Ready(e) /\ Own(e)
  BY DEF BoxInv, KeptInv, SyncInv
<1>1. CASE CheckQuota(e) /\ End(e)
  <2>1. pc[e] = "check" /\ vfs' = vfs /\ bytes' = bytes
    BY <1>1 DEF CheckQuota, stored
  <2>2. Box!Abort(e)
    BY <1>1, <2>1, EndMapped, BoxReads, PhaseIs, VfsSame DEF Box!Abort
  <2> QED
    BY <1>1, <2>2, EndReady
<1>2. CASE ~(CheckQuota(e) /\ End(e))
  <2>1. /\ vfs' = vfs /\ bytes' = bytes /\ past' = past
        /\ \A f \in Execs \ {e} : Same(f)
    BY <1>2 DEF Load, CheckQuota, List, Fetch, stored, Same, Goto, TypeOK
  <2>2. call[e] \in CallRows /\ call \in [Execs -> CallRows]
    BY DEF TypeOK
  <2>3. call[e].doomed = {}
    BY <1>2 DEF Own, NothingYet, Load, CheckQuota, List, Fetch, Before
  <2>4. BoxVfs' = BoxVfs
    BY <2>1, VfsSame
  <2>5. CASE Load(e)
    <3>1. pc[e] = "load" /\ pc'[e] = "check"
          /\ call'[e] = [call[e] EXCEPT !.loaded = bytes[Thread[e]]]
      BY <2>2, <2>5 DEF Load, Goto, TypeOK
    <3>2. BoxRow(e)' = [BoxRow(e) EXCEPT !.loaded = bytes[Thread[e]]]
      <4>1. /\ call'[e].loaded = bytes[Thread[e]]
            /\ ListedOf(e)' = ListedOf(e) /\ SentOf(e)' = SentOf(e)
            /\ DidOf(e)' = DidOf(e) /\ DueOf(e)' = DueOf(e)
            /\ ReportedOf(e)' = ReportedOf(e) /\ FreshOf(e)' = FreshOf(e)
        BY <2>1, <2>2, <3>1, FieldsSame DEF CallRows
      <4> QED
        BY <4>1, RowIs, RowLoaded
    <3>3. Ready(e)'
      BY <2>2, <2>3, <3>1 DEF Ready, CallRows
    <3>4. Box!Step(e, "list", [BoxTask[e] EXCEPT !.loaded = bytes[Thread[e]]])
      BY <2>1, <3>1, <3>2, StepMapped, PhaseIs, BoxReads
    <3>6. Box!Load(e)
      <4>1. BoxAt[e] = "load"
        BY <3>1, AtIs
      <4>2. UNCHANGED <<BoxVfs, bytes>>
        BY <2>1, <2>4
      <4> QED
        BY <3>4, <4>1, <4>2, BoxReads DEF Box!Load
    <3> QED
      BY <3>3, <3>6
  <2>6. CASE CheckQuota(e)
    <3>1. pc[e] = "check" /\ pc'[e] = "list" /\ call' = call
      BY <1>2, <2>6 DEF CheckQuota, Goto, TypeOK
    <3>2. BoxRow(e)' = BoxRow(e)
      BY <2>1, <3>1 DEF BoxRow, DueChanges
    <3>3. Ready(e)'
      BY <2>3, <3>1 DEF Ready
    <3> QED
      BY <2>1, <2>4, <3>1, <3>2, <3>3, StutterMapped, PhaseIs
  <2>7. CASE List(e)
    <3>1. pc[e] = "list" /\ pc'[e] = "fetch"
          /\ call'[e] = [call[e] EXCEPT !.listed = Present(vfs[Vfs(e)])]
      BY <2>2, <2>7 DEF List, Goto, TypeOK
    <3>2. Present(vfs[Vfs(e)]) \cap Tracked = Box!Present(BoxVfs[Vfs(e)])
      BY BoxReads DEF Present, Box!Present
    <3>3. BoxRow(e)' = [BoxRow(e) EXCEPT !.listed = Box!Present(BoxVfs[Vfs(e)])]
      <4>1. ListedOf(e)' = Box!Present(BoxVfs[Vfs(e)])
        BY <2>2, <3>1, <3>2 DEF ListedOf, CallRows
      <4>2. /\ call'[e].loaded = call[e].loaded /\ SentOf(e)' = SentOf(e)
            /\ DidOf(e)' = DidOf(e) /\ DueOf(e)' = DueOf(e)
            /\ ReportedOf(e)' = ReportedOf(e) /\ FreshOf(e)' = FreshOf(e)
        BY <2>1, <2>2, <3>1, FieldsSame DEF CallRows
      <4> QED
        BY <4>1, <4>2, RowIs, RowListed
    <3>4. Ready(e)'
      BY <2>2, <2>3, <3>1 DEF Ready, CallRows
    <3>5. Box!Step(e, "fetch", [BoxTask[e] EXCEPT !.listed = Box!Present(BoxVfs[Vfs(e)])])
      BY <2>1, <3>1, <3>3, StepMapped, PhaseIs, BoxReads
    <3>6. Box!List(e)
      <4>1. BoxAt[e] = "list"
        BY <3>1, AtIs
      <4>2. UNCHANGED <<BoxVfs, bytes>>
        BY <2>1, <2>4
      <4> QED
        BY <3>5, <4>1, <4>2, BoxReads DEF Box!List
    <3> QED
      BY <3>4, <3>6
  <2>8. CASE Fetch(e)
    <3>1. pc[e] = "fetch" /\ pc'[e] = "run"
          /\ call'[e] = [call[e] EXCEPT !.sent = vfs[Vfs(e)]]
      BY <2>2, <2>8 DEF Fetch, Goto, TypeOK
    <3>2. BoxRow(e)' = [BoxRow(e) EXCEPT !.sent = BoxVfs[Vfs(e)]]
      <4>1. SentOf(e)' = BoxVfs[Vfs(e)]
        BY <2>2, <3>1, BoxReads DEF SentOf, CallRows
      <4>2. /\ call'[e].loaded = call[e].loaded /\ ListedOf(e)' = ListedOf(e)
            /\ DidOf(e)' = DidOf(e) /\ DueOf(e)' = DueOf(e)
            /\ ReportedOf(e)' = ReportedOf(e) /\ FreshOf(e)' = FreshOf(e)
        BY <2>1, <2>2, <3>1, FieldsSame DEF CallRows
      <4> QED
        BY <4>1, <4>2, RowIs, RowSent
    <3>3. Ready(e)'
      BY <2>2, <2>3, <3>1 DEF Ready, CallRows
    <3>4. Box!Step(e, "run", [BoxTask[e] EXCEPT !.sent = BoxVfs[Vfs(e)]])
      BY <2>1, <3>1, <3>2, StepMapped, PhaseIs, BoxReads
    <3>6. Box!Fetch(e)
      <4>1. BoxAt[e] = "fetch"
        BY <3>1, AtIs
      <4>2. UNCHANGED <<BoxVfs, bytes>>
        BY <2>1, <2>4
      <4> QED
        BY <3>4, <4>1, <4>2, BoxReads DEF Box!Fetch
    <3> QED
      BY <3>3, <3>6
  <2> QED
    BY <2>5, <2>6, <2>7, <2>8
<1> QED
  BY <1>1, <1>2

\* An execution that returns, and one that fails.
LEMMA EndBox ==
  ASSUME BoxInv, NEW e \in Execs, Return(e) \/ Fail(e)
  PROVE  /\ Ready(e)'
         /\ Box!Answer(e) \/ Box!Abort(e)
<1> TypeOK /\ Ready(e)
  BY DEF BoxInv, KeptInv, SyncInv
<1>1. End(e) /\ vfs' = vfs /\ bytes' = bytes
  BY DEF Return, Fail, stored
<1>2. Box!Step(e, "done", Box!Blank) /\ BoxVfs' = BoxVfs
  BY <1>1, EndMapped, VfsSame
<1>3. CASE Return(e)
  <2>1. BoxAt[e] = "return"
    BY <1>3, BoxReads, PhaseIs DEF Return
  <2> QED
    BY <1>1, <1>2, <2>1, EndReady DEF Box!Answer
<1>4. CASE Fail(e)
  <2>1. BoxAt[e] \notin {"return", "done"}
    BY <1>4, BoxReads DEF Fail, Phase
  <2> QED
    BY <1>1, <1>2, <2>1, EndReady DEF Box!Abort
<1> QED
  BY <1>3, <1>4

\* A tool's call changes one file; one that is not tracked does not show.
LEMMA ToolBox ==
  ASSUME BoxInv, NEW e \in Execs, Tool(e)
  PROVE  /\ Ready(e)'
         /\ Box!Tool(e) \/ Box!Abort(e)
<1> TypeOK /\ Ready(e)
  BY DEF BoxInv, KeptInv, SyncInv
<1>1. PICK did \in Programs[e], p \in Paths :
        /\ did[p] # "left"
        /\ vfs' = [vfs EXCEPT ![Vfs(e)][p] = IF did[p] = "removed" THEN None ELSE e]
        /\ past' = Stir(e, p)
  BY DEF Tool
<1>2. pc[e] = "api" /\ pc'[e] = "done" /\ call' = call /\ bytes' = bytes
  BY DEF Tool, Goto, TypeOK
<1>3. call[e] = NoCall /\ past[e].did = NoPast.did
  BY <1>2 DEF Ready
<1>4. \A f \in Execs : past'[f].did = past[f].did
  BY <1>1, StirSame
<1>5. \A f \in Execs \ {e} : Same(f)
  BY <1>2, <1>4 DEF Tool, Same, Goto, TypeOK
<1>6. Box!Step(e, "done", Box!Blank)
  <2>1. BoxRow(e)' = Box!Blank
    BY <1>2, <1>3, <1>4, RowBlankNext
  <2> QED
    BY <1>2, <1>5, <2>1, StepMapped, PhaseIs
<1>7. BoxAt[e] = "api"
  BY <1>2, BoxReads, PhaseIs
<1>8. Ready(e)'
  BY <1>2, <1>3 DEF Ready, NoCall
<1>9. CASE p \in Tracked
  <2>1. BoxVfs' = [BoxVfs EXCEPT ![Vfs(e)][p] = IF did[p] = "removed" THEN None ELSE e]
    <3> DEFINE c == IF did[p] = "removed" THEN None ELSE e
    <3>1. vfs' = [vfs EXCEPT ![Vfs(e)][p] = c]
      BY <1>1
    <3> HIDE DEF c
    <3>2. BoxVfs' = [BoxVfs EXCEPT ![Vfs(e)][p] = c]
      BY <1>9, <3>1, BoxReads, VfsMapped
    <3> QED
      BY <3>2 DEF c
  <2>2. Box!Tool(e)
    BY <1>1, <1>2, <1>6, <1>7, <1>9, <2>1, BoxReads DEF Box!Tool
  <2> QED
    BY <1>8, <2>2
<1>10. CASE p \notin Tracked
  <2>1. BoxVfs' = BoxVfs
    BY <1>1, <1>10, BoxReads, VfsMapped
  <2>2. Box!Abort(e)
    BY <1>2, <1>6, <1>7, <2>1 DEF Box!Abort
  <2> QED
    BY <1>8, <2>2
<1> QED
  BY <1>9, <1>10

\* While changes are made the phase is "apply", and "return" when none remains.
LEMMA PhaseMapped ==
  ASSUME NEW e \in Execs, pc'[e] \in {"save", "detect", "delete", "persist", "return"},
         pc'[e] = "return" =>
           call'[e].created = {} /\ call'[e].doomed = {} /\ call'[e].fresh = {}
  PROVE  Phase(pc'[e]) \in Box!Phases(BoxRow(e)')
<1> DEFINE row == BoxRow(e)'
<1>1. row.due = DueOf(e)' /\ row.fresh = FreshOf(e)'
  BY RowIs, RowFields
<1>2. CASE pc'[e] # "return"
  BY <1>2, PhaseIs DEF Box!Phases
<1>3. CASE pc'[e] = "return"
  <2>1. DueOf(e)' = {}
    BY <1>3 DEF DueOf, DueChanges
  <2>2. FreshOf(e)' = {}
    BY <1>3 DEF FreshOf
  <2> QED
    BY <1>1, <1>3, <2>1, <2>2, PhaseIs DEF Box!Phases
<1> QED
  BY <1>2, <1>3

\* A step that changes nothing a sandbox shows, unless it was the last.
LEMMA FinishMapped ==
  ASSUME NEW e \in Execs, \A f \in Execs \ {e} : Same(f), BoxRow(e)' = BoxRow(e),
         BoxVfs' = BoxVfs, bytes' = bytes, Phase(pc[e]) = "apply",
         Phase(pc'[e]) \in Box!Phases(BoxRow(e)')
  PROVE  Box!Finish(e) \/ UNCHANGED Box!vars
<1>1. BoxAt[e] = "apply" /\ BoxTask[e] = BoxRow(e)
  BY BoxReads
<1>2. Phase(pc'[e]) \in {"apply", "return"}
  BY DEF Box!Phases
<1>3. CASE Phase(pc'[e]) = "apply"
  BY <1>3, StutterMapped
<1>4. CASE Phase(pc'[e]) = "return"
  <2>1. Box!Step(e, "return", BoxTask[e])
    BY <1>1, <1>4, StepMapped
  <2> QED
    BY <1>1, <1>4, <2>1 DEF Box!Finish
<1> QED
  BY <1>2, <1>3, <1>4

\* The last of the local variables is the same in both.
LEMMA FreshSame ==
  ASSUME NEW e \in Execs, call'[e].fresh = call[e].fresh, pc[e] # "return",
         pc'[e] = "return" => call'[e].fresh = {}
  PROVE  FreshOf(e)' = FreshOf(e)
BY DEF FreshOf

\* A saved file is a change that is due, if it is tracked.
LEMMA SaveBox ==
  ASSUME BoxInv, NEW e \in Execs, Save(e)
  PROVE  /\ Ready(e)'
         /\ Box!Apply(e) \/ Box!Finish(e) \/ UNCHANGED Box!vars
<1> TypeOK /\ Ready(e) /\ Own(e)
  BY DEF BoxInv, KeptInv, SyncInv
<1>1. PICK file \in call[e].created :
        LET left == call[e].created \ {file} IN
        /\ vfs' = [vfs EXCEPT ![Vfs(e)][file[1]] = file[2]]
        /\ call' = [call EXCEPT ![e].created = left, ![e].reported = @ \cup {file[1]}]
        /\ past' = Stir(e, file[1])
        /\ Goto(e, IF left # {} THEN "save" ELSE AfterReport(e))
  BY DEF Save
<1> DEFINE left == call[e].created \ {file}
<1>2. file \in Paths \X Contents /\ call[e].created \subseteq Paths \X Contents
  BY Fields
<1>3. file = <<file[1], file[2]>> /\ file[1] \in Paths /\ file[2] \in Contents
      /\ file[2] # None
  BY <1>2
<1>4. past'[e].did = past[e].did /\ pc[e] = "save" /\ bytes' = bytes
  BY <1>1, <1>3, StirSame DEF Save
<1>5. \A f \in Execs \ {e} : Same(f)
  BY <1>1, <1>3, StirSame DEF Same, Goto, TypeOK
<1>6. /\ call'[e].created = left
      /\ call'[e].reported = call[e].reported \cup {file[1]}
      /\ call'[e].doomed = call[e].doomed
      /\ call'[e].fresh = call[e].fresh
      /\ call'[e].loaded = call[e].loaded
      /\ call'[e].listed = call[e].listed
      /\ call'[e].sent = call[e].sent
  <2>1. call[e] \in CallRows /\ call \in [Execs -> CallRows]
    BY DEF TypeOK
  <2> QED
    BY <1>1, <2>1 DEF CallRows
<1>7. /\ pc'[e] \in {"save", "delete", "persist", "return"}
      /\ pc'[e] = "persist" => call[e].fresh # {}
      /\ pc'[e] = "return" => left = {} /\ call[e].doomed = {} /\ call[e].fresh = {}
  BY <1>1 DEF Goto, AfterReport, AfterFiles, TypeOK
<1>8. Ready(e)'
  BY <1>6, <1>7 DEF Ready
<1>9. Phase(pc'[e]) \in Box!Phases(BoxRow(e)')
  BY <1>6, <1>7, PhaseMapped
<1>10. Phase(pc[e]) = "apply" /\ BoxAt[e] = "apply"
  BY <1>4, PhaseIs, AtIs
<1>11. /\ ListedOf(e)' = ListedOf(e) /\ SentOf(e)' = SentOf(e) /\ DidOf(e)' = DidOf(e)
       /\ FreshOf(e)' = FreshOf(e)
  BY <1>4, <1>6, <1>7, FieldsSame, FreshSame
<1> HIDE DEF left
<1>12. CASE file[1] \in Tracked
  <2>1. file \in DueOf(e) /\ DueOf(e)' = DueOf(e) \ {file}
    BY <1>3, <1>6, <1>12 DEF DueOf, DueChanges, left
  <2>2. ReportedOf(e)' = ReportedOf(e) \cup {file[1]}
    BY <1>6, <1>12 DEF ReportedOf
  <2>3. BoxTask[e].due = DueOf(e) /\ BoxTask[e].reported = ReportedOf(e)
    BY BoxFields
  <2>4. Box!Reported(e, file) = ReportedOf(e) \cup {file[1]}
    BY <1>3, <2>3 DEF Box!Reported
  <2>5. BoxRow(e)' = [BoxRow(e) EXCEPT !.due = DueOf(e) \ {file},
                                       !.reported = ReportedOf(e) \cup {file[1]}]
    <3> DEFINE x == DueOf(e) \ {file}
               y == ReportedOf(e) \cup {file[1]}
    <3>1. BoxRow(e)' = Row(call[e].loaded, ListedOf(e), SentOf(e), DidOf(e), x, y,
                           FreshOf(e))
      BY <1>6, <1>11, <2>1, <2>2, RowIs
    <3> HIDE DEF x, y
    <3>2. BoxRow(e)' = [BoxRow(e) EXCEPT !.due = x, !.reported = y]
      BY <3>1, RowApplied
    <3> QED
      BY <3>2 DEF x, y
  <2>6. BoxRow(e)' = [BoxTask[e] EXCEPT !.due = BoxTask[e].due \ {file},
                                        !.reported = Box!Reported(e, file)]
    BY <2>3, <2>4, <2>5, BoxReads
  <2>7. BoxVfs' = [BoxVfs EXCEPT ![Box!Vfs(e)][file[1]] = file[2]]
    <3>1. Vfs(e) \in VfsIds /\ Box!Vfs(e) = Vfs(e)
      BY BoxReads
    <3>2. vfs' = [vfs EXCEPT ![Vfs(e)][file[1]] = file[2]]
      BY <1>1
    <3>3. BoxVfs' = [BoxVfs EXCEPT ![Vfs(e)][file[1]] = file[2]]
      BY <1>3, <1>12, <3>1, <3>2, VfsMapped
    <3> QED
      BY <3>1, <3>3
  <2>8. Box!Step(e, Phase(pc'[e]), BoxRow(e)')
    BY <1>5, StepMapped
  <2>9. Box!Apply(e)
    <3> DEFINE row == [BoxTask[e] EXCEPT !.due = BoxTask[e].due \ {file},
                                         !.reported = Box!Reported(e, file)]
    <3>1. \E phase \in Box!Phases(row) : Box!Step(e, phase, row)
      BY <1>9, <2>6, <2>8
    <3> QED
      BY <1>4, <1>10, <2>1, <2>3, <2>7, <3>1 DEF Box!Apply
  <2> QED
    BY <1>8, <2>9
<1>13. CASE file[1] \notin Tracked
  <2>1. DueOf(e)' = DueOf(e)
    BY <1>6, <1>13 DEF DueOf, DueChanges, left
  <2>2. ReportedOf(e)' = ReportedOf(e)
    BY <1>6, <1>13 DEF ReportedOf
  <2>3. BoxRow(e)' = BoxRow(e)
    BY <1>6, <1>11, <2>1, <2>2, RowIs
  <2>4. BoxVfs' = BoxVfs
    BY <1>1, <1>3, <1>13, VfsMapped, BoxReads
  <2> QED
    BY <1>4, <1>5, <1>8, <1>9, <1>10, <2>3, <2>4, FinishMapped
<1> QED
  BY <1>12, <1>13

\* A deleted file is a change that is due.
LEMMA DeleteBox ==
  ASSUME BoxInv, NEW e \in Execs, Delete(e)
  PROVE  /\ Ready(e)'
         /\ Box!Apply(e) \/ Box!Finish(e) \/ UNCHANGED Box!vars
<1> TypeOK /\ Ready(e) /\ Own(e)
  BY DEF BoxInv, KeptInv, SyncInv
<1>1. PICK p \in call[e].doomed :
        LET left == call[e].doomed \ {p} IN
        /\ vfs' = [vfs EXCEPT ![Vfs(e)][p] = None]
        /\ call' = [call EXCEPT ![e].doomed = left]
        /\ past' = Stir(e, p)
        /\ Goto(e, IF left # {} THEN "delete" ELSE AfterFiles(e))
  BY DEF Delete
<1> DEFINE left == call[e].doomed \ {p}
           change == <<p, None>>
<1>2. p \in Paths /\ call[e].created \subseteq Paths \X Contents
  BY Fields
<1>3. pc[e] = "delete" /\ bytes' = bytes /\ past'[e].did = past[e].did
  BY <1>1, <1>2, StirSame DEF Delete
<1>4. \A f \in Execs \ {e} : Same(f)
  BY <1>1, <1>2, StirSame DEF Same, Goto, TypeOK
<1>5. /\ call'[e].created = call[e].created
      /\ call'[e].reported = call[e].reported
      /\ call'[e].doomed = left
      /\ call'[e].fresh = call[e].fresh
      /\ call'[e].loaded = call[e].loaded
      /\ call'[e].listed = call[e].listed
      /\ call'[e].sent = call[e].sent
  <2>1. call[e] \in CallRows /\ call \in [Execs -> CallRows]
    BY DEF TypeOK
  <2> QED
    BY <1>1, <2>1 DEF CallRows
<1>6. call[e].created = {}
  BY <1>3 DEF BoxInv, KeptInv, Kept, Spent, Late
<1>7. /\ pc'[e] \in {"delete", "persist", "return"}
      /\ pc'[e] = "persist" => call[e].fresh # {}
      /\ pc'[e] = "return" => left = {} /\ call[e].fresh = {}
  BY <1>1 DEF Goto, AfterFiles, TypeOK
<1>8. Ready(e)'
  BY <1>5, <1>7 DEF Ready
<1>9. Phase(pc'[e]) \in Box!Phases(BoxRow(e)')
  BY <1>5, <1>6, <1>7, PhaseMapped
<1>10. BoxAt[e] = "apply" /\ Phase(pc[e]) = "apply"
  BY <1>3, AtIs, PhaseIs
<1>11. /\ ListedOf(e)' = ListedOf(e) /\ SentOf(e)' = SentOf(e) /\ DidOf(e)' = DidOf(e)
       /\ ReportedOf(e)' = ReportedOf(e) /\ FreshOf(e)' = FreshOf(e)
  BY <1>3, <1>5, <1>7, FieldsSame, FreshSame
<1>12. change[1] = p /\ change[2] = None
  OBVIOUS
<1>13. /\ DueOf(e) = {<<q, None>> : q \in call[e].doomed \cap Tracked}
       /\ DueOf(e)' = {<<q, None>> : q \in left \cap Tracked}
  BY <1>5, <1>6 DEF DueOf, DueChanges
<1>14. CASE p \in Tracked
  <2>1. change \in DueOf(e) /\ DueOf(e)' = DueOf(e) \ {change}
    BY <1>13, <1>14
  <2> HIDE DEF left, change
  <2>2. BoxTask[e].due = DueOf(e) /\ Box!Reported(e, change) = ReportedOf(e)
    BY <1>12, BoxFields DEF Box!Reported
  <2> DEFINE row == [BoxTask[e] EXCEPT !.due = BoxTask[e].due \ {change},
                                       !.reported = Box!Reported(e, change)]
  <2>3. BoxRow(e)' = row
    <3> DEFINE x == DueOf(e) \ {change}
    <3>1. BoxRow(e)' = Row(call[e].loaded, ListedOf(e), SentOf(e), DidOf(e), x,
                           ReportedOf(e), FreshOf(e))
      BY <1>5, <1>11, <2>1, RowIs
    <3> HIDE DEF x
    <3>2. BoxRow(e)' = [BoxRow(e) EXCEPT !.due = x, !.reported = ReportedOf(e)]
      BY <3>1, RowApplied
    <3> QED
      BY <2>2, <3>2, BoxFields DEF x
  <2>4. BoxVfs' = [BoxVfs EXCEPT ![Box!Vfs(e)][change[1]] = change[2]]
    <3>1. Vfs(e) \in VfsIds /\ Box!Vfs(e) = Vfs(e)
      BY BoxReads
    <3>2. vfs' = [vfs EXCEPT ![Vfs(e)][p] = None]
      BY <1>1
    <3>3. BoxVfs' = [BoxVfs EXCEPT ![Vfs(e)][p] = None]
      BY <1>2, <1>14, <3>1, <3>2, VfsMapped
    <3> QED
      BY <1>12, <3>1, <3>3
  <2>5. \E phase \in Box!Phases(row) : Box!Step(e, phase, row)
    <3>1. Box!Step(e, Phase(pc'[e]), row)
      BY <1>4, <2>3, StepMapped
    <3> QED
      BY <1>9, <2>3, <3>1
  <2>6. Box!Apply(e)
    BY <1>3, <1>10, <2>1, <2>2, <2>4, <2>5 DEF Box!Apply
  <2> QED
    BY <1>8, <2>6
<1>15. CASE p \notin Tracked
  <2>1. DueOf(e)' = DueOf(e)
    BY <1>13, <1>15
  <2>2. BoxRow(e)' = BoxRow(e)
    BY <1>5, <1>11, <2>1, RowIs
  <2>3. BoxVfs' = BoxVfs
    BY <1>1, <1>2, <1>15, VfsMapped, BoxReads
  <2> QED
    BY <1>3, <1>4, <1>8, <1>9, <1>10, <2>2, <2>3, FinishMapped
<1> QED
  BY <1>14, <1>15

\* What is new in the workspace is reported if there is nothing to publish.
LEMMA DetectBox ==
  ASSUME BoxInv, NEW e \in Execs, Detect(e)
  PROVE  /\ Ready(e)'
         /\ Box!Report(e) \/ Box!Finish(e) \/ UNCHANGED Box!vars
<1> TypeOK /\ Ready(e)
  BY DEF BoxInv, KeptInv, SyncInv
<1>1. /\ pc[e] = "detect" /\ vfs' = vfs /\ past' = past /\ bytes' = bytes
      /\ \A f \in Execs \ {e} : Same(f)
  BY DEF Detect, stored, Same, Goto, TypeOK
<1>2. /\ call'[e].created = call[e].created
      /\ call'[e].doomed = call[e].doomed
      /\ call'[e].fresh = call[e].fresh
      /\ call'[e].loaded = call[e].loaded
      /\ call'[e].listed = call[e].listed
      /\ call'[e].sent = call[e].sent
      /\ \/ call'[e].reported = Present(vfs[Vfs(e)]) \ call[e].listed
         \/ call'[e].reported = call[e].reported
  <2>1. call[e] \in CallRows /\ call \in [Execs -> CallRows]
    BY DEF TypeOK
  <2> QED
    BY <2>1 DEF Detect, CallRows
<1>3. /\ pc'[e] \in {"delete", "persist", "return"}
      /\ pc'[e] = "persist" => call[e].fresh # {}
      /\ pc'[e] = "return" => call[e].doomed = {} /\ call[e].fresh = {}
  BY DEF Detect, Goto, AfterReport, AfterFiles, TypeOK
<1>4. call[e].created = {} /\ call[e].reported = {}
  BY <1>1 DEF BoxInv, KeptInv, Kept, Spent, Late, Ready
<1>5. Ready(e)'
  BY <1>2, <1>3 DEF Ready
<1>6. Phase(pc'[e]) \in Box!Phases(BoxRow(e)')
  BY <1>2, <1>3, <1>4, PhaseMapped
<1>7. BoxAt[e] = "apply" /\ Phase(pc[e]) = "apply" /\ BoxVfs' = BoxVfs
  BY <1>1, AtIs, PhaseIs, VfsSame
<1>8. /\ ListedOf(e)' = ListedOf(e) /\ SentOf(e)' = SentOf(e) /\ DidOf(e)' = DidOf(e)
      /\ DueOf(e)' = DueOf(e) /\ FreshOf(e)' = FreshOf(e)
  BY <1>1, <1>2, <1>3, FieldsSame, FreshSame
<1>9. CASE call'[e].reported = Present(vfs[Vfs(e)]) \ call[e].listed
  <2>1. ReportedOf(e)' = Box!Present(BoxVfs[Box!Vfs(e)]) \ BoxTask[e].listed
    <3>1. Present(vfs[Vfs(e)]) \cap Tracked = Box!Present(BoxVfs[Box!Vfs(e)])
      <4>1. Present(vfs[Vfs(e)]) \cap Tracked = Box!Present(BoxVfs[Vfs(e)])
        BY BoxReads DEF Present, Box!Present
      <4> QED
        BY <4>1, BoxReads
    <3>2. ReportedOf(e)' = (Present(vfs[Vfs(e)]) \ call[e].listed) \cap Tracked
      BY <1>9 DEF ReportedOf
    <3>3. BoxTask[e].listed = call[e].listed \cap Tracked
      BY BoxFields DEF ListedOf
    <3> QED
      BY <3>1, <3>2, <3>3
  <2> DEFINE x == Box!Present(BoxVfs[Box!Vfs(e)]) \ BoxTask[e].listed
             row == [BoxTask[e] EXCEPT !.reported = x]
  <2>2. BoxRow(e)' = row
    <3> HIDE DEF x
    <3>1. BoxRow(e)' = [BoxRow(e) EXCEPT !.reported = x]
      BY <1>2, <1>8, <2>1, RowIs, RowReported DEF x
    <3> QED
      BY <3>1, BoxFields
  <2>3. BoxTask[e].reported = {}
    BY <1>4, BoxFields DEF ReportedOf
  <2>4. \A change \in BoxTask[e].due : change[2] = None
    BY <1>4, BoxFields DEF DueOf, DueChanges
  <2>5. \E phase \in Box!Phases(row) : Box!Step(e, phase, row)
    <3>1. Box!Step(e, Phase(pc'[e]), row)
      BY <1>1, <2>2, StepMapped
    <3> QED
      BY <1>6, <2>2, <3>1
  <2>6. UNCHANGED <<BoxVfs, bytes>>
    BY <1>1, <1>7
  <2>7. Box!Report(e)
    BY <1>7, <2>3, <2>4, <2>5, <2>6 DEF Box!Report
  <2> QED
    BY <1>5, <2>7
<1>10. CASE call'[e].reported = call[e].reported
  <2>1. ReportedOf(e)' = ReportedOf(e)
    BY <1>10, FieldsSame
  <2>2. BoxRow(e)' = BoxRow(e)
    BY <1>2, <1>8, <2>1, RowIs
  <2> QED
    BY <1>1, <1>5, <1>6, <1>7, <2>2, FinishMapped
<1> QED
  BY <1>2, <1>9, <1>10

\* The variables are saved when no file remains to be changed.
LEMMA PersistBox ==
  ASSUME BoxInv, NEW e \in Execs, Persist(e)
  PROVE  Ready(e)' /\ Box!Persist(e)
<1> TypeOK /\ Ready(e)
  BY DEF BoxInv, KeptInv, SyncInv
<1>1. /\ pc[e] = "persist" /\ pc'[e] = "return" /\ vfs' = vfs /\ call' = call /\ past' = past
      /\ bytes' = [bytes EXCEPT ![Thread[e]] = call[e].fresh]
      /\ \A f \in Execs \ {e} : Same(f)
  BY DEF Persist, Goto, TypeOK, Same
<1>2. call[e].created = {} /\ call[e].doomed = {} /\ call[e].fresh # {}
  BY <1>1 DEF BoxInv, KeptInv, Kept, Spent, Late, Ready
<1>3. Ready(e)'
  BY <1>1, <1>2 DEF Ready
<1>4. BoxAt[e] = "apply" /\ Phase(pc'[e]) = "return" /\ BoxVfs' = BoxVfs
  BY <1>1, AtIs, PhaseIs, VfsSame
<1>5. BoxTask[e].due = {} /\ BoxTask[e].fresh = call[e].fresh
  BY <1>1, <1>2, BoxFields DEF DueOf, DueChanges, FreshOf
<1>6. BoxRow(e)' = [BoxTask[e] EXCEPT !.fresh = {}]
  <2>1. /\ ListedOf(e)' = ListedOf(e) /\ SentOf(e)' = SentOf(e) /\ DidOf(e)' = DidOf(e)
        /\ DueOf(e)' = DueOf(e) /\ ReportedOf(e)' = ReportedOf(e)
    BY <1>1, FieldsSame
  <2>2. FreshOf(e)' = {}
    BY <1>1 DEF FreshOf
  <2> QED
    BY <1>1, <2>1, <2>2, RowIs, RowFresh, BoxFields
<1>7. Box!Step(e, "return", [BoxTask[e] EXCEPT !.fresh = {}])
  BY <1>1, <1>4, <1>6, StepMapped
<1>8. bytes' = [bytes EXCEPT ![Thread[e]] = BoxTask[e].fresh]
  BY <1>1, <1>5
<1>9. Box!Persist(e)
  BY <1>2, <1>4, <1>5, <1>7, <1>8 DEF Box!Persist
<1> QED
  BY <1>3, <1>9

\* What a worker collects is what comes to the workspace from a sandbox, and what it
\* misses is what goes, but for files of earlier requests that hide a change.
Hidden(e, did, found) ==
  {p \in Tracked : /\ call[e].sent[p] = None /\ found[p] # None
                   /\ did[p] = "left" \/ Size[found[p]] = Size[e]}

LEMMA CollectedMapped ==
  ASSUME TypeOK, NEW e \in Execs, NEW w \in Workers, NEW did \in Programs[e],
         Kind[e] # "shell", NEW found, found = Mounted(call[e].sent, fs[w]),
         NEW final, final = After(e, found, did)
  PROVE  /\ Box!Published(e, did, Hidden(e, did, found))
              = Noticed(found, did, final) \cap Tracked
         /\ Box!Withdrawn(e, did, Hidden(e, did, found))
              = Doomed(e, final) \cap Tracked
<1>1. /\ did \in [Paths -> Effects] /\ call[e].sent \in FileMaps /\ fs[w] \in FileMaps
      /\ found \in FileMaps
  BY Fields, MountedTyped DEF TypeOK
<1>2. ASSUME NEW p \in Tracked
      PROVE  /\ call[e].sent[p] # None => found[p] = call[e].sent[p]
             /\ BoxTask[e].sent[p] = call[e].sent[p]
             /\ did[p] = "left" => final[p] = found[p]
             /\ did[p] = "removed" => final[p] = None
             /\ did[p] \in {"wrote", "slipped"} => final[p] = e
             /\ did[p] \in {"left", "removed", "wrote", "slipped"}
  <2>1. p \in Paths
    OBVIOUS
  <2>2. call[e].sent[p] # None => found[p] = call[e].sent[p]
    BY <2>1 DEF Mounted
  <2>3. BoxTask[e].sent[p] = call[e].sent[p]
    BY SentShown
  <2>4. did[p] \in {"left", "removed", "wrote", "slipped"}
    BY <1>1, <2>1 DEF Effects
  <2> QED
    BY <1>1, <2>1, <2>2, <2>3, <2>4, AfterAt
<1>3. e # None
  BY DEF Contents
<1>4. ASSUME NEW p \in Tracked
      PROVE  p \in Box!Published(e, did, Hidden(e, did, found))
               <=> p \in Noticed(found, did, final)
  <2>1. p \in Noticed(found, did, final)
          <=> /\ final[p] # None
              /\ did[p] = "wrote" \/ found[p] = None \/ Size[final[p]] # Size[found[p]]
    BY DEF Noticed
  <2>2. p \in Box!Published(e, did, Hidden(e, did, found))
          <=> \/ did[p] = "wrote"
              \/ /\ did[p] = "slipped"
                 /\ \/ call[e].sent[p] = None /\ p \notin Hidden(e, did, found)
                    \/ call[e].sent[p] # None /\ Size[call[e].sent[p]] # Size[e]
    BY <1>2 DEF Box!Published
  <2>3. CASE did[p] = "left" \/ did[p] = "removed"
    <3>1. ~ (p \in Noticed(found, did, final))
      BY <1>2, <2>1, <2>3
    <3> QED
      BY <2>2, <2>3, <3>1
  <2>4. CASE did[p] = "wrote"
    BY <1>2, <1>3, <2>1, <2>2, <2>4
  <2>5. CASE did[p] = "slipped" /\ call[e].sent[p] # None
    <3>1. final[p] = e /\ found[p] = call[e].sent[p]
      BY <1>2, <2>5
    <3> QED
      BY <1>3, <2>1, <2>2, <2>5, <3>1
  <2>6. CASE did[p] = "slipped" /\ call[e].sent[p] = None
    <3>1. final[p] = e
      BY <1>2, <2>6
    <3>2. p \in Hidden(e, did, found) <=> found[p] # None /\ Size[found[p]] = Size[e]
      BY <2>6 DEF Hidden
    <3> QED
      BY <1>3, <2>1, <2>2, <2>6, <3>1, <3>2
  <2> QED
    BY <1>2, <2>3, <2>4, <2>5, <2>6
<1>5. Box!Published(e, did, Hidden(e, did, found)) \subseteq Tracked
  BY DEF Box!Published
<1>6. ASSUME NEW p \in call[e].listed \cap Tracked, p \in Deletable, Kind[e] = "stateful"
      PROVE  p \in Box!Withdrawn(e, did, Hidden(e, did, found)) <=> final[p] = None
  <2>1. p \in Box!Withdrawn(e, did, Hidden(e, did, found))
          <=> \/ did[p] = "removed"
              \/ /\ did[p] = "left" /\ call[e].sent[p] = None
                 /\ p \notin Hidden(e, did, found)
    BY <1>2, <1>6, BoxFields DEF Box!Withdrawn, ListedOf
  <2>2. CASE did[p] = "left"
    <3>1. p \in Hidden(e, did, found) <=> call[e].sent[p] = None /\ found[p] # None
      BY <2>2 DEF Hidden
    <3> QED
      BY <1>2, <2>1, <2>2, <3>1
  <2>3. CASE did[p] # "left"
    BY <1>2, <1>3, <2>1, <2>3
  <2> QED
    BY <2>2, <2>3
<1>7. /\ Box!Withdrawn(e, did, Hidden(e, did, found))
            \subseteq call[e].listed \cap Tracked \cap Deletable
      /\ Kind[e] # "stateful" => Box!Withdrawn(e, did, Hidden(e, did, found)) = {}
  BY BoxFields DEF Box!Withdrawn, ListedOf
<1>8. ASSUME NEW p
      PROVE  p \in Box!Withdrawn(e, did, Hidden(e, did, found))
               <=> p \in Doomed(e, final) \cap Tracked
  BY <1>6, <1>7 DEF Doomed
<1> QED
  BY <1>4, <1>5, <1>8 DEF Noticed

\* The variables a request starts with are those a sandbox may start with.
LEMMA SavesMapped ==
  ASSUME TypeOK, NEW e \in Execs, NEW w \in Workers, NEW start \in Variables(e, w),
         NEW fresh \in IF Kind[e] = "stateful" THEN {{}, start \cup {e}} ELSE {{}}
  PROVE  fresh \in Box!Saves(e)
<1>1. BoxTask[e].loaded = call[e].loaded /\ globals[w] \in SUBSET Execs
      /\ call[e].loaded \in SUBSET Execs
  BY BoxFields, Fields DEF TypeOK
<1>2. Kind[e] = "stateful" => start \in Box!Start(e)
  BY <1>1, VariablesTyped, StartKnown DEF Box!Start
<1> QED
  BY <1>2 DEF Box!Saves

\* The host has a result, and a sandbox has run.
LEMMA ReceivedBox ==
  ASSUME BoxInv, NEW e \in Execs, pc[e] = "run", vfs' = vfs, bytes' = bytes,
         NEW found, NEW did \in Programs[e], NEW final, NEW created \in SUBSET Paths,
         NEW doomed \in SUBSET Paths, NEW fresh \in Box!Saves(e),
         Received(e, found, did, final, created, doomed, fresh),
         NEW hidden \in SUBSET {p \in Tracked : call[e].sent[p] = None},
         Box!Published(e, did, hidden) = created \cap Tracked,
         \A p \in created \cap Tracked : final[p] = e,
         Box!Withdrawn(e, did, hidden) = doomed \cap Tracked
  PROVE  Ready(e)' /\ Box!Run(e)
<1> TypeOK /\ Ready(e)
  BY DEF BoxInv, KeptInv, SyncInv
<1>1. /\ pc'[e] \in {"detect", "save"}
      /\ call'[e].created = {<<p, final[p]>> : p \in created}
      /\ call'[e].doomed = doomed
      /\ call'[e].fresh = fresh
      /\ call'[e].loaded = call[e].loaded
      /\ call'[e].listed = call[e].listed
      /\ call'[e].sent = call[e].sent
      /\ past'[e].did = did
  BY ReceivedSelf
<1>2. call'[e].reported = call[e].reported /\ call[e].reported = {}
  BY ReceivedRest DEF BoxInv, KeptInv, Kept, ReportOwn
<1>3. \A f \in Execs \ {e} : Same(f)
  BY ReceivedOthers
<1>5. Ready(e)'
  BY <1>1, <1>2 DEF Ready
<1>6. BoxAt[e] = "run" /\ Phase(pc'[e]) = "apply" /\ BoxVfs' = BoxVfs
  BY <1>1, AtIs, PhaseIs, VfsSame
<1>7. DueOf(e)' = Box!Changes(e, did, hidden)
  <2>1. {file \in call'[e].created : file[1] \in Tracked}
          = {<<p, e>> : p \in created \cap Tracked}
    BY <1>1
  <2> QED
    BY <1>1, <2>1 DEF DueOf, DueChanges, Box!Changes
<1>8. DidOf(e)' = Box!Done(did)
  BY <1>1 DEF DidOf, Box!Done
<1>9. /\ ListedOf(e)' = ListedOf(e) /\ SentOf(e)' = SentOf(e)
      /\ ReportedOf(e)' = ReportedOf(e) /\ FreshOf(e)' = fresh
  BY <1>1, <1>2, FieldsSame DEF FreshOf
<1>10. BoxRow(e)' = Box!Ran(e, did, hidden, fresh)
  <2>1. BoxRow(e)' = Row(call[e].loaded, ListedOf(e), SentOf(e), Box!Done(did),
                         Box!Changes(e, did, hidden), ReportedOf(e), fresh)
    BY <1>1, <1>7, <1>8, <1>9, RowIs
  <2> QED
    BY <2>1, RanIs
<1>11. Box!Step(e, "apply", Box!Ran(e, did, hidden, fresh))
  BY <1>3, <1>6, <1>10, StepMapped
<1>12. hidden \in SUBSET {p \in Tracked : BoxTask[e].sent[p] = None}
  BY SentShown
<1>13. UNCHANGED <<BoxVfs, bytes>>
  BY <1>6
<1>14. Box!Run(e)
  BY <1>6, <1>11, <1>12, <1>13 DEF Box!Run
<1> QED
  BY <1>5, <1>14

\* A request that is lost or repeated does not show.
LEMMA RunBox ==
  ASSUME BoxInv, NEW e \in Execs, NEW w \in Workers, Run(e, w)
  PROVE  /\ Ready(e)'
         /\ Box!Run(e) \/ Box!Abort(e) \/ UNCHANGED Box!vars
<1> TypeOK /\ Ready(e)
  BY DEF BoxInv, KeptInv, SyncInv
<1>1. PICK did \in Programs[e], start \in Variables(e, w) :
        LET found == Mounted(call[e].sent, fs[w])
            final == After(e, found, did) IN
        \/ \E fresh \in IF Kind[e] = "stateful" THEN {{}, start \cup {e}} ELSE {{}} :
             Received(e, found, did, final, Noticed(found, did, final), Doomed(e, final),
                      fresh)
        \/ End(e)
        \/ UNCHANGED <<pc, call, past>>
  BY DEF Run
<1> DEFINE found == Mounted(call[e].sent, fs[w])
           final == After(e, found, did)
           doomed == Doomed(e, final)
<1>2. pc[e] = "run" /\ Kind[e] # "shell" /\ vfs' = vfs /\ bytes' = bytes
  BY DEF Run, stored
<1>3. BoxAt[e] = "run" /\ BoxVfs' = BoxVfs
  BY <1>2, AtIs, VfsSame
<1>4. CASE End(e)
  <2>1. Box!Abort(e)
    BY <1>2, <1>3, <1>4, EndMapped DEF Box!Abort
  <2> QED
    BY <1>4, <2>1, EndReady
<1>5. CASE UNCHANGED <<pc, call, past>>
  <2>1. \A f \in Execs : Same(f)
    BY <1>5 DEF Same
  <2>2. BoxRow(e)' = BoxRow(e) /\ Phase(pc'[e]) = Phase(pc[e])
    BY <1>5 DEF BoxRow
  <2> QED
    BY <1>2, <1>3, <2>1, <2>2, SameReady, StutterMapped
<1>6. ASSUME NEW fresh \in IF Kind[e] = "stateful" THEN {{}, start \cup {e}} ELSE {{}},
             Received(e, found, did, final, Noticed(found, did, final), doomed, fresh)
      PROVE  Ready(e)' /\ Box!Run(e)
  <2>1. /\ Box!Published(e, did, Hidden(e, did, found))
             = Noticed(found, did, final) \cap Tracked
        /\ Box!Withdrawn(e, did, Hidden(e, did, found)) = doomed \cap Tracked
    BY <1>2, CollectedMapped
  <2>2. fresh \in Box!Saves(e)
    BY SavesMapped
  <2>3. \A p \in Noticed(found, did, final) \cap Tracked : final[p] = e
    <3>1. did \in [Paths -> Effects] /\ found \in FileMaps
      BY Fields, MountedTyped DEF TypeOK
    <3> QED
      BY <3>1, NoticedWrites
  <2>4. /\ Noticed(found, did, final) \in SUBSET Paths
        /\ Hidden(e, did, found) \in SUBSET {p \in Tracked : call[e].sent[p] = None}
        /\ doomed \in SUBSET Paths
    BY Fields DEF Noticed, Hidden, Doomed
  <2> HIDE DEF found, final, doomed
  <2> QED
    BY <1>2, <1>6, <2>1, <2>2, <2>3, <2>4, ReceivedBox
<1> QED
  BY <1>1, <1>4, <1>5, <1>6

\* A shell command has files and a process of its own.
LEMMA RunShellBox ==
  ASSUME BoxInv, NEW e \in Execs, RunShell(e)
  PROVE  /\ Ready(e)'
         /\ Box!Run(e) \/ Box!Abort(e)
<1> TypeOK /\ Ready(e)
  BY DEF BoxInv, KeptInv, SyncInv
<1>1. pc[e] = "run" /\ Kind[e] = "shell" /\ vfs' = vfs /\ bytes' = bytes
  BY DEF RunShell, stored
<1>2. BoxAt[e] = "run" /\ BoxVfs' = BoxVfs
  BY <1>1, AtIs, VfsSame
<1>3. CASE End(e)
  <2>1. Box!Abort(e)
    BY <1>1, <1>2, <1>3, EndMapped DEF Box!Abort
  <2> QED
    BY <1>3, <2>1, EndReady
<1>4. ASSUME NEW did \in Programs[e],
             Received(e, call[e].sent, did, After(e, call[e].sent, did),
                      {p \in Paths : did[p] \in {"wrote", "slipped"}}, {}, {})
      PROVE  Ready(e)' /\ Box!Run(e)
  <2> DEFINE final == After(e, call[e].sent, did)
             created == {p \in Paths : did[p] \in {"wrote", "slipped"}}
  <2>1. did \in [Paths -> Effects] /\ call[e].sent \in FileMaps
    BY Fields
  <2>2. \A p \in created \cap Tracked : final[p] = e
    BY <2>1, AfterAt
  <2> DEFINE none == {}
             sent == call[e].sent
  <2>3. Box!Published(e, did, none) = created \cap Tracked
    BY <1>1 DEF Box!Published
  <2>4. Box!Withdrawn(e, did, none) = none \cap Tracked /\ none \in SUBSET Paths
    BY <1>1 DEF Box!Withdrawn
  <2>5. none \in Box!Saves(e)
    BY DEF Box!Saves
  <2>6. created \in SUBSET Paths /\ none \in SUBSET {p \in Tracked : call[e].sent[p] = None}
    OBVIOUS
  <2>7. Received(e, sent, did, final, created, none, none)
    BY <1>4
  <2> HIDE DEF final, created, none, sent
  <2> QED
    BY <1>1, <2>2, <2>3, <2>4, <2>5, <2>6, <2>7, ReceivedBox
<1> QED
  BY <1>3, <1>4 DEF RunShell

\* Whatever an execution does, a sandbox may do.
LEMMA ActMapped ==
  ASSUME BoxInv, NEW e \in Execs,
         \/ Load(e) \/ CheckQuota(e) \/ List(e) \/ Fetch(e)
         \/ RunShell(e) \/ \E w \in Workers : Run(e, w)
         \/ Save(e) \/ Detect(e) \/ Delete(e) \/ Persist(e)
         \/ Return(e) \/ Fail(e) \/ Tool(e)
  PROVE  /\ Ready(e)'
         /\ Box!Act(e) \/ UNCHANGED Box!vars
<1>1. CASE Load(e) \/ CheckQuota(e) \/ List(e) \/ Fetch(e)
  BY <1>1, EarlyBox DEF Box!Act
<1>2. CASE RunShell(e)
  BY <1>2, RunShellBox DEF Box!Act
<1>3. CASE \E w \in Workers : Run(e, w)
  BY <1>3, RunBox DEF Box!Act
<1>4. CASE Save(e)
  BY <1>4, SaveBox DEF Box!Act
<1>5. CASE Detect(e)
  BY <1>5, DetectBox DEF Box!Act
<1>6. CASE Delete(e)
  BY <1>6, DeleteBox DEF Box!Act
<1>7. CASE Persist(e)
  BY <1>7, PersistBox DEF Box!Act
<1>8. CASE Return(e) \/ Fail(e)
  BY <1>8, EndBox DEF Box!Act
<1>9. CASE Tool(e)
  BY <1>9, ToolBox DEF Box!Act
<1> QED
  BY <1>1, <1>2, <1>3, <1>4, <1>5, <1>6, <1>7, <1>8, <1>9

LEMMA BoxInit ==
  ASSUME Init
  PROVE  Box!Init /\ \A f \in Execs : Ready(f)
<1>1. \A f \in Execs : call[f] = NoCall /\ past[f] = NoPast /\ pc[f] = Entry[Kind[f]]
  BY DEF Init
<1>2. \A f \in Execs : Ready(f)
  <2>1. \A f \in Execs : pc[f] \in Before
    BY <1>1, EntryTyped
  <2>2. NoCall.doomed = {}
    BY DEF NoCall
  <2> QED
    BY <1>1, <2>1, <2>2 DEF Ready, Before
<1>3. BoxTask = [e \in Execs |-> Box!Blank]
  BY <1>1, RowBlank DEF BoxTask
<1>4. BoxAt = [e \in Execs |-> Box!Entry[Kind[e]]]
  <2> SUFFICES ASSUME NEW e \in Execs PROVE Phase(Entry[Kind[e]]) = Box!Entry[Kind[e]]
    BY <1>1 DEF BoxAt
  <2>1. Kind[e] \in {"stateful", "stateless", "shell", "api"}
    BY DEF Kinds
  <2> QED
    BY <2>1, PhaseIs DEF Entry, Box!Entry
<1>5. BoxVfs = [v \in {Workspace[t] : t \in Threads} |->
                  [p \in Tracked |-> IF p \in Seeded[v] THEN Seed ELSE None]]
  BY DEF Init, BoxVfs, VfsIds
<1> QED
  BY <1>2, <1>3, <1>4, <1>5 DEF Init, Box!Init

LEMMA BoxStep ==
  ASSUME BoxInv, [Next]_vars
  PROVE  /\ \A f \in Execs : Ready(f)'
         /\ [Box!Next]_(Box!vars)
<1> TypeOK /\ \A f \in Execs : Ready(f)
  BY DEF BoxInv, KeptInv, SyncInv
<1>1. CASE UNCHANGED <<vfs, bytes, pc, call, past>>
  <2>1. \A f \in Execs : Ready(f)'
    BY <1>1, SameReady DEF Same
  <2>2. UNCHANGED Box!vars
    BY <1>1 DEF Box!vars, BoxVfs, BoxAt, BoxTask, BoxRow
  <2> QED
    BY <2>1, <2>2
<1>2. ASSUME NEW e \in Execs, Begun(e),
             \/ Load(e) \/ CheckQuota(e) \/ List(e) \/ Fetch(e)
             \/ RunShell(e) \/ \E w \in Workers : Run(e, w)
             \/ Save(e) \/ Detect(e) \/ Delete(e) \/ Persist(e)
             \/ Return(e) \/ Fail(e) \/ Tool(e)
      PROVE  (\A f \in Execs : Ready(f)') /\ [Box!Next]_(Box!vars)
  <2>1. Ready(e)' /\ (Box!Act(e) \/ UNCHANGED Box!vars)
    BY <1>2, ActMapped
  <2>2. \A f \in Execs \ {e} : Ready(f)'
    BY <1>2, OthersApart, SameReady DEF Apart
  <2>3. \A f \in Follows[e] : BoxAt[f] = "done"
    BY <1>2, AtIs DEF Begun
  <2>4. Box!Act(e) => Box!Next
    BY <2>3 DEF Box!Next
  <2> QED
    BY <2>1, <2>2, <2>4
<1>3. ASSUME NEW w \in Workers, Replace(w)
      PROVE  UNCHANGED <<vfs, bytes, pc, call, past>>
  BY <1>3 DEF Replace, stored
<1> QED
  BY <1>1, <1>2, <1>3 DEF Next, vars

\* Workers are shared, keep files and variables from one request to the next, die and
\* serve a request again, and the executions save their files one by one, among each
\* other.  All the same each of them does to tracked files and saved variables what it
\* would do in a sandbox of its own, and answers only when nothing is left to do.
THEOREM ExecutionsSandboxed == Spec => Sandboxed
<1>1. Init => Box!Init /\ \A f \in Execs : Ready(f)
  BY BoxInit
<1>2. KeptInv /\ (\A f \in Execs : Ready(f)) /\ [Next]_vars
        => (\A f \in Execs : Ready(f))'
  BY BoxStep DEF BoxInv
<1>3. KeptInv /\ (\A f \in Execs : Ready(f)) /\ [Next]_vars => [Box!Next]_(Box!vars)
  BY BoxStep DEF BoxInv
<1> QED
  BY <1>1, <1>2, <1>3, KeptInvariant, PTL DEF Spec, Sandboxed, Box!Spec
=============================================================================
