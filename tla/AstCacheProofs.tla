--------------------------- MODULE AstCacheProofs ---------------------------
(***************************************************************************)
(* Theorems about AstCache, for every number of processes, versions and    *)
(* failures: as long as the source is not edited between a parse and the   *)
(* sidecar it leads to, and never goes back in time, a valid entry is the  *)
(* AST of the file and the cache implements FreshRead.                     *)
(***************************************************************************)
EXTENDS AstCache, TLAPS

\* The two conditions the code needs and does not establish (with an edit between
\* a parse and its sidecar the entry vouches for a content it does not have).
NoEditWhileSaving == EditsDuringSave = FALSE
TimeGoesOn == \A e \in EditRel : Mtime[e[1]] < Mtime[e[2]]

(***************************************************************************)
(* The inductive invariant.  An .ast that can be loaded is of the current  *)
(* version whenever a sidecar with the current time is there or about to   *)
(* be, and a process that is past the check of a sidecar will load a       *)
(* version the source has had since its call began.                        *)
(***************************************************************************)
NoAst == ast \in {None, Partial}
AstCurrent == NoAst \/ ast.version = src

SideOK == side \notin {None, Partial} =>
             side.mtime <= Mtime[src] /\ (side.mtime = Mtime[src] => AstCurrent)

SavingPc == {"save", "cleanup", "restat", "open", "dump"}

\* What holds of a process whose state is r.
ReaderOK(r) ==
    /\ Active(r) => src \in r.seen
    /\ r.pc \in {"sidecar", "stat", "load"} => ~r.build
    /\ r.pc = "stat" => r.note.mtime <= Mtime[src] /\ (r.note.mtime = Mtime[src] => AstCurrent)
    /\ r.pc = "load" => NoAst \/ ast.version \in r.seen

WriterOK(r) ==
    /\ r.pc \in SavingPc => r.tu = src
    /\ r.pc \in {"restat", "open", "dump"} => AstCurrent
    /\ r.pc \in {"open", "dump"} => r.note.mtime = Mtime[src]

\* The last conjunct of TypeOK, of one process.
Equipped(r) ==
    /\ r.pc \in {"stat", "load", "open", "dump"} => r.note # None
    /\ r.pc \in SavingPc => r.tu # None

ProcOK(r) == r \in Process /\ Equipped(r) /\ ReaderOK(r) /\ WriterOK(r)

FilesOK ==
    /\ src \in Versions
    /\ NoAst \/ ast \in Tu
    /\ side \in {None, Partial} \/ side \in Sidecar
    /\ failures \in 0..MaxFailures
    /\ SideOK

CacheInv ==
    /\ FilesOK
    /\ proc \in [Procs -> Process]
    /\ \A p \in Procs : ProcOK(proc[p])

LEMMA CacheInvImplies == CacheInv => TypeOK /\ ValidEntryIsFresh
<1> SUFFICES ASSUME CacheInv PROVE TypeOK /\ ValidEntryIsFresh
    OBVIOUS
<1>1. TypeOK
    BY DEF CacheInv, FilesOK, NoAst, ProcOK, Equipped, SavingPc, Saving, TypeOK
<1>2. ValidEntryIsFresh
    BY DEF CacheInv, FilesOK, SideOK, AstCurrent, NoAst, ValidEntryIsFresh
<1> QED BY <1>1, <1>2

(***************************************************************************)
(* A step that leaves the source alone, and changes the .ast only to       *)
(* nothing, to a damaged file or to the current version, breaks nothing    *)
(* that the other processes rely on.                                       *)
(***************************************************************************)
AstMoves == ast' = ast \/ ast' \in {None, Partial} \/ (ast' \in Tu /\ ast'.version = src)

LEMMA OthersUnharmed ==
    ASSUME CacheInv, UNCHANGED src, AstMoves, NEW r, ProcOK(r)
    PROVE  ProcOK(r)'
<1>1. AstCurrent => AstCurrent'
    BY DEF AstMoves, AstCurrent, NoAst
<1>2. ASSUME r.pc = "load" PROVE NoAst' \/ ast'.version \in r.seen
  <2>1. src \in r.seen
      BY <1>2 DEF ProcOK, ReaderOK, Active
  <2> QED BY <1>2, <2>1 DEF AstMoves, NoAst, ProcOK, ReaderOK
<1>3. ReaderOK(r)'
    BY <1>1, <1>2 DEF ProcOK, ReaderOK, Active
<1>4. WriterOK(r)'
    BY <1>1 DEF ProcOK, WriterOK
<1> QED BY <1>3, <1>4 DEF ProcOK, Equipped

LEMMA StepKeeps ==
    ASSUME CacheInv, NEW p \in Procs, NEW r, ProcOK(r)', Step(p, r),
           UNCHANGED src, AstMoves, FilesOK'
    PROVE  CacheInv'
<1>1. r \in Process
    BY DEF ProcOK
<1>2. proc' = [proc EXCEPT ![p] = r] /\ proc \in [Procs -> Process]
    BY DEF Step, CacheInv
<1>3. \A q \in Procs : ProcOK(proc[q])'
  <2> SUFFICES ASSUME NEW q \in Procs PROVE ProcOK(proc[q])'
      OBVIOUS
  <2>1. CASE q = p
      BY <1>2, <2>1
  <2>2. CASE q # p
    <3>1. proc'[q] = proc[q]
        BY <1>2, <2>2
    <3>2. ProcOK(proc[q])
        BY DEF CacheInv
    <3> DEFINE s == proc[q]
    <3>3. ASSUME NEW t, ProcOK(t) PROVE ProcOK(t)'
        BY <3>3, OthersUnharmed
    <3> QED BY <3>1, <3>2, <3>3
  <2> QED BY <2>1, <2>2
<1> QED BY <1>1, <1>2, <1>3 DEF CacheInv
\* A step of process p that touches no file, to the state r.
LEMMA QuietStepKeeps ==
    ASSUME CacheInv, NEW p \in Procs, NEW r, ProcOK(r), Step(p, r),
           UNCHANGED <<src, files>>, failures' \in 0..MaxFailures
    PROVE  CacheInv'
<1>1. AstMoves
    BY DEF AstMoves, files
<1>2. ProcOK(r)'
    BY <1>1, OthersUnharmed
<1>3. FilesOK'
    BY DEF CacheInv, FilesOK, SideOK, AstCurrent, NoAst, files
<1> QED BY <1>1, <1>2, <1>3, StepKeeps

LEMMA IdleOK ==
    ASSUME NEW v \in Versions \union {None}
    PROVE  ProcOK(Idle(v)) /\ ProcOK(Idle(v))'
BY DEF Idle, Process, ProcOK, Equipped, ReaderOK, WriterOK, Active, SavingPc

\* The process goes on to pc with nothing else changed.
LEMMA GoIs ==
    ASSUME proc \in [Procs -> Process], NEW p \in Procs,
           NEW c \in {"idle", "sidecar", "stat", "load", "parse", "save", "cleanup",
                      "restat", "open", "dump", "clear", "clearside", "clearast"},
           Go(p, c)
    PROVE  \E r \in Process :
             /\ Step(p, r) /\ r.pc = c /\ r.build = proc[p].build /\ r.cached = proc[p].cached
             /\ r.tu = proc[p].tu /\ r.note = proc[p].note /\ r.got = proc[p].got
             /\ r.seen = proc[p].seen
<1> DEFINE r == [proc[p] EXCEPT !.pc = c]
<1>1. r \in Process /\ r.pc = c /\ r.build = proc[p].build /\ r.cached = proc[p].cached
      /\ r.tu = proc[p].tu /\ r.note = proc[p].note /\ r.got = proc[p].got
      /\ r.seen = proc[p].seen
    BY DEF Process
<1>2. Step(p, r)
    BY DEF Go
<1> QED BY <1>1, <1>2

(***************************************************************************)
(* The steps.                                                              *)
(***************************************************************************)
LEMMA CallKeeps ==
    ASSUME CacheInv, NEW p \in Procs, Call(p)
    PROVE  CacheInv'
<1>0. src \in Versions /\ failures \in 0..MaxFailures /\ proc[p] \in Process
    BY DEF CacheInv, FilesOK
<1>1. ASSUME NEW b \in BOOLEAN, Begin(p, b)
      PROVE  CacheInv'
  <2> DEFINE r == [Idle(None) EXCEPT !.pc = IF b THEN "sidecar" ELSE "parse",
                                     !.cached = b, !.seen = {src}]
  <2>1. ProcOK(r)
      BY <1>0 DEF Idle, Process, ProcOK, Equipped, ReaderOK, WriterOK, Active, SavingPc
  <2>2. Step(p, r) /\ UNCHANGED <<src, files, failures>>
      BY <1>1 DEF Begin
  <2> HIDE DEF r
  <2> QED BY <1>0, <2>1, <2>2, QuietStepKeeps
<1>2. ASSUME BeginBuild(p)
      PROVE  CacheInv'
  <2> DEFINE r == [Idle(proc[p].got) EXCEPT !.pc = "parse", !.build = TRUE]
  <2>1. ProcOK(r)
      BY <1>0 DEF Idle, Process, ProcOK, Equipped, ReaderOK, WriterOK, Active, SavingPc
  <2>2. Step(p, r) /\ UNCHANGED <<src, files, failures>>
      BY <1>2 DEF BeginBuild
  <2> HIDE DEF r
  <2> QED BY <1>0, <2>1, <2>2, QuietStepKeeps
<1>3. ASSUME BeginClear(p)
      PROVE  CacheInv'
  <2> DEFINE r == [Idle(proc[p].got) EXCEPT !.pc = "clear"]
  <2>1. ProcOK(r)
      BY <1>0 DEF Idle, Process, ProcOK, Equipped, ReaderOK, WriterOK, Active, SavingPc
  <2>2. Step(p, r) /\ UNCHANGED <<src, files, failures>>
      BY <1>3 DEF BeginClear
  <2> HIDE DEF r
  <2> QED BY <1>0, <2>1, <2>2, QuietStepKeeps
<1> QED BY <1>1, <1>2, <1>3 DEF Call

\* A call, a build or a clear ends, having touched no file.
LEMMA ReturnKeeps ==
    ASSUME CacheInv, NEW p \in Procs, NEW v \in Versions \union {None}, Return(p, v),
           UNCHANGED <<src, files>>, failures' \in 0..MaxFailures
    PROVE  CacheInv'
<1> DEFINE u == IF proc[p].build THEN proc[p].got ELSE v
<1>1. u \in Versions \union {None}
    BY DEF CacheInv, Process
<1>2. Step(p, Idle(u))
    BY DEF Return
<1> HIDE DEF u
<1>3. ProcOK(Idle(u))
    BY <1>1, IdleOK
<1> QED BY <1>2, <1>3, QuietStepKeeps
\* A step of process p that changes the .ast at most, to the state r.
LEMMA AstStepKeeps ==
    ASSUME CacheInv, NEW p \in Procs, NEW r, ProcOK(r)', Step(p, r),
           UNCHANGED <<src, side>>, AstMoves, failures' \in 0..MaxFailures
    PROVE  CacheInv'
<1>1. FilesOK'
    BY DEF AstMoves, CacheInv, FilesOK, SideOK, AstCurrent, NoAst
<1> QED BY <1>1, StepKeeps

LEMMA LookupKeeps ==
    ASSUME CacheInv, NEW p \in Procs, ReadSidecar(p) \/ Validate(p) \/ Load(p)
    PROVE  CacheInv'
<1>0. /\ src \in Versions /\ failures \in 0..MaxFailures /\ SideOK
      /\ proc \in [Procs -> Process] /\ proc[p] \in Process
      /\ ProcOK(proc[p])
    BY DEF CacheInv, FilesOK
<1>1. ASSUME Go(p, "parse"), proc[p].pc \in {"sidecar", "stat", "load"},
             UNCHANGED <<src, files, failures>>
      PROVE  CacheInv'
  <2>1. PICK r \in Process :
            /\ Step(p, r) /\ r.pc = "parse" /\ r.build = proc[p].build /\ r.seen = proc[p].seen
      BY <1>0, <1>1, GoIs
  <2>2. ProcOK(r)
      BY <1>0, <1>1, <2>1 DEF ProcOK, Equipped, ReaderOK, WriterOK, Active, SavingPc
  <2> QED BY <1>0, <1>1, <2>1, <2>2, QuietStepKeeps
<1>2. ASSUME ReadSidecar(p), side \notin {None, Partial}
      PROVE  CacheInv'
  <2> DEFINE r == [proc[p] EXCEPT !.pc = "stat", !.note = side]
  <2>1. side \in Sidecar /\ side # None
      BY <1>2 DEF CacheInv, FilesOK
  <2>2. r \in Process /\ r.pc = "stat" /\ r.note = side /\ r.build = proc[p].build
        /\ r.seen = proc[p].seen
      BY <1>0, <2>1 DEF Process
  <2>3. proc[p].pc = "sidecar" /\ Step(p, r) /\ UNCHANGED <<src, files, failures>>
      BY <1>2 DEF ReadSidecar, At
  <2> HIDE DEF r
  <2>4. ProcOK(r)
      BY <1>0, <1>2, <2>1, <2>2, <2>3
         DEF SideOK, ProcOK, Equipped, ReaderOK, WriterOK, Active, SavingPc
  <2> QED BY <1>0, <2>3, <2>4, QuietStepKeeps
<1>3. ASSUME Validate(p), IsValid(p)
      PROVE  CacheInv'
  <2>1. proc[p].pc = "stat" /\ Go(p, "load") /\ UNCHANGED <<src, files, failures>>
      BY <1>3 DEF Validate, At
  <2>2. PICK r \in Process :
            /\ Step(p, r) /\ r.pc = "load" /\ r.build = proc[p].build /\ r.seen = proc[p].seen
            /\ r.note = proc[p].note
      BY <1>0, <2>1, GoIs
  <2>3. AstCurrent /\ src \in proc[p].seen
      BY <1>0, <1>3, <2>1 DEF IsValid, ProcOK, ReaderOK, Active
  <2>4. ProcOK(r)
      BY <1>0, <2>1, <2>2, <2>3
         DEF AstCurrent, ProcOK, Equipped, ReaderOK, WriterOK, Active, SavingPc
  <2> QED BY <1>0, <2>1, <2>2, <2>4, QuietStepKeeps
<1>4. ASSUME Load(p), Readable(p)
      PROVE  CacheInv'
  <2>1. ast.version \in Versions
      BY <1>4 DEF Readable, CacheInv, FilesOK, NoAst, Tu
  <2> QED BY <1>0, <1>4, <2>1, ReturnKeeps DEF Load
<1>5. CASE ReadSidecar(p)
    BY <1>1, <1>2, <1>5 DEF ReadSidecar, At
<1>6. CASE Validate(p)
    BY <1>1, <1>3, <1>6 DEF Validate, At
<1>7. CASE Load(p)
    BY <1>1, <1>4, <1>7 DEF Load, At
<1> QED BY <1>5, <1>6, <1>7

LEMMA ParseKeeps ==
    ASSUME CacheInv, NEW p \in Procs, Parse(p) \/ ParseFails(p)
    PROVE  CacheInv'
<1>0. /\ src \in Versions /\ failures \in 0..MaxFailures
      /\ proc[p] \in Process /\ ProcOK(proc[p]) /\ MaxFailures \in Nat
    BY ConstantTypes DEF CacheInv, FilesOK
<1>1. ASSUME Parse(p), proc[p].cached
      PROVE  CacheInv'
  <2> DEFINE r == [proc[p] EXCEPT !.pc = "save", !.tu = src, !.note = None]
  <2>1. r \in Process /\ r.pc = "save" /\ r.tu = src /\ r.build = proc[p].build
        /\ r.seen = proc[p].seen
      BY <1>0 DEF Process
  <2>2. proc[p].pc = "parse" /\ Step(p, r) /\ UNCHANGED <<src, files, failures>>
      BY <1>1 DEF Parse, At
  <2> HIDE DEF r
  <2>3. ProcOK(r)
      BY <1>0, <2>1, <2>2, ConstantTypes
         DEF ProcOK, Equipped, ReaderOK, WriterOK, Active, SavingPc
  <2> QED BY <1>0, <2>2, <2>3, QuietStepKeeps
<1>2. ASSUME Parse(p), ~proc[p].cached
      PROVE  CacheInv'
    BY <1>0, <1>2, ReturnKeeps DEF Parse
<1>3. ASSUME ParseFails(p)
      PROVE  CacheInv'
  <2>1. failures' \in 0..MaxFailures
      BY <1>0, <1>3 DEF ParseFails
  <2> QED BY <1>3, <2>1, ReturnKeeps DEF ParseFails
<1> QED BY <1>1, <1>2, <1>3

LEMMA SaveKeeps ==
    ASSUME CacheInv, NEW p \in Procs, Save(p) \/ SaveFails(p) \/ Cleanup(p)
    PROVE  CacheInv'
<1>0. /\ src \in Versions /\ failures \in 0..MaxFailures /\ MaxFailures \in Nat
      /\ proc \in [Procs -> Process] /\ proc[p] \in Process /\ ProcOK(proc[p])
    BY ConstantTypes DEF CacheInv, FilesOK
<1>1. ASSUME Save(p)
      PROVE  CacheInv'
  <2>1. proc[p].pc = "save" /\ Go(p, "restat") /\ UNCHANGED <<src, side, failures>>
        /\ ast' = [version |-> proc[p].tu, lib |-> LibOf[p]]
      BY <1>1 DEF Save, At
  <2>2. proc[p].tu = src /\ LibOf[p] \in Libs
      BY <1>0, <2>1, ConstantTypes DEF ProcOK, WriterOK, SavingPc
  <2>3. ast' \in Tu /\ ast'.version = src
      BY <1>0, <2>1, <2>2 DEF Tu
  <2>4. AstMoves
      BY <2>3 DEF AstMoves
  <2>5. PICK r \in Process :
            /\ Step(p, r) /\ r.pc = "restat" /\ r.build = proc[p].build /\ r.seen = proc[p].seen
            /\ r.tu = proc[p].tu
      BY <1>0, <2>1, GoIs
  <2>6. ProcOK(r)'
      BY <1>0, <2>1, <2>2, <2>3, <2>5
         DEF AstCurrent, ProcOK, Equipped, ReaderOK, WriterOK, Active, SavingPc
  <2> QED BY <1>0, <2>1, <2>4, <2>5, <2>6, AstStepKeeps
<1>2. ASSUME SaveFails(p)
      PROVE  CacheInv'
  <2>1. proc[p].pc = "save" /\ Go(p, "cleanup") /\ UNCHANGED <<src, side>>
        /\ ast' \in {ast, Partial} /\ failures' \in 0..MaxFailures
      BY <1>0, <1>2 DEF SaveFails, At
  <2>2. AstMoves
      BY <2>1 DEF AstMoves
  <2>3. PICK r \in Process :
            /\ Step(p, r) /\ r.pc = "cleanup" /\ r.build = proc[p].build /\ r.seen = proc[p].seen
            /\ r.tu = proc[p].tu
      BY <1>0, <2>1, GoIs
  <2>4. ProcOK(r)
      BY <1>0, <2>1, <2>3 DEF ProcOK, Equipped, ReaderOK, WriterOK, Active, SavingPc
  <2>5. ProcOK(r)'
      BY <2>1, <2>2, <2>4, OthersUnharmed
  <2> QED BY <2>1, <2>2, <2>3, <2>5, AstStepKeeps
<1>3. ASSUME Cleanup(p)
      PROVE  CacheInv'
  <2>1. Return(p, proc[p].tu) /\ UNCHANGED <<src, side, failures>> /\ ast' = None
      BY <1>3 DEF Cleanup
  <2>2. PICK v \in Versions \union {None} : Step(p, Idle(v))
      BY <1>0, <2>1 DEF Return, Process
  <2>3. ProcOK(Idle(v))'
      BY IdleOK
  <2>4. AstMoves
      BY <2>1 DEF AstMoves
  <2> QED BY <1>0, <2>1, <2>2, <2>3, <2>4, AstStepKeeps
<1> QED BY <1>1, <1>2, <1>3

LEMMA SidecarKeeps ==
    ASSUME CacheInv, NEW p \in Procs,
           Restat(p) \/ OpenSidecar(p) \/ WriteSidecar(p) \/ SidecarFails(p)
    PROVE  CacheInv'
<1>0. /\ src \in Versions /\ failures \in 0..MaxFailures /\ MaxFailures \in Nat
      /\ proc \in [Procs -> Process] /\ proc[p] \in Process /\ ProcOK(proc[p])
      /\ Mtime[src] \in Nat /\ LibOf[p] \in Libs
    BY ConstantTypes DEF CacheInv, FilesOK
<1>1. ASSUME Restat(p)
      PROVE  CacheInv'
  <2> DEFINE n == [mtime |-> Mtime[src], lib |-> LibOf[p]]
  <2> DEFINE r == [proc[p] EXCEPT !.pc = "open", !.note = n]
  <2>1. n \in Sidecar /\ n # None /\ n.mtime = Mtime[src]
      BY <1>0, NoneIsNoValue DEF Sidecar
  <2> HIDE DEF n
  <2>2. r \in Process /\ r.pc = "open" /\ r.note = n /\ r.build = proc[p].build
        /\ r.seen = proc[p].seen /\ r.tu = proc[p].tu
      BY <1>0, <2>1 DEF Process
  <2>3. proc[p].pc = "restat" /\ Step(p, r) /\ UNCHANGED <<src, files, failures>>
      BY <1>1 DEF Restat, Stamp, At, n
  <2> HIDE DEF r
  <2>4. ProcOK(r)
      BY <1>0, <2>1, <2>2, <2>3
         DEF ProcOK, Equipped, ReaderOK, WriterOK, Active, SavingPc
  <2> QED BY <1>0, <2>3, <2>4, QuietStepKeeps
<1>2. ASSUME OpenSidecar(p)
      PROVE  CacheInv'
  <2>1. proc[p].pc = "open" /\ Go(p, "dump") /\ UNCHANGED <<src, ast, failures>>
        /\ side' = Partial
      BY <1>2 DEF OpenSidecar, At
  <2>2. PICK r \in Process :
            /\ Step(p, r) /\ r.pc = "dump" /\ r.build = proc[p].build /\ r.seen = proc[p].seen
            /\ r.tu = proc[p].tu /\ r.note = proc[p].note
      BY <1>0, <2>1, GoIs
  <2>3. AstMoves
      BY <2>1 DEF AstMoves
  <2>4. ProcOK(r)'
    <3>1. ProcOK(r)
        BY <1>0, <2>1, <2>2 DEF ProcOK, Equipped, ReaderOK, WriterOK, Active, SavingPc
    <3> QED BY <2>1, <2>3, <3>1, OthersUnharmed
  <2>5. FilesOK'
      BY <1>0, <2>1 DEF CacheInv, FilesOK, SideOK, NoAst
  <2> QED BY <2>1, <2>2, <2>3, <2>4, <2>5, StepKeeps
<1>3. ASSUME WriteSidecar(p)
      PROVE  CacheInv'
  <2>1. proc[p].pc = "dump" /\ Return(p, proc[p].tu) /\ UNCHANGED <<src, ast, failures>>
        /\ side' = proc[p].note
      BY <1>3 DEF WriteSidecar, At
  <2>2. PICK v \in Versions \union {None} : Step(p, Idle(v))
      BY <1>0, <2>1 DEF Return, Process
  <2>3. ProcOK(Idle(v))'
      BY IdleOK
  <2>4. AstMoves
      BY <2>1 DEF AstMoves
  <2>5. side' \in Sidecar /\ side'.mtime = Mtime[src] /\ AstCurrent
      BY <1>0, <2>1 DEF ProcOK, Equipped, WriterOK, Process
  <2>6. FilesOK'
      BY <1>0, <2>1, <2>5 DEF CacheInv, FilesOK, SideOK, AstCurrent, NoAst
  <2> QED BY <2>1, <2>2, <2>3, <2>4, <2>6, StepKeeps
<1>4. ASSUME SidecarFails(p)
      PROVE  CacheInv'
  <2>1. proc[p].pc \in {"open", "dump"} /\ Go(p, "cleanup") /\ UNCHANGED <<src, files>>
        /\ failures' \in 0..MaxFailures
      BY <1>0, <1>4 DEF SidecarFails, At
  <2>2. PICK r \in Process :
            /\ Step(p, r) /\ r.pc = "cleanup" /\ r.build = proc[p].build /\ r.seen = proc[p].seen
            /\ r.tu = proc[p].tu
      BY <1>0, <2>1, GoIs
  <2>3. ProcOK(r)
      BY <1>0, <2>1, <2>2 DEF ProcOK, Equipped, ReaderOK, WriterOK, Active, SavingPc
  <2> QED BY <2>1, <2>2, <2>3, QuietStepKeeps
<1> QED BY <1>1, <1>2, <1>3, <1>4
LEMMA ClearKeeps ==
    ASSUME CacheInv, NEW p \in Procs, ClearAst(p) \/ ClearSide(p)
    PROVE  CacheInv'
<1>0. /\ src \in Versions /\ failures \in 0..MaxFailures
      /\ proc \in [Procs -> Process] /\ proc[p] \in Process /\ ProcOK(proc[p])
    BY DEF CacheInv, FilesOK
\* Where a clear goes after either of its removals.
<1>1. ASSUME UNCHANGED <<src, failures>>, proc[p].pc \in {"clear", "clearside", "clearast"},
             \/ \E c \in {"clearside", "clearast"} : Go(p, c)
             \/ Step(p, Idle(proc[p].got))
      PROVE  \E r : Step(p, r) /\ ProcOK(r)
  <2>1. CASE \E c \in {"clearside", "clearast"} : Go(p, c)
    <3>1. PICK c \in {"clearside", "clearast"} : Go(p, c)
        BY <2>1
    <3>2. PICK r \in Process : Step(p, r) /\ r.pc = c
        BY <1>0, <3>1, GoIs
    <3>3. ProcOK(r)
        BY <3>2 DEF ProcOK, Equipped, ReaderOK, WriterOK, Active, SavingPc
    <3> QED BY <3>2, <3>3
  <2>2. CASE Step(p, Idle(proc[p].got))
    <3>1. PICK v \in Versions \union {None} : Step(p, Idle(v))
        BY <1>0, <2>2 DEF Process
    <3> QED BY <3>1, IdleOK
  <2> QED BY <1>1, <2>1, <2>2
<1>2. ASSUME ClearAst(p)
      PROVE  CacheInv'
  <2>1. UNCHANGED <<src, side, failures>> /\ ast' = None
      BY <1>2 DEF ClearAst
  <2>2. PICK r : Step(p, r) /\ ProcOK(r)
      BY <1>1, <1>2 DEF ClearAst, At
  <2>3. AstMoves
      BY <2>1 DEF AstMoves
  <2>4. ProcOK(r)'
      BY <2>1, <2>2, <2>3, OthersUnharmed
  <2> QED BY <1>0, <2>1, <2>2, <2>3, <2>4, AstStepKeeps
<1>3. ASSUME ClearSide(p)
      PROVE  CacheInv'
  <2>1. UNCHANGED <<src, ast, failures>> /\ side' = None
      BY <1>3 DEF ClearSide
  <2>2. PICK r : Step(p, r) /\ ProcOK(r)
      BY <1>1, <1>3 DEF ClearSide, At
  <2>3. AstMoves
      BY <2>1 DEF AstMoves
  <2>4. ProcOK(r)'
      BY <2>1, <2>2, <2>3, OthersUnharmed
  <2>5. FilesOK'
      BY <2>1 DEF CacheInv, FilesOK, SideOK, NoAst
  <2> QED BY <2>1, <2>2, <2>3, <2>4, <2>5, StepKeeps
<1> QED BY <1>2, <1>3

LEMMA CrashKeeps ==
    ASSUME CacheInv, NEW p \in Procs, Crash(p)
    PROVE  CacheInv'
<1>0. /\ failures \in 0..MaxFailures /\ MaxFailures \in Nat /\ proc[p] \in Process
    BY ConstantTypes DEF CacheInv, FilesOK
<1>1. UNCHANGED <<src, side>> /\ ast' \in {ast, Partial} /\ failures' \in 0..MaxFailures
    BY <1>0 DEF Crash
<1>2. PICK v \in Versions \union {None} : Step(p, Idle(v))
    BY <1>0 DEF Crash, Process
<1>3. AstMoves
    BY <1>1 DEF AstMoves
<1>4. ProcOK(Idle(v))'
    BY IdleOK
<1> QED BY <1>1, <1>2, <1>3, <1>4, AstStepKeeps

\* An edit leaves every sidecar with a time of the past, and meets no process
\* between its parse and its sidecar.
LEMMA EditKeeps ==
    ASSUME NoEditWhileSaving, TimeGoesOn, CacheInv, NEW v \in Versions, Edit(v)
    PROVE  CacheInv'
<1>1. <<src, v>> \in EditRel /\ src' = v /\ UNCHANGED <<ast, side, failures>>
    BY DEF Edit, files
<1>2. src \in Versions /\ Mtime[src] \in Nat /\ Mtime[v] \in Nat /\ Mtime[src] < Mtime[v]
    BY <1>1, ConstantTypes DEF TimeGoesOn, CacheInv, FilesOK
<1>3. FilesOK'
  <2>1. side \in Sidecar => side.mtime \in Nat
      BY DEF Sidecar
  <2>2. SideOK'
    <3> SUFFICES ASSUME side \notin {None, Partial}
                 PROVE  side.mtime < Mtime[v]
        BY <1>1, <2>1, <1>2 DEF SideOK, CacheInv, FilesOK
    <3>1. side.mtime <= Mtime[src] /\ side.mtime \in Nat
        BY <2>1 DEF CacheInv, FilesOK, SideOK
    <3> QED BY <1>2, <3>1
  <2> QED BY <1>1, <1>2, <2>2 DEF CacheInv, FilesOK, NoAst
<1>4. proc' = [p \in Procs |-> [proc[p] EXCEPT
                  !.seen = IF InCall(p) THEN proc[p].seen \union {v} ELSE proc[p].seen]]
    BY DEF Edit
<1>5. ASSUME NEW p \in Procs
      PROVE  proc'[p] \in Process /\ ProcOK(proc[p])'
  <2>1. proc[p] \in Process /\ ProcOK(proc[p]) /\ proc[p].pc \notin SavingPc
      BY DEF CacheInv, ProcOK, Edit, NoEditWhileSaving, Saving, SavingPc
  <2>2. proc'[p] = [proc[p] EXCEPT
                  !.seen = IF InCall(p) THEN proc[p].seen \union {v} ELSE proc[p].seen]
      BY <1>4
  <2>3. /\ proc'[p] \in Process /\ proc'[p].pc = proc[p].pc /\ proc'[p].build = proc[p].build
        /\ proc'[p].note = proc[p].note /\ proc[p].seen \subseteq proc'[p].seen
        /\ InCall(p) => v \in proc'[p].seen
      BY <2>1, <2>2 DEF Process
  <2>4. Active(proc[p])' => v \in proc'[p].seen
      BY <2>3 DEF Active, InCall
  <2>5. proc[p].pc = "stat" => proc[p].note.mtime < Mtime[v]
    <3> SUFFICES ASSUME proc[p].pc = "stat" PROVE proc[p].note.mtime < Mtime[v]
        OBVIOUS
    <3>1. proc[p].note \in Sidecar
        BY <2>1 DEF ProcOK, Equipped, Process
    <3>2. proc[p].note.mtime \in Nat /\ proc[p].note.mtime <= Mtime[src]
        BY <2>1, <3>1 DEF ProcOK, ReaderOK, Sidecar
    <3> QED BY <1>2, <3>2
  <2>6. proc[p].pc = "stat" => proc[p].note.mtime \in Nat
      BY <2>1 DEF ProcOK, Equipped, Process, Sidecar
  <2>7. ReaderOK(proc[p])'
      BY <1>1, <1>2, <2>1, <2>3, <2>4, <2>5, <2>6 DEF ProcOK, ReaderOK, NoAst
  <2>8. WriterOK(proc[p])' /\ Equipped(proc[p])'
      BY <2>1, <2>3 DEF ProcOK, WriterOK, Equipped, SavingPc
  <2> QED BY <2>3, <2>7, <2>8 DEF ProcOK
<1>6. proc' \in [Procs -> Process]
    BY <1>4, <1>5
<1> QED BY <1>3, <1>5, <1>6 DEF CacheInv

LEMMA CacheInvInductive ==
    ASSUME NoEditWhileSaving, TimeGoesOn
    PROVE  (Init => CacheInv) /\ (CacheInv /\ [Next]_vars => CacheInv')
<1>1. ASSUME Init PROVE CacheInv
  <2>1. FilesOK
      BY <1>1, ConstantTypes DEF Init, FilesOK, SideOK, NoAst
  <2>2. ProcOK(Idle(None))
      BY IdleOK
  <2>3. Idle(None) \in Process
      BY <2>2 DEF ProcOK
  <2> QED BY <1>1, <2>1, <2>2, <2>3 DEF Init, CacheInv
<1>2. ASSUME CacheInv, [Next]_vars PROVE CacheInv'
  <2>1. CASE UNCHANGED vars
      BY <1>2, <2>1 DEF vars, CacheInv, FilesOK, SideOK, AstCurrent, NoAst, ProcOK, Equipped,
                        ReaderOK, WriterOK
  <2>2. ASSUME NEW p \in Procs, Work(p) PROVE CacheInv'
      BY <1>2, <2>2, LookupKeeps, ParseKeeps, SaveKeeps, SidecarKeeps, ClearKeeps DEF Work
  <2>3. ASSUME NEW p \in Procs, Call(p) \/ Crash(p) PROVE CacheInv'
      BY <1>2, <2>3, CallKeeps, CrashKeeps
  <2>4. ASSUME NEW v \in Versions, Edit(v) PROVE CacheInv'
      BY <1>2, <2>4, EditKeeps
  <2> QED BY <1>2, <2>1, <2>2, <2>3, <2>4 DEF Next
<1> QED BY <1>1, <1>2

\* Every entry that is_valid accepts and libclang can load is the AST of the
\* source as it is, and the variables keep their types: any number of processes
\* and libclangs, failures and crashes at every file operation, clears -- but
\* no edit between a parse and its sidecar, and no time that comes back.
THEOREM ValidEntriesAreFresh ==
    ASSUME NoEditWhileSaving, TimeGoesOn
    PROVE  Spec => [](TypeOK /\ ValidEntryIsFresh)
<1>1. (Init => CacheInv) /\ (CacheInv /\ [Next]_vars => CacheInv')
    BY CacheInvInductive
<1> QED BY <1>1, CacheInvImplies, PTL DEF Spec
(***************************************************************************)
(* The cache implements FreshRead.                                         *)
(***************************************************************************)
LEMMA CallsOfStep ==
    ASSUME proc \in [Procs -> Process], NEW p \in Procs, NEW r, Step(p, r)
    PROVE  calls' = [calls EXCEPT ![p] = Observed(r)]
<1>1. \A q \in Procs : proc'[q] = IF q = p THEN r ELSE proc[q]
    BY DEF Step
<1>2. calls' = [q \in Procs |-> Observed(proc'[q])]
    BY DEF calls, Observed, Active
<1>3. \A q \in Procs : Observed(proc'[q]) = IF q = p THEN Observed(r) ELSE Observed(proc[q])
    BY <1>1
<1> QED BY <1>2, <1>3 DEF calls

\* A step that keeps what a caller sees of its process is none of FreshRead's.
LEMMA HiddenStep ==
    ASSUME proc \in [Procs -> Process], NEW p \in Procs, NEW r, Step(p, r), UNCHANGED src,
           Observed(r) = Observed(proc[p])
    PROVE  UNCHANGED Reads!vars
<1>1. calls' = [calls EXCEPT ![p] = Observed(r)]
    BY CallsOfStep
<1>2. calls' = calls
    BY <1>1 DEF calls
<1> QED BY <1>2 DEF Reads!vars

\* A call ends with nothing, or with a version the source has had during it.
LEMMA CallEnds ==
    ASSUME CacheInv, NEW p \in Procs, InCall(p), UNCHANGED src,
           NEW v \in proc[p].seen \union {None}, Step(p, Idle(v))
    PROVE  Reads!Return(p)
<1>1. Observed(Idle(v)) = [on |-> FALSE, seen |-> {}, got |-> v]
    BY DEF Observed, Idle, Active
<1>2. calls' = [calls EXCEPT ![p] = [on |-> FALSE, seen |-> {}, got |-> v]]
    BY <1>1, CallsOfStep DEF CacheInv
<1>3. calls[p].on /\ calls[p].seen = proc[p].seen
    BY DEF calls, Observed, InCall
<1> QED BY <1>2, <1>3 DEF Reads!Return

\* A process that is not in a call keeps what its last call returned.
LEMMA OtherEnds ==
    ASSUME CacheInv, NEW p \in Procs, ~InCall(p), UNCHANGED src, Step(p, Idle(proc[p].got))
    PROVE  UNCHANGED Reads!vars
<1>1. PICK v : v = proc[p].got
    OBVIOUS
<1>2. Observed(Idle(v)) = Observed(proc[p])
    BY <1>1 DEF Observed, Idle, Active, InCall
<1> QED BY <1>1, <1>2, HiddenStep DEF CacheInv

LEMMA ReturnReads ==
    ASSUME CacheInv, NEW p \in Procs, NEW v \in Versions \union {None}, Return(p, v),
           UNCHANGED src, proc[p].pc \notin {"idle", "clear", "clearside", "clearast"},
           ~proc[p].build => v \in proc[p].seen \union {None}
    PROVE  Reads!Return(p) \/ UNCHANGED Reads!vars
<1>1. CASE proc[p].build
    BY <1>1, OtherEnds DEF Return, InCall, Active
<1>2. CASE ~proc[p].build
    BY <1>2, CallEnds DEF Return, InCall, Active
<1> QED BY <1>1, <1>2

LEMMA GoReads ==
    ASSUME CacheInv, NEW p \in Procs, UNCHANGED src,
           NEW c \in {"stat", "load", "parse", "save", "cleanup", "restat", "open", "dump",
                      "clearside", "clearast"},
           Go(p, c), proc[p].pc # "idle",
           (proc[p].pc \in {"clear", "clearside", "clearast"})
               <=> (c \in {"clearside", "clearast"})
    PROVE  UNCHANGED Reads!vars
<1>0. proc \in [Procs -> Process]
    BY DEF CacheInv
<1>1. PICK r \in Process :
        Step(p, r) /\ r.pc = c /\ r.build = proc[p].build /\ r.got = proc[p].got
        /\ r.seen = proc[p].seen
    BY <1>0, GoIs
<1>2. Observed(r) = Observed(proc[p])
    BY <1>1 DEF Observed, Active
<1> QED BY <1>0, <1>1, <1>2, HiddenStep
LEMMA CallReads ==
    ASSUME CacheInv, NEW p \in Procs, Call(p)
    PROVE  Reads!Begin(p) \/ UNCHANGED Reads!vars
<1>0. proc \in [Procs -> Process]
    BY DEF CacheInv
<1>1. ASSUME NEW b \in BOOLEAN, Begin(p, b)
      PROVE  Reads!Begin(p)
  <2> DEFINE r == [Idle(None) EXCEPT !.pc = IF b THEN "sidecar" ELSE "parse",
                                     !.cached = b, !.seen = {src}]
  <2>1. Observed(r) = [on |-> TRUE, seen |-> {src}, got |-> None]
      BY DEF Observed, Idle, Active
  <2>2. proc[p].pc = "idle" /\ Step(p, r) /\ UNCHANGED src
      BY <1>1 DEF Begin, At
  <2> HIDE DEF r
  <2>3. PICK s : s = r
      OBVIOUS
  <2>4. calls' = [calls EXCEPT ![p] = [on |-> TRUE, seen |-> {src}, got |-> None]]
      BY <1>0, <2>1, <2>2, <2>3, CallsOfStep
  <2>5. ~calls[p].on
      BY <2>2 DEF calls, Observed, Active
  <2> QED BY <2>2, <2>4, <2>5 DEF Reads!Begin
<1>2. ASSUME BeginBuild(p) \/ BeginClear(p)
      PROVE  UNCHANGED Reads!vars
  <2> DEFINE b == [Idle(proc[p].got) EXCEPT !.pc = "parse", !.build = TRUE]
             c == [Idle(proc[p].got) EXCEPT !.pc = "clear"]
  <2>1. proc[p].pc = "idle" /\ (Step(p, b) \/ Step(p, c)) /\ UNCHANGED src
      BY <1>2 DEF BeginBuild, BeginClear, At
  <2>2. Observed(b) = Observed(proc[p]) /\ Observed(c) = Observed(proc[p])
      BY <2>1 DEF Observed, Idle, Active
  <2> HIDE DEF b, c
  <2>3. PICK s : (s = b \/ s = c) /\ Step(p, s)
      BY <2>1
  <2> QED BY <1>0, <2>1, <2>2, <2>3, HiddenStep
<1> QED BY <1>1, <1>2 DEF Call

LEMMA WorkReads ==
    ASSUME CacheInv, NEW p \in Procs, Work(p)
    PROVE  Reads!Return(p) \/ UNCHANGED Reads!vars
<1>0. /\ src \in Versions /\ proc \in [Procs -> Process] /\ proc[p] \in Process
      /\ ProcOK(proc[p])
    BY DEF CacheInv, FilesOK
<1>a. UNCHANGED src
    BY DEF Work, ReadSidecar, Validate, Load, Parse, ParseFails, Save, SaveFails, Cleanup,
           Restat, OpenSidecar, WriteSidecar, SidecarFails, ClearAst, ClearSide
<1>1. ASSUME \/ Go(p, "parse") /\ proc[p].pc \in {"sidecar", "stat", "load"}
             \/ Go(p, "load") /\ proc[p].pc = "stat"
             \/ Go(p, "restat") /\ proc[p].pc = "save"
             \/ Go(p, "cleanup") /\ proc[p].pc \in SavingPc
             \/ Go(p, "dump") /\ proc[p].pc = "open"
             \/ Go(p, "clearside") /\ proc[p].pc = "clear"
             \/ Go(p, "clearast") /\ proc[p].pc = "clear"
      PROVE  UNCHANGED Reads!vars
    BY <1>1, <1>a, GoReads DEF SavingPc
<1>2. ASSUME NEW r, Step(p, r), Observed(r) = Observed(proc[p])
      PROVE  UNCHANGED Reads!vars
    BY <1>0, <1>a, <1>2, HiddenStep
<1>3. CASE ReadSidecar(p)
  <2> DEFINE r == [proc[p] EXCEPT !.pc = "stat", !.note = side]
  <2>1. proc[p].pc = "sidecar" /\ (Go(p, "parse") \/ Step(p, r))
      BY <1>3 DEF ReadSidecar, At
  <2>2. Observed(r) = Observed(proc[p])
      BY <1>0, <2>1 DEF Observed, Active, Process
  <2> HIDE DEF r
  <2>3. PICK s : s = r
      OBVIOUS
  <2> QED BY <1>1, <1>2, <2>1, <2>2, <2>3
<1>4. CASE Validate(p)
    BY <1>1, <1>4 DEF Validate, At
<1>5. CASE Load(p)
  <2>1. proc[p].pc = "load"
      BY <1>5 DEF Load, At
  <2>2. ASSUME Readable(p) PROVE Reads!Return(p) \/ UNCHANGED Reads!vars
    <3>1. ast.version \in Versions /\ ast.version \in proc[p].seen
        BY <1>0, <2>1, <2>2 DEF Readable, CacheInv, FilesOK, NoAst, Tu, ProcOK, ReaderOK
    <3>2. PICK v : v = ast.version
        OBVIOUS
    <3> QED BY <1>5, <1>a, <2>1, <2>2, <3>1, <3>2, ReturnReads DEF Load
  <2>3. ASSUME ~Readable(p) PROVE UNCHANGED Reads!vars
      BY <1>1, <1>5, <2>1, <2>3 DEF Load
  <2> QED BY <2>2, <2>3
<1>6. CASE Parse(p)
  <2> DEFINE r == [proc[p] EXCEPT !.pc = "save", !.tu = src, !.note = None]
  <2>1. proc[p].pc = "parse" /\ (Return(p, src) \/ Step(p, r))
      BY <1>6 DEF Parse, At
  <2>2. Observed(r) = Observed(proc[p])
      BY <1>0, <2>1 DEF Observed, Active, Process
  <2>3. ~proc[p].build => src \in proc[p].seen
      BY <1>0, <2>1 DEF ProcOK, ReaderOK, Active
  <2> HIDE DEF r
  <2>4. PICK s, v : s = r /\ v = src
      OBVIOUS
  <2>5. CASE Return(p, src)
      BY <1>0, <1>a, <2>1, <2>3, <2>4, <2>5, ReturnReads
  <2>6. CASE Step(p, r)
      BY <1>2, <2>2, <2>4, <2>6
  <2> QED BY <2>1, <2>5, <2>6
<1>7. CASE ParseFails(p)
    BY <1>a, <1>7, ReturnReads DEF ParseFails, At
<1>8. CASE Save(p) \/ SaveFails(p) \/ OpenSidecar(p) \/ SidecarFails(p)
    BY <1>1, <1>8 DEF Save, SaveFails, OpenSidecar, SidecarFails, At, SavingPc
<1>9. CASE Cleanup(p) \/ WriteSidecar(p)
  <2>1. proc[p].pc \in {"cleanup", "dump"} /\ Return(p, proc[p].tu)
      BY <1>9 DEF Cleanup, WriteSidecar, At
  <2>2. proc[p].tu = src /\ (~proc[p].build => src \in proc[p].seen)
      BY <1>0, <2>1 DEF ProcOK, ReaderOK, WriterOK, Active, SavingPc
  <2>3. PICK v : v = src
      OBVIOUS
  <2> QED BY <1>0, <1>a, <2>1, <2>2, <2>3, ReturnReads
<1>10. CASE Restat(p)
  <2> DEFINE r == [proc[p] EXCEPT !.pc = "open",
                                  !.note = [mtime |-> Stamp(p), lib |-> LibOf[p]]]
  <2>1. proc[p].pc = "restat" /\ Step(p, r)
      BY <1>10 DEF Restat, At
  <2>2. Observed(r) = Observed(proc[p])
      BY <1>0, <2>1 DEF Observed, Active, Process
  <2> HIDE DEF r
  <2>3. PICK s : s = r
      OBVIOUS
  <2> QED BY <1>2, <2>1, <2>2, <2>3
<1>11. CASE ClearAst(p) \/ ClearSide(p)
  <2>1. /\ proc[p].pc \in {"clear", "clearside", "clearast"}
        /\ \/ proc[p].pc = "clear" /\ (Go(p, "clearside") \/ Go(p, "clearast"))
           \/ Step(p, Idle(proc[p].got))
      BY <1>11 DEF ClearAst, ClearSide, At
  <2>2. CASE Step(p, Idle(proc[p].got))
      BY <1>a, <2>1, <2>2, OtherEnds DEF InCall, Active
  <2> QED BY <1>1, <2>1, <2>2
<1> QED BY <1>3, <1>4, <1>5, <1>6, <1>7, <1>8, <1>9, <1>10, <1>11 DEF Work

LEMMA CrashReads ==
    ASSUME CacheInv, NEW p \in Procs, Crash(p)
    PROVE  Reads!Return(p) \/ UNCHANGED Reads!vars
<1>1. CASE InCall(p)
    BY <1>1, CallEnds DEF Crash
<1>2. CASE ~InCall(p)
    BY <1>2, OtherEnds DEF Crash
<1> QED BY <1>1, <1>2

LEMMA EditReads ==
    ASSUME CacheInv, NEW v \in Versions, Edit(v)
    PROVE  Reads!Edit
<1>1. src' = v /\ proc \in [Procs -> Process]
      /\ proc' = [p \in Procs |-> [proc[p] EXCEPT
             !.seen = IF InCall(p) THEN proc[p].seen \union {v} ELSE proc[p].seen]]
    BY DEF Edit, CacheInv
<1>2. ASSUME NEW p \in Procs
      PROVE  Observed(proc'[p]) = [calls[p] EXCEPT
                 !.seen = IF calls[p].on THEN calls[p].seen \union {v} ELSE calls[p].seen]
  <2>1. /\ proc'[p].pc = proc[p].pc /\ proc'[p].build = proc[p].build
        /\ proc'[p].got = proc[p].got
        /\ proc'[p].seen = IF InCall(p) THEN proc[p].seen \union {v} ELSE proc[p].seen
      BY <1>1 DEF Process
  <2>2. calls[p] = [on |-> InCall(p), got |-> proc[p].got,
                    seen |-> IF InCall(p) THEN proc[p].seen ELSE {}]
      BY DEF calls, Observed, InCall
  <2>3. Observed(proc'[p]) = [on |-> InCall(p), got |-> proc[p].got,
                    seen |-> IF InCall(p) THEN proc[p].seen \union {v} ELSE {}]
      BY <2>1 DEF Observed, Active, InCall
  <2> QED BY <2>2, <2>3
<1>3. calls' = [p \in Procs |-> Observed(proc'[p])]
    BY DEF calls, Observed, Active
<1>4. calls' = [p \in Procs |-> [calls[p] EXCEPT
                 !.seen = IF calls[p].on THEN calls[p].seen \union {v} ELSE calls[p].seen]]
    BY <1>2, <1>3
<1> QED BY <1>1, <1>4 DEF Reads!Edit

\* The cache is a cached read: a call returns the AST of a version the source
\* had during the call, or nothing, for any number of processes, libclangs,
\* failures and crashes, under the same two conditions.
THEOREM CacheImplementsFreshRead ==
    ASSUME NoEditWhileSaving, TimeGoesOn
    PROVE  Spec => FreshReads
<1>1. (Init => CacheInv) /\ (CacheInv /\ [Next]_vars => CacheInv')
    BY CacheInvInductive
<1>2. Init => Reads!Init
  <2> SUFFICES ASSUME Init PROVE Reads!Init
      OBVIOUS
  <2>1. Observed(Idle(None)) = [on |-> FALSE, seen |-> {}, got |-> None]
      BY DEF Observed, Idle, Active
  <2>2. \A p \in Procs : proc[p] = Idle(None)
      BY DEF Init
  <2>3. calls = [p \in Procs |-> [on |-> FALSE, seen |-> {}, got |-> None]]
      BY <2>1, <2>2 DEF calls
  <2> QED BY <2>3, ConstantTypes DEF Init, Reads!Init
<1>3. CacheInv /\ [Next]_vars => [Reads!Next]_(Reads!vars)
  <2> SUFFICES ASSUME CacheInv, [Next]_vars PROVE [Reads!Next]_(Reads!vars)
      OBVIOUS
  <2>1. CASE UNCHANGED vars
      BY <2>1 DEF vars, Reads!vars, calls, Observed, Active
  <2>2. ASSUME NEW p \in Procs, Call(p) \/ Work(p) \/ Crash(p)
        PROVE  [Reads!Next]_(Reads!vars)
      BY <2>2, CallReads, WorkReads, CrashReads DEF Reads!Next
  <2>3. ASSUME NEW v \in Versions, Edit(v)
        PROVE  [Reads!Next]_(Reads!vars)
      BY <2>3, EditReads DEF Reads!Next
  <2> QED BY <2>1, <2>2, <2>3 DEF Next
<1> QED BY <1>1, <1>2, <1>3, PTL DEF Spec, FreshReads, Reads!Spec
=============================================================================
