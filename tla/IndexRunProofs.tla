--------------------------- MODULE IndexRunProofs ---------------------------
(***************************************************************************)
(* Theorems about IndexRun, for every value of its constants: the tables   *)
(* keep their types, a symbol's definition site defines it, a unit's       *)
(* bodies outlive the indexing of the others, and, with one process, no    *)
(* body ever records another backend's calls and a file that passes for    *)
(* indexed has all its rows.                                               *)
(***************************************************************************)
EXTENDS IndexRun, TLAPS

(***************************************************************************)
(* The strengthenings.  LocalsOK: what a process keeps in memory between   *)
(* two commits.  The files it still has to write are in its AST, and they  *)
(* are the current unit and headers which that unit includes.              *)
(***************************************************************************)
Busy == {"symbols", "headers", "hsyms", "hmark", "bodies", "edges", "mark"}

LocalOK(r) ==
    /\ r.pc \in Busy =>
         /\ r.cur \in Files /\ r.ast[r.cur] \in Contents
         /\ \A h \in Headers \ {r.cur} : r.ast[h] # None =>
                r.ast[h] \in Contents /\ h \in Includes[r.cur][r.ast[r.cur]]
    /\ \A h \in r.inc \union r.pend : h \in Headers \ {r.cur} /\ r.ast[h] # None
    /\ r.pc \in {"hsyms", "hmark"} =>
         r.hdr \in Headers \ {r.cur} /\ r.ast[r.hdr] # None
    /\ r.pc \notin {"headers", "hsyms", "hmark"} => r.inc = {} /\ r.pend = {}

LocalsOK == \A p \in Procs : LocalOK(proc[p])

TypeInv == TypeOK /\ LocalsOK

\* A row that says "definition" is a stored row, and its file defines the symbol.
SiteOK(s, u) == s.def =>
    s.known /\ s.file \in Files /\ \E c \in Contents : u \in Defines[s.file][c]

DefInv == TypeInv /\ \A u \in Symbols : SiteOK(sym[u], u)

\* Process p's file g owns symbol u: the symbol's row is a definition in g, so
\* the wipe of g's edges takes u's edges.
Owned(g, u) == sym[u].known /\ sym[u].def /\ sym[u].file = g

NoEdges(u) == \A e \in edge : e[1] # u

\* A file whose symbols are stored and whose edges are not: each symbol it
\* defines is owned by it, or has no edge at all.
StoredFiles(r) ==
    IF r.pc \in {"headers", "hsyms", "hmark"} THEN {r.cur} \union r.pend ELSE {}

OwnedOrBare(p) ==
    \A g \in StoredFiles(proc[p]) : \A u \in Defines[g][proc[p].ast[g]] :
        Owned(g, u) \/ NoEdges(u)

\* After the first wipe the unit's symbols have no edges, after the second the
\* unit has no bodies.
EdgesWiped(p) ==
    proc[p].pc \in {"bodies", "edges"} =>
        \A u \in Defines[proc[p].cur][proc[p].ast[proc[p].cur]] : NoEdges(u)

BodiesWiped(p) ==
    proc[p].pc = "edges" =>
        /\ \A d \in def : d[1] # proc[p].cur
        /\ \A d \in defEdge : d[1] # proc[p].cur

WriteOK(p) == OwnedOrBare(p) /\ EdgesWiped(p) /\ BodiesWiped(p)

WriteInv == DefInv /\ NoForeignCalls /\ \A p \in Procs : WriteOK(p)

LEMMA AddFileType ==
    ASSUME NEW r \in FileRow, NEW m \in Version
    PROVE  AddFile(r, m) \in FileRow
BY DEF AddFile, FileRow, Version

LEMMA AddSymbolType ==
    ASSUME NEW s \in SymbolRow, NEW f \in Files, NEW b \in BOOLEAN
    PROVE  AddSymbol(s, f, b) \in SymbolRow
BY DEF AddSymbol, SymbolRow

LEMMA StoreSymbolsType ==
    ASSUME sym \in [Symbols -> SymbolRow], NEW f \in Files, NEW c
    PROVE  StoreSymbols(f, c) \in [Symbols -> SymbolRow]
<1> SUFFICES ASSUME NEW u \in Symbols
             PROVE  StoreSymbols(f, c)[u] \in SymbolRow
    BY DEF StoreSymbols
<1> DEFINE d == IF u \in Declares[f][c] THEN AddSymbol(sym[u], f, FALSE) ELSE sym[u]
<1>1. d \in SymbolRow
    BY AddSymbolType
<1>2. AddSymbol(d, f, TRUE) \in SymbolRow
    BY <1>1, AddSymbolType
<1> QED BY <1>1, <1>2 DEF StoreSymbols

LEMMA MintType ==
    ASSUME NEW s \in SymbolRow, NEW site \in Files \union {None}
    PROVE  Mint(s, site) \in SymbolRow
BY DEF Mint, SymbolRow

LEMMA StoreBodiesType ==
    ASSUME sym \in [Symbols -> SymbolRow], NEW f \in Files, NEW ast \in [Files -> Version],
           ast[f] \in Contents,
           NEW E \in SUBSET (Symbols \X Symbols), NEW D \in SUBSET (Files \X Symbols),
           NEW DE \in SUBSET (Files \X Symbols \X Symbols),
           StoreBodies(f, ast, E, D, DE)
    PROVE  /\ sym' \in [Symbols -> SymbolRow]
           /\ edge' \in SUBSET (Symbols \X Symbols)
           /\ def' \in SUBSET (Files \X Symbols)
           /\ defEdge' \in SUBSET (Files \X Symbols \X Symbols)
<1> DEFINE c == ast[f]
<1>0. PICK bodies \in BodySets(f, c) :
        LET new == BodyCalls(f, c, bodies)
            targets == Mentions[f][c] \union {e[2] : e \in new}
        IN  /\ edge' = E \union new /\ def' = D \union ({f} \X bodies)
            /\ defEdge' = DE \union CopiedCalls(f, bodies, E \union new)
            /\ \E site \in [targets -> Files \union {None}] :
                 sym' = [u \in Symbols |-> IF u \in targets THEN Mint(sym[u], site[u])
                                          ELSE sym[u]]
    BY DEF StoreBodies
<1> DEFINE new == BodyCalls(f, c, bodies)
           copied == CopiedCalls(f, bodies, E \union new)
<1>1. bodies \in SUBSET Symbols
    BY ConstantTypes DEF BodySets
<1>2. new \in SUBSET (Symbols \X Symbols)
    BY <1>1 DEF BodyCalls
<1>3. edge' = E \union new /\ def' = D \union ({f} \X bodies) /\ defEdge' = DE \union copied
    BY <1>0
<1>4. sym' \in [Symbols -> SymbolRow]
  <2>1. \A u \in Symbols, g \in Files \union {None} : Mint(sym[u], g) \in SymbolRow
      BY MintType
  <2> DEFINE targets == Mentions[f][c] \union {e[2] : e \in new}
  <2>2. PICK site \in [targets -> Files \union {None}] :
          sym' = [u \in Symbols |-> IF u \in targets THEN Mint(sym[u], site[u])
                                    ELSE sym[u]]
      BY <1>0
  <2> QED BY <2>1, <2>2
<1>5. copied \in SUBSET (Files \X Symbols \X Symbols)
    BY <1>1 DEF CopiedCalls
<1> QED BY <1>1, <1>2, <1>3, <1>4, <1>5

\* The empty local state, and its `scan` variants, satisfy everything.
LEMMA IdleType == Idle \in Process /\ LocalOK(Idle)
BY NoneIsNoValue DEF Idle, Process, LocalOK, Busy, NoAst, Entry, Version, Files

LEMMA RestType ==
    ASSUME proc \in [Procs -> Process], NEW p \in Procs, NEW T \in SUBSET proc[p].todo
    PROVE  LET r == [Idle EXCEPT !.pc = "scan", !.listed = proc[p].listed,
                                 !.graph = proc[p].graph, !.todo = T]
           IN  r \in Process /\ LocalOK(r)
BY DEF Idle, Process, LocalOK, Busy, NoAst, Version

\* A step of process p to a well-formed local state keeps all processes so.
LEMMA StepKeeps ==
    ASSUME TypeInv, NEW p \in Procs, NEW r \in Process, LocalOK(r), Step(p, r)
    PROVE  /\ proc' \in [Procs -> Process] /\ LocalsOK'
           /\ disk' \in [Files -> Version] /\ crashes' \in 0..MaxCrashes
<1>1. proc' = [proc EXCEPT ![p] = r] /\ disk' = disk /\ crashes' = crashes
    BY DEF Step
<1>2. \A q \in Procs : proc'[q] = IF q = p THEN r ELSE proc[q]
    BY <1>1 DEF TypeInv, TypeOK
<1>3. \A q \in Procs : LocalOK(proc'[q])
    BY <1>2 DEF TypeInv, LocalsOK
<1>4. LocalsOK'
    BY <1>3 DEF LocalsOK
<1> QED BY <1>1, <1>4 DEF TypeInv, TypeOK

LEMMA FileTyping ==
    \A f \in Files, c \in Contents :
        /\ Defines[f][c] \in SUBSET Symbols
        /\ Includes[f][c] \in SUBSET Headers
BY ConstantTypes

(***************************************************************************)
(* Type correctness: one lemma for the steps that only move a process, one *)
(* for those that write tables, one for the environment.                   *)
(***************************************************************************)
LEMMA BeginKeepsTypes ==
    ASSUME TypeInv, NEW p \in Procs, Begin(p)
    PROVE  TypeInv'
<1> USE DEF TypeInv
<1>1. ASSUME NEW g \in GraphModes, BeginPending(p, g)
      PROVE  TypeInv'
  <2> DEFINE T == {[file |-> f, indexed |-> row[f].indexed, md5 |-> row[f].md5] :
                        f \in {h \in Files : row[h].known}}
             r == [Idle EXCEPT !.pc = "scan", !.graph = g, !.todo = T]
  <2>1. T \in SUBSET Entry
      BY DEF TypeOK, FileRow, Entry
  <2>2. g \in BOOLEAN
      BY ConstantTypes
  <2>3. r \in Process /\ LocalOK(r)
      BY <2>1, <2>2 DEF Idle, Process, LocalOK, Busy, NoAst, Version
  <2>4. Step(p, r) /\ UNCHANGED tables
      BY <1>1 DEF BeginPending
  <2>5. /\ proc' \in [Procs -> Process] /\ LocalsOK'
        /\ disk' \in [Files -> Version] /\ crashes' \in 0..MaxCrashes
      BY <2>3, <2>4, StepKeeps
  <2> QED BY <2>4, <2>5 DEF TypeOK, tables
<1>2. ASSUME NEW g \in GraphModes, NEW F \in FileArgs, BeginFiles(p, g, F)
      PROVE  TypeInv'
  <2> DEFINE T == {[file |-> f, indexed |-> FALSE, md5 |-> None] : f \in F}
             r == [Idle EXCEPT !.pc = "scan", !.graph = g, !.listed = TRUE, !.todo = T]
  <2>1. F \in SUBSET Files /\ g \in BOOLEAN
      BY ConstantTypes
  <2>2. \A f \in F : f \in Files /\ None \in Version
      BY <2>1 DEF Version
  <2>3. \A f \in F : [file |-> f, indexed |-> FALSE, md5 |-> None] \in Entry
      BY <2>2 DEF Entry
  <2>4. T \in SUBSET Entry
      BY <2>3
  <2>5. r \in Process /\ LocalOK(r)
      BY <2>1, <2>4 DEF Idle, Process, LocalOK, Busy, NoAst, Version
  <2>6. Step(p, r) /\ UNCHANGED tables
      BY <1>2 DEF BeginFiles
  <2>7. /\ proc' \in [Procs -> Process] /\ LocalsOK'
        /\ disk' \in [Files -> Version] /\ crashes' \in 0..MaxCrashes
      BY <2>5, <2>6, StepKeeps
  <2> QED BY <2>6, <2>7 DEF TypeOK, tables
<1> QED BY <1>1, <1>2 DEF Begin

LEMMA ScanKeepsTypes ==
    ASSUME TypeInv, NEW p \in Procs, Scan(p)
    PROVE  TypeInv'
<1> USE DEF TypeInv
<1>0. proc[p] \in Process /\ disk \in [Files -> Version] /\ proc \in [Procs -> Process]
    BY DEF TypeOK
<1>1. ASSUME NEW r \in Process, LocalOK(r), Step(p, r), UNCHANGED tables
      PROVE  TypeInv'
  <2>1. /\ proc' \in [Procs -> Process] /\ LocalsOK'
        /\ disk' \in [Files -> Version] /\ crashes' \in 0..MaxCrashes
      BY <1>1, StepKeeps
  <2> QED BY <1>1, <2>1 DEF TypeOK, tables
<1>2. ASSUME NEW e \in proc[p].todo
      PROVE  Rest(p, e) \in Process /\ LocalOK(Rest(p, e))
    BY <1>0, RestType DEF Rest
<1>3. CASE Finish(p)
    BY <1>1, <1>3, IdleType DEF Finish
<1>4. ASSUME NEW e \in proc[p].todo, Skip(p, e)
      PROVE  TypeInv'
    BY <1>1, <1>2, <1>4 DEF Skip
<1>5. ASSUME NEW e \in proc[p].todo, ParseFails(p, e)
      PROVE  TypeInv'
    BY <1>1, <1>2, <1>5, IdleType DEF ParseFails
<1>6. ASSUME NEW e \in proc[p].todo, Parse(p, e)
      PROVE  TypeInv'
  <2> DEFINE f == e.file
             ast == [g \in Files |-> IF g \in Parsed(f) THEN disk[g] ELSE None]
             r == [Rest(p, e) EXCEPT !.pc = "symbols", !.cur = f, !.ast = ast]
  <2>1. f \in Files
      BY <1>0 DEF Process, Entry
  <2>2. Parsed(f) = {f} \union Includes[f][disk[f]] /\ disk[f] \in Contents
      BY <1>0, <1>6, <2>1 DEF Parse, Parses, Parsed, Version
  <2>3. \A h \in Headers : ast[h] # None =>
            ast[h] \in Contents /\ h \in {f} \union Includes[f][disk[f]]
      BY <1>0, <2>1, <2>2 DEF Files, Version
  <2>4. ast \in [Files -> Version] /\ ast[f] = disk[f]
      BY <1>0, <2>1, <2>2 DEF Version
  <2>5. /\ r.pc = "symbols" /\ r.cur = f /\ r.ast = ast
        /\ r.inc = {} /\ r.pend = {}
      BY DEF Rest, Idle
  <2>6. r \in Process
      BY <1>2, <2>1, <2>4 DEF Process
  <2>7. LocalOK(r)
      BY <2>1, <2>2, <2>3, <2>4, <2>5 DEF LocalOK
  <2>8. Step(p, r) /\ UNCHANGED tables
      BY <1>6 DEF Parse
  <2> QED BY <1>1, <2>6, <2>7, <2>8
<1> QED BY <1>3, <1>4, <1>5, <1>6 DEF Scan

LEMMA WriteKeepsTypes ==
    ASSUME TypeInv, NEW p \in Procs, Write(p)
    PROVE  TypeInv'
<1> USE DEF TypeInv
<1>0. /\ proc[p] \in Process /\ proc \in [Procs -> Process] /\ LocalOK(proc[p])
      /\ disk \in [Files -> Version] /\ row \in [Files -> FileRow]
      /\ sym \in [Symbols -> SymbolRow] /\ edge \in SUBSET (Symbols \X Symbols)
      /\ def \in SUBSET (Files \X Symbols)
      /\ defEdge \in SUBSET (Files \X Symbols \X Symbols)
      /\ Headers \subseteq Files
    BY DEF TypeOK, LocalsOK, Files
<1>1. ASSUME NEW r \in Process, LocalOK(r), Step(p, r),
             row' \in [Files -> FileRow], sym' \in [Symbols -> SymbolRow],
             edge' \in SUBSET (Symbols \X Symbols), def' \in SUBSET (Files \X Symbols),
             defEdge' \in SUBSET (Files \X Symbols \X Symbols)
      PROVE  TypeInv'
  <2>1. /\ proc' \in [Procs -> Process] /\ LocalsOK'
        /\ disk' \in [Files -> Version] /\ crashes' \in 0..MaxCrashes
      BY <1>1, StepKeeps
  <2> QED BY <1>1, <2>1 DEF TypeOK
<1>2. ASSUME NEW h \in Headers
      PROVE  MarkedIndexed(h) \in [Files -> FileRow]
    BY <1>0 DEF MarkedIndexed, FileRow
<1>3. CASE StoreMain(p)
  <2> DEFINE f == proc[p].cur
             r == [proc[p] EXCEPT !.pc = "headers",
                       !.inc = {h \in Headers \ {f} : proc[p].ast[h] # None}]
  <2>1. At(p, "symbols") /\ f \in Files /\ proc[p].ast[f] \in Contents
      BY <1>0, <1>3 DEF StoreMain, At, LocalOK, Busy
  <2>2. r \in Process
      BY <1>0 DEF Process
  <2>3. LocalOK(r)
      BY <1>0, <2>1 DEF At, LocalOK, Busy, Process
  <2>4. Step(p, r) /\ sym' = StoreSymbols(f, proc[p].ast[f])
        /\ UNCHANGED <<row, edge, def, defEdge>>
      BY <1>3 DEF StoreMain
  <2>5. sym' \in [Symbols -> SymbolRow]
      BY <1>0, <2>1, <2>4, StoreSymbolsType
  <2> QED BY <1>0, <1>1, <2>2, <2>3, <2>4, <2>5
<1>4. ASSUME NEW h \in Headers, SkipHeader(p, h)
      PROVE  TypeInv'
  <2> DEFINE r == [proc[p] EXCEPT !.inc = @ \ {h}]
  <2>1. r \in Process
      BY <1>0 DEF Process
  <2>2. LocalOK(r)
      BY <1>0, <1>4 DEF SkipHeader, At, LocalOK, Process
  <2>3. Step(p, r) /\ UNCHANGED tables
      BY <1>4 DEF SkipHeader
  <2> QED BY <1>0, <1>1, <2>1, <2>2, <2>3 DEF tables
<1>5. ASSUME NEW h \in Headers, RegisterHeader(p, h)
      PROVE  TypeInv'
  <2> DEFINE r == [proc[p] EXCEPT !.pc = "hsyms", !.hdr = h, !.inc = @ \ {h}]
  <2>1. r \in Process
      BY <1>0 DEF Process
  <2>2. LocalOK(r)
      BY <1>0, <1>5 DEF RegisterHeader, At, LocalOK, Busy, Process
  <2>3. Step(p, r) /\ UNCHANGED <<sym, edge, def, defEdge>>
        /\ row' = [row EXCEPT ![h] = AddFile(@, disk[h])]
      BY <1>5 DEF RegisterHeader
  <2>4. AddFile(row[h], disk[h]) \in FileRow
      BY <1>0, AddFileType
  <2>5. row' \in [Files -> FileRow]
      BY <1>0, <2>3, <2>4
  <2> QED BY <1>0, <1>1, <2>1, <2>2, <2>3, <2>5
<1>6. CASE StoreHeader(p)
  <2> DEFINE h == proc[p].hdr
             r == [proc[p] EXCEPT !.pc = "headers", !.hdr = None, !.pend = @ \union {h}]
  <2>1. At(p, "hsyms") /\ h \in Headers \ {proc[p].cur} /\ proc[p].ast[h] # None
      BY <1>0, <1>6 DEF StoreHeader, At, LocalOK
  <2>2. r \in Process
      BY <1>0, <2>1 DEF Process
  <2>3. LocalOK(r)
      BY <1>0, <2>1 DEF At, LocalOK, Busy, Process
  <2>4. Step(p, r) /\ sym' = StoreSymbols(h, proc[p].ast[h])
        /\ UNCHANGED <<row, edge, def, defEdge>>
      BY <1>6 DEF StoreHeader
  <2>5. sym' \in [Symbols -> SymbolRow]
      BY <1>0, <2>1, <2>4, StoreSymbolsType
  <2> QED BY <1>0, <1>1, <2>2, <2>3, <2>4, <2>5
<1>7. ASSUME NEW h \in Headers, StoreHeaderEdges(p, h)
      PROVE  TypeInv'
  <2> DEFINE r == [proc[p] EXCEPT !.pc = "hmark", !.hdr = h, !.pend = @ \ {h}]
  <2>1. At(p, "headers") /\ proc[p].inc = {} /\ h \in proc[p].pend
      BY <1>7 DEF StoreHeaderEdges
  <2>2. r \in Process
      BY <1>0 DEF Process
  <2>3. LocalOK(r)
      BY <1>0, <2>1 DEF At, LocalOK, Busy, Process
  <2>4. proc[p].ast[h] \in Contents /\ proc[p].ast \in [Files -> Version]
      BY <1>0, <2>1 DEF At, LocalOK, Busy, Process
  <2>5. Step(p, r) /\ row' = row /\ StoreBodies(h, proc[p].ast, EdgesWithout(h),
                                                DefsWithout(h), DefEdgesWithout(h))
      BY <1>7 DEF StoreHeaderEdges
  <2>6. /\ EdgesWithout(h) \in SUBSET (Symbols \X Symbols)
        /\ DefsWithout(h) \in SUBSET (Files \X Symbols)
        /\ DefEdgesWithout(h) \in SUBSET (Files \X Symbols \X Symbols)
      BY <1>0 DEF EdgesWithout, DefsWithout, DefEdgesWithout
  <2>7. /\ sym' \in [Symbols -> SymbolRow]
        /\ edge' \in SUBSET (Symbols \X Symbols)
        /\ def' \in SUBSET (Files \X Symbols)
        /\ defEdge' \in SUBSET (Files \X Symbols \X Symbols)
      BY <1>0, <2>4, <2>5, <2>6, StoreBodiesType
  <2> QED BY <1>0, <1>1, <2>2, <2>3, <2>5, <2>7
<1>8. CASE MarkHeader(p)
  <2> DEFINE r == [proc[p] EXCEPT !.pc = "headers", !.hdr = None]
  <2>1. At(p, "hmark") /\ proc[p].hdr \in Headers
      BY <1>0, <1>8 DEF MarkHeader, At, LocalOK
  <2>2. r \in Process
      BY <1>0 DEF Process
  <2>3. LocalOK(r)
      BY <1>0, <2>1 DEF At, LocalOK, Busy, Process
  <2>4. Step(p, r) /\ row' = MarkedIndexed(proc[p].hdr) /\ UNCHANGED <<sym, edge, def, defEdge>>
      BY <1>8 DEF MarkHeader
  <2> QED BY <1>0, <1>1, <1>2, <2>1, <2>2, <2>3, <2>4
<1>9. CASE WipeEdges(p)
  <2> DEFINE r == [proc[p] EXCEPT !.pc = "bodies"]
  <2>1. r \in Process
      BY <1>0 DEF Process
  <2>2. LocalOK(r)
      BY <1>0, <1>9 DEF WipeEdges, HeadersDone, At, LocalOK, Busy, Process
  <2>3. Step(p, r) /\ edge' = EdgesWithout(proc[p].cur) /\ UNCHANGED <<row, sym, def, defEdge>>
      BY <1>9 DEF WipeEdges
  <2>4. edge' \in SUBSET (Symbols \X Symbols)
      BY <1>0, <2>3 DEF EdgesWithout
  <2> QED BY <1>0, <1>1, <2>1, <2>2, <2>3, <2>4
<1>10. CASE WipeBodies(p)
  <2> DEFINE r == [proc[p] EXCEPT !.pc = "edges"]
  <2>1. r \in Process
      BY <1>0 DEF Process
  <2>2. LocalOK(r)
      BY <1>0, <1>10 DEF WipeBodies, At, LocalOK, Busy, Process
  <2>3. Step(p, r) /\ def' = DefsWithout(proc[p].cur)
        /\ defEdge' = DefEdgesWithout(proc[p].cur) /\ UNCHANGED <<row, sym, edge>>
      BY <1>10 DEF WipeBodies
  <2>4. def' \in SUBSET (Files \X Symbols) /\ defEdge' \in SUBSET (Files \X Symbols \X Symbols)
      BY <1>0, <2>3 DEF DefsWithout, DefEdgesWithout
  <2> QED BY <1>0, <1>1, <2>1, <2>2, <2>3, <2>4
<1>11. CASE StoreEdges(p)
  <2> DEFINE r == [proc[p] EXCEPT !.pc = "mark"]
             f == proc[p].cur
  <2>1. At(p, "edges") /\ f \in Files /\ proc[p].ast[f] \in Contents
      BY <1>0, <1>11 DEF StoreEdges, At, LocalOK, Busy
  <2>2. r \in Process /\ proc[p].ast \in [Files -> Version]
      BY <1>0 DEF Process
  <2>3. LocalOK(r)
      BY <1>0, <2>1 DEF At, LocalOK, Busy, Process
  <2>4. Step(p, r) /\ row' = row /\ StoreBodies(f, proc[p].ast, edge, def, defEdge)
      BY <1>11 DEF StoreEdges
  <2>5. /\ sym' \in [Symbols -> SymbolRow]
        /\ edge' \in SUBSET (Symbols \X Symbols)
        /\ def' \in SUBSET (Files \X Symbols)
        /\ defEdge' \in SUBSET (Files \X Symbols \X Symbols)
      BY <1>0, <2>1, <2>2, <2>4, StoreBodiesType
  <2> QED BY <1>0, <1>1, <2>2, <2>3, <2>4, <2>5
<1>12. CASE MarkMain(p)
  <2> DEFINE r == [Idle EXCEPT !.pc = "scan", !.listed = proc[p].listed,
                               !.graph = proc[p].graph, !.todo = proc[p].todo]
  <2>1. r \in Process /\ LocalOK(r)
      BY <1>0, RestType
  <2>2. Step(p, r) /\ row' = MarkedIndexed(proc[p].cur) /\ UNCHANGED <<sym, edge, def, defEdge>>
      BY <1>12 DEF MarkMain
  <2>3. row' \in [Files -> FileRow]
      BY <1>0, <2>2 DEF MarkedIndexed, FileRow
  <2> QED BY <1>0, <1>1, <2>1, <2>2, <2>3
<1>13. ASSUME Abort(p) \/ \E h \in Headers : AbortHeader(p, h)
       PROVE  TypeInv'
  <2>1. Step(p, Idle) /\ UNCHANGED tables
      BY <1>13 DEF Abort, AbortHeader
  <2> QED BY <1>0, <1>1, <2>1, IdleType DEF tables
<1> QED BY <1>3, <1>4, <1>5, <1>6, <1>7, <1>8, <1>9, <1>10, <1>11, <1>12, <1>13 DEF Write

LEMMA DropTypes ==
    ASSUME TypeInv, NEW F \in SUBSET Files, Drop(F)
    PROVE  /\ row' \in [Files -> FileRow] /\ sym' \in [Symbols -> SymbolRow]
           /\ edge' \in SUBSET (Symbols \X Symbols) /\ def' \in SUBSET (Files \X Symbols)
           /\ defEdge' \in SUBSET (Files \X Symbols \X Symbols)
<1>1. NoRow \in FileRow /\ NoSymbol \in SymbolRow
    BY DEF NoRow, NoSymbol, FileRow, SymbolRow, Version
<1>2. row' \in [Files -> FileRow]
    BY <1>1 DEF Drop, TypeInv, TypeOK
<1>3. sym' \in [Symbols -> SymbolRow]
    BY <1>1 DEF Drop, TypeInv, TypeOK
<1>4. edge' \subseteq edge /\ def' \subseteq def /\ defEdge' \subseteq defEdge
    BY DEF Drop
<1> QED BY <1>2, <1>3, <1>4 DEF TypeInv, TypeOK

LEMMA EnvironmentKeepsTypes ==
    ASSUME TypeInv, Environment
    PROVE  TypeInv'
<1> USE DEF TypeInv
<1>1. ASSUME NEW f \in Files, NEW c \in Version, Edit(f, c)
      PROVE  TypeInv'
  <2>1. disk' \in [Files -> Version]
      BY <1>1 DEF Edit, TypeOK
  <2> QED BY <1>1, <2>1 DEF Edit, TypeOK, LocalsOK, tables
<1>2. CASE Import
  <2>1. \A f \in Files : AddFile(row[f], disk[f]) \in FileRow
      BY AddFileType DEF TypeOK
  <2>2. row' \in [Files -> FileRow]
      BY <1>2, <2>1 DEF Import, TypeOK
  <2> QED BY <1>2, <2>2 DEF Import, TypeOK, LocalsOK
<1>3. ASSUME NEW f \in Files, NEW b \in SetValues, SetIndexed(f, b)
      PROVE  TypeInv'
  <2>1. row' \in [Files -> FileRow]
      BY <1>3, ConstantTypes DEF SetIndexed, TypeOK, FileRow
  <2> QED BY <1>3, <2>1 DEF SetIndexed, TypeOK, LocalsOK
<1>4. ASSUME NEW F \in Droppable, Drop(F)
      PROVE  TypeInv'
  <2>1. F \in SUBSET Files
      BY ConstantTypes
  <2>2. UNCHANGED <<disk, proc, crashes>>
      BY <1>4 DEF Drop
  <2> QED BY <1>4, <2>1, <2>2, DropTypes DEF TypeOK, LocalsOK
<1> QED BY <1>1, <1>2, <1>3, <1>4 DEF Environment

LEMMA CrashKeepsTypes ==
    ASSUME TypeInv, NEW p \in Procs, Crash(p)
    PROVE  TypeInv'
<1>1. crashes' \in 0..MaxCrashes
    BY ConstantTypes DEF Crash, TypeInv, TypeOK
<1>2. proc' = [proc EXCEPT ![p] = Idle] /\ UNCHANGED <<disk, tables>>
    BY DEF Crash
<1>3. proc' \in [Procs -> Process]
    BY <1>2, IdleType DEF TypeInv, TypeOK
<1>4. \A q \in Procs : LocalOK(proc'[q])
    BY <1>2, IdleType DEF TypeInv, TypeOK, LocalsOK
<1> QED BY <1>1, <1>2, <1>3, <1>4 DEF TypeInv, TypeOK, LocalsOK, tables

LEMMA TypeInvInit == Init => TypeInv
<1> SUFFICES ASSUME Init PROVE TypeInv
    OBVIOUS
<1>1. NoRow \in FileRow /\ NoSymbol \in SymbolRow
    BY DEF NoRow, NoSymbol, FileRow, SymbolRow, Version
<1>2. TypeOK
    BY <1>1, IdleType, ConstantTypes DEF Init, TypeOK, Version
<1>3. LocalsOK
    BY IdleType DEF Init, LocalsOK
<1> QED BY <1>2, <1>3 DEF TypeInv

LEMMA TypeInvNext == TypeInv /\ [Next]_vars => TypeInv'
<1> SUFFICES ASSUME TypeInv, [Next]_vars PROVE TypeInv'
    OBVIOUS
<1>1. CASE UNCHANGED vars
    BY <1>1 DEF TypeInv, TypeOK, LocalsOK, vars, tables
<1>2. ASSUME NEW p \in Procs, Begin(p) \/ Scan(p) \/ Write(p) \/ Crash(p)
      PROVE  TypeInv'
    BY <1>2, BeginKeepsTypes, ScanKeepsTypes, WriteKeepsTypes, CrashKeepsTypes
<1>3. CASE Environment
    BY <1>3, EnvironmentKeepsTypes
<1> QED BY <1>1, <1>2, <1>3 DEF Next

\* The tables and the processes' memory always have their types, for any set of
\* processes, files and versions: in particular every row a step looks up (the
\* version a header has in the AST, the unit a process is in) is there.
THEOREM TypeCorrect == Spec => []TypeOK
<1>1. Spec => []TypeInv
    BY TypeInvInit, TypeInvNext, PTL DEF Spec
<1> QED BY <1>1, PTL DEF TypeInv

(***************************************************************************)
(* Definition sites.                                                       *)
(***************************************************************************)
LEMMA StoreSymbolsSites ==
    ASSUME DefInv, NEW f \in Files, NEW c \in Contents, NEW u \in Symbols
    PROVE  /\ SiteOK(StoreSymbols(f, c)[u], u)
           /\ u \in Defines[f][c] =>
                /\ StoreSymbols(f, c)[u].known /\ StoreSymbols(f, c)[u].def
                /\ StoreSymbols(f, c)[u].file = f
           /\ sym[u].def /\ u \notin Defines[f][c] =>
                /\ StoreSymbols(f, c)[u].known /\ StoreSymbols(f, c)[u].def
                /\ StoreSymbols(f, c)[u].file = sym[u].file
<1> DEFINE d == IF u \in Declares[f][c] THEN AddSymbol(sym[u], f, FALSE) ELSE sym[u]
<1>1. SiteOK(sym[u], u) /\ sym[u] \in SymbolRow
    BY DEF DefInv, TypeInv, TypeOK
<1>2. /\ SiteOK(d, u)
      /\ sym[u].def => d.known /\ d.def /\ d.file = sym[u].file
    BY <1>1 DEF AddSymbol, SiteOK, SymbolRow
<1>3. StoreSymbols(f, c)[u] = IF u \in Defines[f][c] THEN AddSymbol(d, f, TRUE) ELSE d
    BY DEF StoreSymbols
<1>4. /\ AddSymbol(d, f, TRUE).known /\ AddSymbol(d, f, TRUE).def
      /\ AddSymbol(d, f, TRUE).file = f
    BY DEF AddSymbol
<1>5. u \in Defines[f][c] => SiteOK(AddSymbol(d, f, TRUE), u)
    BY <1>4 DEF SiteOK
<1> QED BY <1>2, <1>3, <1>4, <1>5

LEMMA StoreBodiesSites ==
    ASSUME DefInv, NEW f, NEW ast, NEW E, NEW D, NEW DE, StoreBodies(f, ast, E, D, DE),
           NEW u \in Symbols
    PROVE  /\ SiteOK(sym'[u], u)
           /\ sym[u].def => sym'[u].known /\ sym'[u].def /\ sym'[u].file = sym[u].file
<1>1. SiteOK(sym[u], u)
    BY DEF DefInv
<1>2. PICK g : sym'[u] = sym[u] \/ sym'[u] = Mint(sym[u], g)
    BY DEF StoreBodies
<1>3. CASE sym'[u] = sym[u]
    BY <1>1, <1>3 DEF SiteOK
<1>4. CASE sym'[u] = Mint(sym[u], g)
  <2>1. sym'[u].known /\ sym'[u].def = sym[u].def /\ sym'[u].file = sym[u].file
      BY <1>4 DEF Mint
  <2> QED BY <1>1, <2>1 DEF SiteOK
<1> QED BY <1>2, <1>3, <1>4

\* The rows that one step of Next leaves with their definition site.
LEMMA SitesStep ==
    ASSUME DefInv, [Next]_vars, NEW u \in Symbols
    PROVE  SiteOK(sym'[u], u)
<1>0. SiteOK(sym[u], u) /\ Headers \subseteq Files
    BY DEF DefInv, Files
<1>1. CASE sym' = sym
    BY <1>0, <1>1
<1>2. ASSUME NEW p \in Procs, StoreMain(p)
      PROVE  SiteOK(sym'[u], u)
  <2>1. proc[p].cur \in Files /\ proc[p].ast[proc[p].cur] \in Contents
      BY <1>2 DEF StoreMain, At, DefInv, TypeInv, LocalsOK, LocalOK, Busy
  <2> QED BY <1>2, <2>1, StoreSymbolsSites DEF StoreMain
<1>3. ASSUME NEW p \in Procs, StoreHeader(p)
      PROVE  SiteOK(sym'[u], u)
  <2>1. proc[p].hdr \in Files /\ proc[p].ast[proc[p].hdr] \in Contents
      BY <1>0, <1>3 DEF StoreHeader, At, DefInv, TypeInv, LocalsOK, LocalOK, Busy
  <2> QED BY <1>3, <2>1, StoreSymbolsSites DEF StoreHeader
<1>4. ASSUME NEW p \in Procs, NEW h \in Headers, StoreHeaderEdges(p, h)
      PROVE  SiteOK(sym'[u], u)
    BY <1>4, StoreBodiesSites DEF StoreHeaderEdges
<1>5. ASSUME NEW p \in Procs, StoreEdges(p)
      PROVE  SiteOK(sym'[u], u)
    BY <1>5, StoreBodiesSites DEF StoreEdges
<1>6. ASSUME NEW F \in Droppable, Drop(F)
      PROVE  SiteOK(sym'[u], u)
  <2>1. sym'[u] = NoSymbol \/ sym'[u] = sym[u]
      BY <1>6 DEF Drop
  <2> QED BY <1>0, <2>1 DEF SiteOK, NoSymbol
<1>7. ASSUME NEW p \in Procs, Begin(p) \/ Scan(p) \/ Crash(p)
      PROVE  sym' = sym
    BY <1>7 DEF Begin, BeginPending, BeginFiles, Scan, Skip, Parse, ParseFails, Finish,
                Crash, tables
<1>8. ASSUME NEW p \in Procs, Write(p), ~StoreMain(p), ~StoreHeader(p), ~StoreEdges(p),
             \A h \in Headers : ~StoreHeaderEdges(p, h)
      PROVE  sym' = sym
    BY <1>8 DEF Write, SkipHeader, RegisterHeader, AbortHeader, MarkHeader, WipeEdges,
                WipeBodies, MarkMain, Abort, tables
<1>9. ASSUME Environment, \A F \in Droppable : ~Drop(F)
      PROVE  sym' = sym
    BY <1>9 DEF Environment, Edit, Import, SetIndexed, tables
<1>10. UNCHANGED vars => sym' = sym
    BY DEF vars, tables
<1> QED BY <1>1, <1>2, <1>3, <1>4, <1>5, <1>6, <1>7, <1>8, <1>9, <1>10 DEF Next

LEMMA DefInvInductive == (Init => DefInv) /\ (DefInv /\ [Next]_vars => DefInv')
<1>1. Init => DefInv
    BY TypeInvInit DEF Init, DefInv, SiteOK, NoSymbol
<1>2. ASSUME DefInv, [Next]_vars
      PROVE  DefInv'
  <2>1. TypeInv'
      BY <1>2, TypeInvNext DEF DefInv
  <2>2. \A u \in Symbols : SiteOK(sym'[u], u)
      BY <1>2, SitesStep
  <2> QED BY <2>1, <2>2 DEF DefInv
<1> QED BY <1>1, <1>2

\* However declarations, definitions of several backends, stubs and deletions
\* interleave, and however many processes write them, the stored definition site
\* of a symbol is a file that defines the symbol.
THEOREM DefinitionSites == Spec => []DefinitionSiteDefines
<1>1. Spec => []DefInv
    BY DefInvInductive, PTL DEF Spec
<1>2. DefInv => DefinitionSiteDefines
    BY DEF DefInv, SiteOK, DefinitionSiteDefines
<1> QED BY <1>1, <1>2, PTL

(***************************************************************************)
(* Recorded calls, with one process.                                       *)
(***************************************************************************)
\* The files of one AST define different symbols.
LEMMA OneDefinition ==
    ASSUME NEW r \in Process, LocalOK(r), r.pc \in Busy, NEW g \in Files, NEW h \in Files,
           g # h, g = r.cur \/ (g \in Headers /\ r.ast[g] # None),
           h = r.cur \/ (h \in Headers /\ r.ast[h] # None)
    PROVE  Defines[g][r.ast[g]] \intersect Defines[h][r.ast[h]] = {}
<1>1. r.cur \in Files /\ r.ast[r.cur] \in Contents
    BY DEF LocalOK
<1>2. \A x \in Headers \ {r.cur} : r.ast[x] # None =>
          r.ast[x] \in Contents /\ x \in Includes[r.cur][r.ast[r.cur]]
    BY DEF LocalOK
<1>3. CASE g = r.cur
    BY <1>1, <1>2, <1>3, OneDefinitionPerTU
<1>4. CASE h = r.cur
    BY <1>1, <1>2, <1>4, OneDefinitionPerTU
<1>5. CASE g # r.cur /\ h # r.cur
  <2>1. h \in Includes[r.cur][r.ast[r.cur]] \ {g} /\ g \in Includes[r.cur][r.ast[r.cur]]
        /\ r.ast[g] \in Contents /\ r.ast[h] \in Contents
      BY <1>2, <1>5
  <2> QED BY <1>1, <2>1, OneDefinitionPerTU
<1> QED BY <1>3, <1>4, <1>5

\* Bodies written over wiped rows record their own calls only.
LEMMA BodiesRecordTheirCalls ==
    ASSUME NoForeignCalls, NEW f \in Files, NEW ast, ast[f] \in Contents,
           NEW E \in SUBSET edge, NEW D \in SUBSET def, NEW DE \in SUBSET defEdge,
           \A u \in Defines[f][ast[f]] : \A e \in E : e[1] # u,
           \A d \in D : d[1] # f, \A d \in DE : d[1] # f,
           StoreBodies(f, ast, E, D, DE)
    PROVE  NoForeignCalls'
<1> DEFINE c == ast[f]
<1>0. PICK bodies \in BodySets(f, c) :
        /\ def' = D \union ({f} \X bodies)
        /\ defEdge' = DE \union CopiedCalls(f, bodies, E \union BodyCalls(f, c, bodies))
    BY DEF StoreBodies
<1> DEFINE new == BodyCalls(f, c, bodies)
           copied == CopiedCalls(f, bodies, E \union new)
<1>1. def' = D \union ({f} \X bodies) /\ defEdge' = DE \union copied
    BY <1>0
<1> SUFFICES ASSUME NEW d \in def'
             PROVE  \E b \in Contents :
                      /\ d[2] \in Defines[d[1]][b]
                      /\ \A v \in Symbols : <<d[1], d[2], v>> \in defEdge' =>
                             v \in Calls[d[1]][b][d[2]]
    BY DEF NoForeignCalls
<1>2. CASE d \in D
  <2>1. PICK b \in Contents :
          /\ d[2] \in Defines[d[1]][b]
          /\ \A v \in Symbols : <<d[1], d[2], v>> \in defEdge => v \in Calls[d[1]][b][d[2]]
      BY <1>2 DEF NoForeignCalls
  <2>2. \A x \in copied : x[1] = f
      BY DEF CopiedCalls
  <2>3. \A v \in Symbols : <<d[1], d[2], v>> \in defEdge' => <<d[1], d[2], v>> \in DE
    <3> SUFFICES ASSUME NEW v \in Symbols, <<d[1], d[2], v>> \in copied
                 PROVE  FALSE
        BY <1>1
    <3>1. <<d[1], d[2], v>>[1] = f
        BY <2>2
    <3> QED BY <1>2, <3>1
  <2> QED BY <2>1, <2>3
<1>3. CASE d \in {f} \X bodies
  <2>1. d[1] = f /\ d[2] \in bodies
      BY <1>3
  <2>2. ASSUME NEW v \in Symbols, <<d[1], d[2], v>> \in defEdge'
        PROVE  v \in Calls[f][c][d[2]]
    <3>1. <<d[1], d[2], v>> \notin DE
      <4>1. <<d[1], d[2], v>>[1] = f
          BY <2>1
      <4> QED BY <4>1
    <3>2. <<d[1], d[2], v>> \in copied
        BY <1>1, <2>2, <3>1
    <3>3. <<d[2], v>> \in E \union new
        BY <3>2 DEF CopiedCalls
    <3>4. <<d[2], v>> \notin E
      <4>1. <<d[2], v>>[1] \in Defines[f][ast[f]]
          BY <2>1 DEF BodySets
      <4> QED BY <4>1
    <3>5. <<d[2], v>> \in new
        BY <3>3, <3>4
    <3> QED BY <3>5 DEF BodyCalls
  <2>3. d[2] \in Defines[d[1]][c]
      BY <2>1 DEF BodySets
  <2> QED BY <2>1, <2>2, <2>3
<1> QED BY <1>1, <1>2, <1>3

\* What a step of the only process must show.
LEMMA QuietMove ==
    ASSUME WriteInv, NEW p \in Procs, NEW r \in Process, Step(p, r),
           r.pc \notin {"headers", "hsyms", "hmark", "bodies", "edges"},
           UNCHANGED <<def, defEdge>>
    PROVE  NoForeignCalls' /\ WriteOK(p)'
<1>1. proc'[p] = r
    BY DEF Step, WriteInv, DefInv, TypeInv, TypeOK
<1>2. NoForeignCalls'
    BY DEF WriteInv, NoForeignCalls
<1> QED BY <1>1, <1>2 DEF WriteOK, OwnedOrBare, StoredFiles, EdgesWiped, BodiesWiped

LEMMA QuietSteps ==
    ASSUME WriteInv, NEW p \in Procs, Begin(p) \/ Scan(p) \/ Crash(p)
    PROVE  NoForeignCalls' /\ WriteOK(p)'
<1>1. UNCHANGED tables
    BY DEF Begin, BeginPending, BeginFiles, Scan, Skip, Parse, ParseFails, Finish, Crash
<1>2. proc \in [Procs -> Process]
    BY DEF WriteInv, DefInv, TypeInv, TypeOK
<1>3. proc'[p].pc \in {"idle", "scan", "symbols"}
  <2>1. CASE Crash(p)
      BY <1>2, <2>1 DEF Crash, Idle
  <2>2. ASSUME NEW r, r.pc \in {"idle", "scan", "symbols"}, Step(p, r)
        PROVE  proc'[p].pc \in {"idle", "scan", "symbols"}
      BY <1>2, <2>2 DEF Step
  <2>3. CASE Begin(p)
    <3>1. ASSUME NEW g \in GraphModes, BeginPending(p, g)
          PROVE  proc'[p].pc \in {"idle", "scan", "symbols"}
      <4> DEFINE r == [Idle EXCEPT !.pc = "scan", !.graph = g,
             !.todo = {[file |-> f, indexed |-> row[f].indexed, md5 |-> row[f].md5] :
                          f \in {h \in Files : row[h].known}}]
      <4>1. Step(p, r)
          BY <3>1 DEF BeginPending
      <4>2. r.pc = "scan"
          BY DEF Idle
      <4> HIDE DEF r
      <4> QED BY <2>2, <4>1, <4>2
    <3>2. ASSUME NEW g \in GraphModes, NEW F \in FileArgs, BeginFiles(p, g, F)
          PROVE  proc'[p].pc \in {"idle", "scan", "symbols"}
      <4> DEFINE r == [Idle EXCEPT !.pc = "scan", !.graph = g, !.listed = TRUE,
             !.todo = {[file |-> f, indexed |-> FALSE, md5 |-> None] : f \in F}]
      <4>1. Step(p, r)
          BY <3>2 DEF BeginFiles
      <4>2. r.pc = "scan"
          BY DEF Idle
      <4> HIDE DEF r
      <4> QED BY <2>2, <4>1, <4>2
    <3> QED BY <2>3, <3>1, <3>2 DEF Begin
  <2>4. ASSUME NEW e \in proc[p].todo
        PROVE  Rest(p, e).pc = "scan"
      BY DEF Rest, Idle
  <2>5. ASSUME NEW e \in proc[p].todo, Skip(p, e) \/ Parse(p, e) \/ ParseFails(p, e)
        PROVE  proc'[p].pc \in {"idle", "scan", "symbols"}
    <3>1. CASE Skip(p, e)
        BY <2>2, <2>4, <3>1 DEF Skip
    <3>2. CASE Parse(p, e)
      <4> DEFINE r == [Rest(p, e) EXCEPT !.pc = "symbols", !.cur = e.file,
             !.ast = [g \in Files |-> IF g \in Parsed(e.file) THEN disk[g] ELSE None]]
      <4>1. Step(p, r)
          BY <3>2 DEF Parse
      <4>2. r.pc = "symbols"
          BY DEF Rest, Idle
      <4> HIDE DEF r
      <4> QED BY <2>2, <4>1, <4>2
    <3>3. CASE ParseFails(p, e)
      <4>1. Step(p, Rest(p, e)) \/ Step(p, Idle)
          BY <3>3 DEF ParseFails
      <4>2. Idle.pc = "idle"
          BY DEF Idle
      <4> QED BY <2>2, <2>4, <4>1, <4>2
    <3> QED BY <2>5, <3>1, <3>2, <3>3
  <2>6. CASE Finish(p)
      BY <2>2, <2>6 DEF Finish, Idle
  <2> QED BY <2>1, <2>3, <2>5, <2>6 DEF Scan
<1>4. NoForeignCalls'
    BY <1>1 DEF WriteInv, NoForeignCalls, tables
<1> QED BY <1>3, <1>4 DEF WriteOK, OwnedOrBare, StoredFiles, EdgesWiped, BodiesWiped

\* The steps between the commits that write symbols and bodies.
LEMMA PlainWrites ==
    ASSUME WriteInv, NEW p \in Procs,
           \/ \E h \in Headers : SkipHeader(p, h) \/ RegisterHeader(p, h) \/ AbortHeader(p, h)
           \/ MarkHeader(p) \/ MarkMain(p) \/ Abort(p)
    PROVE  NoForeignCalls' /\ WriteOK(p)'
<1>0. /\ proc \in [Procs -> Process] /\ proc[p] \in Process /\ LocalOK(proc[p])
      /\ NoForeignCalls /\ WriteOK(p)
    BY DEF WriteInv, DefInv, TypeInv, TypeOK, LocalsOK
<1>1. UNCHANGED <<sym, edge, def, defEdge>>
    BY DEF SkipHeader, RegisterHeader, AbortHeader, MarkHeader, MarkMain, Abort, tables
<1>2. NoForeignCalls'
    BY <1>0, <1>1 DEF NoForeignCalls
<1>3. CASE proc'[p].pc \in {"idle", "scan"}
    BY <1>2, <1>3 DEF WriteOK, OwnedOrBare, StoredFiles, EdgesWiped, BodiesWiped
<1>4. CASE /\ proc[p].pc \in {"headers", "hmark"} /\ proc'[p].pc \in {"headers", "hsyms"}
           /\ proc'[p].cur = proc[p].cur /\ proc'[p].ast = proc[p].ast
           /\ proc'[p].pend = proc[p].pend
  <2>1. StoredFiles(proc'[p]) = StoredFiles(proc[p])
      BY <1>4 DEF StoredFiles
  <2>2. \A g \in StoredFiles(proc[p]) : \A u \in Defines[g][proc[p].ast[g]] :
            Owned(g, u)' \/ NoEdges(u)'
      BY <1>0, <1>1 DEF WriteOK, OwnedOrBare, Owned, NoEdges
  <2>3. OwnedOrBare(p)'
      BY <1>4, <2>1, <2>2 DEF OwnedOrBare
  <2> QED BY <1>2, <1>4, <2>3 DEF WriteOK, EdgesWiped, BodiesWiped
<1>5. ASSUME NEW h \in Headers, SkipHeader(p, h) \/ RegisterHeader(p, h)
      PROVE  /\ proc[p].pc = "headers" /\ proc'[p].pc \in {"headers", "hsyms"}
             /\ proc'[p].cur = proc[p].cur /\ proc'[p].ast = proc[p].ast
             /\ proc'[p].pend = proc[p].pend
  <2>1. CASE SkipHeader(p, h)
      BY <1>0, <2>1 DEF SkipHeader, At, Step, Process
  <2>2. CASE RegisterHeader(p, h)
      BY <1>0, <2>2 DEF RegisterHeader, At, Step, Process
  <2> QED BY <1>5, <2>1, <2>2
<1>6. MarkHeader(p) => /\ proc[p].pc = "hmark" /\ proc'[p].pc = "headers"
                       /\ proc'[p].cur = proc[p].cur /\ proc'[p].ast = proc[p].ast
                       /\ proc'[p].pend = proc[p].pend
    BY <1>0 DEF MarkHeader, At, Step, Process
<1>7. MarkMain(p) => proc'[p].pc = "scan"
    BY <1>0 DEF MarkMain, Step, Idle
<1>8. Abort(p) \/ (\E h \in Headers : AbortHeader(p, h)) => proc'[p].pc = "idle"
    BY <1>0 DEF Abort, AbortHeader, Step, Idle
<1> QED BY <1>3, <1>4, <1>5, <1>6, <1>7, <1>8

LEMMA SymbolWrites ==
    ASSUME WriteInv, NEW p \in Procs, StoreMain(p) \/ StoreHeader(p)
    PROVE  NoForeignCalls' /\ WriteOK(p)'
<1>0. /\ proc \in [Procs -> Process] /\ proc[p] \in Process /\ LocalOK(proc[p])
      /\ NoForeignCalls /\ WriteOK(p) /\ DefInv /\ ConstantTypes
    BY ConstantTypes DEF WriteInv, DefInv, TypeInv, TypeOK, LocalsOK
<1>1. UNCHANGED <<edge, def, defEdge>>
    BY DEF StoreMain, StoreHeader
<1>2. NoForeignCalls'
    BY <1>0, <1>1 DEF NoForeignCalls
<1>3. CASE StoreMain(p)
  <2> DEFINE f == proc[p].cur
  <2>1. f \in Files /\ proc[p].ast[f] \in Contents /\ proc[p].pend = {}
      BY <1>0, <1>3 DEF StoreMain, At, LocalOK, Busy
  <2>2. /\ proc'[p].pc = "headers" /\ proc'[p].cur = f /\ proc'[p].ast = proc[p].ast
        /\ proc'[p].pend = proc[p].pend /\ sym' = StoreSymbols(f, proc[p].ast[f])
      BY <1>0, <1>3 DEF StoreMain, Step, Process
  <2>3. StoredFiles(proc'[p]) = {f}
      BY <2>1, <2>2 DEF StoredFiles
  <2>4. \A u \in Defines[f][proc[p].ast[f]] : Owned(f, u)'
      BY <1>0, <2>1, <2>2, StoreSymbolsSites, FileTyping DEF Owned
  <2>5. OwnedOrBare(p)'
      BY <2>2, <2>3, <2>4 DEF OwnedOrBare
  <2> QED BY <1>2, <2>2, <2>5 DEF WriteOK, EdgesWiped, BodiesWiped
<1>4. CASE StoreHeader(p)
  <2> DEFINE ast == proc[p].ast
  <2>1. PICK h \in Headers :
          /\ proc[p].pc = "hsyms" /\ h = proc[p].hdr /\ h \in Files /\ ast[h] # None
          /\ h # proc[p].cur /\ ast[h] \in Contents
      BY <1>0, <1>4 DEF StoreHeader, At, LocalOK, Busy, Files
  <2>2. /\ proc'[p].pc = "headers" /\ proc'[p].cur = proc[p].cur /\ proc'[p].ast = ast
        /\ proc'[p].pend = proc[p].pend \union {h} /\ sym' = StoreSymbols(h, ast[h])
      BY <1>0, <1>4, <2>1 DEF StoreHeader, Step, Process
  <2>3. StoredFiles(proc'[p]) = StoredFiles(proc[p]) \union {h}
      BY <2>1, <2>2 DEF StoredFiles
  <2>4. ASSUME NEW u \in Defines[h][ast[h]]
        PROVE  Owned(h, u)'
    <3>1. u \in Symbols
        BY <2>1, FileTyping
    <3>2. /\ StoreSymbols(h, ast[h])[u].known /\ StoreSymbols(h, ast[h])[u].def
          /\ StoreSymbols(h, ast[h])[u].file = h
        BY <1>0, <2>1, <3>1, StoreSymbolsSites
    <3> QED BY <2>2, <3>2 DEF Owned
  <2>5. ASSUME NEW g \in StoredFiles(proc[p]), g # h, NEW u \in Defines[g][ast[g]]
        PROVE  Owned(g, u)' \/ NoEdges(u)'
    <3>1. g \in Files /\ (g = proc[p].cur \/ (g \in Headers /\ ast[g] # None))
          /\ ast[g] \in Contents
        BY <1>0, <2>1, <2>5 DEF StoredFiles, LocalOK, Busy, Files
    <3>2. u \notin Defines[h][ast[h]]
        BY <1>0, <2>1, <2>5, <3>1, OneDefinition DEF Busy
    <3>3. u \in Symbols
        BY <2>5, <3>1, FileTyping
    <3>4. Owned(g, u) \/ NoEdges(u)
        BY <1>0, <2>5 DEF WriteOK, OwnedOrBare
    <3>5. CASE Owned(g, u)
        BY <1>0, <2>1, <2>2, <3>2, <3>3, <3>5, StoreSymbolsSites DEF Owned
    <3>6. CASE NoEdges(u)
        BY <1>1, <3>6 DEF NoEdges
    <3> QED BY <3>4, <3>5, <3>6
  <2>6. OwnedOrBare(p)'
    <3> SUFFICES ASSUME NEW g \in StoredFiles(proc[p]) \union {h}, NEW u \in Defines[g][ast[g]]
                 PROVE  Owned(g, u)' \/ NoEdges(u)'
        BY <2>2, <2>3 DEF OwnedOrBare, Owned, NoEdges
    <3> QED BY <2>4, <2>5 DEF Owned, NoEdges
  <2> QED BY <1>2, <2>2, <2>6 DEF WriteOK, EdgesWiped, BodiesWiped
<1> QED BY <1>3, <1>4

LEMMA WipeSteps ==
    ASSUME WriteInv, NEW p \in Procs, WipeEdges(p) \/ WipeBodies(p)
    PROVE  NoForeignCalls' /\ WriteOK(p)'
<1>0. /\ proc \in [Procs -> Process] /\ proc[p] \in Process /\ LocalOK(proc[p])
      /\ NoForeignCalls /\ WriteOK(p)
    BY DEF WriteInv, DefInv, TypeInv, TypeOK, LocalsOK
<1>1. CASE WipeEdges(p)
  <2>1. /\ proc[p].pc = "headers" /\ proc'[p].pc = "bodies" /\ proc'[p].cur = proc[p].cur
        /\ proc'[p].ast = proc[p].ast /\ edge' = EdgesWithout(proc[p].cur)
        /\ UNCHANGED <<sym, def, defEdge>>
      BY <1>0, <1>1 DEF WipeEdges, HeadersDone, At, Step, Process
  <2>2. \A u \in Defines[proc[p].cur][proc[p].ast[proc[p].cur]] :
            Owned(proc[p].cur, u) \/ NoEdges(u)
      BY <1>0, <2>1 DEF WriteOK, OwnedOrBare, StoredFiles
  <2>3. \A u \in Defines[proc[p].cur][proc[p].ast[proc[p].cur]] : \A e \in edge' : e[1] # u
      BY <2>1, <2>2 DEF Owned, NoEdges, EdgesWithout
  <2>4. EdgesWiped(p)'
      BY <2>1, <2>3 DEF EdgesWiped, NoEdges
  <2>5. NoForeignCalls'
      BY <1>0, <2>1 DEF NoForeignCalls
  <2> QED BY <2>1, <2>4, <2>5 DEF WriteOK, OwnedOrBare, StoredFiles, BodiesWiped
<1>2. CASE WipeBodies(p)
  <2>1. /\ proc[p].pc = "bodies" /\ proc'[p].pc = "edges" /\ proc'[p].cur = proc[p].cur
        /\ proc'[p].ast = proc[p].ast /\ def' = DefsWithout(proc[p].cur)
        /\ defEdge' = DefEdgesWithout(proc[p].cur) /\ UNCHANGED <<sym, edge>>
      BY <1>0, <1>2 DEF WipeBodies, At, Step, Process
  <2>2. EdgesWiped(p)'
      BY <1>0, <2>1 DEF WriteOK, EdgesWiped, NoEdges
  <2>3. BodiesWiped(p)'
      BY <2>1 DEF BodiesWiped, DefsWithout, DefEdgesWithout
  <2>4. def' \subseteq def /\ defEdge' \subseteq defEdge
      BY <2>1 DEF DefsWithout, DefEdgesWithout
  <2>5. NoForeignCalls'
      BY <1>0, <2>4 DEF NoForeignCalls
  <2> QED BY <2>1, <2>2, <2>3, <2>5 DEF WriteOK, OwnedOrBare, StoredFiles
<1> QED BY <1>1, <1>2

LEMMA HeaderBodies ==
    ASSUME WriteInv, NEW p \in Procs, NEW h \in Headers, StoreHeaderEdges(p, h)
    PROVE  NoForeignCalls' /\ WriteOK(p)'
<1> DEFINE ast == proc[p].ast
<1>0. /\ proc \in [Procs -> Process] /\ proc[p] \in Process /\ LocalOK(proc[p])
      /\ NoForeignCalls /\ WriteOK(p) /\ DefInv
    BY DEF WriteInv, DefInv, TypeInv, TypeOK, LocalsOK
<1>1. /\ proc[p].pc = "headers" /\ h \in proc[p].pend /\ h \in Files /\ h # proc[p].cur
      /\ ast[h] # None /\ ast[h] \in Contents
    BY <1>0 DEF StoreHeaderEdges, At, LocalOK, Busy, Files
<1>2. /\ proc'[p].pc = "hmark" /\ proc'[p].cur = proc[p].cur /\ proc'[p].ast = ast
      /\ proc'[p].pend = proc[p].pend \ {h}
      /\ StoreBodies(h, ast, EdgesWithout(h), DefsWithout(h), DefEdgesWithout(h))
    BY <1>0 DEF StoreHeaderEdges, Step, Process
<1>3. /\ EdgesWithout(h) \in SUBSET edge /\ DefsWithout(h) \in SUBSET def
      /\ DefEdgesWithout(h) \in SUBSET defEdge
      /\ \A d \in DefsWithout(h) : d[1] # h
      /\ \A d \in DefEdgesWithout(h) : d[1] # h
    BY DEF EdgesWithout, DefsWithout, DefEdgesWithout
<1>4. ASSUME NEW u \in Defines[h][ast[h]], NEW e \in EdgesWithout(h)
      PROVE  e[1] # u
  <2>1. Owned(h, u) \/ NoEdges(u)
      BY <1>0, <1>1 DEF WriteOK, OwnedOrBare, StoredFiles
  <2> QED BY <2>1 DEF Owned, NoEdges, EdgesWithout
<1>5. NoForeignCalls'
    BY <1>0, <1>1, <1>2, <1>3, <1>4, BodiesRecordTheirCalls
<1>6. StoredFiles(proc'[p]) = ({proc[p].cur} \union proc[p].pend) \ {h}
    BY <1>1, <1>2 DEF StoredFiles
<1>7. ASSUME NEW g \in StoredFiles(proc'[p]), NEW u \in Defines[g][ast[g]]
      PROVE  \/ sym'[u].known /\ sym'[u].def /\ sym'[u].file = g
             \/ \A e \in edge' : e[1] # u
  <2>1. g \in Files /\ (g = proc[p].cur \/ (g \in Headers /\ ast[g] # None))
        /\ ast[g] \in Contents /\ g # h
      BY <1>0, <1>1, <1>6 DEF LocalOK, Busy, Files
  <2>2. u \notin Defines[h][ast[h]] /\ u \in Symbols
      BY <1>0, <1>1, <2>1, OneDefinition, FileTyping DEF Busy
  <2>3. Owned(g, u) \/ NoEdges(u)
      BY <1>0, <1>1, <1>6 DEF WriteOK, OwnedOrBare, StoredFiles
  <2>4. CASE Owned(g, u)
      BY <1>0, <1>2, <2>2, <2>4, StoreBodiesSites DEF Owned
  <2>5. CASE NoEdges(u)
    <3>1. \A e \in edge' : e \in EdgesWithout(h) \/ e[1] \in Defines[h][ast[h]]
        BY <1>2 DEF StoreBodies, BodyCalls, BodySets
    <3> QED BY <1>3, <2>2, <2>5, <3>1 DEF NoEdges
  <2> QED BY <2>3, <2>4, <2>5
<1>8. OwnedOrBare(p)'
    BY <1>2, <1>7 DEF OwnedOrBare, Owned, NoEdges
<1> QED BY <1>2, <1>5, <1>8 DEF WriteOK, EdgesWiped, BodiesWiped

LEMMA MainBodies ==
    ASSUME WriteInv, NEW p \in Procs, StoreEdges(p)
    PROVE  NoForeignCalls' /\ WriteOK(p)'
<1> DEFINE f == proc[p].cur
           ast == proc[p].ast
<1>0. /\ proc \in [Procs -> Process] /\ proc[p] \in Process /\ LocalOK(proc[p])
      /\ NoForeignCalls /\ WriteOK(p)
    BY DEF WriteInv, DefInv, TypeInv, TypeOK, LocalsOK
<1>1. proc[p].pc = "edges" /\ f \in Files /\ ast[f] \in Contents
    BY <1>0 DEF StoreEdges, At, LocalOK, Busy
<1>2. proc'[p].pc = "mark" /\ StoreBodies(f, ast, edge, def, defEdge)
    BY <1>0 DEF StoreEdges, Step, Process
<1>3. /\ \A u \in Defines[f][ast[f]] : \A e \in edge : e[1] # u
      /\ \A d \in def : d[1] # f
      /\ \A d \in defEdge : d[1] # f
    BY <1>0, <1>1 DEF WriteOK, EdgesWiped, BodiesWiped, NoEdges
<1>4. NoForeignCalls'
    BY <1>0, <1>1, <1>2, <1>3, BodiesRecordTheirCalls
<1> QED BY <1>2, <1>4 DEF WriteOK, OwnedOrBare, StoredFiles, EdgesWiped, BodiesWiped

LEMMA EnvironmentKeepsWrites ==
    ASSUME WriteInv, Environment
    PROVE  NoForeignCalls' /\ \A p \in Procs : WriteOK(p)'
<1>1. proc' = proc
    BY DEF Environment, Edit, Import, SetIndexed, Drop
<1>2. /\ edge' \subseteq edge /\ def' \subseteq def /\ defEdge' \subseteq defEdge
      /\ \A u \in Symbols : sym'[u] = sym[u] \/ \A e \in edge' : e[1] # u
    BY DEF Environment, Edit, Import, SetIndexed, Drop, tables
<1>3. NoForeignCalls'
    BY <1>2 DEF WriteInv, NoForeignCalls
<1>4. ASSUME NEW p \in Procs PROVE WriteOK(p)'
  <2>0. WriteOK(p)
      BY DEF WriteInv
  <2>1. ASSUME NEW g \in StoredFiles(proc[p]), NEW u \in Defines[g][proc[p].ast[g]]
        PROVE  \/ sym'[u].known /\ sym'[u].def /\ sym'[u].file = g
               \/ \A e \in edge' : e[1] # u
    <3>1. Owned(g, u) \/ NoEdges(u)
        BY <2>0, <2>1 DEF WriteOK, OwnedOrBare
    <3>2. g \in Files /\ proc[p].ast[g] \in Contents
        BY <2>1 DEF StoredFiles, WriteInv, DefInv, TypeInv, LocalsOK, LocalOK, Busy, Files
    <3>3. u \in Symbols
        BY <2>1, <3>2, FileTyping
    <3> QED BY <1>2, <3>1, <3>3 DEF Owned, NoEdges
  <2>2. OwnedOrBare(p)'
      BY <1>1, <2>1 DEF OwnedOrBare, Owned, NoEdges
  <2>3. EdgesWiped(p)' /\ BodiesWiped(p)'
      BY <1>1, <1>2, <2>0 DEF WriteOK, EdgesWiped, BodiesWiped, NoEdges
  <2> QED BY <2>2, <2>3 DEF WriteOK
<1> QED BY <1>3, <1>4

LEMMA WriteInvInductive ==
    ASSUME \A p, q \in Procs : p = q
    PROVE  (Init => WriteInv) /\ (WriteInv /\ [Next]_vars => WriteInv')
<1>1. ASSUME Init PROVE WriteInv
  <2>1. DefInv
      BY <1>1, DefInvInductive
  <2>2. NoForeignCalls
      BY <1>1 DEF Init, NoForeignCalls
  <2>3. \A p \in Procs : WriteOK(p)
      BY <1>1 DEF Init, Idle, WriteOK, OwnedOrBare, StoredFiles, EdgesWiped, BodiesWiped
  <2> QED BY <2>1, <2>2, <2>3 DEF WriteInv
<1>2. ASSUME WriteInv, [Next]_vars PROVE WriteInv'
  <2>1. DefInv'
      BY <1>2, DefInvInductive DEF WriteInv
  <2>2. ASSUME NEW p \in Procs
        PROVE  Begin(p) \/ Scan(p) \/ Write(p) \/ Crash(p) => NoForeignCalls' /\ WriteOK(p)'
    <3>1. Write(p) => NoForeignCalls' /\ WriteOK(p)'
        BY <1>2, PlainWrites, SymbolWrites, WipeSteps, HeaderBodies, MainBodies DEF Write
    <3> QED BY <1>2, <3>1, QuietSteps
  <2>3. CASE UNCHANGED vars
      BY <1>2, <2>1, <2>3 DEF WriteInv, NoForeignCalls, WriteOK, OwnedOrBare, Owned, NoEdges,
                              EdgesWiped, BodiesWiped, vars, tables
  <2>4. CASE Environment
      BY <1>2, <2>1, <2>4, EnvironmentKeepsWrites DEF WriteInv
  <2>5. ASSUME NEW p \in Procs, Begin(p) \/ Scan(p) \/ Write(p) \/ Crash(p)
        PROVE  WriteInv'
    <3>1. NoForeignCalls' /\ WriteOK(p)'
        BY <2>2, <2>5
    <3>2. \A q \in Procs : WriteOK(q)'
        BY <3>1
    <3> QED BY <2>1, <3>1, <3>2 DEF WriteInv
  <2> QED BY <1>2, <2>3, <2>4, <2>5 DEF Next
<1> QED BY <1>1, <1>2

\* One indexing process at a time never records another backend's calls in a
\* body, whatever is edited, imported, dropped or killed around it and however
\* many files, symbols and versions there are.  (Two processes do.)
THEOREM CallsAreTheBodysOwn ==
    ASSUME \A p, q \in Procs : p = q
    PROVE  Spec => []NoForeignCalls
<1>1. (Init => WriteInv) /\ (WriteInv /\ [Next]_vars => WriteInv')
    BY WriteInvInductive
<1>2. Spec => []WriteInv
    BY <1>1, PTL DEF Spec
<1> QED BY <1>2, PTL DEF WriteInv

(***************************************************************************)
(* The other units' bodies.                                                *)
(***************************************************************************)
\* What a step of process p leaves of the bodies of file f.
Kept(f) == \A d \in def \union defEdge : d[1] = f => d \in def' \union defEdge'

LEMMA OwnStepKeepsBodies ==
    ASSUME TUs \intersect Headers = {}, NEW p \in Procs,
           NEW f \in TUs \ {proc[p].cur}, Begin(p) \/ Scan(p) \/ Write(p) \/ Crash(p)
    PROVE  Kept(f)
<1>1. ASSUME UNCHANGED <<def, defEdge>> PROVE Kept(f)
    BY <1>1 DEF Kept
<1>2. CASE Begin(p) \/ Scan(p) \/ Crash(p)
    BY <1>1, <1>2 DEF Begin, BeginPending, BeginFiles, Scan, Skip, Parse, ParseFails, Finish,
                      Crash, tables
<1>3. ASSUME \/ StoreMain(p) \/ StoreHeader(p) \/ MarkHeader(p) \/ WipeEdges(p)
             \/ MarkMain(p) \/ Abort(p)
      PROVE  Kept(f)
    BY <1>1, <1>3 DEF StoreMain, StoreHeader, MarkHeader, WipeEdges, MarkMain, Abort, tables
<1>4. ASSUME NEW h \in Headers, SkipHeader(p, h) \/ RegisterHeader(p, h) \/ AbortHeader(p, h)
      PROVE  Kept(f)
    BY <1>1, <1>4 DEF SkipHeader, RegisterHeader, AbortHeader, tables
<1>5. ASSUME NEW h \in Headers, StoreHeaderEdges(p, h)
      PROVE  Kept(f)
  <2>1. DefsWithout(h) \subseteq def' /\ DefEdgesWithout(h) \subseteq defEdge'
      BY <1>5 DEF StoreHeaderEdges, StoreBodies
  <2>2. f # h
      OBVIOUS
  <2> QED BY <2>1, <2>2 DEF Kept, DefsWithout, DefEdgesWithout
<1>6. ASSUME WipeBodies(p) PROVE Kept(f)
    BY <1>6 DEF WipeBodies, Kept, DefsWithout, DefEdgesWithout
<1>7. ASSUME StoreEdges(p) PROVE Kept(f)
    BY <1>7 DEF StoreEdges, StoreBodies, Kept
<1> QED BY <1>2, <1>3, <1>4, <1>5, <1>6, <1>7 DEF Write

LEMMA OthersStand ==
    ASSUME TypeInv, NEW p \in Procs, proc'[p] # proc[p], Next
    PROVE  Begin(p) \/ Scan(p) \/ Write(p) \/ Crash(p)
<1>1. ~Environment
    BY DEF Environment, Edit, Import, SetIndexed, Drop
<1>2. PICK q \in Procs : Begin(q) \/ Scan(q) \/ Write(q) \/ Crash(q)
    BY <1>1 DEF Next
<1>3. \A r : Step(q, r) => \A o \in Procs \ {q} : proc'[o] = proc[o]
    BY DEF Step, TypeInv, TypeOK
<1>4. CASE Begin(q) \/ Scan(q)
    BY <1>2, <1>3, <1>4 DEF Begin, BeginPending, BeginFiles, Scan, Skip, Parse, ParseFails, Finish
<1>5. CASE Write(q)
  <2>1. ASSUME NEW h \in Headers, \/ SkipHeader(q, h) \/ RegisterHeader(q, h)
                                  \/ StoreHeaderEdges(q, h) \/ AbortHeader(q, h)
        PROVE  \E r : Step(q, r)
      BY <2>1 DEF SkipHeader, RegisterHeader, StoreHeaderEdges, AbortHeader
  <2>2. ASSUME \/ StoreMain(q) \/ StoreHeader(q) \/ MarkHeader(q)
        PROVE  \E r : Step(q, r)
      BY <2>2 DEF StoreMain, StoreHeader, MarkHeader
  <2>3. ASSUME \/ WipeEdges(q) \/ WipeBodies(q) \/ StoreEdges(q) \/ MarkMain(q) \/ Abort(q)
        PROVE  \E r : Step(q, r)
      BY <2>3 DEF WipeEdges, WipeBodies, StoreEdges, MarkMain, Abort
  <2>4. \E r : Step(q, r)
      BY <1>5, <2>1, <2>2, <2>3 DEF Write
  <2> QED BY <1>2, <1>3, <2>4
<1>6. CASE Crash(q)
    BY <1>2, <1>6 DEF Crash, TypeInv, TypeOK
<1> QED BY <1>2, <1>4, <1>5, <1>6

\* Indexing one unit takes no body and no call of a body away from another
\* unit, for any number of processes: what the losing backends of a function
\* recorded outlives every re-indexing of the others.
THEOREM OtherBodiesAreKept ==
    ASSUME TUs \intersect Headers = {}
    PROVE  Spec => OtherBodiesStay
<1> DEFINE A == \A p \in Procs :
                    proc[p].pc \in {"headers", "bodies", "edges"} /\ proc'[p] # proc[p] =>
                       \A f \in TUs \ {proc[p].cur} : Kept(f)
<1>1. TypeInv /\ [Next]_vars => [A]_vars
  <2> SUFFICES ASSUME TypeInv, Next PROVE A
      OBVIOUS
  <2> SUFFICES ASSUME NEW p \in Procs, proc'[p] # proc[p], NEW f \in TUs \ {proc[p].cur}
               PROVE  Kept(f)
      OBVIOUS
  <2> QED BY OthersStand, OwnStepKeepsBodies
<1>2. A => \A p \in Procs :
              proc[p].pc \in {"headers", "bodies", "edges"} /\ proc'[p] # proc[p] =>
                 \A f \in TUs \ {proc[p].cur} :
                    \A d \in def \union defEdge : d[1] = f => d \in def' \union defEdge'
    BY DEF Kept
<1>3. Spec => []TypeInv
    BY TypeInvInit, TypeInvNext, PTL DEF Spec
<1> QED BY <1>1, <1>2, <1>3, PTL DEF Spec, OtherBodiesStay

(***************************************************************************)
(* What "already indexed" promises.                                        *)
(***************************************************************************)
\* The use of the tool under which the promise is kept: one `cidx index` at a
\* time and always with the graph, no edit and no flag set by hand under a run,
\* nothing deleted, and no file that is both a unit and a header of another.
DisciplinedUse ==
    /\ \A p, q \in Procs : p = q
    /\ QuietEdits
    /\ GraphModes \subseteq {TRUE}
    /\ TRUE \notin SetValues
    /\ Droppable = {}
    /\ TUs \intersect Headers = {}

\* A content that was edited away never comes back: Age is a clock of contents.
ContentsAge(Age) == Age \in [Version -> Nat] /\ \A e \in EditRel : Age[e[1]] < Age[e[2]]

RowsOK(Age) ==
    \A f \in Files :
        /\ row[f].indexed => row[f].known
        /\ row[f].md5 # None => Age[row[f].md5] <= Age[disk[f]]

\* The list of a full run has one entry for a file, and what it says of a unit
\* is no older than the unit's last indexing.
ListOK(r) ==
    ~r.listed =>
        /\ \A d, e \in r.todo : d.file = e.file => d = e
        /\ \A e \in r.todo : e.file \in TUs /\ UpToDate(row[e.file], e.file)
                                => UpToDate(e, e.file)
        /\ r.pc \in Busy => \A e \in r.todo : e.file # r.cur

SymbolsIn(f, c) ==
    /\ \A u \in Declares[f][c] \union Defines[f][c] : sym[u].known
    /\ \A u \in Defines[f][c] : sym[u].def

\* The files a process is writing: none of them passes for indexed.
Writing(r) ==
    {r.cur} \union r.pend \union (IF r.pc \in {"hsyms", "hmark"} THEN {r.hdr} ELSE {})

RunOK(r) ==
    /\ r.graph
    /\ r.pc # "idle" => ListOK(r)
    /\ r.pc \in Busy =>
         /\ \A g \in Files : r.ast[g] # None => r.ast[g] = disk[g]
         /\ \A g \in Writing(r) : ~UpToDate(row[g], g)
         /\ r.pc # "symbols" => \A g \in {r.cur} \union r.pend : SymbolsIn(g, r.ast[g])
         /\ r.pc = "hmark" => r.hdr \notin r.pend /\ Recorded(r.hdr, r.ast[r.hdr])
         /\ r.pc = "mark" => Recorded(r.cur, r.ast[r.cur])

RecordInv(Age) ==
    /\ WriteInv /\ RowsOK(Age) /\ AlreadyIndexedIsRecorded
    /\ \A p \in Procs : RunOK(proc[p])

\* What a step leaves of the symbols, and of the bodies of file f.
SymbolsGrow == \A u \in Symbols : /\ sym[u].known => sym'[u].known
                                  /\ sym[u].def => sym'[u].def

BodiesStay(f) == /\ \A u \in Symbols : <<f, u>> \in def' <=> <<f, u>> \in def
                 /\ \A u, v \in Symbols : <<f, u, v>> \in defEdge => <<f, u, v>> \in defEdge'

\* No row comes to pass for up to date.
NoNewClaim == \A f \in Files : UpToDate(row[f], f)' => UpToDate(row[f], f)

LEMMA StoredKnown ==
    ASSUME NEW f \in Files, NEW c \in Contents, NEW u \in Symbols
    PROVE  /\ sym[u].known => StoreSymbols(f, c)[u].known
           /\ sym[u].def => StoreSymbols(f, c)[u].def
           /\ u \in Declares[f][c] \union Defines[f][c] => StoreSymbols(f, c)[u].known
           /\ u \in Defines[f][c] => StoreSymbols(f, c)[u].def
<1> DEFINE d == IF u \in Declares[f][c] THEN AddSymbol(sym[u], f, FALSE) ELSE sym[u]
<1>1. StoreSymbols(f, c)[u] = IF u \in Defines[f][c] THEN AddSymbol(d, f, TRUE) ELSE d
    BY DEF StoreSymbols
<1>2. /\ AddSymbol(d, f, TRUE).known /\ AddSymbol(d, f, TRUE).def
      /\ AddSymbol(sym[u], f, FALSE).known
      /\ sym[u].def => AddSymbol(sym[u], f, FALSE).def
    BY DEF AddSymbol
<1> QED BY <1>1, <1>2

LEMMA StoringGrows ==
    ASSUME NEW f \in Files, NEW c \in Contents, sym' = StoreSymbols(f, c)
    PROVE  SymbolsGrow /\ SymbolsIn(f, c)'
<1>1. SymbolsGrow
    BY StoredKnown DEF SymbolsGrow
<1>2. Declares[f][c] \subseteq Symbols /\ Defines[f][c] \subseteq Symbols
    BY ConstantTypes
<1>3. SymbolsIn(f, c)'
    BY <1>2, StoredKnown DEF SymbolsIn
<1> QED BY <1>1, <1>3

LEMMA BodiesGrow ==
    ASSUME NEW f, NEW ast, NEW E, NEW D, NEW DE, StoreBodies(f, ast, E, D, DE)
    PROVE  SymbolsGrow
<1> SUFFICES ASSUME NEW u \in Symbols
             PROVE  /\ sym[u].known => sym'[u].known
                    /\ sym[u].def => sym'[u].def
    BY DEF SymbolsGrow
<1>1. PICK g : sym'[u] = sym[u] \/ sym'[u] = Mint(sym[u], g)
    BY DEF StoreBodies
<1> QED BY <1>1 DEF Mint

\* What is recorded of a file stays so while its bodies do.
LEMMA RecordedStays ==
    ASSUME NEW f \in Files, NEW c \in Contents, Recorded(f, c), SymbolsGrow, BodiesStay(f)
    PROVE  Recorded(f, c)'
<1>1. /\ Declares[f][c] \subseteq Symbols /\ Defines[f][c] \subseteq Symbols
      /\ \A u \in Symbols : Calls[f][c][u] \subseteq Symbols
    BY ConstantTypes
<1>2. \A u \in Declares[f][c] \union Defines[f][c] : sym'[u].known
    BY <1>1 DEF Recorded, SymbolsGrow
<1>3. ASSUME NEW u \in Defines[f][c]
      PROVE  /\ sym'[u].def /\ <<f, u>> \in def'
             /\ \A v \in Calls[f][c][u] : <<f, u, v>> \in defEdge'
    BY <1>1, <1>3 DEF Recorded, SymbolsGrow, BodiesStay
<1>4. \A u \in Symbols : <<f, u>> \in def' => u \in Defines[f][c]
    BY DEF Recorded, BodiesStay
<1> QED BY <1>2, <1>3, <1>4 DEF Recorded

LEMMA SymbolsInStay ==
    ASSUME NEW f \in Files, NEW c \in Contents, SymbolsIn(f, c), SymbolsGrow
    PROVE  SymbolsIn(f, c)'
<1>1. Declares[f][c] \subseteq Symbols /\ Defines[f][c] \subseteq Symbols
    BY ConstantTypes
<1> QED BY <1>1 DEF SymbolsIn, SymbolsGrow

\* The pass over a file whose symbols are stored and whose bodies were removed
\* leaves exactly what the file says.
LEMMA BodiesAreRecorded ==
    ASSUME TypeInv, NEW f \in Files, NEW ast, ast[f] \in Contents, SymbolsIn(f, ast[f]),
           NEW E, NEW D \in SUBSET (Files \X Symbols), NEW DE,
           \A u \in Symbols : <<f, u>> \notin D,
           StoreBodies(f, ast, E, D, DE)
    PROVE  Recorded(f, ast[f])'
<1> DEFINE c == ast[f]
<1>1. /\ Declares[f][c] \subseteq Symbols /\ Defines[f][c] \subseteq Symbols
      /\ \A u \in Symbols : Calls[f][c][u] \subseteq Symbols
    BY ConstantTypes
<1>2. PICK bodies \in BodySets(f, c) :
        /\ def' = D \union ({f} \X bodies)
        /\ defEdge' = DE \union CopiedCalls(f, bodies, E \union BodyCalls(f, c, bodies))
    BY DEF StoreBodies
<1>3. bodies = Defines[f][c]
    BY DEF BodySets, SymbolsIn
<1>4. SymbolsIn(f, c)'
    BY BodiesGrow, SymbolsInStay
<1>5. ASSUME NEW u \in Defines[f][c], NEW v \in Calls[f][c][u]
      PROVE  <<f, u, v>> \in defEdge'
  <2>1. u \in Symbols /\ v \in Symbols
      BY <1>1
  <2>2. <<u, v>> \in BodyCalls(f, c, bodies)
      BY <1>3, <2>1 DEF BodyCalls
  <2>3. <<f, u, v>> \in CopiedCalls(f, bodies, E \union BodyCalls(f, c, bodies))
      BY <1>3, <2>1, <2>2 DEF CopiedCalls
  <2> QED BY <1>2, <2>3
<1>6. \A u \in Symbols : <<f, u>> \in def' <=> u \in Defines[f][c]
    BY <1>2, <1>3
<1> QED BY <1>1, <1>4, <1>5, <1>6 DEF Recorded, SymbolsIn

LEMMA RunStays ==
    ASSUME TypeInv, NEW r \in Process, LocalOK(r), RunOK(r), UNCHANGED disk,
           NoNewClaim, SymbolsGrow,
           r.pc = "hmark" => BodiesStay(r.hdr),
           r.pc = "mark" => BodiesStay(r.cur)
    PROVE  RunOK(r)'
<1> USE DEF TypeInv
<1>0. Headers \subseteq Files
    BY DEF Files
<1>1. r.pc # "idle" => ListOK(r)'
  <2> SUFFICES ASSUME r.pc # "idle", ~r.listed
               PROVE  ListOK(r)'
      BY DEF ListOK
  <2>1. \A e \in r.todo : e.file \in Files
      BY DEF Process, Entry
  <2>2. \A e \in r.todo : e.file \in TUs /\ UpToDate(row[e.file], e.file)' => UpToDate(e, e.file)'
      BY <2>1 DEF RunOK, ListOK, NoNewClaim, UpToDate
  <2> QED BY <2>2 DEF RunOK, ListOK
<1>2. ASSUME r.pc \in Busy
      PROVE  /\ \A g \in Files : r.ast[g] # None => r.ast[g] = disk'[g]
             /\ \A g \in Writing(r) : ~UpToDate(row[g], g)'
             /\ r.pc # "symbols" => \A g \in {r.cur} \union r.pend : SymbolsIn(g, r.ast[g])'
             /\ r.pc = "hmark" => r.hdr \notin r.pend /\ Recorded(r.hdr, r.ast[r.hdr])'
             /\ r.pc = "mark" => Recorded(r.cur, r.ast[r.cur])'
  <2>1. /\ \A g \in Writing(r) : g \in Files
        /\ \A g \in {r.cur} \union r.pend : g \in Files /\ r.ast[g] \in Contents
        /\ r.pc = "hmark" => r.hdr \in Files /\ r.ast[r.hdr] \in Contents
        /\ r.pc = "mark" => r.cur \in Files /\ r.ast[r.cur] \in Contents
      BY <1>0, <1>2 DEF LocalOK, Writing
  <2>2. \A g \in Files : r.ast[g] # None => r.ast[g] = disk'[g]
      BY <1>2 DEF RunOK
  <2>3. \A g \in Writing(r) : ~UpToDate(row[g], g)'
      BY <1>2, <2>1 DEF RunOK, NoNewClaim
  <2>4. r.pc # "symbols" => \A g \in {r.cur} \union r.pend : SymbolsIn(g, r.ast[g])'
      BY <1>2, <2>1, SymbolsInStay DEF RunOK
  <2>5. r.pc = "hmark" => r.hdr \notin r.pend /\ Recorded(r.hdr, r.ast[r.hdr])'
      BY <1>2, <2>1, RecordedStays DEF RunOK
  <2>6. r.pc = "mark" => Recorded(r.cur, r.ast[r.cur])'
      BY <1>2, <2>1, RecordedStays DEF RunOK
  <2> QED BY <2>2, <2>3, <2>4, <2>5, <2>6
<1> QED BY <1>1, <1>2 DEF RunOK, Writing

\* Rows that claim nothing new, and bodies that stay: nothing to show.
LEMMA ClaimsStay ==
    ASSUME TypeInv, AlreadyIndexedIsRecorded, UNCHANGED disk, SymbolsGrow,
           NEW W, \A f \in Files \ W : BodiesStay(f) /\ (UpToDate(row[f], f)' => UpToDate(row[f], f)),
           \A f \in Files \intersect W : UpToDate(row[f], f)' => Recorded(f, disk[f])'
    PROVE  AlreadyIndexedIsRecorded'
<1> SUFFICES ASSUME NEW f \in Files, UpToDate(row[f], f)'
             PROVE  Recorded(f, disk[f])'
    BY DEF AlreadyIndexedIsRecorded
<1>1. CASE f \in W
    BY <1>1
<1>2. CASE f \notin W
  <2>1. UpToDate(row[f], f) /\ BodiesStay(f)
      BY <1>2
  <2>2. disk[f] \in Contents
      BY <2>1 DEF UpToDate, TypeInv, TypeOK, Version, FileRow
  <2>3. Recorded(f, disk[f])
      BY <2>1 DEF AlreadyIndexedIsRecorded
  <2> DEFINE c == disk[f]
  <2>4. Recorded(f, c)
      BY <2>3
  <2> HIDE DEF c
  <2>5. c \in Contents
      BY <2>2 DEF c
  <2>6. c' = c
      BY DEF c
  <2> QED BY <2>1, <2>4, <2>5, <2>6, RecordedStays DEF c
<1> QED BY <1>1, <1>2

LEMMA CalmRuns ==
    ASSUME NEW r, RunOK(r), UNCHANGED <<disk, tables>>
    PROVE  RunOK(r)'
BY DEF RunOK, ListOK, UpToDate, SymbolsIn, Recorded, tables

LEMMA CalmClaims ==
    ASSUME NEW Age, RowsOK(Age), AlreadyIndexedIsRecorded, UNCHANGED <<disk, tables>>
    PROVE  RowsOK(Age)' /\ AlreadyIndexedIsRecorded'
BY DEF RowsOK, AlreadyIndexedIsRecorded, UpToDate, Recorded, tables

\* Beginning, scanning, failing and dying move nothing but the process.
LEMMA CalmMoves ==
    ASSUME DisciplinedUse, NEW Age, RecordInv(Age), NEW p \in Procs,
           Begin(p) \/ Scan(p) \/ Crash(p)
    PROVE  UNCHANGED <<disk, tables>> /\ \E r : proc' = [proc EXCEPT ![p] = r] /\ RunOK(r)
<1> USE DEF DisciplinedUse
<1>0. /\ proc[p] \in Process /\ RunOK(proc[p]) /\ row \in [Files -> FileRow]
      /\ disk \in [Files -> Version]
    BY DEF RecordInv, WriteInv, DefInv, TypeInv, TypeOK
<1>1. RunOK(Idle)
    BY DEF Idle, RunOK, Busy
<1>2. ASSUME NEW g \in GraphModes, BeginPending(p, g)
      PROVE  UNCHANGED <<disk, tables>> /\ \E r : proc' = [proc EXCEPT ![p] = r] /\ RunOK(r)
  <2> DEFINE T == {[file |-> f, indexed |-> row[f].indexed, md5 |-> row[f].md5] :
                        f \in {h \in Files : row[h].known}}
             r == [Idle EXCEPT !.pc = "scan", !.graph = g, !.todo = T]
  <2>1. proc' = [proc EXCEPT ![p] = r] /\ UNCHANGED <<disk, tables>>
      BY <1>2 DEF BeginPending, Step
  <2>2. /\ r.graph = g /\ r.pc = "scan" /\ r.todo = T
      BY DEF Idle
  <2>3. /\ \A d, e \in T : d.file = e.file => d = e
        /\ \A e \in T : UpToDate(row[e.file], e.file) => UpToDate(e, e.file)
      BY DEF UpToDate
  <2> HIDE DEF T, r
  <2>4. RunOK(r)
      BY <2>2, <2>3 DEF RunOK, ListOK, Busy
  <2> QED BY <2>1, <2>4
<1>3. ASSUME NEW g \in GraphModes, NEW F \in FileArgs, BeginFiles(p, g, F)
      PROVE  UNCHANGED <<disk, tables>> /\ \E r : proc' = [proc EXCEPT ![p] = r] /\ RunOK(r)
  <2> DEFINE T == {[file |-> f, indexed |-> FALSE, md5 |-> None] : f \in F}
             r == [Idle EXCEPT !.pc = "scan", !.graph = g, !.listed = TRUE, !.todo = T]
  <2>1. proc' = [proc EXCEPT ![p] = r] /\ UNCHANGED <<disk, tables>>
      BY <1>3 DEF BeginFiles, Step
  <2>2. r.graph = g /\ r.pc = "scan" /\ r.listed
      BY DEF Idle
  <2> HIDE DEF r
  <2>3. RunOK(r)
      BY <2>2 DEF RunOK, ListOK, Busy
  <2> QED BY <2>1, <2>3
<1>4. ASSUME At(p, "scan"), NEW e \in proc[p].todo
      PROVE  /\ RunOK(Rest(p, e))
             /\ Rest(p, e).pc = "scan" /\ Rest(p, e).pend = {}
             /\ Rest(p, e).listed = proc[p].listed /\ Rest(p, e).graph = proc[p].graph
             /\ Rest(p, e).todo = proc[p].todo \ {e}
  <2>1. /\ Rest(p, e).pc = "scan" /\ Rest(p, e).pend = {}
        /\ Rest(p, e).listed = proc[p].listed
        /\ Rest(p, e).graph = proc[p].graph /\ Rest(p, e).todo = proc[p].todo \ {e}
      BY DEF Rest, Idle
  <2>2. ListOK(proc[p])
      BY <1>0, <1>4 DEF RunOK, At
  <2> QED BY <1>0, <2>1, <2>2 DEF RunOK, ListOK, Busy
<1>5. ASSUME NEW e \in proc[p].todo, Skip(p, e) \/ ParseFails(p, e)
      PROVE  UNCHANGED <<disk, tables>> /\ \E r : proc' = [proc EXCEPT ![p] = r] /\ RunOK(r)
  <2>1. At(p, "scan")
      BY <1>5 DEF Skip, ParseFails, Selected
  <2>2. RunOK(Rest(p, e))
      BY <1>4, <2>1
  <2> QED BY <1>1, <1>5, <2>2 DEF Skip, ParseFails, Step
<1>6. ASSUME NEW e \in proc[p].todo, Parse(p, e)
      PROVE  UNCHANGED <<disk, tables>> /\ \E r : proc' = [proc EXCEPT ![p] = r] /\ RunOK(r)
  <2> DEFINE ast == [g \in Files |-> IF g \in Parsed(e.file) THEN disk[g] ELSE None]
             r == [Rest(p, e) EXCEPT !.pc = "symbols", !.cur = e.file, !.ast = ast]
  <2>1. At(p, "scan") /\ Pending(p, e) /\ (proc[p].listed \/ e.file \in TUs)
      BY <1>6 DEF Parse, Selected
  <2>2. /\ RunOK(Rest(p, e))
        /\ Rest(p, e).pc = "scan" /\ Rest(p, e).pend = {}
        /\ Rest(p, e).listed = proc[p].listed /\ Rest(p, e).graph = proc[p].graph
        /\ Rest(p, e).todo = proc[p].todo \ {e}
      BY <1>4, <2>1
  <2>3. /\ r.pc = "symbols" /\ r.cur = e.file /\ r.ast = ast /\ r.pend = {}
        /\ r.listed = proc[p].listed /\ r.graph = proc[p].graph /\ r.todo = proc[p].todo \ {e}
      BY <2>2 DEF Rest, Idle
  <2>4. proc' = [proc EXCEPT ![p] = r] /\ UNCHANGED <<disk, tables>>
      BY <1>6 DEF Parse, Step
  <2>5. ~UpToDate(row[e.file], e.file)
      BY <1>0, <2>1 DEF Pending, RunOK, ListOK, At
  <2>6. \A g \in Files : ast[g] # None => ast[g] = disk[g]
      OBVIOUS
  <2>7. ListOK(r)
      BY <1>0, <2>1, <2>3 DEF RunOK, ListOK, At, Busy
  <2> HIDE DEF ast, r
  <2>8. RunOK(r)
      BY <1>0, <2>3, <2>5, <2>6, <2>7 DEF RunOK, Writing, Busy
  <2> QED BY <2>4, <2>8
<1>7. CASE Finish(p)
    BY <1>1, <1>7 DEF Finish, Step
<1>8. CASE Crash(p)
    BY <1>1, <1>8 DEF Crash
<1> QED BY <1>2, <1>3, <1>5, <1>6, <1>7, <1>8 DEF Begin, Scan

LEMMA ImportedClaims ==
    ASSUME NEW r \in FileRow, NEW f \in Files, disk \in [Files -> Version],
           UpToDate(AddFile(r, disk[f]), f)
    PROVE  UpToDate(r, f)
BY DEF AddFile, UpToDate, FileRow

\* Files, rows and flags moved around the runs.
LEMMA EnvironmentRecords ==
    ASSUME DisciplinedUse, NEW Age, ContentsAge(Age), RecordInv(Age), Environment
    PROVE  RowsOK(Age)' /\ AlreadyIndexedIsRecorded' /\ \A p \in Procs : RunOK(proc[p])'
<1> USE DEF DisciplinedUse, ContentsAge
<1>0. /\ proc \in [Procs -> Process] /\ row \in [Files -> FileRow]
      /\ disk \in [Files -> Version] /\ TypeInv
      /\ RowsOK(Age) /\ AlreadyIndexedIsRecorded
      /\ \A p \in Procs : RunOK(proc[p]) /\ LocalOK(proc[p])
    BY DEF RecordInv, WriteInv, DefInv, TypeInv, TypeOK, LocalsOK
<1>1. ASSUME NEW f \in Files, NEW c \in Version, Edit(f, c)
      PROVE  RowsOK(Age)' /\ AlreadyIndexedIsRecorded' /\ \A p \in Procs : RunOK(proc[p])'
  <2>1. /\ disk' = [disk EXCEPT ![f] = c] /\ proc' = proc /\ UNCHANGED tables
        /\ Age[disk[f]] < Age[c] /\ \A p \in Procs : proc[p].pc = "idle"
      BY <1>1 DEF Edit, At
  <2>2. /\ \A p \in Procs : RunOK(proc[p])'
      BY <1>0, <2>1 DEF RunOK, Busy
  <2>3. /\ Age[c] \in Nat /\ Age[disk[f]] \in Nat
        /\ \A g \in Files : row[g].md5 \in Version /\ Age[row[g].md5] \in Nat
      BY <1>0 DEF FileRow
  <2>4. RowsOK(Age)'
    <3> SUFFICES ASSUME NEW g \in Files
                 PROVE  /\ row'[g].indexed => row'[g].known
                        /\ row'[g].md5 # None => Age[row'[g].md5] <= Age[disk'[g]]
        BY DEF RowsOK
    <3>1. CASE g = f
      <4>1. row'[g] = row[g] /\ disk'[g] = c
          BY <1>0, <2>1, <3>1 DEF tables
      <4> QED BY <1>0, <2>1, <2>3, <3>1, <4>1 DEF RowsOK
    <3>2. CASE g # f
        BY <1>0, <2>1, <3>2 DEF RowsOK, tables
    <3> QED BY <3>1, <3>2
  <2>5. ~UpToDate(row[f], f)'
    <3>1. row[f].md5 # None => row[f].md5 # c
        BY <1>0, <2>1, <2>3 DEF RowsOK
    <3> QED BY <1>0, <2>1, <3>1 DEF UpToDate, tables
  <2>6. ASSUME NEW g \in Files, UpToDate(row[g], g)'
        PROVE  Recorded(g, disk[g])'
    <3>1. g # f /\ disk'[g] = disk[g]
        BY <1>0, <2>1, <2>5, <2>6
    <3>2. UpToDate(row[g], g)
        BY <2>1, <2>6, <3>1 DEF UpToDate, tables
    <3> QED BY <1>0, <2>1, <3>1, <3>2 DEF AlreadyIndexedIsRecorded, Recorded, tables
  <2> QED BY <2>2, <2>4, <2>6 DEF AlreadyIndexedIsRecorded
<1>2. ASSUME UNCHANGED <<disk, sym, def, defEdge, proc>>, NoNewClaim
      PROVE  AlreadyIndexedIsRecorded' /\ \A p \in Procs : RunOK(proc[p])'
  <2>1. SymbolsGrow /\ \A f \in Files : BodiesStay(f)
      BY <1>2 DEF SymbolsGrow, BodiesStay
  <2>2. AlreadyIndexedIsRecorded'
      BY <1>0, <1>2, <2>1 DEF AlreadyIndexedIsRecorded, NoNewClaim, UpToDate, Recorded
  <2>3. ASSUME NEW r \in Process, LocalOK(r), RunOK(r)
        PROVE  RunOK(r)'
    <3>1. BodiesStay(r.hdr) /\ BodiesStay(r.cur)
        BY <1>2 DEF BodiesStay
    <3> QED BY <1>0, <1>2, <2>1, <2>3, <3>1, RunStays
  <2>4. \A p \in Procs : RunOK(proc[p])'
      BY <1>0, <1>2, <2>3
  <2> QED BY <2>2, <2>4
<1>3. CASE Import
  <2>1. /\ row' = [f \in Files |-> IF f \in TUs THEN AddFile(row[f], disk[f]) ELSE row[f]]
        /\ UNCHANGED <<disk, sym, edge, def, defEdge, proc>>
      BY <1>3 DEF Import
  <2>2. NoNewClaim
    <3> SUFFICES ASSUME NEW f \in Files, UpToDate(row[f], f)'
                 PROVE  UpToDate(row[f], f)
        BY DEF NoNewClaim
    <3>1. UpToDate(row'[f], f)
        BY <2>1 DEF UpToDate
    <3> QED BY <1>0, <2>1, <3>1, ImportedClaims
  <2>3. RowsOK(Age)'
    <3> SUFFICES ASSUME NEW g \in Files
                 PROVE  /\ row'[g].indexed => row'[g].known
                        /\ row'[g].md5 # None => Age[row'[g].md5] <= Age[disk[g]]
        BY <2>1 DEF RowsOK
    <3>1. row'[g] = row[g] \/ row'[g] = AddFile(row[g], disk[g])
        BY <2>1
    <3>2. Age[disk[g]] \in Nat /\ row[g] \in FileRow
        BY <1>0
    <3> QED BY <1>0, <3>1, <3>2 DEF RowsOK, AddFile
  <2> QED BY <1>2, <2>1, <2>2, <2>3
<1>4. ASSUME NEW f \in Files, NEW b \in SetValues, SetIndexed(f, b)
      PROVE  RowsOK(Age)' /\ AlreadyIndexedIsRecorded' /\ \A p \in Procs : RunOK(proc[p])'
  <2>1. b = FALSE
      BY ConstantTypes
  <2>2. row' = [row EXCEPT ![f].indexed = FALSE]
        /\ UNCHANGED <<disk, sym, edge, def, defEdge, proc>>
      BY <1>4, <2>1 DEF SetIndexed
  <2>3. \A g \in Files : /\ row'[g].known = row[g].known /\ row'[g].md5 = row[g].md5
                         /\ row'[g].indexed => row[g].indexed
      BY <1>0, <2>2 DEF FileRow
  <2>4. NoNewClaim
      BY <2>2, <2>3 DEF NoNewClaim, UpToDate
  <2>5. RowsOK(Age)'
      BY <1>0, <2>2, <2>3 DEF RowsOK
  <2> QED BY <1>2, <2>2, <2>4, <2>5
<1> QED BY <1>1, <1>3, <1>4 DEF Environment

LEMMA WriteRows ==
    ASSUME NEW Age, ContentsAge(Age), RecordInv(Age), NEW p \in Procs, Write(p)
    PROVE  UNCHANGED disk /\ RowsOK(Age)'
<1>0. /\ row \in [Files -> FileRow] /\ disk \in [Files -> Version] /\ RowsOK(Age)
      /\ \A f \in Files : Age[disk[f]] \in Nat
    BY DEF RecordInv, WriteInv, DefInv, TypeInv, TypeOK, ContentsAge
<1>1. ASSUME UNCHANGED <<disk, row>> PROVE UNCHANGED disk /\ RowsOK(Age)'
    BY <1>0, <1>1 DEF RowsOK
<1>2. ASSUME NEW f, UNCHANGED disk, row' = MarkedIndexed(f)
      PROVE  UNCHANGED disk /\ RowsOK(Age)'
  <2>1. \A g \in Files : /\ row'[g].known = row[g].known /\ row'[g].md5 = row[g].md5
                         /\ row'[g].indexed => row[g].indexed \/ row[g].known
      BY <1>0, <1>2 DEF MarkedIndexed, FileRow
  <2> QED BY <1>0, <1>2, <2>1 DEF RowsOK
<1>3. ASSUME \/ StoreMain(p) \/ StoreHeader(p) \/ WipeEdges(p) \/ WipeBodies(p)
             \/ StoreEdges(p) \/ Abort(p)
      PROVE  UNCHANGED <<disk, row>>
    BY <1>3 DEF StoreMain, StoreHeader, WipeEdges, WipeBodies, StoreEdges, Abort, Step, tables
<1>4. ASSUME NEW h \in Headers, SkipHeader(p, h) \/ StoreHeaderEdges(p, h) \/ AbortHeader(p, h)
      PROVE  UNCHANGED <<disk, row>>
    BY <1>4 DEF SkipHeader, StoreHeaderEdges, AbortHeader, Step, tables
<1>5. ASSUME NEW h \in Headers, RegisterHeader(p, h)
      PROVE  UNCHANGED disk /\ RowsOK(Age)'
  <2>1. UNCHANGED disk /\ row' = [row EXCEPT ![h] = AddFile(row[h], disk[h])] /\ h \in Files
      BY <1>5 DEF RegisterHeader, Step, Files
  <2>2. \A g \in Files : row'[g] = row[g] \/ row'[g] = AddFile(row[g], disk[g])
      BY <1>0, <2>1
  <2>3. \A g \in Files : row[g] \in FileRow
      BY <1>0
  <2> QED BY <1>0, <2>1, <2>2, <2>3 DEF RowsOK, AddFile
<1>6. ASSUME MarkHeader(p) \/ MarkMain(p)
      PROVE  UNCHANGED disk /\ \E f : row' = MarkedIndexed(f)
    BY <1>6 DEF MarkHeader, MarkMain, Step
<1> QED BY <1>1, <1>2, <1>3, <1>4, <1>5, <1>6 DEF Write

\* What a step of the process of a run must show: the state it leaves and the
\* claims that stand.
LEMMA CalmWrites ==
    ASSUME NEW Age, RecordInv(Age), NEW p \in Procs,
           Abort(p) \/ \E h \in Headers : SkipHeader(p, h) \/ AbortHeader(p, h)
    PROVE  AlreadyIndexedIsRecorded' /\ RunOK(proc[p])'
<1>0. /\ proc \in [Procs -> Process] /\ RunOK(proc[p]) /\ RowsOK(Age)
      /\ AlreadyIndexedIsRecorded
    BY DEF RecordInv, WriteInv, DefInv, TypeInv, TypeOK
<1>1. UNCHANGED <<disk, tables>>
    BY DEF Abort, SkipHeader, AbortHeader, Step
<1>2. RunOK(proc'[p])
  <2>1. RunOK(Idle)
      BY DEF Idle, RunOK, Busy
  <2>2. ASSUME NEW h \in Headers, SkipHeader(p, h)
        PROVE  RunOK(proc'[p])
    <3>1. /\ proc'[p].pc = proc[p].pc /\ proc'[p].listed = proc[p].listed
          /\ proc'[p].graph = proc[p].graph /\ proc'[p].todo = proc[p].todo
          /\ proc'[p].cur = proc[p].cur /\ proc'[p].ast = proc[p].ast
          /\ proc'[p].pend = proc[p].pend /\ proc'[p].hdr = proc[p].hdr
        BY <1>0, <2>2 DEF SkipHeader, Step, Process
    <3> QED BY <1>0, <3>1 DEF RunOK, ListOK, Writing
  <2> QED BY <1>0, <2>1, <2>2 DEF Abort, AbortHeader, Step
<1> QED BY <1>0, <1>1, <1>2, CalmClaims, CalmRuns

LEMMA StoringClaims ==
    ASSUME TypeInv, AlreadyIndexedIsRecorded, UNCHANGED <<disk, row, def, defEdge>>,
           NEW f \in Files, NEW c \in Contents, sym' = StoreSymbols(f, c)
    PROVE  /\ SymbolsGrow /\ SymbolsIn(f, c)' /\ NoNewClaim /\ AlreadyIndexedIsRecorded'
           /\ \A g : BodiesStay(g)
<1>1. SymbolsGrow /\ SymbolsIn(f, c)'
    BY StoringGrows
<1>2. \A g : BodiesStay(g)
    BY DEF BodiesStay
<1>3. NoNewClaim
    BY DEF UpToDate, NoNewClaim
<1>4. /\ \A g \in Files \ {} : BodiesStay(g) /\ (UpToDate(row[g], g)' => UpToDate(row[g], g))
      /\ \A g \in Files \intersect {} : UpToDate(row[g], g)' => Recorded(g, disk[g])'
    BY <1>2, <1>3 DEF NoNewClaim
<1>5. AlreadyIndexedIsRecorded'
    BY <1>1, <1>4, ClaimsStay
<1> QED BY <1>1, <1>2, <1>3, <1>5

LEMMA SymbolRecords ==
    ASSUME NEW Age, RecordInv(Age), NEW p \in Procs, StoreMain(p) \/ StoreHeader(p)
    PROVE  AlreadyIndexedIsRecorded' /\ RunOK(proc[p])'
<1>0. /\ TypeInv /\ proc \in [Procs -> Process] /\ proc[p] \in Process /\ LocalOK(proc[p])
      /\ RunOK(proc[p]) /\ AlreadyIndexedIsRecorded /\ Headers \subseteq Files
    BY DEF RecordInv, WriteInv, DefInv, TypeInv, TypeOK, LocalsOK, Files
<1>1. UNCHANGED <<disk, row, def, defEdge>>
    BY DEF StoreMain, StoreHeader, Step
<1>2. ASSUME NEW r \in Process, r = proc[p], StoreMain(p)
      PROVE  AlreadyIndexedIsRecorded' /\ RunOK(proc[p])'
  <2> DEFINE s == [r EXCEPT !.pc = "headers", !.inc = {h \in Headers \ {r.cur} : r.ast[h] # None}]
  <2>1. /\ r.pc = "symbols" /\ r.cur \in Files /\ r.ast[r.cur] \in Contents
        /\ r.pend = {} /\ LocalOK(r) /\ RunOK(r)
      BY <1>0, <1>2 DEF StoreMain, At, LocalOK, Busy
  <2>2. sym' = StoreSymbols(r.cur, r.ast[r.cur]) /\ proc'[p] = s
      BY <1>0, <1>2 DEF StoreMain, Step
  <2>3. /\ SymbolsGrow /\ SymbolsIn(r.cur, r.ast[r.cur])' /\ NoNewClaim
        /\ AlreadyIndexedIsRecorded' /\ \A g : BodiesStay(g)
      BY <1>0, <1>1, <2>1, <2>2, StoringClaims
  <2>4. RunOK(r)'
      BY <1>0, <1>1, <2>1, <2>3, RunStays
  <2>5. /\ s.pc = "headers" /\ s.listed = r.listed /\ s.graph = r.graph /\ s.todo = r.todo
        /\ s.cur = r.cur /\ s.ast = r.ast /\ s.pend = {}
      BY <2>1 DEF Process
  <2> HIDE DEF s
  <2>6. RunOK(s)'
      BY <2>1, <2>3, <2>4, <2>5 DEF RunOK, ListOK, Writing, Busy
  <2> QED BY <2>2, <2>3, <2>6
<1>3. ASSUME NEW r \in Process, r = proc[p], StoreHeader(p)
      PROVE  AlreadyIndexedIsRecorded' /\ RunOK(proc[p])'
  <2> DEFINE h == r.hdr
             s == [r EXCEPT !.pc = "headers", !.hdr = None, !.pend = @ \union {h}]
  <2>1. /\ r.pc = "hsyms" /\ h \in Files /\ r.ast[h] \in Contents
        /\ LocalOK(r) /\ RunOK(r)
      BY <1>0, <1>3 DEF StoreHeader, At, LocalOK, Busy
  <2>2. sym' = StoreSymbols(h, r.ast[h]) /\ proc'[p] = s
      BY <1>0, <1>3 DEF StoreHeader, Step
  <2>3. /\ SymbolsGrow /\ SymbolsIn(h, r.ast[h])' /\ NoNewClaim
        /\ AlreadyIndexedIsRecorded' /\ \A g : BodiesStay(g)
      BY <1>0, <1>1, <2>1, <2>2, StoringClaims
  <2>4. RunOK(r)'
      BY <1>0, <1>1, <2>1, <2>3, RunStays
  <2>5. /\ s.pc = "headers" /\ s.listed = r.listed /\ s.graph = r.graph /\ s.todo = r.todo
        /\ s.cur = r.cur /\ s.ast = r.ast /\ s.pend = r.pend \union {h}
      BY <2>1 DEF Process
  <2> HIDE DEF s
  <2>6. RunOK(s)'
      BY <2>1, <2>3, <2>4, <2>5 DEF RunOK, ListOK, Writing, Busy
  <2> QED BY <2>2, <2>3, <2>6
<1> QED BY <1>0, <1>2, <1>3

LEMMA RegisterRecords ==
    ASSUME NEW Age, RecordInv(Age), NEW p \in Procs, NEW h \in Headers, RegisterHeader(p, h)
    PROVE  AlreadyIndexedIsRecorded' /\ RunOK(proc[p])'
<1>0. /\ TypeInv /\ proc \in [Procs -> Process] /\ proc[p] \in Process /\ LocalOK(proc[p])
      /\ RunOK(proc[p]) /\ AlreadyIndexedIsRecorded /\ h \in Files
      /\ row \in [Files -> FileRow] /\ disk \in [Files -> Version] /\ RowsOK(Age)
    BY DEF RecordInv, WriteInv, DefInv, TypeInv, TypeOK, LocalsOK, Files
<1>1. /\ UNCHANGED <<disk, sym, edge, def, defEdge>>
      /\ row' = [row EXCEPT ![h] = AddFile(row[h], disk[h])]
      /\ proc[p].pc = "headers" /\ h \in proc[p].inc /\ ~HeaderIndexed(h)
    BY DEF RegisterHeader, Step, At
<1>2. NoNewClaim /\ ~UpToDate(row[h], h)'
  <2>1. \A g \in Files : UpToDate(row[g], g)' <=> UpToDate(row'[g], g)
      BY <1>1 DEF UpToDate
  <2>2. \A g \in Files : UpToDate(AddFile(row[g], disk[g]), g) => UpToDate(row[g], g)
      BY <1>0, ImportedClaims
  <2>3. ~UpToDate(row[h], h)
      BY <1>0, <1>1 DEF HeaderIndexed, UpToDate, RowsOK
  <2>4. NoNewClaim
      BY <1>0, <1>1, <2>1, <2>2 DEF NoNewClaim
  <2> QED BY <1>0, <2>3, <2>4 DEF NoNewClaim
<1>3. SymbolsGrow /\ \A g : BodiesStay(g)
    BY <1>1 DEF SymbolsGrow, BodiesStay
<1>4. AlreadyIndexedIsRecorded'
    BY <1>0, <1>1, <1>2 DEF AlreadyIndexedIsRecorded, NoNewClaim, UpToDate, Recorded
<1>5. ASSUME NEW r \in Process, r = proc[p]
      PROVE  RunOK(proc[p])'
  <2> DEFINE s == [r EXCEPT !.pc = "hsyms", !.hdr = h, !.inc = @ \ {h}]
  <2>1. RunOK(r)'
      BY <1>0, <1>1, <1>2, <1>3, <1>5, RunStays
  <2>2. proc'[p] = s
      BY <1>0, <1>5 DEF RegisterHeader, Step
  <2>3. /\ s.pc = "hsyms" /\ s.listed = r.listed /\ s.graph = r.graph /\ s.todo = r.todo
        /\ s.cur = r.cur /\ s.ast = r.ast /\ s.pend = r.pend /\ s.hdr = h
      BY DEF Process
  <2> HIDE DEF s
  <2>4. RunOK(s)'
      BY <1>1, <1>2, <1>5, <2>1, <2>3 DEF RunOK, ListOK, Writing, Busy
  <2> QED BY <2>2, <2>4
<1> QED BY <1>0, <1>4, <1>5

LEMMA MarkHeaderRecords ==
    ASSUME NEW Age, RecordInv(Age), DisciplinedUse, NEW p \in Procs, MarkHeader(p)
    PROVE  AlreadyIndexedIsRecorded' /\ RunOK(proc[p])'
<1>0. /\ TypeInv /\ proc \in [Procs -> Process] /\ proc[p] \in Process /\ LocalOK(proc[p])
      /\ RunOK(proc[p]) /\ AlreadyIndexedIsRecorded /\ Headers \subseteq Files
      /\ row \in [Files -> FileRow] /\ disk \in [Files -> Version]
    BY DEF RecordInv, WriteInv, DefInv, TypeInv, TypeOK, LocalsOK, Files
<1>1. ASSUME NEW r \in Process, r = proc[p]
      PROVE  AlreadyIndexedIsRecorded' /\ RunOK(proc[p])'
  <2> DEFINE h == r.hdr
             s == [r EXCEPT !.pc = "headers", !.hdr = None]
  <2>1. /\ UNCHANGED <<disk, sym, edge, def, defEdge>> /\ row' = MarkedIndexed(h)
        /\ r.pc = "hmark" /\ h \in Headers /\ h \in Files /\ h # r.cur /\ h \notin r.pend
        /\ r.ast[h] = disk[h] /\ Recorded(h, r.ast[h]) /\ LocalOK(r) /\ RunOK(r)
      BY <1>0, <1>1 DEF MarkHeader, Step, At, LocalOK, RunOK, Busy
  <2>2. \A g \in Files \ {h} : UpToDate(row[g], g)' => UpToDate(row[g], g)
      BY <1>0, <2>1 DEF MarkedIndexed, UpToDate
  <2>3. Recorded(h, disk[h])'
      BY <2>1 DEF Recorded
  <2>4. SymbolsGrow /\ \A g : BodiesStay(g)
      BY <2>1 DEF SymbolsGrow, BodiesStay
  <2>5. AlreadyIndexedIsRecorded'
    <3>1. \A g \in Files \ {h} : BodiesStay(g) /\ (UpToDate(row[g], g)' => UpToDate(row[g], g))
        BY <2>2, <2>4
    <3>2. \A g \in Files \intersect {h} : UpToDate(row[g], g)' => Recorded(g, disk[g])'
        BY <2>3
    <3> HIDE DEF h
    <3> QED BY <1>0, <2>1, <2>4, <3>1, <3>2, ClaimsStay
  <2>6. /\ proc'[p] = s
        /\ s.pc = "headers" /\ s.listed = r.listed /\ s.graph = r.graph /\ s.todo = r.todo
        /\ s.cur = r.cur /\ s.ast = r.ast /\ s.pend = r.pend
      BY <1>0, <1>1 DEF MarkHeader, Step, Process
  <2> HIDE DEF s
  <2>7. \A g \in {r.cur} \union r.pend : g \in Files \ {h} /\ r.ast[g] \in Contents
      BY <1>0, <2>1 DEF LocalOK, Busy
  <2>8. ListOK(s)'
    <3> SUFFICES ASSUME ~r.listed PROVE ListOK(s)'
        BY <2>6 DEF ListOK
    <3>1. \A e \in r.todo : e.file \in Files
        BY DEF Process, Entry
    <3>2. \A e \in r.todo : e.file \in TUs => e.file # h
        BY <2>1 DEF DisciplinedUse
    <3>3. \A e \in r.todo : e.file \in TUs /\ UpToDate(row[e.file], e.file)'
                                => UpToDate(e, e.file)'
        BY <2>1, <2>2, <3>1, <3>2 DEF RunOK, ListOK, UpToDate
    <3> QED BY <2>1, <2>6, <3>3 DEF RunOK, ListOK, Busy
  <2>9. \A g \in {r.cur} \union r.pend : SymbolsIn(g, r.ast[g])'
      BY <2>1, <2>4, <2>7, SymbolsInStay DEF RunOK, Busy
  <2>10. \A g \in Writing(s) : ~UpToDate(row[g], g)'
      BY <2>1, <2>2, <2>6, <2>7 DEF RunOK, Writing, Busy
  <2>11. RunOK(s)'
      BY <2>1, <2>6, <2>8, <2>9, <2>10 DEF RunOK, Writing, Busy
  <2> QED BY <2>5, <2>6, <2>11
<1> QED BY <1>0, <1>1

LEMMA WipeRecords ==
    ASSUME NEW Age, RecordInv(Age), NEW p \in Procs, WipeEdges(p) \/ WipeBodies(p)
    PROVE  AlreadyIndexedIsRecorded' /\ RunOK(proc[p])'
<1>0. /\ TypeInv /\ proc \in [Procs -> Process] /\ proc[p] \in Process /\ LocalOK(proc[p])
      /\ RunOK(proc[p]) /\ AlreadyIndexedIsRecorded
    BY DEF RecordInv, WriteInv, DefInv, TypeInv, TypeOK, LocalsOK
<1>1. ASSUME NEW r \in Process, r = proc[p], NEW pc \in {"bodies", "edges"},
             proc'[p] = [r EXCEPT !.pc = pc], UNCHANGED <<disk, row, sym>>,
             r.pc \in Busy \ {"symbols", "hmark", "mark"}, r.pend = {},
             \A g \in Files \ {r.cur} : BodiesStay(g)
      PROVE  AlreadyIndexedIsRecorded' /\ RunOK(proc[p])'
  <2> DEFINE s == [r EXCEPT !.pc = pc]
             f == r.cur
  <2>1. SymbolsGrow /\ NoNewClaim /\ LocalOK(r) /\ RunOK(r)
      BY <1>0, <1>1 DEF SymbolsGrow, NoNewClaim, UpToDate
  <2>2. RunOK(r)'
      BY <1>0, <1>1, <2>1, RunStays
  <2>3. /\ s.pc = pc /\ s.listed = r.listed /\ s.graph = r.graph /\ s.todo = r.todo
        /\ s.cur = r.cur /\ s.ast = r.ast /\ s.pend = r.pend
      BY DEF Process
  <2> HIDE DEF s
  <2>4. RunOK(s)'
      BY <1>1, <2>1, <2>2, <2>3 DEF RunOK, ListOK, Writing, Busy
  <2>5. AlreadyIndexedIsRecorded'
    <3>1. f \in Files /\ ~UpToDate(row[f], f)'
        BY <1>1, <2>1, <2>2 DEF RunOK, Writing, LocalOK
    <3> HIDE DEF f
    <3>2. \A g \in Files \ {f} : BodiesStay(g) /\ (UpToDate(row[g], g)' => UpToDate(row[g], g))
        BY <1>1, <2>1 DEF NoNewClaim, f
    <3>3. \A g \in Files \intersect {f} : UpToDate(row[g], g)' => Recorded(g, disk[g])'
        BY <3>1
    <3> QED BY <1>0, <1>1, <2>1, <3>2, <3>3, ClaimsStay
  <2> QED BY <1>1, <2>4, <2>5 DEF s
<1>2. CASE WipeEdges(p)
  <2>1. /\ proc[p].pc = "headers" /\ proc[p].pend = {}
        /\ proc'[p] = [proc[p] EXCEPT !.pc = "bodies"] /\ UNCHANGED <<disk, row, sym, def, defEdge>>
      BY <1>0, <1>2 DEF WipeEdges, HeadersDone, At, Step
  <2>2. \A g : BodiesStay(g)
      BY <2>1 DEF BodiesStay
  <2> QED BY <1>0, <1>1, <2>1, <2>2 DEF Busy
<1>3. CASE WipeBodies(p)
  <2>1. /\ proc[p].pc = "bodies" /\ proc[p].pend = {}
        /\ proc'[p] = [proc[p] EXCEPT !.pc = "edges"] /\ UNCHANGED <<disk, row, sym>>
        /\ def' = DefsWithout(proc[p].cur) /\ defEdge' = DefEdgesWithout(proc[p].cur)
      BY <1>0, <1>3 DEF WipeBodies, At, Step, LocalOK
  <2>2. \A g \in Files \ {proc[p].cur} : BodiesStay(g)
      BY <2>1 DEF BodiesStay, DefsWithout, DefEdgesWithout
  <2> QED BY <1>0, <1>1, <2>1, <2>2 DEF Busy
<1> QED BY <1>2, <1>3

\* The bodies written for file f leave those of the others alone.
LEMMA OthersBodiesStay ==
    ASSUME NEW f \in Files, NEW ast, NEW E,
           NEW D, \A g \in Files \ {f}, u \in Symbols : <<g, u>> \in D <=> <<g, u>> \in def,
           NEW DE, \A g \in Files \ {f}, u, v \in Symbols :
                        <<g, u, v>> \in defEdge => <<g, u, v>> \in DE,
           StoreBodies(f, ast, E, D, DE)
    PROVE  \A g \in Files \ {f} : BodiesStay(g)
<1>1. PICK bodies : /\ def' = D \union ({f} \X bodies)
                    /\ DE \subseteq defEdge'
    BY DEF StoreBodies
<1> QED BY <1>1 DEF BodiesStay

LEMMA HeaderBodiesRecord ==
    ASSUME NEW Age, RecordInv(Age), NEW p \in Procs, NEW h \in Headers, StoreHeaderEdges(p, h)
    PROVE  AlreadyIndexedIsRecorded' /\ RunOK(proc[p])'
<1>0. /\ TypeInv /\ proc \in [Procs -> Process] /\ proc[p] \in Process /\ LocalOK(proc[p])
      /\ RunOK(proc[p]) /\ AlreadyIndexedIsRecorded /\ h \in Files
    BY DEF RecordInv, WriteInv, DefInv, TypeInv, TypeOK, LocalsOK, Files
<1>1. ASSUME NEW r \in Process, r = proc[p]
      PROVE  AlreadyIndexedIsRecorded' /\ RunOK(proc[p])'
  <2> DEFINE s == [r EXCEPT !.pc = "hmark", !.hdr = h, !.pend = @ \ {h}]
  <2>1. /\ r.pc = "headers" /\ h \in r.pend /\ h # r.cur /\ r.ast[h] \in Contents
        /\ SymbolsIn(h, r.ast[h]) /\ LocalOK(r) /\ RunOK(r)
      BY <1>0, <1>1 DEF StoreHeaderEdges, At, LocalOK, RunOK, Busy
  <2>2. /\ proc'[p] = s /\ UNCHANGED <<disk, row>>
        /\ StoreBodies(h, r.ast, EdgesWithout(h), DefsWithout(h), DefEdgesWithout(h))
      BY <1>0, <1>1 DEF StoreHeaderEdges, Step
  <2>3. SymbolsGrow /\ NoNewClaim
      BY <2>2, BodiesGrow DEF NoNewClaim, UpToDate
  <2>4. \A g \in Files \ {h} : BodiesStay(g)
    <3>1. \A g \in Files \ {h}, u \in Symbols : <<g, u>> \in DefsWithout(h) <=> <<g, u>> \in def
        BY DEF DefsWithout
    <3>2. \A g \in Files \ {h}, u, v \in Symbols :
              <<g, u, v>> \in defEdge => <<g, u, v>> \in DefEdgesWithout(h)
        BY DEF DefEdgesWithout
    <3> QED BY <1>0, <2>2, <3>1, <3>2, OthersBodiesStay
  <2>5. Recorded(h, r.ast[h])'
    <3>1. DefsWithout(h) \in SUBSET (Files \X Symbols) /\ \A u \in Symbols : <<h, u>> \notin DefsWithout(h)
        BY <1>0 DEF DefsWithout, TypeInv, TypeOK
    <3> QED BY <1>0, <2>1, <2>2, <3>1, BodiesAreRecorded
  <2>6. RunOK(r)'
      BY <1>0, <2>1, <2>2, <2>3, RunStays
  <2>7. /\ s.pc = "hmark" /\ s.listed = r.listed /\ s.graph = r.graph /\ s.todo = r.todo
        /\ s.cur = r.cur /\ s.ast = r.ast /\ s.pend = r.pend \ {h} /\ s.hdr = h
      BY DEF Process
  <2> HIDE DEF s
  <2>8. RunOK(s)'
      BY <2>1, <2>5, <2>6, <2>7 DEF RunOK, ListOK, Writing, Busy
  <2>9. AlreadyIndexedIsRecorded'
    <3>1. ~UpToDate(row[h], h)'
        BY <2>1, <2>6 DEF RunOK, Writing, Busy
    <3>2. \A g \in Files \ {h} : BodiesStay(g) /\ (UpToDate(row[g], g)' => UpToDate(row[g], g))
        BY <2>3, <2>4 DEF NoNewClaim
    <3>3. \A g \in Files \intersect {h} : UpToDate(row[g], g)' => Recorded(g, disk[g])'
        BY <3>1
    <3> QED BY <1>0, <2>2, <2>3, <3>2, <3>3, ClaimsStay
  <2> QED BY <2>2, <2>8, <2>9
<1> QED BY <1>0, <1>1

LEMMA MainBodiesRecord ==
    ASSUME NEW Age, RecordInv(Age), NEW p \in Procs, StoreEdges(p)
    PROVE  AlreadyIndexedIsRecorded' /\ RunOK(proc[p])'
<1>0. /\ TypeInv /\ proc \in [Procs -> Process] /\ proc[p] \in Process /\ LocalOK(proc[p])
      /\ RunOK(proc[p]) /\ AlreadyIndexedIsRecorded /\ BodiesWiped(p)
    BY DEF RecordInv, WriteInv, DefInv, TypeInv, TypeOK, LocalsOK, WriteOK
<1>1. ASSUME NEW r \in Process, r = proc[p], NEW f \in Files, f = r.cur
      PROVE  AlreadyIndexedIsRecorded' /\ RunOK(proc[p])'
  <2> DEFINE s == [r EXCEPT !.pc = "mark"]
  <2>1. /\ r.pc = "edges" /\ r.ast[f] \in Contents /\ r.pend = {}
        /\ SymbolsIn(f, r.ast[f]) /\ LocalOK(r) /\ RunOK(r) /\ \A d \in def : d[1] # f
      BY <1>0, <1>1 DEF StoreEdges, At, LocalOK, RunOK, Busy, BodiesWiped
  <2>2. proc'[p] = s /\ UNCHANGED <<disk, row>> /\ StoreBodies(f, r.ast, edge, def, defEdge)
      BY <1>0, <1>1 DEF StoreEdges, Step
  <2>3. SymbolsGrow /\ NoNewClaim
      BY <2>2, BodiesGrow DEF NoNewClaim, UpToDate
  <2>4. \A g \in Files \ {f} : BodiesStay(g)
      BY <2>2, OthersBodiesStay
  <2>5. Recorded(f, r.ast[f])'
    <3>1. def \in SUBSET (Files \X Symbols) /\ \A u \in Symbols : <<f, u>> \notin def
        BY <1>0, <2>1 DEF TypeInv, TypeOK
    <3> QED BY <1>0, <2>1, <2>2, <3>1, BodiesAreRecorded
  <2>6. RunOK(r)'
      BY <1>0, <2>1, <2>2, <2>3, RunStays
  <2>7. /\ s.pc = "mark" /\ s.listed = r.listed /\ s.graph = r.graph /\ s.todo = r.todo
        /\ s.cur = r.cur /\ s.ast = r.ast /\ s.pend = r.pend
      BY DEF Process
  <2> HIDE DEF s
  <2>8. RunOK(s)'
      BY <1>1, <2>1, <2>5, <2>6, <2>7 DEF RunOK, ListOK, Writing, Busy
  <2>9. AlreadyIndexedIsRecorded'
    <3>1. ~UpToDate(row[f], f)'
        BY <1>1, <2>1, <2>6 DEF RunOK, Writing, Busy
    <3>2. \A g \in Files \ {f} : BodiesStay(g) /\ (UpToDate(row[g], g)' => UpToDate(row[g], g))
        BY <2>3, <2>4 DEF NoNewClaim
    <3>3. \A g \in Files \intersect {f} : UpToDate(row[g], g)' => Recorded(g, disk[g])'
        BY <3>1
    <3> QED BY <1>0, <2>2, <2>3, <3>2, <3>3, ClaimsStay
  <2> QED BY <2>2, <2>8, <2>9
<1>2. proc[p].cur \in Files
    BY <1>0 DEF StoreEdges, At, LocalOK, Busy
<1> QED BY <1>0, <1>1, <1>2

LEMMA MarkMainRecords ==
    ASSUME NEW Age, RecordInv(Age), NEW p \in Procs, MarkMain(p)
    PROVE  AlreadyIndexedIsRecorded' /\ RunOK(proc[p])'
<1>0. /\ TypeInv /\ proc \in [Procs -> Process] /\ proc[p] \in Process /\ LocalOK(proc[p])
      /\ RunOK(proc[p]) /\ AlreadyIndexedIsRecorded
      /\ row \in [Files -> FileRow] /\ disk \in [Files -> Version]
    BY DEF RecordInv, WriteInv, DefInv, TypeInv, TypeOK, LocalsOK
<1>1. ASSUME NEW r \in Process, r = proc[p], NEW f \in Files, f = r.cur
      PROVE  AlreadyIndexedIsRecorded' /\ RunOK(proc[p])'
  <2> DEFINE s == [Idle EXCEPT !.pc = "scan", !.listed = r.listed, !.graph = r.graph,
                               !.todo = r.todo]
  <2>1. /\ UNCHANGED <<disk, sym, edge, def, defEdge>> /\ row' = MarkedIndexed(f)
        /\ r.pc = "mark" /\ r.ast[f] = disk[f] /\ Recorded(f, r.ast[f]) /\ RunOK(r)
        /\ proc'[p] = s
      BY <1>0, <1>1, NoneIsNoValue DEF MarkMain, Step, At, LocalOK, RunOK, Busy
  <2>2. \A g \in Files \ {f} : UpToDate(row[g], g)' => UpToDate(row[g], g)
      BY <1>0, <2>1 DEF MarkedIndexed, UpToDate
  <2>3. AlreadyIndexedIsRecorded'
    <3>1. SymbolsGrow /\ \A g : BodiesStay(g)
        BY <2>1 DEF SymbolsGrow, BodiesStay
    <3>2. Recorded(f, disk[f])'
        BY <2>1 DEF Recorded
    <3>3. \A g \in Files \ {f} : BodiesStay(g) /\ (UpToDate(row[g], g)' => UpToDate(row[g], g))
        BY <2>2, <3>1
    <3>4. \A g \in Files \intersect {f} : UpToDate(row[g], g)' => Recorded(g, disk[g])'
        BY <3>2
    <3> QED BY <1>0, <2>1, <3>1, <3>3, <3>4, ClaimsStay
  <2>4. s.pc = "scan" /\ s.listed = r.listed /\ s.graph = r.graph /\ s.todo = r.todo
      BY DEF Idle
  <2> HIDE DEF s
  <2>5. RunOK(s)'
    <3> SUFFICES ASSUME ~r.listed PROVE ListOK(s)'
        BY <2>1, <2>4 DEF RunOK, ListOK, Busy
    <3>1. \A e \in r.todo : e.file \in Files \ {f}
        BY <1>1, <2>1 DEF Process, Entry, RunOK, ListOK, Busy
    <3>2. \A e \in r.todo : e.file \in TUs /\ UpToDate(row[e.file], e.file)'
                                => UpToDate(e, e.file)'
        BY <2>1, <2>2, <3>1 DEF RunOK, ListOK, UpToDate
    <3> QED BY <2>1, <2>4, <3>2 DEF RunOK, ListOK, Busy
  <2> QED BY <2>1, <2>3, <2>5
<1>2. proc[p].cur \in Files
    BY <1>0 DEF MarkMain, HeadersDone, At, LocalOK, Busy
<1> QED BY <1>0, <1>1, <1>2

LEMMA RecordInvInductive ==
    ASSUME DisciplinedUse, NEW Age, ContentsAge(Age)
    PROVE  (Init => RecordInv(Age)) /\ (RecordInv(Age) /\ [Next]_vars => RecordInv(Age)')
<1>0. \A p, q \in Procs : p = q
    BY DEF DisciplinedUse
<1>1. ASSUME Init PROVE RecordInv(Age)
  <2>1. WriteInv
      BY <1>0, <1>1, WriteInvInductive
  <2>2. RowsOK(Age) /\ AlreadyIndexedIsRecorded
      BY <1>1 DEF Init, NoRow, RowsOK, AlreadyIndexedIsRecorded, UpToDate
  <2>3. \A p \in Procs : RunOK(proc[p])
      BY <1>1 DEF Init, Idle, RunOK, Busy
  <2> QED BY <2>1, <2>2, <2>3 DEF RecordInv
<1>2. ASSUME RecordInv(Age), [Next]_vars PROVE RecordInv(Age)'
  <2>1. WriteInv'
      BY <1>0, <1>2, WriteInvInductive DEF RecordInv
  <2>2. RowsOK(Age) /\ AlreadyIndexedIsRecorded /\ \A p \in Procs : RunOK(proc[p])
      BY <1>2 DEF RecordInv
  <2>3. CASE UNCHANGED vars
    <3>1. UNCHANGED <<disk, tables>> /\ proc' = proc
        BY <2>3 DEF vars, tables
    <3>2. \A p \in Procs : RunOK(proc[p])'
        BY <2>2, <3>1, CalmRuns
    <3> QED BY <2>1, <2>2, <3>1, <3>2, CalmClaims DEF RecordInv
  <2>4. CASE Environment
      BY <1>2, <2>1, <2>4, EnvironmentRecords DEF RecordInv
  <2>5. ASSUME NEW p \in Procs, Begin(p) \/ Scan(p) \/ Crash(p)
        PROVE  RecordInv(Age)'
    <3>1. PICK r : UNCHANGED <<disk, tables>> /\ proc' = [proc EXCEPT ![p] = r] /\ RunOK(r)
        BY <1>2, <2>5, CalmMoves
    <3>2. proc'[p] = r
        BY <1>2, <3>1 DEF RecordInv, WriteInv, DefInv, TypeInv, TypeOK
    <3>3. \A q \in Procs : RunOK(proc[q])'
        BY <1>0, <3>1, <3>2, CalmRuns
    <3> QED BY <2>1, <2>2, <3>1, <3>3, CalmClaims DEF RecordInv
  <2>6. ASSUME NEW p \in Procs, Write(p)
        PROVE  RecordInv(Age)'
    <3>1. AlreadyIndexedIsRecorded' /\ RunOK(proc[p])'
        BY <1>2, <2>6, CalmWrites, SymbolRecords, RegisterRecords, MarkHeaderRecords, WipeRecords,
           HeaderBodiesRecord, MainBodiesRecord, MarkMainRecords DEF Write
    <3>2. \A q \in Procs : RunOK(proc[q])'
        BY <1>0, <3>1
    <3> QED BY <1>2, <2>1, <2>6, <3>1, <3>2, WriteRows DEF RecordInv
  <2> QED BY <1>2, <2>3, <2>4, <2>5, <2>6 DEF Next
<1> QED BY <1>1, <1>2

\* "Already indexed" keeps its promise: under disciplined use, a file that `cidx
\* index` passes over has every symbol and body of its current content in the
\* tables, and no body that it does not have, however many units, headers and
\* symbols there are, in whatever order files are edited, imported, reset and
\* indexed, and wherever runs die.  (No part of DisciplinedUse can go: the README
\* names the behaviour that then breaks the promise.)
THEOREM AlreadyIndexedIsTrue ==
    ASSUME DisciplinedUse, NEW Age, ContentsAge(Age)
    PROVE  Spec => []AlreadyIndexedIsRecorded
<1>1. (Init => RecordInv(Age)) /\ (RecordInv(Age) /\ [Next]_vars => RecordInv(Age)')
    BY RecordInvInductive
<1>2. Spec => []RecordInv(Age)
    BY <1>1, PTL DEF Spec
<1>3. RecordInv(Age) => AlreadyIndexedIsRecorded
    BY DEF RecordInv
<1> QED BY <1>2, <1>3, PTL
=============================================================================
