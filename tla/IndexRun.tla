------------------------------ MODULE IndexRun ------------------------------
(***************************************************************************)
(* The life of an index: `cidx import` registers translation units, `cidx  *)
(* index` parses the pending ones and writes their symbols, headers, edges *)
(* and per-file bodies into SQLite, while files are edited, rows are reset *)
(* or dropped, and a run may die between any two commits.                  *)
(*                                                                         *)
(* One step is one COMMIT of the code (Storage._commit or the end of a     *)
(* Storage.transaction()), or one read that a later step relies on.  The   *)
(* contents of a file are abstract: what matters of a version is which     *)
(* symbols it declares and defines, which symbols each body calls, which   *)
(* headers it includes, and whether libclang reports it fatal.             *)
(***************************************************************************)
EXTENDS Naturals, FiniteSets

CONSTANTS
    Procs,        \* running `cidx index` processes
    TUs,          \* translation-unit sources (entries of the compile database)
    Headers,      \* headers a registered component owns
    Contents,     \* versions a file on disk can have
    Symbols,      \* USRs
    None,         \* SQL NULL / unreadable file
    Declares,     \* [Files -> [Contents -> SUBSET Symbols]]: declaration cursors
    Defines,      \* [Files -> [Contents -> SUBSET Symbols]]: definition cursors
    Calls,        \* [Files -> [Contents -> [Symbols -> SUBSET Symbols]]]: callees
    Mentions,     \* [Files -> [Contents -> SUBSET Symbols]]: targets of its other edges
    Includes,     \* [Files -> [Contents -> SUBSET Headers]], transitive
    Fatal,        \* the <<file, content>> pairs libclang refuses
    Initial,      \* the contents of the files before the first command
    EditRel,      \* the <<old, new>> pairs an edit may go through
    QuietEdits,   \* TRUE: files are edited and rows reset only while no run is active
    GraphModes,   \* FALSE in it: `cidx index --no-graph` is used
    FileArgs,     \* the sets of files given to `cidx index FILE...`
    SetValues,    \* the values `cidx set indexed=...` is used with
    Droppable,    \* the sets of files one delete command removes
    MaxCrashes    \* bound on the runs that die

Files == TUs \union Headers

ASSUME ConstantTypes ==
    /\ Declares \in [Files -> [Contents -> SUBSET Symbols]]
    /\ Defines  \in [Files -> [Contents -> SUBSET Symbols]]
    /\ Calls    \in [Files -> [Contents -> [Symbols -> SUBSET Symbols]]]
    /\ Mentions \in [Files -> [Contents -> SUBSET Symbols]]
    /\ Includes \in [Files -> [Contents -> SUBSET Headers]]
    /\ Initial  \in [Files -> Contents]
    /\ EditRel \subseteq (Contents \union {None}) \X (Contents \union {None})
    /\ GraphModes \subseteq BOOLEAN /\ SetValues \subseteq BOOLEAN
    /\ FileArgs \subseteq SUBSET Files /\ Droppable \subseteq SUBSET Files
    /\ MaxCrashes \in Nat

ASSUME NoneIsNoValue == None \notin Files /\ None \notin Contents

\* C++'s one-definition rule inside one translation unit: a file and the
\* headers it includes never define the same symbol twice.
ASSUME OneDefinitionPerTU ==
    \A f \in Files, c \in Contents :
        /\ f \notin Includes[f][c]
        /\ \A g \in Includes[f][c], d \in Contents :
             /\ Defines[f][c] \intersect Defines[g][d] = {}
             /\ \A h \in Includes[f][c] \ {g}, e \in Contents :
                    Defines[g][d] \intersect Defines[h][e] = {}

VARIABLES
    disk,      \* [Files -> Contents \union {None}]
    row,       \* the `file` table
    sym,       \* the `symbol` table
    edge,      \* the `edge` table (calls): <<caller, callee>>
    def,       \* the `definition` table: <<file, symbol>>
    defEdge,   \* the `def_edge` table: <<file, symbol, callee>>
    proc,      \* the processes' control state and local variables
    crashes    \* number of runs that died so far

tables == <<row, sym, edge, def, defEdge>>
vars == <<disk, tables, proc, crashes>>

(***************************************************************************)
(* The tables' rows.                                                       *)
(***************************************************************************)
Version == Contents \union {None}

FileRow == [known : BOOLEAN, indexed : BOOLEAN, md5 : Version]
NoRow == [known |-> FALSE, indexed |-> FALSE, md5 |-> None]

SymbolRow == [known : BOOLEAN, def : BOOLEAN,
              file : Files \union {None}, decl : Files \union {None}]
NoSymbol == [known |-> FALSE, def |-> FALSE, file |-> None, decl |-> None]

\* Mutant of AddFile: a changed md5 does not reset the flag.
AddFileKeepingFlag(r, md5) ==
    [known |-> TRUE, indexed |-> r.indexed, md5 |-> IF md5 = None THEN r.md5 ELSE md5]

\* Mutant of AddFile: the flag and the hash are bound in the wrong order.
AddFileSwapped(r, md5) ==
    [known |-> TRUE, indexed |-> IF md5 = None THEN r.md5 ELSE md5, md5 |-> r.indexed]

\* add_file's upsert: a different md5 resets the indexed flag, an unreadable
\* file (NULL md5) keeps what is stored.
AddFile(r, md5) ==
    [known   |-> TRUE,
     indexed |-> r.indexed /\ (md5 = None \/ md5 = r.md5),
     md5     |-> IF md5 = None THEN r.md5 ELSE md5]

\* Mutant of AddSymbol: the last cursor always takes the location.
AddSymbolLastWins(s, f, isDef) ==
    [known |-> TRUE, def |-> isDef \/ s.def, file |-> f,
     decl |-> IF isDef THEN s.decl ELSE f]

\* add_symbol's upsert for one cursor: a definition wins over a declaration,
\* a declaration never takes the location of a stored definition.
AddSymbol(s, f, isDef) ==
    [known |-> TRUE,
     def   |-> isDef \/ s.def,
     file  |-> IF s.known /\ s.def /\ ~isDef THEN s.file ELSE f,
     decl  |-> IF isDef THEN s.decl ELSE f]

\* _index_file_notxn: every cursor of the file is upserted.
StoreSymbols(f, c) ==
    [u \in Symbols |->
        LET declared == IF u \in Declares[f][c]
                        THEN AddSymbol(sym[u], f, FALSE) ELSE sym[u]
        IN  IF u \in Defines[f][c] THEN AddSymbol(declared, f, TRUE) ELSE declared]

\* mint_symbol_id: a stub for a callee nobody stored yet; a stored row only
\* gains a declaration site.
Mint(s, site) ==
    [known |-> TRUE, def |-> s.def, file |-> s.file,
     decl  |-> IF s.decl = None THEN site ELSE s.decl]

\* _ref_decl_loc: the file of the AST in which the cursor that a call refers to
\* lies, any of the callee's (libclang picks the one visible at the call); a
\* file without a row, or of the system, gives NULL.
CalleeSites(ast, u) ==
    LET sites == {g \in Files : /\ ast[g] # None
                                /\ u \in Declares[g][ast[g]] \union Defines[g][ast[g]]}
    IN  IF sites = {} THEN {None} ELSE {IF row[g].known THEN g ELSE None : g \in sites}

\* Mutants: the symbol's old edges stay; bodies are removed by symbol instead
\* of by file.
EdgesKept(f) == edge
DefsWithoutSymbolsOf(f) == {d \in def : <<f, d[2]>> \notin def}

\* delete_edges_for_file and delete_definitions_for_file.
EdgesWithout(f) == {e \in edge : sym[e[1]].file # f}
DefsWithout(f) == {d \in def : d[1] # f}
DefEdgesWithout(f) == {d \in defEdge : d[1] # f}

\* The definitions of file f's version c that the body descent finds a row for:
\* the stored ones, and perhaps (it depends on their order in the file) those
\* that got a row as the target of an edge just before.
BodySets(f, c) ==
    LET stored == {u \in Defines[f][c] : sym[u].known}
    IN  {B \in SUBSET Defines[f][c] :
            /\ stored \subseteq B
            /\ B \ stored \subseteq Mentions[f][c] \union UNION {Calls[f][c][u] : u \in B}}

\* The calls the descent into the bodies B finds.
BodyCalls(f, c, B) == {e \in B \X Symbols : e[2] \in Calls[f][c][e[1]]}

\* copy_body_edges_to_def_edge: the calls of a body's symbol, whoever wrote them.
CopiedCalls(f, B, E) == {d \in {f} \X B \X Symbols : <<d[2], d[3]>> \in E}

\* File f's part of the AST, starting from the rows E, D and DE: the targets of
\* its declarations' edges (bases, overridden methods) get a row, each stored
\* definition gets its calls, then the edges its symbol has NOW are copied to
\* its own def_edge rows.
StoreBodies(f, ast, E, D, DE) ==
    \E B \in BodySets(f, ast[f]) :
        LET c       == ast[f]
            new     == BodyCalls(f, c, B)
            targets == Mentions[f][c] \union {e[2] : e \in new}
        IN  /\ edge' = E \union new
            /\ def' = D \union ({f} \X B)
            /\ defEdge' = DE \union CopiedCalls(f, B, E \union new)
            /\ \E site \in [targets -> Files \union {None}] :
                 /\ \A u \in targets : site[u] \in CalleeSites(ast, u)
                 /\ sym' = [u \in Symbols |-> IF u \in targets THEN Mint(sym[u], site[u])
                                              ELSE sym[u]]

(***************************************************************************)
(* A process: its program counter and what it keeps in memory.             *)
(***************************************************************************)
Entry == [file : Files, indexed : BOOLEAN, md5 : Version]

NoAst == [f \in Files |-> None]

Idle == [pc |-> "idle", listed |-> FALSE, graph |-> TRUE, todo |-> {}, cur |-> None,
         ast |-> NoAst, inc |-> {}, pend |-> {}, hdr |-> None]

Process == [pc : {"idle", "scan", "symbols", "headers", "hsyms", "hmark",
                  "bodies", "edges", "mark"},
            listed : BOOLEAN, graph : BOOLEAN, todo : SUBSET Entry,
            cur : Files \union {None}, ast : [Files -> Version],
            inc : SUBSET Headers, pend : SUBSET Headers, hdr : Headers \union {None}]

Init ==
    /\ disk = Initial
    /\ row = [f \in Files |-> NoRow]
    /\ sym = [u \in Symbols |-> NoSymbol]
    /\ edge = {} /\ def = {} /\ defEdge = {}
    /\ proc = [p \in Procs |-> Idle]
    /\ crashes = 0

At(p, pc) == proc[p].pc = pc

\* Step(p, r): process p goes on with the local state r.
Step(p, r) == proc' = [proc EXCEPT ![p] = r] /\ UNCHANGED <<disk, crashes>>

\* `cidx index` reads every file row up front and then works from that list.
BeginPending(p, graph) ==
    /\ At(p, "idle")
    /\ Step(p, [Idle EXCEPT !.pc = "scan", !.graph = graph,
           !.todo = {[file |-> f, indexed |-> row[f].indexed, md5 |-> row[f].md5] :
                        f \in {g \in Files : row[g].known}}])
    /\ UNCHANGED tables

\* `cidx index FILE...` looks each file up when its turn comes: the entry's
\* flags are not read from it.
BeginFiles(p, graph, F) ==
    /\ At(p, "idle")
    /\ Step(p, [Idle EXCEPT !.pc = "scan", !.graph = graph, !.listed = TRUE,
           !.todo = {[file |-> f, indexed |-> FALSE, md5 |-> None] : f \in F}])
    /\ UNCHANGED tables

\* index_status on a row: flag set and md5 equal to the file's hash now.
UpToDate(r, f) == r.indexed /\ r.md5 # None /\ r.md5 = disk[f]

\* The verdict the scan reaches on an entry of its list.
Pending(p, e) ==
    IF proc[p].listed THEN row[e.file].known /\ ~UpToDate(row[e.file], e.file)
    ELSE ~UpToDate(e, e.file)

Rest(p, e) == [Idle EXCEPT !.pc = "scan", !.listed = proc[p].listed,
                           !.graph = proc[p].graph, !.todo = proc[p].todo \ {e}]

\* Already indexed, not in the index at all, or a header of a full run, which
\* is left to the translation units that include it.
Skip(p, e) ==
    /\ At(p, "scan") /\ e \in proc[p].todo
    /\ Pending(p, e) => ~proc[p].listed /\ e.file \in Headers
    /\ Step(p, Rest(p, e))
    /\ UNCHANGED tables

Parsed(f) == {f} \union (IF disk[f] = None THEN {} ELSE Includes[f][disk[f]])

Parses(f) ==
    /\ <<f, disk[f]>> \notin Fatal
    /\ \A g \in Parsed(f) : disk[g] # None

Selected(p, e) ==
    /\ At(p, "scan") /\ e \in proc[p].todo /\ Pending(p, e)
    /\ proc[p].listed \/ e.file \in TUs

\* parse: the AST holds the file and its headers as they are on disk now.
Parse(p, e) ==
    /\ Selected(p, e) /\ Parses(e.file)
    /\ Step(p, [Rest(p, e) EXCEPT !.pc = "symbols", !.cur = e.file,
           !.ast = [g \in Files |-> IF g \in Parsed(e.file) THEN disk[g] ELSE None]])
    /\ UNCHANGED tables

\* ClangParseError: only diagnostics are written, the file stays as it was (and
\* a diagnostic of a dropped file is a foreign-key error that ends the run).
ParseFails(p, e) ==
    /\ Selected(p, e) /\ ~Parses(e.file)
    /\ Step(p, IF row[e.file].known THEN Rest(p, e) ELSE Idle)
    /\ UNCHANGED tables

\* The file whose rows the process is about to write.
Target(p) == IF proc[p].hdr = None THEN proc[p].cur ELSE proc[p].hdr

\* index_symbols: the main file's symbols, one transaction.
StoreMain(p) ==
    LET f == proc[p].cur IN
    /\ At(p, "symbols") /\ row[f].known
    /\ sym' = StoreSymbols(f, proc[p].ast[f])
    /\ Step(p, [proc[p] EXCEPT !.pc = "headers",
                    !.inc = {h \in Headers \ {f} : proc[p].ast[h] # None}])
    /\ UNCHANGED <<row, edge, def, defEdge>>

\* is_file_indexed(path, md5): an unreadable header passes on its flag alone.
HeaderIndexed(h) == row[h].known /\ row[h].indexed /\ (disk[h] = None \/ row[h].md5 = disk[h])

SkipHeader(p, h) ==
    /\ At(p, "headers") /\ h \in proc[p].inc /\ HeaderIndexed(h)
    /\ Step(p, [proc[p] EXCEPT !.inc = @ \ {h}])
    /\ UNCHANGED tables

\* add_file_path with the header's md5 as it is NOW, after the parse.
RegisterHeader(p, h) ==
    /\ At(p, "headers") /\ h \in proc[p].inc /\ ~HeaderIndexed(h)
    /\ row' = [row EXCEPT ![h] = AddFile(@, disk[h])]
    /\ Step(p, [proc[p] EXCEPT !.pc = "hsyms", !.hdr = h, !.inc = @ \ {h}])
    /\ UNCHANGED <<sym, edge, def, defEdge>>

\* Pass 1: the header's symbols out of this unit's AST.
StoreHeader(p) ==
    LET h == proc[p].hdr IN
    /\ At(p, "hsyms") /\ row[h].known
    /\ sym' = StoreSymbols(h, proc[p].ast[h])
    /\ Step(p, [proc[p] EXCEPT !.pc = "headers", !.hdr = None, !.pend = @ \union {h}])
    /\ UNCHANGED <<row, edge, def, defEdge>>

\* Pass 2: the header's old edges and bodies go and the new ones come in one
\* transaction.
StoreHeaderEdges(p, h) ==
    /\ At(p, "headers") /\ proc[p].inc = {} /\ h \in proc[p].pend /\ row[h].known
    /\ StoreBodies(h, proc[p].ast, EdgesWithout(h), DefsWithout(h), DefEdgesWithout(h))
    /\ Step(p, [proc[p] EXCEPT !.pc = "hmark", !.hdr = h, !.pend = @ \ {h}])
    /\ UNCHANGED row

\* Mutant of MarkedIndexed: only a unit whose stored md5 is current is marked.
MarkedIfCurrent(f) == [row EXCEPT ![f].indexed = row[f].known /\ row[f].md5 = disk[f]]

\* mark_file_indexed: the flag only; an UPDATE of a dropped row changes nothing.
MarkedIndexed(f) == [row EXCEPT ![f].indexed = row[f].known]

MarkHeader(p) ==
    /\ At(p, "hmark")
    /\ row' = MarkedIndexed(proc[p].hdr)
    /\ Step(p, [proc[p] EXCEPT !.pc = "headers", !.hdr = None])
    /\ UNCHANGED <<sym, edge, def, defEdge>>

HeadersDone(p) == At(p, "headers") /\ proc[p].inc = {} /\ proc[p].pend = {}

\* index_edges commits the removal of the old edges, then that of the old
\* bodies, and only then opens the transaction that writes the new ones.
WipeEdges(p) ==
    /\ HeadersDone(p) /\ proc[p].graph
    /\ edge' = EdgesWithout(proc[p].cur)
    /\ Step(p, [proc[p] EXCEPT !.pc = "bodies"])
    /\ UNCHANGED <<row, sym, def, defEdge>>

WipeBodies(p) ==
    /\ At(p, "bodies")
    /\ def' = DefsWithout(proc[p].cur)
    /\ defEdge' = DefEdgesWithout(proc[p].cur)
    /\ Step(p, [proc[p] EXCEPT !.pc = "edges"])
    /\ UNCHANGED <<row, sym, edge>>

StoreEdges(p) ==
    /\ At(p, "edges") /\ row[proc[p].cur].known
    /\ StoreBodies(proc[p].cur, proc[p].ast, edge, def, defEdge)
    /\ Step(p, [proc[p] EXCEPT !.pc = "mark"])
    /\ UNCHANGED row

MarkMain(p) ==
    /\ At(p, "mark") \/ (HeadersDone(p) /\ ~proc[p].graph)
    /\ row' = MarkedIndexed(proc[p].cur)
    /\ Step(p, [Idle EXCEPT !.pc = "scan", !.listed = proc[p].listed,
                            !.graph = proc[p].graph, !.todo = proc[p].todo])
    /\ UNCHANGED <<sym, edge, def, defEdge>>

\* Rows that reference a dropped file violate a foreign key: the exception is
\* not handled and the process ends.  (At "mark" only diagnostics reference the
\* file, so the run may also go on.)
Abort(p) ==
    /\ \/ At(p, "symbols") \/ At(p, "hsyms") \/ At(p, "edges") \/ At(p, "mark")
       \/ HeadersDone(p) /\ ~proc[p].graph
    /\ ~row[Target(p)].known
    /\ Step(p, Idle)
    /\ UNCHANGED tables

\* The same in pass 2, for a header of `pend`.
AbortHeader(p, h) ==
    /\ At(p, "headers") /\ proc[p].inc = {} /\ h \in proc[p].pend /\ ~row[h].known
    /\ Step(p, Idle)
    /\ UNCHANGED tables

Finish(p) ==
    /\ At(p, "scan") /\ proc[p].todo = {}
    /\ Step(p, Idle)
    /\ UNCHANGED tables

\* A run dies between two commits; what it kept in memory is gone.
Crash(p) ==
    /\ ~At(p, "idle") /\ crashes < MaxCrashes
    /\ crashes' = crashes + 1
    /\ proc' = [proc EXCEPT ![p] = Idle]
    /\ UNCHANGED <<disk, tables>>

(***************************************************************************)
(* What happens around the runs.                                           *)
(***************************************************************************)
Edit(f, c) ==
    /\ <<disk[f], c>> \in EditRel /\ c # disk[f]
    /\ QuietEdits => \A p \in Procs : At(p, "idle")
    /\ disk' = [disk EXCEPT ![f] = c]
    /\ UNCHANGED <<tables, proc, crashes>>

\* `cidx import`: every entry of the compile database, in one transaction.
Import ==
    /\ row' = [f \in Files |-> IF f \in TUs THEN AddFile(row[f], disk[f]) ELSE row[f]]
    /\ UNCHANGED <<disk, sym, edge, def, defEdge, proc, crashes>>

\* `cidx set pending=...` / `indexed=...` on one file.
SetIndexed(f, b) ==
    /\ row[f].known /\ row[f].indexed # b
    /\ QuietEdits => \A p \in Procs : At(p, "idle")
    /\ row' = [row EXCEPT ![f].indexed = b]
    /\ UNCHANGED <<disk, sym, edge, def, defEdge, proc, crashes>>

\* delete_file, delete_directory, delete_component: the files' rows and every
\* symbol located or declared in one of them, with all that cascades.
Drop(F) ==
    LET gone == {u \in Symbols : sym[u].file \in F \/ sym[u].decl \in F} IN
    /\ \E f \in F : row[f].known
    /\ row' = [f \in Files |-> IF f \in F THEN NoRow ELSE row[f]]
    /\ sym' = [u \in Symbols |-> IF u \in gone THEN NoSymbol ELSE sym[u]]
    /\ edge' = {e \in edge : e[1] \notin gone /\ e[2] \notin gone}
    /\ def' = {d \in def : d[1] \notin F /\ d[2] \notin gone}
    /\ defEdge' = {d \in defEdge : d[1] \notin F /\ d[2] \notin gone /\ d[3] \notin gone}
    /\ UNCHANGED <<disk, proc, crashes>>

Begin(p) ==
    \E g \in GraphModes : BeginPending(p, g) \/ \E F \in FileArgs : BeginFiles(p, g, F)

Scan(p) ==
    \/ \E e \in proc[p].todo : Skip(p, e) \/ Parse(p, e) \/ ParseFails(p, e)
    \/ Finish(p)

Write(p) ==
    \/ StoreMain(p)
    \/ \E h \in Headers : \/ SkipHeader(p, h) \/ RegisterHeader(p, h)
                          \/ StoreHeaderEdges(p, h) \/ AbortHeader(p, h)
    \/ StoreHeader(p) \/ MarkHeader(p)
    \/ WipeEdges(p) \/ WipeBodies(p) \/ StoreEdges(p) \/ MarkMain(p)
    \/ Abort(p)

Environment ==
    \/ \E f \in Files, c \in Version : Edit(f, c)
    \/ Import
    \/ \E f \in Files, b \in SetValues : SetIndexed(f, b)
    \/ \E F \in Droppable : Drop(F)

Next ==
    \/ \E p \in Procs : Begin(p) \/ Scan(p) \/ Write(p) \/ Crash(p)
    \/ Environment

Spec == Init /\ [][Next]_vars

\* A run that has begun goes on, and `cidx index` is called again sooner or later
\* (the code has no daemon: somebody calls it, or nothing is claimed), however
\* many runs on single files are called in between.
Fairness ==
    \A p \in Procs :
        /\ SF_vars(\E g \in GraphModes : BeginPending(p, g))
        /\ WF_vars(Scan(p))
        /\ WF_vars(Write(p))

FairSpec == Spec /\ Fairness

(***************************************************************************)
(* Properties.                                                             *)
(***************************************************************************)
\* The variables hold values of their columns' types, and the processes are at
\* one of their control points.
TypeOK ==
    /\ disk \in [Files -> Version]
    /\ row \in [Files -> FileRow]
    /\ sym \in [Symbols -> SymbolRow]
    /\ edge \subseteq Symbols \X Symbols
    /\ def \subseteq Files \X Symbols
    /\ defEdge \subseteq Files \X Symbols \X Symbols
    /\ proc \in [Procs -> Process]
    /\ crashes \in 0..MaxCrashes

\* A body's recorded calls are calls of that very file's body, in one version
\* of the file: another backend's calls, which share the symbol's `edge` rows,
\* never leak into it (copy_body_edges_to_def_edge copies whatever `edge` holds
\* for the symbol, so this rests on the wipes and on who owns the symbol then).
NoForeignCalls ==
    \A d \in def : \E c \in Contents :
        /\ d[2] \in Defines[d[1]][c]
        /\ \A v \in Symbols : <<d[1], d[2], v>> \in defEdge => v \in Calls[d[1]][c][d[2]]

\* The definition site of a symbol is a file that defines it in some version:
\* whatever the order in which declarations, definitions of several backends,
\* stubs and deletions reach the row, a declaring header never takes it.
DefinitionSiteDefines ==
    \A u \in Symbols : sym[u].def =>
        \E c \in Contents : sym[u].file \in Files /\ u \in Defines[sym[u].file][c]

\* Everything the file's version c says is in the tables, and no body that it
\* does not have.
Recorded(f, c) ==
    /\ \A u \in Declares[f][c] \union Defines[f][c] : sym[u].known
    /\ \A u \in Defines[f][c] :
         /\ sym[u].def /\ <<f, u>> \in def
         /\ \A v \in Calls[f][c][u] : <<f, u, v>> \in defEdge
    /\ \A u \in Symbols : <<f, u>> \in def => u \in Defines[f][c]

\* A file that `cidx index` passes over as "already indexed" (flag set, md5
\* equal to the file's) has the symbols and bodies of its current content in
\* the tables -- also after a run that died in the middle of that file.
AlreadyIndexedIsRecorded ==
    \A f \in Files : UpToDate(row[f], f) => Recorded(f, disk[f])

\* Indexing one file never takes a body away from another translation unit:
\* the rows of a losing backend stay when the symbol's own row moves on.
OtherBodiesStay ==
    [][\A p \in Procs : proc[p].pc \in {"headers", "bodies", "edges"} /\ proc'[p] # proc[p] =>
          \A f \in TUs \ {proc[p].cur} :
             \A d \in def \union defEdge : d[1] = f => d \in def' \union defEdge']_vars

\* A registered, parseable unit that is pending is indexed by a later run,
\* however many runs die first, unless it is dropped.
PendingUnitGetsIndexed ==
    \A f \in TUs :
        (row[f].known /\ ~row[f].indexed) ~> (row[f].indexed \/ ~row[f].known)
=============================================================================
