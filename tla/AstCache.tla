------------------------------ MODULE AstCache ------------------------------
(***************************************************************************)
(* The on-disk AST cache of `cidx ast`: one entry, a pair of files          *)
(* <key>.ast and <key>.json, shared by every process that works on the same *)
(* source file with the same flags and driver (they are part of the key).   *)
(* One step is one file-system operation of the code.                       *)
(***************************************************************************)
EXTENDS Naturals, FiniteSets

CONSTANTS
    Procs,            \* processes: load_or_parse, `cache build`, `cache clear`
    Versions,         \* versions of the source file
    Libs,             \* libclang versions; a process has one
    None,             \* no such file; nothing returned
    Partial,          \* a file that was not written to its end
    LibOf,            \* [Procs -> Libs]
    Mtime,            \* [Versions -> Nat]: the modification time of each version
    Initial,          \* the version on disk at first
    EditRel,          \* the <<old, new>> pairs an edit may go through
    EditsDuringSave,  \* TRUE: the file may change between a parse and its sidecar
    Clears,           \* TRUE: `cidx ast cache clear` is used
    MaxFailures       \* bound on failed parses, failed saves and crashes together

ASSUME ConstantTypes ==
    /\ LibOf \in [Procs -> Libs] /\ Mtime \in [Versions -> Nat]
    /\ Initial \in Versions /\ EditRel \subseteq Versions \X Versions
    /\ EditsDuringSave \in BOOLEAN /\ Clears \in BOOLEAN /\ MaxFailures \in Nat
    /\ None \notin Versions /\ Partial # None

VARIABLES
    src,       \* the version of the source file on disk
    ast,       \* the .ast file: None, Partial, or a translation unit
    side,      \* the .json sidecar: None, Partial, or its contents
    proc,      \* the processes' control state and local variables
    failures   \* failed parses, failed saves and crashes so far

vars == <<src, ast, side, proc, failures>>
files == <<ast, side>>

Tu == [version : Versions, lib : Libs]
Sidecar == [mtime : Nat, lib : Libs]

ASSUME NoneIsNoValue == None \notin Sidecar

\* A process at rest; `got` is what its last call returned, `seen` the versions
\* the source has had since its call began (the code keeps no such thing).
Idle(v) == [pc |-> "idle", build |-> FALSE, cached |-> TRUE, tu |-> None,
            note |-> None, got |-> v, seen |-> {}]

Process == [pc : {"idle", "sidecar", "stat", "load", "parse", "save", "cleanup",
                  "restat", "open", "dump", "clear", "clearside", "clearast"},
            build : BOOLEAN, cached : BOOLEAN, tu : Versions \union {None},
            note : Sidecar \union {None},
            got : Versions \union {None}, seen : SUBSET Versions]

Init ==
    /\ src = Initial /\ ast = None /\ side = None /\ failures = 0
    /\ proc = [p \in Procs |-> Idle(None)]

At(p, pc) == proc[p].pc = pc
Step(p, r) == proc' = [proc EXCEPT ![p] = r]
Go(p, pc) == Step(p, [proc[p] EXCEPT !.pc = pc])

\* load_or_parse: with or without --no-cache.
Begin(p, useCache) ==
    /\ At(p, "idle")
    /\ Step(p, [Idle(None) EXCEPT !.pc = IF useCache THEN "sidecar" ELSE "parse",
                                  !.cached = useCache, !.seen = {src}])
    /\ UNCHANGED <<src, files, failures>>

\* `cidx ast cache build`: parses and saves whatever is there.
BeginBuild(p) ==
    /\ At(p, "idle")
    /\ Step(p, [Idle(proc[p].got) EXCEPT !.pc = "parse", !.build = TRUE])
    /\ UNCHANGED <<src, files, failures>>

\* _read_sidecar: a missing file and a file that is not JSON are the same.
ReadSidecar(p) ==
    /\ At(p, "sidecar")
    /\ IF side \in {None, Partial} THEN Go(p, "parse")
       ELSE Step(p, [proc[p] EXCEPT !.pc = "stat", !.note = side])
    /\ UNCHANGED <<src, files, failures>>

\* Mutant of IsValid: the modification time is not compared.
IsValidAnyTime(p) == proc[p].note.lib = LibOf[p]

\* is_valid: the file's mtime now against the sidecar's, and the libclang that
\* wrote the AST against this one.
IsValid(p) == proc[p].note.mtime = Mtime[src] /\ proc[p].note.lib = LibOf[p]

Validate(p) ==
    /\ At(p, "stat")
    /\ Go(p, IF IsValid(p) THEN "load" ELSE "parse")
    /\ UNCHANGED <<src, files, failures>>

Return(p, v) == Step(p, Idle(IF proc[p].build THEN proc[p].got ELSE v))

\* _load_ast: an AST of another libclang and a damaged one fail to load.
Readable(p) == ast \notin {None, Partial} /\ ast.lib = LibOf[p]

Load(p) ==
    /\ At(p, "load")
    /\ IF Readable(p) THEN Return(p, ast.version) ELSE Go(p, "parse")
    /\ UNCHANGED <<src, files, failures>>

\* _reparse: the AST of the file as it is now.
Parse(p) ==
    /\ At(p, "parse")
    /\ IF proc[p].cached
       THEN Step(p, [proc[p] EXCEPT !.pc = "save", !.tu = src, !.note = None])
       ELSE Return(p, src)
    /\ UNCHANGED <<src, files, failures>>

\* ClangParseError: nothing is returned, nothing is saved.
ParseFails(p) ==
    /\ At(p, "parse") /\ failures < MaxFailures
    /\ failures' = failures + 1
    /\ Return(p, None)
    /\ UNCHANGED <<src, files>>

\* Mutant of Save: an .ast file that is there is kept.
SaveUnlessThere(p) ==
    /\ At(p, "save")
    /\ ast' = IF ast \in {None, Partial} THEN [version |-> proc[p].tu, lib |-> LibOf[p]]
              ELSE ast
    /\ Go(p, "restat")
    /\ UNCHANGED <<src, side, failures>>

\* _try_save, first half: tu.save(ast_path).
Save(p) ==
    /\ At(p, "save")
    /\ ast' = [version |-> proc[p].tu, lib |-> LibOf[p]]
    /\ Go(p, "restat")
    /\ UNCHANGED <<src, side, failures>>

\* It fails, with whatever it wrote by then.
SaveFails(p) ==
    /\ At(p, "save") /\ failures < MaxFailures
    /\ failures' = failures + 1
    /\ ast' \in {ast, Partial}
    /\ Go(p, "cleanup")
    /\ UNCHANGED <<src, side>>

\* The handler removes the .ast file; the live AST is returned all the same.
Cleanup(p) ==
    /\ At(p, "cleanup")
    /\ ast' = None
    /\ Return(p, proc[p].tu)
    /\ UNCHANGED <<src, side, failures>>

\* Mutant of Stamp: the sidecar keeps the time it replaces, if there is one.
StampOld(p) == IF side \notin {None, Partial} THEN side.mtime ELSE Mtime[src]

\* Second half: the source is looked at again, after the parse and the save.
Stamp(p) == Mtime[src]

Restat(p) ==
    /\ At(p, "restat")
    /\ Step(p, [proc[p] EXCEPT !.pc = "open", !.note = [mtime |-> Stamp(p), lib |-> LibOf[p]]])
    /\ UNCHANGED <<src, files, failures>>

\* open(side_path, "w") truncates, json.dump fills.
OpenSidecar(p) ==
    /\ At(p, "open")
    /\ side' = Partial
    /\ Go(p, "dump")
    /\ UNCHANGED <<src, ast, failures>>

WriteSidecar(p) ==
    /\ At(p, "dump")
    /\ side' = proc[p].note
    /\ Return(p, proc[p].tu)
    /\ UNCHANGED <<src, ast, failures>>

\* The sidecar cannot be written (disk full): the AST goes, the call returns.
SidecarFails(p) ==
    /\ At(p, "open") \/ At(p, "dump")
    /\ failures < MaxFailures
    /\ failures' = failures + 1
    /\ Go(p, "cleanup")
    /\ UNCHANGED <<src, files>>

\* `cidx ast cache clear`: one entry (the .ast first), or all of them in the
\* order the directory lists them.
BeginClear(p) ==
    /\ Clears /\ At(p, "idle")
    /\ Step(p, [Idle(proc[p].got) EXCEPT !.pc = "clear"])
    /\ UNCHANGED <<src, files, failures>>

ClearAst(p) ==
    /\ At(p, "clear") \/ At(p, "clearast")
    /\ ast' = None
    /\ IF At(p, "clear") THEN Go(p, "clearside") ELSE Step(p, Idle(proc[p].got))
    /\ UNCHANGED <<src, side, failures>>

ClearSide(p) ==
    /\ At(p, "clear") \/ At(p, "clearside")
    /\ side' = None
    /\ IF At(p, "clear") THEN Go(p, "clearast") ELSE Step(p, Idle(proc[p].got))
    /\ UNCHANGED <<src, ast, failures>>

\* A call that returns an AST is running.
Active(r) == ~r.build /\ r.pc \notin {"idle", "clear", "clearside", "clearast"}
InCall(p) == Active(proc[p])

\* A process dies; a save or a sidecar it was writing stays as it is.
Crash(p) ==
    /\ ~At(p, "idle") /\ failures < MaxFailures
    /\ failures' = failures + 1
    /\ ast' \in IF At(p, "save") THEN {ast, Partial} ELSE {ast}
    /\ Step(p, Idle(IF InCall(p) THEN None ELSE proc[p].got))
    /\ UNCHANGED <<src, side>>

Saving(p) == proc[p].pc \in {"save", "cleanup", "restat", "open", "dump"}

\* Somebody writes the source file (the environment).
Edit(v) ==
    /\ <<src, v>> \in EditRel
    /\ EditsDuringSave \/ \A p \in Procs : ~Saving(p)
    /\ src' = v
    /\ proc' = [p \in Procs |-> [proc[p] EXCEPT
                   !.seen = IF InCall(p) THEN @ \union {v} ELSE @]]
    /\ UNCHANGED <<files, failures>>

Call(p) == (\E b \in BOOLEAN : Begin(p, b)) \/ BeginBuild(p) \/ BeginClear(p)

Work(p) ==
    \/ ReadSidecar(p) \/ Validate(p) \/ Load(p) \/ Parse(p) \/ ParseFails(p)
    \/ Save(p) \/ SaveFails(p) \/ Cleanup(p)
    \/ Restat(p) \/ OpenSidecar(p) \/ WriteSidecar(p) \/ SidecarFails(p)
    \/ ClearAst(p) \/ ClearSide(p)

Next ==
    \/ \E p \in Procs : Call(p) \/ Work(p) \/ Crash(p)
    \/ \E v \in Versions : Edit(v)

Spec == Init /\ [][Next]_vars

(***************************************************************************)
(* Properties.                                                             *)
(***************************************************************************)
\* The variables' types; a process past the sidecar check has a sidecar to
\* compare with, a process that saves has a translation unit.
TypeOK ==
    /\ src \in Versions
    /\ ast \in {None, Partial} \/ ast \in Tu
    /\ side \in {None, Partial} \/ side \in Sidecar
    /\ proc \in [Procs -> Process]
    /\ failures \in 0..MaxFailures
    /\ \A p \in Procs :
         /\ proc[p].pc \in {"stat", "load", "open", "dump"} => proc[p].note # None
         /\ Saving(p) => proc[p].tu # None

\* An entry that is_valid accepts and libclang can read is the AST of the file
\* as it is: two file-system objects, written one after the other by several
\* processes, agree with a third that others edit.
ValidEntryIsFresh ==
    (/\ ast \notin {None, Partial} /\ side \notin {None, Partial}
     /\ side.mtime = Mtime[src] /\ side.lib = ast.lib) => ast.version = src

\* What a caller sees of process r, as the variable `call` of FreshRead.
Observed(r) == [on |-> Active(r), got |-> r.got, seen |-> IF Active(r) THEN r.seen ELSE {}]
calls == [p \in Procs |-> Observed(proc[p])]
Reads == INSTANCE FreshRead WITH call <- calls

\* Every call returns the AST of a version the source had during the call:
\* edits, clears, failures and other processes between any two file operations
\* never make it serve a version that was gone before the call began.
FreshReads == Reads!Spec

\* When the edits and the failures are over, a cached call parses only finitely
\* often: whatever state the entry was left in, it heals and then hits.
CacheWarmsUp ==
    <>[][\A p \in Procs :
           proc[p].pc \in {"sidecar", "stat", "load"} => proc'[p].pc # "parse"]_vars
=============================================================================
