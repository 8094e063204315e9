------------------------------ MODULE PchCache -------------------------------
(***************************************************************************)
(* The shared precompiled header: `cidx pch build` and `cidx pch clear`        *)
(* beside parses that inject it (indexer/pch.py, parse and _system_pch_args    *)
(* of indexer/clang/util.py).                                                 *)
(*                                                                         *)
(* The PCH and its sidecar are two files, replaced one after the other; the    *)
(* processes share no lock, and one that builds or clears may die.            *)
(***************************************************************************)
EXTENDS CompileDb

CONSTANTS
    Missing,
    Partial,    \* what is read from a file that was opened for writing and not written
    Units,      \* the files of the index: [cpp, driver, options, headers, direct, fatal], where
                \* cpp is the suffix, direct are the headers that it includes itself, and
                \* fatal that libclang refuses it as it is
    Given,      \* the driver that `pch build --driver` may name
    Coverage,   \* the percentage of the units that share a header of a corpus PCH
    Libs,       \* versions of libclang
    Parsers,    \* processes that parse
    MaxWork     \* bound on builds, clears and changes of libclang

VARIABLES
    pch,        \* the PCH file: [lib, driver, flags, dirs, headers], or Missing
    sidecar,    \* its sidecar: [lib, driver], Partial or Missing
    lib,        \* the libclang that a process now loads
    work,       \* the build or clear that runs: [pc, made], or Missing
    parses,     \* for each parser: [pc, unit, lib], and the outcome in pc
    works       \* how much work has been begun

pchVars == <<pch, sidecar, lib, work, parses, works>>

Idle == [pc |-> "idle", unit |-> Missing, lib |-> Missing]

PchInit ==
    /\ pch = Missing /\ sidecar = Missing
    /\ lib \in Libs
    /\ work = Missing
    /\ parses = [p \in Parsers |-> Idle]
    /\ works = 0

-----------------------------------------------------------------------------
(* Building and clearing.                                                     *)

\* A file without a compile command is not a unit.
Cpp == {u \in Units : u.options # << >> /\ IsCpp(u.cpp, Sanitize(u.options))}

\* The options that every unit shares, order and number aside.
CommonFlags ==
    {t \in UNION {ToSet(PchRelevant(Sanitize(u.options))) : u \in Cpp} :
        \A u \in Cpp : t \in ToSet(PchRelevant(Sanitize(u.options)))}

\* A driver that no other is used more often than.
DominantDrivers ==
    LET Uses(d) == Cardinality({u \in Cpp : u.driver = d})
    IN  {u.driver : u \in {v \in Cpp : \A w \in Cpp : Uses(v.driver) >= Uses(w.driver)}}

\* corpus_survey and select_shared_headers: the headers that enough units reach and at least
\* one includes itself.
SharedHeaders ==
    {h \in UNION {u.direct : u \in Cpp} :
        Cardinality({u \in Cpp : h \in u.headers}) * 100 >= Coverage * Cardinality(Cpp)}

SystemHeaders == {"vector"}

\* Every include directory of the units, for a corpus PCH.
AllDirs == UNION {ToSet(IncludeDirs(Sanitize(u.options))) : u \in Cpp}

Begins(w) ==
    /\ work = Missing /\ works < MaxWork
    /\ work' = w
    /\ works' = works + 1
    /\ UNCHANGED <<pch, sidecar, lib, parses>>

\* Without --force an existing PCH is kept; there must be a C++ unit, and for a corpus PCH a
\* shared header.  The driver may be given.
BeginBuild(force, driver, corpus) ==
    /\ pch = Missing \/ force
    /\ Cpp # {}
    /\ corpus => SharedHeaders # {}
    /\ Begins([pc |-> "parse",
               made |-> [lib |-> lib, driver |-> driver, flags |-> CommonFlags,
                         dirs |-> IF corpus THEN AllDirs ELSE {},
                         headers |-> IF corpus THEN SharedHeaders ELSE SystemHeaders]])

\* The umbrella is written and parsed without any PCH; the parse or the save may fail.
BuildFails ==
    /\ work # Missing /\ work.pc \in {"parse", "save"}
    /\ work' = Missing
    /\ UNCHANGED <<pch, sidecar, lib, parses, works>>

ParseUmbrella ==
    /\ work # Missing /\ work.pc = "parse"
    /\ work' = [work EXCEPT !.pc = "save"]
    /\ UNCHANGED <<pch, sidecar, lib, parses, works>>

SavePch ==
    /\ work # Missing /\ work.pc = "save"
    /\ pch' = work.made
    /\ work' = [work EXCEPT !.pc = "open"]
    /\ UNCHANGED <<sidecar, lib, parses, works>>

\* The sidecar is emptied when it is opened, and written after.
WriteSidecar ==
    /\ work # Missing /\ work.pc \in {"open", "write"}
    /\ IF work.pc = "open"
       THEN sidecar' = Partial /\ work' = [work EXCEPT !.pc = "write"]
       ELSE sidecar' = [lib |-> work.made.lib, driver |-> work.made.driver] /\ work' = Missing
    /\ UNCHANGED <<pch, lib, parses, works>>

BeginClear == Begins([pc |-> "clear", made |-> Missing])

Clear ==
    /\ work # Missing /\ work.pc \in {"clear", "clear sidecar"}
    /\ IF work.pc = "clear"
       THEN pch' = Missing /\ work' = [work EXCEPT !.pc = "clear sidecar"] /\ UNCHANGED sidecar
       ELSE sidecar' = Missing /\ work' = Missing /\ UNCHANGED pch
    /\ UNCHANGED <<lib, parses, works>>

WorkDies ==
    /\ work # Missing
    /\ work' = Missing
    /\ UNCHANGED <<pch, sidecar, lib, parses, works>>

\* Another libclang is installed.
Upgrade(l) ==
    /\ works < MaxWork
    /\ lib' = l
    /\ works' = works + 1
    /\ UNCHANGED <<pch, sidecar, work, parses>>

-----------------------------------------------------------------------------
(* A parse.                                                                   *)

Is(p, pc) == parses[p].pc = pc

Goes(p, pc) ==
    /\ parses' = [parses EXCEPT ![p].pc = pc]
    /\ UNCHANGED <<pch, sidecar, lib, work, works>>

\* CIDX_NO_PCH may be set.
BeginParse(p, u, noPch) ==
    /\ parses[p].pc \in {"idle", "ast", "error"}
    /\ parses' = [parses EXCEPT ![p] = [pc |-> IF noPch THEN "without" ELSE "look",
                                       unit |-> u, lib |-> lib]]
    /\ UNCHANGED <<pch, sidecar, lib, work, works>>

\* consume_args: a C++ unit, and the file is there ...
Look(p) ==
    /\ Is(p, "look")
    /\ Goes(p, IF parses[p].unit \in Cpp /\ pch # Missing THEN "match" ELSE "without")

\* ... and the sidecar is readable and names this libclang and this driver.
Match(p) ==
    /\ Is(p, "match")
    /\ LET matches == /\ sidecar \notin {Missing, Partial}
                      /\ sidecar.lib = parses[p].lib
                      /\ sidecar.driver = parses[p].unit.driver
       IN  Goes(p, IF matches THEN "with" ELSE "without")

\* libclang loads a PCH of its own version whose macros the unit also sets.
Loads(p) ==
    /\ pch # Missing
    /\ pch.lib = parses[p].lib
    /\ pch.flags \subseteq ToSet(parses[p].unit.options)

\* Mutant of ParseWith: a failure with the PCH is final.
ParseWithOnce(p) ==
    /\ Is(p, "with")
    /\ Goes(p, IF Loads(p) /\ ~parses[p].unit.fatal THEN "ast" ELSE "error")

\* The parse with the PCH; when it fails, for whatever reason, it is done again without.
ParseWith(p) ==
    /\ Is(p, "with")
    /\ Goes(p, IF Loads(p) /\ ~parses[p].unit.fatal THEN "ast" ELSE "without")

ParseWithout(p) ==
    /\ Is(p, "without")
    /\ Goes(p, IF parses[p].unit.fatal THEN "error" ELSE "ast")

PchNext ==
    \/ \E force, corpus \in BOOLEAN, d \in DominantDrivers \union {Given} : BeginBuild(force, d, corpus)
    \/ BuildFails \/ ParseUmbrella \/ SavePch \/ WriteSidecar \/ BeginClear \/ Clear \/ WorkDies
    \/ \E l \in Libs : Upgrade(l)
    \/ \E p \in Parsers :
            \/ \E u \in Units, noPch \in BOOLEAN : BeginParse(p, u, noPch)
            \/ Look(p) \/ Match(p) \/ ParseWith(p) \/ ParseWithout(p)

PchSpec == PchInit /\ [][PchNext]_pchVars

-----------------------------------------------------------------------------
(* Properties.                                                                *)

\* A parse fails only if it would without a PCH: one that is stale, half replaced, taken
\* away after it was looked for, or built by another libclang never breaks it (pch.py: "a
\* stale or mismatched PCH can only slow indexing to the un-accelerated path").
NeverBroken == \A p \in Parsers : Is(p, "error") => parses[p].unit.fatal

=============================================================================
