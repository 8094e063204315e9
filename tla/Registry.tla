------------------------------ MODULE Registry -------------------------------
(***************************************************************************)
(* Repositories, clones, components and their files in the index database,   *)
(* and the two conversions made with them: a component's stored path to the  *)
(* directory it stands for, and an include path to the portable token stored *)
(* with a file and back (indexer/storage.py, indexer/pathx.py,                *)
(* indexer/compiledb.py).  Operators only; RepoClones has the commands.       *)
(*                                                                         *)
(* A database d is a record of                                              *)
(*   repos   [id, name, active]       clones  [id, repo, path, label]        *)
(*   comps   [id, name, path, ver, repo], a path being relative or absolute  *)
(*   files   [id, comp, rel, inc, src, want]                                  *)
(*   labels  a partial function from names to directories                    *)
(* `rel` is the directory and the name of the file within its component and  *)
(* `inc` the include path of its command as it is stored; `src` and `want`    *)
(* are the paths that the command gave, which no column keeps.  An absolute   *)
(* path is the sequence of its segments.                                      *)
(***************************************************************************)
EXTENDS Integers, FiniteSets, SequencesExt, FiniteSetsExt

CONSTANTS
    Versions,   \* the path segments that read as versions, the lowest first
    Cwd,        \* the directory the command runs in
    None

ASSUME VersionsAreDistinct == IsInjective(Versions)

NextId(rows) == IF rows = {} THEN 1 ELSE 1 + Max({r.id : r \in rows})

Earliest(rows) == CHOOSE r \in rows : \A q \in rows : r.id <= q.id

With(rows, id) == {r \in rows : r.id = id}

Replaced(rows, row) == {r \in rows : r.id # row.id} \union {row}

-----------------------------------------------------------------------------
(* Versions and component roots.                                              *)

IsVersion(segment) == segment \in ToSet(Versions)

VersionKey(v) == CHOOSE i \in DOMAIN Versions : Versions[i] = v

SplitBaseVersion(p) ==
    IF Len(p) > 1 /\ IsVersion(Last(p)) THEN [base |-> Front(p), ver |-> Last(p)]
                                        ELSE [base |-> p, ver |-> None]

EffectiveRoot(c) == IF c.ver = None THEN c.path.segs ELSE Append(c.path.segs, c.ver)

ActiveClone(d, rid) ==
    LET active == {k \in d.clones : \E r \in With(d.repos, rid) : r.active = k.id}
    IN  IF rid = None \/ active = {} THEN None ELSE CHOOSE k \in active : TRUE

ActiveRoot(d, rid) == IF ActiveClone(d, rid) = None THEN None ELSE ActiveClone(d, rid).path

\* Where the files of a component are: a relative path hangs off the active clone of its
\* repository, and off the current directory when there is none.
AbsBase(d, c) ==
    IF ~c.path.rel THEN EffectiveRoot(c)
    ELSE LET root == ActiveRoot(d, c.repo)
         IN  (IF root = None THEN Cwd ELSE root) \o EffectiveRoot(c)

\* The component with the longest root that is p or above it.
ComponentForPath(d, p) ==
    LET owning == {c \in d.comps : IsPrefix(AbsBase(d, c), p)}
        longest == {c \in owning : \A q \in owning : Len(AbsBase(d, q)) <= Len(AbsBase(d, c))}
    IN  IF owning = {} THEN None ELSE Earliest(longest)

\* Mutant of GetComponent: by the stored path only.
GetComponentStored(d, p) ==
    LET exact == {c \in d.comps : ~c.path.rel /\ c.path.segs = p}
    IN  IF exact = {} THEN None ELSE Earliest(exact)

\* By the stored path first, then by the directory it stands for.
GetComponent(d, p) ==
    LET exact == {c \in d.comps : ~c.path.rel /\ c.path.segs = p}
        eff == {c \in d.comps : AbsBase(d, c) = p}
    IN  CASE exact # {} -> Earliest(exact)
          [] exact = {} /\ eff # {} -> Earliest(eff)
          [] OTHER -> None

\* The absolute path of a file row.
ListedAt(d, f) == AbsBase(d, CHOOSE c \in With(d.comps, f.comp) : TRUE) \o f.rel

-----------------------------------------------------------------------------
(* Rows written.                                                              *)

\* The name of the schema's UNIQUE (repository_id, path): NULLs are all distinct.
Clashes(d) ==
    \E c \in d.comps, q \in d.comps :
        c.id # q.id /\ c.repo # None /\ c.repo = q.repo /\ c.path = q.path

\* Idempotent on the stored path.
AddComponent(d, name, base, ver) ==
    LET path == [rel |-> FALSE, segs |-> base]
        same == {c \in d.comps : c.path = path}
        row == IF same = {}
               THEN [id |-> NextId(d.comps), name |-> name, path |-> path, ver |-> ver,
                     repo |-> None]
               ELSE LET c == Earliest(same)
                    IN  [c EXCEPT !.name = name, !.ver = IF ver = None THEN @ ELSE ver]
    IN  [db |-> [d EXCEPT !.comps = Replaced(@, row)], id |-> row.id]

UpdateComponentMeta(d, id, name, ver) ==
    [d EXCEPT !.comps = {IF c.id = id
                         THEN [c EXCEPT !.name = name, !.ver = IF ver = None THEN @ ELSE ver]
                         ELSE c : c \in @}]

SetComponentRepository(d, id, rid) ==
    [d EXCEPT !.comps = {IF c.id = id THEN [c EXCEPT !.repo = rid] ELSE c : c \in @}]

\* Mutant of RelativizeComponent: the component at the root itself is left alone.
RelativizeComponentBelow(d, id, root) ==
    [d EXCEPT !.comps =
        {IF c.id = id /\ ~c.path.rel /\ SplitBaseVersion(c.path.segs).ver = None
            /\ IsStrictPrefix(root, c.path.segs)
         THEN [c EXCEPT !.path = [rel |-> TRUE, segs |-> SubSeq(@.segs, Len(root) + 1, Len(@.segs))]]
         ELSE c : c \in @}]

\* A portable, relative or version-ended path and a path outside the root are left alone.
RelativizeComponent(d, id, root) ==
    [d EXCEPT !.comps =
        {IF c.id = id /\ ~c.path.rel /\ SplitBaseVersion(c.path.segs).ver = None
            /\ IsPrefix(root, c.path.segs)
         THEN [c EXCEPT !.path = [rel |-> TRUE, segs |-> SubSeq(@.segs, Len(root) + 1, Len(@.segs))]]
         ELSE c : c \in @}]

AddRepository(d, name) ==
    LET same == {r \in d.repos : r.name = name}
        row == [id |-> NextId(d.repos), name |-> name, active |-> None]
    IN  IF same = {} THEN [db |-> [d EXCEPT !.repos = @ \union {row}], id |-> row.id]
                     ELSE [db |-> d, id |-> (CHOOSE r \in same : TRUE).id]

\* Idempotent on the path; a path registered elsewhere moves to this repository.
AddClone(d, rid, path) ==
    LET same == {k \in d.clones : k.path = path}
        row == IF same = {} THEN [id |-> NextId(d.clones), repo |-> rid, path |-> path]
                            ELSE [(CHOOSE k \in same : TRUE) EXCEPT !.repo = rid]
    IN  [db |-> [d EXCEPT !.clones = Replaced(@, row)], id |-> row.id]

SetActiveClone(d, rid, kid) ==
    [d EXCEPT !.repos = {IF r.id = rid THEN [r EXCEPT !.active = kid] ELSE r : r \in @}]

\* Mutant of DeleteClone: the repository keeps its pointer.
DeleteCloneOnly(d, kid) == [d EXCEPT !.clones = {k \in @ : k.id # kid}]

\* The pointer is cleared first: no foreign key does it.
DeleteClone(d, kid) ==
    [d EXCEPT !.repos = {IF r.active = kid THEN [r EXCEPT !.active = None] ELSE r : r \in @},
              !.clones = {k \in @ : k.id # kid}]

\* Clones cascade and components are detached, with the path they have.
DeleteRepository(d, rid) ==
    [d EXCEPT !.repos = {r \in @ : r.id # rid},
              !.clones = {k \in @ : k.repo # rid},
              !.comps = {IF c.repo = rid THEN [c EXCEPT !.repo = None] ELSE c : c \in @}]

DeleteComponent(d, id) ==
    [d EXCEPT !.comps = {c \in @ : c.id # id}, !.files = {f \in @ : f.comp # id}]

\* By name: every component that has it.
SetComponentVersion(d, name, ver) ==
    [d EXCEPT !.comps = {IF c.name = name THEN [c EXCEPT !.ver = ver] ELSE c : c \in @}]

\* In the column, or in the last segment of the path; only for a name that one row has.
SetEffectiveVersion(d, name, ver) ==
    LET rows == {c \in d.comps : c.name = name}
    IN  IF Cardinality(rows) # 1 THEN d
        ELSE [d EXCEPT !.comps =
                {IF c \notin rows THEN c
                 ELSE IF SplitBaseVersion(c.path.segs).ver = None THEN [c EXCEPT !.ver = ver]
                 ELSE [c EXCEPT !.ver = None,
                                !.path.segs = Append(Front(@), ver)] : c \in @}]

-----------------------------------------------------------------------------
(* Aliases: labels, and components by name.                                   *)

\* A name whose components have different bases is left out as ambiguous.
AliasIndex(d) ==
    LET Rows(n) == {SplitBaseVersion(AbsBase(d, c)) : c \in {x \in d.comps : x.name = n}}
        names == {n \in {c.name : c \in d.comps} : Cardinality({s.base : s \in Rows(n)}) = 1}
    IN  [n \in names |->
            LET vers == {s.ver : s \in Rows(n)} \ {None}
            IN  [base |-> (CHOOSE s \in Rows(n) : TRUE).base,
                 max |-> IF vers = {} THEN None
                         ELSE CHOOSE v \in vers : \A w \in vers : VersionKey(w) <= VersionKey(v)]]

\* Mutant of GetAlias: a component's name decodes to its base.
GetAliasUnversioned(d, name) ==
    CASE name \in DOMAIN d.labels -> d.labels[name]
      [] name \notin DOMAIN d.labels /\ name \in DOMAIN AliasIndex(d) -> AliasIndex(d)[name].base
      [] OTHER -> None

\* What a name decodes to: labels win over components.
GetAlias(d, name) ==
    LET index == AliasIndex(d)
    IN  CASE name \in DOMAIN d.labels -> d.labels[name]
          [] name \notin DOMAIN d.labels /\ name \in DOMAIN index ->
               IF index[name].max = None THEN index[name].base
                                         ELSE Append(index[name].base, index[name].max)
          [] OTHER -> None

\* The registry that include paths are encoded with.
AliasPairs(d) ==
    LET index == AliasIndex(d)
    IN  {[name |-> n, path |-> d.labels[n], versioned |-> FALSE] : n \in DOMAIN d.labels}
        \union {[name |-> n, path |-> index[n].base, versioned |-> TRUE] :
                n \in DOMAIN index \ DOMAIN d.labels}

\* The longest entry above a path; the version below a component's base is set apart.  Two
\* entries for one directory are told apart by name, here by an arbitrary fixed choice.
MatchAlias(p, pairs) ==
    LET above == {e \in pairs : IsPrefix(e.path, p)}
        e == CHOOSE x \in above : \A y \in above : Len(y.path) <= Len(x.path)
        rem == SubSeq(p, Len(e.path) + 1, Len(p))
        versioned == e.versioned /\ rem # << >> /\ IsVersion(Head(rem))
    IN  IF above = {} THEN None
        ELSE [name |-> e.name,
              ver |-> IF versioned THEN Head(rem) ELSE None,
              rem |-> IF versioned THEN Tail(rem) ELSE rem]

\* An include path as it is stored: a name and what follows it, or all of it and no name.
Plain(p) == [name |-> None, segs |-> p]

AliasOption(inc, pairs) ==
    IF inc.name # None THEN inc
    ELSE LET m == MatchAlias(inc.segs, pairs)
         IN  IF m = None THEN inc ELSE [name |-> m.name, segs |-> m.rem]

\* A name that nothing registers stands for a directory of that name.
ResolveOption(d, inc) ==
    CASE inc.name = None -> inc.segs
      [] inc.name # None /\ GetAlias(d, inc.name) = None -> <<inc.name>> \o inc.segs
      [] OTHER -> GetAlias(d, inc.name) \o inc.segs

\* A component takes the highest version that an include names below its base, if it is
\* higher than its own and on disk.
BumpVersions(d, incs, pairs, disk) ==
    LET matches == {MatchAlias(p, pairs) : p \in incs} \ {None}
        Seen(n) == {m.ver : m \in {x \in matches : x.name = n}} \ {None}
        index == AliasIndex(d)
        Best(n) == CHOOSE v \in Seen(n) : \A w \in Seen(n) : VersionKey(w) <= VersionKey(v)
        bumped == {n \in DOMAIN index :
                     /\ Seen(n) # {}
                     /\ index[n].max = None \/ VersionKey(Best(n)) > VersionKey(index[n].max)
                     /\ Append(index[n].base, Best(n)) \in disk}
    IN  FoldSet(LAMBDA n, acc : SetEffectiveVersion(acc, n, Best(n)), d, bumped)

=============================================================================
