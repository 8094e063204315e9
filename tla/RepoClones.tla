----------------------------- MODULE RepoClones ------------------------------
(***************************************************************************)
(* The commands that register sources and move between their checkouts:      *)
(* `cidx import`, `add-source`, `repo add-clone`, `repo switch`, `repo rm`,   *)
(* `component set-version`, `label add`, `label rm` and `realias`             *)
(* (indexer/cli.py).  import and add-source commit several times; each commit *)
(* is a step, and the process may die between two.                            *)
(***************************************************************************)
EXTENDS Registry

CONSTANTS
    Checkouts,      \* [root, repo, srcs]: a directory, the name its repository and component
                    \* get, and its commands, a sequence of [path, inc]
    Disk,           \* the version directories on disk
    LabelMoves,     \* the labels that are added, [name, path]
    Parts,          \* the directories below a checkout that are made components of their own
    Removals,       \* the values of `repo rm --delete-components`
    GivenNames,     \* the repository names that --repo and `repo add-clone` give besides a
                    \* checkout's own
    Anywhere,       \* whether sources are imported from a checkout that is not the active one
                    \* of its repository, and other commands run after an interrupted one
    MaxCommands,    \* bound on the commands run
    MaxAstray       \* the same, in a behaviour that goes astray

ASSUME CheckoutsHavePaths ==
    \A k \in Checkouts : k.root \in Seq(ToSet(k.root)) /\ k.srcs \in Seq(ToSet(k.srcs))

VARIABLES
    db,         \* the database
    job,        \* the import or add-source that runs, or None
    begun,      \* the checkouts whose last import or add-source has not ended well
    ended,      \* how the last command that went wrong since begun was empty ended, or "well"
    commands,   \* how many commands have been run
    astray      \* whether a checkout was ever registered for a repository other than its own,
                \* or a part or a repository left half made or half removed: the code keeps
                \* no such thing

cloneVars == <<db, job, begun, ended, commands, astray>>

EmptyDatabase ==
    [repos |-> {}, clones |-> {}, comps |-> {}, files |-> {}, labels |-> [n \in {} |-> << >>]]

CloneInit ==
    /\ db = EmptyDatabase
    /\ job = None
    /\ begun = {}
    /\ ended = "well"
    /\ commands = 0
    /\ astray = FALSE

-----------------------------------------------------------------------------
(* The transaction of an import.                                              *)

\* Mutant of AddFilePath: the row is found by the path that was given.
AddFilePathByPath(d, s, inc) ==
    LET c == ComponentForPath(d, s.path)
        rel == SubSeq(s.path, Len(AbsBase(d, c)) + 1, Len(s.path))
        same == {f \in d.files : f.src = s.path}
        id == IF same = {} THEN NextId(d.files) ELSE (CHOOSE f \in same : TRUE).id
    IN  [d EXCEPT !.files = Replaced(@, [id |-> id, comp |-> c.id, rel |-> rel, inc |-> inc,
                                         src |-> s.path, want |-> s.inc])]

\* add_file_path: the row of the component that owns the path, its command replaced.
AddFilePath(d, s, inc) ==
    LET c == ComponentForPath(d, s.path)
        rel == SubSeq(s.path, Len(AbsBase(d, c)) + 1, Len(s.path))
        same == {f \in d.files : f.comp = c.id /\ f.rel = rel}
        id == IF same = {} THEN NextId(d.files) ELSE (CHOOSE f \in same : TRUE).id
    IN  [d EXCEPT !.files = Replaced(@, [id |-> id, comp |-> c.id, rel |-> rel, inc |-> inc,
                                         src |-> s.path, want |-> s.inc])]

\* One command of the database: the component is made when the first source needs it, and
\* the alias registry is read again.  A source that is still outside is skipped.
ImportCommand(acc, k, s) ==
    LET split == SplitBaseVersion(k.root)
        lazy == acc.cid = None /\ ComponentForPath(acc.db, s.path) = None
        made == AddComponent(acc.db, k.repo, split.base, split.ver)
        pairs == IF lazy THEN AliasPairs(made.db) ELSE acc.pairs
        d == IF lazy
             THEN BumpVersions(made.db, {t.inc : t \in ToSet(k.srcs)}, pairs, Disk)
             ELSE acc.db
    IN  [cid |-> IF lazy THEN made.id ELSE acc.cid,
         pairs |-> pairs,
         db |-> IF ComponentForPath(d, s.path) = None THEN d
                ELSE AddFilePath(d, s, AliasOption(Plain(s.inc), pairs))]

-----------------------------------------------------------------------------
(* Commits.                                                                   *)

NewJob(cmd, k, name, step, cid, pairs) ==
    [cmd |-> cmd, k |-> k, repo |-> name, step |-> step, cid |-> cid, rid |-> None,
     kid |-> None, pairs |-> pairs, todo |-> k.srcs, seen |-> {}]

\* A statement of the running command: an integrity error ends the command without it.
Commits(d, next) ==
    /\ db' = IF Clashes(d) THEN db ELSE d
    /\ job' = IF Clashes(d) THEN None ELSE next
    /\ ended' = IF Clashes(d) /\ ended = "well" THEN "failed" ELSE ended
    /\ UNCHANGED <<commands, astray>>

Starts ==
    /\ job = None
    /\ commands < MaxCommands /\ (astray => commands < MaxAstray)
    /\ commands' = commands + 1

\* Unless Anywhere, an interrupted command is run again before any other.
Settled(ks) == Anywhere \/ begun \subseteq ks

RepositoryNamed(name) == {r \in db.repos : r.name = name}

\* The repositories that checkout k may be registered for: nothing ties a path to a name.
NamesFor(k) == {k.repo} \union GivenNames

\* Checkout k is registered for the repository of a name.
Registers(k, name) == astray' = (astray \/ name # k.repo)

\* The checkout is the active one of its repository, or the first.
Current(k) == \A r \in RepositoryNamed(k.repo) : ActiveRoot(db, r.id) = k.root

-----------------------------------------------------------------------------
(* cidx import                                                                *)

\* The alias registry is read and versions are advanced before anything else.  `name` is that
\* of --repo, or the checkout's own.
StartImport(k, name, force) ==
    /\ Starts /\ Settled({k})
    /\ Anywhere \/ name # k.repo \/ Current(k)
    /\ LET pairs == AliasPairs(db)
       IN  /\ db' = BumpVersions(db, {s.inc : s \in ToSet(k.srcs)}, pairs, Disk)
           /\ job' = NewJob("import", k, name, IF force THEN "force" ELSE "files", None, pairs)
    /\ begun' = begun \union {k}
    /\ Registers(k, name)
    /\ UNCHANGED ended

\* --force: the component of the root goes, in a commit of its own.
ForceDelete ==
    /\ job # None /\ job.step = "force"
    /\ LET c == GetComponent(db, job.k.root)
       IN  db' = IF c = None THEN db ELSE DeleteComponent(db, c.id)
    /\ job' = [job EXCEPT !.step = "files"]
    /\ UNCHANGED <<begun, ended, commands, astray>>

ImportFiles ==
    /\ job # None /\ job.step = "files"
    /\ LET imported == FoldLeft(LAMBDA acc, s : ImportCommand(acc, job.k, s),
                                [db |-> db, cid |-> None, pairs |-> job.pairs], job.k.srcs)
       IN  Commits(imported.db, [job EXCEPT !.step = "repository"])
    /\ UNCHANGED begun

(* cidx add-source: an existing component keeps its path.                      *)

StartAddSource(k, name) ==
    /\ Starts /\ Settled({k})
    /\ Anywhere \/ name # k.repo \/ Current(k)
    /\ LET split == SplitBaseVersion(k.root)
           c == GetComponent(db, split.base)
           made == AddComponent(db, k.repo, split.base, split.ver)
       IN  /\ db' = IF c = None THEN made.db
                    ELSE UpdateComponentMeta(db, c.id, k.repo, split.ver)
           /\ job' = NewJob("add", k, name, "repository", IF c = None THEN made.id ELSE c.id, {})
    /\ begun' = begun \union {k}
    /\ Registers(k, name)
    /\ UNCHANGED ended

(* Both group what they registered under a repository.                        *)

RegisterRepository ==
    /\ job # None /\ job.step = "repository"
    /\ LET added == AddRepository(db, job.repo)
       IN  Commits(added.db, [job EXCEPT !.step = "clone", !.rid = added.id])
    /\ UNCHANGED begun

RegisterClone ==
    /\ job # None /\ job.step = "clone"
    /\ LET added == AddClone(db, job.rid, job.k.root)
       IN  Commits(added.db, [job EXCEPT !.step = "activate", !.kid = added.id])
    /\ UNCHANGED begun

Activate ==
    /\ job # None /\ job.step = "activate"
    /\ Commits(IF \E r \in With(db.repos, job.rid) : r.active = None
               THEN SetActiveClone(db, job.rid, job.kid) ELSE db,
               [job EXCEPT !.step = "group"])
    /\ UNCHANGED begun

\* The running command ends and has done all it had to.
Completes ==
    /\ begun' = begun \ {job.k}
    /\ ended' = IF begun = {job.k} THEN "well" ELSE ended
    /\ job' = None
    /\ UNCHANGED <<commands, astray>>

\* import looks up each source's component, once per component, and leaves one that is
\* grouped where it is; add-source moves its component.
Group ==
    /\ job # None /\ job.step = "group"
    /\ \/ /\ job.cmd = "import" /\ job.todo = << >>
          /\ Completes
          /\ UNCHANGED db
       \/ /\ job.cmd = "import" /\ job.todo # << >>
          /\ LET c == ComponentForPath(db, Head(job.todo).path)
                 rest == [job EXCEPT !.todo = Tail(@)]
             IN  IF c = None \/ (c # None /\ c.id \in job.seen)
                 THEN Commits(db, rest)
                 ELSE Commits(IF c.repo = None THEN SetComponentRepository(db, c.id, job.rid)
                                               ELSE db,
                              [rest EXCEPT !.seen = @ \union {c.id}, !.cid = c.id,
                                           !.step = "relative"])
          /\ UNCHANGED begun
       \/ /\ job.cmd = "add"
          /\ Commits(SetComponentRepository(db, job.cid, job.rid),
                     [job EXCEPT !.step = "relative"])
          /\ UNCHANGED begun

Relativize ==
    /\ job # None /\ job.step = "relative"
    /\ LET d == RelativizeComponent(db, job.cid, job.k.root)
       IN  \/ /\ job.cmd = "add" /\ ~Clashes(d)
              /\ db' = d
              /\ Completes
           \/ /\ job.cmd = "import" \/ Clashes(d)
              /\ Commits(d, [job EXCEPT !.step = "group"])
              /\ UNCHANGED begun

\* The process dies: what it committed stays.
Die ==
    /\ job # None
    /\ job' = None
    /\ ended' = IF ended = "well" THEN "died" ELSE ended
    /\ UNCHANGED <<db, begun, commands, astray>>

-----------------------------------------------------------------------------
(* The other commands.                                                        *)

\* A command that commits `commits` one after the other: it does all of them, or it dies or
\* fails on an integrity error after any.
Command(commits) ==
    /\ Starts /\ Settled({})
    /\ db' \in {d \in commits : ~Clashes(d)}
    /\ UNCHANGED <<job, begun, ended>>

\* It goes on to d, or what it leaves is astray.
GoesOnTo(d) == astray' = (astray \/ db' # d)

\* One that leaves nothing astray wherever it ends.
PlainCommand(commits) == Command(commits) /\ UNCHANGED astray

\* Repository.add_component: a part of the active checkout, before its files are there.
AddPart(r, part) ==
    LET root == ActiveRoot(db, r.id)
        path == root \o <<part>>
        made == AddComponent(db, part, path, None)
        grouped == SetComponentRepository(made.db, made.id, r.id)
        d == RelativizeComponent(grouped, made.id, root)
    IN  /\ root # None
        /\ GetComponent(db, path) = None
        /\ \A f \in db.files : ~IsPrefix(path, ListedAt(db, f))
        /\ Command({made.db, grouped, d})
        /\ GoesOnTo(d)

\* cidx repo add-clone: the first clone becomes the active one, in a commit of its own.
AddCloneCommand(r, k) ==
    LET added == AddClone(db, r.id, k.root)
    IN  /\ Command({added.db, IF r.active = None THEN SetActiveClone(added.db, r.id, added.id)
                                                ELSE added.db})
        /\ Registers(k, r.name)

\* cidx repo switch
Switch(r, k) == PlainCommand({SetActiveClone(db, r.id, k.id)})

\* Repository.remove_clone
RemoveClone(k) == PlainCommand({DeleteClone(db, k.id)})

\* d without the components of a set of numbers.
Emptied(d, ids) == FoldSet(LAMBDA id, e : DeleteComponent(e, id), d, ids)

\* cidx repo rm [--delete-components]
RemoveRepository(r, withComponents) ==
    LET ids == IF withComponents THEN {c.id : c \in {x \in db.comps : x.repo = r.id}} ELSE {}
        d == DeleteRepository(Emptied(db, ids), r.id)
    IN  /\ Command({Emptied(db, gone) : gone \in SUBSET ids} \union {d})
        /\ GoesOnTo(d)

\* cidx component set-version
SetVersion(c, v) == PlainCommand({SetComponentVersion(db, c.name, v)})

\* cidx label add and label rm
AddLabel(l) == PlainCommand({[db EXCEPT !.labels = [n \in DOMAIN @ \union {l.name} |->
                                                     IF n = l.name THEN l.path ELSE @[n]]]})
RemoveLabel(n) == PlainCommand({[db EXCEPT !.labels = [m \in DOMAIN @ \ {n} |-> @[m]]]})

\* cidx realias: file by file.
Realias ==
    /\ AliasPairs(db) # {}
    /\ PlainCommand({[db EXCEPT !.files = {IF f \in some
                                           THEN [f EXCEPT !.inc = AliasOption(@, AliasPairs(db))]
                                           ELSE f : f \in @}] : some \in SUBSET db.files})

CloneNext ==
    \/ \E k \in Checkouts, force \in BOOLEAN : \E name \in NamesFor(k) : StartImport(k, name, force)
    \/ \E k \in Checkouts : \E name \in NamesFor(k) : StartAddSource(k, name)
    \/ ForceDelete \/ ImportFiles \/ RegisterRepository \/ RegisterClone \/ Activate
    \/ Group \/ Relativize \/ Die
    \/ \E r \in db.repos, part \in Parts : AddPart(r, part)
    \/ \E k \in Checkouts : \E r \in {x \in db.repos : x.name \in NamesFor(k)} : AddCloneCommand(r, k)
    \/ \E r \in db.repos : \E k \in {x \in db.clones : x.repo = r.id} : Switch(r, k)
    \/ \E k \in db.clones : RemoveClone(k)
    \/ \E r \in db.repos, b \in Removals : RemoveRepository(r, b)
    \/ \E c \in {x \in db.comps : x.ver # None}, v \in ToSet(Versions) : SetVersion(c, v)
    \/ \E l \in LabelMoves : AddLabel(l)
    \/ \E n \in DOMAIN db.labels : RemoveLabel(n)
    \/ Realias

CloneSpec == CloneInit /\ [][CloneNext]_cloneVars

-----------------------------------------------------------------------------
(* Where a path given in a checkout is to be found now: at the same place of the *)
(* active clone of its repository, or under a version of its library.           *)

CheckoutOf(p) ==
    {k \in Checkouts :
        \/ IsPrefix(k.root, p)
        \/ LET split == SplitBaseVersion(k.root)
           IN  /\ split.ver # None /\ Len(p) >= Len(k.root)
               /\ IsPrefix(split.base, p) /\ IsVersion(p[Len(k.root)])}

Below(p, root) == SubSeq(p, Len(root) + 1, Len(p))

Places(p) ==
    UNION {LET split == SplitBaseVersion(k.root)
           IN  IF split.ver # None
               THEN {Append(split.base, v) \o Below(p, k.root) : v \in ToSet(Versions)}
               ELSE {ActiveRoot(db, r.id) \o Below(p, k.root) :
                     r \in {x \in RepositoryNamed(k.repo) : ActiveRoot(db, x.id) # None}} :
           k \in CheckoutOf(p)}

\* The repository is there, and one of its checkouts is live.
Located(p) == \A k \in CheckoutOf(p) :
    \E r \in RepositoryNamed(k.repo) : ActiveRoot(db, r.id) # None

\* Nothing is half done, and every checkout was registered for its own repository only.
Regular == begun = {} /\ ~astray

\* When every import has ended well, a file reads as the file of the same name in the active
\* checkout of its repository: `repo switch` moves one pointer and no file is lost, counted
\* twice or read from a directory it never was in (storage.py, schema comment on clone).
FilesFollowTheSwitch ==
    Regular =>
        \A f \in db.files : Located(f.src) => ListedAt(db, f) \in Places(f.src)

\* No two file rows are read as one file.
OneRowPerFile ==
    Regular =>
        \A f \in db.files, g \in db.files :
            f.id # g.id /\ Located(f.src) => ListedAt(db, f) # ListedAt(db, g)

\* An include path stored as a token decodes to where the path points now, whatever was
\* imported, moved or renumbered since it was stored (alias_options and resolve_options are
\* a pair).
IncludesNameTheirOwn ==
    Regular =>
        \A f \in db.files :
            f.inc.name # None /\ CheckoutOf(f.want) # {} /\ Located(f.want) =>
                ResolveOption(db, f.inc) \in Places(f.want)

\* A repository's pointer names a clone that is not there, or another repository's.
Estranged(d, r) == r.active # None /\ \A k \in d.clones : k.id = r.active => k.repo # r.id

\* The active clone of a repository is a clone of that repository: each checkout "is a `clone`
\* row and `active_clone_id` names the live one" (storage.py, schema comment).
ActiveCloneIsOwn == \A r \in db.repos : ~Estranged(db, r)

\* From d to e, the clone that r points to goes to another repository, path and number kept.
MovedAway(d, e, r) ==
    \E k \in d.clones, l \in e.clones :
        /\ k.id = r.active /\ k.repo = r.id
        /\ l.id = k.id /\ l.path = k.path /\ l.repo # r.id

\* r was estranged in d already, from the same clone.
WasEstranged(d, r) == \E q \in d.repos : q.id = r.id /\ q.active = r.active /\ Estranged(d, q)

\* From d to e, no repository is newly estranged but by such a move.
OnlyByMove(d, e) == \A r \in e.repos : Estranged(e, r) => WasEstranged(d, r) \/ MovedAway(d, e, r)

\* Of all these commands only a registration of the active clone's path for another repository
\* (the upsert of Storage.add_clone) parts a repository from its clone.  Removals and their
\* cascades, numbers that are given again, imports that die between two commits and switches
\* leave no pointer to what is not the repository's own, though no foreign key guards it.
OnlyMovesEstrange == [][OnlyByMove(db, db')]_cloneVars

\* An import that starts when every other has ended well ends without an error: two checkouts
\* of a repository map to one repository (storage.py, schema comment; cli.py, cmd_import).
ImportsEnd == ended = "failed" => astray

=============================================================================
