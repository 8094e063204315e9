# Specifications of the C++ indexer (`project/indexer`, `cidx-cpp`)

This directory holds TLA+ specifications of the code indexer of this
repository, the TLC configurations that check them on small instances, and
theorems about them that TLAPS checks for every instance.  The reference is the
Python program under `src/project/indexer`; `cidx-cpp` is a port of it, function
by function.

## 1. Inventory

### The parts and how they interact

```
compile_commands.json --import--> [SQLite index] <--cidx index-- libclang (+ shared PCH)
                                     |   ^                          |
                        cidx resolve +---+                  cidx ast: [.ast/.json cache]
                                     v
             query.py / model.py / entity_graph.py, cidx-graph, cxq, cidx-souffle (readers)
```

The parts do not call each other at run time except through files: every
command is a process of its own, and two commands may run at once.  What they
share is the SQLite database (`storage.py`, `PRAGMA foreign_keys=ON`, commits as
drawn by `_commit` and `transaction()`), the AST cache directory and the PCH
directory.  Nothing locks a file or a row beyond one SQLite transaction.

| Part | State | Operations | What is hard about it | What makes it correct |
|---|---|---|---|---|
| Indexer commands (`cli.py`, `clang/ast.py`, `clang/util.py`, `utils/files.py`) | none kept; the list of rows, the AST and the header worklists in memory | import; index (whole, or FILE...); set; delete | a unit is written in about ten commits; files change under it; it dies; another process does the same | what is skipped as "already indexed" is recorded; pending work gets done; a body holds its own calls only |
| Index database (`storage.py`) | tables file, symbol, edge, definition, def_edge, and those below | upserts, stubs, per-file removal, cascading deletes | declarations, definitions, stubs and deletions in any order on one row | a definition site defines; re-indexing one backend leaves the others alone |
| Resolve pass (`storage.py:3366-3607`, `entity_rollup.py`) | multi_def, possible_call, dispatch_calls, entity tables, meta stamp | five commits in a row | index runs and deletions in between, passes cut short | derived rows follow from stored ones; none outlives what it is about |
| AST cache (`astcache.py`) | one pair of files per key | load_or_parse, build, clear, status | two files, three operating-system objects, no lock, failures at each write | a call never returns an AST of a version that was gone before it began; the cache warms up |
| Repositories, clones, components, labels (`storage.py`, `cli.py`, `utils/repo.py`, `pathx.py`) | tables repository, clone (with the active pointer), component, directory, label | add, switch, relativize, delete | pointers between rows that several commands rewrite | one active clone; a relative path always has a root |
| Schema migrations (`storage.py:1240-1640`) | schema version, rebuilt tables | run at every open | DDL in autocommit; a crash between DROP and RENAME | an open after a crash completes what was begun |
| Shared PCH (`pch.py`, `clang/util.py`) | PCH, sidecar, umbrella header | build, consume, clear, retry without it | a stale or half-replaced PCH | a parse never silently uses a PCH built for other flags |
| Compile database and paths (`compiledb.py`, `pathx.py`, `relink.py`) | none (pure) | read, strip, classify, alias | aliases that are prefixes of each other, versions in paths | expanding an alias gives the path back; the newest version wins |
| Readers (`query.py`, `model.py`) | none; the generators' stacks | bounded searches, call-graph walks, pruning of virtual calls | cycles, two cuts at once, generators that are half consumed | a walk returns what its definition says, once; pruning is sound |
| Entity level (`entity_rollup.py`, `entity_graph.py`) | entity_node, entity_edge; a graph's cache of types | the ten-phase roll-up; class-level questions | lookups read before the transaction; deletions and re-indexes around it; answers in several statements | the tables are those of one whole pass; an answer is the closure of what was stored |
| cxq (`cxq/`), cidx-graph | none | parse, evaluate, rank, paths | hand-written descent, four kinds of closure | what is written is what is answered |
| C++ port (`cidx-cpp/src`) | as above | as above; plus a thread pool (`pch.cpp:309-340`), a subprocess runner (`subprocess.cpp`), an AST-graph exporter | threads, pipes, deadlines, rename into place | every unit is counted once; the survey ends whatever a compiler does |

`PROJECT.json` lists every part with its sources and how far it is modelled, and
under `hazards` each line where something can go wrong that a test would hardly
reach, with the property that would notice.

## 2. Modules

| Module | Role |
|---|---|
| `IndexRun` | `cidx import`, `cidx index [FILE...]`, `cidx set`, the delete commands; the tables file, symbol, edge (calls), definition, def_edge; the files on disk |
| `MCIndexRun` | its instance: two units that define the same function, a header with an inline body |
| `IndexRunProofs` | theorems about it |
| `Resolve` | EXTENDS `IndexRun` and superposes `resolve_pass`: symbol.multi_def, possible_call, dispatch_calls, and the overrides edges they need |
| `MCResolve`, `ResolveProofs` | its instance: a method overridden twice, one definition of it in each unit; its theorems |
| `AstCache` | one entry of the AST cache, file operation by file operation |
| `FreshRead` | the abstract specification of a cached read, which `AstCache` refines |
| `MCAstCache`, `AstCacheProofs` | its instance: three versions of one file, two processes, two libclangs; its theorems |
| `Extraction` | what `index_source` writes for a unit, from its cursors on: symbols, stubs, every kind of edge, sites, template and call arguments; with deaths between the commits, resets and recounts |
| `MCExtraction` | its instance: three units, two headers, with templates and their instances, friends, overrides, overloads, locals, namespaces |
| `SymbolGraph` | operators: what one query of `query.py` reads from the graph; virtual calls and their targets |
| `GraphWalk`, `GraphWalkProofs` | `GraphQuery.walk` and `reaches`, row by row; their theorems |
| `CallGraph`, `CallGraphProofs` | the generators of `model.py`: `callgraph` and `devirtualized_callgraph`; their theorems |
| `Devirt` | EXTENDS `CallGraph`: the type-propagating engine behind `prune=True`, and the programs it is about |
| `CxqParser`, `Cxq`, `MCCxq` | the query language from tokens to rows, over `SymbolGraph` and `CallGraph`; names, graphs and queries |
| `MCReaders` | hosts `Extraction`, `GraphWalk`, `CallGraph`, `Devirt` and `Cxq`, one per behaviour |
| `EntityRollup` | the last commit of `resolve`: entity_node and entity_edge from symbols and edges, beside re-indexing and deletion |
| `EntityGraph`, `MCEntities` | EXTENDS it with the reader of those tables; the instance of both |
| `EntityProofs` | theorems about both |
| `Registry` | operators: repositories, clones, components, labels; path to stored form and back; versions and aliases |
| `RepoClones`, `MCRegistry` | the commands over `Registry`, commit by commit; the instance |
| `Migration` | every statement of an upgrade, its transaction, and deaths in between |
| `CompileDb` | from a compile command to the options stored and given to libclang; the filters of the PCH |
| `PchCache` | EXTENDS `CompileDb`: building, clearing and consuming the shared PCH |
| `PchSurvey` | the C++ port's threads that run a compiler on each unit and count its headers, down to pipes, deadline and wait |
| `MCUpkeep` | hosts `RepoClones`, `Migration`, `PchCache`, `PchSurvey`, `AstCache` with one process, and one command of `CompileDb`, one per behaviour (`part`) |
| `UpkeepProofs` | theorems about `RepoClones`, `PchCache`, `CompileDb` and `Migration` |
| `DataInduction` | lemmas that the proof modules share: least numbers, induction on finite sets, functions given by recursion, least closed sets |

A host module (`MCReaders`, `MCUpkeep`) has components that share no state of the
program: each behaviour starts one of them and lets the others rest, so that one
run checks them all without multiplying their states.

### IndexRun and the code

One step is one COMMIT, or one read that a later step relies on.

* `disk[f]` is the version of file f; a version stands for its md5, its symbols
  (`Declares`, `Defines`), the callees of each body (`Calls`), the other symbols
  it names (`Mentions`: bases, overridden methods) and its headers (`Includes`).
* `row`, `sym`, `edge`, `def`, `defEdge` are the tables, with the columns that
  the control depends on.  `row[f].known` is the existence of the row.
* `proc[p]` is a running `cidx index`: `pc`, the rows it listed (`todo`, read once
  by `_index_pending`; `_index_files` looks each FILE up when its turn comes), the
  file it is at (`cur`), the AST in memory (`ast`, the version of each file at the
  time of the parse), and `index_headers`' two worklists (`inc`, `pend`).
* The steps of one unit, in the order of `_index_one`: `Parse` (or `ParseFails`),
  `StoreMain`; per header `SkipHeader`, or `RegisterHeader` and `StoreHeader`
  (pass 1), then per stored header `StoreHeaderEdges` and `MarkHeader` (pass 2);
  `WipeEdges`, `WipeBodies`, `StoreEdges` (the three commits of `index_edges`),
  `MarkMain`.  `--no-graph` leaves the last three out of `index_edges`.
  `Abort` and `AbortHeader` are the foreign-key errors that end a run whose file
  was deleted under it.
* `StoreBodies` is `_index_edges_notxn` followed by
  `copy_body_edges_to_def_edge`: a stub per callee (`Mint`), the calls, the
  definition row, and the copy of *whatever `edge` holds for the symbol then*
  into def_edge -- the model copies the table and not the AST, as the code does.
  Two things that depend on the order of the cursors are nondeterministic: which
  declaration a stub's site is taken from (`CalleeSites`) and whether a symbol
  that only just got its row is already visible to the body pass (`BodySets`).
* `Edit`, `Import`, `SetIndexed`, `Drop` and `Crash` happen around the runs.

### Resolve and the code

Each commit of `resolve_pass` is a step: `ResolveBegin` (with the recount of
edges, which changes no row), `SetMultiDef`, `MaterializePossibleCalls`,
`MaterializeDispatchCalls`; `ResolveDies` ends it anywhere.  `MultiDef` is read
back from the table by the fan-out, as in the code, not recomputed.  Every step
of `IndexRun` that deletes rows is repeated with what SQLite's cascades do to the
derived rows (`IndexHeader`, `IndexEdgesGo`, `IndexBodiesGo`, `IndexEdges`,
`Delete`); all others leave them alone (`IndexRest`).  `Overriding` is the
recursive CTE.  `pass.quiet` is a history variable: were the tables that the pass
reads left alone since it began?

### AstCache and the code

`src` is the source file, `ast` and `side` the two files of an entry.  The steps
of `load_or_parse` are `ReadSidecar`, `Validate` (the stat), `Load`, `Parse`,
`Save`, `Restat` (the second stat, after the save), `OpenSidecar` (truncates),
`WriteSidecar`; `SaveFails`, `SidecarFails` and `Cleanup` are the error path,
`BeginBuild` and `BeginClear` the two cache commands.  `Partial` is a file that
was not written to its end.  `proc[p].seen` is a history variable used by the
refinement alone.

### Extraction and the code

`db` is the tables, `done` the files marked indexed.  A file is the sequence of its
cursors (`Cursors[f]`), a cursor a record of what libclang says of it, a body the
sequence of its calls, references, locals, news and deletes; `Decl[u]` is what
does not depend on the place: kind, owner, template, arguments.  Types are USRs,
names are sets of the USRs that bear them.

* `Symbols` is `_index_file_notxn` (`Store` is `add_symbol`'s upsert);
  `Edges` is `_index_edges_notxn` with its three loops `Declared`, `Bodies`,
  `SpacesUsed`.  `Declaration` takes one cursor through what it adds
  (`Containment`, `Mentions`, `StaticMember`, `Structure`), `BodyNode` one node of a
  body (`_body_descent`).
* The difference the module is about is between `Link`, which writes no edge unless
  both ends have a row, and `Mint`, which makes a stub: what is written depends on
  what other files have left in the index.
* `Commits(t)` is the order of `index_source`: the unit's symbols, the symbols of its
  pending headers, their edges, and the unit's edges last.  `Index(t, n)` does the
  first n of them: all, or those before the process dies.  `Reset` makes a file
  pending again, `Rollup` is `rollup_edge_counts`.
* `Written` and `Everything` are the reference: what each file writes when all it can
  see is there, and what all files write when everything is.

### The readers and the code

`SymbolGraph` has one operator per one-hop query.  An answer that depends on the
order of rows (by count, then rowid) is nondeterministic in that order.

* `GraphWalk`: `Stop`, `Open`, `NextLevel`, `Row`, `Close` are the loops of `walk` and of
  `reaches`, which share the scheme; `bfs.left` counts the rows that the LIMIT of the
  node's statement lets through.
* `CallGraph`: `tour.stack` is the stack of iterators; `Skip`, `Yield`, `Pop` are the
  turns of the loop.  `Kids`, `Burst` and `Upcoming` say what an iterator produces: the
  direct callees, with the targets of a virtual one, or the dispatch edges after.
* `Devirt`: `program` is the program that was indexed, `GraphOf` and `Source` what the
  extractor stores of it (`Compiles`: the compiler accepts it), `Entered` what its runs can enter.  `Bind` and `Return` are
  `_GammaEngine.analyse`'s recursion, `Ready` the decisions (`Decide`), after which
  the walk of `CallGraph` runs in mode "prune".
* `CxqParser`: an operator for each method of `_Parser`; a result is a tree with the
  position after it, or the exception.  `TextOf` writes a tree with as few
  parentheses as the grammar allows.  `Cxq` has two steps, `ParseText` and `Execute`
  (`ExecuteMatch`, `ExecuteRank`, `ExecutePath`); `Means` is the reference.

### EntityRollup, EntityGraph and the code

`base` is layer 0 (the symbols and edges the pass reads), `entity` the two tables,
`pass` a running pass.  `Precompute` is `_RollupState(...)`, read in no transaction;
`Begin` the first DELETE, which takes the write lock; `Phase` one of the ten phases in
their order; `Commit` and `Fail` end it.  `Reindex` and `Delete` are other processes,
kept out while `Locked`.  `Delete` has SQLite's cascades, and fails on `Clash`.

`EntityGraph` is the reader: `eg.types` is its cache of types, `Ask`, `NextSeed`,
`Statement` and `EndOfWalk` the loop of a query, one step per SQL statement.

### Registry, RepoClones and the code

`db` holds the tables; `job` is the import or add-source that runs, with the commit
it is at: `StartImport`, `ForceDelete`, `ImportFiles`, `RegisterRepository`, `RegisterClone`,
`Activate`, `Group`, `Relativize`.  `Die` ends it anywhere; an integrity error
(`Clashes`) ends it with `ended = "failed"`.  The other commands are `Command(commits)`: they do
all of their commits, or end after any of them.
Nothing in the code ties a path to a name: `--repo` and `repo add-clone` take any name for
any directory, and so do `StartImport`, `StartAddSource` and `AddCloneCommand` (`NamesFor`: the name
a checkout has by itself, and those of `GivenNames`).  `AddClone` is the upsert on the path: it
moves a clone from one repository to another and leaves the first one's pointer.
A path is the sequence of its segments, an include path a portable token
and the rest.  `src` and `want` of a file row are history: the path that was
given, and so is `astray`: whether a checkout was ever registered under another name, or a part or a
repository left half made or half removed.

### Migration and the code

`disk` is what is on disk, `conn` the connection that opens it, with its view of an
open transaction and the sets that `_migrate` read at its beginning (`seen`,
`tables`) and tests later.  `Script` lists the statements; `Progress` does the next
one.  Python opens a transaction at the first UPDATE or DELETE and not at an
ALTER, so some steps are safe from a death by accident and others are not.

### CompileDb, PchCache and the code

`CompileDb` is operators over tokens: `StripForLibclang`, `Sanitize`, `IsCpp`,
`PchRelevant`, `IncludeDirs`; `Reading` is the reference, what a compiler makes of the
same options.  `PchCache` has the steps of `build_pch` (parse, save the PCH, open the
sidecar, write it), of `pch clear` (one file after the other) and of a parse
(`Look`, `Match`, `ParseWith`, `ParseWithout`), beside an upgrade of libclang.

### PchSurvey and the code

`thread[t].pc` is where a worker of `survey_headers` is: `take` (the `fetch_add`), then
inside `run` `spawn`, `close` (its copies of the write ends), `poll`, `wait` (waitpid), and
`merge` under the mutex.  `child[i].ends` are the units whose pipes the compiler of unit i can
write to: its own, and those that other threads had open when it was spawned, for
nothing sets O_CLOEXEC.  A pipe is at its end when it is in nobody's `ends`
(`ReadToTheEnd`); `TimesOut` kills the own compiler only.

## 3. Runs

| Run | Configuration | Asks | Result |
|---|---|---|---|
| `bodies` | one process; edits between runs; FILE arguments; with and without the graph; b1's second version does not parse; any one file deleted at any commit | `TypeOK`, `NoForeignCalls`, `DefinitionSiteDefines`, `OtherBodiesStay` | hold, 1.06M states |
| `live` | one process, `FairSpec`, one crash, rows reset to pending, FILE arguments | `AlreadyIndexedIsRecorded`, `PendingUnitGetsIndexed` | hold, 405k states |
| `resolve` | as above with one resolver; a1 edited and deleted | `DerivedTypeOK`, `PossibleCallsAreBodyCalls`, `ResolvedIsExact` | hold |
| `ast_fresh` | two processes, two libclangs, two failures or crashes, clears | `ValidEntryIsFresh`, `FreshReads` | hold |
| `readers`: Extraction | three units in every order, two deaths or resets, recounts | `GraphIsOfTheFiles`, `CountsArePlaces` | hold, 218k states with the rows below |
| `readers`: GraphWalk | every graph of ten call edges over four symbols, and with two kinds of edges; max_nodes 1, 3, 5 | `DepthIsDistance`, `PathIsReal`, `NothingMissed`, `ReachesIsExact` | hold |
| `readers`: CallGraph | every subset of seven calls with an override chain; three modes; depth 2 and none | `FollowsTheCalls`, `SurfacesAllReachable`, `TourEnds` | hold |
| `readers`: Devirt | programs of a root, two functions and four classes, with each kind of argument | `PrunesOnlyTheUnreachable`, `PrunesTheUnreachable` | hold |
| `readers`: Cxq | the queries of `MCCxq` over three graphs, in full, with a limit that bites, and with any one token missing | `ParsedAsWritten`, `AnswersAreExact` | hold |
| `entities` | four layer-0 databases that become each other; two deletions; six questions | `TablesAreOnePass`, `EdgesFitNodes`, `AnswerIsClosure`, `TypesMatchEitherWay`, `NoImplementorMissed` | hold |
| `upkeep`: RepoClones | two checkouts of one repository and a versioned library, each also registered as `lib`; five commands, deaths | `FilesFollowTheSwitch`, `OneRowPerFile`, `IncludesNameTheirOwn`, `ImportsEnd`, `OnlyMovesEstrange` | hold, 355k states with the rows below |
| `upkeep`: AstCache | one process, two failures, edits also during a save | `CacheWarmsUp` | holds |
| `upkeep`: Migration | every version from 2 to 28, two deaths at the steps of `MCDying` | `UpgradeIsComplete`, `UpgradeEnds` | hold |
| `upkeep`: PchCache | one parser, four builds, clears or upgrades, five units | `NeverBroken` | holds |
| `upkeep`: PchSurvey | three threads; three units of which compilers end, hang or are not found, and one unit alone | `SurveyCountsEach` | holds |
| `upkeep`: CompileDb | every command of three options, with launchers and environment | `LibclangReadsTheBuild` | holds |
| `undo` | an edit is indexed, then reverted | `AlreadyIndexedIsRecorded` | violated |
| `devirt_sound` | all programs of `readers`, supported or not | `EnteredIsVisited` | violated |
| `entities_delete` | two methods of one class deleted with their file | `DeletesSucceed` | violated |
| `registry_worktree` | a checkout that is not the active one is imported | `ImportsEnd` | violated |
| `clone_moved` | a checkout is registered for a second repository | `ActiveCloneIsOwn` | violated |

What the properties mean in the program:

* `GraphIsOfTheFiles`: whatever the order of the units, the deaths and the resets, the
  edges of an indexed file's own symbols are in the table, and every edge there is
  written by some file.  It holds because of the two passes over the headers:
  with one (the mutant), names that a later header brings are missed.
* `CountsArePlaces`: `add_edge` adds up on conflict; after `rollup_edge_counts` no count
  exceeds the number of places in the text.
* `DepthIsDistance` ... `ReachesIsExact`: the cuts by `max_nodes` and by the LIMIT of a
  statement are the only reasons to miss a symbol, and what is reported is a
  shortest path even where they cut.
* `FollowsTheCalls`: a consumer can rebuild the tree from the stream of depths.
* `PrunesOnlyTheUnreachable` is soundness of pruning for the programs of `Supported`,
  each of whose conjuncts names a case where it is lost; `PrunesTheUnreachable` says
  that it is worth it.
* `AnswersAreExact`: a match is the set of assignments that satisfy the condition
  where calls and bases are transitively closed, unless a limit cuts; a rank has
  their true scores; a path is shortest.
* `TablesAreOnePass`: uses, inheritances and nodes are those of one layer 0, from the
  commit on, through later passes that fail and re-indexes, until a deletion takes rows out
  (and unless a re-index came between the lookups and the phases: `made` is None then).  `EdgesFitNodes` also holds when layer
  0 changed between the lookups and the phases.  `TypesMatchEitherWay`: the stored kind
  of a record or an enum and the derived one are the same, so a reader never
  contradicts itself.
* `FilesFollowTheSwitch`: after any imports, moves, version changes and deletions, a
  file reads as the file of that name in the active checkout.  It, `OneRowPerFile`,
  `IncludesNameTheirOwn` and `ImportsEnd` speak of behaviours in which nothing goes `astray`: with a
  checkout under two names each of them is false: its components stay with the first
  repository while its clone goes to the second, and a name no longer says which checkout
  is meant.
* `OnlyMovesEstrange`: what is left when `ActiveCloneIsOwn` is false.  A pointer to a clone that is
  gone or another's comes about only by the move of that very clone; removals, numbers that
  are given again, deaths and switches never leave one.  No foreign key guards the column.
* `UpgradeIsComplete`: an opened database is the one this build writes; `UpgradeEnds`: no
  death makes it unopenable.
* `NeverBroken`: a unit fails with a PCH only if it fails without.
* `SurveyCountsEach`: the survey ends although a run may wait for a sibling's compiler, and
  then the frequencies are those of the units that were not given up, each counted
  once; none is given up when no compiler hangs.  It does not say that only a unit
  whose own compiler hangs is given up: that is false.

What the violated ones show, each quoted against the documentation in
`PROJECT.json` under `findings`:

* `undo` -- `mark_file_indexed` sets the flag and keeps the md5 that the *import*
  stored.  Edit, index, revert the edit: flag set, md5 equal, "already indexed",
  and the tables describe the version that is gone.
* `devirt_sound` -- `_seed_locals` takes the static type of a reference for the type of
  the object, so the override that really runs is pruned.
* `entities_delete` -- ON DELETE SET NULL of `via_member_id` makes two rows equal to the
  unique index; the deletion of the file fails.
* `registry_worktree` -- the component of a second checkout gets the path '.' that the
  first one has; UNIQUE(repository_id, path) ends the import after its files
  were committed.
* `clone_moved` -- `add_clone` is an upsert on the path: `repo add-clone lib PATH`, or
  `import --repo lib`, takes the clone of another repository, which goes on naming it
  as its active one and reads its components below it.

### Other disagreements met

These have no run of their own; each shows in a model here when a condition of a run
is lifted (named in brackets), or by reading.

* A header edited during a run: `index_headers` hashes it after the unit was
  parsed, and stores the new md5 with the old symbols [`QuietEdits`].
* Only a header is edited: `_index_pending` leaves it to the units that include it,
  and skips those, which did not change.
* Two index processes: the three commits of `index_edges` let another backend's calls
  be copied as calls of this body [`Procs`].
* The AST cache: an edit during a save is stat'ed as if it had been parsed
  [`EditsDuringSave`]; the error path of `_try_save` removes one file of two.
* Pruning: `K_LIMIT` returns without binding; only the first site of an edge and the first
  argument that matches count; bodies of overrides are never visited
  [`Supported`].  The default of `devirtualized_callgraph` is documented as identical to
  `callgraph` but has no dispatch edges; depth in a depth-first walk is no distance;
  `walk` with max_nodes=1 may return two symbols.
* Roll-up: the access of an inheritance that joins others is the last one's; a reference to
  a unique_ptr `composes`; a namespace has a type only after the first pass.
* Registry: `repo rm` without --delete-components leaves components with the path '.'
  and no root (storage.py:84) [`Removals`]; the files of a checkout registered under two names are
  read below another one's directory, two rows as one file, or its import fails on
  UNIQUE(repository_id, path) [`astray`].
* Migration: of the deaths before one step, these are not made good by the next opening
  [`Dying`, `Fragile`]: fill_qual_name, decl_line, decl_col and what follows up to kind_new when the
  upgrade starts below version 4 (a fill is lost); kind_copy, kind_drop, comp_copy, comp_drop
  (every later opening fails); kind_rename, comp_rename (all rows are lost); end_col,
  recv_type_usr, recv_decl_usr (a column is missing and the version is stamped);
  entity_nodes (never filled).
* PchSurvey: a unit whose compiler has ended is dropped as timed out when a sibling's compiler
  that inherited its pipes hangs; the final waitpid has no deadline, so a child that closes
  its output and goes on is waited for without end, where `subprocess.hpp` (lines 7-8) says
  that a child is killed on expiry.
* PCH: a new PCH beside the old sidecar is accepted until the build has ended;
  `pch_relevant` keeps the directory after a separate `-I` and tears a separate `-D` from
  its value.
* Extraction: the `uses` of a namespace are wiped when another file reopens the
  namespace (storage.py:3278); a local `X<B> v;` looks its type up before the instance is
  minted; a recovered call goes by name while its own USR has no row; an explicit
  specialization in a unit wipes the header's `instantiates`; removing an
  out-of-line definition takes `method_of` and `overrides` along until the header is
  indexed again; the template arguments of a function are those of its last local.
* cxq: `ancestors` and `inherits` recurse without a visited set, so a cycle of bases
  ends in RecursionError; `calls+` leaves the root out even on a cycle, `callers+`
  does not; `via inherits` steps over all subclasses at once; `f.is_virtual = true` never
  holds, since str(True) is "True"; `count(v)` is 1 in each row; the kinds with
  a hyphen cannot be written; a query cut short is an IndexError, no ParseError; a list
  takes any token for a string; a trailing comma after the bindings is accepted; the
  variable in a metric is ignored; `interface` is filtered after the limit.

### The bounds and why they suffice

* `Procs`: one indexing process where the code is correct only so, two for the cache.
* IndexRun: two units, one header, three or four symbols: two units are needed for a
  function with two bodies, the header for a body that both units can write and
  for a file whose owner is not its unit.  The instance lets each body change
  what it calls, lets a header lose a body, a unit gain one that its sibling
  calls, and a unit fail to parse.
* `EditRel` bounds the edits: `Forward` lets each file change once (a content
  never comes back), `Undo` lets it come back.  In `MCResolve` only a1 is in its
  first version, so that only a1 is edited.
* `QuietEdits`: edits and `cidx set` wait until no run is active, in the runs whose
  property is false otherwise.  Deletions and imports never wait.
* `MaxCrashes`, `MaxFailures`: one crash reaches every point between two commits
  of a run, and the process that restarts is the same one; two failures are
  needed for an entry that is damaged while it is being repaired.
* `Droppable`, `FileArgs`, `SetValues`, `GraphModes`: which commands the runs use.
  `AlreadyIndexedIsRecorded` is checked without deletions and without
  `--no-graph`: the code promises nothing then (both are listed as hazards).
* `EditsDuringSave`: FALSE in `ast_fresh`, since the code is not fresh then.
* Extraction: three units, of which two include a header that includes another, and
  one only that other, are the least for every order of first inclusion;
  `MaxCount` 3 is above every number of places; `MaxSetbacks` 2 lets a run die and be
  disturbed again.  Files do not change: edits are `IndexRun`'s.
* GraphWalk: four symbols give cycles, diamonds and a node three away; `RowLimit` 5
  lies between the rows of a node with one kind of edge and with two.
* CallGraph, Devirt: an override chain of three, `KLimit` as in the code (3), at
  most one object per call and one virtual method; the smallest programs with a
  recursion, a fan-in and a wrong static type.
* cxq: ten result rows or so, limits 2 and 20; a text with one token missing reaches
  each error of each parse function.
* Entities: four databases differ in one member, one field or one relation each, so
  that each pair is one edit apart; `MaxMoves` 1 puts one commit between any two
  statements of a question.
* RepoClones: five commands bring two checkouts and a library in, switch, and change a
  version or remove; `Removals` {TRUE} and `Anywhere` FALSE exclude what is listed
  above.  `GivenNames` is {"lib"}, a name that is also a checkout's own.  A behaviour that is
  `astray` ends with its third command (`MaxAstray`): import, move, and one that meets what the move
  left; with four the properties hold as well (327k states of the registry alone).
* Migration: `MaxDeaths` 2 lets a second death meet what the first one left.
* PchCache: `MaxWork` 4 is a build, an upgrade, a rebuild and a clear around one parse.
* PchSurvey: `Jobs` 3 lets a compiler inherit two foreign pipes, and two hold each other's;
  a corpus of one unit leaves two threads unused.

Deadlock checking is on, except in `Readers.cfg`, `Devirt_sound.cfg`, `Upkeep.cfg`,
`Registry_worktree.cfg` and `Registry_moved.cfg`, whose behaviours end when the answer is
there or the commands are used up.

### Fairness

* `IndexRun`: weak fairness of `Scan(p)` and `Write(p)` -- a process that runs goes
  on, unless it dies.  Strong fairness of `BeginPending(p, _)`: somebody calls
  `cidx index` again and again.  The program has no daemon, so nothing can be
  claimed otherwise; it must be strong because runs on single files may be
  called in between, for ever, and disable it each time.
* `AstCache` in `MCUpkeep`: weak fairness of `Work(p)` only; nobody has to call.  `CacheWarmsUp` is
  about one process: two that keep hitting each other's truncated sidecar may
  parse for ever, which the code does not exclude.
* `MCReaders`: weak fairness of `Walking`: the consumer of a generator keeps asking
  (`TourEnds`).
* `MCUpkeep`: weak fairness of `Progress`: somebody opens the database again after a death,
  and an opening that does not die goes on (`UpgradeEnds`).  Of `SurveyNext`: threads are scheduled,
  a compiler that does not hang ends, and the deadline of one that does passes
  (`SurveyCountsEach`); every step leaves less to do, so fairness of all together is that of each.

## 4. Proofs

`IndexRunProofs` proves, for any sets of files, symbols, versions and processes,
from `ConstantTypes`, `NoneIsNoValue` and `OneDefinitionPerTU`:

* `TypeCorrect`: `Spec => []TypeOK`.  `TypeOK` is not inductive: that the version a
  process stores for a header is one of `Contents` follows from what its worklists
  hold.  `LocalsOK` says that: the current unit and the headers of `inc`, `pend` and
  `hdr` are in the AST, and are included by the unit.  `TypeInv` is the two.
* `DefinitionSites`: `Spec => []DefinitionSiteDefines`, for any number of processes,
  from `DefInv`: `TypeInv`, and a row marked as a definition is a stored row whose
  file defines the symbol.  The case that matters is `AddSymbol`'s upsert.
* `CallsAreTheBodysOwn`: `Spec => []NoForeignCalls`, if there is one process.  The
  copy into def_edge is right only if, at that moment, `edge` holds no call of the
  symbol that another body wrote.  `WriteInv` says why: each file still to be
  written owns the symbols it defines, or they have no edges (`OwnedOrBare`); after
  the wipe they have none (`EdgesWiped`), nor has the file a body left
  (`BodiesWiped`).  `OneDefinitionPerTU`, C++'s own rule, is what stops a unit and its
  headers from taking symbols from each other between the passes.  That there
  is one process is used where it must be, in the steps of other processes: with two it is false.
* `OtherBodiesAreKept`: `Spec => OtherBodiesStay`, an action property, for any number
  of processes, if no unit is a header of another.  It needs `TypeInv` only to know
  that a step changes its own process's state: each removal is keyed by the file.
* `AlreadyIndexedIsTrue`: `Spec => []AlreadyIndexedIsRecorded`, wherever runs die, under
  `DisciplinedUse` and `ContentsAge`.  The invariant `RecordInv` adds to `WriteInv` that no
  row's md5 is newer than the file (`RowsOK`), that a full run's list is no older than
  the units it names (`ListOK`), and what each program counter has already stored of the
  unit and of each header (`RunOK`).  No condition can go; TLC shows a file that
  passes for indexed without its rows after this many steps when one is lifted:

  | Lifted | What happens | Steps |
  |---|---|---|
  | one process | another's wipe of a header's bodies comes before `MarkHeader` | 14 |
  | `QuietEdits` | a header is edited between the parse and its registration | 10 |
  | no `--no-graph` | the unit is marked without bodies | 10 |
  | no `set indexed=true` | the flag is simply set | 3 |
  | nothing deleted | the symbols of an indexed header go with another file | 10 |
  | no file both unit and header | it is marked as the one before it is written as the other | 17 |
  | `ContentsAge` | an edit is indexed and then undone (run `undo`) | 18 |

`AstCacheProofs`, under two conditions the code needs and does not establish: no edit
between a parse and the sidecar it leads to (`EditsDuringSave`), and modification times that never come back:

* `ValidEntriesAreFresh`: `TypeOK` and `ValidEntryIsFresh` always hold, for any number of
  processes, libclangs, versions and failures.  The invariant `CacheInv` speaks of
  what is not yet visible in the files: a loadable .ast is of the current version
  as soon as a sidecar with the current time exists (`SideOK`) or is about to be
  written (`WriterOK`), and while a process that has read such a sidecar
  has not yet loaded (`ReaderOK`) -- whoever else saves, clears or dies meanwhile.
* `CacheImplementsFreshRead`: the refinement.  Lookups, saves and clears map to
  stutters; a call that ends maps to `FreshRead!Return` with a version of `seen`.

`ResolveProofs`:

* `ResolverLeavesIndexAlone`: `ResolveSpec => Spec`.  A behaviour beside a resolver is
  a behaviour of `IndexRun`, so what is proved and checked of it holds beside a
  resolver; `CallsStayTheBodysOwn` is the first such consequence.
* `PossibleCallsStayTrue`: `ResolveSpec => []PossibleCallsAreBodyCalls`, inductive as it
  stands, one lemma per step that deletes.  It rests on both foreign keys of
  possible_call and on the order wipe-then-write.
* `DerivedTypesCorrect`, for finitely many files and symbols (`multi_def` is a
  cardinality), with `TypeInv` for what the index contributes.
* `ResolvedStaysExact`: `ResolveSpec => []ResolvedIsExact`, for finitely many files and
  symbols.  `PassInv` says what each commit of an undisturbed pass leaves to the next:
  `Counted` from the first on, `FannedOut` from the second, `Dispatched` at the end.  That
  the recursive CTE finds an override at any depth is `GrowingIsLeast`: |Symbols| rounds
  reach the least set closed under overriding.

`DataInduction` replaces what the library's induction theorems cannot give here, since
they take an operator as a parameter: `SetInduction` and `LeastNumber` speak of a subset
of Nat, which a proof defines by the claim; `Iterates` and `Accumulates` give the
existence of a function defined by recursion, without which its definition says
nothing; `GrowingIsLeast` says that a set grown to a fixed point is the least closed one;
`FoldExists` unfolds the folds of the community modules, in whatever order their CHOOSE
takes the elements; `SumOfSizes` adds up the sizes of disjoint sets, and
`TailRecursionExists` gives a recursion that only tests and goes on, terminating or not.

`GraphWalkProofs`, for every set of finite graphs (`GraphsOK`), every request and every
order of the rows:

* `PathsAreReal`: `[]PathIsReal`, whatever the LIMITs cut, from `TreeInv`: the parent of a
  seen node is seen, one level up, and joined to it by an edge.
* `DepthsAreDistances`, `WalksMissNothing`, `ReachesExactly`: from `WalkInv`, which adds, as
  long as every row is read, that the nodes closed so far have all their neighbours
  in `seen` (`RowsOK`), that a level is the distance (`LevelsOK`), and what the answer of
  `reaches` says of both (`AnswerOK`).

`CallGraphProofs`; the first two where every virtual call is decided in mode "prune"
(`Decided`, a conjunct of the initial states of `TourSpec`, which `ReadyStep` proves of `Devirt`):

* `StreamFollowsTheCalls`: `[]FollowsTheCalls`.  `TourInv` is about the stack of iterators:
  each is of the item last yielded at the depth below, and holds what is left of its
  `Upcoming`.
* `WalkSurfacesAllReachable`: `[]SurfacesAllReachable`; each kid of what was yielded is
  yielded or still to come from an iterator on the stack (`CoverOK`).
* `PruningIsSound`: `[]PrunesOnlyTheUnreachable`, for any set of programs, in an open or a
  closed world, whatever the order of the calls and `KLimit`.  `Compiles` is a conjunct of
  `DevirtInit`: the extractor gets programs that are typed.  Assumed of the constants:
  a base is complete before what derives from it, so the classes are a tree (`BasesComeFirst`);
  a USR names one thing (`UsrsAreApart`); keys of different kinds differ (`KeysAreApart`).
  Three arguments meet in `WalkCoversRuns`:
  - The classes.  The chain from a class to the base exists (`ChainExists`), `IsA` is an order,
    and the final overrider is the nearest declaration on it (`OverriderIsNearest`).  So
    the dispatch targets, the closure of `overrides` rows, hold every override an object can
    run, and `decide` finds it under the object's class, own or inherited
    (`DecisionIsSound`).
  - The engine.  `EngineOK`: each call of an analysed callable is still due on the
    stack, or its callee is analysed and knows what it is passed (`Carried`).  No call is
    counted twice, so with few callers `KLimit` never bites; and a key of a value never loses
    its class, since `_join` only adds (`EnvOK`).  `ReceiverIsFound` is then a case
    per kind of receiver.
  - The runs.  `DevirtInv` joins the engine to `TourInv` of the walk it decides for.  The
    frames of callables that were seen, with an object the engine accounts for
    (`Owned`), are closed under calls, and `Entered` is the least closed set.
* `PruningIsExact`: `[]PrunesTheUnreachable`, under the same assumptions and that TOP is none of
  the sets of classes (`TopIsNoSet`).  It needs the other half of each argument:
  - The engine binds no more than is passed.  `TracedInv`, inductive beside `DevirtInv`: what is
    analysed is called from the root, and what is bound to a parameter is among the classes
    that analysed callables pass there (`Passed`), so never TOP.
  - A candidate for a class is the override its objects run (`CandidatesAreOverriders`); there is
    one for each class that can be, so `decide` never falls back to KEEP_ALL (`DecisionIsExact`).
  - `Entered` is closed (`EnteredIsClosed`): each function analysed is entered with each class
    bound to its parameter, and what the walk has seen is then within what is entered
    (`WalkVisitsRuns`), but for methods that some call names and that may be there for that only.

`EntityProofs` starts from `IdsAreNumbers` and `Layer0IsSound`, a condition on the layer 0
that is read: edges join stored symbols (foreign keys); a record's `specializes` and
`instantiates` lead to records, and no class inherits from an enum or a union (C++);
and an id keeps its symbol (a rowid that is reused is a listed hazard).

* `TablesFit`: `[]EdgesFitNodes`, from `RollupInv`: the lookups are of *some* sound layer 0,
  the drafted rows fit those lookups and the symbols of *any* layer 0 with these ids, and
  deletions take both ends' rows along.
* `TypesMatch`: for any questions, beside passes, deletions and re-indexes.
  `TypesInv`: while the symbols stay, stored rows and remembered types say of layer 0 what
  `EntityKind` says of it.
* `AnswersAreClosures`: for questions that go one relation far at least (`Relational`;
  with max_depth 0 the code asks nothing, with none it goes as far as there are nodes).
  `AnswerInv` is the invariant of a breadth-first search by statements: of the level d, the
  statements not yet sent are in the queue, all others' answers are seen (`Level`).

* `TablesOfOnePass`: `[]TablesAreOnePass`, where every layer 0 is `Ordinary`: it has finitely many
  edges, no template is, through others, its own, and `method_of` gives a method one owner (all
  three are so in C++; the instance of `entities` is such).  `OnePassInv` says what the rows
  drafted by the first n phases are (`ExactUpTo`): a phase upserts the rows of its kind and no
  other's, so the inheritance and use rows, once there, are those of the lookups until the
  commit.  This is claimed of a pass while the layer 0 of its lookups is the one there
  (`pass.seen = base`).  If a re-index came between, the tables are of two layer 0s (a
  listed hazard), and a deletion takes rows out: then `made` is None, the theorem says
  nothing, and `TablesFit` is what remains true.  The rest of the proof is about operators:
  `CollapseIsPrimary` (the walk with its visited set reaches the end of the chain), `UsesCounted` (the roll-up's sum over groups of rows is the number of
  call edges), `NodesAreMeant`, `BasesAreMeant`.
* `ImplementorsFound`: `[]NoImplementorMissed`, for `Ordinary` layer 0s and questions as
  `implemented_by` asks them (`ForImplementors`).  `ImplementorsInv` puts a reader beside
  `OnePassInv`: as long as the rows stay, the type it remembers of an entity is its row's
  (`Remembers`), each kind of a walk is read or still in the queue (`Searching`), and each seed
  that is not left is answered (`Sought`).

`UpkeepProofs`:

* `ClonesPartByMoveOnly`: `CloneSpec => OnlyMovesEstrange`, without a bound on commands, for any
  `Removals`, `Anywhere` and `GivenNames`, from `CheckoutsHavePaths` alone: any
  directory may go by any names.  The step property needs an invariant, `CloneInv`: ids are keys,
  names of repositories and paths of clones are unique (`RowsAgree`), and the ids that a running
  import holds are of rows that are there (`JobAgrees`), so that `Activate` sets no pointer to
  a clone that has gone.  `CommitKeeps` and `CommandKeeps` reduce commands of several commits to their
  statements, of which only `AddClone` moves a row (`AddsClone`).
* `PchBreaksNothing`: `PchSpec => []NeverBroken`: "error" is reached from the parse without
  the PCH only, and the unit stays the one that was looked up (`PchInv`).
* `StrippingKeepsTheReading`: `LibclangReadsTheBuild` of any command, with any number of options,
  whose arguments are `WellFormed`: every option that takes a value has a plain one, and no launcher
  and no assignment comes after the compiler.  The run's commands are so (an ASSUME of
  `MCUpkeep`); an `-I` whose value is `-o` is not, and there the code and a compiler differ.
  `StrippedIs` says it all: what is kept is a set of places that holds an option exactly if it
  holds its value (`KeptPlaces`), so neighbours stay neighbours (`FollowsKeepsValues`), each
  place is reached in order (`NthPlace`, `NthIsUnique`), and nothing is left for `Sanitize`.
* `UpgradesAreComplete`: `MigrationSpec => []UpgradeIsComplete`, from any version and with any
  number of deaths.  Assumed of the constants: the history of the schema
  (`SchemaHistory`: columns that are added together came together, what fills a column or a
  table came no later than it, symbol and component are in every database opened), and that
  deaths spare the steps in `Fragile` (`DeathsSpare`).  The second is as weak as it can be
  without calling a loss success: each step in `Fragile`, as the only one in `Dying` of the
  run's instance, violates `UpgradeIsComplete` or `UpgradeEnds`.
  `MigrationInv` says, of the step that comes next, exactly which tables, columns, rows and
  conversions the connection sees (`Reached`), given what it listed when it began:
  a column is there if it was listed or if its step is past and its table was there.  Between
  two fragile stretches this implies that what is on disk may be opened anew
  (`Sound`, `ReachedIsSound`): no gate that a later opening tests is set before what it
  stands for is done.  A transaction is open in two stretches only (`Transacts`), so
  a death loses either what is redone or, in the first, what a fragile step protects.
* `NoOpeningIsRefused`: `MigrationSpec => [](opened # "error")`, from the same invariant: the safety
  half of `UpgradeEnds`, whose other half is liveness.

Two habits of these proofs need a word.  A recursive function's definition is a CHOOSE, so
each is used only after its existence is proved.  And tlapm 1.4.5 identifies two CASE
expressions with the same OTHER, so no leaf sees two of them; where the models
compare such, their arms are disjoint.

Only model-checked:

* Liveness, which is beyond the prover: `PendingUnitGetsIndexed`, `CacheWarmsUp`, `TourEnds`,
  `UpgradeEnds`, `SurveyCountsEach`.
* `ParsedAsWritten`, `AnswersAreExact`: `CxqParser` and `Cxq` are recursive operators, about
  which tlapm proves nothing; nor in `MCReaders`, which reaches them.
* `GraphIsOfTheFiles`, `CountsArePlaces`: their reference is the index of everything, built by
  the same operators, and these are not monotone: `RecoveredTarget` and `Pick` take a symbol
  while it is the only one of its name.  Units that share names across headers may leave an
  edge that the whole index would not have, so both are claims about units like those of the run.
* `FilesFollowTheSwitch`, `OneRowPerFile`, `IncludesNameTheirOwn`, `ImportsEnd` (no integrity
  error): `CloneInv` is their beginning.

## 5. What is not modelled

* Full-text search, type rows, diagnostics rows, the text of types and signatures; they are
  written in the same transactions as the modelled rows.
* Edits in `Extraction`, and whole-table order in `IndexRun`: one has every kind of edge and no
  other process, the other the processes and calls only.
* Symbols that disappear from a file: the code only upserts, so a removed
  function keeps its row.  `Recorded` asks for completeness, not for absence.
* Row ids.  A rowid that is reused after a deletion while a run holds it is a
  hazard without a property.
* Two registry commands at once, `relink`, listing commands.  `Repository.save`, which writes all
  columns of a row as its object has them, an old `active_clone_id` too.
* Lookups by name in `query.py` and `model.py` (but for the three tiers that cxq uses),
  member lists, source text; `cidx-graph`, which prints the model's answers; the fan-out limits
  of 200 and 500 rows in cxq.
* The removal of the source file of a cached AST; hash collisions.
* Pure output (`astcmd.py`, `emit.cpp`), argument parsing, fixtures, tutorials, Datalog
  examples, one-off scripts.
* The C++ port `cidx-cpp`: it follows the Python function by function; its PCH
  survey's thread pool and subprocess runner are its own and modelled (errors of `pipe` and `poll`
  apart), its exporter is not.

## 6. Plan

Done: the modules of section 2 and the theorems of section 4.  Next, in this order:

1. `OneRowPerFile` and `IncludesNameTheirOwn`, from `CloneInv` and the uniqueness of
   (component, path) in the file table.
2. Row ids as values in `IndexRun`, with deletions between the commits of a run; deletions
   in the runs of `AlreadyIndexedIsRecorded`.
