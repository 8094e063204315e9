------------------------------ MODULE Resolve -------------------------------
(***************************************************************************)
(* `cidx resolve` beside a changing index.  It derives from the tables of  *)
(* IndexRun how many bodies a symbol has (symbol.multi_def), which bodies a *)
(* body's calls may reach (possible_call) and who calls a method through   *)
(* the methods it overrides (edges of kind dispatch_calls), and commits    *)
(* each on its own, while files are indexed and deleted by others.  Every  *)
(* step of IndexRun takes the derived rows along that its DELETEs cascade  *)
(* to.                                                                      *)
(***************************************************************************)
EXTENDS IndexRun

CONSTANTS
    Overrides     \* [Files -> [Contents -> SUBSET (Symbols \X Symbols)]]:
                  \* <<method, the method it overrides>>

ASSUME OverridesAreMentioned ==
    /\ Overrides \in [Files -> [Contents -> SUBSET (Symbols \X Symbols)]]
    /\ \A f \in Files, c \in Contents :
          \A o \in Overrides[f][c] : o[2] \in Mentions[f][c]

VARIABLES
    over,       \* the `edge` rows of kind overrides: <<method, overridden>>
    dispatch,   \* the `edge` rows of kind dispatch_calls: <<caller, method>>
    multi,      \* symbol.multi_def
    possible,   \* the `possible_call` table: pairs of rows of `definition`
    pass        \* the resolver: where it is, and whether (no code) the tables
                \* it reads and writes were left alone since it began

derived == <<over, dispatch, multi, possible>>
rvars == <<vars, derived, pass>>

Resolver == [pc : {"idle", "multi", "possible", "dispatch"},
             done : BOOLEAN, quiet : BOOLEAN]

ResolveInit ==
    /\ Init
    /\ over = {} /\ dispatch = {} /\ possible = {}
    /\ multi = [u \in Symbols |-> 0]
    /\ pass = [pc |-> "idle", done |-> FALSE, quiet |-> FALSE]

(***************************************************************************)
(* The steps of IndexRun, with what they do to the other rows.             *)
(***************************************************************************)
\* delete_edges_for_file takes every kind but `contains`.
OverWithout(f) == {o \in over : sym[o[1]].file # f}
DispatchWithout(f) == {e \in dispatch : sym[e[1]].file # f}

\* Mutant of PossibleWithout: only the caller's side cascades.
PossibleWithoutCallers(f) == {r \in possible : r[1][1] # f}

\* possible_call's foreign keys: both ends cascade.
PossibleWithout(f) == {r \in possible : r[1][1] # f /\ r[2][1] # f}

\* The overrides edges of file f's version c, added to the rows O, for the
\* methods that have a row (or, depending on the order in the file, just got one
\* as the target of another edge).
StoreOverrides(f, c, O) ==
    \E new \in SUBSET Overrides[f][c] :
        /\ \A o \in Overrides[f][c] : sym[o[1]].known => o \in new
        /\ \A o \in new : sym'[o[1]].known
        /\ over' = O \union new

\* A commit of somebody else may change what the resolver has read, or take rows
\* that it has written.
Disturbs == pass' = [pass EXCEPT !.quiet = @ /\ UNCHANGED <<sym, edge, def, defEdge, derived>>]

IndexHeader(p, h) ==
    /\ StoreHeaderEdges(p, h)
    /\ StoreOverrides(h, proc[p].ast[h], OverWithout(h))
    /\ dispatch' = DispatchWithout(h)
    /\ possible' = PossibleWithout(h)
    /\ UNCHANGED multi

IndexEdgesGo(p) ==
    /\ WipeEdges(p)
    /\ over' = OverWithout(proc[p].cur)
    /\ dispatch' = DispatchWithout(proc[p].cur)
    /\ UNCHANGED <<multi, possible>>

IndexBodiesGo(p) ==
    /\ WipeBodies(p)
    /\ possible' = PossibleWithout(proc[p].cur)
    /\ UNCHANGED <<over, dispatch, multi>>

IndexEdges(p) ==
    /\ StoreEdges(p)
    /\ StoreOverrides(proc[p].cur, proc[p].ast[proc[p].cur], over)
    /\ UNCHANGED <<dispatch, multi, possible>>

\* A deleted symbol row takes its edges and its counter along.
Delete(F) ==
    /\ Drop(F)
    /\ over' = {o \in over : sym'[o[1]].known /\ sym'[o[2]].known}
    /\ dispatch' = {e \in dispatch : sym'[e[1]].known /\ sym'[e[2]].known}
    /\ possible' = {r \in possible : r[1] \in def' /\ r[2] \in def'}
    /\ multi' = [u \in Symbols |-> IF sym'[u].known THEN multi[u] ELSE 0]

\* The steps that touch neither edges nor bodies.
IndexRest ==
    /\ \/ \E p \in Procs :
            \/ Begin(p) \/ Scan(p) \/ StoreMain(p) \/ StoreHeader(p) \/ MarkHeader(p)
            \/ \E h \in Headers : SkipHeader(p, h) \/ RegisterHeader(p, h) \/ AbortHeader(p, h)
            \/ MarkMain(p) \/ Abort(p) \/ Crash(p)
       \/ \E f \in Files, c \in Version : Edit(f, c)
       \/ Import
       \/ \E f \in Files, b \in SetValues : SetIndexed(f, b)
    /\ UNCHANGED derived

IndexStep ==
    /\ \/ \E p \in Procs : \/ \E h \in Headers : IndexHeader(p, h)
                           \/ IndexEdgesGo(p) \/ IndexBodiesGo(p) \/ IndexEdges(p)
       \/ \E F \in Droppable : Delete(F)
       \/ IndexRest
    /\ Disturbs

(***************************************************************************)
(* resolve_pass, one commit after the other.                               *)
(***************************************************************************)
Go(pc) == pass' = [pass EXCEPT !.pc = pc] /\ UNCHANGED vars

\* rollup_edge_counts only recounts rows that are there.
ResolveBegin ==
    /\ pass.pc = "idle"
    /\ pass' = [pc |-> "multi", done |-> FALSE, quiet |-> TRUE]
    /\ UNCHANGED <<vars, derived>>

BodiesOf(u) == {d \in def : d[2] = u}

\* Mutants of MultiDef: a symbol that lost its bodies keeps its count; SUM
\* instead of COUNT.
MultiDefOfBodied(u) == IF BodiesOf(u) = {} THEN multi[u] ELSE Cardinality(BodiesOf(u))
MultiDefSum(u) == IF BodiesOf(u) = {} THEN None ELSE Cardinality(BodiesOf(u))

MultiDef(u) == Cardinality(BodiesOf(u))

SetMultiDef ==
    /\ pass.pc = "multi"
    /\ multi' = [u \in Symbols |-> MultiDef(u)]
    /\ Go("possible")
    /\ UNCHANGED <<over, dispatch, possible>>

\* The fan-out reads multi_def as the previous commit left it.
MaterializePossibleCalls ==
    /\ pass.pc = "possible"
    /\ possible' = {r \in def \X def : /\ <<r[1][1], r[1][2], r[2][2]>> \in defEdge
                                       /\ multi[r[2][2]] > 1}
    /\ Go("dispatch")
    /\ UNCHANGED <<over, dispatch, multi>>

\* Mutant of Targets: direct overriders only.
DirectTargets(b) == {m \in Symbols : <<m, b>> \in over}

\* The recursive CTE: grow[n][b] are the methods reached from b over at most
\* n + 1 rows of kind overrides.
MoreTargets(g) ==
    [b \in Symbols |-> DirectTargets(b) \union {m \in Symbols : \E k \in g[b] : <<m, k>> \in over}]

Overriding ==
    LET grow[n \in 0..Cardinality(Symbols)] ==
            IF n = 0 THEN [b \in Symbols |-> DirectTargets(b)] ELSE MoreTargets(grow[n - 1])
    IN  grow[Cardinality(Symbols)]

Targets(b) == Overriding[b]

\* Also the end of the pass: the entity edges and the graph_resolved_at stamp
\* that follow touch none of these tables.
MaterializeDispatchCalls ==
    /\ pass.pc = "dispatch"
    /\ dispatch' = {e \in Symbols \X Symbols :
                       e[1] # e[2] /\ \E c \in edge : c[1] = e[1] /\ e[2] \in Targets(c[2])}
    /\ pass' = [pass EXCEPT !.pc = "idle", !.done = TRUE]
    /\ UNCHANGED <<vars, over, multi, possible>>

\* The process dies between two commits.
ResolveDies ==
    /\ pass.pc # "idle"
    /\ pass' = [pass EXCEPT !.pc = "idle"]
    /\ UNCHANGED <<vars, derived>>

ResolveStep ==
    \/ ResolveBegin \/ SetMultiDef \/ MaterializePossibleCalls
    \/ MaterializeDispatchCalls \/ ResolveDies

ResolveNext == IndexStep \/ ResolveStep

ResolveSpec == ResolveInit /\ [][ResolveNext]_rvars

(***************************************************************************)
(* Properties.                                                             *)
(***************************************************************************)
\* The derived tables hold rows of their types.
DerivedTypeOK ==
    /\ over \subseteq Symbols \X Symbols /\ dispatch \subseteq Symbols \X Symbols
    /\ multi \in [Symbols -> Nat]
    /\ possible \subseteq (Files \X Symbols) \X (Files \X Symbols)
    /\ pass \in Resolver

\* A row of possible_call joins two bodies that are in the index, and the first
\* records a call of the second's symbol -- at every moment, whichever passes
\* ran, and whoever re-indexed or deleted a body since.
PossibleCallsAreBodyCalls ==
    \A r \in possible :
        /\ r[1] \in def /\ r[2] \in def
        /\ <<r[1][1], r[1][2], r[2][2]>> \in defEdge

\* The methods a call to b may land on, by definition: the least set that has
\* the overriders of b and of each of its members.
ClosedUnder(b, S) == \A o \in over : o[2] \in S \union {b} => o[1] \in S
Reached(b) == {m \in Symbols : \A S \in SUBSET Symbols : ClosedUnder(b, S) => m \in S}

\* After a pass that nobody disturbed, the derived tables say exactly what the
\* stored ones imply: the number of bodies, a call fanned out to every body of a
\* symbol that has several, and a caller for each method its calls may land on,
\* at any depth of overriding -- also when the passes before were cut short or
\* ran while bodies came and went.
ResolvedIsExact ==
    (pass.done /\ pass.quiet) =>
        /\ \A u \in Symbols : multi[u] = Cardinality(BodiesOf(u))
        /\ \A a \in def, b \in def :
              (<<a, b>> \in possible) <=>
                 (<<a[1], a[2], b[2]>> \in defEdge /\ \E d \in def \ {b} : d[2] = b[2])
        /\ \A a, m \in Symbols :
              (<<a, m>> \in dispatch) <=>
                 (a # m /\ \E c \in edge : c[1] = a /\ m \in Reached(c[2]))
=============================================================================
