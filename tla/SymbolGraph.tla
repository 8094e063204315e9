---------------------------- MODULE SymbolGraph -----------------------------
(***************************************************************************)
(* What GraphQuery (query.py) reads out of the symbol graph, as operators   *)
(* on a graph                                                               *)
(*    g.edge   the rows of `edge`: [src, kind, dst]                         *)
(*    g.pure   pure-virtual methods (symbol.is_pure)                        *)
(*    g.stub   symbols without a place in an indexed file (Sym.is_stub)     *)
(*    g.owner  the symbol that parent_usr resolves to, or NoSym             *)
(* The LIMIT of 500 rows on a one-hop query is left out.                    *)
(***************************************************************************)
EXTENDS Naturals, FiniteSets

CONSTANTS Sym, NoSym

ASSUME SymIsFinite == IsFiniteSet(Sym)
ASSUME NoSymIsNoSymbol == NoSym \notin Sym

-----------------------------------------------------------------------------
(* One hop. *)

Near(e, dir) == IF dir = "out" THEN e.src ELSE e.dst
Far(e, dir) == IF dir = "out" THEN e.dst ELSE e.src

\* Edges of the given kinds at s, away from it or towards it.
EdgesAt(g, s, kinds, dir) == {e \in g.edge : e.kind \in kinds /\ Near(e, dir) = s}

Peers(g, s, kinds, dir) == {Far(e, dir) : e \in EdgesAt(g, s, kinds, dir)}

Bases(g, c) == Peers(g, c, {"inherits"}, "out")
Subclasses(g, c) == Peers(g, c, {"inherits"}, "in")
Overridden(g, m) == Peers(g, m, {"overrides"}, "out")
OverriddenBy(g, m) == Peers(g, m, {"overrides"}, "in")

\* Direct callers, and those whose virtual call may land on m.
Callers(g, m) == Peers(g, m, {"calls", "dispatch_calls"}, "in")

DirectCallees(g, f) == Peers(g, f, {"calls"}, "out")
Callees(g, f) == DirectCallees(g, f) \union Peers(g, f, {"dispatch_calls"}, "out")

-----------------------------------------------------------------------------
(* Walks without a bound. *)

\* Everything a level-by-level walk from `start` along Step sees, `start` included.
Reach(Step(_), start) ==
    LET grow[seen \in SUBSET Sym] ==
            LET more == seen \union UNION {Step(s) : s \in seen}
            IN  IF more = seen THEN seen ELSE grow[more]
    IN  grow[{start}]

AllSubclasses(g, c) == Reach(LAMBDA s : Subclasses(g, s), c) \ {c}

-----------------------------------------------------------------------------
(* Dynamic dispatch. *)

IsVirtual(g, m) == m \in g.pure \/ OverriddenBy(g, m) # {} \/ Overridden(g, m) # {}

\* m unless it is pure, and whatever overrides it at any depth and has a body.
DispatchTargets(g, m) == Reach(LAMBDA s : OverriddenBy(g, s), m) \ g.pure

\* The classes of `owned` on the nearest level of bases of c that has any.  The
\* code takes the first of them in row order.
NearestOwned(g, c, owned) ==
    LET up[level \in SUBSET Sym] ==
            IF level = {} \/ level \intersect owned # {} THEN level \intersect owned
            ELSE up[UNION {Bases(g, b) : b \in level}]
    IN  up[Bases(g, c)]

Candidate(type, target, inherited) ==
    [type |-> type, target |-> target, inherited |-> inherited]

\* Each target selected by the class that declares it ...
OwnCandidates(g, m) ==
    {Candidate(g.owner[t], t, FALSE) : t \in DispatchTargets(g, m)}

\* ... and, closed over subtypes, by each subtype of the receiver that inherits one.
InheritedCandidates(g, m) ==
    LET owned == {g.owner[t] : t \in DispatchTargets(g, m)} \ {NoSym}
        heirs == IF g.owner[m] = NoSym THEN {} ELSE AllSubclasses(g, g.owner[m]) \ owned
    IN  UNION {{Candidate(c, t, TRUE) :
                  t \in {x \in DispatchTargets(g, m) :
                           g.owner[x] \in NearestOwned(g, c, owned)}} : c \in heirs}

\* Why a virtual call must stay fully expanded; no reason means it is prunable.
UnprunableReasons(g, m) ==
    IF ~IsVirtual(g, m) THEN {"not-virtual"}
    ELSE (IF g.owner[m] = NoSym THEN {"no-receiver-type"} ELSE {})
         \union (IF DispatchTargets(g, m) \intersect g.stub # {}
                 THEN {"target-stub"} ELSE {})
         \union (IF DispatchTargets(g, m) = {} THEN {"pure-no-targets"} ELSE {})

DispatchSelection(g, m, closeSubtypes) ==
    LET reasons == UnprunableReasons(g, m)
    IN  [receiver |-> g.owner[m],
         candidates |-> IF ~IsVirtual(g, m) THEN {}
                        ELSE OwnCandidates(g, m)
                             \union (IF closeSubtypes THEN InheritedCandidates(g, m)
                                     ELSE {}),
         prunable |-> reasons = {}]
=============================================================================
