------------------------------ MODULE CallGraph ------------------------------
(***************************************************************************)
(* The lazy call-graph walks of model.py: Callable.callgraph and the three   *)
(* modes of Callable.devirtualized_callgraph.  The walk keeps a stack of     *)
(* iterators; the order of a node's callees is that of its call sites, which *)
(* may be any.                                                               *)
(***************************************************************************)
EXTENDS SymbolGraph, Sequences

CONSTANT KeepAll \* the decision not to prune a virtual call

ASSUME KeepAllIsNoSet == \A S \in SUBSET Sym : KeepAll # S

VARIABLES code, \* the graph, as SymbolGraph reads it
          tour, \* the generator: its mode is "callgraph", "static", "expand" or "prune"
          kept \* the engine's decision for each virtual call, when mode is "prune"

tourVars == <<code, tour, kept>>

\* depth=None.
Unbounded == Cardinality(Sym) + 1

\* Mutant of Appended: the literal calls only.
AppendedNone(f) == {}

\* Callees that follow the source-ordered ones: callgraph folds the targets of virtual
\* calls in, the other modes ask for the literal calls only.
Appended(f) == Callees(code, f) \ DirectCallees(code, f)

\* Mutant of Kids: one level too many.
KidsBeyond(f, d) ==
    IF d > tour.limit
    THEN [node |-> f, depth |-> d + 1, burst |-> {}, rest |-> {}, last |-> {}]
    ELSE [node |-> f, depth |-> d + 1, burst |-> {}, rest |-> DirectCallees(code, f),
          last |-> IF tour.mode = "callgraph" THEN Appended(f) ELSE {}]

\* An iterator over the callees of f, which is d calls deep: `burst` are the targets that
\* accompany the callee just taken, `rest` the other direct callees, `last` the dispatch
\* targets appended after them.
Kids(f, d) ==
    IF d >= tour.limit
    THEN [node |-> f, depth |-> d + 1, burst |-> {}, rest |-> {}, last |-> {}]
    ELSE [node |-> f, depth |-> d + 1, burst |-> {}, rest |-> DirectCallees(code, f),
          last |-> IF tour.mode = "callgraph" THEN Appended(f) ELSE {}]

\* What is visited along with callee c of f.
Burst(f, c) ==
    CASE ~IsVirtual(code, c) \/ tour.mode \in {"callgraph", "static"} -> {}
      [] IsVirtual(code, c) /\ tour.mode = "expand" -> DispatchTargets(code, c)
      [] OTHER -> (IF kept[f, c] = KeepAll THEN DispatchTargets(code, c)
                   ELSE kept[f, c]) \ {c}

\* The next items an iterator may produce, and what remains of it then.
Upcoming(k) ==
    IF k.burst # {} THEN k.burst ELSE IF k.rest # {} THEN k.rest ELSE k.last

\* Mutant of Taken: a list instead of an iterator, so that each look starts over.
TakenNothing(k, c) == k

Taken(k, c) ==
    IF k.burst # {} THEN [k EXCEPT !.burst = @ \ {c}]
    ELSE IF k.rest # {} THEN [k EXCEPT !.rest = @ \ {c}, !.burst = Burst(k.node, c)]
    ELSE [k EXCEPT !.last = @ \ {c}]

Top == tour.stack[Len(tour.stack)]
Below == SubSeq(tour.stack, 1, Len(tour.stack) - 1)
Running == tour.stack # << >>

StartTour(mode, root, limit) ==
    [mode |-> mode, root |-> root, limit |-> limit, stack |-> << >>,
     seen |-> {root}, out |-> << >>, begun |-> FALSE]

-----------------------------------------------------------------------------

\* The first next() on the generator.
Begin == /\ ~tour.begun
         /\ tour' = [tour EXCEPT !.begun = TRUE, !.stack = <<Kids(tour.root, 0)>>]

\* `if callee.id in seen: continue`
Skip == /\ Running
        /\ \E c \in Upcoming(Top) \intersect tour.seen :
              tour' = [tour EXCEPT !.stack = Append(Below, Taken(Top, c))]

\* A callee is yielded and its own iterator pushed.
Yield == /\ Running
         /\ \E c \in Upcoming(Top) \ tour.seen :
               tour' = [tour EXCEPT
                          !.seen = @ \union {c},
                          !.out = Append(@, [sym |-> c, depth |-> Top.depth]),
                          !.stack = Append(Append(Below, Taken(Top, c)), Kids(c, Top.depth))]

Pop == /\ Running
       /\ Upcoming(Top) = {}
       /\ tour' = [tour EXCEPT !.stack = Below]

TourStep == Begin \/ Skip \/ Yield \/ Pop

TourNext == TourStep /\ UNCHANGED <<code, kept>>

Exhausted == tour.begun /\ ~Running

-----------------------------------------------------------------------------
(* What the walks promise. *)

\* Everything that a node's iterator produces.
AllKids(f) ==
    IF tour.mode = "callgraph" THEN Callees(code, f)
    ELSE DirectCallees(code, f) \union UNION {Burst(f, c) : c \in DirectCallees(code, f)}

Yielded == {tour.out[i].sym : i \in DOMAIN tour.out}

\* The stream follows the calls: the first item is called by the root, every other item by
\* the last item before it that is one level up, no symbol comes twice and none
\* deeper than the limit.
FollowsTheCalls ==
    \A i \in DOMAIN tour.out :
       LET o == tour.out[i]
           above == {j \in 1..(i - 1) : tour.out[j].depth < o.depth}
       IN  /\ o.depth <= tour.limit
           /\ \A j \in 1..(i - 1) : tour.out[j].sym # o.sym
           /\ o.sym # tour.root
           /\ IF above = {} THEN o.depth = 1 /\ o.sym \in AllKids(tour.root)
              ELSE LET j == CHOOSE j \in above : \A k \in above : k <= j
                   IN  tour.out[j].depth = o.depth - 1 /\ o.sym \in AllKids(tour.out[j].sym)

\* An unbounded walk surfaces everything that can be reached, cycles or not.
SurfacesAllReachable ==
    Exhausted /\ tour.limit = Unbounded =>
        Yielded = Reach(LAMBDA f : AllKids(f), tour.root) \ {tour.root}

\* The generator ends, on cyclic graphs too, if its consumer keeps asking.
TourEnds == <>Exhausted
=============================================================================
