------------------------------ MODULE MCReaders ------------------------------
(***************************************************************************)
(* The graph of an index, written or read: either Extraction writes the       *)
(* tables for the code base of MCExtraction, or one of four readers runs      *)
(* over a finished index: a bounded search of GraphWalk, a walk of CallGraph, *)
(* the pruned walk of Devirt, or a query of Cxq.  The searches run over       *)
(* graphs of four symbols, the walks over functions and an override chain     *)
(* ma <- mb <- md, the pruned walks over small programs, the queries over     *)
(* the graphs of MCCxq.                                                       *)
(***************************************************************************)
EXTENDS Devirt, GraphWalk, MCExtraction, MCCxq

MCFunction == {main, f, g}
MCClass == {a, b, c, d}
MCParent == (b :> a) @@ (c :> a) @@ (d :> b)
MCMethod == (a :> ma) @@ (b :> mb) @@ (c :> mc) @@ (d :> md)
MCSym == {main, f, g, a, b, c, d, ma, mb, mc, md}

Row3(s, k, t) == [src |-> s, kind |-> k, dst |-> t]
-----------------------------------------------------------------------------
(* Programs to prune: the root hands an object to f and g, f hands one to g, *)
(* f and g call the method. *)

One(S) == {<< >>} \union {<<e>> : e \in S}

MainToF == One({Ex("construct", b), Ex("gref", a)})
MainToG == One({Ex("construct", d), Ex("value", c), Ex("param", a)})
FToG == One({Ex("construct", b), Ex("param", a), Ex("cref", a)})
Receivers == One({Ex("param", a)})

Program(owns, pure, mf, mg, fg, fm, gm) ==
    [owns |-> owns, pure |-> pure,
     body |-> [x \in Callable |-> [y \in Callable |->
        CASE x = main /\ y = f -> mf
          [] x = main /\ y = g -> mg
          [] x = f /\ y = g -> fg
          [] x = f /\ y = ma -> fm
          [] x = g /\ y = ma -> gm
          [] OTHER -> << >>]]]

Programs ==
    {Program(owns, pure, mf, mg, fg, fm, gm) :
        owns \in {{b, c}, {b, c, d}}, pure \in BOOLEAN, mf \in MainToF, mg \in MainToG,
        fg \in FToG, fm \in Receivers, gm \in {<<Ex("param", a)>>, <<Ex("other", a)>>}}

NoWalk ==
    /\ edges = {} /\ bfs = [Fresh(main) EXCEPT !.status = "done"]
    /\ ask = [job |-> "none", from |-> main, to |-> main, depth |-> 0, max |-> 0]

PrunedInit == DevirtInit(Programs, main) /\ NoWalk

-----------------------------------------------------------------------------
(* Call graphs: two overrides, and any of the calls below. *)

PossibleCalls ==
    {<<main, f>>, <<main, ma>>, <<f, g>>, <<f, ma>>, <<g, f>>, <<mb, g>>, <<mb, main>>}

\* What the resolve pass adds: a caller of a method calls those that override it.
Dispatched(calls) ==
    {Row3(x[1], "dispatch_calls", m) : x \in {y \in calls : y[2] = ma}, m \in {mb, md}}

CallGraphs ==
    {[edge |-> {Row3(x[1], "calls", x[2]) : x \in calls} \union Dispatched(calls)
               \union {Row3(mb, "overrides", ma), Row3(md, "overrides", mb)},
      pure |-> pure, stub |-> {}, owner |-> [s \in Sym |-> NoSym]] :
        calls \in SUBSET PossibleCalls, pure \in {{}, {ma}}}

NoEngine ==
    /\ program = Program({}, FALSE, << >>, << >>, << >>, << >>, << >>) /\ closed = FALSE /\ kept = << >>
    /\ gamma = [stack |-> << >>, analysed |-> {}, count |-> [x \in Callable |-> 0],
                env |-> << >>, done |-> TRUE]

NoTour == tour = [StartTour("static", main, 0) EXCEPT !.begun = TRUE]

NoGraph == [edge |-> {}, pure |-> {}, stub |-> {}, owner |-> << >>]

TourInit ==
    /\ code \in CallGraphs
    /\ \E mode \in {"callgraph", "static", "expand"}, limit \in {2, Unbounded} :
          tour = StartTour(mode, main, limit)
    /\ NoEngine /\ NoWalk

-----------------------------------------------------------------------------
(* Searches: any graph of one kind of edges, and graphs of two kinds in which a *)
(* node's rows outnumber its neighbours. *)

MCKinds == {"calls", "uses"}
Nodes == {main, f, g, ma}

OneKind == {{Row3(x[1], "calls", x[2]) : x \in S} :
               S \in SUBSET {<<main, f>>, <<main, g>>, <<main, ma>>, <<f, g>>, <<f, ma>>,
                             <<f, main>>, <<g, f>>, <<g, ma>>, <<ma, g>>, <<ma, main>>}}
TwoKinds == {{Row3(x[1], k, x[2]) : x \in S, k \in MCKinds} :
               S \in SUBSET ({main, f} \X {f, g, ma})}

Searches ==
    {[job |-> "walk", from |-> main, to |-> NoSym, depth |-> n, max |-> m] :
        n \in {2}, m \in {1, 3, 5}}
    \union {[job |-> "reaches", from |-> main, to |-> t, depth |-> n, max |-> 0] :
        n \in {2}, t \in {main, ma}}

SearchInit == /\ WalkInit(OneKind \union TwoKinds, Searches)
              /\ code = NoGraph
              /\ NoTour /\ NoEngine

-----------------------------------------------------------------------------
(* One at a time: nothing of the others is asked. *)

QueryInit == CxqInit /\ NoTour /\ NoEngine /\ NoWalk

ReadInit == \/ (PrunedInit \/ TourInit \/ SearchInit) /\ cxq = NoQuery /\ ExtractionInit
            \/ QueryInit /\ ExtractionInit

NoReader == code = NoGraph /\ NoTour /\ NoEngine /\ NoWalk /\ cxq = NoQuery

WriteInit == NoReader /\ ExtractionInit

Init == ReadInit \/ WriteInit

Walking == \/ DevirtNext /\ UNCHANGED <<walkVars, cxqVars, extractionVars>>
           \/ WalkNext /\ UNCHANGED <<devirtVars, cxqVars, extractionVars>>

Asking == CxqNext /\ UNCHANGED <<devirtVars, walkVars, extractionVars>>

Writing == NoReader /\ ExtractionNext /\ UNCHANGED <<devirtVars, walkVars, cxqVars>>

Next == Walking \/ Asking \/ Writing

vars == <<devirtVars, walkVars, cxqVars, extractionVars>>

\* Whoever asked for the answer goes on until it is there.
Spec == Init /\ [][Next]_vars /\ WF_vars(Walking)
=============================================================================
