------------------------------ MODULE GraphWalk ------------------------------
(***************************************************************************)
(* The bounded breadth-first searches of query.py: GraphQuery.walk, which   *)
(* returns a Traversal, and GraphQuery.reaches.  One request is served row  *)
(* by row.  A node's rows come in an order that the edge counts decide, so   *)
(* any order is possible, and only the first `limit` of them are read.       *)
(***************************************************************************)
EXTENDS SymbolGraph, Sequences

CONSTANT Kinds, \* the edge kinds of the request
         RowLimit \* 500 in the code: the rows reaches reads at a node

VARIABLES edges, \* the rows of `edge`
          ask, \* [job, from, to, depth, max]: the arguments of the call
          bfs \* the locals of the call, and its answer

walkVars == <<edges, ask, bfs>>

WalkGraph == [edge |-> edges]

NoAnswer == << >>

\* How many rows of a node one query returns.
Limit == IF ask.job = "walk" THEN ask.max ELSE RowLimit
RowsAt(n) == EdgesAt(WalkGraph, n, Kinds, "out")

Fresh(from) == [status |-> "level", d |-> 1, frontier |-> <<from>>, nxt |-> << >>,
                rows |-> {}, left |-> 0, seen |-> {from},
                level |-> [s \in {from} |-> 0], parent |-> [s \in {from} |-> NoSym],
                answer |-> NoAnswer]

\* The chain of parents from the start of the search to n.
PathTo(n) ==
    LET up[k \in Nat] ==
            [s \in bfs.seen |-> IF k = 0 \/ bfs.parent[s] = NoSym THEN <<s>>
                               ELSE Append(up[k - 1][bfs.parent[s]], s)]
    IN  up[Cardinality(Sym)][n]

\* Mutant of WalkInit: without `if s.id == t.id`.
WalkInitStraight(graphs, requests) ==
    edges \in graphs /\ ask \in requests /\ bfs = Fresh(ask.from)

WalkInit(graphs, requests) ==
    /\ edges \in graphs
    /\ ask \in requests
    /\ bfs = IF ask.job = "reaches" /\ ask.from = ask.to
             THEN [Fresh(ask.from) EXCEPT !.status = "done", !.answer = <<ask.from>>]
             ELSE Fresh(ask.from)

-----------------------------------------------------------------------------

\* range(1, depth + 1) is exhausted.
Stop == /\ bfs.status = "level"
        /\ bfs.d > ask.depth
        /\ bfs' = [bfs EXCEPT !.status = "done"]

\* The for loop takes the next node of the frontier and reads its rows.
Open == /\ bfs.status = "level"
        /\ bfs.d <= ask.depth
        /\ bfs.frontier # << >>
        /\ bfs' = [bfs EXCEPT !.status = "node",
                              !.rows = RowsAt(Head(bfs.frontier)),
                              !.left = Limit]

\* `if not nxt: break`, else the next level.
NextLevel ==
    /\ bfs.status = "level"
    /\ bfs.d <= ask.depth
    /\ bfs.frontier = << >>
    /\ bfs' = IF bfs.nxt = << >> THEN [bfs EXCEPT !.status = "done"]
              ELSE [bfs EXCEPT !.frontier = bfs.nxt, !.nxt = << >>, !.d = @ + 1]

\* Mutant of Known: the start is not put into `seen`.
KnownButStart(e) == e.dst \in bfs.seen \ {ask.from}

Known(e) == e.dst \in bfs.seen

\* Mutant of Discover: the parent is where the level began.
DiscoverOnLevel(e, n) ==
    [bfs EXCEPT !.seen = @ \union {e.dst},
                !.level = [s \in bfs.seen \union {e.dst} |->
                             IF s = e.dst THEN bfs.d ELSE bfs.level[s]],
                !.parent = [s \in bfs.seen \union {e.dst} |->
                              IF s = e.dst THEN bfs.frontier[Len(bfs.frontier)]
                              ELSE bfs.parent[s]],
                !.nxt = Append(@, e.dst),
                !.rows = @ \ {e}, !.left = @ - 1]

Discover(e, n) ==
    [bfs EXCEPT !.seen = @ \union {e.dst},
                !.level = [s \in bfs.seen \union {e.dst} |->
                             IF s = e.dst THEN bfs.d ELSE bfs.level[s]],
                !.parent = [s \in bfs.seen \union {e.dst} |->
                              IF s = e.dst THEN n ELSE bfs.parent[s]],
                !.nxt = Append(@, e.dst),
                !.rows = @ \ {e}, !.left = @ - 1]

\* Mutant of Full: one symbol too early.
FullBefore == Cardinality(bfs.seen) + 2 >= ask.max

\* The walk returns early when `len(seen) >= max_nodes`.
Full == Cardinality(bfs.seen) + 1 >= ask.max

Row == /\ bfs.status = "node"
       /\ bfs.left > 0
       /\ \E e \in bfs.rows :
             bfs' = IF Known(e) THEN [bfs EXCEPT !.rows = @ \ {e}, !.left = @ - 1]
                    ELSE IF ask.job = "walk"
                    THEN [Discover(e, Head(bfs.frontier)) EXCEPT
                            !.status = IF Full THEN "done" ELSE "node"]
                    ELSE [Discover(e, Head(bfs.frontier)) EXCEPT
                            !.status = IF e.dst = ask.to THEN "done" ELSE "node",
                            !.answer = IF e.dst = ask.to
                                       THEN Append(PathTo(Head(bfs.frontier)), e.dst)
                                       ELSE NoAnswer]

Close == /\ bfs.status = "node"
         /\ bfs.rows = {} \/ bfs.left = 0
         /\ bfs' = [bfs EXCEPT !.status = "level", !.frontier = Tail(@), !.rows = {}]

WalkNext == (Stop \/ Open \/ NextLevel \/ Row \/ Close) /\ UNCHANGED <<edges, ask>>

-----------------------------------------------------------------------------
(* What a Traversal promises. *)

\* The symbols at most n edges away from s.
Within(s, n) ==
    LET ball[k \in Nat] ==
            IF k = 0 THEN {s}
            ELSE LET less == ball[k - 1]
                 IN  less \union UNION {Peers(WalkGraph, x, Kinds, "out") : x \in less}
    IN  ball[n]

\* No node of the answer has more rows than were read of it.
EveryRowRead == \A s \in bfs.seen : Cardinality(RowsAt(s)) <= Limit

\* "each reached symbol with its minimum depth" (walk): at every moment of the search,
\* whichever rows come first, the recorded depth is the distance from the start, as
\* long as no node had more rows than the limit of one query.
DepthIsDistance ==
    EveryRowRead =>
        \A s \in bfs.seen : /\ s \in Within(ask.from, bfs.level[s])
                            /\ bfs.level[s] > 0 => s \notin Within(ask.from, bfs.level[s] - 1)

\* Traversal.path_to: the parents lead along edges of the graph, from the start, in
\* as many steps as the recorded depth, whatever was cut off.
PathIsReal ==
    \A s \in bfs.seen :
       LET p == PathTo(s)
       IN  /\ p[1] = ask.from /\ p[Len(p)] = s /\ Len(p) = bfs.level[s] + 1
           /\ \A i \in 1..(Len(p) - 1) : p[i + 1] \in Peers(WalkGraph, p[i], Kinds, "out")

\* A walk that ends below max_nodes misses nothing within its depth: the two bounds
\* are the only reasons to leave a symbol out, given that every row was read.
NothingMissed ==
    /\ bfs.status = "done"
    /\ ask.job = "walk"
    /\ EveryRowRead
    /\ Cardinality(bfs.seen) < ask.max
    => bfs.seen = Within(ask.from, ask.depth)

\* reaches: a path is returned exactly when `to` is at most max_depth edges away, and
\* it is a shortest one.
ReachesIsExact ==
    /\ bfs.status = "done"
    /\ ask.job = "reaches"
    /\ EveryRowRead
    => /\ (bfs.answer # NoAnswer) <=> (ask.to \in Within(ask.from, ask.depth))
       /\ bfs.answer # NoAnswer /\ ask.from # ask.to =>
             ask.to \notin Within(ask.from, Len(bfs.answer) - 2)
=============================================================================
