--------------------------- MODULE GraphWalkProofs ---------------------------
(***************************************************************************)
(* Theorems about the bounded searches of GraphWalk, for every finite      *)
(* graph, every request and every order of the rows: paths are real,       *)
(* depths are distances, and a search that ends below its bounds missed    *)
(* nothing.                                                                *)
(***************************************************************************)
EXTENDS GraphWalk, DataInduction, SequenceTheorems

WalkSpec(graphs, requests) ==
    WalkInit(graphs, requests) /\ [][WalkNext]_walkVars

\* The rows of a database are finitely many, and join symbols.
GraphsOK(graphs) ==
    \A g \in graphs : IsFiniteSet(g) /\ \A e \in g : e.src \in Sym /\ e.dst \in Sym

Request == [job : {"walk", "reaches"}, from : Sym, to : Sym \union {NoSym},
            depth : Nat, max : Nat]

-----------------------------------------------------------------------------
(* The strengthenings. *)

Locals == [status : {"level", "node", "done"}, d : Nat \ {0}, frontier : Seq(Sym),
           nxt : Seq(Sym), rows : SUBSET edges, left : Nat, seen : SUBSET Sym,
           level : [bfs.seen -> Nat], parent : [bfs.seen -> Sym \union {NoSym}],
           answer : Seq(Sym)]

WalkTypes ==
    /\ ask \in Request /\ RowLimit \in Nat
    /\ IsFiniteSet(edges) /\ \A e \in edges : e.src \in Sym /\ e.dst \in Sym
    /\ bfs \in Locals

Next1(s) == Peers(WalkGraph, s, Kinds, "out")

\* The search tree: every symbol but the start hangs below a neighbour that was
\* seen before, one level up, and no level is empty.
TreeOK ==
    /\ ask.from \in bfs.seen /\ bfs.level[ask.from] = 0 /\ bfs.parent[ask.from] = NoSym
    /\ \A s \in bfs.seen : bfs.level[s] < Cardinality(bfs.seen)
    /\ \A s \in bfs.seen \ {ask.from} :
          /\ bfs.parent[s] \in bfs.seen
          /\ bfs.level[s] = bfs.level[bfs.parent[s]] + 1
          /\ s \in Next1(bfs.parent[s])

\* The queues: what is left of the last level, and the next level.
QueuesOK ==
    /\ \A i \in DOMAIN bfs.frontier :
          bfs.frontier[i] \in bfs.seen /\ bfs.level[bfs.frontier[i]] = bfs.d - 1
    /\ \A s \in bfs.seen : bfs.level[s] <= bfs.d
    /\ \A s \in bfs.seen : bfs.level[s] = bfs.d => \E i \in DOMAIN bfs.nxt : bfs.nxt[i] = s
    /\ \A i \in DOMAIN bfs.nxt : bfs.nxt[i] \in bfs.seen /\ bfs.level[bfs.nxt[i]] = bfs.d
    /\ bfs.status = "node" =>
          /\ bfs.frontier # << >> /\ bfs.d <= ask.depth
          /\ bfs.rows \subseteq RowsAt(Head(bfs.frontier))
    /\ bfs.d <= ask.depth + 1
    /\ bfs.d > ask.depth => bfs.nxt = << >>

Waiting(s) == \E i \in DOMAIN bfs.frontier : bfs.frontier[i] = s

\* Nothing of a node is lost while its rows are read, and a node that left the
\* frontier had all its neighbours seen.
RowsOK ==
    /\ bfs.status = "node" =>
          /\ \A e \in RowsAt(Head(bfs.frontier)) \ bfs.rows : e.dst \in bfs.seen
          /\ Cardinality(bfs.rows) <= bfs.left
    /\ \A s \in bfs.seen : bfs.level[s] < bfs.d /\ ~Waiting(s) => Next1(s) \subseteq bfs.seen

\* The levels that are complete hold everything as near as they are.
LevelsOK ==
    \A j \in Nat : j < bfs.d => \A s \in Within(ask.from, j) : s \in bfs.seen /\ bfs.level[s] <= j

\* What the end of a search has established.
AnswerOK ==
    /\ ask.job = "reaches" =>
         IF bfs.status # "done" THEN ask.to \notin bfs.seen /\ bfs.answer = NoAnswer
         ELSE \/ bfs.answer = <<ask.from>> /\ ask.from = ask.to
              \/ /\ bfs.answer # NoAnswer /\ Len(bfs.answer) = bfs.d + 1 /\ bfs.d <= ask.depth
                 /\ ask.to \in Within(ask.from, bfs.d) /\ ask.to \notin Within(ask.from, bfs.d - 1)
              \/ bfs.answer = NoAnswer /\ ask.to \notin Within(ask.from, ask.depth)
    /\ ask.job = "walk" /\ bfs.status = "done" =>
         Cardinality(bfs.seen) >= ask.max \/ bfs.seen = Within(ask.from, ask.depth)

TreeInv == WalkTypes /\ TreeOK /\ QueuesOK

WalkInv == TreeInv /\ (EveryRowRead => RowsOK /\ LevelsOK /\ AnswerOK)

-----------------------------------------------------------------------------
(* Balls and paths: the recursive definitions, as recurrences. *)

LEMMA NextTypes ==
    ASSUME \A e \in edges : e.dst \in Sym, NEW s
    PROVE  /\ Next1(s) \subseteq Sym
           /\ Next1(s) = {e.dst : e \in RowsAt(s)}
BY DEF Next1, Peers, RowsAt, EdgesAt, Far, WalkGraph

LEMMA WithinRec ==
    ASSUME \A e \in edges : e.dst \in Sym, NEW s \in Sym
    PROVE  /\ Within(s, 0) = {s}
           /\ \A n \in Nat :
                /\ Within(s, n + 1) = Within(s, n) \union UNION {Next1(x) : x \in Within(s, n)}
                /\ Within(s, n) \subseteq Sym
<1> DEFINE Wider(B) == B \union UNION {Peers(WalkGraph, x, Kinds, "out") : x \in B}
           ball[k \in Nat] == IF k = 0 THEN {s} ELSE LET less == ball[k - 1] IN Wider(less)
           G == [B \in SUBSET Sym |-> Wider(B)]
<1>1. G \in [SUBSET Sym -> SUBSET Sym]
    BY NextTypes DEF Next1
<1>2. PICK f \in [Nat -> SUBSET Sym] : f[0] = {s} /\ \A n \in Nat : f[n + 1] = G[f[n]]
  <2>1. {s} \in SUBSET Sym
      OBVIOUS
  <2> HIDE DEF G, ball, Wider
  <2> DEFINE V == SUBSET Sym
  <2>2. {s} \in V /\ G \in [V -> V]
      BY <1>1, <2>1
  <2> HIDE DEF V
  <2>3. \E f \in [Nat -> V] : f[0] = {s} /\ \A n \in Nat : f[n + 1] = G[f[n]]
      BY <2>2, Iterates
  <2> QED BY <2>3 DEF V
<1>3. \A n \in Nat : f[n + 1] = Wider(f[n])
    BY <1>2
<1>4. f = [k \in Nat |-> IF k = 0 THEN {s} ELSE LET less == f[k - 1] IN Wider(less)]
  <2> HIDE DEF Wider
  <2>1. ASSUME NEW k \in Nat PROVE f[k] = IF k = 0 THEN {s} ELSE LET less == f[k - 1] IN Wider(less)
    <3>1. CASE k = 0
        BY <1>2, <3>1
    <3>2. CASE k # 0
      <4>1. k - 1 \in Nat /\ (k - 1) + 1 = k
          BY <3>2
      <4> QED BY <1>3, <3>2, <4>1
    <3> QED BY <3>1, <3>2
  <2> QED BY <1>2, <2>1
<1>5. ball = [k \in Nat |-> IF k = 0 THEN {s} ELSE LET less == ball[k - 1] IN Wider(less)]
  <2> HIDE DEF Wider
  <2> QED BY <1>4, Zenon DEF ball
<1>6. \A n \in Nat : Within(s, n) = ball[n]
    BY Zenon DEF Within, ball
<1> HIDE DEF ball
<1>7. Within(s, 0) = {s} /\ \A n \in Nat : Within(s, n + 1) = Wider(Within(s, n))
  <2> HIDE DEF Wider
  <2>1. ball[0] = {s}
      BY <1>5
  <2>2. ASSUME NEW n \in Nat PROVE ball[n + 1] = Wider(ball[n])
    <3>1. n + 1 \in Nat /\ n + 1 # 0 /\ (n + 1) - 1 = n
        OBVIOUS
    <3>2. ball[n + 1] = LET less == ball[(n + 1) - 1] IN Wider(less)
        BY <1>5, <3>1
    <3> QED BY <3>1, <3>2
  <2> QED BY <1>6, <2>1, <2>2
<1>8. \A n \in Nat : Within(s, n) \subseteq Sym
  <2> DEFINE S == {n \in Nat : Within(s, n) \subseteq Sym}
  <2>1. 0 \in S
      BY <1>7
  <2>2. \A n \in S \intersect Nat : n + 1 \in S
      BY <1>7, NextTypes DEF Next1
  <2> HIDE DEF S
  <2>3. Nat \subseteq S
      BY <2>1, <2>2, SetInduction
  <2> QED BY <2>3 DEF S
<1> QED BY <1>7, <1>8 DEF Next1

LEMMA WithinGrows ==
    ASSUME \A e \in edges : e.dst \in Sym, NEW s \in Sym, NEW m \in Nat, NEW n \in Nat, m <= n
    PROVE  Within(s, m) \subseteq Within(s, n)
<1> DEFINE S == {k \in Nat : Within(s, m) \subseteq Within(s, m + k)}
<1>1. 0 \in S
    OBVIOUS
<1>2. ASSUME NEW k \in S \intersect Nat PROVE k + 1 \in S
  <2>1. m + k \in Nat /\ m + (k + 1) = (m + k) + 1
      OBVIOUS
  <2> QED BY <2>1, WithinRec
<1> HIDE DEF S
<1>3. Nat \subseteq S
    BY <1>1, <1>2, SetInduction
<1>4. n - m \in Nat /\ m + (n - m) = n
    OBVIOUS
<1> QED BY <1>3, <1>4 DEF S

\* A set that holds s and whatever its members point to holds every ball.
LEMMA ClosedHolds ==
    ASSUME \A e \in edges : e.dst \in Sym, NEW s \in Sym, NEW C, s \in C,
           \A x \in C : Next1(x) \subseteq C, NEW n \in Nat
    PROVE  Within(s, n) \subseteq C
<1> DEFINE S == {k \in Nat : Within(s, k) \subseteq C}
<1>1. 0 \in S
    BY WithinRec
<1>2. ASSUME NEW k \in S \intersect Nat PROVE k + 1 \in S
    BY WithinRec
<1> HIDE DEF S
<1>3. Nat \subseteq S
    BY <1>1, <1>2, SetInduction
<1> QED BY <1>3 DEF S

\* The parents of the search tree, followed for at most k steps.
Chain(up) ==
    /\ up \in [Nat -> [bfs.seen -> Seq(Sym)]]
    /\ \A s \in bfs.seen : up[0][s] = <<s>>
    /\ \A k \in Nat : \A s \in bfs.seen :
          up[k + 1][s] = IF bfs.parent[s] = NoSym THEN <<s>>
                         ELSE Append(up[k][bfs.parent[s]], s)

LEMMA PathRec ==
    ASSUME TreeInv
    PROVE  \E up : Chain(up) /\ \A s \in bfs.seen : PathTo(s) = up[Cardinality(Sym)][s]
<1> DEFINE V == [bfs.seen -> Seq(Sym)]
           Longer(paths) == [s \in bfs.seen |-> IF bfs.parent[s] = NoSym THEN <<s>>
                                                ELSE Append(paths[bfs.parent[s]], s)]
           v == [s \in bfs.seen |-> <<s>>]
           G == [paths \in V |-> Longer(paths)]
           up[k \in Nat] == [s \in bfs.seen |-> IF k = 0 \/ bfs.parent[s] = NoSym THEN <<s>>
                                               ELSE Append(up[k - 1][bfs.parent[s]], s)]
<1>0. /\ bfs.seen \subseteq Sym /\ bfs.parent \in [bfs.seen -> Sym \union {NoSym}]
      /\ \A s \in bfs.seen : bfs.parent[s] # NoSym => bfs.parent[s] \in bfs.seen
      /\ Cardinality(Sym) \in Nat
    BY SymIsFinite, FS_CardinalityType DEF TreeInv, WalkTypes, Locals, TreeOK
<1>1. v \in V
    BY <1>0
<1>2. \A paths \in V : Longer(paths) \in V
  <2> SUFFICES ASSUME NEW paths \in V, NEW s \in bfs.seen
               PROVE  Longer(paths)[s] \in Seq(Sym)
      OBVIOUS
  <2>1. s \in Sym /\ (bfs.parent[s] # NoSym => paths[bfs.parent[s]] \in Seq(Sym))
      BY <1>0
  <2> QED BY <2>1
<1>3. PICK f \in [Nat -> V] : f[0] = v /\ \A n \in Nat : f[n + 1] = Longer(f[n])
  <2>1. G \in [V -> V]
      BY <1>2
  <2>2. \A paths \in V : G[paths] = Longer(paths)
      OBVIOUS
  <2> HIDE DEF G, V, Longer, v, up
  <2>3. PICK f \in [Nat -> V] : f[0] = v /\ \A n \in Nat : f[n + 1] = G[f[n]]
      BY <1>1, <2>1, Iterates
  <2> QED BY <2>2, <2>3
<1>4. f = [k \in Nat |-> [s \in bfs.seen |-> IF k = 0 \/ bfs.parent[s] = NoSym THEN <<s>>
                                            ELSE Append(f[k - 1][bfs.parent[s]], s)]]
  <2>1. ASSUME NEW k \in Nat
        PROVE  f[k] = [s \in bfs.seen |-> IF k = 0 \/ bfs.parent[s] = NoSym THEN <<s>>
                                          ELSE Append(f[k - 1][bfs.parent[s]], s)]
    <3>1. CASE k = 0
        BY <1>3, <3>1
    <3>2. CASE k # 0
      <4>1. k - 1 \in Nat /\ (k - 1) + 1 = k
          BY <3>2
      <4>2. f[k] = Longer(f[k - 1])
          BY <1>3, <4>1
      <4> QED BY <3>2, <4>2
    <3> QED BY <3>1, <3>2
  <2> QED BY <1>3, <2>1
<1>5. up = [k \in Nat |-> [s \in bfs.seen |-> IF k = 0 \/ bfs.parent[s] = NoSym THEN <<s>>
                                              ELSE Append(up[k - 1][bfs.parent[s]], s)]]
    BY <1>4, Zenon DEF up
<1>6. \A s : PathTo(s) = up[Cardinality(Sym)][s]
    BY Zenon DEF PathTo, up
<1> HIDE DEF up
<1>7. up[0] = v
    BY <1>5
<1>8. ASSUME NEW k \in Nat PROVE up[k + 1] = Longer(up[k])
  <2>1. k + 1 \in Nat /\ k + 1 # 0 /\ (k + 1) - 1 = k
      OBVIOUS
  <2>2. up[k + 1] = [s \in bfs.seen |-> IF k + 1 = 0 \/ bfs.parent[s] = NoSym THEN <<s>>
                                        ELSE Append(up[(k + 1) - 1][bfs.parent[s]], s)]
      BY <1>5, <2>1
  <2> QED BY <2>1, <2>2
<1>9. up \in [Nat -> V]
  <2> DEFINE S == {k \in Nat : up[k] \in V}
  <2> HIDE DEF V, Longer, v
  <2>1. 0 \in S
      BY <1>1, <1>7
  <2>2. \A k \in S \intersect Nat : k + 1 \in S
      BY <1>2, <1>8
  <2> HIDE DEF S
  <2>3. Nat \subseteq S
      BY <2>1, <2>2, SetInduction
  <2> QED BY <1>5, <2>3 DEF S
<1>10. Chain(up)
    BY <1>7, <1>8, <1>9 DEF Chain
<1> QED BY <1>6, <1>10

IsPath(p, s) ==
    /\ p \in Seq(Sym) /\ Len(p) = bfs.level[s] + 1
    /\ p[1] = ask.from /\ p[Len(p)] = s
    /\ \A i \in 1..(Len(p) - 1) : p[i + 1] \in Next1(p[i])

LEMMA PathsOfTheTree ==
    ASSUME TreeInv, NEW s \in bfs.seen
    PROVE  IsPath(PathTo(s), s)
<1>0. /\ bfs.seen \subseteq Sym /\ bfs.parent \in [bfs.seen -> Sym \union {NoSym}]
      /\ bfs.level \in [bfs.seen -> Nat]
      /\ ask.from \in bfs.seen /\ bfs.level[ask.from] = 0 /\ bfs.parent[ask.from] = NoSym
      /\ \A x \in bfs.seen : bfs.level[x] < Cardinality(bfs.seen)
      /\ \A x \in bfs.seen \ {ask.from} :
          /\ bfs.parent[x] \in bfs.seen
          /\ bfs.level[x] = bfs.level[bfs.parent[x]] + 1
          /\ x \in Next1(bfs.parent[x])
    BY DEF TreeInv, WalkTypes, Locals, TreeOK
<1>1. PICK up : Chain(up) /\ \A x \in bfs.seen : PathTo(x) = up[Cardinality(Sym)][x]
    BY PathRec
<1> DEFINE Good(k) == \A x \in bfs.seen : bfs.level[x] <= k => IsPath(up[k][x], x)
           S == {k \in Nat : Good(k)}
<1>2. \A k \in Nat : IsPath(up[k][ask.from], ask.from)
  <2>1. ASSUME NEW k \in Nat PROVE up[k][ask.from] = <<ask.from>>
    <3>1. CASE k = 0
        BY <1>0, <1>1, <3>1 DEF Chain
    <3>2. CASE k # 0
      <4>1. k - 1 \in Nat /\ (k - 1) + 1 = k
          BY <3>2
      <4>2. up[(k - 1) + 1][ask.from] = <<ask.from>>
          BY <1>0, <1>1, <4>1 DEF Chain
      <4> QED BY <4>1, <4>2
    <3> QED BY <3>1, <3>2
  <2>2. IsPath(<<ask.from>>, ask.from)
    <3>1. ask.from \in Sym
        BY <1>0
    <3> DEFINE p == <<ask.from>>
    <3>2. p \in Seq(Sym) /\ Len(p) = 1 /\ p[1] = ask.from
        BY <3>1
    <3> HIDE DEF p
    <3> QED BY <1>0, <3>2 DEF IsPath, p
  <2> QED BY <2>1, <2>2
<1>3. 0 \in S
  <2>1. ASSUME NEW x \in bfs.seen, bfs.level[x] <= 0 PROVE x = ask.from
    <3>1. bfs.level[x] = 0
        BY <1>0, <2>1
    <3>2. CASE x # ask.from
      <4>1. bfs.level[x] = bfs.level[bfs.parent[x]] + 1 /\ bfs.level[bfs.parent[x]] \in Nat
          BY <1>0, <3>2
      <4> QED BY <3>1, <4>1
    <3> QED BY <3>2
  <2> QED BY <1>2, <2>1
<1>4. ASSUME NEW k \in S \intersect Nat PROVE k + 1 \in S
  <2> SUFFICES ASSUME NEW x \in bfs.seen, bfs.level[x] <= k + 1, x # ask.from
               PROVE  IsPath(up[k + 1][x], x)
      BY <1>2
  <2> DEFINE y == bfs.parent[x]
             p == up[k][y]
  <2>1. /\ y \in bfs.seen /\ y # NoSym /\ x \in Next1(y) /\ x \in Sym
        /\ bfs.level[x] = bfs.level[y] + 1 /\ bfs.level[y] \in Nat
      BY <1>0, NoSymIsNoSymbol
  <2>2. IsPath(p, y)
      BY <2>1
  <2>3. up[k + 1][x] = Append(p, x)
      BY <1>1, <2>1 DEF Chain
  <2> HIDE DEF y, p
  <2> DEFINE q == Append(p, x)
  <2>4. /\ p \in Seq(Sym) /\ Len(p) = bfs.level[y] + 1
        /\ p[1] = ask.from /\ p[Len(p)] = y
        /\ \A i \in 1..(Len(p) - 1) : p[i + 1] \in Next1(p[i])
      BY <2>2 DEF IsPath
  <2>5. /\ q \in Seq(Sym) /\ Len(q) = Len(p) + 1 /\ q[Len(p) + 1] = x
        /\ \A i \in 1..Len(p) : q[i] = p[i]
      BY <2>1, <2>4
  <2>6. ASSUME NEW i \in 1..(Len(q) - 1) PROVE q[i + 1] \in Next1(q[i])
    <3>1. CASE i = Len(p)
        BY <2>1, <2>4, <2>5, <3>1
    <3>2. CASE i # Len(p)
      <4>1. i \in 1..(Len(p) - 1) /\ i + 1 \in 1..Len(p) /\ i \in 1..Len(p)
        <5>1. Len(p) \in Nat /\ Len(q) = Len(p) + 1
            BY <2>4, <2>5
        <5> QED BY <3>2, <5>1
      <4> QED BY <2>4, <2>5, <4>1
    <3> QED BY <3>1, <3>2
  <2>7. q[1] = ask.from
      BY <2>1, <2>4, <2>5
  <2> HIDE DEF q
  <2> QED BY <2>1, <2>3, <2>4, <2>5, <2>6, <2>7 DEF IsPath, q
<1>5. Cardinality(bfs.seen) <= Cardinality(Sym) /\ Cardinality(Sym) \in Nat
      /\ Cardinality(bfs.seen) \in Nat
    BY <1>0, SymIsFinite, FS_Subset, FS_CardinalityType
<1>6. Nat \subseteq S
  <2> HIDE DEF S
  <2> QED BY <1>3, <1>4, SetInduction
<1>7. Good(Cardinality(Sym)) /\ bfs.level[s] <= Cardinality(Sym)
    BY <1>0, <1>5, <1>6
<1> QED BY <1>1, <1>7

-----------------------------------------------------------------------------
(* The search tree and the queues. *)

WalkFixed == UNCHANGED <<edges, ask>>

LEMMA FieldTypes ==
    ASSUME TreeInv
    PROVE  /\ bfs.status \in {"level", "node", "done"} /\ bfs.d \in Nat \ {0}
           /\ bfs.frontier \in Seq(Sym) /\ bfs.nxt \in Seq(Sym) /\ bfs.rows \in SUBSET edges
           /\ bfs.left \in Nat /\ bfs.seen \in SUBSET Sym /\ bfs.level \in [bfs.seen -> Nat]
           /\ bfs.parent \in [bfs.seen -> Sym \union {NoSym}] /\ bfs.answer \in Seq(Sym)
           /\ IsFiniteSet(bfs.seen) /\ Cardinality(bfs.seen) \in Nat
           /\ \A s : IsFiniteSet(RowsAt(s)) /\ Cardinality(RowsAt(s)) \in Nat
           /\ Limit \in Nat /\ ask.depth \in Nat /\ ask.max \in Nat /\ ask.from \in Sym
<1>1. bfs \in Locals /\ ask \in Request /\ RowLimit \in Nat /\ IsFiniteSet(edges)
    BY DEF TreeInv, WalkTypes
<1>2. bfs.seen \in SUBSET Sym
    BY <1>1 DEF Locals
<1>3. IsFiniteSet(bfs.seen) /\ Cardinality(bfs.seen) \in Nat
    BY <1>2, SymIsFinite, FS_Subset, FS_CardinalityType
<1>4. \A s : RowsAt(s) \subseteq edges
    BY DEF RowsAt, EdgesAt, WalkGraph
<1>5. \A s : IsFiniteSet(RowsAt(s)) /\ Cardinality(RowsAt(s)) \in Nat
    BY <1>1, <1>4, FS_Subset, FS_CardinalityType
<1>6. Limit \in Nat /\ ask.depth \in Nat /\ ask.max \in Nat /\ ask.from \in Sym
    BY <1>1 DEF Request, Limit
<1> QED BY <1>1, <1>2, <1>3, <1>5, <1>6 DEF Locals

LEMMA StopKeepsTree == TreeInv /\ Stop /\ WalkFixed => TreeInv'
<1> SUFFICES ASSUME TreeInv, Stop, WalkFixed PROVE TreeInv'
    OBVIOUS
<1>1. bfs' = [bfs EXCEPT !.status = "done"]
    BY DEF Stop
<1>2. bfs \in Locals
    BY DEF TreeInv, WalkTypes
<1>3. /\ bfs'.status = "done" /\ bfs'.d = bfs.d /\ bfs'.frontier = bfs.frontier
      /\ bfs'.nxt = bfs.nxt /\ bfs'.seen = bfs.seen /\ bfs'.level = bfs.level
      /\ bfs'.parent = bfs.parent /\ bfs' \in Locals'
    BY <1>1, <1>2 DEF Locals, WalkFixed
<1> QED BY <1>3 DEF WalkFixed, TreeInv, WalkTypes, TreeOK, QueuesOK, Next1, WalkGraph

LEMMA OpenKeepsTree == TreeInv /\ Open /\ WalkFixed => TreeInv'
<1> SUFFICES ASSUME TreeInv, Open, WalkFixed PROVE TreeInv'
    OBVIOUS
<1>1. /\ bfs' = [bfs EXCEPT !.status = "node", !.rows = RowsAt(Head(bfs.frontier)), !.left = Limit]
      /\ bfs.d <= ask.depth /\ bfs.frontier # << >>
    BY DEF Open
<1>2. bfs \in Locals
    BY DEF TreeInv, WalkTypes
<1>3. RowsAt(Head(bfs.frontier)) \in SUBSET edges /\ Limit \in Nat
    BY FieldTypes DEF RowsAt, EdgesAt, WalkGraph
<1>4. /\ bfs'.status = "node" /\ bfs'.d = bfs.d /\ bfs'.frontier = bfs.frontier
      /\ bfs'.nxt = bfs.nxt /\ bfs'.seen = bfs.seen /\ bfs'.level = bfs.level
      /\ bfs'.parent = bfs.parent /\ bfs' \in Locals'
      /\ bfs'.rows = RowsAt(Head(bfs.frontier))
    BY <1>1, <1>2, <1>3 DEF Locals, WalkFixed
<1>5. bfs'.rows \subseteq RowsAt(Head(bfs.frontier))'
    BY <1>4 DEF RowsAt, EdgesAt, WalkGraph, WalkFixed
<1> QED BY <1>1, <1>4, <1>5 DEF WalkFixed, TreeInv, WalkTypes, TreeOK, QueuesOK, Next1, WalkGraph

LEMMA CloseKeepsTree == TreeInv /\ Close /\ WalkFixed => TreeInv'
<1> SUFFICES ASSUME TreeInv, Close, WalkFixed PROVE TreeInv'
    OBVIOUS
<1>1. /\ bfs' = [bfs EXCEPT !.status = "level", !.frontier = Tail(@), !.rows = {}]
      /\ bfs.status = "node"
    BY DEF Close
<1>2. bfs \in Locals /\ bfs.frontier # << >> /\ bfs.frontier \in Seq(Sym)
    BY <1>1, FieldTypes DEF TreeInv, WalkTypes, QueuesOK
<1>3. /\ Tail(bfs.frontier) \in Seq(Sym)
      /\ \A i \in DOMAIN Tail(bfs.frontier) :
            i + 1 \in DOMAIN bfs.frontier /\ Tail(bfs.frontier)[i] = bfs.frontier[i + 1]
    BY <1>2
<1>4. /\ bfs'.status = "level" /\ bfs'.d = bfs.d /\ bfs'.frontier = Tail(bfs.frontier)
      /\ bfs'.nxt = bfs.nxt /\ bfs'.seen = bfs.seen /\ bfs'.level = bfs.level
      /\ bfs'.parent = bfs.parent /\ bfs' \in Locals'
    BY <1>1, <1>2, <1>3 DEF Locals, WalkFixed
<1>5. \A i \in DOMAIN bfs'.frontier :
          bfs'.frontier[i] \in bfs.seen /\ bfs.level[bfs'.frontier[i]] = bfs.d - 1
    BY <1>3, <1>4 DEF TreeInv, QueuesOK
<1> QED BY <1>4, <1>5 DEF WalkFixed, TreeInv, WalkTypes, TreeOK, QueuesOK, Next1, WalkGraph

LEMMA NextLevelKeepsTree == TreeInv /\ NextLevel /\ WalkFixed => TreeInv'
<1> SUFFICES ASSUME TreeInv, NextLevel, WalkFixed PROVE TreeInv'
    OBVIOUS
<1>2. bfs \in Locals
    BY DEF TreeInv, WalkTypes
<1>3. CASE bfs.nxt = << >>
  <2>1. bfs' = [bfs EXCEPT !.status = "done"]
      BY <1>3 DEF NextLevel
  <2>2. /\ bfs'.status = "done" /\ bfs'.d = bfs.d /\ bfs'.frontier = bfs.frontier
        /\ bfs'.nxt = bfs.nxt /\ bfs'.seen = bfs.seen /\ bfs'.level = bfs.level
        /\ bfs'.parent = bfs.parent /\ bfs' \in Locals'
      BY <1>2, <2>1 DEF Locals, WalkFixed
  <2> QED BY <2>2 DEF WalkFixed, TreeInv, WalkTypes, TreeOK, QueuesOK, Next1, WalkGraph
<1>4. CASE bfs.nxt # << >>
  <2>1. /\ bfs' = [bfs EXCEPT !.frontier = bfs.nxt, !.nxt = << >>, !.d = @ + 1]
        /\ bfs.d <= ask.depth
      BY <1>4 DEF NextLevel
  <2>2. /\ bfs.d \in Nat \ {0} /\ bfs.nxt \in Seq(Sym) /\ ask.depth \in Nat
        /\ bfs.level \in [bfs.seen -> Nat]
      BY FieldTypes
  <2>3. /\ bfs'.status = bfs.status /\ bfs'.d = bfs.d + 1 /\ bfs'.frontier = bfs.nxt
        /\ bfs'.nxt = << >> /\ bfs'.seen = bfs.seen /\ bfs'.level = bfs.level
        /\ bfs'.parent = bfs.parent /\ bfs' \in Locals'
    <3>1. << >> \in Seq(Sym) /\ bfs.d + 1 \in Nat \ {0}
        BY <2>2
    <3>2. /\ bfs'.status = bfs.status /\ bfs'.d = bfs.d + 1 /\ bfs'.frontier = bfs.nxt
          /\ bfs'.nxt = << >> /\ bfs'.seen = bfs.seen /\ bfs'.level = bfs.level
          /\ bfs'.parent = bfs.parent
        BY <1>2, <2>1 DEF Locals
    <3> DEFINE empty == << >>
    <3>3. bfs' = [bfs EXCEPT !.frontier = bfs.nxt, !.nxt = empty, !.d = bfs.d + 1] /\ empty \in Seq(Sym)
        BY <2>1, <3>1
    <3> HIDE DEF empty
    <3>4. bfs' \in Locals'
        BY <1>2, <2>2, <3>1, <3>2, <3>3 DEF Locals, WalkFixed
    <3> QED BY <3>2, <3>4
  <2>4. bfs.status = "level"
      BY DEF NextLevel
  <2>5. QueuesOK'
    <3>1. /\ \A i \in DOMAIN bfs.nxt : bfs.nxt[i] \in bfs.seen /\ bfs.level[bfs.nxt[i]] = bfs.d
          /\ \A s \in bfs.seen : bfs.level[s] <= bfs.d
        BY DEF TreeInv, QueuesOK
    <3>2. \A s \in bfs.seen : bfs.level[s] <= bfs.d + 1 /\ bfs.level[s] # bfs.d + 1
        BY <2>2, <3>1
    <3>3. bfs.d + 1 <= ask.depth + 1 /\ (bfs.d + 1) - 1 = bfs.d
        BY <2>1, <2>2
    <3> QED BY <2>3, <2>4, <3>1, <3>2, <3>3 DEF QueuesOK, WalkFixed
  <2> QED BY <2>3, <2>5 DEF WalkFixed, TreeInv, WalkTypes, TreeOK, Next1, WalkGraph
<1> QED BY <1>3, <1>4

\* The records of a search, with the sets their fields range over.
Bfs(S, L, P) ==
    [status : {"level", "node", "done"}, d : Nat \ {0}, frontier : Seq(Sym), nxt : Seq(Sym),
     rows : SUBSET edges, left : Nat, seen : S, level : L, parent : P, answer : Seq(Sym)]

\* A row that leads to a symbol not seen before.
Found(e, status, answer) ==
    /\ bfs.status = "node" /\ bfs.left > 0 /\ e \in bfs.rows /\ e.dst \notin bfs.seen
    /\ bfs'.status = status /\ bfs'.d = bfs.d /\ bfs'.frontier = bfs.frontier
    /\ bfs'.nxt = Append(bfs.nxt, e.dst) /\ bfs'.rows = bfs.rows \ {e}
    /\ bfs'.left = bfs.left - 1 /\ bfs'.seen = bfs.seen \union {e.dst}
    /\ bfs'.level = [s \in bfs.seen \union {e.dst} |-> IF s = e.dst THEN bfs.d ELSE bfs.level[s]]
    /\ bfs'.parent = [s \in bfs.seen \union {e.dst} |->
                        IF s = e.dst THEN Head(bfs.frontier) ELSE bfs.parent[s]]
    /\ bfs'.answer = answer

\* A row that leads nowhere new.
Passed(e) ==
    /\ bfs.status = "node" /\ bfs.left > 0 /\ e \in bfs.rows /\ e.dst \in bfs.seen
    /\ bfs' = [bfs EXCEPT !.rows = @ \ {e}, !.left = @ - 1]

LEMMA RowCases ==
    ASSUME TreeInv, Row, edges' = edges
    PROVE  \E e \in bfs.rows :
              \/ Passed(e)
              \/ /\ bfs' \in Locals' /\ ask.job = "walk"
                 /\ Found(e, IF Full THEN "done" ELSE "node", bfs.answer)
              \/ /\ bfs' \in Locals' /\ ask.job # "walk"
                 /\ Found(e, IF e.dst = ask.to THEN "done" ELSE "node",
                          IF e.dst = ask.to THEN Append(PathTo(Head(bfs.frontier)), e.dst)
                          ELSE NoAnswer)
<1>1. bfs \in Locals /\ bfs.status = "node" /\ bfs.left > 0
    BY DEF TreeInv, WalkTypes, Row
<1>2. PICK e \in bfs.rows :
             bfs' = IF Known(e) THEN [bfs EXCEPT !.rows = @ \ {e}, !.left = @ - 1]
                    ELSE IF ask.job = "walk"
                    THEN [Discover(e, Head(bfs.frontier)) EXCEPT
                            !.status = IF Full THEN "done" ELSE "node"]
                    ELSE [Discover(e, Head(bfs.frontier)) EXCEPT
                            !.status = IF e.dst = ask.to THEN "done" ELSE "node",
                            !.answer = IF e.dst = ask.to
                                       THEN Append(PathTo(Head(bfs.frontier)), e.dst)
                                       ELSE NoAnswer]
    BY DEF Row
<1>3. CASE Known(e)
    BY <1>1, <1>2, <1>3 DEF Known, Passed
<1> DEFINE h == Head(bfs.frontier)
           b == bfs.seen \union {e.dst}
           v == [s \in b |-> IF s = e.dst THEN bfs.d ELSE bfs.level[s]]
           p == [s \in b |-> IF s = e.dst THEN h ELSE bfs.parent[s]]
           n == Append(bfs.nxt, e.dst)
           r == bfs.rows \ {e}
           l == bfs.left - 1
           L2 == [b -> Nat]
           P2 == [b -> Sym \union {NoSym}]
<1>4. /\ e \in edges /\ e.dst \in Sym /\ h \in bfs.seen /\ h \in Sym
      /\ bfs \in Bfs(SUBSET Sym, [bfs.seen -> Nat], [bfs.seen -> Sym \union {NoSym}])
  <2>1. e \in edges /\ e.dst \in Sym /\ bfs.frontier \in Seq(Sym)
      BY FieldTypes DEF TreeInv, WalkTypes
  <2>2. bfs.frontier # << >> /\ \A i \in DOMAIN bfs.frontier : bfs.frontier[i] \in bfs.seen
      BY <1>1 DEF TreeInv, QueuesOK
  <2>3. h \in bfs.seen
      BY <2>1, <2>2
  <2>4. bfs.seen \subseteq Sym
      BY FieldTypes
  <2> QED BY <1>1, <2>1, <2>3, <2>4 DEF Locals, Bfs
<1>5. /\ b \in SUBSET Sym /\ v \in L2 /\ p \in P2 /\ n \in Seq(Sym)
      /\ r \in SUBSET edges /\ l \in Nat
    BY <1>1, <1>4, FieldTypes
<1>6. PICK y \in Bfs(SUBSET Sym, L2, P2) :
           /\ y = Discover(e, h)
           /\ y.status = bfs.status /\ y.d = bfs.d /\ y.frontier = bfs.frontier /\ y.nxt = n
           /\ y.rows = r /\ y.left = l /\ y.seen = b /\ y.level = v /\ y.parent = p
           /\ y.answer = bfs.answer
  <2>1. Discover(e, h) = [bfs EXCEPT !.seen = b, !.level = v, !.parent = p,
                                     !.nxt = n, !.rows = r, !.left = l]
      BY Zenon DEF Discover
  <2> DEFINE S == SUBSET Sym
             L == [bfs.seen -> Nat]
             P == [bfs.seen -> Sym \union {NoSym}]
             y == [bfs EXCEPT !.seen = b, !.level = v, !.parent = p,
                              !.nxt = n, !.rows = r, !.left = l]
  <2> HIDE DEF b, v, p, n, r, l, L2, P2, h, S, L, P
  <2>2. bfs \in Bfs(S, L, P) /\ b \in S
      BY <1>4, <1>5 DEF S, L, P
  <2>3. y \in Bfs(S, L2, P2)
      BY <1>5, <2>2 DEF Bfs
  <2>4. /\ y.status = bfs.status /\ y.d = bfs.d /\ y.frontier = bfs.frontier /\ y.nxt = n
        /\ y.rows = r /\ y.left = l /\ y.seen = b /\ y.level = v /\ y.parent = p
        /\ y.answer = bfs.answer
      BY <2>2 DEF Bfs
  <2>5. y \in Bfs(SUBSET Sym, L2, P2) /\ y = Discover(e, h)
      BY <2>1, <2>3 DEF S
  <2> QED BY <2>4, <2>5
<1>7. ASSUME NEW s \in {"level", "node", "done"}, NEW a \in Seq(Sym), ~Known(e),
             \/ bfs' = [y EXCEPT !.status = s] /\ a = y.answer
             \/ bfs' = [y EXCEPT !.status = s, !.answer = a]
      PROVE  bfs' \in Locals' /\ Found(e, s, a)
  <2>1. /\ bfs' \in Bfs(SUBSET Sym, L2, P2)
        /\ bfs'.status = s /\ bfs'.d = y.d /\ bfs'.frontier = y.frontier /\ bfs'.nxt = y.nxt
        /\ bfs'.rows = y.rows /\ bfs'.left = y.left /\ bfs'.seen = y.seen
        /\ bfs'.level = y.level /\ bfs'.parent = y.parent /\ bfs'.answer = a
    <3> DEFINE S == SUBSET Sym
    <3> HIDE DEF L2, P2, S
    <3>1. y \in Bfs(S, L2, P2)
        BY DEF S
    <3>2. CASE bfs' = [y EXCEPT !.status = s] /\ a = y.answer
      <4>1. bfs' \in Bfs(S, L2, P2)
          BY <3>1, <3>2 DEF Bfs
      <4> QED BY <3>1, <3>2, <4>1 DEF Bfs, S
    <3>3. CASE bfs' = [y EXCEPT !.status = s, !.answer = a]
      <4>1. bfs' \in Bfs(S, L2, P2)
          BY <3>1, <3>3 DEF Bfs
      <4> QED BY <3>1, <3>3, <4>1 DEF Bfs, S
    <3> QED BY <1>7, <3>2, <3>3
  <2>2. bfs' \in Locals'
    <3>1. Locals' = [status : {"level", "node", "done"}, d : Nat \ {0}, frontier : Seq(Sym),
           nxt : Seq(Sym), rows : SUBSET edges, left : Nat, seen : SUBSET Sym,
           level : [b -> Nat], parent : [b -> Sym \union {NoSym}], answer : Seq(Sym)]
        BY <1>6, <2>1 DEF Locals
    <3> QED BY <2>1, <3>1 DEF Bfs
  <2> QED BY <1>1, <1>6, <1>7, <2>1, <2>2 DEF Found, Known
<1>8. CASE ~Known(e) /\ ask.job = "walk"
  <2> DEFINE s == IF Full THEN "done" ELSE "node"
  <2>1. bfs' = [y EXCEPT !.status = s]
      BY <1>2, <1>6, <1>8
  <2>2. s \in {"level", "node", "done"} /\ y.answer \in Seq(Sym) /\ y.answer = bfs.answer
      BY <1>6, FieldTypes
  <2>3. bfs' \in Locals' /\ Found(e, s, bfs.answer)
      BY <1>7, <1>8, <2>1, <2>2
  <2> QED BY <1>8, <2>3
<1>9. CASE ~Known(e) /\ ask.job # "walk"
  <2> DEFINE s == IF e.dst = ask.to THEN "done" ELSE "node"
             a == IF e.dst = ask.to THEN Append(PathTo(h), e.dst) ELSE NoAnswer
  <2>1. bfs' = [y EXCEPT !.status = s, !.answer = a]
      BY <1>2, <1>6, <1>9
  <2>2. s \in {"level", "node", "done"} /\ a \in Seq(Sym)
    <3>1. PathTo(h) \in Seq(Sym)
        BY <1>4, PathsOfTheTree DEF IsPath
    <3>2. Append(PathTo(h), e.dst) \in Seq(Sym) /\ NoAnswer \in Seq(Sym)
        BY <1>4, <3>1 DEF NoAnswer
    <3> QED BY <3>2
  <2> HIDE DEF s, a
  <2>3. bfs' \in Locals' /\ Found(e, s, a)
      BY <1>7, <1>9, <2>1, <2>2
  <2> QED BY <1>9, <2>3 DEF s, a
<1> QED BY <1>3, <1>8, <1>9

LEMMA RowKeepsTree == TreeInv /\ Row /\ WalkFixed => TreeInv'
<1> SUFFICES ASSUME TreeInv, Row, WalkFixed PROVE TreeInv'
    OBVIOUS
<1>0. edges' = edges /\ ask' = ask
    BY DEF WalkFixed
<1>1. PICK e \in bfs.rows :
          \/ Passed(e)
          \/ /\ bfs' \in Locals' /\ ask.job = "walk"
             /\ Found(e, IF Full THEN "done" ELSE "node", bfs.answer)
          \/ /\ bfs' \in Locals' /\ ask.job # "walk"
             /\ Found(e, IF e.dst = ask.to THEN "done" ELSE "node",
                      IF e.dst = ask.to THEN Append(PathTo(Head(bfs.frontier)), e.dst)
                      ELSE NoAnswer)
    BY <1>0, RowCases
<1>2. CASE Passed(e)
  <2>1. bfs \in Locals /\ bfs' = [bfs EXCEPT !.rows = @ \ {e}, !.left = @ - 1] /\ bfs.left > 0
        /\ bfs.left \in Nat
      BY <1>2, FieldTypes DEF Passed, TreeInv, WalkTypes
  <2>2. bfs.left - 1 \in Nat /\ bfs.rows \ {e} \in SUBSET edges
      BY <2>1, FieldTypes
  <2>3. /\ bfs'.status = bfs.status /\ bfs'.d = bfs.d /\ bfs'.frontier = bfs.frontier
        /\ bfs'.nxt = bfs.nxt /\ bfs'.seen = bfs.seen /\ bfs'.level = bfs.level
        /\ bfs'.parent = bfs.parent /\ bfs'.rows = bfs.rows \ {e} /\ bfs' \in Locals'
      BY <1>0, <2>1, <2>2 DEF Locals
  <2>4. bfs.status = "node" => bfs'.rows \subseteq RowsAt(Head(bfs.frontier))'
      BY <1>0, <2>3 DEF TreeInv, QueuesOK, RowsAt, EdgesAt, WalkGraph
  <2> QED BY <1>0, <2>3, <2>4 DEF TreeInv, WalkTypes, TreeOK, QueuesOK, Next1, WalkGraph
<1>3. ASSUME NEW status \in {"node", "done"}, NEW answer, Found(e, status, answer), bfs' \in Locals'
      PROVE  TreeInv'
  <2> DEFINE h == Head(bfs.frontier)
             x == e.dst
  <2>1. /\ x \notin bfs.seen /\ bfs'.status = status /\ bfs'.d = bfs.d
        /\ bfs'.frontier = bfs.frontier /\ bfs'.nxt = Append(bfs.nxt, x)
        /\ bfs'.rows = bfs.rows \ {e} /\ bfs'.seen = bfs.seen \union {x}
        /\ bfs'.level = [s \in bfs.seen \union {x} |-> IF s = x THEN bfs.d ELSE bfs.level[s]]
        /\ bfs'.parent = [s \in bfs.seen \union {x} |-> IF s = x THEN h ELSE bfs.parent[s]]
        /\ bfs.status = "node"
      BY <1>3 DEF Found
  <2>2. /\ bfs.frontier \in Seq(Sym) /\ bfs.frontier # << >> /\ bfs.d <= ask.depth
        /\ bfs.rows \subseteq RowsAt(h) /\ bfs.d \in Nat \ {0} /\ bfs.nxt \in Seq(Sym)
        /\ bfs.level \in [bfs.seen -> Nat] /\ ask.depth \in Nat
        /\ \A i \in DOMAIN bfs.frontier :
              bfs.frontier[i] \in bfs.seen /\ bfs.level[bfs.frontier[i]] = bfs.d - 1
      BY <2>1, FieldTypes DEF TreeInv, QueuesOK
  <2>3. h \in bfs.seen /\ bfs.level[h] = bfs.d - 1
      BY <2>2
  <2>4. x \in Next1(h)
    <3>1. e \in RowsAt(h)
        BY <2>2
    <3> QED BY <3>1 DEF Next1, RowsAt, Peers, EdgesAt, WalkGraph, Far
  <2>5. \A s : Next1(s)' = Next1(s)
      BY <1>0 DEF Next1, Peers, EdgesAt, WalkGraph
  <2>6. Cardinality(bfs'.seen) = Cardinality(bfs.seen) + 1 /\ Cardinality(bfs.seen) \in Nat
    <3> DEFINE S == bfs.seen
    <3>1. IsFiniteSet(S) /\ x \notin S /\ Cardinality(S) \in Nat /\ bfs'.seen = S \union {x}
        BY <2>1, FieldTypes
    <3> HIDE DEF x, S
    <3>2. Cardinality(S \union {x}) = Cardinality(S) + 1
        BY <3>1, FS_AddElement
    <3> QED BY <3>1, <3>2 DEF S
  <2>7. \A s \in bfs.seen : bfs'.level[s] = bfs.level[s] /\ bfs'.parent[s] = bfs.parent[s]
      BY <2>1
  <2>8. x \in bfs'.seen /\ bfs'.level[x] = bfs.d /\ bfs'.parent[x] = h
      BY <2>1
  <2> HIDE DEF x, h
  <2>9. WalkTypes'
      BY <1>0, <1>3 DEF TreeInv, WalkTypes
  <2>10. TreeOK'
    <3> USE DEF TreeInv, TreeOK
    <3>1. ask.from \in bfs.seen
        BY DEF TreeOK
    <3>2. ask'.from \in bfs'.seen /\ bfs'.level[ask'.from] = 0 /\ bfs'.parent[ask'.from] = NoSym
        BY <1>0, <2>1, <2>7, <3>1
    <3>3. ASSUME NEW s \in bfs'.seen PROVE bfs'.level[s] < Cardinality(bfs'.seen)
      <4>1. CASE s = x
        <5>1. bfs.level[h] < Cardinality(bfs.seen)
            BY <2>3
        <5> QED BY <2>2, <2>3, <2>6, <2>8, <4>1, <5>1
      <4>2. CASE s \in bfs.seen
        <5>1. bfs.level[s] < Cardinality(bfs.seen) /\ bfs.level[s] \in Nat
            BY <2>2, <4>2
        <5> QED BY <2>6, <2>7, <4>2, <5>1
      <4> QED BY <2>1, <4>1, <4>2
    <3>4. ASSUME NEW s \in bfs'.seen \ {ask'.from}
          PROVE  /\ bfs'.parent[s] \in bfs'.seen
                 /\ bfs'.level[s] = bfs'.level[bfs'.parent[s]] + 1
                 /\ s \in Next1(bfs'.parent[s])
      <4>1. CASE s = x
        <5>1. bfs'.level[h] = bfs.d - 1 /\ (bfs.d - 1) + 1 = bfs.d
            BY <2>2, <2>3, <2>7
        <5> QED BY <2>1, <2>3, <2>4, <2>8, <4>1, <5>1
      <4>2. CASE s \in bfs.seen
        <5>1. /\ bfs.parent[s] \in bfs.seen /\ s \in Next1(bfs.parent[s])
              /\ bfs.level[s] = bfs.level[bfs.parent[s]] + 1
            BY <1>0, <4>2
        <5> QED BY <2>1, <2>7, <4>2, <5>1
      <4> QED BY <2>1, <4>1, <4>2
    <3> QED BY <1>0, <3>2, <3>3, <3>4 DEF Next1, WalkGraph
  <2>11. QueuesOK'
    <3> USE DEF TreeInv, QueuesOK
    <3>1. \A i \in DOMAIN bfs'.frontier :
             bfs'.frontier[i] \in bfs'.seen /\ bfs'.level[bfs'.frontier[i]] = bfs'.d - 1
        BY <2>1, <2>2, <2>7
    <3>2. \A s \in bfs'.seen : bfs'.level[s] <= bfs'.d
        BY <2>1, <2>2, <2>7, <2>8
    <3>3. /\ DOMAIN bfs'.nxt = 1..(Len(bfs.nxt) + 1) /\ DOMAIN bfs.nxt = 1..Len(bfs.nxt)
          /\ Len(bfs.nxt) \in Nat
          /\ bfs'.nxt[Len(bfs.nxt) + 1] = x
          /\ \A i \in DOMAIN bfs.nxt : bfs'.nxt[i] = bfs.nxt[i]
      <4>1. x \in Sym
          BY <2>1, <1>3, FieldTypes DEF Locals, TreeInv, WalkTypes, x
      <4> QED BY <2>1, <2>2, <4>1
    <3>4. ASSUME NEW s \in bfs'.seen, bfs'.level[s] = bfs'.d PROVE \E i \in DOMAIN bfs'.nxt : bfs'.nxt[i] = s
      <4>1. CASE s = x
        <5>1. Len(bfs.nxt) + 1 \in DOMAIN bfs'.nxt
            BY <3>3
        <5> QED BY <3>3, <4>1, <5>1
      <4>2. CASE s \in bfs.seen
        <5>1. bfs.level[s] = bfs.d
            BY <2>1, <2>7, <3>4, <4>2
        <5>2. PICK i \in DOMAIN bfs.nxt : bfs.nxt[i] = s
            BY <4>2, <5>1
        <5>3. i \in DOMAIN bfs'.nxt /\ bfs'.nxt[i] = s
            BY <3>3, <5>2
        <5> QED BY <5>3
      <4> QED BY <2>1, <4>1, <4>2
    <3>5. ASSUME NEW i \in DOMAIN bfs'.nxt
          PROVE  bfs'.nxt[i] \in bfs'.seen /\ bfs'.level[bfs'.nxt[i]] = bfs'.d
      <4>1. CASE i \in DOMAIN bfs.nxt
        <5>1. bfs.nxt[i] \in bfs.seen /\ bfs.level[bfs.nxt[i]] = bfs.d
            BY <4>1
        <5> QED BY <2>1, <2>7, <3>3, <4>1, <5>1
      <4>2. CASE i = Len(bfs.nxt) + 1
          BY <2>1, <2>8, <3>3, <4>2
      <4> QED BY <3>3, <4>1, <4>2
    <3>6. bfs'.rows \subseteq RowsAt(Head(bfs.frontier))'
        BY <1>0, <2>1, <2>2 DEF RowsAt, EdgesAt, WalkGraph, h
    <3>7. bfs'.d <= ask'.depth /\ bfs'.frontier # << >> /\ bfs'.d <= ask'.depth + 1
          /\ ~(bfs'.d > ask'.depth)
        BY <1>0, <2>1, <2>2
    <3> QED BY <2>1, <3>1, <3>2, <3>4, <3>5, <3>6, <3>7
  <2> QED BY <2>9, <2>10, <2>11 DEF TreeInv
<1> QED BY <1>1, <1>2, <1>3

LEMMA TreeInit ==
    ASSUME NEW graphs, GraphsOK(graphs), NEW requests \in SUBSET Request, RowLimit \in Nat,
           WalkInit(graphs, requests)
    PROVE  TreeInv
<1>1. /\ ask \in Request /\ IsFiniteSet(edges) /\ \A e \in edges : e.src \in Sym /\ e.dst \in Sym
      /\ ask.from \in Sym
    BY DEF WalkInit, GraphsOK, Request
<1>2. Fresh(ask.from) \in [status : {"level", "node", "done"}, d : Nat \ {0},
           frontier : Seq(Sym), nxt : Seq(Sym), rows : SUBSET edges, left : Nat,
           seen : SUBSET Sym, level : [{ask.from} -> Nat],
           parent : [{ask.from} -> Sym \union {NoSym}], answer : Seq(Sym)]
    BY <1>1 DEF Fresh, NoAnswer
<1>3. /\ bfs.status \in {"level", "done"} /\ bfs.d = 1 /\ bfs.frontier = <<ask.from>>
      /\ bfs.nxt = << >> /\ bfs.seen = {ask.from} /\ bfs.level[ask.from] = 0
      /\ bfs.parent[ask.from] = NoSym
    BY <1>1 DEF WalkInit, Fresh
<1>4. bfs \in Locals
    BY <1>1, <1>2, <1>3 DEF WalkInit, Fresh, Locals
<1>5. Cardinality({ask.from}) = 1
    BY FS_Singleton
<1>6. TreeOK
    BY <1>3, <1>5 DEF TreeOK
<1>7. QueuesOK
    BY <1>1, <1>3 DEF QueuesOK, Request
<1> QED BY <1>1, <1>4, <1>6, <1>7 DEF TreeInv, WalkTypes

LEMMA TreeStutters == TreeInv /\ UNCHANGED walkVars => TreeInv'
<1> SUFFICES ASSUME TreeInv, UNCHANGED walkVars PROVE TreeInv'
    OBVIOUS
<1>1. bfs' = bfs /\ edges' = edges /\ ask' = ask
    BY DEF walkVars
<1> QED BY <1>1 DEF TreeInv, WalkTypes, Locals, TreeOK, QueuesOK, Next1, WalkGraph, RowsAt, EdgesAt

LEMMA TreeAlways ==
    ASSUME NEW graphs, GraphsOK(graphs), NEW requests \in SUBSET Request, RowLimit \in Nat
    PROVE  WalkSpec(graphs, requests) => []TreeInv
<1>1. WalkInit(graphs, requests) => TreeInv
    BY TreeInit
<1>2. TreeInv /\ [WalkNext]_walkVars => TreeInv'
    BY StopKeepsTree, OpenKeepsTree, NextLevelKeepsTree, RowKeepsTree, CloseKeepsTree, TreeStutters
       DEF WalkNext, WalkFixed
<1> QED BY <1>1, <1>2, PTL DEF WalkSpec

\* Traversal.path_to, for every graph, every request and every order of the rows,
\* whatever was cut off: the recorded parents lead from the start along edges of the
\* graph, in as many steps as the recorded depth.
THEOREM PathsAreReal ==
    ASSUME NEW graphs, GraphsOK(graphs), NEW requests \in SUBSET Request, RowLimit \in Nat
    PROVE  WalkSpec(graphs, requests) => []PathIsReal
<1>1. TreeInv => PathIsReal
  <2> SUFFICES ASSUME TreeInv, NEW s \in bfs.seen
               PROVE  LET p == PathTo(s)
                      IN  /\ p[1] = ask.from /\ p[Len(p)] = s /\ Len(p) = bfs.level[s] + 1
                          /\ \A i \in 1..(Len(p) - 1) : p[i + 1] \in Peers(WalkGraph, p[i], Kinds, "out")
      BY Zenon DEF PathIsReal
  <2> QED BY PathsOfTheTree, Zenon DEF IsPath, Next1
<1> QED BY <1>1, TreeAlways, PTL

-----------------------------------------------------------------------------
(* Levels are balls. *)

Exact == RowsOK /\ LevelsOK /\ AnswerOK

LEMMA Ends == TreeInv => /\ ask.from \in Sym /\ ask.from \in bfs.seen
                         /\ \A e \in edges : e.dst \in Sym
BY FieldTypes DEF TreeInv, WalkTypes, TreeOK

LEMMA SeenIsWithin ==
    ASSUME TreeInv, NEW s \in bfs.seen
    PROVE  s \in Within(ask.from, bfs.level[s])
<1> DEFINE S == {k \in Nat : \A x \in bfs.seen : bfs.level[x] = k => x \in Within(ask.from, k)}
<1>0. bfs.level \in [bfs.seen -> Nat]
    BY FieldTypes
<1>1. \A x \in bfs.seen \ {ask.from} :
          /\ bfs.parent[x] \in bfs.seen /\ bfs.level[x] = bfs.level[bfs.parent[x]] + 1
          /\ x \in Next1(bfs.parent[x])
    BY DEF TreeInv, TreeOK
<1>2. 0 \in S
  <2> SUFFICES ASSUME NEW x \in bfs.seen, bfs.level[x] = 0 PROVE x \in Within(ask.from, 0)
      OBVIOUS
  <2>1. CASE x # ask.from
    <3>1. bfs.level[bfs.parent[x]] \in Nat /\ bfs.level[x] = bfs.level[bfs.parent[x]] + 1
        BY <1>0, <1>1, <2>1
    <3> QED BY <3>1
  <2>2. Within(ask.from, 0) = {ask.from}
      BY Ends, WithinRec
  <2> QED BY <2>1, <2>2
<1>3. ASSUME NEW k \in S \intersect Nat PROVE k + 1 \in S
  <2> SUFFICES ASSUME NEW x \in bfs.seen, bfs.level[x] = k + 1
               PROVE  x \in Within(ask.from, k + 1)
      OBVIOUS
  <2>1. x # ask.from
      BY DEF TreeInv, TreeOK
  <2> DEFINE y == bfs.parent[x]
  <2>2. y \in bfs.seen /\ bfs.level[y] + 1 = k + 1 /\ bfs.level[y] \in Nat /\ x \in Next1(y)
      BY <1>0, <1>1, <2>1
  <2>3. y \in Within(ask.from, k)
      BY <2>2
  <2>4. Within(ask.from, k + 1) = Within(ask.from, k) \union UNION {Next1(z) : z \in Within(ask.from, k)}
      BY Ends, WithinRec
  <2> QED BY <2>2, <2>3, <2>4
<1> HIDE DEF S
<1>4. Nat \subseteq S
    BY <1>2, <1>3, SetInduction
<1> QED BY <1>0, <1>4 DEF S

LEMMA SeenIsWithinReach ==
    ASSUME TreeInv, NEW n \in Nat, \A s \in bfs.seen : bfs.level[s] <= n
    PROVE  bfs.seen \subseteq Within(ask.from, n)
<1> SUFFICES ASSUME NEW s \in bfs.seen PROVE s \in Within(ask.from, n)
    OBVIOUS
<1>1. bfs.level[s] \in Nat /\ bfs.level[s] <= n
    BY FieldTypes
<1>2. Within(ask.from, bfs.level[s]) \subseteq Within(ask.from, n)
    BY <1>1, Ends, WithinGrows
<1> QED BY <1>2, SeenIsWithin

LEMMA WithinFixed ==
    ASSUME WalkFixed
    PROVE  /\ \A s, n : Within(s, n)' = Within(s, n)
           /\ \A s : Next1(s)' = Next1(s) /\ RowsAt(s)' = RowsAt(s)
           /\ Limit' = Limit /\ edges' = edges /\ ask' = ask
<1>1. edges' = edges /\ ask' = ask
    BY DEF WalkFixed
<1>2. \A s, n : Within(s, n)' = Within(s, n)
    BY <1>1 DEF Within, WalkGraph
<1>3. \A s : Next1(s)' = Next1(s) /\ RowsAt(s)' = RowsAt(s)
    BY <1>1 DEF Next1, Peers, RowsAt, EdgesAt, WalkGraph
<1> QED BY <1>1, <1>2, <1>3 DEF Limit

LEMMA StopIsExact ==
    ASSUME TreeInv, Exact, Stop, WalkFixed PROVE Exact'
<1>1. /\ bfs' = [bfs EXCEPT !.status = "done"] /\ bfs \in Locals /\ bfs.status = "level"
      /\ bfs.d > ask.depth
    BY DEF Stop, TreeInv, WalkTypes
<1>2. /\ bfs'.status = "done" /\ bfs'.d = bfs.d /\ bfs'.frontier = bfs.frontier
      /\ bfs'.nxt = bfs.nxt /\ bfs'.seen = bfs.seen /\ bfs'.level = bfs.level
      /\ bfs'.answer = bfs.answer
    BY <1>1 DEF Locals
<1>3. bfs.d \in Nat /\ ask.depth \in Nat /\ bfs.level \in [bfs.seen -> Nat] /\ bfs.nxt \in Seq(Sym)
    BY FieldTypes
<1>4. bfs.d = ask.depth + 1 /\ bfs.nxt = << >>
    BY <1>1, <1>3 DEF TreeInv, QueuesOK
<1>5. \A s \in bfs.seen : bfs.level[s] <= ask.depth
  <2>1. \A s \in bfs.seen : bfs.level[s] <= bfs.d /\ bfs.level[s] # bfs.d
      BY <1>4 DEF TreeInv, QueuesOK
  <2> QED BY <1>3, <1>4, <2>1
<1>6. bfs.seen = Within(ask.from, ask.depth)
  <2>1. bfs.seen \subseteq Within(ask.from, ask.depth)
      BY <1>3, <1>5, SeenIsWithinReach
  <2>2. Within(ask.from, ask.depth) \subseteq bfs.seen
      BY <1>3, <1>4 DEF Exact, LevelsOK
  <2> QED BY <2>1, <2>2
<1>7. RowsOK' /\ LevelsOK'
    BY <1>2, WithinFixed DEF Exact, RowsOK, LevelsOK, Waiting
<1>8. AnswerOK'
    BY <1>1, <1>2, <1>6, WithinFixed DEF Exact, AnswerOK, NoAnswer
<1> QED BY <1>7, <1>8 DEF Exact

LEMMA OpenIsExact ==
    ASSUME TreeInv, EveryRowRead, Exact, Open, WalkFixed PROVE Exact'
<1>1. /\ bfs' = [bfs EXCEPT !.status = "node", !.rows = RowsAt(Head(bfs.frontier)), !.left = Limit]
      /\ bfs \in Locals /\ bfs.status = "level" /\ bfs.frontier # << >>
    BY DEF Open, TreeInv, WalkTypes
<1> DEFINE h == Head(bfs.frontier)
<1>2. /\ bfs'.status = "node" /\ bfs'.d = bfs.d /\ bfs'.frontier = bfs.frontier
      /\ bfs'.nxt = bfs.nxt /\ bfs'.seen = bfs.seen /\ bfs'.level = bfs.level
      /\ bfs'.answer = bfs.answer /\ bfs'.rows = RowsAt(h) /\ bfs'.left = Limit
    BY <1>1 DEF Locals
<1>3. h \in bfs.seen
    BY <1>1, FieldTypes DEF TreeInv, QueuesOK
<1>4. Cardinality(bfs'.rows) <= bfs'.left
    BY <1>2, <1>3 DEF EveryRowRead
<1>5. \A e \in RowsAt(Head(bfs.frontier))' \ bfs'.rows : e.dst \in bfs'.seen
    BY <1>2, WithinFixed
<1>6. RowsOK' /\ LevelsOK'
    BY <1>2, <1>4, <1>5, WithinFixed DEF Exact, RowsOK, LevelsOK, Waiting
<1>7. AnswerOK'
    BY <1>1, <1>2, WithinFixed DEF Exact, AnswerOK, NoAnswer
<1> QED BY <1>6, <1>7 DEF Exact

LEMMA CloseIsExact ==
    ASSUME TreeInv, Exact, Close, WalkFixed PROVE Exact'
<1>1. /\ bfs' = [bfs EXCEPT !.status = "level", !.frontier = Tail(@), !.rows = {}]
      /\ bfs \in Locals /\ bfs.status = "node" /\ (bfs.rows = {} \/ bfs.left = 0)
    BY DEF Close, TreeInv, WalkTypes
<1> DEFINE h == Head(bfs.frontier)
<1>2. /\ bfs'.status = "level" /\ bfs'.d = bfs.d /\ bfs'.frontier = Tail(bfs.frontier)
      /\ bfs'.nxt = bfs.nxt /\ bfs'.seen = bfs.seen /\ bfs'.level = bfs.level
      /\ bfs'.answer = bfs.answer
    BY <1>1 DEF Locals
<1>3. bfs.frontier \in Seq(Sym) /\ bfs.frontier # << >>
    BY <1>1, FieldTypes DEF TreeInv, QueuesOK
<1>4. bfs.rows = {}
  <2>1. IsFiniteSet(bfs.rows) /\ Cardinality(bfs.rows) \in Nat
      BY FieldTypes, FS_Subset, FS_CardinalityType DEF TreeInv, WalkTypes
  <2>2. CASE bfs.left = 0
    <3>1. Cardinality(bfs.rows) <= 0
        BY <1>1, <2>2 DEF Exact, RowsOK
    <3> QED BY <2>1, <3>1, FS_EmptySet
  <2> QED BY <1>1, <2>2
<1>5. Next1(h) \subseteq bfs.seen
  <2>1. Next1(h) = {e.dst : e \in RowsAt(h)}
      BY Ends, NextTypes
  <2>2. \A e \in RowsAt(h) : e.dst \in bfs.seen
      BY <1>1, <1>4 DEF Exact, RowsOK
  <2> QED BY <2>1, <2>2
<1>6. ASSUME NEW s \in bfs.seen, bfs.level[s] < bfs.d,
             ~ \E i \in DOMAIN bfs'.frontier : bfs'.frontier[i] = s
      PROVE  Next1(s) \subseteq bfs.seen
  <2>1. CASE s = h
      BY <1>5, <2>1
  <2>2. CASE s # h
    <3>1. ASSUME NEW i \in DOMAIN bfs.frontier, bfs.frontier[i] = s PROVE FALSE
      <4>1. i # 1
          BY <1>3, <2>2, <3>1
      <4>2. i - 1 \in DOMAIN Tail(bfs.frontier) /\ Tail(bfs.frontier)[i - 1] = bfs.frontier[i]
          BY <1>3, <4>1
      <4> QED BY <1>2, <1>6, <3>1, <4>2
    <3> QED BY <1>6, <3>1 DEF Exact, RowsOK, Waiting
  <2> QED BY <2>1, <2>2
<1>7. RowsOK' /\ LevelsOK'
    BY <1>2, <1>6, WithinFixed DEF Exact, RowsOK, LevelsOK, Waiting
<1>8. AnswerOK'
    BY <1>1, <1>2, WithinFixed DEF Exact, AnswerOK, NoAnswer
<1> QED BY <1>7, <1>8 DEF Exact

LEMMA NextLevelIsExact ==
    ASSUME TreeInv, Exact, NextLevel, WalkFixed PROVE Exact'
<1>1. bfs \in Locals /\ bfs.status = "level" /\ bfs.d <= ask.depth /\ bfs.frontier = << >>
    BY DEF NextLevel, TreeInv, WalkTypes
<1>2. /\ bfs.d \in Nat \ {0} /\ ask.depth \in Nat /\ bfs.level \in [bfs.seen -> Nat]
      /\ bfs.nxt \in Seq(Sym)
    BY FieldTypes
<1>3. \A s \in bfs.seen : bfs.level[s] < bfs.d => Next1(s) \subseteq bfs.seen
    BY <1>1 DEF Exact, RowsOK, Waiting
<1>4. CASE bfs.nxt = << >>
  <2>1. bfs' = [bfs EXCEPT !.status = "done"]
      BY <1>4 DEF NextLevel
  <2>2. /\ bfs'.status = "done" /\ bfs'.d = bfs.d /\ bfs'.frontier = bfs.frontier
        /\ bfs'.nxt = bfs.nxt /\ bfs'.seen = bfs.seen /\ bfs'.level = bfs.level
        /\ bfs'.answer = bfs.answer
      BY <1>1, <2>1 DEF Locals
  <2>3. \A s \in bfs.seen : bfs.level[s] < bfs.d
    <3>1. \A s \in bfs.seen : bfs.level[s] <= bfs.d /\ bfs.level[s] # bfs.d
        BY <1>4 DEF TreeInv, QueuesOK
    <3> QED BY <1>2, <3>1
  <2>4. bfs.seen = Within(ask.from, ask.depth)
    <3>1. \A s \in bfs.seen : bfs.level[s] <= ask.depth
        BY <1>1, <1>2, <2>3
    <3>2. bfs.seen \subseteq Within(ask.from, ask.depth)
        BY <1>2, <3>1, SeenIsWithinReach
    <3>3. Within(ask.from, ask.depth) \subseteq bfs.seen
        BY <1>2, <1>3, <2>3, Ends, ClosedHolds
    <3> QED BY <3>2, <3>3
  <2>5. RowsOK' /\ LevelsOK'
      BY <2>2, WithinFixed DEF Exact, RowsOK, LevelsOK, Waiting
  <2>6. AnswerOK'
      BY <1>1, <2>2, <2>4, WithinFixed DEF Exact, AnswerOK, NoAnswer
  <2> QED BY <2>5, <2>6 DEF Exact
<1>5. CASE bfs.nxt # << >>
  <2>1. bfs' = [bfs EXCEPT !.frontier = bfs.nxt, !.nxt = << >>, !.d = @ + 1]
      BY <1>1, <1>5 DEF NextLevel
  <2>2. /\ bfs'.status = "level" /\ bfs'.d = bfs.d + 1 /\ bfs'.frontier = bfs.nxt
        /\ bfs'.seen = bfs.seen /\ bfs'.level = bfs.level /\ bfs'.answer = bfs.answer
      BY <1>1, <2>1 DEF Locals
  <2>3. RowsOK'
    <3>1. ASSUME NEW s \in bfs.seen, bfs.level[s] < bfs.d + 1,
                 ~ \E i \in DOMAIN bfs.nxt : bfs.nxt[i] = s
          PROVE  Next1(s) \subseteq bfs.seen
      <4>1. bfs.level[s] # bfs.d
          BY <3>1 DEF TreeInv, QueuesOK
      <4>2. bfs.level[s] < bfs.d
          BY <1>2, <3>1, <4>1
      <4> QED BY <1>3, <4>2
    <3> QED BY <2>2, <3>1, WithinFixed DEF RowsOK, Waiting
  <2>4. LevelsOK'
    <3>1. ASSUME NEW j \in Nat, j < bfs.d + 1, NEW s \in Within(ask.from, j)
          PROVE  s \in bfs.seen /\ bfs.level[s] <= j
      <4>1. CASE j < bfs.d
          BY <4>1 DEF Exact, LevelsOK
      <4>2. CASE j = bfs.d
        <5>1. j - 1 \in Nat /\ j - 1 < bfs.d /\ (j - 1) + 1 = j
            BY <1>2, <4>2
        <5> DEFINE i == j - 1
        <5>2. i \in Nat /\ i < bfs.d /\ i + 1 = j
            BY <5>1
        <5> HIDE DEF i
        <5>3. Within(ask.from, i + 1)
              = Within(ask.from, i) \union UNION {Next1(x) : x \in Within(ask.from, i)}
            BY <5>2, Ends, WithinRec
        <5>4. \A x \in Within(ask.from, i) : x \in bfs.seen /\ bfs.level[x] <= i
            BY <5>2 DEF Exact, LevelsOK
        <5>5. \A x \in Within(ask.from, i) : Next1(x) \subseteq bfs.seen
          <6> SUFFICES ASSUME NEW x \in Within(ask.from, i) PROVE Next1(x) \subseteq bfs.seen
              OBVIOUS
          <6>1. bfs.level[x] < bfs.d
              BY <1>2, <5>2, <5>4
          <6> QED BY <1>3, <5>4, <6>1
        <5>6. s \in bfs.seen
            BY <3>1, <5>2, <5>3, <5>4, <5>5
        <5> QED BY <4>2, <5>6 DEF TreeInv, QueuesOK
      <4> QED BY <1>2, <3>1, <4>1, <4>2
    <3> QED BY <2>2, <3>1, WithinFixed DEF LevelsOK
  <2>5. AnswerOK'
      BY <1>1, <2>2, WithinFixed DEF Exact, AnswerOK, NoAnswer
  <2> QED BY <2>3, <2>4, <2>5 DEF Exact
<1> QED BY <1>4, <1>5

LEMMA RowIsExact ==
    ASSUME TreeInv, EveryRowRead, Exact, Row, WalkFixed PROVE Exact'
<1>0. edges' = edges /\ ask' = ask
    BY DEF WalkFixed
<1>1. PICK e \in bfs.rows :
          \/ Passed(e)
          \/ /\ bfs' \in Locals' /\ ask.job = "walk"
             /\ Found(e, IF Full THEN "done" ELSE "node", bfs.answer)
          \/ /\ bfs' \in Locals' /\ ask.job # "walk"
             /\ Found(e, IF e.dst = ask.to THEN "done" ELSE "node",
                      IF e.dst = ask.to THEN Append(PathTo(Head(bfs.frontier)), e.dst)
                      ELSE NoAnswer)
    BY <1>0, RowCases
<1> DEFINE h == Head(bfs.frontier)
           x == e.dst
<1>2. /\ bfs \in Locals /\ bfs.status = "node" /\ bfs.left > 0 /\ bfs.left \in Nat
      /\ bfs.frontier # << >> /\ bfs.frontier \in Seq(Sym) /\ bfs.rows \subseteq RowsAt(h)
      /\ bfs.d \in Nat \ {0} /\ bfs.d <= ask.depth /\ ask.depth \in Nat
      /\ bfs.level \in [bfs.seen -> Nat]
    BY FieldTypes DEF Row, TreeInv, WalkTypes, QueuesOK
<1>3. Cardinality(bfs.rows \ {e}) <= bfs.left - 1
  <2>1. IsFiniteSet(bfs.rows) /\ Cardinality(bfs.rows) \in Nat
      BY FieldTypes, FS_Subset, FS_CardinalityType DEF TreeInv, WalkTypes
  <2>2. Cardinality(bfs.rows) <= bfs.left
      BY <1>2 DEF Exact, RowsOK
  <2> DEFINE R == bfs.rows
  <2> HIDE DEF R
  <2>3. IsFiniteSet(R) /\ e \in R /\ Cardinality(R) \in Nat
      BY <2>1 DEF R
  <2>4. Cardinality(R \ {e}) = Cardinality(R) - 1
      BY <2>3, FS_RemoveElement
  <2> QED BY <1>2, <2>2, <2>3, <2>4 DEF R
<1>4. \A f \in RowsAt(h) \ bfs.rows : f.dst \in bfs.seen
    BY <1>2 DEF Exact, RowsOK
<1>5. CASE Passed(e)
  <2>1. bfs' = [bfs EXCEPT !.rows = @ \ {e}, !.left = @ - 1] /\ x \in bfs.seen
      BY <1>5 DEF Passed
  <2>2. /\ bfs'.status = "node" /\ bfs'.d = bfs.d /\ bfs'.frontier = bfs.frontier
        /\ bfs'.seen = bfs.seen /\ bfs'.level = bfs.level /\ bfs'.answer = bfs.answer
        /\ bfs'.rows = bfs.rows \ {e} /\ bfs'.left = bfs.left - 1
      BY <1>2, <2>1 DEF Locals
  <2>3. \A f \in RowsAt(h) \ (bfs.rows \ {e}) : f.dst \in bfs.seen
      BY <1>4, <2>1
  <2>4. RowsOK' /\ LevelsOK'
      BY <1>3, <2>2, <2>3, WithinFixed DEF Exact, RowsOK, LevelsOK, Waiting
  <2>5. AnswerOK'
      BY <1>2, <2>2, WithinFixed DEF Exact, AnswerOK, NoAnswer
  <2> QED BY <2>4, <2>5 DEF Exact
<1>6. ASSUME NEW status, NEW answer, Found(e, status, answer)
      PROVE  RowsOK' /\ LevelsOK'
  <2>1. /\ x \notin bfs.seen /\ bfs'.status = status /\ bfs'.d = bfs.d
        /\ bfs'.frontier = bfs.frontier /\ bfs'.left = bfs.left - 1
        /\ bfs'.rows = bfs.rows \ {e} /\ bfs'.seen = bfs.seen \union {x}
        /\ bfs'.level = [s \in bfs.seen \union {x} |-> IF s = x THEN bfs.d ELSE bfs.level[s]]
      BY <1>6 DEF Found
  <2>2. \A s \in bfs.seen : s \in bfs'.seen /\ bfs'.level[s] = bfs.level[s]
      BY <2>1
  <2>3. bfs'.level[x] = bfs.d /\ ~(bfs.d < bfs.d)
      BY <1>2, <2>1
  <2>4. \A f \in RowsAt(h) \ (bfs.rows \ {e}) : f.dst \in bfs'.seen
      BY <1>4, <2>1
  <2>5. ASSUME NEW s \in bfs'.seen, bfs'.level[s] < bfs.d, ~Waiting(s) PROVE Next1(s) \subseteq bfs'.seen
    <3>1. s # x
        BY <2>3, <2>5
    <3>2. s \in bfs.seen /\ bfs.level[s] < bfs.d
        BY <2>1, <2>2, <2>5, <3>1
    <3> QED BY <2>1, <2>5, <3>2 DEF Exact, RowsOK
  <2>6. RowsOK'
    <3>1. \A f \in RowsAt(Head(bfs.frontier))' \ bfs'.rows : f.dst \in bfs'.seen
        BY <2>1, <2>4, WithinFixed
    <3>2. Cardinality(bfs'.rows) <= bfs'.left
        BY <1>3, <2>1
    <3> HIDE DEF x, h
    <3>3. \A s \in bfs'.seen : bfs'.level[s] < bfs'.d /\ ~Waiting(s)' => Next1(s)' \subseteq bfs'.seen
      <4> SUFFICES ASSUME NEW s \in bfs'.seen, bfs'.level[s] < bfs'.d, ~Waiting(s)'
                   PROVE  Next1(s)' \subseteq bfs'.seen
          OBVIOUS
      <4>1. ~Waiting(s)
          BY <2>1 DEF Waiting
      <4> QED BY <2>1, <2>5, <4>1, WithinFixed
    <3> QED BY <3>1, <3>2, <3>3 DEF RowsOK
  <2>7. LevelsOK'
    <3>1. ASSUME NEW j \in Nat, j < bfs.d, NEW s \in Within(ask.from, j)
          PROVE  s \in bfs'.seen /\ bfs'.level[s] <= j
        BY <2>2, <3>1 DEF Exact, LevelsOK
    <3>2. bfs'.d = bfs.d
        BY <2>1
    <3> HIDE DEF x, h
    <3> QED BY <3>1, <3>2, WithinFixed DEF LevelsOK
  <2> QED BY <2>6, <2>7
<1>7. CASE ask.job = "walk" /\ Found(e, IF Full THEN "done" ELSE "node", bfs.answer)
  <2>1. /\ x \notin bfs.seen /\ bfs'.seen = bfs.seen \union {x} /\ bfs'.answer = bfs.answer
        /\ bfs'.status = (IF Full THEN "done" ELSE "node")
      BY <1>7 DEF Found
  <2>2. Cardinality(bfs'.seen) = Cardinality(bfs.seen) + 1
    <3> DEFINE S == bfs.seen
    <3>1. IsFiniteSet(S) /\ x \notin S /\ Cardinality(S) \in Nat /\ bfs'.seen = S \union {x}
        BY <2>1, FieldTypes
    <3> HIDE DEF x, S
    <3>2. Cardinality(S \union {x}) = Cardinality(S) + 1
        BY <3>1, FS_AddElement
    <3> QED BY <3>1, <3>2 DEF S
  <2>3. bfs'.status = "done" => Cardinality(bfs'.seen) >= ask.max
      BY <2>1, <2>2 DEF Full
  <2>4. AnswerOK'
      BY <1>0, <1>7, <2>3 DEF AnswerOK
  <2> QED BY <1>6, <1>7, <2>4 DEF Exact
<1>8. CASE /\ ask.job # "walk"
           /\ Found(e, IF e.dst = ask.to THEN "done" ELSE "node",
                    IF e.dst = ask.to THEN Append(PathTo(Head(bfs.frontier)), e.dst) ELSE NoAnswer)
  <2>1. /\ x \notin bfs.seen /\ bfs'.seen = bfs.seen \union {x} /\ bfs'.d = bfs.d
        /\ bfs'.status = (IF x = ask.to THEN "done" ELSE "node")
        /\ bfs'.answer = (IF x = ask.to THEN Append(PathTo(h), x) ELSE NoAnswer)
      BY <1>8 DEF Found
  <2>2. ask.job = "reaches"
      BY <1>8 DEF TreeInv, WalkTypes, Request
  <2>3. CASE x # ask.to
    <3>1. bfs'.status = "node" /\ bfs'.answer = NoAnswer
        BY <2>1, <2>3
    <3>2. ask.to \notin bfs.seen
        BY <1>2, <2>2 DEF Exact, AnswerOK
    <3> QED BY <1>0, <1>6, <1>8, <2>1, <2>2, <2>3, <3>1, <3>2 DEF Exact, AnswerOK, NoAnswer
  <2>4. CASE x = ask.to
    <3>1. h \in bfs.seen /\ bfs.level[h] = bfs.d - 1
        BY <1>2 DEF TreeInv, QueuesOK
    <3>2. PathTo(h) \in Seq(Sym) /\ Len(PathTo(h)) = bfs.d
        BY <1>2, <3>1, PathsOfTheTree DEF IsPath
    <3>3. bfs'.answer # NoAnswer /\ Len(bfs'.answer) = bfs.d + 1
      <4> DEFINE p == PathTo(h)
      <4> HIDE DEF p
      <4>1. x \in Sym /\ p \in Seq(Sym) /\ Len(p) = bfs.d
          BY <3>2, Ends DEF p, TreeInv, WalkTypes, Locals
      <4>2. bfs'.answer = Append(p, x)
          BY <2>1, <2>4 DEF p
      <4> QED BY <1>2, <4>1, <4>2 DEF NoAnswer
    <3>4. x \in Within(ask.from, bfs.d)
      <4> DEFINE i == bfs.d - 1
      <4>1. i \in Nat /\ i + 1 = bfs.d
          BY <1>2
      <4> HIDE DEF i
      <4>2. h \in Within(ask.from, i)
          BY <3>1, SeenIsWithin DEF i
      <4>3. Within(ask.from, i + 1)
            = Within(ask.from, i) \union UNION {Next1(y) : y \in Within(ask.from, i)}
          BY <4>1, Ends, WithinRec
      <4>4. x \in Next1(h)
          BY <1>2, Ends, NextTypes
      <4> QED BY <4>1, <4>2, <4>3, <4>4
    <3>5. x \notin Within(ask.from, bfs.d - 1)
      <4>1. bfs.d - 1 \in Nat /\ bfs.d - 1 < bfs.d
          BY <1>2
      <4> QED BY <2>1, <4>1 DEF Exact, LevelsOK
    <3>6. bfs'.status = "done"
        BY <2>1, <2>4
    <3>7. AnswerOK'
      <4>1. /\ ask.to \in Within(ask.from, bfs.d)' /\ ask.to \notin Within(ask.from, bfs.d - 1)'
          BY <1>0, <2>1, <2>4, <3>4, <3>5, WithinFixed
      <4> QED BY <1>0, <1>2, <2>1, <2>2, <3>3, <3>6, <4>1 DEF AnswerOK
    <3> QED BY <1>6, <1>8, <3>7 DEF Exact
  <2> QED BY <2>3, <2>4
<1> QED BY <1>1, <1>5, <1>7, <1>8

-----------------------------------------------------------------------------
(* The promises of a search. *)

LEMMA ExactInit ==
    ASSUME NEW graphs, NEW requests, WalkInit(graphs, requests), TreeInv
    PROVE  Exact
<1>1. bfs = IF ask.job = "reaches" /\ ask.from = ask.to
            THEN [Fresh(ask.from) EXCEPT !.status = "done", !.answer = <<ask.from>>]
            ELSE Fresh(ask.from)
    BY DEF WalkInit
<1>2. /\ bfs.d = 1 /\ bfs.frontier = <<ask.from>> /\ bfs.seen = {ask.from}
      /\ bfs.level[ask.from] = 0 /\ bfs.status # "node"
      /\ bfs.status = (IF ask.job = "reaches" /\ ask.from = ask.to THEN "done" ELSE "level")
      /\ bfs.answer = (IF ask.job = "reaches" /\ ask.from = ask.to THEN <<ask.from>> ELSE NoAnswer)
    BY <1>1 DEF Fresh
<1>3. Within(ask.from, 0) = {ask.from}
    BY Ends, WithinRec
<1>4. RowsOK
  <2>1. Waiting(ask.from)
      BY <1>2 DEF Waiting
  <2> QED BY <1>2, <2>1 DEF RowsOK
<1>5. LevelsOK
  <2> SUFFICES ASSUME NEW j \in Nat, j < bfs.d, NEW s \in Within(ask.from, j)
               PROVE  s \in bfs.seen /\ bfs.level[s] <= j
      BY DEF LevelsOK
  <2>1. j = 0
      BY <1>2
  <2> QED BY <1>2, <1>3, <2>1
<1>6. AnswerOK
  <2>1. ask.job \in {"walk", "reaches"}
      BY DEF TreeInv, WalkTypes, Request
  <2>2. CASE ask.job = "reaches"
      BY <1>2, <2>2 DEF AnswerOK
  <2>3. CASE ask.job = "walk"
      BY <1>2, <2>3 DEF AnswerOK
  <2> QED BY <2>1, <2>2, <2>3
<1> QED BY <1>4, <1>5, <1>6 DEF Exact

LEMMA SeenGrows ==
    ASSUME TreeInv, WalkNext
    PROVE  bfs.seen \subseteq bfs'.seen /\ WalkFixed
<1>1. WalkFixed /\ bfs \in Locals /\ edges' = edges
    BY DEF WalkNext, WalkFixed, TreeInv, WalkTypes
<1>2. CASE Row
  <2>1. PICK e \in bfs.rows :
              \/ Passed(e)
              \/ /\ bfs' \in Locals' /\ ask.job = "walk"
                 /\ Found(e, IF Full THEN "done" ELSE "node", bfs.answer)
              \/ /\ bfs' \in Locals' /\ ask.job # "walk"
                 /\ Found(e, IF e.dst = ask.to THEN "done" ELSE "node",
                          IF e.dst = ask.to THEN Append(PathTo(Head(bfs.frontier)), e.dst)
                          ELSE NoAnswer)
      BY <1>1, <1>2, RowCases
  <2>2. CASE Passed(e)
      BY <1>1, <2>2 DEF Passed, Locals
  <2>3. ASSUME NEW status, NEW answer, Found(e, status, answer) PROVE bfs.seen \subseteq bfs'.seen
      BY <2>3 DEF Found
  <2> QED BY <1>1, <2>1, <2>2, <2>3
<1>3. CASE Stop
    BY <1>1, <1>3 DEF Stop, Locals
<1>4. CASE Open
    BY <1>1, <1>4 DEF Open, Locals
<1>5. CASE NextLevel
    BY <1>1, <1>5 DEF NextLevel, Locals
<1>6. CASE Close
    BY <1>1, <1>6 DEF Close, Locals
<1> QED BY <1>2, <1>3, <1>4, <1>5, <1>6 DEF WalkNext

LEMMA WalkAlways ==
    ASSUME NEW graphs, GraphsOK(graphs), NEW requests \in SUBSET Request, RowLimit \in Nat
    PROVE  WalkSpec(graphs, requests) => []WalkInv
<1>1. WalkInit(graphs, requests) => WalkInv
    BY TreeInit, ExactInit DEF WalkInv, Exact
<1>2. WalkInv /\ WalkNext => WalkInv'
  <2> SUFFICES ASSUME WalkInv, WalkNext PROVE WalkInv'
      OBVIOUS
  <2>1. TreeInv /\ WalkFixed /\ bfs.seen \subseteq bfs'.seen
      BY SeenGrows DEF WalkInv
  <2>2. TreeInv'
      BY <2>1, StopKeepsTree, OpenKeepsTree, NextLevelKeepsTree, RowKeepsTree, CloseKeepsTree
         DEF WalkNext
  <2>3. ASSUME EveryRowRead' PROVE EveryRowRead /\ Exact
    <3>1. EveryRowRead
        BY <2>1, <2>3, WithinFixed DEF EveryRowRead
    <3> QED BY <3>1 DEF WalkInv, Exact
  <2>4. ASSUME EveryRowRead' PROVE Exact'
      BY <2>1, <2>3, <2>4, StopIsExact, OpenIsExact, NextLevelIsExact, RowIsExact, CloseIsExact
         DEF WalkNext
  <2> QED BY <2>2, <2>4 DEF WalkInv, Exact
<1>3. WalkInv /\ UNCHANGED walkVars => WalkInv'
  <2> SUFFICES ASSUME WalkInv, UNCHANGED walkVars PROVE WalkInv'
      OBVIOUS
  <2>1. bfs' = bfs /\ WalkFixed /\ TreeInv'
      BY TreeStutters DEF walkVars, WalkFixed, WalkInv
  <2>2. EveryRowRead' => EveryRowRead
      BY <2>1, WithinFixed DEF EveryRowRead
  <2>3. Exact => Exact'
      BY <2>1, WithinFixed DEF Exact, RowsOK, LevelsOK, AnswerOK, Waiting, NoAnswer
  <2> QED BY <2>1, <2>2, <2>3 DEF WalkInv, Exact
<1> QED BY <1>1, <1>2, <1>3, PTL DEF WalkSpec

\* "each reached symbol with its minimum depth" (walk), for every graph, every
\* request and every order of the rows: at every moment the recorded depth is the
\* distance from the start, as long as no node had more rows than one query returns.
THEOREM DepthsAreDistances ==
    ASSUME NEW graphs, GraphsOK(graphs), NEW requests \in SUBSET Request, RowLimit \in Nat
    PROVE  WalkSpec(graphs, requests) => []DepthIsDistance
<1>1. WalkInv => DepthIsDistance
  <2> SUFFICES ASSUME WalkInv, EveryRowRead, NEW s \in bfs.seen
               PROVE  /\ s \in Within(ask.from, bfs.level[s])
                      /\ bfs.level[s] > 0 => s \notin Within(ask.from, bfs.level[s] - 1)
      BY DEF DepthIsDistance
  <2>1. s \in Within(ask.from, bfs.level[s])
      BY SeenIsWithin DEF WalkInv
  <2>2. bfs.level[s] \in Nat /\ bfs.d \in Nat /\ bfs.level[s] <= bfs.d
      BY FieldTypes DEF WalkInv, TreeInv, QueuesOK
  <2>3. ASSUME bfs.level[s] > 0, s \in Within(ask.from, bfs.level[s] - 1) PROVE FALSE
    <3>1. bfs.level[s] - 1 \in Nat /\ bfs.level[s] - 1 < bfs.d
        BY <2>2, <2>3
    <3>2. bfs.level[s] <= bfs.level[s] - 1
        BY <2>3, <3>1 DEF WalkInv, LevelsOK
    <3> QED BY <2>2, <3>2
  <2> QED BY <2>1, <2>3
<1> QED BY <1>1, WalkAlways, PTL

\* A walk that ends below max_nodes holds exactly the symbols within its depth, for
\* every graph and every order: the bounds are the only reasons to leave one out.
THEOREM WalksMissNothing ==
    ASSUME NEW graphs, GraphsOK(graphs), NEW requests \in SUBSET Request, RowLimit \in Nat
    PROVE  WalkSpec(graphs, requests) => []NothingMissed
<1>1. WalkInv => NothingMissed
  <2> SUFFICES ASSUME WalkInv, bfs.status = "done", ask.job = "walk", EveryRowRead,
                      Cardinality(bfs.seen) < ask.max
               PROVE  bfs.seen = Within(ask.from, ask.depth)
      BY DEF NothingMissed
  <2>1. Cardinality(bfs.seen) \in Nat /\ ask.max \in Nat
      BY FieldTypes DEF WalkInv
  <2> QED BY <2>1 DEF WalkInv, AnswerOK
<1> QED BY <1>1, WalkAlways, PTL

\* reaches, for every graph and every order: a path is returned exactly when `to` is
\* at most max_depth edges away, and it is a shortest one.
THEOREM ReachesExactly ==
    ASSUME NEW graphs, GraphsOK(graphs), NEW requests \in SUBSET Request, RowLimit \in Nat
    PROVE  WalkSpec(graphs, requests) => []ReachesIsExact
<1>1. WalkInv => ReachesIsExact
  <2> SUFFICES ASSUME WalkInv, bfs.status = "done", ask.job = "reaches", EveryRowRead
               PROVE  /\ (bfs.answer # NoAnswer) <=> (ask.to \in Within(ask.from, ask.depth))
                      /\ bfs.answer # NoAnswer /\ ask.from # ask.to =>
                            ask.to \notin Within(ask.from, Len(bfs.answer) - 2)
      BY DEF ReachesIsExact
  <2>1. /\ ask.depth \in Nat /\ bfs.d \in Nat \ {0} /\ ask.from \in Sym
        /\ \A e \in edges : e.dst \in Sym
      BY FieldTypes, Ends DEF WalkInv
  <2>2. CASE bfs.answer = <<ask.from>> /\ ask.from = ask.to
    <3>1. ask.to \in Within(ask.from, 0) /\ Within(ask.from, 0) \subseteq Within(ask.from, ask.depth)
        BY <2>1, <2>2, WithinRec, WithinGrows
    <3> QED BY <2>2, <3>1 DEF NoAnswer
  <2>3. CASE /\ bfs.answer # NoAnswer /\ Len(bfs.answer) = bfs.d + 1 /\ bfs.d <= ask.depth
             /\ ask.to \in Within(ask.from, bfs.d) /\ ask.to \notin Within(ask.from, bfs.d - 1)
    <3>1. Within(ask.from, bfs.d) \subseteq Within(ask.from, ask.depth)
        BY <2>1, <2>3, WithinGrows
    <3>2. (bfs.d + 1) - 2 = bfs.d - 1
        BY <2>1
    <3> QED BY <2>3, <3>1, <3>2
  <2>4. CASE bfs.answer = NoAnswer /\ ask.to \notin Within(ask.from, ask.depth)
      BY <2>4
  <2> QED BY <2>2, <2>3, <2>4 DEF WalkInv, AnswerOK
<1> QED BY <1>1, WalkAlways, PTL
=============================================================================
