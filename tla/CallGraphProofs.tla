--------------------------- MODULE CallGraphProofs ---------------------------
(***************************************************************************)
(* Theorems about the lazy walks of CallGraph, for every graph, cyclic or   *)
(* not, every mode, every decision of the engine and every order of the     *)
(* call sites: the stream follows the calls, and an unbounded walk           *)
(* surfaces exactly what can be reached.  And about pruning (Devirt), for    *)
(* every program that compiles: no callable that a run enters is left out,   *)
(* and where all that is passed is known, no other override is visited.      *)
(***************************************************************************)
EXTENDS Devirt, DataInduction, SequenceTheorems

Modes == {"callgraph", "static", "expand", "prune"}

Request == [mode : Modes, root : Sym, limit : Nat]

\* The edges of a database join symbols.
GraphOK(g) == \A e \in g.edge : e.src \in Sym /\ e.dst \in Sym

\* The engine decides on every virtual call, before the walk asks.
Decided ==
    tour.mode = "prune" =>
        \A f \in Sym : \A c \in DirectCallees(code, f) :
            IsVirtual(code, c) => kept[f, c] = KeepAll \/ kept[f, c] \in SUBSET Sym

TourStart(graphs, requests) ==
    /\ code \in graphs
    /\ \E r \in requests : tour = StartTour(r.mode, r.root, r.limit)
    /\ Decided

TourSpec(graphs, requests) == TourStart(graphs, requests) /\ [][TourNext]_tourVars

-----------------------------------------------------------------------------
(* The strengthening. *)

Iter == [node : Sym, depth : Nat \ {0}, burst : SUBSET Sym, rest : SUBSET Sym,
         last : SUBSET Sym]
Item == [sym : Sym, depth : Nat \ {0}]

TourTypes ==
    /\ GraphOK(code) /\ Decided
    /\ tour \in [mode : Modes, root : Sym, limit : Nat, stack : Seq(Iter), seen : SUBSET Sym,
                 out : Seq(Item), begun : BOOLEAN]

\* What an iterator still has to produce.
Pending(k) == k.burst \union k.rest \union k.last \union UNION {Burst(k.node, c) : c \in k.rest}

IterOK(k) ==
    /\ k.rest \subseteq DirectCallees(code, k.node)
    /\ Pending(k) \subseteq AllKids(k.node)
    /\ Pending(k) # {} => k.depth <= tour.limit

\* The node of iterator n is the last item that is less than n calls deep, and n - 1
\* deep; that of the first is the root.
Hangs(n, node) ==
    IF n = 1 THEN node = tour.root
    ELSE \E j \in DOMAIN tour.out :
            /\ tour.out[j].sym = node /\ tour.out[j].depth = n - 1
            /\ \A i \in DOMAIN tour.out : i > j => tour.out[i].depth >= n

StackOK ==
    /\ \A n \in DOMAIN tour.stack :
          /\ tour.stack[n].depth = n
          /\ IterOK(tour.stack[n])
          /\ Hangs(n, tour.stack[n].node)
    /\ Len(tour.stack) <= Len(tour.out) + 1
    /\ ~tour.begun => tour.stack = << >> /\ tour.out = << >>

SeenOK ==
    /\ tour.seen = {tour.root} \union Yielded
    /\ Cardinality(tour.seen) = Len(tour.out) + 1

\* Item i is called by the root, or by the last item before it that is one level up.
Follows(i) ==
    /\ tour.out[i].depth <= tour.limit /\ tour.out[i].sym # tour.root
    /\ \A j \in 1..(i - 1) : tour.out[j].sym # tour.out[i].sym
    /\ \/ /\ \A j \in 1..(i - 1) : tour.out[j].depth >= tour.out[i].depth
          /\ tour.out[i].depth = 1 /\ tour.out[i].sym \in AllKids(tour.root)
       \/ \E j \in 1..(i - 1) :
             /\ tour.out[j].depth = tour.out[i].depth - 1
             /\ tour.out[i].sym \in AllKids(tour.out[j].sym)
             /\ \A k \in 1..(i - 1) : k > j => tour.out[k].depth >= tour.out[i].depth

\* What was seen is served already, or is being served.
Served(s) ==
    \/ AllKids(s) \subseteq tour.seen
    \/ \E n \in DOMAIN tour.stack : /\ tour.stack[n].node = s
                                    /\ AllKids(s) \subseteq tour.seen \union Pending(tour.stack[n])

\* A set that holds the root and all callees of its members.
Surrounds(X) == tour.root \in X /\ \A s \in X : AllKids(s) \subseteq X

CoverOK ==
    /\ tour.begun /\ tour.limit = Unbounded => \A s \in tour.seen : Served(s)
    /\ \A X \in SUBSET Sym : Surrounds(X) => tour.seen \subseteq X

TourInv == TourTypes /\ StackOK /\ SeenOK /\ CoverOK /\ \A i \in DOMAIN tour.out : Follows(i)

-----------------------------------------------------------------------------
(* Callees are symbols, and what can be reached is the least closed set. *)

\* What overrides m, at any depth, is the least closed set around m.
OverridesIn(g) == [s \in Sym |-> OverriddenBy(g, s)]

LEMMA TargetsAreLeast ==
    ASSUME NEW g, GraphOK(g), NEW m \in Sym
    PROVE  /\ OverridesIn(g) \in [Sym -> SUBSET Sym]
           /\ DispatchTargets(g, m) = Least(Sym, OverridesIn(g), {m}) \ g.pure
<1> DEFINE K == OverridesIn(g)
           grow[seen \in SUBSET Sym] ==
               LET more == seen \union UNION {OverriddenBy(g, s) : s \in seen}
               IN  IF more = seen THEN seen ELSE grow[more]
<1>1. K \in [Sym -> SUBSET Sym]
    BY DEF GraphOK, OverridesIn, OverriddenBy, Peers, EdgesAt, Far
<1>2. \A B \in SUBSET Sym : B \union UNION {OverriddenBy(g, s) : s \in B} = Grown(K, B)
    BY DEF Grown, OverridesIn
<1> HIDE DEF K
<1> DEFINE h == [B \in SUBSET Sym |-> Least(Sym, K, B)]
<1>5. h = [seen \in SUBSET Sym |->
             LET more == seen \union UNION {OverriddenBy(g, s) : s \in seen}
             IN  IF more = seen THEN seen ELSE h[more]]
  <2>1. ASSUME NEW seen \in SUBSET Sym
        PROVE  h[seen] = IF Grown(K, seen) = seen THEN seen ELSE h[Grown(K, seen)]
    <3>1. Grown(K, seen) \in SUBSET Sym
        BY <1>1, LeastOfGrown
    <3> QED BY <1>1, <3>1, LeastGrows
  <2>2. ASSUME NEW seen \in SUBSET Sym
        PROVE  h[seen] = LET more == seen \union UNION {OverriddenBy(g, s) : s \in seen}
                         IN  IF more = seen THEN seen ELSE h[more]
      BY <1>2, <2>1
  <2>3. h = [seen \in SUBSET Sym |-> h[seen]]
      OBVIOUS
  <2> HIDE DEF h
  <2> QED BY <2>2, <2>3
<1>6. grow = [seen \in SUBSET Sym |->
                LET more == seen \union UNION {OverriddenBy(g, s) : s \in seen}
                IN  IF more = seen THEN seen ELSE grow[more]]
    BY <1>5, Zenon DEF grow
<1>7. DispatchTargets(g, m) = grow[{m}] \ g.pure
    BY Zenon DEF DispatchTargets, Reach, grow
<1> HIDE DEF grow
<1>8. \A B \in SUBSET Sym : grow[B] = IF Grown(K, B) = B THEN B ELSE grow[Grown(K, B)]
    BY <1>2, <1>6
<1>9. grow[{m}] = Least(Sym, K, {m})
    BY <1>1, <1>8, SymIsFinite, GrowingIsLeast
<1> QED BY <1>1, <1>7, <1>9 DEF K

LEMMA TargetsAreSymbols ==
    ASSUME NEW g, GraphOK(g), NEW m \in Sym
    PROVE  DispatchTargets(g, m) \subseteq Sym
BY TargetsAreLeast DEF Least

LEMMA KidsAreSymbols ==
    ASSUME TourTypes, NEW f \in Sym
    PROVE  /\ AllKids(f) \subseteq Sym
           /\ DirectCallees(code, f) \subseteq Sym /\ Appended(f) \subseteq Sym
           /\ \A c \in DirectCallees(code, f) : Burst(f, c) \subseteq Sym
<1>1. DirectCallees(code, f) \subseteq Sym /\ Callees(code, f) \subseteq Sym
    BY DEF TourTypes, GraphOK, Callees, DirectCallees, Peers, EdgesAt, Far
<1>2. ASSUME NEW c \in DirectCallees(code, f) PROVE Burst(f, c) \subseteq Sym
  <2>1. c \in Sym /\ DispatchTargets(code, c) \subseteq Sym
      BY <1>1, TargetsAreSymbols DEF TourTypes
  <2>2. CASE ~IsVirtual(code, c) \/ tour.mode \in {"callgraph", "static"}
      BY <2>2 DEF Burst
  <2>3. CASE IsVirtual(code, c) /\ tour.mode = "expand"
      BY <2>1, <2>3 DEF Burst
  <2>4. CASE IsVirtual(code, c) /\ tour.mode = "prune"
    <3>1. kept[f, c] = KeepAll \/ kept[f, c] \in SUBSET Sym
        BY <2>4 DEF TourTypes, Decided
    <3>2. Burst(f, c) = (IF kept[f, c] = KeepAll THEN DispatchTargets(code, c) ELSE kept[f, c]) \ {c}
        BY <2>4 DEF Burst
    <3> QED BY <2>1, <3>1, <3>2
  <2> QED BY <2>2, <2>3, <2>4 DEF TourTypes, Modes
<1> QED BY <1>1, <1>2 DEF AllKids, Appended

\* The closure of the root, as the recursion of Reach finds it.
LEMMA ReachIsLeast ==
    ASSUME TourTypes
    PROVE  LET R == Reach(LAMBDA f : AllKids(f), tour.root)
           IN  /\ R \in SUBSET Sym /\ Surrounds(R)
               /\ \A X \in SUBSET Sym : Surrounds(X) => R \subseteq X
<1> DEFINE K == [s \in Sym |-> AllKids(s)]
           grow[seen \in SUBSET Sym] ==
               LET more == seen \union UNION {AllKids(s) : s \in seen}
               IN  IF more = seen THEN seen ELSE grow[more]
<1>1. K \in [Sym -> SUBSET Sym]
    BY KidsAreSymbols
<1>2. \A B \in SUBSET Sym : B \union UNION {AllKids(s) : s \in B} = Grown(K, B)
    BY DEF Grown
<1>3. \A s \in Sym : K[s] = AllKids(s)
    OBVIOUS
<1> HIDE DEF K
<1> DEFINE h == [B \in SUBSET Sym |-> Least(Sym, K, B)]
<1>5. h = [seen \in SUBSET Sym |->
             LET more == seen \union UNION {AllKids(s) : s \in seen}
             IN  IF more = seen THEN seen ELSE h[more]]
  <2>1. ASSUME NEW seen \in SUBSET Sym
        PROVE  h[seen] = IF Grown(K, seen) = seen THEN seen ELSE h[Grown(K, seen)]
    <3>1. Grown(K, seen) \in SUBSET Sym
        BY <1>1, LeastOfGrown
    <3> QED BY <1>1, <3>1, LeastGrows
  <2>2. ASSUME NEW seen \in SUBSET Sym
        PROVE  h[seen] = LET more == seen \union UNION {AllKids(s) : s \in seen}
                         IN  IF more = seen THEN seen ELSE h[more]
      BY <1>2, <2>1
  <2>3. h = [seen \in SUBSET Sym |-> h[seen]]
      OBVIOUS
  <2> HIDE DEF h
  <2> QED BY <2>2, <2>3
<1>6. grow = [seen \in SUBSET Sym |->
                LET more == seen \union UNION {AllKids(s) : s \in seen}
                IN  IF more = seen THEN seen ELSE grow[more]]
    BY <1>5, Zenon DEF grow
<1> DEFINE R == Reach(LAMBDA f : AllKids(f), tour.root)
<1>7. R = grow[{tour.root}]
    BY Zenon DEF Reach, grow
<1> HIDE DEF grow
<1>8. \A B \in SUBSET Sym : grow[B] = IF Grown(K, B) = B THEN B ELSE grow[Grown(K, B)]
    BY <1>2, <1>6
<1>9. tour.root \in Sym
    BY DEF TourTypes
<1>10. R = Least(Sym, K, {tour.root})
  <2> HIDE DEF R
  <2> QED BY <1>1, <1>7, <1>8, <1>9, SymIsFinite, GrowingIsLeast
<1> HIDE DEF R
<1>11. R \in SUBSET Sym /\ tour.root \in R
    BY <1>9, <1>10 DEF Least
<1>12. \A X \in SUBSET Sym : Surrounds(X) => R \subseteq X
    BY <1>3, <1>10 DEF Least, Surrounds
<1>13. ASSUME NEW s \in R PROVE AllKids(s) \subseteq R
  <2> SUFFICES ASSUME NEW c \in AllKids(s), NEW X \in SUBSET Sym, {tour.root} \subseteq X,
                      \A x \in X : K[x] \subseteq X
               PROVE  c \in X
    <3>1. AllKids(s) \subseteq Sym
        BY <1>11, KidsAreSymbols
    <3> QED BY <1>10, <3>1 DEF Least
  <2>1. s \in X
      BY <1>10 DEF Least
  <2> QED BY <1>3, <2>1
<1>14. R \in SUBSET Sym /\ Surrounds(R) /\ \A X \in SUBSET Sym : Surrounds(X) => R \subseteq X
    BY <1>11, <1>12, <1>13 DEF Surrounds
<1> QED BY <1>14 DEF R

-----------------------------------------------------------------------------
(* Iterators. *)

LEMMA TourFields ==
    ASSUME TourTypes
    PROVE  /\ tour.mode \in Modes /\ tour.root \in Sym /\ tour.limit \in Nat
           /\ tour.stack \in Seq(Iter) /\ tour.seen \in SUBSET Sym /\ tour.out \in Seq(Item)
           /\ tour.begun \in BOOLEAN /\ Len(tour.out) \in Nat /\ Len(tour.stack) \in Nat
           /\ DOMAIN tour.out = 1..Len(tour.out) /\ DOMAIN tour.stack = 1..Len(tour.stack)
           /\ IsFiniteSet(tour.seen) /\ Cardinality(tour.seen) \in Nat
           /\ Cardinality(tour.seen) <= Cardinality(Sym) /\ Cardinality(Sym) \in Nat
<1>1. /\ tour.mode \in Modes /\ tour.root \in Sym /\ tour.limit \in Nat
      /\ tour.stack \in Seq(Iter) /\ tour.seen \in SUBSET Sym /\ tour.out \in Seq(Item)
      /\ tour.begun \in BOOLEAN
    BY DEF TourTypes
<1>2. /\ IsFiniteSet(tour.seen) /\ Cardinality(tour.seen) \in Nat
      /\ Cardinality(tour.seen) <= Cardinality(Sym) /\ Cardinality(Sym) \in Nat
    BY <1>1, SymIsFinite, FS_Subset, FS_CardinalityType
<1> QED BY <1>1, <1>2

\* A new iterator produces all callees of its node, and nothing beyond the limit.
LEMMA NewIterator ==
    ASSUME TourTypes, NEW f \in Sym, NEW d \in Nat
    PROVE  /\ Kids(f, d) \in Iter /\ Kids(f, d).node = f /\ Kids(f, d).depth = d + 1
           /\ IterOK(Kids(f, d))
           /\ d < tour.limit => Pending(Kids(f, d)) = AllKids(f)
<1>1. DirectCallees(code, f) \subseteq Sym /\ Appended(f) \subseteq Sym /\ tour.limit \in Nat
      /\ tour.mode \in Modes
    BY KidsAreSymbols, TourFields
<1>2. CASE d >= tour.limit
  <2>1. Kids(f, d) = [node |-> f, depth |-> d + 1, burst |-> {}, rest |-> {}, last |-> {}]
      BY <1>2 DEF Kids
  <2>2. ~(d < tour.limit)
      BY <1>1, <1>2
  <2>3. Kids(f, d) \in Iter /\ Kids(f, d).node = f /\ Kids(f, d).depth = d + 1
        /\ Kids(f, d).rest = {} /\ Kids(f, d).burst = {} /\ Kids(f, d).last = {}
      BY <2>1 DEF Iter
  <2>4. Pending(Kids(f, d)) = {}
      BY <2>3 DEF Pending
  <2> QED BY <2>2, <2>3, <2>4 DEF IterOK
<1>3. CASE d < tour.limit
  <2> DEFINE last == IF tour.mode = "callgraph" THEN Appended(f) ELSE {}
  <2>1. Kids(f, d) = [node |-> f, depth |-> d + 1, burst |-> {}, rest |-> DirectCallees(code, f),
                      last |-> last]
      BY <1>1, <1>3 DEF Kids
  <2>2. Kids(f, d) \in Iter /\ Kids(f, d).node = f /\ Kids(f, d).depth = d + 1
        /\ Kids(f, d).rest = DirectCallees(code, f) /\ Kids(f, d).burst = {}
        /\ Kids(f, d).last = last
    <3>1. last \in SUBSET Sym
        BY <1>1
    <3> HIDE DEF last
    <3> QED BY <1>1, <2>1, <3>1 DEF Iter
  <2>3. Pending(Kids(f, d)) = DirectCallees(code, f) \union last
                              \union UNION {Burst(f, c) : c \in DirectCallees(code, f)}
    <3> HIDE DEF last
    <3> QED BY <2>2 DEF Pending
  <2>4. Pending(Kids(f, d)) = AllKids(f)
    <3>1. CASE tour.mode = "callgraph"
      <4>1. \A c : Burst(f, c) = {}
          BY <3>1 DEF Burst
      <4>2. DirectCallees(code, f) \subseteq Callees(code, f)
          BY DEF Callees
      <4> QED BY <2>3, <3>1, <4>1, <4>2 DEF AllKids, Appended
    <3>2. CASE tour.mode # "callgraph"
        BY <2>3, <3>2 DEF AllKids
    <3> QED BY <3>1, <3>2
  <2>5. d + 1 <= tour.limit
      BY <1>1, <1>3
  <2> QED BY <2>2, <2>4, <2>5 DEF IterOK
<1> QED BY <1>1, <1>2, <1>3

\* Taking c leaves everything else to be produced.
LEMMA OneTaken ==
    ASSUME TourTypes, NEW k \in Iter, IterOK(k), NEW c \in Upcoming(k)
    PROVE  /\ Taken(k, c) \in Iter /\ Taken(k, c).node = k.node /\ Taken(k, c).depth = k.depth
           /\ IterOK(Taken(k, c))
           /\ Pending(k) \ {c} \subseteq Pending(Taken(k, c))
           /\ c \in AllKids(k.node) /\ c \in Sym /\ k.depth <= tour.limit
<1>0. /\ k.node \in Sym /\ k.burst \in SUBSET Sym /\ k.rest \in SUBSET Sym /\ k.last \in SUBSET Sym
      /\ k.depth \in Nat \ {0}
    BY DEF Iter
<1>1. c \in Pending(k)
    BY DEF Pending, Upcoming
<1>2. c \in AllKids(k.node) /\ k.depth <= tour.limit /\ c \in Sym
    BY <1>0, <1>1, KidsAreSymbols DEF IterOK
<1>3. CASE k.burst # {}
  <2>1. Taken(k, c) = [k EXCEPT !.burst = @ \ {c}]
      BY <1>3 DEF Taken
  <2>2. /\ Taken(k, c) \in Iter /\ Taken(k, c).node = k.node /\ Taken(k, c).depth = k.depth
        /\ Taken(k, c).burst = k.burst \ {c} /\ Taken(k, c).rest = k.rest
        /\ Taken(k, c).last = k.last
      BY <1>0, <2>1 DEF Iter
  <2>3. Pending(Taken(k, c)) \subseteq Pending(k) /\ Pending(k) \ {c} \subseteq Pending(Taken(k, c))
      BY <2>2 DEF Pending
  <2> QED BY <1>1, <1>2, <2>2, <2>3 DEF IterOK
<1>4. CASE k.burst = {} /\ k.rest # {}
  <2>1. c \in k.rest /\ c \in DirectCallees(code, k.node)
      BY <1>4 DEF Upcoming, IterOK
  <2>2. Burst(k.node, c) \in SUBSET Sym
      BY <1>0, <2>1, KidsAreSymbols
  <2> DEFINE b == Burst(k.node, c)
  <2>3. Taken(k, c) = [k EXCEPT !.rest = @ \ {c}, !.burst = b]
      BY <1>4 DEF Taken
  <2> HIDE DEF b
  <2>4. /\ Taken(k, c) \in Iter /\ Taken(k, c).node = k.node /\ Taken(k, c).depth = k.depth
        /\ Taken(k, c).burst = b /\ Taken(k, c).rest = k.rest \ {c}
        /\ Taken(k, c).last = k.last
      BY <1>0, <2>2, <2>3 DEF Iter, b
  <2>5. Pending(Taken(k, c)) \subseteq Pending(k) /\ Pending(k) \ {c} \subseteq Pending(Taken(k, c))
      BY <1>4, <2>1, <2>4 DEF Pending, b
  <2> QED BY <1>1, <1>2, <2>4, <2>5 DEF IterOK
<1>5. CASE k.burst = {} /\ k.rest = {}
  <2>1. Taken(k, c) = [k EXCEPT !.last = @ \ {c}]
      BY <1>5 DEF Taken
  <2>2. /\ Taken(k, c) \in Iter /\ Taken(k, c).node = k.node /\ Taken(k, c).depth = k.depth
        /\ Taken(k, c).burst = k.burst /\ Taken(k, c).rest = k.rest
        /\ Taken(k, c).last = k.last \ {c}
      BY <1>0, <2>1 DEF Iter
  <2>3. Pending(Taken(k, c)) \subseteq Pending(k) /\ Pending(k) \ {c} \subseteq Pending(Taken(k, c))
      BY <2>2 DEF Pending
  <2> QED BY <1>1, <1>2, <2>2, <2>3 DEF IterOK
<1> QED BY <1>3, <1>4, <1>5, <1>2

LEMMA NothingUpcoming ==
    ASSUME NEW k, Upcoming(k) = {}
    PROVE  Pending(k) = {}
BY DEF Upcoming, Pending

-----------------------------------------------------------------------------
(* The stack and the stream. *)

SameCall ==
    /\ code' = code /\ kept' = kept
    /\ tour'.mode = tour.mode /\ tour'.root = tour.root /\ tour'.limit = tour.limit

LEMMA KidsFixed ==
    ASSUME SameCall
    PROVE  /\ \A f : AllKids(f)' = AllKids(f)
           /\ \A k : Pending(k)' = Pending(k) /\ IterOK(k)' = IterOK(k)
           /\ \A X : Surrounds(X)' = Surrounds(X)
<1>1. \A f, c : Burst(f, c)' = Burst(f, c)
  <2> SUFFICES ASSUME NEW f, NEW c PROVE Burst(f, c)' = Burst(f, c)
      OBVIOUS
  <2> DEFINE alone == ~IsVirtual(code, c) \/ tour.mode \in {"callgraph", "static"}
             open == IsVirtual(code, c) /\ tour.mode = "expand"
             decided == (IF kept[f, c] = KeepAll THEN DispatchTargets(code, c) ELSE kept[f, c]) \ {c}
  <2>1. Burst(f, c) = IF alone THEN {} ELSE IF open THEN DispatchTargets(code, c) ELSE decided
      BY DEF Burst
  <2>2. Burst(f, c)' = IF alone' THEN {} ELSE IF open' THEN DispatchTargets(code', c) ELSE decided'
      BY DEF Burst
  <2>3. code' = code /\ (alone' <=> alone) /\ (open' <=> open) /\ decided' = decided
      BY DEF SameCall
  <2> HIDE DEF alone, open, decided
  <2> QED BY <2>1, <2>2, <2>3
<1>2. \A f : AllKids(f)' = AllKids(f)
    BY <1>1 DEF AllKids, SameCall
<1>3. \A k : Pending(k)' = Pending(k)
    BY <1>1 DEF Pending
<1>4. \A k : IterOK(k)' = IterOK(k)
    BY <1>2, <1>3 DEF IterOK, SameCall
<1>5. \A X : Surrounds(X)' = Surrounds(X)
    BY <1>2 DEF Surrounds, SameCall
<1> QED BY <1>2, <1>3, <1>4, <1>5

LEMMA FollowsFixed ==
    ASSUME SameCall, tour'.out = tour.out
    PROVE  \A i : Follows(i)' = Follows(i)
BY KidsFixed DEF Follows, SameCall

LEMMA TypesStay ==
    ASSUME TourTypes, SameCall,
           tour' \in [mode : Modes, root : Sym, limit : Nat, stack : Seq(Iter), seen : SUBSET Sym,
                      out : Seq(Item), begun : BOOLEAN]
    PROVE  TourTypes'
BY DEF TourTypes, SameCall, Decided

LEMMA Stacked ==
    ASSUME TourTypes, Running
    PROVE  /\ Len(tour.stack) \in Nat \ {0} /\ Top \in Iter /\ Below \in Seq(Iter)
           /\ Len(Below) = Len(tour.stack) - 1
           /\ \A i \in 1..(Len(tour.stack) - 1) : Below[i] = tour.stack[i]
           /\ \A k \in Iter : /\ Append(Below, k) \in Seq(Iter)
                              /\ Len(Append(Below, k)) = Len(tour.stack)
                              /\ Append(Below, k)[Len(tour.stack)] = k
                              /\ \A i \in 1..(Len(tour.stack) - 1) : Append(Below, k)[i] = tour.stack[i]
<1> DEFINE n == Len(tour.stack)
<1>1. tour.stack \in Seq(Iter) /\ tour.stack # << >>
    BY TourFields DEF Running
<1>2. n \in Nat \ {0} /\ Top \in Iter
    BY <1>1 DEF Top
<1>3. Below \in Seq(Iter) /\ Len(Below) = n - 1 /\ \A i \in 1..(n - 1) : Below[i] = tour.stack[i]
  <2>1. 1 \in 1..n + 1 /\ n - 1 \in 0..n
      BY <1>2
  <2> QED BY <1>1, <1>2, <2>1 DEF Below
<1>4. ASSUME NEW k \in Iter
      PROVE  /\ Append(Below, k) \in Seq(Iter) /\ Len(Append(Below, k)) = n
             /\ Append(Below, k)[n] = k
             /\ \A i \in 1..(n - 1) : Append(Below, k)[i] = tour.stack[i]
    BY <1>2, <1>3
<1> QED BY <1>2, <1>3, <1>4

\* The node of an iterator was seen.
LEMMA NodesAreSeen ==
    ASSUME TourTypes, StackOK, SeenOK, NEW n \in DOMAIN tour.stack
    PROVE  tour.stack[n].node \in tour.seen
<1>1. Hangs(n, tour.stack[n].node)
    BY DEF StackOK
<1> QED BY <1>1 DEF Hangs, SeenOK, Yielded

LEMMA BeginKeeps == TourInv /\ Begin /\ UNCHANGED <<code, kept>> => TourInv'
<1> SUFFICES ASSUME TourInv, Begin, UNCHANGED <<code, kept>> PROVE TourInv'
    OBVIOUS
<1> DEFINE k == Kids(tour.root, 0)
<1>1. /\ TourTypes /\ StackOK /\ SeenOK /\ CoverOK /\ ~tour.begun
      /\ tour' = [tour EXCEPT !.begun = TRUE, !.stack = <<k>>]
      /\ tour.out = << >> /\ tour.limit \in Nat /\ tour.root \in Sym
    BY TourFields DEF TourInv, Begin, StackOK
<1>2. /\ k \in Iter /\ k.node = tour.root /\ k.depth = 1 /\ IterOK(k)
      /\ 0 < tour.limit => Pending(k) = AllKids(tour.root)
    BY <1>1, NewIterator
<1> HIDE DEF k
<1>3. /\ tour'.stack = <<k>> /\ tour'.out = << >> /\ tour'.seen = tour.seen /\ tour'.begun = TRUE
      /\ SameCall
      /\ tour' \in [mode : Modes, root : Sym, limit : Nat, stack : Seq(Iter), seen : SUBSET Sym,
                    out : Seq(Item), begun : BOOLEAN]
  <2> DEFINE t == <<k>>
  <2>1. t \in Seq(Iter)
      BY <1>2
  <2>2. tour' = [tour EXCEPT !.begun = TRUE, !.stack = t]
      BY <1>1
  <2> HIDE DEF t
  <2>3. /\ tour'.stack = t /\ tour'.out = << >> /\ tour'.seen = tour.seen /\ tour'.begun = TRUE
        /\ SameCall
        /\ tour' \in [mode : Modes, root : Sym, limit : Nat, stack : Seq(Iter), seen : SUBSET Sym,
                      out : Seq(Item), begun : BOOLEAN]
      BY <1>1, <2>1, <2>2 DEF TourTypes, SameCall
  <2> QED BY <2>3 DEF t
<1>4. TourTypes'
    BY <1>1, <1>3, TypesStay
<1>5. StackOK'
  <2>1. ASSUME NEW n \in DOMAIN tour'.stack
        PROVE  n = 1 /\ tour'.stack[n] = k
      BY <1>3
  <2>2. \A n \in DOMAIN tour'.stack :
           /\ tour'.stack[n].depth = n /\ IterOK(tour'.stack[n])
           /\ n = 1 /\ tour'.stack[n].node = tour.root
      BY <1>2, <2>1
  <2>3. Len(tour'.stack) <= Len(tour'.out) + 1
      BY <1>3
  <2> QED BY <1>3, <2>2, <2>3, KidsFixed DEF StackOK, Hangs, SameCall
<1>6. SeenOK'
    BY <1>1, <1>3 DEF SeenOK, Yielded, SameCall
<1>7. CoverOK'
  <2>1. ASSUME tour.limit = Unbounded, NEW s \in tour.seen PROVE Served(s)'
    <3>1. tour.seen = {tour.root}
        BY <1>1 DEF SeenOK, Yielded
    <3>2. Pending(k) = AllKids(s) /\ s = tour.root
        BY <1>2, <2>1, <3>1, TourFields, <1>1 DEF Unbounded
    <3>3. 1 \in DOMAIN tour'.stack /\ tour'.stack[1] = k
        BY <1>3
    <3> QED BY <1>2, <1>3, <3>2, <3>3, KidsFixed DEF Served
  <2> QED BY <1>1, <1>3, <2>1, KidsFixed DEF CoverOK, SameCall, Unbounded
<1>8. \A i \in DOMAIN tour'.out : Follows(i)'
    BY <1>3
<1> QED BY <1>4, <1>5, <1>6, <1>7, <1>8 DEF TourInv

LEMMA PopKeeps == TourInv /\ Pop /\ UNCHANGED <<code, kept>> => TourInv'
<1> SUFFICES ASSUME TourInv, Pop, UNCHANGED <<code, kept>> PROVE TourInv'
    OBVIOUS
<1> DEFINE n == Len(tour.stack)
<1>1. /\ TourTypes /\ StackOK /\ SeenOK /\ CoverOK /\ Running /\ Pending(Top) = {}
      /\ tour' = [tour EXCEPT !.stack = Below]
    BY NothingUpcoming DEF TourInv, Pop
<1>2. /\ n \in Nat \ {0} /\ Below \in Seq(Iter) /\ Len(Below) = n - 1 /\ DOMAIN Below = 1..(n - 1)
      /\ \A i \in 1..(n - 1) : Below[i] = tour.stack[i] /\ i \in DOMAIN tour.stack
    BY <1>1, Stacked, TourFields
<1>3. /\ tour'.stack = Below /\ tour'.out = tour.out /\ tour'.seen = tour.seen
      /\ tour'.begun = tour.begun /\ SameCall
      /\ tour' \in [mode : Modes, root : Sym, limit : Nat, stack : Seq(Iter), seen : SUBSET Sym,
                    out : Seq(Item), begun : BOOLEAN]
    BY <1>1, <1>2 DEF TourTypes, SameCall
<1>4. TourTypes'
    BY <1>1, <1>3, TypesStay
<1>5. StackOK'
  <2>1. \A i, x : Hangs(i, x)' = Hangs(i, x)
      BY <1>3 DEF Hangs, SameCall
  <2>2. tour.begun
      BY <1>1 DEF StackOK, Running
  <2>3. n - 1 <= Len(tour.out) + 1
      BY <1>1, <1>2, TourFields DEF StackOK
  <2>4. \A i \in 1..(n - 1) : /\ tour.stack[i].depth = i /\ IterOK(tour.stack[i])
                              /\ Hangs(i, tour.stack[i].node)
      BY <1>1, <1>2 DEF StackOK
  <2> QED BY <1>2, <1>3, <2>1, <2>2, <2>3, <2>4, KidsFixed DEF StackOK
<1>6. SeenOK'
    BY <1>1, <1>3 DEF SeenOK, Yielded, SameCall
<1>7. CoverOK'
  <2>1. ASSUME NEW s \in tour.seen, Served(s) PROVE Served(s)'
    <3>1. CASE AllKids(s) \subseteq tour.seen
        BY <1>3, <3>1, KidsFixed DEF Served
    <3>2. CASE ~(AllKids(s) \subseteq tour.seen)
      <4>1. PICK i \in DOMAIN tour.stack : /\ tour.stack[i].node = s
                                          /\ AllKids(s) \subseteq tour.seen \union Pending(tour.stack[i])
          BY <2>1, <3>2 DEF Served
      <4>2. i # n
          BY <1>1, <3>2, <4>1 DEF Top
      <4>3. i \in 1..(n - 1)
          BY <1>1, <1>2, <4>1, <4>2, TourFields
      <4>4. i \in DOMAIN tour'.stack /\ tour'.stack[i] = tour.stack[i]
          BY <1>2, <1>3, <4>3
      <4> QED BY <1>3, <4>1, <4>4, KidsFixed DEF Served
    <3> QED BY <3>1, <3>2
  <2> QED BY <1>1, <1>3, <2>1, KidsFixed DEF CoverOK, SameCall, Unbounded
<1>8. \A i \in DOMAIN tour'.out : Follows(i)'
    BY <1>3, FollowsFixed DEF TourInv
<1> QED BY <1>4, <1>5, <1>6, <1>7, <1>8 DEF TourInv

LEMMA SkipKeeps == TourInv /\ Skip /\ UNCHANGED <<code, kept>> => TourInv'
<1> SUFFICES ASSUME TourInv, Skip, UNCHANGED <<code, kept>> PROVE TourInv'
    OBVIOUS
<1> DEFINE n == Len(tour.stack)
<1>1. TourTypes /\ StackOK /\ SeenOK /\ CoverOK /\ Running
    BY DEF TourInv, Skip
<1>2. PICK c \in Upcoming(Top) \intersect tour.seen :
             tour' = [tour EXCEPT !.stack = Append(Below, Taken(Top, c))]
    BY DEF Skip
<1> DEFINE k == Taken(Top, c)
<1>3. n \in Nat \ {0} /\ Top \in Iter /\ n \in DOMAIN tour.stack /\ Top = tour.stack[n]
      /\ DOMAIN tour.stack = 1..n
    BY <1>1, Stacked, TourFields DEF Top
<1>4. Top.depth = n /\ IterOK(Top) /\ Hangs(n, Top.node)
    BY <1>1, <1>3 DEF StackOK
<1>5. /\ k \in Iter /\ k.node = Top.node /\ k.depth = Top.depth /\ IterOK(k)
      /\ Pending(Top) \ {c} \subseteq Pending(k)
    BY <1>1, <1>3, <1>4, OneTaken
<1> HIDE DEF k
<1>6. /\ Append(Below, k) \in Seq(Iter) /\ Len(Append(Below, k)) = n /\ Append(Below, k)[n] = k
      /\ \A i \in 1..(n - 1) : Append(Below, k)[i] = tour.stack[i]
    BY <1>1, <1>5, Stacked
<1> DEFINE t == Append(Below, k)
<1>7. DOMAIN t = 1..n
    BY <1>3, <1>6
<1> HIDE DEF t
<1>8. /\ tour'.stack = t /\ tour'.out = tour.out /\ tour'.seen = tour.seen
      /\ tour'.begun = tour.begun /\ SameCall
      /\ tour' \in [mode : Modes, root : Sym, limit : Nat, stack : Seq(Iter), seen : SUBSET Sym,
                    out : Seq(Item), begun : BOOLEAN]
  <2>1. tour' = [tour EXCEPT !.stack = t]
      BY <1>2, Zenon DEF t, k
  <2>2. t \in Seq(Iter)
      BY <1>6 DEF t
  <2> QED BY <1>1, <2>1, <2>2 DEF TourTypes, SameCall
<1>9. TourTypes'
    BY <1>1, <1>8, TypesStay
<1>10. StackOK'
  <2>1. \A i, x : Hangs(i, x)' = Hangs(i, x)
      BY <1>8 DEF Hangs, SameCall
  <2>2. tour.begun
      BY <1>1 DEF StackOK, Running
  <2>3. Len(t) <= Len(tour.out) + 1
      BY <1>1, <1>6 DEF StackOK, t
  <2>4. ASSUME NEW i \in DOMAIN t
        PROVE  t[i].depth = i /\ IterOK(t[i]) /\ Hangs(i, t[i].node)
    <3>1. CASE i = n
        BY <1>4, <1>5, <1>6, <3>1 DEF t
    <3>2. CASE i # n
      <4>1. i \in 1..(n - 1) /\ i \in DOMAIN tour.stack
          BY <1>3, <1>7, <2>4, <3>2
      <4> QED BY <1>1, <1>6, <4>1 DEF StackOK, t
    <3> QED BY <3>1, <3>2
  <2> QED BY <1>8, <2>1, <2>2, <2>3, <2>4, KidsFixed DEF StackOK
<1>11. SeenOK'
    BY <1>1, <1>8 DEF SeenOK, Yielded, SameCall
<1>12. CoverOK'
  <2>1. ASSUME NEW s \in tour.seen, Served(s) PROVE Served(s)'
    <3>1. CASE AllKids(s) \subseteq tour.seen
        BY <1>8, <3>1, KidsFixed DEF Served
    <3>2. CASE ~(AllKids(s) \subseteq tour.seen)
      <4>1. PICK i \in DOMAIN tour.stack : /\ tour.stack[i].node = s
                                          /\ AllKids(s) \subseteq tour.seen \union Pending(tour.stack[i])
          BY <2>1, <3>2 DEF Served
      <4>2. CASE i = n
        <5>1. t[n] = k /\ k.node = s /\ AllKids(s) \subseteq tour.seen \union Pending(k)
            BY <1>2, <1>3, <1>5, <1>6, <4>1, <4>2 DEF t
        <5>2. n \in DOMAIN t
            BY <1>3, <1>7
        <5> QED BY <1>8, <5>1, <5>2, KidsFixed DEF Served
      <4>3. CASE i # n
        <5>1. i \in 1..(n - 1)
            BY <1>3, <4>1, <4>3
        <5>2. i \in DOMAIN t /\ t[i] = tour.stack[i]
            BY <1>3, <1>6, <1>7, <5>1 DEF t
        <5> QED BY <1>8, <4>1, <5>2, KidsFixed DEF Served
      <4> QED BY <4>2, <4>3
    <3> QED BY <3>1, <3>2
  <2> QED BY <1>1, <1>8, <2>1, KidsFixed DEF CoverOK, SameCall, Unbounded
<1>13. \A i \in DOMAIN tour'.out : Follows(i)'
    BY <1>8, FollowsFixed DEF TourInv
<1> QED BY <1>9, <1>10, <1>11, <1>12, <1>13 DEF TourInv

LEMMA YieldKeeps == TourInv /\ Yield /\ UNCHANGED <<code, kept>> => TourInv'
<1> SUFFICES ASSUME TourInv, Yield, UNCHANGED <<code, kept>> PROVE TourInv'
    OBVIOUS
<1> PICK n, m : n = Len(tour.stack) /\ m = Len(tour.out)
    OBVIOUS
<1>1. /\ TourTypes /\ StackOK /\ SeenOK /\ CoverOK /\ Running
      /\ \A i \in DOMAIN tour.out : Follows(i)
    BY DEF TourInv, Yield
<1>2. PICK c \in Upcoming(Top) \ tour.seen :
             tour' = [tour EXCEPT
                        !.seen = @ \union {c},
                        !.out = Append(@, [sym |-> c, depth |-> Top.depth]),
                        !.stack = Append(Append(Below, Taken(Top, c)), Kids(c, Top.depth))]
    BY DEF Yield
<1> DEFINE k == Taken(Top, c)
           b == Append(Below, k)
           l == Kids(c, Top.depth)
           t == Append(b, l)
           o == [sym |-> c, depth |-> Top.depth]
           out == Append(tour.out, o)
<1>3. n \in Nat \ {0} /\ Top \in Iter /\ n \in DOMAIN tour.stack /\ Top = tour.stack[n]
      /\ DOMAIN tour.stack = 1..n
    BY <1>1, Stacked, TourFields DEF Top
<1>4. Top.depth = n /\ IterOK(Top) /\ Hangs(n, Top.node)
    BY <1>1, <1>3 DEF StackOK
<1>5. /\ k \in Iter /\ k.node = Top.node /\ k.depth = Top.depth /\ IterOK(k)
      /\ Pending(Top) \ {c} \subseteq Pending(k)
      /\ c \in AllKids(Top.node) /\ c \in Sym /\ Top.depth <= tour.limit
    BY <1>1, <1>3, <1>4, OneTaken
<1> HIDE DEF k
<1>6. /\ b \in Seq(Iter) /\ Len(b) = n /\ b[n] = k
      /\ \A i \in 1..(n - 1) : b[i] = tour.stack[i]
    BY <1>1, <1>5, Stacked
<1>7. /\ l \in Iter /\ l.node = c /\ l.depth = n + 1 /\ IterOK(l)
      /\ n < tour.limit => Pending(l) = AllKids(c)
  <2>1. l = Kids(c, n) /\ n \in Nat
      BY <1>3, <1>4
  <2> HIDE DEF l
  <2> QED BY <1>1, <1>5, <2>1, NewIterator
<1> HIDE DEF b, l
<1>8. /\ t \in Seq(Iter) /\ Len(t) = n + 1 /\ DOMAIN t = 1..(n + 1) /\ t[n + 1] = l /\ t[n] = k
      /\ \A i \in 1..(n - 1) : t[i] = tour.stack[i]
    BY <1>3, <1>6, <1>7
<1>9. /\ m \in Nat /\ DOMAIN tour.out = 1..m /\ tour.out \in Seq(Item)
      /\ \A i \in 1..m : tour.out[i] \in Item
    BY <1>1, TourFields
<1>10. o \in Item /\ o.sym = c /\ o.depth = n
    BY <1>3, <1>4, <1>5 DEF Item
<1> HIDE DEF o
<1>11. /\ out \in Seq(Item) /\ Len(out) = m + 1 /\ DOMAIN out = 1..(m + 1) /\ out[m + 1] = o
       /\ \A i \in 1..m : out[i] = tour.out[i]
    BY <1>9, <1>10
<1> HIDE DEF t, out
<1>12. /\ tour'.stack = t /\ tour'.out = out /\ tour'.seen = tour.seen \union {c}
       /\ tour'.begun = tour.begun /\ SameCall
       /\ tour' \in [mode : Modes, root : Sym, limit : Nat, stack : Seq(Iter), seen : SUBSET Sym,
                     out : Seq(Item), begun : BOOLEAN]
  <2> DEFINE seen == tour.seen \union {c}
  <2>1. tour' = [tour EXCEPT !.seen = seen, !.out = out, !.stack = t]
      BY <1>2, Zenon DEF t, b, k, l, o, out
  <2>2. seen \in SUBSET Sym
      BY <1>5, <1>1, TourFields
  <2> HIDE DEF seen
  <2>3. /\ tour'.stack = t /\ tour'.out = out /\ tour'.seen = seen
        /\ tour'.begun = tour.begun /\ SameCall
        /\ tour' \in [mode : Modes, root : Sym, limit : Nat, stack : Seq(Iter), seen : SUBSET Sym,
                      out : Seq(Item), begun : BOOLEAN]
      BY <1>1, <1>8, <1>11, <2>1, <2>2 DEF TourTypes, SameCall
  <2> QED BY <2>3 DEF seen
<1>13. TourTypes'
    BY <1>1, <1>12, TypesStay
<1>14. Yielded' = Yielded \union {c}
  <2>1. Yielded = {tour.out[i].sym : i \in 1..m} /\ Yielded' = {out[i].sym : i \in 1..(m + 1)}
      BY <1>9, <1>11, <1>12 DEF Yielded
  <2>2. \A i \in 1..(m + 1) : i \in 1..m \/ i = m + 1
      BY <1>9
  <2>3. {out[i].sym : i \in 1..(m + 1)} = {out[i].sym : i \in 1..m} \union {c}
    <3>1. \A i \in 1..m : i \in 1..(m + 1)
        BY <1>9
    <3>2. m + 1 \in 1..(m + 1) /\ out[m + 1].sym = c
        BY <1>9, <1>10, <1>11
    <3> QED BY <2>2, <3>1, <3>2
  <2>4. {out[i].sym : i \in 1..m} = {tour.out[i].sym : i \in 1..m}
      BY <1>11
  <2> QED BY <2>1, <2>3, <2>4
<1>15. SeenOK'
  <2>1. tour'.seen = {tour'.root} \union Yielded'
      BY <1>1, <1>12, <1>14 DEF SeenOK, SameCall
  <2>2. Cardinality(tour.seen \union {c}) = Cardinality(tour.seen) + 1
    <3> DEFINE S == tour.seen
    <3>1. IsFiniteSet(S) /\ c \notin S /\ Cardinality(S) \in Nat
        BY <1>1, <1>2, TourFields
    <3> HIDE DEF S
    <3>2. Cardinality(S \union {c}) = Cardinality(S) + 1
        BY <3>1, FS_AddElement
    <3> QED BY <3>2 DEF S
  <2>3. Cardinality(tour.seen) = m + 1
      BY <1>1 DEF SeenOK
  <2> QED BY <1>11, <1>12, <2>1, <2>2, <2>3 DEF SeenOK
<1>16. n <= m + 1
    BY <1>1 DEF StackOK
<1>17. StackOK'
  <2>1. ASSUME NEW i \in 1..n, NEW x, Hangs(i, x) PROVE Hangs(i, x)'
    <3>1. CASE i = 1
        BY <1>12, <2>1, <3>1 DEF Hangs, SameCall
    <3>2. CASE i # 1
      <4>1. PICK j \in 1..m : /\ tour.out[j].sym = x /\ tour.out[j].depth = i - 1
                              /\ \A p \in 1..m : p > j => tour.out[p].depth >= i
          BY <1>9, <2>1, <3>2 DEF Hangs
      <4>2. j \in DOMAIN out /\ out[j] = tour.out[j]
          BY <1>9, <1>11
      <4>3. ASSUME NEW p \in DOMAIN out, p > j PROVE out[p].depth >= i
        <5>1. CASE p = m + 1
            BY <1>3, <1>10, <1>11, <5>1
        <5>2. CASE p # m + 1
          <6>1. p \in 1..m
              BY <1>9, <1>11, <4>3, <5>2
          <6> QED BY <1>11, <4>1, <4>3, <6>1
        <5> QED BY <5>1, <5>2
      <4> QED BY <1>12, <3>2, <4>1, <4>2, <4>3 DEF Hangs
    <3> QED BY <3>1, <3>2
  <2>2. Hangs(n + 1, c)'
    <3>1. m + 1 \in DOMAIN out /\ n + 1 # 1 /\ (n + 1) - 1 = n
        BY <1>3, <1>9, <1>11
    <3>2. \A p \in DOMAIN out : ~(p > m + 1)
        BY <1>9, <1>11
    <3>3. out[m + 1].sym = c /\ out[m + 1].depth = (n + 1) - 1
        BY <1>10, <1>11, <3>1
    <3> QED BY <1>12, <3>1, <3>2, <3>3 DEF Hangs
  <2>3. ASSUME NEW i \in DOMAIN t, NEW x, x = t[i]
        PROVE  x.depth = i /\ IterOK(x) /\ Hangs(i, x.node)'
    <3>1. CASE i = n + 1
        BY <1>7, <1>8, <2>2, <2>3, <3>1
    <3>2. CASE i = n
      <4>1. x.depth = n /\ IterOK(x) /\ x.node = Top.node /\ n \in 1..n
          BY <1>3, <1>4, <1>5, <1>8, <2>3, <3>2
      <4>2. Hangs(n, x.node)
          BY <1>4, <4>1
      <4> QED BY <2>1, <3>2, <4>1, <4>2
    <3>3. CASE i # n /\ i # n + 1
      <4>1. i \in 1..(n - 1) /\ i \in 1..n /\ i \in DOMAIN tour.stack
          BY <1>3, <1>8, <2>3, <3>3
      <4>2. x.depth = i /\ IterOK(x) /\ Hangs(i, x.node)
          BY <1>1, <1>8, <2>3, <4>1 DEF StackOK
      <4> QED BY <2>1, <4>1, <4>2
    <3> QED BY <3>1, <3>2, <3>3
  <2>4. Len(t) <= Len(out) + 1
      BY <1>3, <1>8, <1>9, <1>11, <1>16
  <2>5. tour.begun
      BY <1>1 DEF StackOK, Running
  <2>6. \A i \in DOMAIN tour'.stack : /\ tour'.stack[i].depth = i /\ IterOK(tour'.stack[i])
                                     /\ \A x : x = tour'.stack[i].node => Hangs(i, x)'
      BY <1>12, <2>3
  <2> QED BY <1>12, <2>4, <2>5, <2>6, KidsFixed DEF StackOK
<1>18. CoverOK'
  <2>1. ASSUME NEW s \in tour.seen, Served(s) PROVE Served(s)'
    <3>1. CASE AllKids(s) \subseteq tour.seen
        BY <1>12, <3>1, KidsFixed DEF Served
    <3>2. CASE ~(AllKids(s) \subseteq tour.seen)
      <4>1. PICK i \in DOMAIN tour.stack : /\ tour.stack[i].node = s
                                          /\ AllKids(s) \subseteq tour.seen \union Pending(tour.stack[i])
          BY <2>1, <3>2 DEF Served
      <4>2. CASE i = n
        <5>1. t[n] = k /\ k.node = s /\ AllKids(s) \subseteq (tour.seen \union {c}) \union Pending(k)
            BY <1>3, <1>5, <1>8, <4>1, <4>2
        <5>2. n \in DOMAIN t
            BY <1>3, <1>8
        <5> QED BY <1>12, <5>1, <5>2, KidsFixed DEF Served
      <4>3. CASE i # n
        <5>1. i \in 1..(n - 1)
            BY <1>3, <4>1, <4>3
        <5>2. i \in DOMAIN t /\ t[i] = tour.stack[i]
            BY <1>3, <1>8, <5>1
        <5> QED BY <1>12, <4>1, <5>2, KidsFixed DEF Served
      <4> QED BY <4>2, <4>3
    <3> QED BY <3>1, <3>2
  <2>2. ASSUME tour.limit = Unbounded PROVE Served(c)'
    <3>1. n < tour.limit
      <4>1. n <= Cardinality(tour.seen) /\ Cardinality(tour.seen) <= Cardinality(Sym)
            /\ Cardinality(Sym) \in Nat /\ Cardinality(tour.seen) \in Nat
          BY <1>1, <1>16, TourFields DEF SeenOK
      <4> QED BY <1>3, <2>2, <4>1 DEF Unbounded
    <3>2. n + 1 \in DOMAIN t /\ t[n + 1].node = c /\ Pending(t[n + 1]) = AllKids(c)
        BY <1>3, <1>7, <1>8, <3>1
    <3> QED BY <1>12, <3>2, KidsFixed DEF Served
  <2>3. ASSUME NEW X \in SUBSET Sym, Surrounds(X) PROVE tour'.seen \subseteq X
    <3>1. Top.node \in tour.seen
        BY <1>1, <1>3, NodesAreSeen
    <3>2. tour.seen \subseteq X
        BY <1>1, <2>3 DEF CoverOK
    <3> QED BY <1>5, <1>12, <2>3, <3>1, <3>2 DEF Surrounds
  <2> QED BY <1>1, <1>12, <2>1, <2>2, <2>3, KidsFixed DEF CoverOK, SameCall, Unbounded
<1>19. \A i \in DOMAIN tour'.out : Follows(i)'
  <2>1. ASSUME NEW i \in 1..m PROVE Follows(i)'
    <3>1. Follows(i) /\ i \in 1..m /\ \A j \in 1..(i - 1) : j \in 1..m
        BY <1>1, <1>9
    <3>2. tour'.out[i] = tour.out[i] /\ \A j \in 1..(i - 1) : tour'.out[j] = tour.out[j]
        BY <1>11, <1>12, <3>1
    <3>3. i \in 1..m /\ tour'.limit = tour.limit /\ tour'.root = tour.root
          /\ \A f : AllKids(f)' = AllKids(f)
        BY <1>12, KidsFixed DEF SameCall
    <3> QED BY <3>1, <3>2, <3>3 DEF Follows
  <2>2. Follows(m + 1)'
    <3>1. tour'.out[m + 1] = o /\ (m + 1) - 1 = m /\ \A j \in 1..m : tour'.out[j] = tour.out[j]
        BY <1>9, <1>11, <1>12
    <3>2. c # tour.root /\ \A j \in 1..m : tour.out[j].sym # c
        BY <1>1, <1>2, <1>9 DEF SeenOK, Yielded
    <3>5. tour'.limit = tour.limit /\ tour'.root = tour.root /\ \A f : AllKids(f)' = AllKids(f)
        BY <1>12, KidsFixed DEF SameCall
    <3>6. /\ tour'.out[m + 1].sym = c /\ tour'.out[m + 1].depth = n /\ n <= tour.limit
          /\ c \in AllKids(Top.node)
        BY <1>4, <1>5, <1>10, <3>1
    <3>3. CASE n = 1
      <4>1. Top.node = tour.root
          BY <1>4, <3>3 DEF Hangs
      <4>2. \A j \in 1..m : tour.out[j].depth >= 1
          BY <1>9 DEF Item
      <4> QED BY <3>1, <3>2, <3>3, <3>5, <3>6, <4>1, <4>2 DEF Follows
    <3>4. CASE n # 1
      <4>1. PICK j \in 1..m : /\ tour.out[j].sym = Top.node /\ tour.out[j].depth = n - 1
                              /\ \A p \in 1..m : p > j => tour.out[p].depth >= n
          BY <1>4, <1>9, <3>4 DEF Hangs
      <4>2. c \in AllKids(tour.out[j].sym)
          BY <3>6, <4>1
      <4>3. /\ j \in 1..((m + 1) - 1)
            /\ tour'.out[j].depth = tour'.out[m + 1].depth - 1
            /\ (tour.out[m + 1].sym \in AllKids(tour.out[j].sym))'
        <5>1. tour'.out[m + 1].sym = c /\ tour'.out[j].sym = tour.out[j].sym
          BY <3>1, <3>6
        <5>2. (AllKids(tour.out[j].sym))' = AllKids(tour.out[j].sym)
          BY <3>5, <5>1
        <5> QED BY <3>1, <3>6, <4>1, <4>2, <5>1, <5>2
      <4>4. \A p \in 1..((m + 1) - 1) : p > j => tour'.out[p].depth >= tour'.out[m + 1].depth
        BY <3>1, <3>6, <4>1
      <4>5. /\ tour'.out[m + 1].depth <= tour'.limit /\ tour'.out[m + 1].sym # tour'.root
            /\ \A p \in 1..((m + 1) - 1) : tour'.out[p].sym # tour'.out[m + 1].sym
        BY <3>1, <3>2, <3>5, <3>6
      <4> QED BY <4>3, <4>4, <4>5 DEF Follows
    <3> QED BY <3>3, <3>4
  <2> QED BY <1>9, <1>11, <1>12, <2>1, <2>2
<1> QED BY <1>13, <1>15, <1>17, <1>18, <1>19 DEF TourInv

LEMMA TourOpens ==
    ASSUME NEW r \in Request, tour = StartTour(r.mode, r.root, r.limit), GraphOK(code), Decided
    PROVE  TourInv
<1>2. r.mode \in Modes /\ r.root \in Sym /\ r.limit \in Nat
    BY DEF Request
<1>3. /\ tour.mode = r.mode /\ tour.root = r.root /\ tour.limit = r.limit /\ tour.stack = << >>
      /\ tour.seen = {tour.root} /\ tour.out = << >> /\ tour.begun = FALSE
    BY DEF StartTour
<1>4. TourTypes
  <2>1. tour \in [mode : Modes, root : Sym, limit : Nat, stack : Seq(Iter), seen : SUBSET Sym,
                  out : Seq(Item), begun : BOOLEAN]
      BY <1>2 DEF StartTour
  <2> QED BY <2>1 DEF TourTypes
<1>5. StackOK /\ \A i \in DOMAIN tour.out : Follows(i)
    BY <1>3 DEF StackOK
<1>6. SeenOK
  <2>1. Cardinality({tour.root}) = 1
      BY FS_Singleton
  <2> QED BY <1>3, <2>1 DEF SeenOK, Yielded
<1>7. CoverOK
    BY <1>3 DEF CoverOK, Surrounds
<1> QED BY <1>4, <1>5, <1>6, <1>7 DEF TourInv

LEMMA TourStarts ==
    ASSUME NEW graphs, \A g \in graphs : GraphOK(g), NEW requests \in SUBSET Request,
           TourStart(graphs, requests)
    PROVE  TourInv
<1>1. PICK r \in requests : tour = StartTour(r.mode, r.root, r.limit)
    BY DEF TourStart
<1>2. GraphOK(code) /\ Decided
    BY DEF TourStart
<1> QED BY <1>1, <1>2, TourOpens

LEMMA TourKept == TourInv /\ [TourNext]_tourVars => TourInv'
<1>1. TourInv /\ TourNext => TourInv'
    BY BeginKeeps, SkipKeeps, YieldKeeps, PopKeeps DEF TourNext, TourStep
<1>2. TourInv /\ UNCHANGED tourVars => TourInv'
  <2> SUFFICES ASSUME TourInv, UNCHANGED tourVars PROVE TourInv'
      OBVIOUS
  <2>1. SameCall /\ tour' = tour
      BY DEF tourVars, SameCall
  <2>2. TourTypes' /\ SeenOK'
      BY <2>1 DEF TourInv, TourTypes, Decided, SeenOK, Yielded, SameCall
  <2>3. StackOK'
      BY <2>1, KidsFixed DEF TourInv, StackOK, Hangs
  <2>4. CoverOK'
      BY <2>1, KidsFixed DEF TourInv, CoverOK, Served, Unbounded
  <2>5. \A i \in DOMAIN tour'.out : Follows(i)'
      BY <2>1, KidsFixed DEF TourInv, Follows
  <2> QED BY <2>2, <2>3, <2>4, <2>5 DEF TourInv
<1> QED BY <1>1, <1>2

\* A walk does not change what was asked for.
LEMMA RequestStays ==
    ASSUME TourInv, [TourNext]_tourVars
    PROVE  tour'.root = tour.root /\ tour'.mode = tour.mode /\ tour'.limit = tour.limit
<1>1. \E b, s, n, o : tour = [mode |-> tour.mode, root |-> tour.root, limit |-> tour.limit, stack |-> s,
                              seen |-> n, out |-> o, begun |-> b]
    BY DEF TourInv, TourTypes
<1>2. CASE TourStep
    BY <1>1, <1>2 DEF TourStep, Begin, Skip, Yield, Pop
<1>3. CASE UNCHANGED tourVars
    BY <1>3 DEF tourVars
<1> QED BY <1>2, <1>3 DEF TourNext

LEMMA TourAlways ==
    ASSUME NEW graphs, \A g \in graphs : GraphOK(g), NEW requests \in SUBSET Request
    PROVE  TourSpec(graphs, requests) => []TourInv
<1>1. TourStart(graphs, requests) => TourInv
    BY TourStarts
<1> QED BY <1>1, TourKept, PTL DEF TourSpec

-----------------------------------------------------------------------------
(* The promises of a walk. *)

\* For every graph, mode, limit, decision and order of the callees: the first item is
\* called by the root, every other by the last item before it that is one level up, no
\* symbol comes twice and none deeper than the limit.
THEOREM StreamFollowsTheCalls ==
    ASSUME NEW graphs, \A g \in graphs : GraphOK(g), NEW requests \in SUBSET Request
    PROVE  TourSpec(graphs, requests) => []FollowsTheCalls
<1>1. TourInv => FollowsTheCalls
  <2> SUFFICES ASSUME TourInv, NEW i \in DOMAIN tour.out
               PROVE  LET o == tour.out[i]
                          above == {j \in 1..(i - 1) : tour.out[j].depth < o.depth}
                      IN  /\ o.depth <= tour.limit
                          /\ \A j \in 1..(i - 1) : tour.out[j].sym # o.sym
                          /\ o.sym # tour.root
                          /\ IF above = {} THEN o.depth = 1 /\ o.sym \in AllKids(tour.root)
                             ELSE LET j == CHOOSE j \in above : \A k \in above : k <= j
                                  IN  tour.out[j].depth = o.depth - 1 /\ o.sym \in AllKids(tour.out[j].sym)
      BY Zenon DEF FollowsTheCalls
  <2> DEFINE o == tour.out[i]
             above == {j \in 1..(i - 1) : tour.out[j].depth < o.depth}
  <2>1. Follows(i) /\ i \in Nat /\ o.depth \in Nat \ {0}
        /\ \A j \in 1..(i - 1) : tour.out[j].depth \in Nat
    <3>1. tour.out \in Seq(Item) /\ DOMAIN tour.out = 1..Len(tour.out) /\ Len(tour.out) \in Nat
        BY TourFields DEF TourInv
    <3>2. i \in Nat /\ \A j \in 1..(i - 1) : j \in DOMAIN tour.out
        BY <3>1
    <3>3. \A j \in DOMAIN tour.out : tour.out[j].depth \in Nat \ {0}
      <4>1. \A j \in DOMAIN tour.out : tour.out[j] \in Item
          BY <3>1
      <4> QED BY <4>1 DEF Item
    <3> QED BY <3>2, <3>3 DEF TourInv
  <2>2. CASE /\ \A j \in 1..(i - 1) : tour.out[j].depth >= o.depth
             /\ o.depth = 1 /\ o.sym \in AllKids(tour.root)
    <3>1. above = {}
        BY <2>1, <2>2
    <3> QED BY <2>1, <2>2, <3>1 DEF Follows
  <2>3. ASSUME NEW j \in 1..(i - 1),
               tour.out[j].depth = o.depth - 1, o.sym \in AllKids(tour.out[j].sym),
               \A k \in 1..(i - 1) : k > j => tour.out[k].depth >= o.depth
        PROVE  /\ above # {}
               /\ LET l == CHOOSE l \in above : \A k \in above : k <= l
                  IN  tour.out[l].depth = o.depth - 1 /\ o.sym \in AllKids(tour.out[l].sym)
    <3>1. j \in above
        BY <2>1, <2>3
    <3>2. \A k \in above : k <= j
        BY <2>1, <2>3
    <3> DEFINE l == CHOOSE l \in above : \A k \in above : k <= l
    <3>3. l \in above /\ \A k \in above : k <= l
      <4> HIDE DEF above
      <4> QED BY <3>1, <3>2
    <3>4. l = j
      <4>1. l <= j /\ j <= l /\ l \in Nat /\ j \in Nat
          BY <2>1, <3>1, <3>2, <3>3
      <4> HIDE DEF l
      <4> QED BY <4>1
    <3> QED BY <2>3, <3>1, <3>4
  <2> HIDE DEF above
  <2>4. CASE above # {} /\ LET l == CHOOSE l \in above : \A k \in above : k <= l
                           IN  tour.out[l].depth = o.depth - 1 /\ o.sym \in AllKids(tour.out[l].sym)
      BY <2>1, <2>4, Zenon DEF Follows, above
  <2> QED BY <2>1, <2>2, <2>3, <2>4 DEF Follows
<1> QED BY <1>1, TourAlways, PTL

\* For every graph, cyclic or not, every mode, decision and order: an unbounded walk
\* that has ended yielded exactly what can be reached from the root.
THEOREM WalkSurfacesAllReachable ==
    ASSUME NEW graphs, \A g \in graphs : GraphOK(g), NEW requests \in SUBSET Request
    PROVE  TourSpec(graphs, requests) => []SurfacesAllReachable
<1>1. TourInv => SurfacesAllReachable
  <2> SUFFICES ASSUME TourInv, Exhausted, tour.limit = Unbounded
               PROVE  Yielded = Reach(LAMBDA f : AllKids(f), tour.root) \ {tour.root}
      BY DEF SurfacesAllReachable
  <2>1. TourTypes /\ StackOK /\ SeenOK /\ CoverOK /\ \A i \in DOMAIN tour.out : Follows(i)
      BY DEF TourInv
  <2>2. tour.begun /\ tour.stack = << >>
      BY DEF Exhausted, Running
  <2>3. \A s \in tour.seen : AllKids(s) \subseteq tour.seen
      BY <2>1, <2>2 DEF CoverOK, Served
  <2>4. Surrounds(tour.seen) /\ tour.seen \in SUBSET Sym
      BY <2>1, <2>3, TourFields DEF SeenOK, Surrounds
  <2> DEFINE R == Reach(LAMBDA f : AllKids(f), tour.root)
  <2>5. R \in SUBSET Sym /\ Surrounds(R) /\ \A X \in SUBSET Sym : Surrounds(X) => R \subseteq X
      BY <2>1, ReachIsLeast
  <2> HIDE DEF R
  <2>6. R = tour.seen
      BY <2>1, <2>4, <2>5 DEF CoverOK
  <2>7. tour.root \notin Yielded
      BY <2>1 DEF Yielded, Follows
  <2>8. Yielded = R \ {tour.root}
      BY <2>1, <2>6, <2>7 DEF SeenOK
  <2> QED BY <2>8 DEF R
<1> QED BY <1>1, TourAlways, PTL

-----------------------------------------------------------------------------
(* The classes of a program. *)

\* c, its base, the base of that, and so on ...
Upwards(s, c) ==
    /\ s \in Seq(Class) /\ s # << >> /\ s[1] = c
    /\ \A i \in 1..(Len(s) - 1) : s[i] # Base /\ s[i + 1] = Parent[s[i]]

\* ... up to the last.
IsChain(s, c) == Upwards(s, c) /\ s[Len(s)] = Base

LEMMA LastOfPart ==
    ASSUME NEW c, NEW s, Upwards(s, c)
    PROVE  Len(s) \in Nat \ {0} /\ DOMAIN s = 1..Len(s) /\ s[Len(s)] \in Class
BY DEF Upwards

LEMMA PartGrows ==
    ASSUME NEW c, NEW s, Upwards(s, c), s[Len(s)] # Base, NEW p, p = Parent[s[Len(s)]]
    PROVE  LET t == Append(s, p) IN p \in Class /\ Upwards(t, c) /\ t[Len(t)] = p
<1> DEFINE m == Len(s)
           t == Append(s, p)
<1>1. m \in Nat \ {0} /\ s[m] \in Class /\ s \in Seq(Class)
    BY LastOfPart DEF Upwards
<1>2. p \in Class
    BY <1>1, ProgramIsOfSymbols
<1>3. /\ t \in Seq(Class) /\ Len(t) = m + 1 /\ t # << >> /\ t[m + 1] = p
      /\ \A i \in 1..m : t[i] = s[i]
    BY <1>1, <1>2
<1>4. ASSUME NEW i \in 1..((m + 1) - 1) PROVE t[i] # Base /\ t[i + 1] = Parent[t[i]]
  <2>1. CASE i = m
      BY <1>1, <1>3, <2>1
  <2>2. CASE i # m
    <3>1. i \in 1..(m - 1) /\ i \in 1..m /\ i + 1 \in 1..m
        BY <1>1, <2>2
    <3> QED BY <1>3, <3>1 DEF Upwards
  <2> QED BY <2>1, <2>2
<1>5. t[1] = c
    BY <1>1, <1>3 DEF Upwards
<1> HIDE DEF t, m
<1> QED BY <1>2, <1>3, <1>4, <1>5 DEF Upwards

LEMMA ChainExists ==
    ASSUME NEW c, c \in Class
    PROVE  IsChain(Ancestors(c), c)
<1> DEFINE N == Cardinality(Class)
           next(s) == IF s[Len(s)] = Base THEN s ELSE Append(s, Parent[s[Len(s)]])
           up[n \in 0..N] == IF n = 0 THEN <<c>>
                             ELSE LET s == up[n - 1]
                                  IN  IF s[Len(s)] = Base THEN s ELSE Append(s, Parent[s[Len(s)]])
           V == Seq(Class) \ {<< >>}
           G == [s \in V |-> next(s)]
<1>0. N \in Nat
    BY ProgramIsOfSymbols, SymIsFinite, FS_Subset, FS_CardinalityType
<1>1. G \in [V -> V] /\ <<c>> \in V
  <2> SUFFICES ASSUME NEW s \in V PROVE next(s) \in V
      OBVIOUS
  <2>1. s[Len(s)] \in Class
      OBVIOUS
  <2>2. CASE s[Len(s)] # Base
    <3>1. Parent[s[Len(s)]] \in Class
        BY <2>1, <2>2, ProgramIsOfSymbols
    <3> QED BY <2>2, <3>1
  <2> QED BY <2>2
<1>2. PICK h \in [Nat -> V] : h[0] = <<c>> /\ \A n \in Nat : h[n + 1] = G[h[n]]
  <2> DEFINE v == <<c>>
  <2>1. v \in V /\ G \in [V -> V]
      BY <1>1
  <2> HIDE DEF V, G, v
  <2>2. \E h \in [Nat -> V] : h[0] = v /\ \A n \in Nat : h[n + 1] = G[h[n]]
      BY ONLY <2>1, Iterates
  <2> QED BY <2>2 DEF v
<1> HIDE DEF N
<1> DEFINE k == [n \in 0..N |-> h[n]]
<1>3. k = [n \in 0..N |-> IF n = 0 THEN <<c>>
                          ELSE LET s == k[n - 1]
                               IN  IF s[Len(s)] = Base THEN s ELSE Append(s, Parent[s[Len(s)]])]
  <2> SUFFICES ASSUME NEW n \in 0..N
               PROVE  h[n] = IF n = 0 THEN <<c>> ELSE next(k[n - 1])
      OBVIOUS
  <2>1. CASE n = 0
      BY <1>2, <2>1
  <2>2. CASE n # 0
    <3>1. n - 1 \in Nat /\ n - 1 \in 0..N /\ (n - 1) + 1 = n
        BY <1>0, <2>2
    <3>2. h[n] = G[h[n - 1]] /\ h[n - 1] \in V
        BY <1>2, <3>1
    <3>3. k[n - 1] = h[n - 1]
        BY <3>1
    <3> HIDE DEF k
    <3> QED BY <2>2, <3>2, <3>3
  <2> QED BY <2>1, <2>2
<1>4. up = [n \in 0..N |-> IF n = 0 THEN <<c>>
                           ELSE LET s == up[n - 1]
                                IN  IF s[Len(s)] = Base THEN s ELSE Append(s, Parent[s[Len(s)]])]
  <2> HIDE DEF k
  <2> QED BY <1>3, Zenon DEF up
<1>5. Ancestors(c) = up[N]
    BY Zenon DEF Ancestors, up, N
<1> HIDE DEF up
<1>6. PICK order \in [Class -> 1..N] : \A x \in Class \ {Base} : order[Parent[x]] < order[x]
    BY BasesComeFirst DEF N
<1> DEFINE Good(s, n) ==
              Upwards(s, c) /\ (s[Len(s)] = Base \/ order[s[Len(s)]] <= N - n)
           T == {n \in Nat : n <= N => Good(up[n], n)}
<1>7. 0 \in T
  <2>1. up[0] = <<c>> /\ order[c] \in 1..N
      BY <1>0, <1>4
  <2>2. Good(<<c>>, 0)
    <3>1. <<c>> \in Seq(Class) /\ <<c>> # << >> /\ <<c>>[1] = c /\ Len(<<c>>) = 1
        OBVIOUS
    <3> QED BY <1>0, <2>1, <3>1 DEF Upwards
  <2> HIDE DEF Good
  <2> QED BY <2>1, <2>2
<1>8. ASSUME NEW n \in T \intersect Nat PROVE n + 1 \in T
  <2> SUFFICES ASSUME n + 1 <= N PROVE Good(up[n + 1], n + 1)
      OBVIOUS
  <2> DEFINE s == up[n]
             m == Len(s)
  <2>0. n + 1 \in 0..N /\ (n + 1) - 1 = n /\ n \in 0..N /\ n + 1 # 0
      BY <1>0
  <2>1. Good(s, n)
      BY <1>0, <2>0
  <2>2. up[n + 1] = IF s[m] = Base THEN s ELSE Append(s, Parent[s[m]])
    <3> HIDE DEF Good, T
    <3> QED BY <1>4, <2>0
  <2> HIDE DEF s
  <2>3. CASE s[m] = Base
      BY <2>1, <2>2, <2>3
  <2>4. CASE s[m] # Base
    <3> DEFINE p == Parent[s[m]]
               t == Append(s, p)
    <3>1. s[m] \in Class /\ p \in Class /\ Upwards(t, c) /\ t[Len(t)] = p
        BY <2>1, <2>4, LastOfPart, PartGrows
    <3>2. order[p] < order[s[m]] /\ order[p] \in 1..N /\ order[s[m]] \in 1..N
        BY <1>6, <2>4, <3>1, ProgramIsOfSymbols
    <3>3. order[p] <= N - (n + 1)
      <4>1. order[s[m]] <= N - n
          BY <2>1, <2>4
      <4>2. ASSUME NEW x \in 1..N, NEW y \in 1..N, y < x, x <= N - n PROVE y <= N - (n + 1)
          BY ONLY <1>0, <4>2, n \in Nat
      <4> QED BY ONLY <4>1, <4>2, <3>2
    <3>4. up[n + 1] = t
        BY <2>2, <2>4
    <3> HIDE DEF t, p
    <3> QED BY <3>1, <3>3, <3>4
  <2> QED BY <2>3, <2>4
<1>9. Nat \subseteq T
  <2> HIDE DEF T
  <2> QED BY <1>7, <1>8, SetInduction
<1>10. Good(up[N], N)
  <2>1. N \in T
      BY <1>0, <1>9
  <2> HIDE DEF Good
  <2> QED BY <1>0, <2>1
<1>11. up[N][Len(up[N])] = Base
  <2> DEFINE s == up[N]
  <2>2. s[Len(s)] \in Class
      BY <1>10, LastOfPart
  <2>3. order[s[Len(s)]] \in 1..N
      BY <2>2
  <2>4. s[Len(s)] = Base \/ order[s[Len(s)]] <= N - N
      BY <1>10
  <2> DEFINE y == order[s[Len(s)]]
  <2>5. ~(y <= N - N)
    <3>1. y \in 1..N
        BY <2>3
    <3> HIDE DEF y
    <3> QED BY <1>0, <3>1
  <2> QED BY <2>4, <2>5
<1> QED BY <1>5, <1>10, <1>11 DEF IsChain

\* What holds of the base, and of a class when it holds of its base, holds of every class.
LEMMA ClassInduction ==
    ASSUME NEW S, Base \in S, \A c \in Class \ {Base} : Parent[c] \in S => c \in S
    PROVE  Class \subseteq S
<1> DEFINE N == Cardinality(Class)
<1>0. PICK order \in [Class -> 1..N] : \A x \in Class \ {Base} : order[Parent[x]] < order[x]
    BY BasesComeFirst
<1>1. \A c \in Class : order[c] \in Nat
    OBVIOUS
<1> HIDE DEF N
<1> DEFINE T == {order[c] : c \in Class \ S}
<1> SUFFICES ASSUME T # {} PROVE FALSE
    OBVIOUS
<1>2. T \in SUBSET Nat
    BY <1>1
<1>3. PICK n \in T : \A k \in T : n <= k
  <2> HIDE DEF T
  <2> QED BY <1>2, LeastNumber
<1>4. PICK c \in Class \ S : n = order[c]
    BY <1>3
<1>5. Parent[c] \in Class \ S /\ order[Parent[c]] < order[c]
    BY <1>0, <1>4, ProgramIsOfSymbols
<1>6. n <= order[Parent[c]]
    BY <1>3, <1>5
<1> QED BY <1>1, <1>4, <1>5, <1>6

LEMMA ChainFacts ==
    ASSUME NEW c, c \in Class
    PROVE  LET s == Ancestors(c)
           IN  /\ Len(s) \in Nat \ {0} /\ DOMAIN s = 1..Len(s) /\ s[1] = c /\ s[Len(s)] = Base
               /\ \A i \in 1..Len(s) : s[i] \in Class
               /\ \A i \in 1..(Len(s) - 1) : s[i] # Base /\ s[i + 1] = Parent[s[i]]
<1>1. IsChain(Ancestors(c), c)
    BY ChainExists
<1> DEFINE s == Ancestors(c)
<1> HIDE DEF s
<1>2. Upwards(s, c) /\ s[Len(s)] = Base
    BY <1>1 DEF s, IsChain
<1>3. Len(s) \in Nat \ {0} /\ DOMAIN s = 1..Len(s)
    BY <1>2, LastOfPart
<1>4. /\ Len(s) \in Nat \ {0} /\ DOMAIN s = 1..Len(s) /\ s[1] = c /\ s[Len(s)] = Base
      /\ \A i \in 1..Len(s) : s[i] \in Class
      /\ \A i \in 1..(Len(s) - 1) : s[i] # Base /\ s[i + 1] = Parent[s[i]]
    BY <1>2, <1>3 DEF Upwards
<1> QED BY <1>4 DEF s

\* The chain of a class is the class and the chain of its base.
LEMMA ChainShifts ==
    ASSUME NEW c, c \in Class, c # Base
    PROVE  LET s == Ancestors(c)
               t == Ancestors(Parent[c])
           IN  /\ Parent[c] \in Class /\ Len(s) = Len(t) + 1
               /\ \A i \in 1..Len(t) : t[i] = s[i + 1]
<1> DEFINE p == Parent[c]
<1>0. p \in Class
    BY ProgramIsOfSymbols
<1> HIDE DEF p
<1> DEFINE s == Ancestors(c)
           t == Ancestors(p)
<1>1. /\ Len(s) \in Nat \ {0} /\ DOMAIN s = 1..Len(s) /\ s[1] = c /\ s[Len(s)] = Base
      /\ \A i \in 1..(Len(s) - 1) : s[i] # Base /\ s[i + 1] = Parent[s[i]]
    BY ChainFacts
<1>2. /\ Len(t) \in Nat \ {0} /\ DOMAIN t = 1..Len(t) /\ t[1] = p /\ t[Len(t)] = Base
      /\ \A i \in 1..(Len(t) - 1) : t[i] # Base /\ t[i + 1] = Parent[t[i]]
    BY <1>0, ChainFacts
<1> HIDE DEF s, t
<1> DEFINE m == Len(s)
           k == Len(t)
<1>3. m - 1 \in Nat \ {0} /\ s[2] = p
  <2>1. m # 1
      BY <1>1
  <2>2. m - 1 \in Nat \ {0} /\ 1 \in 1..(m - 1) /\ 1 + 1 = 2
      BY <1>1, <2>1
  <2> QED BY <1>1, <2>2 DEF p
<1> DEFINE D == {i \in Nat : i + 1 <= m - 1 => i + 1 <= k /\ t[i + 1] = s[(i + 1) + 1]}
<1>4. 0 \in D
    BY <1>2, <1>3
<1>5. ASSUME NEW i \in D \intersect Nat PROVE i + 1 \in D
  <2> SUFFICES ASSUME (i + 1) + 1 <= m - 1
               PROVE  (i + 1) + 1 <= k /\ t[(i + 1) + 1] = s[((i + 1) + 1) + 1]
      OBVIOUS
  <2> DEFINE j == i + 1
  <2>1. j \in Nat \ {0} /\ j <= k /\ j + 1 \in 1..(m - 1)
      BY <1>1, <1>2
  <2>2. t[j] = s[j + 1]
      BY <1>1
  <2> HIDE DEF j
  <2>3. s[j + 1] # Base /\ s[(j + 1) + 1] = Parent[s[j + 1]]
      BY <1>1, <2>1
  <2>4. j # k
      BY <1>2, <2>2, <2>3
  <2>5. j \in 1..(k - 1) /\ j + 1 <= k
    <3>1. k \in Nat
        BY <1>2
    <3> HIDE DEF k
    <3> QED BY ONLY <2>1, <2>4, <3>1
  <2>6. t[j + 1] = Parent[t[j]]
      BY <1>2, <2>5
  <2>7. j + 1 <= k /\ t[j + 1] = s[(j + 1) + 1]
      BY <2>2, <2>3, <2>5, <2>6
  <2> QED BY <2>7 DEF j
<1>6. Nat \subseteq D
  <2> HIDE DEF D
  <2> QED BY <1>4, <1>5, SetInduction
<1>7. ASSUME NEW i \in 1..(m - 1) PROVE i \in 1..k /\ t[i] = s[i + 1]
  <2>0. i - 1 \in Nat /\ (i - 1) + 1 = i /\ i \in Nat \ {0}
    <3>1. m \in Nat
        BY <1>1
    <3> HIDE DEF m
    <3> QED BY ONLY <3>1, i \in 1..(m - 1)
  <2>1. i - 1 \in D /\ (i - 1) + 1 = i /\ i \in Nat \ {0}
    <3> HIDE DEF D
    <3> QED BY <1>6, <2>0
  <2> QED BY <1>1, <1>2, <2>1
<1>8. k = m - 1
  <2>1. m - 1 \in 1..(m - 1) /\ (m - 1) + 1 = m
      BY <1>1, <1>3
  <2>2. m - 1 \in 1..k /\ t[m - 1] = Base
      BY <1>1, <1>7, <2>1
  <2>3. m - 1 \notin 1..(k - 1)
      BY <1>2, <2>2
  <2>4. k \in Nat /\ m \in Nat
      BY <1>1, <1>2
  <2> HIDE DEF k, m
  <2> QED BY ONLY <2>2, <2>3, <2>4
<1>9. m = k + 1 /\ \A i \in 1..k : t[i] = s[i + 1]
    BY <1>1, <1>2, <1>7, <1>8
<1> QED BY <1>0, <1>9 DEF s, t, p

\* A class is what its base is, and itself.
LEMMA IsAOfBase ==
    ASSUME NEW c, c \in Class, NEW d
    PROVE  IsA(c, d) <=> d = c \/ (c # Base /\ IsA(Parent[c], d))
<1> DEFINE s == Ancestors(c)
<1>1. Len(s) \in Nat \ {0} /\ DOMAIN s = 1..Len(s) /\ s[1] = c /\ s[Len(s)] = Base
      /\ \A i \in 1..(Len(s) - 1) : s[i] # Base
    BY ChainFacts
<1>2. IsA(c, d) <=> \E i \in 1..Len(s) : s[i] = d
    BY <1>1 DEF IsA
<1>3. CASE c = Base
  <2> HIDE DEF s
  <2>1. Len(s) = 1
    <3>1. 1 \notin 1..(Len(s) - 1)
        BY <1>1, <1>3
    <3> QED BY <1>1, <3>1
  <2>2. \A i \in 1..Len(s) : i = 1
      BY <2>1
  <2> QED BY <1>1, <1>2, <1>3, <2>1, <2>2
<1>4. CASE c # Base
  <2> DEFINE t == Ancestors(Parent[c])
  <2>1. Parent[c] \in Class /\ Len(s) = Len(t) + 1 /\ \A i \in 1..Len(t) : t[i] = s[i + 1]
      BY <1>4, ChainShifts
  <2>2. DOMAIN t = 1..Len(t) /\ Len(t) \in Nat \ {0}
      BY <2>1, ChainFacts
  <2>3. IsA(Parent[c], d) <=> \E i \in 1..Len(t) : t[i] = d
      BY <2>2 DEF IsA
  <2> HIDE DEF s, t
  <2>4. (\E i \in 1..Len(s) : s[i] = d) <=> s[1] = d \/ \E i \in 1..Len(t) : t[i] = d
    <3>1. ASSUME NEW i \in 1..Len(s), s[i] = d PROVE s[1] = d \/ \E j \in 1..Len(t) : t[j] = d
      <4>1. CASE i # 1
        <5>1. i - 1 \in 1..Len(t) /\ (i - 1) + 1 = i
            BY <1>1, <2>1, <2>2, <4>1
        <5> QED BY <2>1, <3>1, <5>1
      <4> QED BY <3>1, <4>1
    <3>2. ASSUME NEW i \in 1..Len(t), t[i] = d PROVE \E j \in 1..Len(s) : s[j] = d
      <4>1. i + 1 \in 1..Len(s)
          BY <2>1, <2>2
      <4> QED BY <2>1, <3>2, <4>1
    <3>3. 1 \in 1..Len(s)
        BY <1>1
    <3> QED BY <3>1, <3>2, <3>3
  <2> QED BY <1>1, <1>2, <1>4, <2>3, <2>4
<1> QED BY <1>3, <1>4

\* The method of a class that declares none is that of its base.
LEMMA OverriderOfBase ==
    ASSUME NEW c, c \in Class
    PROVE  /\ Declares(c) => FinalOverrider(c) = c
           /\ ~Declares(c) => c # Base /\ FinalOverrider(c) = FinalOverrider(Parent[c])
<1> DEFINE s == Ancestors(c)
           First(z, i) == Declares(z[i]) /\ \A j \in 1..(i - 1) : ~Declares(z[j])
<1>1. Len(s) \in Nat \ {0} /\ DOMAIN s = 1..Len(s) /\ s[1] = c /\ s[Len(s)] = Base
    BY ChainFacts
<1>2. FinalOverrider(c) = s[CHOOSE i \in DOMAIN s : First(s, i)]
    BY DEF FinalOverrider
<1>3. CASE Declares(c)
  <2> HIDE DEF s
  <2>1. 1 \in DOMAIN s /\ First(s, 1)
      BY <1>1, <1>3
  <2>2. \A i \in DOMAIN s : First(s, i) => i = 1
    <3> SUFFICES ASSUME NEW i \in DOMAIN s, First(s, i), i # 1 PROVE FALSE
        OBVIOUS
    <3>1. 1 \in 1..(i - 1)
        BY <1>1
    <3> QED BY <1>1, <1>3, <3>1
  <2> DEFINE x == CHOOSE i \in DOMAIN s : First(s, i)
  <2>3. x \in DOMAIN s /\ First(s, x)
    <3> HIDE DEF First
    <3> QED BY <2>1
  <2>4. x = 1
      BY <2>2, <2>3
  <2> QED BY <1>1, <1>2, <1>3, <2>4
<1>4. CASE ~Declares(c)
  <2>1. c # Base
      BY <1>4 DEF Declares
  <2> DEFINE t == Ancestors(Parent[c])
  <2>2. Parent[c] \in Class /\ Len(s) = Len(t) + 1 /\ \A i \in 1..Len(t) : t[i] = s[i + 1]
      BY <2>1, ChainShifts
  <2>3. DOMAIN t = 1..Len(t) /\ Len(t) \in Nat \ {0} /\ t[Len(t)] = Base
      BY <2>2, ChainFacts
  <2>4. FinalOverrider(Parent[c]) = t[CHOOSE i \in DOMAIN t : First(t, i)]
      BY DEF FinalOverrider
  <2> HIDE DEF s, t
  <2>5. PICK k \in DOMAIN t : First(t, k)
    <3> DEFINE D == {i \in DOMAIN t : Declares(t[i])}
    <3>1. Len(t) \in D
        BY <2>3 DEF Declares
    <3>2. D \in SUBSET Nat
        BY <2>3
    <3>3. PICK k \in D : \A j \in D : k <= j
      <4> HIDE DEF D
      <4> QED BY <3>1, <3>2, LeastNumber
    <3>4. \A j \in 1..(k - 1) : j \in DOMAIN t /\ ~(k <= j)
        BY <2>3
    <3> QED BY <3>3, <3>4
  <2>6. \A i \in DOMAIN t : First(t, i) => i = k
    <3> SUFFICES ASSUME NEW i \in DOMAIN t, First(t, i), i # k PROVE FALSE
        OBVIOUS
    <3>1. i \in 1..(k - 1) \/ k \in 1..(i - 1)
        BY <2>3
    <3> QED BY <2>5, <3>1
  <2>7. k + 1 \in DOMAIN s /\ First(s, k + 1)
    <3>1. k + 1 \in DOMAIN s /\ s[k + 1] = t[k]
        BY <1>1, <2>2, <2>3
    <3>2. ASSUME NEW j \in 1..((k + 1) - 1) PROVE ~Declares(s[j])
      <4>1. CASE j = 1
          BY <1>1, <1>4, <4>1
      <4>2. CASE j # 1
        <5>1. j - 1 \in 1..(k - 1) /\ j - 1 \in 1..Len(t) /\ (j - 1) + 1 = j
            BY <2>3, <4>2
        <5> QED BY <2>2, <2>5, <5>1
      <4> QED BY <4>1, <4>2
    <3> QED BY <2>5, <3>1, <3>2
  <2>8. \A i \in DOMAIN s : First(s, i) => i = k + 1
    <3> SUFFICES ASSUME NEW i \in DOMAIN s, First(s, i), i # k + 1 PROVE FALSE
        OBVIOUS
    <3>1. i \in 1..((k + 1) - 1) \/ k + 1 \in 1..(i - 1)
        BY <1>1, <2>3
    <3> QED BY <2>7, <3>1
  <2> DEFINE x == CHOOSE i \in DOMAIN s : First(s, i)
             y == CHOOSE i \in DOMAIN t : First(t, i)
  <2>9. x = k + 1 /\ y = k
    <3> HIDE DEF First
    <3>1. x \in DOMAIN s /\ First(s, x)
        BY <2>7
    <3>2. y \in DOMAIN t /\ First(t, y)
        BY <2>5
    <3> HIDE DEF x, y
    <3> QED BY <2>6, <2>8, <3>1, <3>2
  <2> QED BY <1>2, <1>4, <2>1, <2>2, <2>3, <2>4, <2>9
<1> QED BY <1>3, <1>4

LEMMA IsAIsAnOrder ==
    /\ \A c \in Class : IsA(c, c)
    /\ \A c, d \in Class : \A e : IsA(c, d) /\ IsA(d, e) => IsA(c, e)
<1>1. \A c \in Class : IsA(c, c)
    BY IsAOfBase
<1> DEFINE S == {c \in Class : \A d \in Class : \A e : IsA(c, d) /\ IsA(d, e) => IsA(c, e)}
<1>2. Base \in S
  <2>1. \A d : IsA(Base, d) => d = Base
      BY ProgramIsOfSymbols, IsAOfBase
  <2> QED BY <2>1, ProgramIsOfSymbols
<1>3. ASSUME NEW c \in Class \ {Base}, Parent[c] \in S PROVE c \in S
  <2> SUFFICES ASSUME NEW d \in Class, NEW e, IsA(c, d), IsA(d, e) PROVE IsA(c, e)
      OBVIOUS
  <2>1. CASE d = c
      BY <2>1
  <2>2. CASE IsA(Parent[c], d)
    <3>1. IsA(Parent[c], e)
        BY <1>3, <2>2
    <3> QED BY <3>1, IsAOfBase
  <2> QED BY <2>1, <2>2, IsAOfBase
<1>4. Class \subseteq S
  <2> HIDE DEF S
  <2> QED BY <1>2, <1>3, ClassInduction
<1> QED BY <1>1, <1>4

\* The method that a call runs is declared in a class at or above that of the object, and
\* below every other such class.
LEMMA OverriderIsNearest ==
    \A c \in Class : /\ FinalOverrider(c) \in Class /\ Declares(FinalOverrider(c))
                     /\ IsA(c, FinalOverrider(c))
                     /\ \A d \in Class : IsA(c, d) /\ Declares(d) => IsA(FinalOverrider(c), d)
<1> DEFINE S == {c \in Class : /\ FinalOverrider(c) \in Class /\ Declares(FinalOverrider(c))
                               /\ IsA(c, FinalOverrider(c))
                               /\ \A d \in Class : IsA(c, d) /\ Declares(d) => IsA(FinalOverrider(c), d)}
<1>1. ASSUME NEW c \in Class, Declares(c) PROVE c \in S
  <2>1. FinalOverrider(c) = c
      BY <1>1, OverriderOfBase
  <2> QED BY <1>1, <2>1, IsAIsAnOrder
<1>2. Base \in S
    BY <1>1, ProgramIsOfSymbols DEF Declares
<1>3. ASSUME NEW c \in Class \ {Base}, Parent[c] \in S PROVE c \in S
  <2>1. CASE Declares(c)
      BY <1>1, <2>1
  <2>2. CASE ~Declares(c)
    <3> DEFINE p == Parent[c]
    <3>1. FinalOverrider(c) = FinalOverrider(p)
        BY <2>2, OverriderOfBase
    <3>2. \A d : IsA(c, d) <=> d = c \/ IsA(p, d)
        BY IsAOfBase
    <3>3. /\ FinalOverrider(p) \in Class /\ Declares(FinalOverrider(p))
          /\ IsA(p, FinalOverrider(p))
          /\ \A d \in Class : IsA(p, d) /\ Declares(d) => IsA(FinalOverrider(p), d)
        BY <1>3
    <3> HIDE DEF p
    <3> QED BY <2>2, <3>1, <3>2, <3>3
  <2> QED BY <2>1, <2>2
<1>4. Class \subseteq S
  <2> HIDE DEF S
  <2> QED BY <1>2, <1>3, ClassInduction
<1> QED BY <1>4

-----------------------------------------------------------------------------
(* The graph of a program. *)

\* The program that the walk reads is one that compiles.
Given(root) == Compiles(root) /\ code = GraphOf(program)

Calls(f, g) == f \in Callable /\ g \in Callable /\ program.body[f][g] # << >>

LEMMA MethodsAndClasses ==
    /\ Callable \subseteq Sym /\ Class \subseteq Sym
    /\ \A c \in Class : /\ Method[c] \in Callable /\ IsMethod(Method[c]) /\ Method[c] \notin Class
                        /\ ClassOf(Method[c]) = c
    /\ \A m \in Callable : IsMethod(m) => ClassOf(m) \in Class /\ Method[ClassOf(m)] = m
<1>1. Callable \subseteq Sym /\ Class \subseteq Sym
    BY ProgramIsOfSymbols DEF Callable
<1>2. ASSUME NEW c \in Class
      PROVE  /\ Method[c] \in Callable /\ IsMethod(Method[c]) /\ Method[c] \notin Class
             /\ ClassOf(Method[c]) = c
    BY UsrsAreApart DEF Callable, IsMethod, ClassOf
<1>3. ASSUME NEW m \in Callable, IsMethod(m) PROVE ClassOf(m) \in Class /\ Method[ClassOf(m)] = m
  <2>1. PICK c \in Class : m = Method[c]
      BY <1>3 DEF Callable, IsMethod
  <2> QED BY <1>2, <2>1
<1> QED BY <1>1, <1>2, <1>3

LEMMA RowsOfProgram ==
    ASSUME NEW root, Given(root)
    PROVE  /\ GraphOK(code)
           /\ \A f, g : g \in DirectCallees(code, f) <=> Calls(f, g)
           /\ \A f, g : f \in CallersOf(g) <=> Calls(f, g)
           /\ \A c : Subclasses(code, c) = {x \in Class \ {Base} : Parent[x] = c}
           /\ \A c \in Class : Bases(code, c) = IF c = Base THEN {} ELSE {Parent[c]}
           /\ \A m : OverriddenBy(code, m) =
                        {Method[c] : c \in {x \in program.owns : Method[NearestDeclarer(x)] = m}}
           /\ \A m : Overridden(code, m) = {Method[NearestDeclarer(c)] : c \in {x \in program.owns : Method[x] = m}}
           /\ code.pure = IF program.pure THEN {Method[Base]} ELSE {}
           /\ \A c \in Class : code.owner[Method[c]] = c /\ c # NoSym
<1> DEFINE A == {e \in [src : Callable, kind : {"calls"}, dst : Callable] :
                    program.body[e.src][e.dst] # << >>}
           B == {[src |-> c, kind |-> "inherits", dst |-> Parent[c]] : c \in Class \ {Base}}
           O == {[src |-> Method[c], kind |-> "overrides", dst |-> Method[NearestDeclarer(c)]] :
                    c \in program.owns}
<1>1. code.edge = (A \union B) \union O
    BY DEF Given, GraphOf
<1>2. code.pure = IF program.pure THEN {Method[Base]} ELSE {}
    BY DEF Given, GraphOf
<1>3. code.owner = [s \in Sym |-> IF IsMethod(s) /\ s \notin Class THEN ClassOf(s) ELSE NoSym]
    BY DEF Given, GraphOf
<1>4. program.owns \subseteq Class \ {Base}
    BY DEF Given, Compiles
<1>5. \A c \in program.owns : NearestDeclarer(c) \in Class
    BY <1>4, ProgramIsOfSymbols, OverriderIsNearest DEF NearestDeclarer
<1>6. \A e \in A : e.kind = "calls" /\ e.src \in Callable /\ e.dst \in Callable
                   /\ program.body[e.src][e.dst] # << >>
    OBVIOUS
<1>7. \A f, g : Calls(f, g) => \E e \in A : e.src = f /\ e.dst = g
  <2> SUFFICES ASSUME NEW f, NEW g, Calls(f, g) PROVE \E e \in A : e.src = f /\ e.dst = g
      OBVIOUS
  <2> DEFINE e == [src |-> f, kind |-> "calls", dst |-> g]
  <2>1. e \in A /\ e.src = f /\ e.dst = g
      BY DEF Calls
  <2> HIDE DEF e
  <2> QED BY <2>1
<1>8. \A e \in B : \E c \in Class \ {Base} : e.kind = "inherits" /\ e.src = c /\ e.dst = Parent[c]
    OBVIOUS
<1>9. ASSUME NEW c \in Class \ {Base}
      PROVE  \E e \in B : e.kind = "inherits" /\ e.src = c /\ e.dst = Parent[c]
  <2> DEFINE e == [src |-> c, kind |-> "inherits", dst |-> Parent[c]]
  <2>1. e \in B /\ e.kind = "inherits" /\ e.src = c /\ e.dst = Parent[c]
      OBVIOUS
  <2> HIDE DEF e, B
  <2> QED BY <2>1
<1>10. \A e \in O : \E c \in program.owns :
          e.kind = "overrides" /\ e.src = Method[c] /\ e.dst = Method[NearestDeclarer(c)]
    OBVIOUS
<1>11. ASSUME NEW c \in program.owns
       PROVE  \E e \in O : e.kind = "overrides" /\ e.src = Method[c] /\ e.dst = Method[NearestDeclarer(c)]
  <2> DEFINE e == [src |-> Method[c], kind |-> "overrides", dst |-> Method[NearestDeclarer(c)]]
  <2>1. e \in O /\ e.kind = "overrides" /\ e.src = Method[c] /\ e.dst = Method[NearestDeclarer(c)]
      OBVIOUS
  <2> HIDE DEF e, O
  <2> QED BY <2>1
<1> HIDE DEF A, B, O
<1>12. GraphOK(code)
  <2>1. \A e \in A : e.src \in Sym /\ e.dst \in Sym
      BY <1>6, MethodsAndClasses
  <2>2. \A e \in B : e.src \in Sym /\ e.dst \in Sym
      BY <1>8, MethodsAndClasses, ProgramIsOfSymbols
  <2>3. \A e \in O : e.src \in Sym /\ e.dst \in Sym
      BY <1>4, <1>5, <1>10, MethodsAndClasses
  <2> QED BY <1>1, <2>1, <2>2, <2>3 DEF GraphOK
<1>13. \A s : EdgesAt(code, s, {"calls"}, "out") = {e \in A : e.src = s}
              /\ EdgesAt(code, s, {"calls"}, "in") = {e \in A : e.dst = s}
              /\ EdgesAt(code, s, {"inherits"}, "out") = {e \in B : e.src = s}
              /\ EdgesAt(code, s, {"inherits"}, "in") = {e \in B : e.dst = s}
              /\ EdgesAt(code, s, {"overrides"}, "out") = {e \in O : e.src = s}
              /\ EdgesAt(code, s, {"overrides"}, "in") = {e \in O : e.dst = s}
  <2>1. \A e : (e \in A => e.kind = "calls") /\ (e \in B => e.kind = "inherits")
               /\ (e \in O => e.kind = "overrides")
      BY <1>6, <1>8, <1>10
  <2>2. \A e \in code.edge : /\ e.kind = "calls" <=> e \in A
                             /\ e.kind = "inherits" <=> e \in B
                             /\ e.kind = "overrides" <=> e \in O
      BY <1>1, <2>1
  <2> QED BY <1>1, <2>2 DEF EdgesAt, Near
<1>14. \A f, g : g \in DirectCallees(code, f) <=> Calls(f, g)
  <2>1. \A f, g : g \in DirectCallees(code, f) <=> \E e \in A : e.src = f /\ e.dst = g
      BY <1>13 DEF DirectCallees, Peers, Far
  <2> QED BY <1>6, <1>7, <2>1 DEF Calls
<1>15. \A f, g : f \in CallersOf(g) <=> Calls(f, g)
  <2>1. \A f, g : f \in CallersOf(g) <=> \E e \in A : e.src = f /\ e.dst = g
      BY <1>13 DEF CallersOf, Peers, Far
  <2> QED BY <1>6, <1>7, <2>1 DEF Calls
<1>16. \A c : Subclasses(code, c) = {x \in Class \ {Base} : Parent[x] = c}
  <2>1. \A c, x : x \in Subclasses(code, c) <=> \E e \in B : e.src = x /\ e.dst = c
      BY <1>13 DEF Subclasses, Peers, Far
  <2>2. \A c, x : x \in Subclasses(code, c) <=> x \in Class \ {Base} /\ Parent[x] = c
      BY <1>8, <1>9, <2>1
  <2> QED BY <2>2
<1>17. ASSUME NEW c \in Class PROVE Bases(code, c) = IF c = Base THEN {} ELSE {Parent[c]}
  <2>1. \A x : x \in Bases(code, c) <=> \E e \in B : e.src = c /\ e.dst = x
      BY <1>13 DEF Bases, Peers, Far
  <2>2. \A x : x \in Bases(code, c) <=> c # Base /\ x = Parent[c]
      BY <1>8, <1>9, <2>1
  <2> QED BY <2>2
<1>18. \A m : OverriddenBy(code, m) =
                 {Method[c] : c \in {x \in program.owns : Method[NearestDeclarer(x)] = m}}
  <2>1. \A m, x : x \in OverriddenBy(code, m) <=> \E e \in O : e.src = x /\ e.dst = m
      BY <1>13 DEF OverriddenBy, Peers, Far
  <2>2. \A m, x : x \in OverriddenBy(code, m) <=>
                    \E c \in program.owns : Method[NearestDeclarer(c)] = m /\ x = Method[c]
      BY <1>10, <1>11, <2>1
  <2> QED BY <2>2
<1>19. \A m : Overridden(code, m) =
                 {Method[NearestDeclarer(c)] : c \in {x \in program.owns : Method[x] = m}}
  <2>1. \A m, x : x \in Overridden(code, m) <=> \E e \in O : e.src = m /\ e.dst = x
      BY <1>13 DEF Overridden, Peers, Far
  <2>2. \A m, x : x \in Overridden(code, m) <=>
                    \E c \in program.owns : Method[c] = m /\ x = Method[NearestDeclarer(c)]
      BY <1>10, <1>11, <2>1
  <2> QED BY <2>2
<1>20. \A c \in Class : code.owner[Method[c]] = c /\ c # NoSym
    BY <1>3, MethodsAndClasses, NoSymIsNoSymbol
<1> QED BY <1>2, <1>12, <1>14, <1>15, <1>16, <1>17, <1>18, <1>19, <1>20

DerivedIn(g) == [s \in Sym |-> Subclasses(g, s)]

LEMMA SubclassesAreLeast ==
    ASSUME NEW g, GraphOK(g), NEW c \in Sym
    PROVE  /\ DerivedIn(g) \in [Sym -> SUBSET Sym]
           /\ AllSubclasses(g, c) = Least(Sym, DerivedIn(g), {c}) \ {c}
<1> DEFINE K == DerivedIn(g)
           grow[seen \in SUBSET Sym] ==
               LET more == seen \union UNION {Subclasses(g, s) : s \in seen}
               IN  IF more = seen THEN seen ELSE grow[more]
<1>1. K \in [Sym -> SUBSET Sym]
    BY DEF GraphOK, DerivedIn, Subclasses, Peers, EdgesAt, Far
<1>2. \A B \in SUBSET Sym : B \union UNION {Subclasses(g, s) : s \in B} = Grown(K, B)
    BY DEF Grown, DerivedIn
<1> HIDE DEF K
<1> DEFINE h == [B \in SUBSET Sym |-> Least(Sym, K, B)]
<1>5. h = [seen \in SUBSET Sym |->
             LET more == seen \union UNION {Subclasses(g, s) : s \in seen}
             IN  IF more = seen THEN seen ELSE h[more]]
  <2>1. ASSUME NEW seen \in SUBSET Sym
        PROVE  h[seen] = IF Grown(K, seen) = seen THEN seen ELSE h[Grown(K, seen)]
    <3>1. Grown(K, seen) \in SUBSET Sym
        BY <1>1, LeastOfGrown
    <3> QED BY <1>1, <3>1, LeastGrows
  <2>2. ASSUME NEW seen \in SUBSET Sym
        PROVE  h[seen] = LET more == seen \union UNION {Subclasses(g, s) : s \in seen}
                         IN  IF more = seen THEN seen ELSE h[more]
      BY <1>2, <2>1
  <2>3. h = [seen \in SUBSET Sym |-> h[seen]]
      OBVIOUS
  <2> HIDE DEF h
  <2> QED BY <2>2, <2>3
<1>6. grow = [seen \in SUBSET Sym |->
                LET more == seen \union UNION {Subclasses(g, s) : s \in seen}
                IN  IF more = seen THEN seen ELSE grow[more]]
    BY <1>5, Zenon DEF grow
<1>7. AllSubclasses(g, c) = grow[{c}] \ {c}
    BY Zenon DEF AllSubclasses, Reach, grow
<1> HIDE DEF grow
<1>8. \A B \in SUBSET Sym : grow[B] = IF Grown(K, B) = B THEN B ELSE grow[Grown(K, B)]
    BY <1>2, <1>6
<1>9. grow[{c}] = Least(Sym, K, {c})
    BY <1>1, <1>8, SymIsFinite, GrowingIsLeast
<1> QED BY <1>1, <1>7, <1>9 DEF K

-----------------------------------------------------------------------------
(* What a virtual call of the program may run. *)

\* Every declaration below that of C overrides it, at some depth.
LEMMA DeclarationsBelow ==
    ASSUME NEW root, Given(root), NEW C \in Class, Declares(C),
           NEW x, x \in Class, Declares(x), IsA(x, C)
    PROVE  Method[x] \in Least(Sym, OverridesIn(code), {Method[C]})
<1> DEFINE R == Least(Sym, OverridesIn(code), {Method[C]})
<1>0. R = Least(Sym, OverridesIn(code), {Method[C]})
    OBVIOUS
<1> HIDE DEF R
<1>1. Method[C] \in R
    BY <1>0, MethodsAndClasses DEF Least
<1>2. ASSUME NEW z \in Class, Method[z] \in R, NEW y \in program.owns, NearestDeclarer(y) = z
      PROVE  Method[y] \in R
  <2>1. Method[y] \in OverridesIn(code)[Method[z]] /\ Method[y] \in Sym
    <3>1. y \in Class
        BY DEF Given, Compiles
    <3>2. Method[z] \in Sym /\ Method[y] \in Sym
        BY <3>1, MethodsAndClasses
    <3>3. Method[y] \in OverriddenBy(code, Method[z])
        BY <1>2, RowsOfProgram
    <3> QED BY <3>2, <3>3 DEF OverridesIn
  <2> QED BY <1>0, <1>2, <2>1 DEF Least
<1> DEFINE S == {c \in Class : \A d \in Class : d = FinalOverrider(c) /\ IsA(c, C) => Method[d] \in R}
<1>3. ASSUME NEW c \in Class, \A d \in Class : c # Base /\ d = FinalOverrider(Parent[c]) /\ IsA(Parent[c], C) => Method[d] \in R
      PROVE  c \in S
  <2> SUFFICES ASSUME NEW d \in Class, d = FinalOverrider(c), IsA(c, C) PROVE Method[d] \in R
      OBVIOUS
  <2>1. CASE c = C
    <3>1. d = C
        BY <2>1, OverriderOfBase
    <3> QED BY <1>1, <3>1
  <2>2. CASE c # C
    <3>1. c # Base /\ IsA(Parent[c], C) /\ Parent[c] \in Class
        BY <2>2, IsAOfBase, ProgramIsOfSymbols
    <3>2. CASE ~Declares(c)
      <4>1. d = FinalOverrider(Parent[c])
          BY <3>2, OverriderOfBase
      <4> QED BY <1>3, <3>1, <4>1
    <3>3. CASE Declares(c)
      <4>1. d = c /\ c \in program.owns
          BY <3>1, <3>3, OverriderOfBase DEF Declares
      <4>2. NearestDeclarer(c) \in Class /\ Method[NearestDeclarer(c)] \in R
          BY <1>3, <3>1, OverriderIsNearest DEF NearestDeclarer
      <4> QED BY <1>2, <4>1, <4>2
    <3> QED BY <3>2, <3>3
  <2> QED BY <2>1, <2>2
<1>4. Class \subseteq S
  <2>1. Base \in S
    <3> HIDE DEF S
    <3> QED BY <1>3, ProgramIsOfSymbols
  <2>2. ASSUME NEW c \in Class \ {Base}, Parent[c] \in S PROVE c \in S
    <3>1. \A d \in Class : d = FinalOverrider(Parent[c]) /\ IsA(Parent[c], C) => Method[d] \in R
        BY <2>2
    <3> HIDE DEF S
    <3> QED BY <1>3, <3>1
  <2> HIDE DEF S
  <2> QED BY <2>1, <2>2, ClassInduction
<1>5. FinalOverrider(x) = x
    BY OverriderOfBase
<1> QED BY <1>0, <1>4, <1>5

\* Nothing else does.
LEMMA TargetsAreDeclared ==
    ASSUME NEW root, Given(root), NEW C \in Class, Declares(C), NEW t \in DispatchTargets(code, Method[C])
    PROVE  \E c \in Class : Declares(c) /\ t = Method[c]
<1> DEFINE D == {Method[c] : c \in {x \in Class : Declares(x)}}
<1>1. /\ Method[C] \in Sym /\ GraphOK(code) /\ D \in SUBSET Sym /\ Method[C] \in D
    BY MethodsAndClasses, RowsOfProgram
<1>2. ASSUME NEW s \in D PROVE OverridesIn(code)[s] \subseteq D
  <2>1. OverridesIn(code)[s] = OverriddenBy(code, s)
      BY <1>1 DEF OverridesIn
  <2>2. \A c \in program.owns : c \in Class /\ Declares(c)
      BY DEF Given, Compiles, Declares
  <2> QED BY <2>1, <2>2, RowsOfProgram
<1>3. t \in Least(Sym, OverridesIn(code), {Method[C]})
    BY <1>1, TargetsAreLeast
<1> HIDE DEF D
<1>4. t \in D
    BY <1>1, <1>2, <1>3 DEF Least
<1> QED BY <1>4 DEF D

LEMMA HeirsBelow ==
    ASSUME NEW root, Given(root), NEW C \in Class, NEW w, w \in Class, IsA(w, C), w # C
    PROVE  w \in AllSubclasses(code, C)
<1> DEFINE R == Least(Sym, DerivedIn(code), {C})
<1>0. R = Least(Sym, DerivedIn(code), {C})
    OBVIOUS
<1> HIDE DEF R
<1>1. C \in R
    BY <1>0, MethodsAndClasses DEF Least
<1>2. ASSUME NEW c \in Class \ {Base}, Parent[c] \in R PROVE c \in R
  <2>1. c \in DerivedIn(code)[Parent[c]] /\ c \in Sym
      BY RowsOfProgram, MethodsAndClasses, ProgramIsOfSymbols DEF DerivedIn
  <2> QED BY <1>0, <1>2, <2>1 DEF Least
<1> DEFINE S == {c \in Class : IsA(c, C) => c \in R}
<1>3. Base \in S
    BY <1>1, IsAOfBase, ProgramIsOfSymbols
<1>4. ASSUME NEW c \in Class \ {Base}, Parent[c] \in S PROVE c \in S
    BY <1>1, <1>2, <1>4, IsAOfBase
<1>5. Class \subseteq S
  <2> HIDE DEF S
  <2> QED BY <1>3, <1>4, ClassInduction
<1>6. AllSubclasses(code, C) = R \ {C}
    BY <1>0, RowsOfProgram, MethodsAndClasses, SubclassesAreLeast
<1> QED BY <1>5, <1>6

\* A class inherits from the nearest base that declares.
LEMMA NearestDeclares ==
    ASSUME NEW root, Given(root), NEW owned, owned \in SUBSET {c \in Class : Declares(c)},
           NEW w, w \in Class, ~Declares(w), FinalOverrider(w) \in owned
    PROVE  NearestOwned(code, w, owned) = {FinalOverrider(w)}
<1> DEFINE g == code
           up[level \in SUBSET Sym] ==
               IF level = {} \/ level \intersect owned # {} THEN level \intersect owned
               ELSE up[UNION {Bases(g, b) : b \in level}]
           Z == {level \in SUBSET Sym : level = {} \/ level \intersect owned # {}}
           out == [level \in SUBSET Sym |-> level \intersect owned]
           G == [level \in SUBSET Sym |-> UNION {Bases(g, b) : b \in level}]
<1>1. out \in [SUBSET Sym -> SUBSET Sym] /\ G \in [SUBSET Sym -> SUBSET Sym]
  <2>1. \A b : Bases(g, b) \in SUBSET Sym
      BY RowsOfProgram DEF Bases, Peers, EdgesAt, Far, GraphOK
  <2> QED BY <2>1
<1>2. PICK h : h = [level \in SUBSET Sym |-> IF level \in Z THEN out[level] ELSE h[G[level]]]
  <2> DEFINE V == SUBSET Sym
  <2>1. EndsWith(V, V, Z, out, G)
      BY <1>1 DEF EndsWith
  <2> HIDE DEF Z, out, G, V
  <2>2. PICK k \in [V -> V] : \A level \in V : k[level] = IF level \in Z THEN out[level] ELSE k[G[level]]
      BY ONLY <2>1, TailRecursionExists
  <2>3. k = [level \in V |-> IF level \in Z THEN out[level] ELSE k[G[level]]]
      BY <2>2
  <2> QED BY <2>3 DEF V
<1>3. h = [level \in SUBSET Sym |->
               IF level = {} \/ level \intersect owned # {} THEN level \intersect owned
               ELSE h[UNION {Bases(g, b) : b \in level}]]
    BY <1>2
<1>4. up = [level \in SUBSET Sym |->
               IF level = {} \/ level \intersect owned # {} THEN level \intersect owned
               ELSE up[UNION {Bases(g, b) : b \in level}]]
    BY <1>3, Zenon DEF up
<1>5. NearestOwned(code, w, owned) = up[Bases(code, w)]
    BY Zenon DEF NearestOwned, up, g
<1> HIDE DEF up, g
<1>6. ASSUME NEW c \in Class
      PROVE  /\ {c} \in SUBSET Sym
             /\ up[{c}] = IF c \in owned THEN {c} ELSE up[Bases(code, c)]
  <2>1. {c} \in SUBSET Sym /\ UNION {Bases(g, b) : b \in {c}} = Bases(code, c)
      BY MethodsAndClasses DEF g
  <2> DEFINE x == {c}
  <2>2. x \in SUBSET Sym /\ UNION {Bases(g, b) : b \in x} = Bases(code, c)
        /\ x # {} /\ (x \intersect owned # {} <=> c \in owned) /\ (c \in owned => x \intersect owned = x)
      BY <2>1
  <2> HIDE DEF x
  <2>3. up[x] = IF x = {} \/ x \intersect owned # {} THEN x \intersect owned
                ELSE up[UNION {Bases(g, b) : b \in x}]
      BY <1>4, <2>2
  <2>4. up[x] = IF c \in owned THEN x ELSE up[Bases(code, c)]
      BY <2>2, <2>3
  <2> QED BY <2>1, <2>4 DEF x
<1> DEFINE S == {c \in Class : FinalOverrider(c) \in owned => up[{c}] = {FinalOverrider(c)}}
<1>7. ASSUME NEW c \in Class, Declares(c) PROVE c \in S
    BY <1>6, <1>7, OverriderOfBase
<1>8. Base \in S
    BY <1>7, ProgramIsOfSymbols DEF Declares
<1>9. ASSUME NEW c \in Class \ {Base}, Parent[c] \in S PROVE c \in S
  <2>1. CASE ~Declares(c)
    <3>1. FinalOverrider(c) = FinalOverrider(Parent[c]) /\ c \notin owned /\ Bases(code, c) = {Parent[c]}
        BY <2>1, OverriderOfBase, RowsOfProgram
    <3> QED BY <1>6, <1>9, <3>1
  <2> QED BY <1>7, <2>1
<1>10. Class \subseteq S
  <2> HIDE DEF S
  <2> QED BY <1>8, <1>9, ClassInduction
<1>11. w # Base /\ FinalOverrider(w) = FinalOverrider(Parent[w])
    BY OverriderOfBase
<1>12. Bases(code, w) = {Parent[w]} /\ Parent[w] \in Class
    BY <1>11, RowsOfProgram, ProgramIsOfSymbols
<1> QED BY <1>5, <1>10, <1>11, <1>12

LEMMA PicksHold ==
    ASSUME NEW env, NEW f, NEW m, IsVirtual(code, m),
           NEW w, NEW t, NEW b, ReceiverTypes(env, f, m) = TOP \/ w \in ReceiverTypes(env, f, m),
           Candidate(w, t, b) \in OwnCandidates(code, m) \union InheritedCandidates(code, m)
    PROVE  Decide(env, f, m) = KeepAll \/ t \in Decide(env, f, m)
<1> DEFINE types == ReceiverTypes(env, f, m)
           all == OwnCandidates(code, m) \union InheritedCandidates(code, m)
           picks == {c.target : c \in {x \in all : x.type \in types}}
           sel == DispatchSelection(code, m, FALSE).prunable
<1>1. DispatchSelection(code, m, TRUE).candidates = all
    BY DEF DispatchSelection
<1>2. Decide(env, f, m) = IF ~sel \/ types = TOP \/ picks = {} THEN KeepAll ELSE picks
    BY <1>1 DEF Decide
<1>3. types # TOP => t \in picks
  <2>1. Candidate(w, t, b).type = w /\ Candidate(w, t, b).target = t
      BY DEF Candidate
  <2> HIDE DEF all, types
  <2> QED BY <2>1 DEF all, types
<1> HIDE DEF sel, types, picks
<1> QED BY <1>2, <1>3

\* The override that a call on an object of class w runs is a target of the call, and a
\* candidate for w.
LEMMA ObjectsAreCandidates ==
    ASSUME NEW root, Given(root), NEW m \in Callable, IsMethod(m), Declares(ClassOf(m)),
           NEW w, w \in Objects, IsA(w, ClassOf(m))
    PROVE  /\ Method[FinalOverrider(w)] \in DispatchTargets(code, m)
           /\ \E b : Candidate(w, Method[FinalOverrider(w)], b) \in
                     OwnCandidates(code, m) \union InheritedCandidates(code, m)
<1> DEFINE C == ClassOf(m)
           x == FinalOverrider(w)
           t == Method[x]
           K == OverridesIn(code)
<1>1. C \in Class /\ m = Method[C] /\ m \in Sym /\ w \in Class
    BY MethodsAndClasses DEF Objects
<1>2. x \in Class /\ Declares(x) /\ IsA(w, x) /\ IsA(x, C) /\ Declares(C)
    BY <1>1, OverriderIsNearest
<1>4. ~(program.pure /\ x = Base)
    BY DEF Objects
<1> HIDE DEF C, x
<1>5. t \in Least(Sym, K, {m})
    BY <1>1, <1>2, DeclarationsBelow
<1>6. t \notin code.pure
  <2>1. code.pure = IF program.pure THEN {Method[Base]} ELSE {}
      BY RowsOfProgram
  <2> QED BY <1>2, <1>4, <2>1, UsrsAreApart, ProgramIsOfSymbols
<1>7. t \in DispatchTargets(code, m)
    BY <1>1, <1>5, <1>6, RowsOfProgram, TargetsAreLeast
<1>9. \A c \in Class : code.owner[Method[c]] = c /\ c # NoSym
    BY RowsOfProgram
<1> DEFINE owned == {code.owner[y] : y \in DispatchTargets(code, m)} \ {NoSym}
<1>10. owned \in SUBSET {c \in Class : Declares(c)} /\ x \in owned
  <2>1. \A y \in DispatchTargets(code, m) : \E c \in Class : Declares(c) /\ y = Method[c]
      BY <1>1, <1>2, TargetsAreDeclared
  <2> QED BY <1>2, <1>7, <1>9, <2>1
<1>11. CASE Declares(w)
  <2>1. x = w /\ code.owner[t] = w
      BY <1>1, <1>9, <1>11, OverriderOfBase DEF x
  <2>2. Candidate(w, t, FALSE) \in OwnCandidates(code, m)
      BY <1>7, <2>1 DEF OwnCandidates
  <2> QED BY <1>7, <2>2 DEF x
<1>12. CASE ~Declares(w)
  <2>1. w # C /\ w \notin owned
    <3> HIDE DEF owned
    <3> QED BY <1>2, <1>10, <1>12
  <2>2. w \in AllSubclasses(code, C)
      BY <1>1, <2>1, HeirsBelow DEF C
  <2>3. NearestOwned(code, w, owned) = {x}
    <3> HIDE DEF owned
    <3> QED BY <1>1, <1>10, <1>12, NearestDeclares DEF x
  <2>4. code.owner[t] \in NearestOwned(code, w, owned) /\ code.owner[m] = C /\ C # NoSym
    <3> HIDE DEF owned
    <3> QED BY <1>1, <1>2, <1>9, <2>3
  <2> DEFINE picked(c) == {Candidate(c, z, TRUE) : z \in {y \in DispatchTargets(code, m) :
                              code.owner[y] \in NearestOwned(code, c, owned)}}
             heirs == AllSubclasses(code, C) \ owned
  <2>5. Candidate(w, t, TRUE) \in picked(w) /\ w \in heirs
      BY <1>7, <2>1, <2>2, <2>4
  <2>6. InheritedCandidates(code, m) = UNION {picked(c) : c \in heirs}
      BY <2>4, Zenon DEF InheritedCandidates
  <2> HIDE DEF picked, heirs
  <2>7. Candidate(w, t, TRUE) \in InheritedCandidates(code, m)
      BY <2>5, <2>6
  <2> QED BY <1>7, <2>7 DEF x
<1> QED BY <1>11, <1>12

\* For an object of class w, the receiver's class being among those found: the override
\* that the call runs is a target of the call, and is kept.
LEMMA DecisionIsSound ==
    ASSUME NEW root, Given(root), NEW env, NEW f, NEW m \in Callable, IsMethod(m), Declares(ClassOf(m)),
           NEW w, w \in Objects, IsA(w, ClassOf(m)), FinalOverrider(w) # ClassOf(m),
           ReceiverTypes(env, f, m) = TOP \/ w \in ReceiverTypes(env, f, m)
    PROVE  /\ IsVirtual(code, m)
           /\ Method[FinalOverrider(w)] \in DispatchTargets(code, m)
           /\ Method[FinalOverrider(w)] # m
           /\ \/ Decide(env, f, m) = KeepAll
              \/ Method[FinalOverrider(w)] \in Decide(env, f, m)
<1> DEFINE C == ClassOf(m)
           x == FinalOverrider(w)
           t == Method[x]
           K == OverridesIn(code)
<1>1. C \in Class /\ m = Method[C] /\ m \in Sym /\ w \in Class
    BY MethodsAndClasses DEF Objects
<1>2. x \in Class /\ x # C
    BY <1>1, OverriderIsNearest
<1>3. t # m
    BY <1>1, <1>2, UsrsAreApart
<1>4. t \in DispatchTargets(code, m)
    BY ObjectsAreCandidates
<1>5. PICK b : Candidate(w, t, b) \in OwnCandidates(code, m) \union InheritedCandidates(code, m)
    BY ObjectsAreCandidates
<1> HIDE DEF C, x
<1>6. t \in Least(Sym, K, {m})
    BY <1>1, <1>4, RowsOfProgram, TargetsAreLeast
<1>7. IsVirtual(code, m)
  <2>1. OverriddenBy(code, m) # {}
    <3> SUFFICES ASSUME OverriddenBy(code, m) = {} PROVE FALSE
        OBVIOUS
    <3>1. K \in [Sym -> SUBSET Sym] /\ K[m] = {}
        BY <1>1, RowsOfProgram, TargetsAreLeast DEF OverridesIn
    <3>2. Grown(K, {m}) = {m} /\ {m} \in SUBSET Sym
        BY <1>1, <3>1 DEF Grown
    <3> HIDE DEF K, t
    <3>3. Least(Sym, K, {m}) = {m}
        BY <3>1, <3>2, LeastOfClosed
    <3> QED BY <1>3, <1>6, <3>3
  <2> QED BY <2>1 DEF IsVirtual
<1>8. Decide(env, f, m) = KeepAll \/ t \in Decide(env, f, m)
  <2> HIDE DEF t
  <2> QED BY <1>5, <1>7, PicksHold
<1> QED BY <1>3, <1>4, <1>7, <1>8 DEF x

-----------------------------------------------------------------------------
(* The bindings of the engine. *)

\* The classes w are at least the classes v.
Holds(w, v) == w = TOP \/ (v # TOP /\ v \subseteq w)

\* Joining only adds.
LEMMA JoinAdds ==
    ASSUME NEW env, NEW binds, NEW J, J = Join(env, binds)
    PROVE  /\ DOMAIN J = DOMAIN env \union {b[1] : b \in binds}
           /\ \A k \in DOMAIN env : Holds(J[k], env[k])
           /\ \A b \in binds : Holds(J[b[1]], b[2])
<1> DEFINE keys == DOMAIN env \union {b[1] : b \in binds}
           sets(key) == {b[2] : b \in {x \in binds : x[1] = key}} \union {Look(env, key)}
<1>1. J = [key \in keys |-> IF TOP \in sets(key) THEN TOP ELSE UNION sets(key)]
    BY Zenon DEF Join
<1>2. ASSUME NEW k \in keys, NEW v \in sets(k) PROVE Holds(J[k], v)
  <2> HIDE DEF sets, keys
  <2>1. J[k] = IF TOP \in sets(k) THEN TOP ELSE UNION sets(k)
      BY <1>1
  <2> QED BY <1>2, <2>1 DEF Holds
<1>3. \A k \in DOMAIN env : k \in keys /\ env[k] \in sets(k)
    BY DEF Look
<1>4. \A b \in binds : b[1] \in keys /\ b[2] \in sets(b[1])
    OBVIOUS
<1>5. DOMAIN J = keys
    BY <1>1
<1> HIDE DEF sets
<1> QED BY <1>2, <1>3, <1>4, <1>5

\* What a binding of k in the context of g says, if the program is supported: the keys of
\* values hold their class, nothing is known of the references, and a class is a key
\* only where an object of it is made.
Bears(g, k, v) ==
    \/ k = Pos0 /\ \E f : Calls(f, g)
    \/ \E f \in Callable, t \in Class : k = <<f, t>> /\ Holds(v, {t})
    \/ \E t \in Class : k = <<t>> /\ Holds(v, {t})
    \/ k = <<"ref">> /\ v = TOP
    \/ k \in Class /\ \E f \in Function : Ex("construct", k) \in Sites(f, g) \union Sites(g, f)

EnvOK(env) == \A key \in DOMAIN env : \E g \in Callable : \E k : key = <<g, k>> /\ Bears(g, k, env[key])

LEMMA HoldsMore ==
    ASSUME NEW u, NEW v, NEW w, Holds(v, u), Holds(w, v)
    PROVE  Holds(w, u)
BY DEF Holds

LEMMA BearsMore ==
    ASSUME NEW g, NEW k, NEW v, NEW w, Bears(g, k, v), Holds(w, v)
    PROVE  Bears(g, k, w)
<1>1. CASE k = Pos0 /\ \E f : Calls(f, g)
    BY <1>1 DEF Bears
<1>2. ASSUME NEW f \in Callable, NEW t \in Class, k = <<f, t>>, Holds(v, {t}) PROVE Bears(g, k, w)
    BY <1>2, HoldsMore DEF Bears
<1>3. ASSUME NEW t \in Class, k = <<t>>, Holds(v, {t}) PROVE Bears(g, k, w)
    BY <1>3, HoldsMore DEF Bears
<1>4. CASE k = <<"ref">> /\ v = TOP
    BY <1>4 DEF Bears, Holds
<1>5. CASE k \in Class /\ \E f \in Function : Ex("construct", k) \in Sites(f, g) \union Sites(g, f)
    BY <1>5 DEF Bears
<1> QED BY <1>1, <1>2, <1>3, <1>4, <1>5 DEF Bears

LEMMA JoinKeepsEnv ==
    ASSUME NEW env, EnvOK(env), NEW binds,
           \A b \in binds : \E g \in Callable : \E k : b[1] = <<g, k>> /\ Bears(g, k, b[2])
    PROVE  EnvOK(Join(env, binds))
<1> DEFINE J == Join(env, binds)
<1>1. /\ DOMAIN J = DOMAIN env \union {b[1] : b \in binds}
      /\ \A k \in DOMAIN env : Holds(J[k], env[k])
      /\ \A b \in binds : Holds(J[b[1]], b[2])
    BY JoinAdds
<1> HIDE DEF J
<1>2. ASSUME NEW key \in DOMAIN J PROVE \E g \in Callable : \E k : key = <<g, k>> /\ Bears(g, k, J[key])
  <2>1. CASE key \in DOMAIN env
    <3>1. PICK g \in Callable : \E k : key = <<g, k>> /\ Bears(g, k, env[key])
        BY <2>1 DEF EnvOK
    <3>2. PICK k : key = <<g, k>> /\ Bears(g, k, env[key])
        BY <3>1
    <3>3. Bears(g, k, J[key])
        BY <1>1, <2>1, <3>2, BearsMore
    <3> QED BY <3>2, <3>3
  <2>2. CASE key \notin DOMAIN env
    <3>0. PICK b \in binds : key = b[1]
        BY <1>1, <2>2
    <3>1. PICK g \in Callable : \E k : b[1] = <<g, k>> /\ Bears(g, k, b[2])
        OBVIOUS
    <3>2. PICK k : key = <<g, k>> /\ Bears(g, k, b[2])
        BY <3>0, <3>1
    <3>3. Bears(g, k, J[key])
        BY <1>1, <3>0, <3>2, BearsMore
    <3> QED BY <3>2, <3>3
  <2> QED BY <2>1, <2>2
<1> QED BY <1>2 DEF EnvOK, J

\* Keys of different kinds differ.
LEMMA KeysDiffer ==
    /\ \A f, t, u : <<f, t>> # <<u>>
    /\ \A c \in Class : /\ c # Pos0 /\ c \notin {"refvar", "param", "ref"} /\ c # <<"ref">>
                        /\ \A t \in Class : c # <<t>>
                        /\ \A f \in Callable, t \in Class \union {"refvar", "param"} : c # <<f, t>>
    /\ \A f \in Callable : \A t : <<f, t>> # Pos0
    /\ \A t : <<t>> # Pos0
<1>1. \A f, t, u : <<f, t>> # <<u>>
  <2> SUFFICES ASSUME NEW f, NEW t, NEW u PROVE <<f, t>> # <<u>>
      OBVIOUS
  <2>1. Len(<<f, t>>) = 2 /\ Len(<<u>>) = 1
      OBVIOUS
  <2> QED BY <2>1
<1>2. ASSUME NEW f, NEW t, <<f, t>> = Pos0 PROVE f = "@pos"
    BY <1>2 DEF Pos0
<1>3. \A f \in Callable : \A t : <<f, t>> # Pos0
    BY <1>2, KeysAreApart
<1>4. \A t : <<t>> # Pos0
    BY <1>1 DEF Pos0
<1> QED BY <1>1, <1>3, <1>4, KeysAreApart

\* The columns that are stored of an expression.
LEMMA SourceOf ==
    ASSUME NEW f, NEW x
    PROVE  /\ x.kind = "construct" => Source(f, x) = [src |-> "construct", type |-> x.type, decl |-> None, value |-> FALSE]
           /\ x.kind = "value" => Source(f, x) = [src |-> "local", type |-> x.type, decl |-> <<f, x.type>>, value |-> TRUE]
           /\ x.kind \in {"refvar", "param"} => Source(f, x) = [src |-> "local", type |-> x.type, decl |-> <<f, x.kind>>, value |-> FALSE]
           /\ x.kind = "gvalue" => Source(f, x) = [src |-> "global", type |-> x.type, decl |-> <<x.type>>, value |-> TRUE]
           /\ x.kind = "gref" => Source(f, x) = [src |-> "global", type |-> x.type, decl |-> <<"ref">>, value |-> FALSE]
           /\ x.kind = "cvalue" => Source(f, x) = [src |-> "call_result", type |-> x.type, decl |-> None, value |-> TRUE]
           /\ x.kind = "cref" => Source(f, x) = [src |-> "call_result", type |-> x.type, decl |-> None, value |-> FALSE]
           /\ x.kind = "this" => Source(f, x) = [src |-> "this", type |-> x.type, decl |-> x.type, value |-> FALSE]
           /\ x.kind \notin {"construct", "value", "refvar", "param", "gvalue", "gref", "cvalue", "cref", "this"} =>
                 Source(f, x) = [src |-> "unknown", type |-> None, decl |-> None, value |-> FALSE]
<1>1. CASE x.kind = "construct"
    BY <1>1 DEF Source
<1>2. CASE x.kind = "value"
    BY <1>2 DEF Source
<1>3. CASE x.kind \in {"refvar", "param"}
    BY <1>3 DEF Source
<1>4. CASE x.kind = "gvalue"
    BY <1>4 DEF Source
<1>5. CASE x.kind = "gref"
    BY <1>5 DEF Source
<1>6. CASE x.kind = "cvalue"
    BY <1>6 DEF Source
<1>7. CASE x.kind = "cref"
    BY <1>7 DEF Source
<1>8. CASE x.kind = "this"
    BY <1>8 DEF Source
<1>9. CASE x.kind \notin {"construct", "value", "refvar", "param", "gvalue", "gref", "cvalue", "cref", "this"}
    BY <1>9 DEF Source
<1> QED BY <1>1, <1>2, <1>3, <1>4, <1>5, <1>6, <1>7, <1>8, <1>9

LEMMA SitesAreExpressions ==
    ASSUME NEW root, Given(root), NEW f \in Callable, NEW g \in Callable
    PROVE  /\ \A x \in Sites(f, g) : x \in [kind : STRING, type : Class] /\ x = Ex(x.kind, x.type)
           /\ Sites(f, g) # {} <=> Calls(f, g)
<1>1. program.body[f][g] \in Seq([kind : STRING, type : Class])
    BY DEF Given, Compiles
<1> DEFINE s == program.body[f][g]
<1> HIDE DEF s
<1>2. Sites(f, g) = {s[i] : i \in DOMAIN s}
    BY DEF Sites, s
<1>3. s \in Seq([kind : STRING, type : Class])
    BY <1>1 DEF s
<1>4. ASSUME NEW x \in [kind : STRING, type : Class] PROVE x = Ex(x.kind, x.type)
    BY DEF Ex
<1>5. \A x \in Sites(f, g) : x \in [kind : STRING, type : Class]
  <2> DEFINE E == [kind : STRING, type : Class]
  <2>1. s \in Seq(E)
      BY <1>3
  <2> HIDE DEF E
  <2>2. \A i \in DOMAIN s : s[i] \in E
      BY <2>1
  <2>3. \A x \in Sites(f, g) : x \in E
      BY <1>2, <2>2
  <2> QED BY <2>3 DEF E
<1>6. Sites(f, g) # {} <=> s # << >>
  <2>1. ASSUME s # << >> PROVE Sites(f, g) # {}
    <3>1. 1 \in DOMAIN s
        BY <1>3, <2>1
    <3> QED BY <1>2, <3>1
  <2>2. ASSUME s = << >> PROVE Sites(f, g) = {}
      BY <1>2, <2>2
  <2> QED BY <2>1, <2>2
<1>7. Calls(f, g) <=> s # << >>
    BY DEF Calls, s
<1> QED BY <1>4, <1>5, <1>6, <1>7

\* What is handed on is not a parameter or a reference, and only functions call.
LEMMA HandedKinds ==
    ASSUME NEW root, Given(root), Supported, NEW f \in Callable, NEW g \in Callable, Calls(f, g)
    PROVE  /\ f \in Function
           /\ g \in Function => \A x \in Sites(f, g) : x.kind \notin {"refvar", "param", "this"}
<1>1. f \in Function
  <2> SUFFICES ASSUME IsMethod(f) PROVE FALSE
      BY DEF IsMethod
  <2> QED BY DEF Supported, LeafMethods, Calls
<1>2. ASSUME g \in Function, NEW x \in Sites(f, g) PROVE x.kind \notin {"refvar", "param", "this"}
  <2>1. x \in Handed
      BY <1>2 DEF Handed
  <2> QED BY <2>1 DEF Supported, NoRefHandedOn
<1> QED BY <1>1, <1>2

LEMMA RefIsUnknown ==
    ASSUME NEW env, EnvOK(env), NEW f, <<f, <<"ref">>>> \in DOMAIN env
    PROVE  env[<<f, <<"ref">>>>] = TOP
<1> DEFINE r == <<"ref">>
<1>0. \A t \in Class : r # <<t>> /\ t # r
    BY KeysDiffer
<1>1. r # Pos0 /\ \A g, t : r # <<g, t>>
    BY KeysDiffer
<1> HIDE DEF r
<1>2. PICK g \in Callable : \E k : <<f, r>> = <<g, k>> /\ Bears(g, k, env[<<f, r>>])
    BY DEF EnvOK, r
<1>3. Bears(g, r, env[<<f, r>>])
    BY <1>2
<1>4. env[<<f, r>>] = TOP
    BY <1>0, <1>1, <1>3 DEF Bears
<1> QED BY <1>4 DEF r

\* An argument by value is of its class; of another nothing is known.
LEMMA ResolvedOf ==
    ASSUME NEW env, EnvOK(env), NEW f, NEW x, x.kind \notin {"refvar", "param", "this"}
    PROVE  Resolved(env, f, Source(f, x)) = IF x.kind \in ByValue THEN {x.type} ELSE TOP
<1>1. CASE x.kind = "construct"
  <2>1. Source(f, x) = [src |-> "construct", type |-> x.type, decl |-> None, value |-> FALSE]
      BY <1>1, SourceOf
  <2>2. Source(f, x).src = "construct" /\ Source(f, x).type = x.type
      BY <2>1
  <2>3. Resolved(env, f, Source(f, x)) = {x.type}
      BY <2>2 DEF Resolved
  <2> QED BY <1>1, <2>3 DEF ByValue
<1>2. CASE x.kind = "value"
  <2>1. Source(f, x) = [src |-> "local", type |-> x.type, decl |-> <<f, x.type>>, value |-> TRUE]
      BY <1>2, SourceOf
  <2>2. Source(f, x).src = "local" /\ Source(f, x).type = x.type /\ Source(f, x).value = TRUE
      BY <2>1
  <2>3. Resolved(env, f, Source(f, x)) = {x.type}
      BY <2>2 DEF Resolved
  <2> QED BY <1>2, <2>3 DEF ByValue
<1>3. CASE x.kind = "gvalue"
  <2>1. Source(f, x) = [src |-> "global", type |-> x.type, decl |-> <<x.type>>, value |-> TRUE]
      BY <1>3, SourceOf
  <2>2. Source(f, x).src = "global" /\ Source(f, x).type = x.type /\ Source(f, x).value = TRUE
      BY <2>1
  <2>3. Resolved(env, f, Source(f, x)) = {x.type}
      BY <2>2 DEF Resolved
  <2> QED BY <1>3, <2>3 DEF ByValue
<1>4. CASE x.kind = "gref"
  <2>1. Source(f, x) = [src |-> "global", type |-> x.type, decl |-> <<"ref">>, value |-> FALSE]
      BY <1>4, SourceOf
  <2>2. Source(f, x).src = "global" /\ Source(f, x).decl = <<"ref">> /\ Source(f, x).value = FALSE
      BY <2>1
  <2>3. Resolved(env, f, Source(f, x)) =
           IF <<f, <<"ref">>>> \in DOMAIN env THEN env[<<f, <<"ref">>>>] ELSE TOP
      BY <2>2 DEF Resolved
  <2>4. Resolved(env, f, Source(f, x)) = TOP
      BY <2>3, RefIsUnknown
  <2> QED BY <1>4, <2>4 DEF ByValue
<1>5. CASE x.kind = "cvalue"
  <2>1. Source(f, x) = [src |-> "call_result", type |-> x.type, decl |-> None, value |-> TRUE]
      BY <1>5, SourceOf
  <2>2. Source(f, x).src = "call_result" /\ Source(f, x).type = x.type /\ Source(f, x).value = TRUE
      BY <2>1
  <2>3. Resolved(env, f, Source(f, x)) = {x.type}
      BY <2>2 DEF Resolved
  <2> QED BY <1>5, <2>3 DEF ByValue
<1>6. CASE x.kind = "cref"
  <2>1. Source(f, x) = [src |-> "call_result", type |-> x.type, decl |-> None, value |-> FALSE]
      BY <1>6, SourceOf
  <2>2. Source(f, x).src = "call_result" /\ Source(f, x).value = FALSE
      BY <2>1
  <2>3. Resolved(env, f, Source(f, x)) = TOP
      BY <2>2 DEF Resolved
  <2> QED BY <1>6, <2>3 DEF ByValue
<1>7. CASE x.kind \notin {"construct", "value", "gvalue", "gref", "cvalue", "cref"}
  <2>1. Source(f, x) = [src |-> "unknown", type |-> None, decl |-> None, value |-> FALSE]
      BY <1>7, SourceOf
  <2>2. Source(f, x).src = "unknown"
      BY <2>1
  <2>3. Resolved(env, f, Source(f, x)) = TOP
      BY <2>2 DEF Resolved
  <2> QED BY <1>7, <2>3 DEF ByValue
<1> QED BY <1>1, <1>2, <1>3, <1>4, <1>5, <1>6, <1>7

\* The declarations of arguments, by kind.
LEMMA DeclOf ==
    ASSUME NEW f, NEW x, x.kind \notin {"refvar", "param", "this"}
    PROVE  /\ Source(f, x).src = "construct" => x.kind = "construct" /\ Source(f, x).type = x.type
           /\ Source(f, x).src \in {"local", "this"} =>
                 x.kind = "value" /\ Source(f, x).decl = <<f, x.type>> /\ Source(f, x).type = x.type
           /\ Source(f, x).decl # None =>
                 \/ x.kind = "value" /\ Source(f, x).decl = <<f, x.type>>
                 \/ x.kind = "gvalue" /\ Source(f, x).decl = <<x.type>>
                 \/ x.kind = "gref" /\ Source(f, x).decl = <<"ref">>
<1> DEFINE r == Source(f, x)
<1> HIDE DEF r
<1>1. /\ x.kind = "construct" => r = [src |-> "construct", type |-> x.type, decl |-> None, value |-> FALSE]
      /\ x.kind = "value" => r = [src |-> "local", type |-> x.type, decl |-> <<f, x.type>>, value |-> TRUE]
      /\ x.kind = "gvalue" => r = [src |-> "global", type |-> x.type, decl |-> <<x.type>>, value |-> TRUE]
      /\ x.kind = "gref" => r = [src |-> "global", type |-> x.type, decl |-> <<"ref">>, value |-> FALSE]
      /\ x.kind = "cvalue" => r = [src |-> "call_result", type |-> x.type, decl |-> None, value |-> TRUE]
      /\ x.kind = "cref" => r = [src |-> "call_result", type |-> x.type, decl |-> None, value |-> FALSE]
      /\ x.kind \notin {"construct", "value", "gvalue", "gref", "cvalue", "cref"} =>
                 r = [src |-> "unknown", type |-> None, decl |-> None, value |-> FALSE]
    BY SourceOf DEF r
<1>2. /\ r.src = "construct" => x.kind = "construct" /\ r.type = x.type
      /\ r.src \in {"local", "this"} => x.kind = "value" /\ r.decl = <<f, x.type>> /\ r.type = x.type
      /\ r.decl # None => \/ x.kind = "value" /\ r.decl = <<f, x.type>>
                          \/ x.kind = "gvalue" /\ r.decl = <<x.type>>
                          \/ x.kind = "gref" /\ r.decl = <<"ref">>
  <2>1. CASE x.kind = "construct"
      BY <1>1, <2>1
  <2>2. CASE x.kind = "value"
      BY <1>1, <2>2
  <2>3. CASE x.kind = "gvalue"
      BY <1>1, <2>3
  <2>4. CASE x.kind = "gref"
      BY <1>1, <2>4
  <2>5. CASE x.kind = "cvalue"
      BY <1>1, <2>5
  <2>6. CASE x.kind = "cref"
      BY <1>1, <2>6
  <2>7. CASE x.kind \notin {"construct", "value", "gvalue", "gref", "cvalue", "cref"}
      BY <1>1, <2>7
  <2> QED BY <2>1, <2>2, <2>3, <2>4, <2>5, <2>6, <2>7
<1> QED BY <1>2 DEF r

LEMMA SeedsBear ==
    ASSUME NEW root, Given(root), Supported, NEW f \in Callable
    PROVE  \A b \in Seeds(f) : \E g \in Callable : \E k : b[1] = <<g, k>> /\ Bears(g, k, b[2])
<1>0. SUFFICES ASSUME NEW g \in Callable, NEW a \in Args(f, g), NEW k, NEW v,
                      \/ a.src = "construct" /\ k = a.type /\ v = {a.type}
                      \/ a.src \in {"local", "this"} /\ k = a.decl /\ v = {a.type}
               PROVE  Bears(f, k, v)
  <2> DEFINE made(g) == {<<<<f, a.type>>, {a.type}>> : a \in {x \in Args(f, g) : x.src = "construct"}}
             named(g) == {<<<<f, a.decl>>, {a.type}>> : a \in {x \in Args(f, g) : x.src \in {"local", "this"}}}
  <2>1. Seeds(f) = UNION {made(g) \union named(g) : g \in Callable}
      BY DEF Seeds
  <2> SUFFICES ASSUME NEW b \in Seeds(f)
               PROVE  \E g \in Callable : \E k : b[1] = <<g, k>> /\ Bears(g, k, b[2])
      OBVIOUS
  <2> HIDE DEF made, named
  <2>2. PICK g \in Callable : b \in made(g) \union named(g)
      BY <2>1
  <2>3. CASE b \in made(g)
    <3>1. PICK a \in {x \in Args(f, g) : x.src = "construct"} : b = <<<<f, a.type>>, {a.type}>>
        BY <2>3 DEF made
    <3>2. b[1] = <<f, a.type>> /\ b[2] = {a.type}
        BY <3>1
    <3>3. Bears(f, a.type, {a.type})
        BY <3>1, <1>0
    <3> QED BY <3>2, <3>3
  <2>4. CASE b \in named(g)
    <3>1. PICK a \in {x \in Args(f, g) : x.src \in {"local", "this"}} : b = <<<<f, a.decl>>, {a.type}>>
        BY <2>4 DEF named
    <3>2. b[1] = <<f, a.decl>> /\ b[2] = {a.type}
        BY <3>1
    <3>3. Bears(f, a.decl, {a.type})
        BY <3>1, <1>0
    <3> QED BY <3>2, <3>3
  <2> QED BY <2>2, <2>3, <2>4
<1>1. g \in Function /\ a \in {Source(f, x) : x \in Sites(f, g)}
    BY DEF Args, IsMethod
<1>2. PICK x \in Sites(f, g) : a = Source(f, x)
    BY <1>1
<1>3. x.type \in Class /\ x = Ex(x.kind, x.type) /\ Calls(f, g)
    BY <1>2, SitesAreExpressions
<1>4. f \in Function /\ x.kind \notin {"refvar", "param", "this"}
    BY <1>1, <1>2, <1>3, HandedKinds
<1>5. CASE a.src = "construct" /\ k = a.type /\ v = {a.type}
  <2>1. x.kind = "construct" /\ k = x.type
      BY <1>2, <1>4, <1>5, DeclOf
  <2>2. Ex("construct", k) \in Sites(f, g)
      BY <1>2, <1>3, <2>1
  <2> QED BY <1>1, <1>3, <2>1, <2>2 DEF Bears
<1>6. CASE a.src \in {"local", "this"} /\ k = a.decl /\ v = {a.type}
  <2>1. k = <<f, x.type>> /\ v = {x.type}
      BY <1>2, <1>4, <1>6, DeclOf
  <2> QED BY <1>3, <2>1 DEF Bears, Holds
<1> QED BY <1>0, <1>5, <1>6

LEMMA BindingsBear ==
    ASSUME NEW root, Given(root), Supported, NEW env, EnvOK(env),
           NEW f \in Callable, NEW g \in Callable, Calls(f, g)
    PROVE  \A b \in Bindings(env, f, g) : \E h \in Callable : \E k : b[1] = <<h, k>> /\ Bears(h, k, b[2])
<1>1. CASE Args(f, g) = {}
    BY <1>1 DEF Bindings
<1>2. CASE Args(f, g) # {}
  <2>1. Bindings(env, f, g) =
           {<<<<g, Pos0>>, ArgTypes(env, f, g)>>}
           \union {<<<<g, a.decl>>, Resolved(env, f, a)>> : a \in {x \in Args(f, g) : x.decl # None}}
           \union {<<<<g, a.type>>, {a.type}>> : a \in {x \in Args(f, g) : x.src = "construct"}}
      BY <1>2, Zenon DEF Bindings
  <2>2. g \in Function /\ Args(f, g) = {Source(f, x) : x \in Sites(f, g)}
      BY <1>2 DEF Args, IsMethod
  <2>3. f \in Function /\ \A x \in Sites(f, g) : x.kind \notin {"refvar", "param", "this"}
      BY <2>2, HandedKinds
  <2>4. Bears(g, Pos0, ArgTypes(env, f, g))
      BY DEF Bears
  <2>5. ASSUME NEW a \in Args(f, g), a.decl # None PROVE Bears(g, a.decl, Resolved(env, f, a))
    <3>1. PICK x \in Sites(f, g) : a = Source(f, x)
        BY <2>2
    <3>2. x.type \in Class /\ x.kind \notin {"refvar", "param", "this"}
        BY <2>3, <3>1, SitesAreExpressions
    <3>3. \/ x.kind = "value" /\ a.decl = <<f, x.type>>
          \/ x.kind = "gvalue" /\ a.decl = <<x.type>>
          \/ x.kind = "gref" /\ a.decl = <<"ref">>
        BY <2>5, <3>1, <3>2, DeclOf
    <3>4. Resolved(env, f, a) = IF x.kind \in ByValue THEN {x.type} ELSE TOP
        BY <3>1, <3>2, ResolvedOf
    <3>5. CASE x.kind \in {"value", "gvalue"}
      <4>1. Resolved(env, f, a) = {x.type}
          BY <3>4, <3>5 DEF ByValue
      <4>2. Holds(Resolved(env, f, a), {x.type})
          BY <4>1 DEF Holds
      <4> QED BY <3>2, <3>3, <3>5, <4>2 DEF Bears
    <3>6. CASE x.kind = "gref"
      <4>1. Resolved(env, f, a) = TOP /\ a.decl = <<"ref">>
          BY <3>3, <3>4, <3>6 DEF ByValue
      <4> QED BY <4>1 DEF Bears
    <3> QED BY <3>3, <3>5, <3>6
  <2>6. ASSUME NEW a \in Args(f, g), a.src = "construct" PROVE Bears(g, a.type, {a.type})
    <3>1. PICK x \in Sites(f, g) : a = Source(f, x)
        BY <2>2
    <3>2. x.type \in Class /\ x = Ex(x.kind, x.type)
        BY <3>1, SitesAreExpressions
    <3>3. x.kind = "construct" /\ a.type = x.type
        BY <2>3, <2>6, <3>1, DeclOf
    <3>4. Ex("construct", a.type) \in Sites(f, g)
        BY <3>1, <3>2, <3>3
    <3> QED BY <2>3, <3>2, <3>3, <3>4 DEF Bears
  <2> QED BY <2>1, <2>4, <2>5, <2>6
<1> QED BY <1>1, <1>2

\* What f passes to g is in the environment.
Carried(env, f, g) ==
    g \in Function =>
        /\ <<g, Pos0>> \in DOMAIN env
        /\ \/ env[<<g, Pos0>>] = TOP
           \/ \A x \in Sites(f, g) : x.kind \in ByValue /\ x.type \in env[<<g, Pos0>>]

LEMMA JoinCarries ==
    ASSUME NEW env, NEW binds, NEW f, NEW g, Carried(env, f, g)
    PROVE  Carried(Join(env, binds), f, g)
<1> DEFINE J == Join(env, binds)
           p == <<g, Pos0>>
<1>1. DOMAIN J = DOMAIN env \union {b[1] : b \in binds} /\ \A k \in DOMAIN env : Holds(J[k], env[k])
    BY JoinAdds
<1> HIDE DEF J, p
<1>2. ASSUME g \in Function
      PROVE  p \in DOMAIN J /\ (J[p] = TOP \/ \A x \in Sites(f, g) : x.kind \in ByValue /\ x.type \in J[p])
  <2>1. p \in DOMAIN env /\ (env[p] = TOP \/ \A x \in Sites(f, g) : x.kind \in ByValue /\ x.type \in env[p])
      BY <1>2 DEF Carried, p
  <2>2. p \in DOMAIN J /\ Holds(J[p], env[p])
      BY <1>1, <2>1
  <2> QED BY <2>1, <2>2 DEF Holds
<1> QED BY <1>2 DEF Carried, J, p

LEMMA BoundIsCarried ==
    ASSUME NEW root, Given(root), Supported, NEW env, EnvOK(env),
           NEW f \in Callable, NEW g \in Callable, Calls(f, g)
    PROVE  Carried(Join(env, Bindings(env, f, g)), f, g)
<1> SUFFICES ASSUME g \in Function
             PROVE  Carried(Join(env, Bindings(env, f, g)), f, g)
    BY DEF Carried
<1> DEFINE B == Bindings(env, f, g)
           J == Join(env, B)
           p == <<g, Pos0>>
           v == ArgTypes(env, f, g)
<1>1. Args(f, g) = {Source(f, x) : x \in Sites(f, g)} /\ Sites(f, g) # {}
    BY SitesAreExpressions DEF Args, IsMethod
<1>2. <<p, v>> \in B
  <2>1. Args(f, g) # {}
      BY <1>1
  <2> QED BY <2>1, Zenon DEF Bindings
<1>3. p \in DOMAIN J /\ Holds(J[p], v)
  <2>1. DOMAIN J = DOMAIN env \union {b[1] : b \in B} /\ \A b \in B : Holds(J[b[1]], b[2])
      BY JoinAdds
  <2> HIDE DEF J, B, p, v
  <2>2. <<p, v>>[1] = p /\ <<p, v>>[2] = v
      OBVIOUS
  <2> QED BY <1>2, <2>1, <2>2
<1>4. v = TOP \/ \A x \in Sites(f, g) : x.kind \in ByValue /\ x.type \in v
  <2> SUFFICES ASSUME v # TOP, NEW x \in Sites(f, g) PROVE x.kind \in ByValue /\ x.type \in v
      OBVIOUS
  <2> DEFINE all == {Resolved(env, f, a) : a \in Args(f, g)}
  <2>1. TOP \notin all /\ v = UNION all
      BY DEF ArgTypes
  <2>2. x.kind \notin {"refvar", "param", "this"}
      BY HandedKinds
  <2>3. Resolved(env, f, Source(f, x)) = IF x.kind \in ByValue THEN {x.type} ELSE TOP
      BY <2>2, ResolvedOf
  <2>4. Resolved(env, f, Source(f, x)) \in all
      BY <1>1
  <2> HIDE DEF all, v
  <2> QED BY <2>1, <2>3, <2>4
<1> HIDE DEF J, B, p, v
<1>5. J[p] = TOP \/ \A x \in Sites(f, g) : x.kind \in ByValue /\ x.type \in J[p]
    BY <1>3, <1>4 DEF Holds
<1> QED BY <1>3, <1>5 DEF Carried, J, B, p, v

-----------------------------------------------------------------------------
(* The classes found for a receiver. *)

LEMMA EnvBears ==
    ASSUME NEW env, EnvOK(env), NEW f, NEW k, <<f, k>> \in DOMAIN env
    PROVE  Bears(f, k, env[<<f, k>>])
<1>1. PICK g \in Callable : \E j : <<f, k>> = <<g, j>> /\ Bears(g, j, env[<<f, k>>])
    BY DEF EnvOK
<1>2. PICK j : <<f, k>> = <<g, j>> /\ Bears(g, j, env[<<f, k>>])
    BY <1>1
<1> QED BY <1>2

\* What is bound in the context of f, by the kind of the key.
LEMMA KeysOfContext ==
    ASSUME NEW env, EnvOK(env), NEW f \in Callable, NEW t, t \in Class
    PROVE  /\ <<f, <<f, "refvar">>>> \notin DOMAIN env /\ <<f, <<f, "param">>>> \notin DOMAIN env
           /\ <<f, <<f, t>>>> \in DOMAIN env => Holds(env[<<f, <<f, t>>>>], {t})
           /\ <<f, <<t>>>> \in DOMAIN env => Holds(env[<<f, <<t>>>>], {t})
           /\ <<f, t>> \in DOMAIN env =>
                 \E g \in Function : Ex("construct", t) \in Sites(g, f) \union Sites(f, g)
<1>1. ASSUME NEW z \in {"refvar", "param"}, <<f, <<f, z>>>> \in DOMAIN env PROVE FALSE
  <2> DEFINE k == <<f, z>>
  <2>1. k # Pos0 /\ k \notin Class /\ z \notin Class
      BY KeysDiffer
  <2>2. (\A u : k # <<u>>) /\ \A g, u : k = <<g, u>> => u = z
      BY KeysDiffer
  <2> HIDE DEF k
  <2>3. Bears(f, k, env[<<f, k>>])
      BY <1>1, EnvBears DEF k
  <2> QED BY <2>1, <2>2, <2>3 DEF Bears
<1>2. ASSUME <<f, <<f, t>>>> \in DOMAIN env PROVE Holds(env[<<f, <<f, t>>>>], {t})
  <2> DEFINE k == <<f, t>>
  <2>1. k # Pos0 /\ k \notin Class
      BY KeysDiffer
  <2>2. (\A u : k # <<u>>) /\ \A g, u : k = <<g, u>> => u = t
      BY KeysDiffer
  <2> HIDE DEF k
  <2>3. Bears(f, k, env[<<f, k>>])
      BY <1>2, EnvBears DEF k
  <2>4. Holds(env[<<f, k>>], {t})
      BY <2>1, <2>2, <2>3 DEF Bears
  <2> QED BY <2>4 DEF k
<1>3. ASSUME <<f, <<t>>>> \in DOMAIN env PROVE Holds(env[<<f, <<t>>>>], {t})
  <2> DEFINE k == <<t>>
  <2>1. k # Pos0 /\ k \notin Class
      BY KeysDiffer
  <2>2. (\A g, u : k # <<g, u>>) /\ \A u : k = <<u>> => u = t
      BY KeysDiffer
  <2> HIDE DEF k
  <2>3. Bears(f, k, env[<<f, k>>])
      BY <1>3, EnvBears DEF k
  <2>4. Holds(env[<<f, k>>], {t})
      BY <2>1, <2>2, <2>3 DEF Bears, Holds
  <2> QED BY <2>4 DEF k
<1>4. ASSUME <<f, t>> \in DOMAIN env
      PROVE  \E g \in Function : Ex("construct", t) \in Sites(g, f) \union Sites(f, g)
  <2>1. Bears(f, t, env[<<f, t>>])
      BY <1>4, EnvBears
  <2> QED BY <2>1, KeysDiffer DEF Bears
<1> QED BY <1>1, <1>2, <1>3, <1>4

\* The order of the lookups, where the static class of the receiver is not a key.
LEMMA ReceiverCases ==
    ASSUME NEW env, NEW f, NEW m, NEW x, x = program.body[f][m][1],
           NEW r, r = Source(f, x), r.type # None => <<f, r.type>> \notin DOMAIN env,
           NEW R, R = ReceiverTypes(env, f, m)
    PROVE  \/ R = TOP
           \/ R = {r.type} /\ (r.src = "construct" \/ (r.value /\ r.src \in {"global", "call_result"}))
           \/ r.decl # None /\ <<f, r.decl>> \in DOMAIN env /\ R = env[<<f, r.decl>>]
           \/ x.kind = "param" /\ <<f, Pos0>> \in DOMAIN env /\ R = env[<<f, Pos0>>]
           \/ x.kind = "param" /\ <<f, Pos0>> \notin DOMAIN env /\ R = ClosedWorld(env, f)
<1> DEFINE known == r.value /\ r.src \in {"global", "call_result"} /\ r.type = ClassOf(m)
           found == IF r.decl # None /\ <<f, r.decl>> \in DOMAIN env THEN env[<<f, r.decl>>]
                    ELSE IF r.type # None /\ <<f, r.type>> \in DOMAIN env THEN env[<<f, r.type>>]
                    ELSE IF x.kind = "param" /\ <<f, Pos0>> \in DOMAIN env THEN env[<<f, Pos0>>]
                    ELSE IF r.src = "construct" THEN {r.type}
                    ELSE IF closed /\ x.kind = "param" THEN ClosedWorld(env, f)
                    ELSE TOP
<1>1. R = CASE known -> {r.type} [] OTHER -> found
    BY Zenon DEF ReceiverTypes
<1>2. (known => R = {r.type}) /\ (~known => R = found)
  <2> HIDE DEF found, known
  <2> QED BY <1>1
<1>3. known => r.value /\ r.src \in {"global", "call_result"}
    OBVIOUS
<1>4. CASE known
    BY <1>2, <1>3, <1>4
<1>5. CASE ~known
  <2>1. R = found
      BY <1>2, <1>5
  <2> HIDE DEF known
  <2> QED BY <2>1
<1> QED BY <1>4, <1>5

\* The object of a frame of f is accounted for: by what is bound to the parameter, or f is
\* called by nothing.
Owned(env, f, v) ==
    IF <<f, Pos0>> \in DOMAIN env THEN env[<<f, Pos0>>] = TOP \/ v \in env[<<f, Pos0>>]
    ELSE CallersOf(f) = {}

\* The class of the receiver is among those found.
LEMMA ReceiverIsFound ==
    ASSUME NEW root, Given(root), Supported, NEW env, EnvOK(env),
           NEW f \in Function, NEW m \in Callable, IsMethod(m), NEW x, x \in Sites(f, m),
           NEW v, Owned(env, f, v), NEW w, w \in Values(x, v)
    PROVE  ReceiverTypes(env, f, m) = TOP \/ w \in ReceiverTypes(env, f, m)
<1> DEFINE r == Source(f, x)
           R == ReceiverTypes(env, f, m)
<1>1. f \in Callable /\ x.type \in Class
    BY SitesAreExpressions DEF Callable
<1>2. x = program.body[f][m][1]
  <2> DEFINE s == program.body[f][m]
  <2>1. s \in Seq([kind : STRING, type : Class])
      BY <1>1 DEF Given, Compiles
  <2>2. Len(s) <= 1
      BY <1>1 DEF Supported, OneSite
  <2>3. PICK i \in DOMAIN s : x = s[i]
      BY DEF Sites
  <2> HIDE DEF s
  <2>4. i = 1
      BY <2>1, <2>2, <2>3
  <2> QED BY <2>3, <2>4 DEF s
<1>3. <<f, x.type>> \notin DOMAIN env
  <2> SUFFICES ASSUME <<f, x.type>> \in DOMAIN env PROVE FALSE
      OBVIOUS
  <2>1. PICK g \in Function : Ex("construct", x.type) \in Sites(g, f) \union Sites(f, g)
      BY <1>1, KeysOfContext
  <2> QED BY <2>1 DEF Supported, NoTypeKeyHit
<1>4. /\ r.type = x.type \/ r.type = None
      /\ r.src = "construct" => x.kind = "construct" /\ r.type = x.type
      /\ r.value /\ r.src \in {"global", "call_result"} => x.kind \in {"gvalue", "cvalue"} /\ r.type = x.type
      /\ r.decl # None =>
            \/ x.kind = "value" /\ r.decl = <<f, x.type>>
            \/ x.kind \in {"refvar", "param"} /\ r.decl = <<f, x.kind>>
            \/ x.kind = "gvalue" /\ r.decl = <<x.type>>
            \/ x.kind = "gref" /\ r.decl = <<"ref">>
            \/ x.kind = "this" /\ r.decl = x.type
  <2> HIDE DEF r
  <2>1. /\ x.kind = "construct" => r = [src |-> "construct", type |-> x.type, decl |-> None, value |-> FALSE]
        /\ x.kind = "value" => r = [src |-> "local", type |-> x.type, decl |-> <<f, x.type>>, value |-> TRUE]
        /\ x.kind \in {"refvar", "param"} => r = [src |-> "local", type |-> x.type, decl |-> <<f, x.kind>>, value |-> FALSE]
        /\ x.kind = "gvalue" => r = [src |-> "global", type |-> x.type, decl |-> <<x.type>>, value |-> TRUE]
        /\ x.kind = "gref" => r = [src |-> "global", type |-> x.type, decl |-> <<"ref">>, value |-> FALSE]
        /\ x.kind = "cvalue" => r = [src |-> "call_result", type |-> x.type, decl |-> None, value |-> TRUE]
        /\ x.kind = "cref" => r = [src |-> "call_result", type |-> x.type, decl |-> None, value |-> FALSE]
        /\ x.kind = "this" => r = [src |-> "this", type |-> x.type, decl |-> x.type, value |-> FALSE]
        /\ x.kind \notin {"construct", "value", "refvar", "param", "gvalue", "gref", "cvalue", "cref", "this"} =>
              r = [src |-> "unknown", type |-> None, decl |-> None, value |-> FALSE]
      BY SourceOf DEF r
  <2>2. CASE x.kind \in {"construct", "value"}
      BY <2>1, <2>2
  <2>3. CASE x.kind \in {"refvar", "param"}
      BY <2>1, <2>3
  <2>4. CASE x.kind \in {"gvalue", "gref"}
      BY <2>1, <2>4
  <2>5. CASE x.kind \in {"cvalue", "cref"}
      BY <2>1, <2>5
  <2>6. CASE x.kind = "this"
      BY <2>1, <2>6
  <2>7. CASE x.kind \notin {"construct", "value", "refvar", "param", "gvalue", "gref", "cvalue", "cref", "this"}
      BY <2>1, <2>7
  <2> QED BY <2>2, <2>3, <2>4, <2>5, <2>6, <2>7
<1>5. r.type # None => <<f, r.type>> \notin DOMAIN env
    BY <1>3, <1>4
<1>6. \/ R = TOP
      \/ R = {r.type} /\ (r.src = "construct" \/ (r.value /\ r.src \in {"global", "call_result"}))
      \/ r.decl # None /\ <<f, r.decl>> \in DOMAIN env /\ R = env[<<f, r.decl>>]
      \/ x.kind = "param" /\ <<f, Pos0>> \in DOMAIN env /\ R = env[<<f, Pos0>>]
      \/ x.kind = "param" /\ <<f, Pos0>> \notin DOMAIN env /\ R = ClosedWorld(env, f)
  <2> HIDE DEF r, R
  <2> QED BY <1>2, <1>5, ReceiverCases DEF r, R
<1>7. x.kind \in ByValue => w = x.type
    BY DEF Values, ByValue, OwnObject
<1>8. x.kind = "param" => w = v
    BY DEF Values, ByValue, OwnObject
<1> HIDE DEF r, R
<1>9. CASE R = {r.type} /\ (r.src = "construct" \/ (r.value /\ r.src \in {"global", "call_result"}))
    BY <1>4, <1>7, <1>9 DEF ByValue, R
<1>10. CASE r.decl # None /\ <<f, r.decl>> \in DOMAIN env /\ R = env[<<f, r.decl>>]
  <2>1. CASE x.kind = "value" /\ r.decl = <<f, x.type>>
    <3>1. Holds(R, {x.type})
        BY <1>1, <1>10, <2>1, KeysOfContext
    <3> QED BY <1>7, <2>1, <3>1 DEF Holds, ByValue, R
  <2>2. CASE x.kind \in {"refvar", "param"} /\ r.decl = <<f, x.kind>>
      BY <1>1, <1>10, <2>2, KeysOfContext
  <2>3. CASE x.kind = "gvalue" /\ r.decl = <<x.type>>
    <3>1. Holds(R, {x.type})
        BY <1>1, <1>10, <2>3, KeysOfContext
    <3> QED BY <1>7, <2>3, <3>1 DEF Holds, ByValue, R
  <2>4. CASE x.kind = "gref" /\ r.decl = <<"ref">>
      BY <1>10, <2>4, RefIsUnknown DEF R
  <2>5. CASE x.kind = "this" /\ r.decl = x.type
      BY <1>3, <1>10, <2>5
  <2> QED BY <1>4, <1>10, <2>1, <2>2, <2>3, <2>4, <2>5
<1>11. CASE x.kind = "param" /\ <<f, Pos0>> \in DOMAIN env /\ R = env[<<f, Pos0>>]
    BY <1>8, <1>11 DEF Owned, R
<1>12. CASE x.kind = "param" /\ <<f, Pos0>> \notin DOMAIN env /\ R = ClosedWorld(env, f)
  <2>1. CallersOf(f) = {}
      BY <1>12 DEF Owned
  <2> QED BY <1>12, <2>1 DEF ClosedWorld, R
<1> QED BY <1>6, <1>9, <1>10, <1>11, <1>12 DEF R

-----------------------------------------------------------------------------
(* The stack of the engine. *)

Frame == [fn : Callable, todo : SUBSET Callable]

\* The call f -> h is still to be bound.
Due(S, f, h) == \E i \in DOMAIN S : S[i].fn = f /\ h \in S[i].todo

\* Each callable is analysed once, and what it has to do are calls of it.
Frames(S, A) ==
    /\ S \in Seq(Frame)
    /\ \A i \in DOMAIN S : S[i].fn \in A /\ \A h \in S[i].todo : Calls(S[i].fn, h)
    /\ \A i, j \in DOMAIN S : S[i].fn = S[j].fn => i = j

LEMMA FrameFields ==
    ASSUME NEW S, S \in Seq(Frame)
    PROVE  /\ Len(S) \in Nat /\ DOMAIN S = 1..Len(S)
           /\ \A i \in DOMAIN S : /\ S[i] \in Frame /\ S[i] = [fn |-> S[i].fn, todo |-> S[i].todo]
                                  /\ S[i].fn \in Callable /\ S[i].todo \in SUBSET Callable
           /\ S # << >> => Len(S) \in DOMAIN S
<1>1. Len(S) \in Nat /\ DOMAIN S = 1..Len(S) /\ \A i \in DOMAIN S : S[i] \in Frame
    OBVIOUS
<1>2. \A k \in Frame : k = [fn |-> k.fn, todo |-> k.todo] /\ k.fn \in Callable /\ k.todo \in SUBSET Callable
    BY DEF Frame
<1>3. S # << >> => Len(S) \in DOMAIN S
    BY <1>1
<1> QED BY <1>1, <1>2, <1>3

\* T is S without the call of g in frame n; T is S with a frame of f on top.
Lessened(T, S, n, g) == T = [S EXCEPT ![n] = [fn |-> S[n].fn, todo |-> S[n].todo \ {g}]]
Pushed(T, S, f, D) == T = Append(S, [fn |-> f, todo |-> D])

LEMMA FrameLess ==
    ASSUME NEW S, NEW A, Frames(S, A), S # << >>, NEW n, n = Len(S), NEW g, g \in S[n].todo,
           NEW T, Lessened(T, S, n, g)
    PROVE  /\ Frames(T, A) /\ T # << >>
           /\ Due(S, S[n].fn, g) /\ ~Due(T, S[n].fn, g)
           /\ \A f, h : Due(S, f, h) => Due(T, f, h) \/ (f = S[n].fn /\ h = g)
           /\ \A f, h : Due(T, f, h) => Due(S, f, h)
<1>1. /\ n \in DOMAIN S /\ DOMAIN S = 1..Len(S) /\ Len(S) \in Nat
      /\ \A i \in DOMAIN S : S[i].fn \in Callable /\ S[i].todo \in SUBSET Callable /\ S[i] \in Frame
    BY FrameFields DEF Frames
<1>2. [fn |-> S[n].fn, todo |-> S[n].todo \ {g}] \in Frame
    BY <1>1 DEF Frame
<1>3. T \in Seq(Frame) /\ DOMAIN T = DOMAIN S
  <2> HIDE DEF Frame
  <2> QED BY <1>1, <1>2 DEF Frames, Lessened
<1>4. \A i \in DOMAIN S : /\ T[i].fn = S[i].fn
                          /\ T[i].todo = IF i = n THEN S[i].todo \ {g} ELSE S[i].todo
    BY <1>1 DEF Lessened
<1>5. \A i \in DOMAIN S : S[i].fn \in A /\ \A h \in S[i].todo : Calls(S[i].fn, h)
    BY DEF Frames
<1>6. \A i, j \in DOMAIN S : S[i].fn = S[j].fn => i = j
    BY DEF Frames
<1>7. Frames(T, A)
    BY <1>3, <1>4, <1>5, <1>6 DEF Frames
<1>8. T # << >>
    BY <1>1, <1>3
<1>9. Due(S, S[n].fn, g) /\ ~Due(T, S[n].fn, g)
    BY <1>1, <1>3, <1>4, <1>6 DEF Due
<1>10. \A f, h : Due(S, f, h) => Due(T, f, h) \/ (f = S[n].fn /\ h = g)
    BY <1>3, <1>4 DEF Due
<1>11. \A f, h : Due(T, f, h) => Due(S, f, h)
    BY <1>3, <1>4 DEF Due
<1> QED BY <1>7, <1>8, <1>9, <1>10, <1>11

LEMMA FramePopped ==
    ASSUME NEW S, NEW A, Frames(S, A), S # << >>, S[Len(S)].todo = {},
           NEW T, T = SubSeq(S, 1, Len(S) - 1)
    PROVE  Frames(T, A) /\ \A f, h : Due(S, f, h) <=> Due(T, f, h)
<1>1. Len(S) \in DOMAIN S /\ DOMAIN S = 1..Len(S) /\ Len(S) \in Nat /\ Len(S) >= 1
    BY FrameFields DEF Frames
<1>2. T \in Seq(Frame) /\ DOMAIN T = 1..(Len(S) - 1) /\ \A i \in DOMAIN T : T[i] = S[i]
  <2>1. S \in Seq(Frame)
      BY DEF Frames
  <2> DEFINE n == Len(S) - 1
  <2>2. n \in Nat /\ n <= Len(S) /\ 1 \in 1..(Len(S) + 1)
      BY <1>1
  <2> HIDE DEF n, Frame
  <2>3. T \in Seq(Frame) /\ DOMAIN T = 1..n /\ \A i \in 1..n : T[i] = S[i]
      BY <2>1, <2>2 DEF n
  <2> QED BY <2>3 DEF n
<1>3. \A i \in DOMAIN T : i \in DOMAIN S
    BY <1>1, <1>2
<1>4. \A i \in DOMAIN S : i \in DOMAIN T \/ i = Len(S)
    BY <1>1, <1>2
<1>5. Frames(T, A)
    BY <1>2, <1>3 DEF Frames
<1>6. \A f, h : Due(S, f, h) <=> Due(T, f, h)
    BY <1>2, <1>3, <1>4 DEF Due
<1> QED BY <1>5, <1>6

LEMMA FramePushed ==
    ASSUME NEW S, NEW A, Frames(S, A), NEW f \in Callable, f \notin A,
           NEW D, \A h : h \in D <=> Calls(f, h),
           NEW T, Pushed(T, S, f, D)
    PROVE  /\ Frames(T, A \union {f})
           /\ \A x, h : Due(T, x, h) <=> Due(S, x, h) \/ (x = f /\ Calls(f, h))
<1> DEFINE k == [fn |-> f, todo |-> D]
<1>1. k \in Frame /\ k.fn = f /\ k.todo = D
  <2>1. D \in SUBSET Callable
      BY DEF Calls
  <2> QED BY <2>1 DEF Frame
<1>2. DOMAIN S = 1..Len(S) /\ Len(S) \in Nat /\ S \in Seq(Frame)
    BY FrameFields DEF Frames
<1> HIDE DEF k
<1>3. T \in Seq(Frame) /\ DOMAIN T = 1..(Len(S) + 1) /\ T[Len(S) + 1] = k /\ \A i \in 1..Len(S) : T[i] = S[i]
  <2> HIDE DEF Frame
  <2>1. T = Append(S, k)
      BY DEF k, Pushed
  <2> QED BY <1>1, <1>2, <2>1
<1>4. DOMAIN T = DOMAIN S \union {Len(S) + 1} /\ Len(S) + 1 \notin DOMAIN S
    BY <1>2, <1>3
<1> DEFINE n == Len(S) + 1
<1>5. DOMAIN T = DOMAIN S \union {n} /\ n \notin DOMAIN S /\ T[n] = k /\ \A i \in DOMAIN S : T[i] = S[i]
    BY <1>2, <1>3, <1>4
<1> HIDE DEF n
<1>6. \A i \in DOMAIN S : S[i].fn # f
    BY DEF Frames
<1>7. Frames(T, A \union {f})
    BY <1>1, <1>3, <1>5, <1>6 DEF Frames
<1>8. \A x, h : Due(T, x, h) <=> Due(S, x, h) \/ (x = f /\ Calls(f, h))
    BY <1>1, <1>5 DEF Due
<1> QED BY <1>7, <1>8

-----------------------------------------------------------------------------
(* The invariant of the engine. *)

\* The callables whose call of g has been counted.
Counted(S, A, g) == {f \in A : Calls(f, g) /\ ~Due(S, f, g)}

\* Every call of an analysed callable is still due, or its callee is analysed, or about to
\* be (in G), and knows what it is passed.  No call is counted twice, so that the limit
\* is never reached where the callers are few.
EngineOK(root, S, A, c, e, G) ==
    /\ Frames(S, A) /\ A \in SUBSET Callable /\ root \in A \union G
    /\ c \in [Callable -> Nat] /\ \A g \in Callable : c[g] <= Cardinality(Counted(S, A, g))
    /\ Supported => /\ EnvOK(e)
                    /\ \A f \in A : \A g : Calls(f, g) =>
                          Due(S, f, g) \/ (g \in A \union G /\ Carried(e, f, g))

GammaOK(s, root, G) ==
    /\ s = [stack |-> s.stack, analysed |-> s.analysed, count |-> s.count, env |-> s.env, done |-> s.done]
    /\ EngineOK(root, s.stack, s.analysed, s.count, s.env, G)

LEMMA CallablesAreFinite == IsFiniteSet(Callable)
BY MethodsAndClasses, SymIsFinite, FS_Subset

LEMMA EngineVisits ==
    ASSUME NEW root, Given(root), NEW f \in Callable,
           NEW S, NEW A, NEW c, NEW e, EngineOK(root, S, A, c, e, {f}), f \notin A
    PROVE  EngineOK(root, Append(S, [fn |-> f, todo |-> DirectCallees(code, f)]), A \union {f}, c,
                    Join(e, Seeds(f)), {})
<1> DEFINE D == DirectCallees(code, f)
           T == Append(S, [fn |-> f, todo |-> D])
           B == A \union {f}
           J == Join(e, Seeds(f))
<1>1. \A h : h \in D <=> Calls(f, h)
    BY RowsOfProgram
<1>2. /\ Frames(S, A) /\ A \in SUBSET Callable /\ root \in B
      /\ c \in [Callable -> Nat] /\ \A g \in Callable : c[g] <= Cardinality(Counted(S, A, g))
      /\ Supported => /\ EnvOK(e)
                      /\ \A x \in A : \A g : Calls(x, g) => Due(S, x, g) \/ (g \in B /\ Carried(e, x, g))
    BY Zenon DEF EngineOK
<1>3. /\ Frames(T, B)
      /\ \A x, h : Due(T, x, h) <=> Due(S, x, h) \/ (x = f /\ Calls(f, h))
  <2>1. Pushed(T, S, f, D)
      BY DEF Pushed
  <2> HIDE DEF D, T, J, B
  <2>2. Frames(T, A \union {f}) /\ \A x, h : Due(T, x, h) <=> Due(S, x, h) \/ (x = f /\ Calls(f, h))
      BY <1>1, <1>2, <2>1, FramePushed
  <2> QED BY <2>2 DEF B
<1>4. ASSUME NEW g \in Callable PROVE Counted(T, B, g) = Counted(S, A, g)
  <2>1. \A x, h : x \in B /\ ~Due(T, x, h) /\ Calls(x, h) => x \in A /\ ~Due(S, x, h)
      BY <1>3
  <2>2. \A x, h : x \in A /\ ~Due(S, x, h) => x \in B /\ (~Due(T, x, h))
      BY <1>3
  <2> HIDE DEF T, B
  <2> QED BY <2>1, <2>2 DEF Counted
<1>5. ASSUME Supported PROVE EnvOK(J)
  <2>1. \A b \in Seeds(f) : \E g \in Callable : \E k : b[1] = <<g, k>> /\ Bears(g, k, b[2])
      BY <1>5, SeedsBear
  <2> QED BY <1>2, <1>5, <2>1, JoinKeepsEnv
<1>6. ASSUME Supported, NEW x \in B, NEW g, Calls(x, g)
      PROVE  Due(T, x, g) \/ (g \in B /\ Carried(J, x, g))
  <2>1. CASE x = f
      BY <1>3, <1>6, <2>1
  <2>2. CASE x \in A /\ ~Due(S, x, g)
    <3>1. g \in B /\ Carried(e, x, g)
        BY <1>2, <1>6, <2>2
    <3> QED BY <3>1, JoinCarries
  <2> QED BY <1>3, <1>6, <2>1, <2>2
<1> HIDE DEF T, J, D
<1>7. B \in SUBSET Callable
    BY <1>2
<1> HIDE DEF B
<1>8. EngineOK(root, T, B, c, J, {})
    BY <1>2, <1>3, <1>4, <1>5, <1>6, <1>7 DEF EngineOK
<1> QED BY <1>8 DEF T, B, J, D

LEMMA EngineBinds ==
    ASSUME NEW root, Given(root), NEW S, NEW A, NEW c, NEW e, EngineOK(root, S, A, c, e, {}),
           S # << >>, NEW n, n = Len(S), NEW f, f = S[n].fn, NEW g, g \in S[n].todo,
           NEW T, Lessened(T, S, n, g)
    PROVE  /\ f \in Callable /\ g \in Callable
           /\ c[g] >= KLimit => EngineOK(root, T, A, c, e, {})
           /\ c[g] < KLimit =>
                 EngineOK(root, T, A, [c EXCEPT ![g] = @ + 1], Join(e, Bindings(e, f, g)), {g})
<1>1. /\ Frames(S, A) /\ A \in SUBSET Callable /\ root \in A
      /\ c \in [Callable -> Nat] /\ \A h \in Callable : c[h] <= Cardinality(Counted(S, A, h))
      /\ Supported => /\ EnvOK(e)
                      /\ \A x \in A : \A h : Calls(x, h) => Due(S, x, h) \/ (h \in A /\ Carried(e, x, h))
    BY Zenon DEF EngineOK
<1>2. f \in A /\ Calls(f, g) /\ f \in Callable /\ g \in Callable
  <2>1. n \in DOMAIN S
      BY <1>1, FrameFields DEF Frames
  <2> QED BY <1>1, <2>1 DEF Frames, Calls
<1>3. /\ Frames(T, A) /\ Due(S, f, g) /\ ~Due(T, f, g)
      /\ \A x, h : Due(S, x, h) => Due(T, x, h) \/ (x = f /\ h = g)
      /\ \A x, h : Due(T, x, h) => Due(S, x, h)
    BY <1>1, FrameLess
<1>4. \A h \in Callable : /\ Counted(S, A, h) \subseteq Counted(T, A, h)
                          /\ IsFiniteSet(Counted(T, A, h)) /\ Counted(T, A, h) \subseteq Callable
                          /\ IsFiniteSet(Counted(S, A, h))
                          /\ Cardinality(Counted(T, A, h)) \in Nat /\ Cardinality(Counted(S, A, h)) \in Nat
                          /\ Cardinality(Counted(S, A, h)) <= Cardinality(Counted(T, A, h))
  <2> TAKE h \in Callable
  <2>1. Counted(S, A, h) \subseteq Counted(T, A, h)
      BY <1>3 DEF Counted
  <2>2. Counted(T, A, h) \subseteq Callable
      BY <1>1 DEF Counted
  <2>3. IsFiniteSet(Counted(T, A, h))
      BY <2>2, CallablesAreFinite, FS_Subset
  <2>4. IsFiniteSet(Counted(S, A, h)) /\ Cardinality(Counted(S, A, h)) <= Cardinality(Counted(T, A, h))
      BY <2>1, <2>3, FS_Subset
  <2> QED BY <2>1, <2>2, <2>3, <2>4, FS_CardinalityType
<1>5. Cardinality(Counted(T, A, g)) = Cardinality(Counted(S, A, g)) + 1
  <2>1. f \notin Counted(S, A, g) /\ Counted(T, A, g) = Counted(S, A, g) \union {f}
      BY <1>2, <1>3 DEF Counted
  <2> DEFINE X == Counted(S, A, g)
  <2> HIDE DEF X
  <2>2. IsFiniteSet(X) /\ f \notin X /\ Counted(T, A, g) = X \union {f}
      BY <1>2, <1>4, <2>1 DEF X
  <2>3. Cardinality(X \union {f}) = Cardinality(X) + 1
      BY <2>2, FS_AddElement
  <2> QED BY <2>2, <2>3 DEF X
<1>6. Supported => c[g] < KLimit
  <2> SUFFICES ASSUME Supported PROVE c[g] < KLimit
      OBVIOUS
  <2>1. \A x : x \in CallersOf(g) <=> Calls(x, g)
      BY RowsOfProgram
  <2>2. Counted(T, A, g) \subseteq CallersOf(g) /\ CallersOf(g) \subseteq Callable
      BY <2>1 DEF Counted, Calls
  <2>3. IsFiniteSet(CallersOf(g))
      BY <2>2, CallablesAreFinite, FS_Subset
  <2>4. Cardinality(Counted(T, A, g)) <= Cardinality(CallersOf(g)) /\ Cardinality(CallersOf(g)) \in Nat
      BY <2>2, <2>3, FS_Subset, FS_CardinalityType
  <2>5. Cardinality(CallersOf(g)) <= KLimit /\ KLimit \in Nat
      BY <1>2, ProgramIsOfSymbols DEF Supported, FewCallers
  <2> DEFINE t == Cardinality(Counted(T, A, g))
             s == Cardinality(Counted(S, A, g))
             r == Cardinality(CallersOf(g))
  <2>6. t \in Nat /\ s \in Nat /\ r \in Nat /\ t = s + 1 /\ t <= r /\ r <= KLimit /\ KLimit \in Nat
        /\ c[g] \in Nat /\ c[g] <= s
      BY <1>1, <1>2, <1>4, <1>5, <2>4, <2>5
  <2> DEFINE q == c[g]
  <2> HIDE DEF t, s, r, q
  <2>7. q < KLimit
      BY ONLY <2>6 DEF q
  <2> QED BY <2>7 DEF q
<1>7. ASSUME c[g] >= KLimit PROVE EngineOK(root, T, A, c, e, {})
  <2>1. ~Supported
    <3>1. c[g] \in Nat /\ KLimit \in Nat
        BY <1>1, <1>2, ProgramIsOfSymbols
    <3> QED BY <1>6, <1>7, <3>1
  <2>2. \A h \in Callable : c[h] <= Cardinality(Counted(T, A, h))
    <3> TAKE h \in Callable
    <3> DEFINE t == Cardinality(Counted(T, A, h))
               s == Cardinality(Counted(S, A, h))
               q == c[h]
    <3>1. t \in Nat /\ s \in Nat /\ q \in Nat /\ q <= s /\ s <= t
        BY <1>1, <1>4
    <3> HIDE DEF t, s, q
    <3>2. q <= t
        BY ONLY <3>1
    <3> QED BY <3>2 DEF q, t
  <2> QED BY <1>1, <1>3, <2>1, <2>2 DEF EngineOK
<1>8. EngineOK(root, T, A, [c EXCEPT ![g] = @ + 1], Join(e, Bindings(e, f, g)), {g})
  <2> DEFINE J == Join(e, Bindings(e, f, g))
             d == [c EXCEPT ![g] = @ + 1]
  <2>1. d \in [Callable -> Nat] /\ \A h \in Callable : d[h] <= Cardinality(Counted(T, A, h))
    <3>1. d \in [Callable -> Nat]
        BY <1>1, <1>2
    <3>2. ASSUME NEW h \in Callable PROVE d[h] <= Cardinality(Counted(T, A, h))
      <4> DEFINE t == Cardinality(Counted(T, A, h))
                 s == Cardinality(Counted(S, A, h))
                 q == c[h]
      <4>1. t \in Nat /\ s \in Nat /\ q \in Nat /\ q <= s /\ s <= t /\ (h = g => t = s + 1)
          BY <1>1, <1>4, <1>5
      <4>2. d[h] = IF h = g THEN q + 1 ELSE q
          BY <1>1
      <4> HIDE DEF t, s, q, d
      <4>3. d[h] <= t
          BY ONLY <4>1, <4>2
      <4> QED BY <4>3 DEF t
    <3> QED BY <3>1, <3>2
  <2>2. ASSUME Supported PROVE EnvOK(J)
    <3>1. \A b \in Bindings(e, f, g) : \E h \in Callable : \E k : b[1] = <<h, k>> /\ Bears(h, k, b[2])
        BY <1>1, <1>2, <2>2, BindingsBear
    <3> QED BY <1>1, <2>2, <3>1, JoinKeepsEnv
  <2>3. ASSUME Supported, NEW x \in A, NEW h, Calls(x, h)
        PROVE  Due(T, x, h) \/ (h \in A \union {g} /\ Carried(J, x, h))
    <3>1. CASE x = f /\ h = g
        BY <1>1, <1>2, <2>3, <3>1, BoundIsCarried
    <3>2. CASE ~(x = f /\ h = g) /\ ~Due(T, x, h)
      <4>1. h \in A /\ Carried(e, x, h)
          BY <1>1, <1>3, <2>3, <3>2
      <4> QED BY <4>1, JoinCarries
    <3> QED BY <3>1, <3>2
  <2> HIDE DEF J, d
  <2>4. EngineOK(root, T, A, d, J, {g})
      BY <1>1, <1>3, <2>1, <2>2, <2>3 DEF EngineOK
  <2> QED BY <2>4 DEF J, d
<1> QED BY <1>2, <1>7, <1>8

LEMMA EnginePops ==
    ASSUME NEW root, NEW S, NEW A, NEW c, NEW e, EngineOK(root, S, A, c, e, {}),
           S # << >>, S[Len(S)].todo = {}
    PROVE  EngineOK(root, SubSeq(S, 1, Len(S) - 1), A, c, e, {})
<1> DEFINE T == SubSeq(S, 1, Len(S) - 1)
<1>1. /\ Frames(S, A) /\ A \in SUBSET Callable /\ root \in A \union {}
      /\ c \in [Callable -> Nat] /\ \A h \in Callable : c[h] <= Cardinality(Counted(S, A, h))
      /\ Supported => /\ EnvOK(e)
                      /\ \A x \in A : \A h : Calls(x, h) => Due(S, x, h) \/ (h \in A \union {} /\ Carried(e, x, h))
    BY Zenon DEF EngineOK
<1>2. Frames(T, A) /\ \A f, h : Due(S, f, h) <=> Due(T, f, h)
    BY <1>1, FramePopped
<1> HIDE DEF T
<1>3. \A h : Counted(T, A, h) = Counted(S, A, h)
    BY <1>2 DEF Counted
<1>4. EngineOK(root, T, A, c, e, {})
    BY <1>1, <1>2, <1>3, Zenon DEF EngineOK
<1> QED BY <1>4 DEF T

-----------------------------------------------------------------------------
(* Steps of the engine. *)

\* The program and its graph stay, and so does what is said of them.
SameProgram == program' = program /\ code' = code /\ closed' = closed /\ tour'.root = tour.root

LEMMA ProgramFixed ==
    ASSUME SameProgram
    PROVE  /\ \A root : Given(root)' <=> Given(root)
           /\ Supported' <=> Supported
           /\ \A s, root, G : GammaOK(s, root, G)' <=> GammaOK(s, root, G)
<1>1. program' = program /\ code' = code /\ closed' = closed /\ tour'.root = tour.root
    BY DEF SameProgram
<1>2. /\ \A f, g : Sites(f, g)' = Sites(f, g)
      /\ \A f, g : Calls(f, g)' <=> Calls(f, g)
      /\ \A c : Declares(c)' <=> Declares(c)
      /\ \A c : FinalOverrider(c)' = FinalOverrider(c)
    BY <1>1 DEF Sites, Calls, Declares, FinalOverrider
<1>3. Objects' = Objects
    BY <1>1, <1>2 DEF Objects
<1>4. \A root : Compiles(root)' <=> Compiles(root)
  <2>1. \A T : Typed(T)' <=> Typed(T)
      BY <1>2, <1>3 DEF Typed
  <2> QED BY <1>1, <2>1 DEF Compiles
<1>5. GraphOf(program)' = GraphOf(program)
    BY <1>1, <1>2 DEF GraphOf, NearestDeclarer
<1>6. \A root : Given(root)' <=> Given(root)
    BY <1>1, <1>4, <1>5 DEF Given
<1>7. \A g : CallersOf(g)' = CallersOf(g)
    BY <1>1 DEF CallersOf
<1>8. Supported' <=> Supported
  <2>1. FewCallers' <=> FewCallers
      BY <1>7 DEF FewCallers
  <2>2. OneSite' <=> OneSite
      BY <1>1 DEF OneSite
  <2>3. NoRefHandedOn' <=> NoRefHandedOn
      BY <1>2 DEF NoRefHandedOn, Handed
  <2>4. NoTypeKeyHit' <=> NoTypeKeyHit
      BY <1>2 DEF NoTypeKeyHit
  <2>5. LeafMethods' <=> LeafMethods
      BY <1>1 DEF LeafMethods
  <2>6. RootNotCalled' <=> RootNotCalled
      BY <1>1 DEF RootNotCalled, CallersOf
  <2> QED BY <2>1, <2>2, <2>3, <2>4, <2>5, <2>6 DEF Supported
<1>9. \A g, k, v : Bears(g, k, v)' <=> Bears(g, k, v)
    BY <1>2 DEF Bears
<1>10. \A env : EnvOK(env)' <=> EnvOK(env)
    BY <1>9 DEF EnvOK
<1>11. \A env, f, g : Carried(env, f, g)' <=> Carried(env, f, g)
    BY <1>2 DEF Carried
<1>12. \A S, A : Frames(S, A)' <=> Frames(S, A)
    BY <1>2 DEF Frames
<1>13. \A S, A, g : Counted(S, A, g)' = Counted(S, A, g)
    BY <1>2 DEF Counted
<1>14. \A root, S, A, c, e, G : EngineOK(root, S, A, c, e, G)' <=> EngineOK(root, S, A, c, e, G)
    BY <1>2, <1>8, <1>10, <1>11, <1>12, <1>13 DEF EngineOK
<1>15. \A s, root, G : GammaOK(s, root, G)' <=> GammaOK(s, root, G)
    BY <1>14 DEF GammaOK
<1> QED BY <1>6, <1>8, <1>15

\* _visit, of a callable that is about to be analysed.
LEMMA VisitKeeps ==
    ASSUME NEW root, Given(root), NEW f \in Callable, NEW s, GammaOK(s, root, {f})
    PROVE  GammaOK(Visited(s, f), root, {}) /\ Visited(s, f).done = s.done
<1> DEFINE S == s.stack
           A == s.analysed
           c == s.count
           e == s.env
           d == s.done
<1>1. s = [stack |-> S, analysed |-> A, count |-> c, env |-> e, done |-> d] /\ EngineOK(root, S, A, c, e, {f})
    BY DEF GammaOK
<1>2. CASE f \in A
  <2>1. Visited(s, f) = s
      BY <1>2 DEF Visited
  <2>2. EngineOK(root, S, A, c, e, {})
    <3>1. A \union {f} = A /\ A \union {} = A
        BY <1>2
    <3> HIDE DEF S, A, c, e
    <3> QED BY <1>1, <3>1 DEF EngineOK
  <2> QED BY <1>1, <2>1, <2>2 DEF GammaOK
<1>3. CASE f \notin A
  <2> DEFINE k == [fn |-> f, todo |-> DirectCallees(code, f)]
             T == Append(S, k)
             B == A \union {f}
             J == Join(e, Seeds(f))
  <2>1. EngineOK(root, T, B, c, J, {})
    <3> HIDE DEF S, A, c, e, d
    <3> QED BY <1>1, <1>3, EngineVisits
  <2>2. Visited(s, f) = [s EXCEPT !.analysed = A \union {f}, !.env = J, !.stack = T]
    <3> HIDE DEF J, k
    <3> QED BY <1>3 DEF Visited, J, k
  <2>3. Visited(s, f) = [stack |-> T, analysed |-> B, count |-> c, env |-> J, done |-> d]
    <3> HIDE DEF T, J, c, e, d, S, A
    <3> QED BY <1>1, <2>2
  <2> HIDE DEF T, J, B, c, e, d, S, A
  <2> QED BY <2>1, <2>3 DEF GammaOK, d
<1> QED BY <1>2, <1>3

LEMMA EngineStarts ==
    ASSUME NEW root, Given(root)
    PROVE  GammaOK(Engine(root), root, {}) /\ Engine(root).done = FALSE
<1> DEFINE c == [f \in Callable |-> 0]
           s == [stack |-> << >>, analysed |-> {}, count |-> c, env |-> << >>, done |-> FALSE]
<1>1. root \in Callable
    BY DEF Given, Compiles, Callable
<1>2. Frames(<< >>, {})
    BY DEF Frames
<1>3. c \in [Callable -> Nat] /\ \A g \in Callable : c[g] <= Cardinality(Counted(<< >>, {}, g))
  <2>1. \A g : Counted(<< >>, {}, g) = {}
      BY DEF Counted
  <2> QED BY <2>1, FS_EmptySet
<1>4. EnvOK(<< >>)
    BY DEF EnvOK
<1> HIDE DEF c
<1>5. EngineOK(root, << >>, {}, c, << >>, {root})
    BY <1>2, <1>3, <1>4 DEF EngineOK
<1>6. GammaOK(s, root, {root}) /\ s.done = FALSE
    BY <1>5 DEF GammaOK
<1>7. Engine(root) = Visited(s, root)
    BY DEF Engine, c
<1> HIDE DEF s
<1> QED BY <1>1, <1>6, <1>7, VisitKeeps

LEMMA BindStep ==
    ASSUME NEW root, Given(root), GammaOK(gamma, root, {}), Bind, SameProgram
    PROVE  GammaOK(gamma, root, {})' /\ gamma'.done = FALSE
<1> DEFINE S == gamma.stack
           A == gamma.analysed
           c == gamma.count
           e == gamma.env
           d == gamma.done
           n == Len(S)
           f == S[n].fn
<1>1. gamma = [stack |-> S, analysed |-> A, count |-> c, env |-> e, done |-> d] /\ EngineOK(root, S, A, c, e, {})
    BY DEF GammaOK
<1>2. PICK g \in S[n].todo :
        gamma' = IF c[g] >= KLimit THEN Less(g) ELSE Visited(Bound(Less(g), f, g), g)
    BY DEF Bind, GTop
<1>3. S # << >> /\ d = FALSE
  <2>1. ~d /\ S # << >>
      BY DEF Bind
  <2> QED BY <2>1
<1> DEFINE T == [S EXCEPT ![n] = [fn |-> f, todo |-> S[n].todo \ {g}]]
           l == [stack |-> T, analysed |-> A, count |-> c, env |-> e, done |-> d]
<1>4. Less(g) = l
  <2>1. Less(g) = [gamma EXCEPT !.stack = [S EXCEPT ![n] = [S[n] EXCEPT !.todo = @ \ {g}]]]
      BY DEF Less
  <2>2. [S[n] EXCEPT !.todo = @ \ {g}] = [fn |-> f, todo |-> S[n].todo \ {g}]
    <3>1. S[n] = [fn |-> f, todo |-> S[n].todo]
        BY <1>1, <1>3, FrameFields DEF EngineOK, Frames
    <3> QED BY <3>1
  <2>3. Less(g) = [gamma EXCEPT !.stack = T]
      BY <2>1, <2>2
  <2> HIDE DEF T, S, A, c, e, d
  <2> QED BY <1>1, <2>3
<1>5. /\ f \in Callable /\ g \in Callable
      /\ c[g] >= KLimit => EngineOK(root, T, A, c, e, {})
      /\ c[g] < KLimit => EngineOK(root, T, A, [c EXCEPT ![g] = @ + 1], Join(e, Bindings(e, f, g)), {g})
  <2>1. Lessened(T, S, n, g)
      BY DEF Lessened
  <2> HIDE DEF T, S, A, c, e, d
  <2> QED BY <1>1, <1>3, <2>1, EngineBinds
<1>6. c[g] \in Nat /\ KLimit \in Nat
    BY <1>1, <1>5, ProgramIsOfSymbols DEF EngineOK
<1> HIDE DEF T, S, A, c, e, d, n, f
<1>7. CASE c[g] >= KLimit
  <2>1. gamma' = l /\ GammaOK(l, root, {}) /\ l.done = FALSE
      BY <1>2, <1>3, <1>4, <1>5, <1>7 DEF GammaOK
  <2> HIDE DEF l
  <2> QED BY <2>1, ProgramFixed
<1>8. CASE ~(c[g] >= KLimit)
  <2> DEFINE D == [c EXCEPT ![g] = @ + 1]
             J == Join(e, Bindings(e, f, g))
             b == Bound(l, f, g)
  <2>1. EngineOK(root, T, A, D, J, {g})
      BY <1>5, <1>6, <1>8
  <2>2. b = [stack |-> T, analysed |-> A, count |-> D, env |-> J, done |-> d]
    <3>1. b = [l EXCEPT !.env = J, !.count = D]
        BY DEF Bound
    <3> HIDE DEF D, J, b
    <3> QED BY <3>1
  <2>3. gamma' = Visited(b, g)
      BY <1>2, <1>4, <1>8
  <2> HIDE DEF D, J, b, l
  <2>4. GammaOK(b, root, {g}) /\ b.done = FALSE
      BY <1>3, <2>1, <2>2 DEF GammaOK
  <2>5. GammaOK(Visited(b, g), root, {}) /\ Visited(b, g).done = FALSE
      BY <1>5, <2>4, VisitKeeps
  <2> QED BY <2>3, <2>5, ProgramFixed
<1> QED BY <1>7, <1>8

LEMMA ReturnStep ==
    ASSUME NEW root, GammaOK(gamma, root, {}), Return, SameProgram
    PROVE  GammaOK(gamma, root, {})' /\ gamma'.done = FALSE
<1> DEFINE S == gamma.stack
           A == gamma.analysed
           c == gamma.count
           e == gamma.env
           d == gamma.done
           T == SubSeq(S, 1, Len(S) - 1)
           l == [stack |-> T, analysed |-> A, count |-> c, env |-> e, done |-> d]
<1>1. gamma = [stack |-> S, analysed |-> A, count |-> c, env |-> e, done |-> d] /\ EngineOK(root, S, A, c, e, {})
    BY DEF GammaOK
<1>2. S # << >> /\ ~d /\ S[Len(S)].todo = {} /\ gamma' = [gamma EXCEPT !.stack = T]
    BY DEF Return, GTop
<1> HIDE DEF S, A, c, e, d
<1>3. EngineOK(root, T, A, c, e, {})
    BY <1>1, <1>2, EnginePops
<1> HIDE DEF T
<1>4. gamma' = l
    BY <1>1, <1>2
<1>5. GammaOK(l, root, {}) /\ l.done = FALSE
    BY <1>2, <1>3 DEF GammaOK
<1> HIDE DEF l
<1> QED BY <1>4, <1>5, ProgramFixed

-----------------------------------------------------------------------------
(* The engine, and then the walk. *)

Decisions ==
    [x \in {y \in Callable \X Callable : y[2] \in DirectCallees(code, y[1]) /\ IsVirtual(code, y[2])} |->
        Decide(gamma.env, x[1], x[2])]

DevirtInv(root) ==
    /\ Given(root) /\ GammaOK(gamma, root, {}) /\ gamma.done \in BOOLEAN
    /\ tour.root = root /\ tour.mode = "prune" /\ tour.limit = Unbounded
    /\ ~gamma.done => tour = StartTour("prune", root, Unbounded)
    /\ gamma.done => gamma.stack = << >> /\ TourInv /\ kept = Decisions

\* A decision keeps everything, or some of the targets.
LEMMA DecidesOnTargets ==
    ASSUME GraphOK(code), NEW env, NEW f, NEW m \in Sym
    PROVE  Decide(env, f, m) = KeepAll \/ Decide(env, f, m) \in SUBSET Sym
<1> DEFINE types == ReceiverTypes(env, f, m)
           picks == {c.target : c \in {x \in DispatchSelection(code, m, TRUE).candidates : x.type \in types}}
           sel == DispatchSelection(code, m, FALSE).prunable
<1>1. Decide(env, f, m) = IF ~sel \/ types = TOP \/ picks = {} THEN KeepAll ELSE picks
    BY DEF Decide
<1>2. picks \in SUBSET Sym
  <2> DEFINE all == OwnCandidates(code, m) \union InheritedCandidates(code, m)
             D == DispatchTargets(code, m)
             owned == {code.owner[t] : t \in D} \ {NoSym}
             heirs == IF code.owner[m] = NoSym THEN {} ELSE AllSubclasses(code, code.owner[m]) \ owned
             picked(c) == {Candidate(c, t, TRUE) : t \in {x \in D : code.owner[x] \in NearestOwned(code, c, owned)}}
  <2>1. DispatchSelection(code, m, TRUE).candidates \subseteq all
      BY DEF DispatchSelection
  <2>2. \A c, y, b : Candidate(c, y, b).target = y
      BY DEF Candidate
  <2>3. ASSUME NEW x \in OwnCandidates(code, m) PROVE x.target \in D
    <3>1. PICK t \in D : x = Candidate(code.owner[t], t, FALSE)
        BY DEF OwnCandidates
    <3> QED BY <2>2, <3>1
  <2>4. ASSUME NEW x \in InheritedCandidates(code, m) PROVE x.target \in D
    <3>1. InheritedCandidates(code, m) = UNION {picked(c) : c \in heirs}
        BY Zenon DEF InheritedCandidates
    <3> HIDE DEF heirs
    <3>2. PICK c \in heirs : x \in picked(c)
      <4> HIDE DEF picked
      <4> QED BY <3>1
    <3>3. PICK t \in D : x = Candidate(c, t, TRUE)
      <4> HIDE DEF owned
      <4> QED BY <3>2
    <3> QED BY <2>2, <3>3
  <2> HIDE DEF types
  <2>5. picks \subseteq D
    <3> HIDE DEF D
    <3> QED BY <2>1, <2>3, <2>4
  <2> QED BY <2>5, TargetsAreSymbols
<1> HIDE DEF types, picks, sel
<1> QED BY <1>1, <1>2

LEMMA DecisionsFixed ==
    ASSUME SameProgram
    PROVE  \A env, f, m : Decide(env, f, m)' = Decide(env, f, m)
<1>1. program' = program /\ code' = code /\ closed' = closed
    BY DEF SameProgram
<1>2. \A env, f : ClosedWorld(env, f)' = ClosedWorld(env, f)
    BY <1>1 DEF ClosedWorld, CallersOf, FirstArg
<1>3. \A env, f, m : ReceiverTypes(env, f, m)' = ReceiverTypes(env, f, m)
    BY <1>1, <1>2 DEF ReceiverTypes
<1> QED BY <1>1, <1>3 DEF Decide

LEMMA GivenIsOfSymbols ==
    ASSUME NEW root, Given(root)
    PROVE  GraphOK(code) /\ [mode |-> "prune", root |-> root, limit |-> Unbounded] \in Request
<1>1. root \in Sym
    BY MethodsAndClasses DEF Given, Compiles, Callable
<1>2. Cardinality(Sym) \in Nat
    BY SymIsFinite, FS_CardinalityType
<1> QED BY <1>1, <1>2, RowsOfProgram DEF Request, Modes, Unbounded

\* Ready, and the step of the walk that follows it.
LEMMA ReadyStep ==
    ASSUME NEW root, DevirtInv(root), Ready, SameProgram, tour' = tour
    PROVE  /\ GammaOK(gamma, root, {})' /\ gamma'.done = TRUE /\ gamma'.stack = << >>
           /\ kept' = Decisions' /\ Decided' /\ tour = StartTour("prune", root, Unbounded)
<1>1. /\ ~gamma.done /\ gamma.stack = << >> /\ gamma' = [gamma EXCEPT !.done = TRUE]
      /\ kept' = [x \in {y \in Callable \X Callable :
                           y[2] \in DirectCallees(code, y[1]) /\ IsVirtual(code, y[2])} |->
                    Decide(gamma.env, x[1], x[2])]
    BY DEF Ready
<1>2. Given(root) /\ GammaOK(gamma, root, {})
    BY DEF DevirtInv
<1>3. tour = StartTour("prune", root, Unbounded)
    BY <1>1 DEF DevirtInv
<1>4. gamma' = [stack |-> gamma.stack, analysed |-> gamma.analysed, count |-> gamma.count,
                env |-> gamma.env, done |-> TRUE]
  <2> DEFINE S == gamma.stack
             A == gamma.analysed
             c == gamma.count
             e == gamma.env
             d == gamma.done
  <2>1. gamma = [stack |-> S, analysed |-> A, count |-> c, env |-> e, done |-> d]
      BY <1>2 DEF GammaOK
  <2> HIDE DEF S, A, c, e, d
  <2>2. gamma' = [stack |-> S, analysed |-> A, count |-> c, env |-> e, done |-> TRUE]
      BY <1>1, <2>1
  <2> QED BY <2>2 DEF S, A, c, e
<1>5. GammaOK(gamma, root, {})'
  <2> DEFINE l == [stack |-> gamma.stack, analysed |-> gamma.analysed, count |-> gamma.count,
                   env |-> gamma.env, done |-> TRUE]
  <2>1. GammaOK(l, root, {})
      BY <1>2 DEF GammaOK
  <2>2. gamma' = l
      BY <1>4
  <2> HIDE DEF l
  <2> QED BY <2>1, <2>2, ProgramFixed
<1>6. gamma'.done = TRUE /\ gamma'.stack = << >> /\ gamma'.env = gamma.env
    BY <1>1, <1>4
<1>7. kept' = Decisions'
  <2>1. code' = code
      BY DEF SameProgram
  <2>2. Decisions' = [x \in {y \in Callable \X Callable :
                           y[2] \in DirectCallees(code', y[1]) /\ IsVirtual(code', y[2])} |->
                    Decide(gamma.env, x[1], x[2])']
      BY <1>6 DEF Decisions
  <2> QED BY <1>1, <2>1, <2>2, DecisionsFixed
<1>8. Decided'
  <2>1. code' = code
      BY DEF SameProgram
  <2>2. GraphOK(code)
      BY <1>2, RowsOfProgram
  <2>3. ASSUME NEW f, NEW c \in DirectCallees(code, f), IsVirtual(code, c)
        PROVE  kept'[f, c] = KeepAll \/ kept'[f, c] \in SUBSET Sym
    <3>1. f \in Callable /\ c \in Callable /\ c \in Sym
        BY <1>2, <2>3, RowsOfProgram, MethodsAndClasses DEF Calls
    <3>2. kept'[f, c] = Decide(gamma.env, f, c)
        BY <1>1, <2>3, <3>1
    <3> QED BY <2>2, <3>1, <3>2, DecidesOnTargets
  <2> QED BY <2>1, <2>3 DEF Decided
<1> QED BY <1>3, <1>5, <1>6, <1>7, <1>8

TourFrom(r) == r \in Request /\ tour = StartTour(r.mode, r.root, r.limit) /\ GraphOK(code) /\ Decided

LEMMA DevirtAlways ==
    ASSUME NEW root, NEW programs
    PROVE  DevirtInit(programs, root) /\ [][DevirtNext]_devirtVars => []DevirtInv(root)
<1> DEFINE r == [mode |-> "prune", root |-> root, limit |-> Unbounded]
<1>1. DevirtInit(programs, root) => DevirtInv(root)
  <2> SUFFICES ASSUME DevirtInit(programs, root) PROVE DevirtInv(root)
      OBVIOUS
  <2>1. Given(root) /\ gamma = Engine(root) /\ tour = StartTour("prune", root, Unbounded)
      BY DEF DevirtInit, Given
  <2>2. GammaOK(gamma, root, {}) /\ gamma.done = FALSE
      BY <2>1, EngineStarts
  <2>3. tour.root = root /\ tour.mode = "prune" /\ tour.limit = Unbounded
      BY <2>1 DEF StartTour
  <2> QED BY <2>1, <2>2, <2>3 DEF DevirtInv
<1>2. TourFrom(r) => TourInv
  <2> HIDE DEF r
  <2> QED BY TourOpens DEF TourFrom
<1>3. TourFrom(r)' => TourInv'
    BY <1>2, PTL
<1>4. DevirtInv(root) /\ (Bind \/ Return) /\ UNCHANGED <<tourVars, program, closed>> => DevirtInv(root)'
  <2> SUFFICES ASSUME DevirtInv(root), Bind \/ Return, UNCHANGED <<tourVars, program, closed>>
               PROVE  DevirtInv(root)'
      OBVIOUS
  <2>1. SameProgram /\ tour' = tour
      BY DEF SameProgram, tourVars
  <2>2. Given(root) /\ GammaOK(gamma, root, {})
      BY DEF DevirtInv
  <2>3. GammaOK(gamma, root, {})' /\ gamma'.done = FALSE
      BY <2>1, <2>2, BindStep, ReturnStep
  <2>4. Given(root)'
      BY <2>1, <2>2, ProgramFixed
  <2>5. ~gamma.done
      BY DEF Bind, Return
  <2> QED BY <2>1, <2>3, <2>4, <2>5 DEF DevirtInv
<1>5. DevirtInv(root) /\ Ready /\ UNCHANGED <<code, tour, program, closed>> => DevirtInv(root)'
  <2> SUFFICES ASSUME DevirtInv(root), Ready, UNCHANGED <<code, tour, program, closed>>
               PROVE  DevirtInv(root)'
      OBVIOUS
  <2>1. SameProgram /\ tour' = tour /\ code' = code
      BY DEF SameProgram
  <2>2. Given(root)
      BY DEF DevirtInv
  <2>3. /\ GammaOK(gamma, root, {})' /\ gamma'.done = TRUE /\ gamma'.stack = << >>
        /\ kept' = Decisions' /\ Decided' /\ tour = StartTour("prune", root, Unbounded)
      BY <2>1, ReadyStep
  <2>4. Given(root)' /\ GraphOK(code) /\ r \in Request
      BY <2>1, <2>2, ProgramFixed, GivenIsOfSymbols
  <2>5. TourInv'
    <3>1. r.mode = "prune" /\ r.root = root /\ r.limit = Unbounded
        OBVIOUS
    <3> HIDE DEF r
    <3>2. TourFrom(r)'
        BY <2>1, <2>3, <2>4, <3>1 DEF TourFrom, StartTour
    <3> QED BY <1>3, <3>2
  <2> QED BY <2>1, <2>3, <2>4, <2>5 DEF DevirtInv
<1>6. DevirtInv(root) /\ gamma.done /\ [TourNext]_tourVars /\ UNCHANGED <<program, closed, gamma>>
         => DevirtInv(root)'
  <2> SUFFICES ASSUME DevirtInv(root), gamma.done, [TourNext]_tourVars, UNCHANGED <<program, closed, gamma>>
               PROVE  DevirtInv(root)'
      OBVIOUS
  <2>1. TourInv /\ kept = Decisions /\ Given(root) /\ GammaOK(gamma, root, {}) /\ gamma.stack = << >>
      BY DEF DevirtInv
  <2>2. TourInv' /\ tour'.root = tour.root /\ tour'.mode = tour.mode /\ tour'.limit = tour.limit
      BY <2>1, TourKept, RequestStays
  <2>3. code' = code /\ kept' = kept
      BY DEF TourNext, tourVars
  <2>4. SameProgram /\ gamma' = gamma
      BY <2>2, <2>3 DEF SameProgram
  <2>5. Decisions' = Decisions
      BY <2>3, <2>4, DecisionsFixed DEF Decisions
  <2>6. Given(root)' /\ GammaOK(gamma, root, {})'
      BY <2>1, <2>4, ProgramFixed
  <2> QED BY <2>1, <2>2, <2>3, <2>4, <2>5, <2>6 DEF DevirtInv
<1>7. DevirtInv(root) /\ UNCHANGED devirtVars => DevirtInv(root)'
  <2> SUFFICES ASSUME DevirtInv(root), UNCHANGED devirtVars PROVE DevirtInv(root)'
      OBVIOUS
  <2>1. tour' = tour /\ code' = code /\ kept' = kept /\ gamma' = gamma /\ UNCHANGED <<program, closed>>
      BY DEF devirtVars, tourVars
  <2>2. SameProgram /\ UNCHANGED tourVars
      BY <2>1 DEF SameProgram, tourVars
  <2>3. CASE gamma.done
      BY <1>6, <2>1, <2>2, <2>3
  <2>4. CASE ~gamma.done
      BY <2>1, <2>2, <2>4, ProgramFixed DEF DevirtInv
  <2> QED BY <2>3, <2>4
<1>8. DevirtInv(root) /\ [DevirtNext]_devirtVars => DevirtInv(root)'
    BY <1>4, <1>5, <1>6, <1>7 DEF DevirtNext
<1> QED BY <1>1, <1>8, PTL

-----------------------------------------------------------------------------
(* What the program enters. *)

LEMMA EveryClassIsBase == \A c \in Class : IsA(c, Base)
<1> DEFINE S == {c \in Class : IsA(c, Base)}
<1>1. Base \in S
    BY ProgramIsOfSymbols, IsAOfBase
<1>2. \A c \in Class \ {Base} : Parent[c] \in S => c \in S
    BY IsAOfBase
<1>3. Class \subseteq S
  <2> HIDE DEF S
  <2> QED BY <1>1, <1>2, ClassInduction
<1> QED BY <1>3

\* The value of an expression is an object of its static class.
LEMMA ValuesAreTyped ==
    ASSUME NEW root, Given(root), NEW T, Typed(T), NEW f \in Function, NEW g \in Callable,
           NEW x, x \in Sites(f, g), NEW v, v \in Objects, IsA(v, T[f]), NEW w, w \in Values(x, v)
    PROVE  w \in Objects /\ IsA(w, x.type)
<1>1. /\ x.kind \in OwnObject => x.type = T[f]
      /\ x.kind \in ByValue => x.type \in Objects
    BY DEF Typed
<1>2. x.type \in Class
    BY SitesAreExpressions DEF Callable
<1>3. CASE x.kind \in ByValue
  <2>1. w = x.type
      BY <1>3 DEF Values, ByValue, OwnObject
  <2> QED BY <1>1, <1>2, <1>3, <2>1, IsAIsAnOrder
<1>4. CASE x.kind \in OwnObject
  <2>1. w = v
      BY <1>4 DEF Values, ByValue, OwnObject
  <2> QED BY <1>1, <1>4, <2>1
<1>5. CASE x.kind \notin ByValue \union OwnObject
  <2>1. Values(x, v) = {c \in Objects : IsA(c, x.type)}
      BY <1>5 DEF Values
  <2> QED BY <2>1
<1> QED BY <1>3, <1>4, <1>5

LEMMA FramesAreTyped ==
    ASSUME NEW root, Given(root), NEW f \in Callable, NEW v, v \in Class
    PROVE  FramesAfter(<<f, v>>) \subseteq Callable \X Class
<1> SUFFICES ASSUME NEW g \in Callable, NEW x \in Sites(f, g), NEW w, w \in Values(x, v)
             PROVE  <<IF IsMethod(g) THEN Method[FinalOverrider(w)] ELSE g, w>> \in Callable \X Class
  <2> DEFINE of(x, g) == {<<IF IsMethod(g) THEN Method[FinalOverrider(w)] ELSE g, w>> : w \in Values(x, v)}
  <2>1. FramesAfter(<<f, v>>) = UNION {UNION {of(x, g) : x \in Sites(f, g)} : g \in Callable}
      BY DEF FramesAfter
  <2> SUFFICES ASSUME NEW y \in FramesAfter(<<f, v>>) PROVE y \in Callable \X Class
      OBVIOUS
  <2> HIDE DEF of
  <2>2. PICK g \in Callable : y \in UNION {of(x, g) : x \in Sites(f, g)}
      BY <2>1
  <2>3. PICK x \in Sites(f, g) : y \in of(x, g)
      BY <2>2
  <2>4. PICK w \in Values(x, v) : y = <<IF IsMethod(g) THEN Method[FinalOverrider(w)] ELSE g, w>>
      BY <2>3 DEF of
  <2> QED BY <2>4
<1>1. x.type \in Class
    BY SitesAreExpressions
<1>2. w \in Class
  <2>1. CASE x.kind \in ByValue
      BY <1>1, <2>1 DEF Values, ByValue, OwnObject
  <2>2. CASE x.kind \in OwnObject
      BY <2>2 DEF Values, ByValue, OwnObject
  <2>3. CASE x.kind \notin ByValue \union OwnObject
      BY <2>3 DEF Values, Objects
  <2> QED BY <2>1, <2>2, <2>3
<1>3. Method[FinalOverrider(w)] \in Callable
    BY <1>2, OverriderIsNearest, MethodsAndClasses
<1> QED BY <1>2, <1>3

FollowedBy == [x \in Callable \X Class |-> FramesAfter(x)]

\* What can be entered are the callables of the least closed set of frames.
LEMMA EnteredFrames ==
    ASSUME NEW root, Given(root), tour.root = root
    PROVE  /\ FollowedBy \in [Callable \X Class -> SUBSET (Callable \X Class)]
           /\ {root} \X Objects \in SUBSET (Callable \X Class)
           /\ Entered = {x[1] : x \in Least(Callable \X Class, FollowedBy, {root} \X Objects)}
<1> DEFINE Z == Callable \X Class
           K == [x \in Z |-> FramesAfter(x)]
           grow[S \in SUBSET Z] ==
               LET more == S \union UNION {FramesAfter(x) : x \in S}
               IN  IF more = S THEN S ELSE grow[more]
           B == {root} \X Objects
<1>1. K \in [Z -> SUBSET Z]
  <2>1. ASSUME NEW x \in Z PROVE FramesAfter(x) \subseteq Z
    <3>1. PICK f \in Callable, v \in Class : x = <<f, v>>
        OBVIOUS
    <3> QED BY <3>1, FramesAreTyped
  <2> HIDE DEF Z
  <2> QED BY <2>1
<1>2. IsFiniteSet(Z)
    BY CallablesAreFinite, MethodsAndClasses, SymIsFinite, FS_Subset, FS_Product
<1>3. B \in SUBSET Z
  <2>1. root \in Callable
      BY DEF Given, Compiles, Callable
  <2> QED BY <2>1 DEF Objects
<1>4. Entered = {x[1] : x \in grow[B]}
    BY Zenon DEF Entered, grow
<1> HIDE DEF Z
<1>5. \A C \in SUBSET Z : C \union UNION {FramesAfter(x) : x \in C} = Grown(K, C)
    BY DEF Grown
<1>6. \A x \in Z : K[x] = FramesAfter(x)
    OBVIOUS
<1> HIDE DEF K, B
<1> DEFINE h == [C \in SUBSET Z |-> Least(Z, K, C)]
<1>7. h = [S \in SUBSET Z |->
             LET more == S \union UNION {FramesAfter(x) : x \in S}
             IN  IF more = S THEN S ELSE h[more]]
  <2>1. ASSUME NEW S \in SUBSET Z
        PROVE  h[S] = IF Grown(K, S) = S THEN S ELSE h[Grown(K, S)]
    <3>1. Grown(K, S) \in SUBSET Z
        BY <1>1, LeastOfGrown
    <3> QED BY <1>1, <3>1, LeastGrows
  <2>2. ASSUME NEW S \in SUBSET Z
        PROVE  h[S] = LET more == S \union UNION {FramesAfter(x) : x \in S}
                      IN  IF more = S THEN S ELSE h[more]
      BY <1>5, <2>1
  <2>3. h = [S \in SUBSET Z |-> h[S]]
      OBVIOUS
  <2> HIDE DEF h
  <2> QED BY <2>2, <2>3
<1>8. grow = [S \in SUBSET Z |->
                LET more == S \union UNION {FramesAfter(x) : x \in S}
                IN  IF more = S THEN S ELSE grow[more]]
    BY <1>7, Zenon DEF grow
<1> HIDE DEF grow, h
<1>9. \A C \in SUBSET Z : grow[C] = IF Grown(K, C) = C THEN C ELSE grow[Grown(K, C)]
    BY <1>5, <1>8
<1>10. grow[B] = Least(Z, K, B)
    BY <1>1, <1>2, <1>3, <1>9, GrowingIsLeast
<1> QED BY <1>1, <1>3, <1>4, <1>10 DEF B, Z, K, FollowedBy

\* Every closed set of frames holds them ...
LEMMA EnteredIsLeast ==
    ASSUME NEW root, Given(root), tour.root = root, NEW X \in SUBSET (Callable \X Class),
           {root} \X Objects \subseteq X, \A x \in X : FramesAfter(x) \subseteq X
    PROVE  Entered \subseteq {x[1] : x \in X}
<1> DEFINE Z == Callable \X Class
           K == [x \in Z |-> FramesAfter(x)]
           B == {root} \X Objects
<1>1. Entered = {x[1] : x \in Least(Z, K, B)}
    BY EnteredFrames DEF FollowedBy
<1>2. X \in SUBSET Z /\ B \subseteq X /\ \A x \in X : K[x] \subseteq X
    OBVIOUS
<1> HIDE DEF Z, K, B
<1>3. Least(Z, K, B) \subseteq X
    BY <1>2 DEF Least
<1> QED BY <1>1, <1>3

\* ... and that set is closed.
LEMMA EnteredIsClosed ==
    ASSUME NEW root, Given(root), tour.root = root
    PROVE  \E E \in SUBSET (Callable \X Class) :
              /\ Entered = {x[1] : x \in E} /\ {root} \X Objects \subseteq E
              /\ \A x \in E : FramesAfter(x) \subseteq E
<1> DEFINE Z == Callable \X Class
           K == [x \in Z |-> FramesAfter(x)]
           B == {root} \X Objects
           E == Least(Z, K, B)
<1>1. K \in [Z -> SUBSET Z] /\ B \in SUBSET Z /\ Entered = {x[1] : x \in E}
    BY EnteredFrames DEF FollowedBy
<1>2. \A x \in Z : K[x] = FramesAfter(x)
    OBVIOUS
<1> HIDE DEF Z, K, B
<1>3. E \in SUBSET Z /\ B \subseteq E /\ \A x \in E : K[x] \subseteq E
    BY <1>1 DEF Least
<1> HIDE DEF E
<1>4. \A x \in E : FramesAfter(x) \subseteq E
    BY <1>2, <1>3
<1> QED BY <1>1, <1>3, <1>4 DEF Z, B

LEMMA RootIsOwned ==
    ASSUME NEW root, Given(root), Supported, tour.root = root, NEW env, EnvOK(env), NEW v
    PROVE  Owned(env, root, v)
<1>1. CallersOf(root) = {}
    BY DEF Supported, RootNotCalled
<1>2. <<root, Pos0>> \notin DOMAIN env
  <2> SUFFICES ASSUME <<root, Pos0>> \in DOMAIN env PROVE FALSE
      OBVIOUS
  <2>1. Bears(root, Pos0, env[<<root, Pos0>>])
      BY EnvBears
  <2>2. \A f : ~Calls(f, root)
      BY <1>1, RowsOfProgram
  <2> DEFINE p == Pos0
  <2>3. /\ \A f \in Callable : \A t : p # <<f, t>>
        /\ \A t : p # <<t>>
        /\ p \notin Class
      BY KeysDiffer
  <2>4. Bears(root, p, env[<<root, p>>])
      BY <2>1
  <2> HIDE DEF p
  <2> QED BY <2>2, <2>3, <2>4 DEF Bears
<1> QED BY <1>1, <1>2 DEF Owned

\* When the walk has ended, every frame that a run can have is of a callable that was seen,
\* with an object that the engine accounts for.
LEMMA WalkCoversRuns ==
    ASSUME NEW root, DevirtInv(root), Pruned, Supported
    PROVE  Entered \subseteq tour.seen
<1> DEFINE A == gamma.analysed
           env == gamma.env
           seen == tour.seen
<1>1. Given(root) /\ tour.root = root /\ tour.mode = "prune"
    BY DEF DevirtInv
<1>2. gamma.done /\ gamma.stack = << >> /\ TourInv /\ kept = Decisions
  <2>1. tour.begun /\ tour.stack = << >>
      BY DEF Pruned, Exhausted, Running
  <2>2. StartTour("prune", root, Unbounded).begun = FALSE
      BY DEF StartTour
  <2> QED BY <2>1, <2>2 DEF DevirtInv
<1>3. root \in seen /\ \A s \in seen : AllKids(s) \subseteq seen
  <2>1. tour.begun /\ tour.stack = << >> /\ tour.limit = Unbounded
      BY DEF Pruned, Exhausted, Running, DevirtInv
  <2> QED BY <1>1, <1>2, <2>1 DEF TourInv, CoverOK, Served, SeenOK
<1>4. /\ root \in A /\ EnvOK(env)
      /\ \A f \in A : \A g : Calls(f, g) => g \in A /\ Carried(env, f, g)
  <2>1. EngineOK(root, << >>, A, gamma.count, env, {})
      BY <1>2 DEF DevirtInv, GammaOK
  <2>2. \A f, h : ~Due(<< >>, f, h)
      BY DEF Due
  <2> HIDE DEF A, env
  <2> QED BY <2>1, <2>2 DEF EngineOK
<1>5. PICK T \in [Function -> Class] : T[root] = Base /\ Typed(T)
    BY <1>1 DEF Given, Compiles
<1> HIDE DEF A, env, seen
<1> DEFINE Fits(f, v) == f \in Function => f \in A /\ IsA(v, T[f]) /\ Owned(env, f, v)
           X == {x \in Callable \X Class : x[1] \in seen /\ x[2] \in Objects /\ Fits(x[1], x[2])}
<1>6. {root} \X Objects \subseteq X
  <2> SUFFICES ASSUME NEW v, v \in Objects PROVE <<root, v>> \in X
      OBVIOUS
  <2>1. root \in Function /\ root \in Callable /\ v \in Class
      BY <1>1 DEF Given, Compiles, Callable, Objects
  <2>2. IsA(v, Base)
      BY <2>1, EveryClassIsBase
  <2>3. Owned(env, root, v)
      BY <1>1, <1>4, RootIsOwned
  <2> QED BY <1>3, <1>4, <1>5, <2>1, <2>2, <2>3
<1>7. ASSUME NEW f \in Callable, NEW v \in Class, <<f, v>> \in X, NEW g \in Callable, NEW x \in Sites(f, g),
             NEW w \in Values(x, v)
      PROVE  <<IF IsMethod(g) THEN Method[FinalOverrider(w)] ELSE g, w>> \in X
  <2>1. Calls(f, g) /\ f \in Function /\ x.type \in Class
      BY <1>1, SitesAreExpressions, HandedKinds
  <2>2. f \in seen /\ v \in Objects /\ f \in A /\ IsA(v, T[f]) /\ Owned(env, f, v)
      BY <1>7, <2>1
  <2>3. w \in Objects /\ IsA(w, x.type) /\ w \in Class
    <3>1. w \in Objects /\ IsA(w, x.type)
        BY <1>1, <1>5, <2>1, <2>2, ValuesAreTyped
    <3> QED BY <3>1 DEF Objects
  <2>4. g \in AllKids(f) /\ AllKids(f) \subseteq seen
    <3>1. g \in DirectCallees(code, f)
        BY <1>1, <2>1, RowsOfProgram
    <3> QED BY <1>1, <1>3, <2>2, <3>1 DEF AllKids
  <2>5. g \in A /\ Carried(env, f, g)
      BY <1>4, <2>1, <2>2
  <2>6. CASE ~IsMethod(g)
    <3>1. g \in Function
        BY <2>6 DEF IsMethod
    <3>2. IsA(w, T[g])
      <4>1. IsA(x.type, T[g])
          BY <1>5, <2>1, <2>6, <3>1 DEF Typed
      <4> QED BY <2>1, <2>3, <4>1, IsAIsAnOrder
    <3>3. Owned(env, g, w)
      <4>1. /\ <<g, Pos0>> \in DOMAIN env
            /\ env[<<g, Pos0>>] = TOP \/ (x.kind \in ByValue /\ x.type \in env[<<g, Pos0>>])
          BY <2>5, <3>1 DEF Carried
      <4>2. x.kind \in ByValue => w = x.type
          BY DEF Values, ByValue, OwnObject
      <4> QED BY <4>1, <4>2 DEF Owned
    <3> QED BY <2>3, <2>4, <2>5, <2>6, <3>1, <3>2, <3>3
  <2>7. CASE IsMethod(g)
    <3> DEFINE t == Method[FinalOverrider(w)]
               C == ClassOf(g)
    <3>1. C \in Class /\ g = Method[C]
        BY <2>7, MethodsAndClasses
    <3>2. Declares(C) /\ IsA(w, C)
      <4>1. Declares(C) /\ IsA(x.type, C)
          BY <1>5, <2>1, <2>7 DEF Typed
      <4> QED BY <2>1, <2>3, <4>1, IsAIsAnOrder
    <3>3. t \in Callable /\ t \notin Function
        BY <2>3, OverriderIsNearest, MethodsAndClasses DEF IsMethod
    <3>4. t \in seen
      <4>1. CASE FinalOverrider(w) = C
          BY <2>4, <3>1, <4>1
      <4>2. CASE FinalOverrider(w) # C
        <5>1. ReceiverTypes(env, f, g) = TOP \/ w \in ReceiverTypes(env, f, g)
            BY <1>1, <1>4, <2>1, <2>2, <2>7, ReceiverIsFound
        <5>2. /\ IsVirtual(code, g) /\ t \in DispatchTargets(code, g) /\ t # g
              /\ Decide(env, f, g) = KeepAll \/ t \in Decide(env, f, g)
            BY <1>1, <2>3, <2>7, <3>2, <4>2, <5>1, DecisionIsSound
        <5>3. g \in DirectCallees(code, f)
            BY <1>1, <2>1, RowsOfProgram
        <5>4. kept[f, g] = Decide(env, f, g)
            BY <1>2, <5>2, <5>3 DEF Decisions, env
        <5>5. Burst(f, g) = (IF kept[f, g] = KeepAll THEN DispatchTargets(code, g) ELSE kept[f, g]) \ {g}
            BY <1>1, <5>2 DEF Burst
        <5> HIDE DEF t
        <5>6. t \in Burst(f, g)
            BY <5>2, <5>4, <5>5
        <5>7. t \in AllKids(f)
            BY <1>1, <5>3, <5>6 DEF AllKids
        <5> QED BY <2>4, <5>7
      <4> QED BY <4>1, <4>2
    <3> HIDE DEF t
    <3>5. <<t, w>> \in X
        BY <2>3, <3>3, <3>4
    <3> QED BY <2>7, <3>5 DEF t
  <2> QED BY <2>6, <2>7
<1>8. ASSUME NEW z \in X PROVE FramesAfter(z) \subseteq X
  <2>1. PICK f \in Callable, v \in Class : z = <<f, v>>
      OBVIOUS
  <2> DEFINE of(x, g) == {<<IF IsMethod(g) THEN Method[FinalOverrider(w)] ELSE g, w>> : w \in Values(x, v)}
  <2>2. FramesAfter(z) = UNION {UNION {of(x, g) : x \in Sites(f, g)} : g \in Callable}
      BY <2>1 DEF FramesAfter
  <2>3. <<f, v>> \in X
      BY <2>1
  <2> HIDE DEF of, X
  <2> SUFFICES ASSUME NEW y \in FramesAfter(z) PROVE y \in X
      OBVIOUS
  <2>4. PICK g \in Callable : y \in UNION {of(x, g) : x \in Sites(f, g)}
      BY <2>2
  <2>5. PICK x \in Sites(f, g) : y \in of(x, g)
      BY <2>4
  <2>6. PICK w \in Values(x, v) : y = <<IF IsMethod(g) THEN Method[FinalOverrider(w)] ELSE g, w>>
      BY <2>5 DEF of
  <2> QED BY <1>7, <2>3, <2>6
<1>9. Entered \subseteq {x[1] : x \in X}
  <2>1. X \in SUBSET (Callable \X Class)
      OBVIOUS
  <2> HIDE DEF X
  <2> QED BY <1>1, <1>6, <1>8, <2>1, EnteredIsLeast
<1>10. \A x \in X : x[1] \in seen
    OBVIOUS
<1> HIDE DEF X
<1> QED BY <1>9, <1>10 DEF seen

DevirtSpec(programs, root) == DevirtInit(programs, root) /\ [][DevirtNext]_devirtVars

\* decide is sound (model.py:1497), for every program that compiles, every order of the
\* calls, any limit of the engine and an open or a closed world: if the program is
\* supported, the pruned walk visits every callable that a run can enter.
THEOREM PruningIsSound ==
    ASSUME NEW programs, NEW root
    PROVE  DevirtSpec(programs, root) => []PrunesOnlyTheUnreachable
<1>1. DevirtInv(root) => PrunesOnlyTheUnreachable
  <2> SUFFICES ASSUME DevirtInv(root), Pruned, Supported PROVE Entered \ {tour.root} \subseteq Yielded
      BY DEF PrunesOnlyTheUnreachable
  <2>1. Entered \subseteq tour.seen
      BY WalkCoversRuns
  <2>2. tour.seen = {tour.root} \union Yielded
    <3>1. gamma.done
      <4>1. tour.begun
          BY DEF Pruned, Exhausted
      <4>2. StartTour("prune", root, Unbounded).begun = FALSE
          BY DEF StartTour
      <4> QED BY <4>1, <4>2 DEF DevirtInv
    <3> QED BY <3>1 DEF DevirtInv, TourInv, SeenOK
  <2> QED BY <2>1, <2>2
<1> QED BY <1>1, DevirtAlways, PTL DEF DevirtSpec

-----------------------------------------------------------------------------
(* No more classes than are passed. *)

\* The static classes of what callables of A pass to g.
Passed(A, g) == {x.type : x \in UNION {Sites(f, g) : f \in A}}

\* The callables analysed are those that the root calls, at some depth, and what is bound
\* to a parameter is passed there.
Traced(root, A, e) ==
    /\ \A X \in SUBSET Callable :
          root \in X /\ (\A f \in X : \A g : Calls(f, g) => g \in X) => A \subseteq X
    /\ \A g \in Callable : <<g, Pos0>> \in DOMAIN e =>
          e[<<g, Pos0>>] \in SUBSET (Passed(A, g) \intersect Class)

LEMMA JoinIsUnion ==
    ASSUME NEW env, NEW binds, NEW p, NEW S \in SUBSET Class,
           p \in DOMAIN env => env[p] \in SUBSET S,
           \A b \in binds : b[1] = p => b[2] \in SUBSET S,
           p \in DOMAIN Join(env, binds)
    PROVE  Join(env, binds)[p] \in SUBSET S
<1> DEFINE keys == DOMAIN env \union {b[1] : b \in binds}
           sets(key) == {b[2] : b \in {x \in binds : x[1] = key}} \union {Look(env, key)}
           J == Join(env, binds)
<1>1. J = [key \in keys |-> IF TOP \in sets(key) THEN TOP ELSE UNION sets(key)]
    BY Zenon DEF Join
<1>2. \A v \in sets(p) : v \in SUBSET S
  <2>1. Look(env, p) \in SUBSET S
      BY DEF Look
  <2>2. \A b \in {x \in binds : x[1] = p} : b[2] \in SUBSET S
      OBVIOUS
  <2> QED BY <2>1, <2>2
<1> HIDE DEF keys, sets
<1>3. p \in keys
    BY <1>1
<1>4. J[p] = IF TOP \in sets(p) THEN TOP ELSE UNION sets(p)
    BY <1>1, <1>3
<1>5. TOP \notin sets(p)
  <2>1. TOP \notin SUBSET S
      BY TopIsNoSet
  <2> QED BY <1>2, <2>1
<1>6. J[p] = UNION sets(p)
    BY <1>4, <1>5
<1> HIDE DEF J
<1>7. J[p] \subseteq S
    BY <1>2, <1>6
<1> QED BY <1>7 DEF J

\* The variables and the classes that _seed_locals binds are not parameters.
LEMMA SeedsAreLocals ==
    ASSUME NEW root, Given(root), Supported, NEW f \in Callable, NEW h, NEW b \in Seeds(f)
    PROVE  b[1] # <<h, Pos0>>
<1> DEFINE made(g) == {<<<<f, a.type>>, {a.type}>> : a \in {x \in Args(f, g) : x.src = "construct"}}
           named(g) == {<<<<f, a.decl>>, {a.type}>> : a \in {x \in Args(f, g) : x.src \in {"local", "this"}}}
<1>1. Seeds(f) = UNION {made(g) \union named(g) : g \in Callable}
    BY DEF Seeds
<1> HIDE DEF made, named
<1>2. PICK g \in Callable : b \in made(g) \union named(g)
    BY <1>1
<1>3. PICK a \in Args(f, g) : \/ a.src = "construct" /\ b[1] = <<f, a.type>>
                              \/ a.src \in {"local", "this"} /\ b[1] = <<f, a.decl>>
  <2>1. CASE b \in made(g)
    <3>1. PICK a \in {x \in Args(f, g) : x.src = "construct"} : b = <<<<f, a.type>>, {a.type}>>
        BY <2>1 DEF made
    <3>2. a \in Args(f, g) /\ a.src = "construct" /\ b[1] = <<f, a.type>>
        BY <3>1
    <3> QED BY <3>2
  <2>2. CASE b \in named(g)
    <3>1. PICK a \in {x \in Args(f, g) : x.src \in {"local", "this"}} : b = <<<<f, a.decl>>, {a.type}>>
        BY <2>2 DEF named
    <3>2. a \in Args(f, g) /\ a.src \in {"local", "this"} /\ b[1] = <<f, a.decl>>
        BY <3>1
    <3> QED BY <3>2
  <2> QED BY <1>2, <2>1, <2>2
<1>4. g \in Function /\ a \in {Source(f, x) : x \in Sites(f, g)}
    BY <1>3 DEF Args, IsMethod
<1>5. PICK x \in Sites(f, g) : a = Source(f, x)
    BY <1>4
<1>6. x.type \in Class /\ Calls(f, g)
    BY <1>5, SitesAreExpressions
<1>7. x.kind \notin {"refvar", "param", "this"}
    BY <1>4, <1>5, <1>6, HandedKinds
<1>8. b[1] = <<f, x.type>> \/ b[1] = <<f, <<f, x.type>>>>
    BY <1>3, <1>5, <1>7, DeclOf
<1>9. x.type # Pos0 /\ <<f, x.type>> # Pos0
    BY <1>6, KeysDiffer
<1> QED BY <1>8, <1>9

\* A call binds the parameter of its callee only, to the classes of what it passes.
LEMMA BindsWhatIsPassed ==
    ASSUME NEW root, Given(root), Supported, Exact, NEW env, EnvOK(env),
           NEW f \in Callable, NEW g \in Callable, Calls(f, g),
           NEW h, NEW b \in Bindings(env, f, g), b[1] = <<h, Pos0>>
    PROVE  h = g /\ b[2] \in SUBSET ({x.type : x \in Sites(f, g)} \intersect Class)
<1>1. Args(f, g) # {}
    BY DEF Bindings
<1>2. Bindings(env, f, g) =
         {<<<<g, Pos0>>, ArgTypes(env, f, g)>>}
         \union {<<<<g, a.decl>>, Resolved(env, f, a)>> : a \in {x \in Args(f, g) : x.decl # None}}
         \union {<<<<g, a.type>>, {a.type}>> : a \in {x \in Args(f, g) : x.src = "construct"}}
    BY <1>1, Zenon DEF Bindings
<1>3. g \in Function /\ Args(f, g) = {Source(f, x) : x \in Sites(f, g)}
    BY <1>1 DEF Args, IsMethod
<1>4. \A x \in Sites(f, g) :
         x.type \in Class /\ x.kind \in ByValue /\ x.kind \notin {"refvar", "param", "this"}
  <2>1. f \in Function
      BY HandedKinds
  <2> TAKE x \in Sites(f, g)
  <2>2. x \in Handed
      BY <1>3, <2>1 DEF Handed
  <2>3. x.kind \in ByValue
      BY <2>2 DEF Exact
  <2>4. x.type \in Class
      BY SitesAreExpressions
  <2> QED BY <2>3, <2>4 DEF ByValue
<1>5. CASE b = <<<<g, Pos0>>, ArgTypes(env, f, g)>>
  <2> DEFINE all == {Resolved(env, f, a) : a \in Args(f, g)}
             S == {x.type : x \in Sites(f, g)} \intersect Class
  <2>1. \A v \in all : v \in SUBSET S
    <3> SUFFICES ASSUME NEW x \in Sites(f, g) PROVE Resolved(env, f, Source(f, x)) \in SUBSET S
        BY <1>3
    <3>1. Resolved(env, f, Source(f, x)) = {x.type}
        BY <1>4, ResolvedOf
    <3>2. x.type \in S
        BY <1>4
    <3> HIDE DEF S
    <3> QED BY <3>1, <3>2
  <2>2. ArgTypes(env, f, g) = IF TOP \in all THEN TOP ELSE UNION all
      BY Zenon DEF ArgTypes
  <2>3. S \in SUBSET Class
      OBVIOUS
  <2>4. h = g /\ b[2] = ArgTypes(env, f, g)
      BY <1>5
  <2> HIDE DEF all, S
  <2>5. TOP \notin all
      BY <2>1, <2>3, TopIsNoSet
  <2>6. ArgTypes(env, f, g) \in SUBSET S
      BY <2>1, <2>2, <2>5
  <2> QED BY <2>4, <2>6 DEF S
<1>6. ASSUME NEW a \in Args(f, g), a.decl # None, b = <<<<g, a.decl>>, Resolved(env, f, a)>> PROVE FALSE
  <2>1. PICK x \in Sites(f, g) : a = Source(f, x)
      BY <1>3
  <2>2. x.type \in Class /\ x.kind \notin {"refvar", "param", "this"} /\ x.kind \in ByValue
      BY <1>4
  <2>3. a.decl = <<f, x.type>> \/ a.decl = <<x.type>>
    <3>1. x.kind # "gref"
        BY <2>2 DEF ByValue
    <3> QED BY <1>6, <2>1, <2>2, <3>1, DeclOf
  <2>4. a.decl # Pos0
      BY <2>2, <2>3, KeysDiffer
  <2>5. b[1] = <<g, a.decl>>
      BY <1>6
  <2> QED BY <2>4, <2>5
<1>7. ASSUME NEW a \in Args(f, g), a.src = "construct", b = <<<<g, a.type>>, {a.type}>> PROVE FALSE
  <2>1. PICK x \in Sites(f, g) : a = Source(f, x)
      BY <1>3
  <2>2. x.type \in Class /\ a.type = x.type
      BY <1>4, <1>7, <2>1, DeclOf
  <2>3. a.type # Pos0
      BY <2>2, KeysDiffer
  <2>4. b[1] = <<g, a.type>>
      BY <1>7
  <2> QED BY <2>3, <2>4
<1> QED BY <1>2, <1>5, <1>6, <1>7

-----------------------------------------------------------------------------
(* The engine keeps to that. *)

LEMMA PassedMore ==
    ASSUME NEW A, NEW B, A \subseteq B, NEW g
    PROVE  Passed(A, g) \subseteq Passed(B, g)
BY DEF Passed

\* _visit adds a callable and binds none of the parameters.
LEMMA VisitTraces ==
    ASSUME NEW root, Given(root), Supported, NEW f \in Callable, NEW s, GammaOK(s, root, {f}),
           Traced(root, s.analysed, s.env),
           \A X \in SUBSET Callable :
              root \in X /\ (\A h \in X : \A g : Calls(h, g) => g \in X) => f \in X
    PROVE  Traced(root, Visited(s, f).analysed, Visited(s, f).env)
<1>1. CASE f \in s.analysed
  <2>1. Visited(s, f) = s
      BY <1>1 DEF Visited
  <2> QED BY <2>1
<1>2. CASE f \notin s.analysed
  <2> DEFINE A == s.analysed
             e == s.env
             B == A \union {f}
             J == Join(e, Seeds(f))
             T == Append(s.stack, [fn |-> f, todo |-> DirectCallees(code, f)])
  <2>1. Visited(s, f).analysed = B /\ Visited(s, f).env = J
    <3>1. Visited(s, f) = [s EXCEPT !.analysed = A \union {f}, !.env = J, !.stack = T]
      <4> HIDE DEF J
      <4> QED BY <1>2 DEF Visited, J
    <3> DEFINE S == s.stack
               c == s.count
               d == s.done
    <3>2. s = [stack |-> S, analysed |-> A, count |-> c, env |-> e, done |-> d]
        BY DEF GammaOK
    <3> HIDE DEF J, T, S, A, c, d, e
    <3> QED BY <3>1, <3>2 DEF B
  <2>2. \A X \in SUBSET Callable :
           root \in X /\ (\A h \in X : \A g : Calls(h, g) => g \in X) => B \subseteq X
      BY DEF Traced
  <2>3. ASSUME NEW g \in Callable, <<g, Pos0>> \in DOMAIN J
        PROVE  J[<<g, Pos0>>] \in SUBSET (Passed(B, g) \intersect Class)
    <3> DEFINE p == <<g, Pos0>>
               S == Passed(B, g) \intersect Class
    <3>1. p \in DOMAIN e => e[p] \in SUBSET S
      <4>1. Passed(A, g) \subseteq Passed(B, g)
          BY PassedMore
      <4>2. p \in DOMAIN e => e[p] \in SUBSET (Passed(A, g) \intersect Class)
          BY DEF Traced
      <4> HIDE DEF p, e, A, B
      <4> QED BY <4>1, <4>2
    <3>2. \A b \in Seeds(f) : b[1] # p
        BY SeedsAreLocals
    <3>3. S \in SUBSET Class
        OBVIOUS
    <3>4. p \in DOMAIN Join(e, Seeds(f))
        BY <2>3
    <3> HIDE DEF p, S, e
    <3>5. Join(e, Seeds(f))[p] \in SUBSET S
        BY <3>1, <3>2, <3>3, <3>4, JoinIsUnion
    <3> QED BY <3>5 DEF p, S
  <2> HIDE DEF J, B
  <2>4. Traced(root, B, J)
      BY <2>2, <2>3 DEF Traced
  <2> QED BY <2>1, <2>4
<1> QED BY <1>1, <1>2

\* A call that is bound is traced.
LEMMA BindingTraces ==
    ASSUME NEW root, Given(root), Supported, Exact, NEW A \in SUBSET Callable, NEW e, EnvOK(e),
           Traced(root, A, e), NEW f \in A, NEW g \in Callable, Calls(f, g)
    PROVE  Traced(root, A, Join(e, Bindings(e, f, g)))
<1> DEFINE B == Bindings(e, f, g)
           J == Join(e, B)
<1>1. ASSUME NEW h \in Callable, <<h, Pos0>> \in DOMAIN J
      PROVE  J[<<h, Pos0>>] \in SUBSET (Passed(A, h) \intersect Class)
  <2> DEFINE p == <<h, Pos0>>
             S == Passed(A, h) \intersect Class
  <2>1. p \in DOMAIN e => e[p] \in SUBSET S
      BY DEF Traced
  <2>2. ASSUME NEW b \in B, b[1] = p PROVE b[2] \in SUBSET S
    <3>1. h = g /\ b[2] \in SUBSET ({x.type : x \in Sites(f, g)} \intersect Class)
        BY <2>2, BindsWhatIsPassed
    <3>2. {x.type : x \in Sites(f, g)} \subseteq Passed(A, g)
        BY DEF Passed
    <3> QED BY <3>1, <3>2
  <2>3. S \in SUBSET Class
      OBVIOUS
  <2>4. p \in DOMAIN Join(e, B)
      BY <1>1
  <2> HIDE DEF p, S, B
  <2>5. Join(e, B)[p] \in SUBSET S
      BY <2>1, <2>2, <2>3, <2>4, JoinIsUnion
  <2> QED BY <2>5 DEF p, S
<1> HIDE DEF J
<1>2. Traced(root, A, J)
    BY <1>1 DEF Traced
<1> QED BY <1>2 DEF J

LEMMA TracedFixed ==
    ASSUME SameProgram
    PROVE  (Exact' <=> Exact) /\ \A root, A, e : Traced(root, A, e)' <=> Traced(root, A, e)
<1>1. program' = program /\ tour'.root = tour.root
    BY DEF SameProgram
<1>2. \A f, g : Sites(f, g)' = Sites(f, g) /\ (Calls(f, g)' <=> Calls(f, g))
    BY <1>1 DEF Sites, Calls
<1>3. Exact' <=> Exact
    BY <1>1, <1>2 DEF Exact, Handed
<1>4. \A A, g : Passed(A, g)' = Passed(A, g)
    BY <1>2 DEF Passed
<1>5. \A root, A, e : Traced(root, A, e)' <=> Traced(root, A, e)
    BY <1>2, <1>4 DEF Traced
<1> QED BY <1>3, <1>5

TracedInv(root) == Supported /\ Exact => Traced(root, gamma.analysed, gamma.env)

LEMMA TracingStarts ==
    ASSUME NEW root, Given(root), gamma = Engine(root)
    PROVE  TracedInv(root)
<1> SUFFICES ASSUME Supported, Exact PROVE Traced(root, gamma.analysed, gamma.env)
    BY DEF TracedInv
<1> DEFINE c == [f \in Callable |-> 0]
           s == [stack |-> << >>, analysed |-> {}, count |-> c, env |-> << >>, done |-> FALSE]
<1>1. root \in Callable
    BY DEF Given, Compiles, Callable
<1>2. GammaOK(s, root, {root})
  <2>1. Frames(<< >>, {})
      BY DEF Frames
  <2>2. c \in [Callable -> Nat] /\ \A g \in Callable : c[g] <= Cardinality(Counted(<< >>, {}, g))
    <3>1. \A g : Counted(<< >>, {}, g) = {}
        BY DEF Counted
    <3> QED BY <3>1, FS_EmptySet
  <2>3. EnvOK(<< >>)
      BY DEF EnvOK
  <2> HIDE DEF c
  <2>4. EngineOK(root, << >>, {}, c, << >>, {root})
      BY <2>1, <2>2, <2>3 DEF EngineOK
  <2> QED BY <2>4 DEF GammaOK
<1>3. Traced(root, {}, << >>)
    BY DEF Traced
<1>4. s.analysed = {} /\ s.env = << >>
    OBVIOUS
<1>5. gamma = Visited(s, root)
    BY DEF Engine
<1> HIDE DEF s, c
<1> QED BY <1>1, <1>2, <1>3, <1>4, <1>5, VisitTraces

LEMMA BindTraces ==
    ASSUME NEW root, Given(root), GammaOK(gamma, root, {}), TracedInv(root), Bind, SameProgram
    PROVE  TracedInv(root)'
<1> SUFFICES ASSUME Supported, Exact PROVE Traced(root, gamma'.analysed, gamma'.env)
    BY ProgramFixed, TracedFixed DEF TracedInv
<1> DEFINE S == gamma.stack
           A == gamma.analysed
           c == gamma.count
           e == gamma.env
           d == gamma.done
           n == Len(S)
           f == S[n].fn
<1>1. gamma = [stack |-> S, analysed |-> A, count |-> c, env |-> e, done |-> d] /\ EngineOK(root, S, A, c, e, {})
    BY DEF GammaOK
<1>2. PICK g \in S[n].todo :
        gamma' = IF c[g] >= KLimit THEN Less(g) ELSE Visited(Bound(Less(g), f, g), g)
    BY DEF Bind, GTop
<1>3. S # << >> /\ Traced(root, A, e)
    BY DEF Bind, TracedInv
<1> DEFINE T == [S EXCEPT ![n] = [fn |-> f, todo |-> S[n].todo \ {g}]]
           l == [stack |-> T, analysed |-> A, count |-> c, env |-> e, done |-> d]
<1>4. Less(g) = l
  <2>1. Less(g) = [gamma EXCEPT !.stack = [S EXCEPT ![n] = [S[n] EXCEPT !.todo = @ \ {g}]]]
      BY DEF Less
  <2>2. [S[n] EXCEPT !.todo = @ \ {g}] = [fn |-> f, todo |-> S[n].todo \ {g}]
    <3>1. S[n] = [fn |-> f, todo |-> S[n].todo]
        BY <1>1, <1>3, FrameFields DEF EngineOK, Frames
    <3> QED BY <3>1
  <2>3. Less(g) = [gamma EXCEPT !.stack = T]
      BY <2>1, <2>2
  <2> HIDE DEF T, S, A, c, e, d
  <2> QED BY <1>1, <2>3
<1>5. /\ f \in Callable /\ g \in Callable
      /\ c[g] < KLimit => EngineOK(root, T, A, [c EXCEPT ![g] = @ + 1], Join(e, Bindings(e, f, g)), {g})
  <2>1. Lessened(T, S, n, g)
      BY DEF Lessened
  <2> HIDE DEF T, S, A, c, e, d
  <2> QED BY <1>1, <1>3, <2>1, EngineBinds
<1>6. f \in A /\ Calls(f, g) /\ A \in SUBSET Callable /\ EnvOK(e) /\ c[g] \in Nat /\ KLimit \in Nat
  <2> HIDE DEF A, c, e, d
  <2>1. Frames(S, A) /\ A \in SUBSET Callable /\ EnvOK(e) /\ c \in [Callable -> Nat]
      BY <1>1 DEF EngineOK
  <2>2. n \in DOMAIN S
      BY <1>3, <2>1, FrameFields DEF Frames
  <2>3. f \in A /\ Calls(f, g)
      BY <2>1, <2>2 DEF Frames
  <2> QED BY <1>5, <2>1, <2>3, ProgramIsOfSymbols
<1> HIDE DEF T, S, A, c, e, d, n, f
<1>7. CASE c[g] >= KLimit
  <2>1. gamma' = l
      BY <1>2, <1>4, <1>7
  <2> QED BY <1>3, <2>1
<1>8. CASE ~(c[g] >= KLimit)
  <2> DEFINE D == [c EXCEPT ![g] = @ + 1]
             J == Join(e, Bindings(e, f, g))
             b == Bound(l, f, g)
  <2>1. EngineOK(root, T, A, D, J, {g})
      BY <1>5, <1>6, <1>8
  <2>2. b = [stack |-> T, analysed |-> A, count |-> D, env |-> J, done |-> d]
    <3>1. b = [l EXCEPT !.env = J, !.count = D]
        BY DEF Bound
    <3> HIDE DEF D, J, b
    <3> QED BY <3>1
  <2>3. gamma' = Visited(b, g)
      BY <1>2, <1>4, <1>8
  <2>4. Traced(root, A, J)
      BY <1>3, <1>6, BindingTraces, <1>5
  <2>5. \A X \in SUBSET Callable :
           root \in X /\ (\A h \in X : \A k : Calls(h, k) => k \in X) => g \in X
      BY <1>3, <1>6 DEF Traced
  <2> HIDE DEF D, J, b, l
  <2>6. GammaOK(b, root, {g}) /\ b.analysed = A /\ b.env = J
      BY <2>1, <2>2 DEF GammaOK
  <2> QED BY <1>5, <2>3, <2>4, <2>5, <2>6, VisitTraces
<1> QED BY <1>7, <1>8

LEMMA TracedAlways ==
    ASSUME NEW root, NEW programs
    PROVE  DevirtSpec(programs, root) => []TracedInv(root)
<1>1. DevirtInit(programs, root) => TracedInv(root)
    BY TracingStarts DEF DevirtInit, Given
<1>2. DevirtInv(root) /\ TracedInv(root) /\ [DevirtNext]_devirtVars => TracedInv(root)'
  <2> SUFFICES ASSUME DevirtInv(root), TracedInv(root), [DevirtNext]_devirtVars PROVE TracedInv(root)'
      OBVIOUS
  <2>1. Given(root) /\ GammaOK(gamma, root, {})
      BY DEF DevirtInv
  <2>2. SameProgram
    <3>1. CASE gamma.done /\ TourNext /\ UNCHANGED <<program, closed, gamma>>
        BY <3>1, RequestStays DEF SameProgram, DevirtInv, TourNext
    <3> QED BY <3>1 DEF DevirtNext, devirtVars, tourVars, SameProgram
  <2>3. CASE Bind
      BY <2>1, <2>2, <2>3, BindTraces
  <2>4. CASE gamma'.analysed = gamma.analysed /\ gamma'.env = gamma.env
      BY <2>2, <2>4, ProgramFixed, TracedFixed DEF TracedInv
  <2>5. CASE Return \/ Ready
    <3> DEFINE S == gamma.stack
               A == gamma.analysed
               c == gamma.count
               e == gamma.env
               d == gamma.done
    <3>1. gamma = [stack |-> S, analysed |-> A, count |-> c, env |-> e, done |-> d]
        BY <2>1 DEF GammaOK
    <3> DEFINE T == SubSeq(S, 1, Len(S) - 1)
    <3>2. gamma' = [gamma EXCEPT !.stack = T] \/ gamma' = [gamma EXCEPT !.done = TRUE]
        BY <2>5 DEF Return, Ready
    <3> HIDE DEF S, A, c, e, d, T
    <3>3. gamma'.analysed = A /\ gamma'.env = e
        BY <3>1, <3>2
    <3> QED BY <2>4, <3>3 DEF A, e
  <2>6. CASE gamma' = gamma
      BY <2>4, <2>6
  <2> QED BY <2>3, <2>5, <2>6 DEF DevirtNext, devirtVars
<1> QED BY <1>1, <1>2, DevirtAlways, PTL DEF DevirtSpec

-----------------------------------------------------------------------------
(* No more overriders than there are classes. *)

\* What is virtual is a method, and may always be pruned.
LEMMA VirtualCallsArePrunable ==
    ASSUME NEW root, Given(root), NEW m \in Callable, IsVirtual(code, m)
    PROVE  /\ IsMethod(m)
           /\ DispatchTargets(code, m) # {} => DispatchSelection(code, m, FALSE).prunable
<1>1. IsMethod(m)
  <2>1. \/ m \in code.pure \/ OverriddenBy(code, m) # {} \/ Overridden(code, m) # {}
      BY DEF IsVirtual
  <2>2. program.owns \subseteq Class
      BY DEF Given, Compiles
  <2>3. m \in code.pure => m = Method[Base]
      BY RowsOfProgram
  <2>4. OverriddenBy(code, m) # {} => \E x \in program.owns : m = Method[NearestDeclarer(x)]
      BY RowsOfProgram
  <2>5. Overridden(code, m) # {} => \E x \in program.owns : m = Method[x]
      BY RowsOfProgram
  <2>6. \A x \in program.owns : NearestDeclarer(x) \in Class
    <3>1. program.owns \subseteq Class \ {Base}
        BY DEF Given, Compiles
    <3> QED BY <3>1, ProgramIsOfSymbols, OverriderIsNearest DEF NearestDeclarer
  <2>7. \E c \in Class : m = Method[c]
      BY <2>1, <2>2, <2>3, <2>4, <2>5, <2>6, ProgramIsOfSymbols
  <2> QED BY <2>7, MethodsAndClasses
<1>2. code.stub = {}
    BY DEF Given, GraphOf
<1>3. code.owner[m] # NoSym
    BY <1>1, RowsOfProgram, MethodsAndClasses
<1>4. DispatchTargets(code, m) # {} => UnprunableReasons(code, m) = {}
    BY <1>2, <1>3 DEF UnprunableReasons
<1>5. DispatchSelection(code, m, FALSE).prunable <=> UnprunableReasons(code, m) = {}
    BY DEF DispatchSelection
<1> QED BY <1>1, <1>4, <1>5

\* A candidate for the class of an object is the override that the object runs.
LEMMA CandidatesAreOverriders ==
    ASSUME NEW root, Given(root), NEW m \in Callable, IsMethod(m), Declares(ClassOf(m)),
           NEW c \in OwnCandidates(code, m) \union InheritedCandidates(code, m),
           c.type \in Objects, IsA(c.type, ClassOf(m))
    PROVE  c.target = Method[FinalOverrider(c.type)]
<1> DEFINE C == ClassOf(m)
           w == c.type
           x == FinalOverrider(w)
           D == DispatchTargets(code, m)
           owned == {code.owner[y] : y \in D} \ {NoSym}
<1>1. C \in Class /\ m = Method[C] /\ m \in Sym /\ w \in Class /\ Declares(C)
    BY MethodsAndClasses DEF Objects
<1>2. \A d \in Class : code.owner[Method[d]] = d /\ d # NoSym
    BY RowsOfProgram
<1>3. \A y \in D : \E d \in Class : Declares(d) /\ y = Method[d] /\ code.owner[y] = d
  <2>1. \A y \in D : \E d \in Class : Declares(d) /\ y = Method[d]
      BY <1>1, TargetsAreDeclared
  <2> HIDE DEF D
  <2> QED BY <1>2, <2>1
<1>4. x \in owned /\ x \in Class
  <2>1. Method[x] \in D
      BY ObjectsAreCandidates
  <2>2. x \in Class
      BY <1>1, OverriderIsNearest
  <2> HIDE DEF x, D
  <2> QED BY <1>2, <2>1, <2>2
<1>5. owned \in SUBSET {d \in Class : Declares(d)}
  <2> HIDE DEF D
  <2> QED BY <1>3
<1>6. CASE c \in OwnCandidates(code, m)
  <2>1. PICK t \in D : c = Candidate(code.owner[t], t, FALSE)
      BY <1>6 DEF OwnCandidates
  <2>2. w = code.owner[t] /\ c.target = t
      BY <2>1 DEF Candidate
  <2>3. PICK d \in Class : Declares(d) /\ t = Method[d] /\ code.owner[t] = d
      BY <1>3
  <2>4. FinalOverrider(d) = d
      BY <2>3, OverriderOfBase
  <2> QED BY <2>2, <2>3, <2>4
<1>7. CASE c \in InheritedCandidates(code, m)
  <2> DEFINE heirs == AllSubclasses(code, C) \ owned
             picked(b) == {Candidate(b, z, TRUE) : z \in {y \in D : code.owner[y] \in NearestOwned(code, b, owned)}}
  <2>1. InheritedCandidates(code, m) = UNION {picked(b) : b \in heirs}
    <3>1. code.owner[m] = C /\ C # NoSym
        BY <1>1, <1>2
    <3> QED BY <3>1, Zenon DEF InheritedCandidates
  <2>2. PICK b \in heirs : c \in picked(b)
    <3> HIDE DEF picked, heirs
    <3> QED BY <1>7, <2>1
  <2>3. PICK t \in D : c = Candidate(b, t, TRUE) /\ code.owner[t] \in NearestOwned(code, b, owned)
    <3> HIDE DEF D, owned
    <3> QED BY <2>2
  <2>4. w = b /\ c.target = t /\ w \notin owned
    <3> HIDE DEF D, owned
    <3> QED BY <2>3 DEF Candidate
  <2> HIDE DEF owned, D
  <2>5. ~Declares(w)
    <3> SUFFICES ASSUME Declares(w) PROVE FALSE
        OBVIOUS
    <3>1. x = w
        BY <1>1, OverriderOfBase
    <3> QED BY <1>4, <2>4, <3>1
  <2>6. NearestOwned(code, w, owned) = {x}
      BY <1>1, <1>4, <1>5, <2>5, NearestDeclares
  <2>7. code.owner[t] = x
      BY <2>3, <2>4, <2>6
  <2>8. t = Method[x]
      BY <1>3, <2>7
  <2> QED BY <2>4, <2>8
<1> QED BY <1>6, <1>7

\* Of a receiver whose classes are known, only the overrides that they run are kept.
LEMMA DecisionIsExact ==
    ASSUME NEW root, Given(root), NEW env, NEW f, NEW m \in Callable, Declares(ClassOf(m)),
           IsVirtual(code, m), NEW W, W = ReceiverTypes(env, f, m), W \in SUBSET Objects, W # {},
           \A w \in W : IsA(w, ClassOf(m))
    PROVE  /\ Decide(env, f, m) # KeepAll
           /\ \A t \in Decide(env, f, m) : \E w \in W : t = Method[FinalOverrider(w)]
<1> DEFINE all == OwnCandidates(code, m) \union InheritedCandidates(code, m)
           picks == {c.target : c \in {x \in all : x.type \in W}}
<1>1. IsMethod(m)
    BY VirtualCallsArePrunable
<1>2. PICK w \in W : TRUE
    OBVIOUS
<1>3. w \in Objects /\ IsA(w, ClassOf(m))
    OBVIOUS
<1>4. DispatchTargets(code, m) # {}
    BY <1>1, <1>3, ObjectsAreCandidates
<1>5. DispatchSelection(code, m, FALSE).prunable
    BY <1>4, VirtualCallsArePrunable
<1>6. W # TOP
  <2>1. W \in SUBSET Class
      BY DEF Objects
  <2> QED BY <2>1, TopIsNoSet
<1>7. picks # {}
  <2>1. PICK b : Candidate(w, Method[FinalOverrider(w)], b) \in all
      BY <1>1, <1>3, ObjectsAreCandidates
  <2>2. Candidate(w, Method[FinalOverrider(w)], b).type = w
      BY DEF Candidate
  <2> HIDE DEF all
  <2> QED BY <2>1, <2>2
<1>8. Decide(env, f, m) = picks
  <2> DEFINE sel == DispatchSelection(code, m, FALSE).prunable
             types == ReceiverTypes(env, f, m)
             got == {c.target : c \in {x \in DispatchSelection(code, m, TRUE).candidates : x.type \in types}}
  <2>1. DispatchSelection(code, m, TRUE).candidates = all
      BY DEF DispatchSelection
  <2>2. Decide(env, f, m) = IF ~sel \/ types = TOP \/ got = {} THEN KeepAll ELSE got
      BY Zenon DEF Decide
  <2>3. got = picks /\ types = W /\ sel
      BY <1>5, <2>1
  <2> HIDE DEF sel, types, got, picks
  <2> QED BY <1>6, <1>7, <2>2, <2>3
<1>9. \A t \in picks : \E v \in W : t = Method[FinalOverrider(v)]
  <2> SUFFICES ASSUME NEW c \in all, c.type \in W PROVE c.target = Method[FinalOverrider(c.type)]
      OBVIOUS
  <2> QED BY <1>1, CandidatesAreOverriders
<1>10. picks # KeepAll
  <2>1. \A t \in picks : t \in Sym
    <3> SUFFICES ASSUME NEW t \in picks PROVE t \in Sym
        OBVIOUS
    <3>1. PICK v \in W : t = Method[FinalOverrider(v)]
        BY <1>9
    <3>2. v \in Class
        BY DEF Objects
    <3> QED BY <3>1, <3>2, OverriderIsNearest, MethodsAndClasses
  <2> HIDE DEF picks
  <2>2. picks \in SUBSET Sym
      BY <2>1
  <2> QED BY <2>2, KeepAllIsNoSet
<1> HIDE DEF picks
<1> QED BY <1>8, <1>9, <1>10

\* The classes of a parameter are those that were bound to it.
LEMMA ParameterIsLookedUp ==
    ASSUME NEW root, Given(root), Supported, NEW env, EnvOK(env), NEW f \in Function,
           NEW m \in Callable, IsMethod(m), NEW x \in Sites(f, m), x.kind = "param",
           <<f, Pos0>> \in DOMAIN env
    PROVE  ReceiverTypes(env, f, m) = env[<<f, Pos0>>]
<1> DEFINE e == program.body[f][m][1]
           r == Source(f, e)
           R == ReceiverTypes(env, f, m)
           known == r.value /\ r.src \in {"global", "call_result"} /\ r.type = ClassOf(m)
           found == IF r.decl # None /\ <<f, r.decl>> \in DOMAIN env THEN env[<<f, r.decl>>]
                    ELSE IF r.type # None /\ <<f, r.type>> \in DOMAIN env THEN env[<<f, r.type>>]
                    ELSE IF e.kind = "param" /\ <<f, Pos0>> \in DOMAIN env THEN env[<<f, Pos0>>]
                    ELSE IF r.src = "construct" THEN {r.type}
                    ELSE IF closed /\ e.kind = "param" THEN ClosedWorld(env, f)
                    ELSE TOP
<1>1. R = CASE known -> {r.type} [] OTHER -> found
    BY Zenon DEF ReceiverTypes
<1>2. f \in Callable /\ x.type \in Class
    BY SitesAreExpressions DEF Callable
<1>3. x = e
  <2> DEFINE s == program.body[f][m]
  <2>1. s \in Seq([kind : STRING, type : Class])
      BY <1>2 DEF Given, Compiles
  <2>2. Len(s) <= 1
      BY <1>2 DEF Supported, OneSite
  <2>3. PICK i \in DOMAIN s : x = s[i]
      BY DEF Sites
  <2> HIDE DEF s
  <2>4. i = 1
      BY <2>1, <2>2, <2>3
  <2> QED BY <2>3, <2>4 DEF s
<1>4. r = [src |-> "local", type |-> x.type, decl |-> <<f, "param">>, value |-> FALSE]
  <2>1. x.kind \in {"refvar", "param"}
      OBVIOUS
  <2> HIDE DEF e
  <2>2. Source(f, x) = [src |-> "local", type |-> x.type, decl |-> <<f, x.kind>>, value |-> FALSE]
      BY <2>1, SourceOf
  <2> QED BY <1>3, <2>2
<1>5. <<f, x.type>> \notin DOMAIN env
  <2> SUFFICES ASSUME <<f, x.type>> \in DOMAIN env PROVE FALSE
      OBVIOUS
  <2>1. PICK g \in Function : Ex("construct", x.type) \in Sites(g, f) \union Sites(f, g)
      BY <1>2, KeysOfContext
  <2> QED BY <2>1 DEF Supported, NoTypeKeyHit
<1>6. <<f, <<f, "param">>>> \notin DOMAIN env
    BY <1>2, KeysOfContext
<1>7. ~known
  <2> HIDE DEF r
  <2> QED BY <1>4
<1>8. R = found
  <2> HIDE DEF known, found
  <2> QED BY <1>1, <1>7
<1> DEFINE q == <<f, "param">>
<1>9. r.decl = q /\ r.type = x.type /\ e.kind = "param"
  <2> HIDE DEF r, e
  <2> QED BY <1>3, <1>4
<1> HIDE DEF r, e, q
<1>10. found = env[<<f, Pos0>>]
    BY <1>5, <1>6, <1>9 DEF q
<1> QED BY <1>8, <1>10

-----------------------------------------------------------------------------
(* What the walk visits can run. *)

LEMMA FrameFollows ==
    ASSUME NEW f, NEW v, NEW g \in Callable, NEW x \in Sites(f, g), NEW w \in Values(x, v)
    PROVE  <<IF IsMethod(g) THEN Method[FinalOverrider(w)] ELSE g, w>> \in FramesAfter(<<f, v>>)
<1> DEFINE of(y, h) == {<<IF IsMethod(h) THEN Method[FinalOverrider(u)] ELSE h, u>> : u \in Values(y, v)}
<1>1. FramesAfter(<<f, v>>) = UNION {UNION {of(y, h) : y \in Sites(f, h)} : h \in Callable}
    BY DEF FramesAfter
<1>2. <<IF IsMethod(g) THEN Method[FinalOverrider(w)] ELSE g, w>> \in of(x, g)
    OBVIOUS
<1> HIDE DEF of
<1> QED BY <1>1, <1>2

\* Only functions call; they pass values of classes that can be, and call the method on
\* what they were passed.
LEMMA ExactSites ==
    ASSUME NEW root, Given(root), tour.root = root, Supported, Exact, NEW T, Typed(T),
           NEW f \in Callable, NEW g \in Callable, NEW x \in Sites(f, g)
    PROVE  /\ Calls(f, g) /\ f \in Function
           /\ g \in Function =>
                 /\ x.kind \in ByValue /\ x.type \in Objects /\ IsA(x.type, T[g])
                 /\ \A v : Values(x, v) = {x.type}
           /\ IsMethod(g) =>
                 /\ x.kind = "param" /\ f # root /\ \A v : Values(x, v) = {v}
                 /\ Declares(ClassOf(g)) /\ IsA(T[f], ClassOf(g))
<1>1. Calls(f, g)
    BY SitesAreExpressions
<1>2. f \in Function
    BY <1>1, HandedKinds
<1>3. ASSUME g \in Function
      PROVE  /\ x.kind \in ByValue /\ x.type \in Objects /\ IsA(x.type, T[g])
             /\ \A v : Values(x, v) = {x.type}
  <2>1. x \in Handed
      BY <1>2, <1>3 DEF Handed
  <2>2. x.kind \in ByValue
      BY <2>1 DEF Exact
  <2>3. \A v : Values(x, v) = {x.type}
      BY <2>2 DEF Values, ByValue, OwnObject
  <2> QED BY <1>2, <1>3, <2>2, <2>3 DEF Typed, IsMethod
<1>4. ASSUME IsMethod(g)
      PROVE  /\ x.kind = "param" /\ f # root /\ \A v : Values(x, v) = {v}
             /\ Declares(ClassOf(g)) /\ IsA(T[f], ClassOf(g))
  <2>1. x.kind = "param" /\ f # root
      BY <1>4 DEF Exact
  <2>2. \A v : Values(x, v) = {v}
      BY <2>1 DEF Values, ByValue, OwnObject
  <2>3. x.type = T[f] /\ Declares(ClassOf(g)) /\ IsA(x.type, ClassOf(g))
      BY <1>2, <1>4, <2>1 DEF Typed, OwnObject
  <2> QED BY <2>1, <2>2, <2>3
<1> QED BY <1>1, <1>2, <1>3, <1>4

LEMMA WalkVisitsRuns ==
    ASSUME NEW root, DevirtInv(root), TracedInv(root), Pruned, Supported, Exact,
           NEW m \in tour.seen, IsMethod(m), CallersOf(m) = {}
    PROVE  m \in Entered
<1> DEFINE A == gamma.analysed
           env == gamma.env
<1>1. Given(root) /\ tour.root = root /\ tour.mode = "prune"
    BY DEF DevirtInv
<1>2. gamma.done /\ gamma.stack = << >> /\ TourInv /\ kept = Decisions
  <2>1. tour.begun /\ tour.stack = << >>
      BY DEF Pruned, Exhausted, Running
  <2>2. StartTour("prune", root, Unbounded).begun = FALSE
      BY DEF StartTour
  <2> QED BY <2>1, <2>2 DEF DevirtInv
<1>3. \A X \in SUBSET Sym : root \in X /\ (\A s \in X : AllKids(s) \subseteq X) => m \in X
    BY <1>1, <1>2 DEF TourInv, CoverOK, Surrounds
<1>4. /\ root \in A /\ A \in SUBSET Callable /\ EnvOK(env)
      /\ \A f \in A : \A g : Calls(f, g) => g \in A /\ Carried(env, f, g)
  <2>1. EngineOK(root, << >>, A, gamma.count, env, {})
      BY <1>2 DEF DevirtInv, GammaOK
  <2>2. \A f, h : ~Due(<< >>, f, h)
      BY DEF Due
  <2> HIDE DEF A, env
  <2> QED BY <2>1, <2>2 DEF EngineOK
<1>5. Traced(root, A, env)
    BY DEF TracedInv
<1>6. PICK T \in [Function -> Class] : T[root] = Base /\ Typed(T)
    BY <1>1 DEF Given, Compiles
<1>7. root \in Function /\ root \in Callable /\ root \in Sym /\ Callable \subseteq Sym
    BY <1>1, MethodsAndClasses DEF Given, Compiles, Callable
<1>8. \A f, g : g \in DirectCallees(code, f) <=> Calls(f, g)
    BY <1>1, RowsOfProgram
<1>9. \A f, g : Calls(f, g) => f \in Callable /\ g \in Callable /\ \E x : x \in Sites(f, g)
  <2> SUFFICES ASSUME NEW f, NEW g, Calls(f, g) PROVE f \in Callable /\ g \in Callable /\ Sites(f, g) # {}
      OBVIOUS
  <2>1. f \in Callable /\ g \in Callable
      BY DEF Calls
  <2> QED BY <1>1, <2>1, SitesAreExpressions
<1>10. \A f : AllKids(f) = DirectCallees(code, f) \union UNION {Burst(f, c) : c \in DirectCallees(code, f)}
    BY <1>1 DEF AllKids
<1> HIDE DEF A, env
<1>11. CASE Objects = {}
  <2>1. \A g : ~Calls(root, g)
    <3> SUFFICES ASSUME NEW g, Calls(root, g) PROVE FALSE
        OBVIOUS
    <3>1. PICK x : x \in Sites(root, g) /\ g \in Callable
        BY <1>9
    <3>2. g \in Function \/ IsMethod(g)
        BY DEF IsMethod
    <3> QED BY <1>1, <1>6, <1>7, <1>11, <3>1, <3>2, ExactSites
  <2>2. AllKids(root) = {}
    <3>1. DirectCallees(code, root) = {}
        BY <1>8, <2>1
    <3> QED BY <1>10, <3>1
  <2>3. m \in {root}
      BY <1>3, <1>7, <2>2
  <2> QED BY <1>7, <2>3 DEF IsMethod
<1>12. CASE Objects # {}
  <2>1. PICK E \in SUBSET (Callable \X Class) :
           /\ Entered = {x[1] : x \in E} /\ {root} \X Objects \subseteq E
           /\ \A x \in E : FramesAfter(x) \subseteq E
      BY <1>1, EnteredIsClosed
  <2>2. ASSUME NEW f \in Callable, NEW v, <<f, v>> \in E, NEW g \in Function, NEW x \in Sites(f, g)
        PROVE  <<g, x.type>> \in E
    <3>1. g \in Callable /\ ~IsMethod(g)
        BY DEF Callable, IsMethod
    <3>2. x.type \in Values(x, v)
        BY <1>1, <1>6, <3>1, ExactSites
    <3>3. <<g, x.type>> \in FramesAfter(<<f, v>>)
        BY <3>1, <3>2, FrameFollows
    <3> QED BY <2>1, <2>2, <3>3
  \* Every function that is analysed is entered.
  <2>3. \A f \in A : f \in Function => \E v : <<f, v>> \in E
    <3> DEFINE X == {f \in Callable : f \in Function => \E v : <<f, v>> \in E}
    <3>1. root \in X
      <4>1. PICK v : v \in Objects
          BY <1>12
      <4>2. <<root, v>> \in E
          BY <2>1, <4>1
      <4> QED BY <1>7, <4>2
    <3>2. ASSUME NEW f \in X, NEW g, Calls(f, g) PROVE g \in X
      <4>1. PICK x : x \in Sites(f, g) /\ g \in Callable
          BY <1>9, <3>2
      <4>2. f \in Function
          BY <1>1, <1>6, <4>1, ExactSites
      <4>3. PICK v : <<f, v>> \in E
          BY <4>2
      <4> QED BY <2>2, <4>1, <4>3
    <3>3. X \in SUBSET Callable
        OBVIOUS
    <3> HIDE DEF X
    <3>4. A \subseteq X
        BY <1>5, <3>1, <3>2, <3>3 DEF Traced
    <3> QED BY <3>4 DEF X
  \* Its classes are those of the objects that it is entered with.
  <2>4. ASSUME NEW f \in A, f \in Function, f # root
        PROVE  /\ <<f, Pos0>> \in DOMAIN env /\ env[<<f, Pos0>>] # {}
               /\ \A w \in env[<<f, Pos0>>] : w \in Objects /\ IsA(w, T[f]) /\ <<f, w>> \in E
    <3> DEFINE W == env[<<f, Pos0>>]
    <3>1. PICK h \in A : Calls(h, f)
      <4> DEFINE X == {root} \union {g \in Callable : \E k \in A : Calls(k, g)}
      <4>1. X \subseteq A
          BY <1>4
      <4>2. \A k \in X : \A g : Calls(k, g) => g \in X
          BY <1>9, <4>1
      <4>3. X \in SUBSET Callable /\ root \in X
          BY <1>7
      <4> HIDE DEF X
      <4>4. f \in X
          BY <1>5, <4>2, <4>3 DEF Traced
      <4> QED BY <2>4, <4>4 DEF X
    <3>2. <<f, Pos0>> \in DOMAIN env /\ Carried(env, h, f)
        BY <1>4, <2>4, <3>1 DEF Carried
    <3>3. W \in SUBSET (Passed(A, f) \intersect Class)
        BY <1>4, <1>5, <3>2 DEF Traced
    <3>4. W # {}
      <4>1. PICK x : x \in Sites(h, f)
          BY <1>9, <3>1
      <4>2. W \in SUBSET Class
          BY <3>3
      <4>3. W # TOP
          BY <4>2, TopIsNoSet
      <4>4. x.type \in W
          BY <2>4, <3>2, <4>1, <4>3 DEF Carried
      <4> QED BY <4>4
    <3>5. ASSUME NEW w \in W PROVE w \in Objects /\ IsA(w, T[f]) /\ <<f, w>> \in E
      <4>1. w \in Passed(A, f)
          BY <3>3
      <4> PICK k \in A : \E x \in Sites(k, f) : w = x.type
          BY <4>1 DEF Passed
      <4>2. PICK x \in Sites(k, f) : w = x.type
          OBVIOUS
      <4>3. k \in Callable /\ f \in Callable
          BY <1>4
      <4>4. k \in Function /\ x.type \in Objects /\ IsA(x.type, T[f])
          BY <1>1, <1>6, <2>4, <4>2, <4>3, ExactSites
      <4>5. PICK v : <<k, v>> \in E
          BY <2>3, <4>4
      <4>6. <<f, x.type>> \in E
          BY <2>2, <2>4, <4>2, <4>3, <4>5
      <4> QED BY <4>2, <4>4, <4>6
    <3> QED BY <3>2, <3>4, <3>5
  \* A target that is kept is run by one of these.
  <2>5. ASSUME NEW f \in A, NEW c, Calls(f, c), NEW t \in Burst(f, c)
        PROVE  t \in Callable /\ IsMethod(t) /\ t \in Entered
    <3>1. PICK x : x \in Sites(f, c) /\ f \in Callable /\ c \in Callable
        BY <1>9, <2>5
    <3>2. IsVirtual(code, c)
        BY <2>5 DEF Burst
    <3>3. IsMethod(c)
        BY <1>1, <3>1, <3>2, VirtualCallsArePrunable
    <3>4. /\ f \in Function /\ x.kind = "param" /\ f # root /\ \A v : Values(x, v) = {v}
          /\ Declares(ClassOf(c)) /\ IsA(T[f], ClassOf(c))
        BY <1>1, <1>6, <3>1, <3>3, ExactSites
    <3> DEFINE W == env[<<f, Pos0>>]
    <3>5. /\ <<f, Pos0>> \in DOMAIN env /\ W # {}
          /\ \A w \in W : w \in Objects /\ IsA(w, T[f]) /\ <<f, w>> \in E
        BY <2>4, <3>4
    <3>6. W = ReceiverTypes(env, f, c)
        BY <1>1, <1>4, <3>1, <3>3, <3>4, <3>5, ParameterIsLookedUp
    <3> HIDE DEF W
    <3>7. \A w \in W : IsA(w, ClassOf(c))
      <4>1. ClassOf(c) \in Class /\ T[f] \in Class /\ \A w \in W : w \in Class
          BY <3>1, <3>3, <3>4, <3>5, MethodsAndClasses DEF Objects
      <4> QED BY <3>4, <3>5, <4>1, IsAIsAnOrder
    <3>8. /\ Decide(env, f, c) # KeepAll
          /\ \A s \in Decide(env, f, c) : \E w \in W : s = Method[FinalOverrider(w)]
      <4>1. W \in SUBSET Objects
          BY <3>5
      <4> QED BY <1>1, <3>1, <3>2, <3>4, <3>5, <3>6, <3>7, <4>1, DecisionIsExact
    <3>9. kept[f, c] = Decide(env, f, c)
        BY <1>2, <1>8, <2>5, <3>1, <3>2 DEF Decisions, env
    <3>10. t \in Decide(env, f, c)
      <4>1. Burst(f, c) = (IF kept[f, c] = KeepAll THEN DispatchTargets(code, c) ELSE kept[f, c]) \ {c}
          BY <1>1, <3>2 DEF Burst
      <4> QED BY <2>5, <3>8, <3>9, <4>1
    <3>11. PICK w \in W : t = Method[FinalOverrider(w)]
        BY <3>8, <3>10
    <3>12. <<t, w>> \in FramesAfter(<<f, w>>)
        BY <3>1, <3>3, <3>4, <3>11, FrameFollows
    <3>13. <<t, w>> \in E
        BY <2>1, <3>5, <3>12
    <3>14. t \in Entered
        BY <2>1, <3>13
    <3>15. w \in Class
        BY <3>5 DEF Objects
    <3> QED BY <3>11, <3>14, <3>15, OverriderIsNearest, MethodsAndClasses
  <2> DEFINE X == {s \in Callable :
                     /\ s \in Function => s \in A
                     /\ IsMethod(s) /\ CallersOf(s) = {} => s \in Entered}
  <2>6. ASSUME NEW s \in X, NEW k \in AllKids(s) PROVE k \in X
    <3>1. CASE k \in DirectCallees(code, s)
      <4>1. Calls(s, k)
          BY <1>8, <3>1
      <4>2. s \in A
        <5>1. PICK x : x \in Sites(s, k) /\ k \in Callable
            BY <1>9, <4>1
        <5>2. s \in Function
            BY <1>1, <1>6, <5>1, ExactSites
        <5> QED BY <5>2
      <4>3. k \in Callable /\ k \in A
          BY <1>4, <4>1, <4>2
      <4>4. CallersOf(k) # {}
          BY <1>1, <4>1, RowsOfProgram
      <4> QED BY <4>3, <4>4
    <3>2. ASSUME NEW c \in DirectCallees(code, s), k \in Burst(s, c) PROVE k \in X
      <4>1. Calls(s, c)
          BY <1>8
      <4>2. s \in A
        <5>1. PICK x : x \in Sites(s, c) /\ c \in Callable
            BY <1>9, <4>1
        <5>2. s \in Function
            BY <1>1, <1>6, <5>1, ExactSites
        <5> QED BY <5>2
      <4>3. k \in Callable /\ IsMethod(k) /\ k \in Entered
          BY <2>5, <3>2, <4>1, <4>2
      <4> QED BY <4>3 DEF IsMethod
    <3> HIDE DEF X
    <3>3. k \in DirectCallees(code, s) \union UNION {Burst(s, c) : c \in DirectCallees(code, s)}
        BY <1>10
    <3> QED BY <3>1, <3>2, <3>3
  <2>7. root \in X
      BY <1>4, <1>7 DEF IsMethod
  <2>8. X \in SUBSET Sym
      BY <1>7
  <2> HIDE DEF X
  <2>9. m \in X
      BY <1>3, <2>6, <2>7, <2>8
  <2> QED BY <2>9 DEF X
<1> QED BY <1>11, <1>12

\* decide also prunes: where the program is supported, every object handed on is of a known
\* class and every receiver is the parameter, an override that the pruned walk visits
\* and that no call names can run.
THEOREM PruningIsExact ==
    ASSUME NEW programs, NEW root
    PROVE  DevirtSpec(programs, root) => []PrunesTheUnreachable
<1>1. DevirtInv(root) /\ TracedInv(root) => PrunesTheUnreachable
  <2> SUFFICES ASSUME DevirtInv(root), TracedInv(root), Pruned, Supported, Exact,
                      NEW m \in Yielded, IsMethod(m), CallersOf(m) = {}
               PROVE  m \in Entered
      BY DEF PrunesTheUnreachable
  <2>1. m \in tour.seen
    <3>1. gamma.done
      <4>1. tour.begun
          BY DEF Pruned, Exhausted
      <4>2. StartTour("prune", root, Unbounded).begun = FALSE
          BY DEF StartTour
      <4> QED BY <4>1, <4>2 DEF DevirtInv
    <3>2. tour.seen = {tour.root} \union Yielded
        BY <3>1 DEF DevirtInv, TourInv, SeenOK
    <3> QED BY <3>2
  <2> QED BY <2>1, WalkVisitsRuns
<1> QED BY <1>1, DevirtAlways, TracedAlways, PTL DEF DevirtSpec
=============================================================================
